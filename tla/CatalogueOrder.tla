--------------------------- MODULE CatalogueOrder ---------------------------
(***************************************************************************)
(* The presentation of a catalogue collection: the samples, or the         *)
(* template lineages of one sample. Creations, deletions and reorders take *)
(* the collection's advisory lock, read the rows and write them back; an   *)
(* item is shown on the web or hidden without the lock.                    *)
(* Edits keep an item's place, and a deletion of an older version of a     *)
(* lineage changes nothing here.                                           *)
(***************************************************************************)
EXTENDS Integers, Sequences, FiniteSets, SequencesExt

CONSTANTS
    Items,          \* samples, or template lineages
    NoItem,         \* a request that names no item
    Sessions,       \* requests being served
    NoSession       \* holder of the free lock

ASSUME OrderConstants ==
    /\ IsFiniteSet(Items)
    /\ NoItem \notin Items
    /\ NoSession \notin Sessions

VARIABLES
    items,          \* display_order, is_visible_on_web, and deletion
    lock,           \* holder of the advisory lock of the collection
    pc,             \* the next step of each session
    req,            \* the request of each session
    seen            \* the rows that each session has read

vars == <<items, lock, pc, req, seen>>

Rows == [status  : {"free", "active", "deleted"},
         order   : 0..Cardinality(Items),       \* 0: never had a place
         visible : BOOLEAN]

\* Orders as clients may send them: with repetitions, omissions, and items
\* that are not or no longer in the collection.
Orders == UNION { [1..n -> Items] : n \in 0..Cardinality(Items) }

Requests == [op    : {"create", "delete", "reorder", "show", "hide"},
             item  : Items \cup {NoItem},
             order : Orders]

NoRequest == [op |-> "create", item |-> NoItem, order |-> <<>>]

Incoming ==
    { r \in Requests : /\ r.item # NoItem <=> r.op \in {"delete", "show", "hide"}
                       /\ r.order # <<>> => r.op = "reorder" }

Active == { i \in Items : items[i].status = "active" }

NoRow == [status |-> "free", order |-> 0, visible |-> FALSE]

\* No request reads a deleted row again, so its other columns are left out.
DeletedRow == [NoRow EXCEPT !.status = "deleted"]

\* The rows that a request selects: the item it names, or the collection.
Selected(r) ==
    [i \in Items |-> IF i \in Active /\ r.item \in {i, NoItem} THEN items[i]
                                                             ELSE NoRow]

NothingRead == [i \in Items |-> NoRow]

Listed(rows) == { i \in Items : rows[i] # NoRow }

-----------------------------------------------------------------------------
Init ==
    /\ items = [i \in Items |-> NoRow]
    /\ lock = NoSession
    /\ pc = [s \in Sessions |-> "idle"]
    /\ req = [s \in Sessions |-> NoRequest]
    /\ seen = [s \in Sessions |-> NothingRead]

Begin(s) ==
    /\ pc[s] = "idle"
    /\ \E r \in Incoming :
          /\ req' = [req EXCEPT ![s] = r]
          /\ pc' = [pc EXCEPT ![s] = IF r.op \in {"show", "hide"} THEN "read"
                                                                  ELSE "lock"]
    /\ UNCHANGED <<items, lock, seen>>

\* Faulty variant: the lock is shared.
NeverTaken == TRUE

LockFree == lock = NoSession

\* lock_web_collection
Lock(s) ==
    /\ pc[s] = "lock"
    /\ LockFree
    /\ lock' = s
    /\ pc' = [pc EXCEPT ![s] = "read"]
    /\ UNCHANGED <<items, req, seen>>

\* max(display_order), get or list: a statement of its own, which sees what
\* was committed before it.
Read(s) ==
    /\ pc[s] = "read"
    /\ seen' = [seen EXCEPT ![s] = Selected(req[s])]
    /\ pc' = [pc EXCEPT ![s] = "write"]
    /\ UNCHANGED <<items, lock, req>>

\* The transaction ends, and the lock with it.
End(s) ==
    /\ pc' = [pc EXCEPT ![s] = "idle"]
    /\ req' = [req EXCEPT ![s] = NoRequest]
    /\ seen' = [seen EXCEPT ![s] = NothingRead]
    /\ lock' = IF lock = s THEN NoSession ELSE lock

\* create_sample_type, create_template: last in the order.
Create(s) ==
    /\ pc[s] = "write" /\ req[s].op = "create"
    /\ \E i \in Items :
          /\ items[i].status = "free"
          /\ items' = [items EXCEPT ![i] =
                [status |-> "active",
                 order |-> 1 + Max({ seen[s][j].order : j \in Items }),
                 visible |-> FALSE]]
    /\ End(s)

\* delete_sample_type, delete_template of the current version.
Delete(s) ==
    /\ pc[s] = "write" /\ req[s].op = "delete"
    /\ req[s].item \in Listed(seen[s])
    /\ items' = [items EXCEPT ![req[s].item] = DeletedRow]
    /\ End(s)

\* Faulty variant: places are counted from zero.
ZeroBased(order, i) == (CHOOSE n \in DOMAIN order : order[n] = i) - 1

\* enumerate(ids, 1)
Place(order, i) == CHOOSE n \in DOMAIN order : order[n] = i

\* Faulty variant: items that the order leaves out are accepted.
IsPartial(order, listed) == IsInjective(order) /\ ToSet(order) \subseteq listed

\* _validate_web_order: else 422, 404 or 409.
IsComplete(order, listed) == IsInjective(order) /\ ToSet(order) = listed

\* Faulty variant: the row is written as it was read.
PlacedAsRead(s, i) == [seen[s][i] EXCEPT !.order = Place(req[s].order, i)]

Placed(s, i) == [items[i] EXCEPT !.order = Place(req[s].order, i)]

\* reorder_samples, reorder_templates. The ORM updates the place, and only in
\* rows where it differs from the one that was read.
Reorder(s) ==
    /\ pc[s] = "write" /\ req[s].op = "reorder"
    /\ IsComplete(req[s].order, Listed(seen[s]))
    /\ items' = [i \in Items |->
          IF i \in ToSet(req[s].order)
                /\ Place(req[s].order, i) # seen[s][i].order
          THEN Placed(s, i)
          ELSE items[i]]
    /\ End(s)

\* set_sample_visibility, set_template_visibility: an UPDATE of this column by
\* primary key, if it changes what was read. A row deleted since stays deleted.
SetVisibility(s) ==
    /\ pc[s] = "write" /\ req[s].op \in {"show", "hide"}
    /\ req[s].item \in Listed(seen[s])
    /\ LET i == req[s].item
           visible == req[s].op = "show"
       IN  items' = IF seen[s][i].visible = visible \/ i \notin Active
                      THEN items
                      ELSE [items EXCEPT ![i].visible = visible]
    /\ End(s)

\* The request is refused or its connection lost.
Fail(s) ==
    /\ pc[s] # "idle"
    /\ End(s)
    /\ UNCHANGED items

Next == \E s \in Sessions :
    \/ Begin(s) \/ Lock(s) \/ Read(s)
    \/ Create(s) \/ Delete(s) \/ Reorder(s) \/ SetVisibility(s)
    \/ Fail(s)

Spec == Init /\ [][Next]_vars

-----------------------------------------------------------------------------
TypeOK ==
    /\ items \in [Items -> Rows]
    /\ \A i \in Active : items[i].order > 0
    /\ lock \in Sessions \cup {NoSession}
    /\ pc \in [Sessions -> {"idle", "lock", "read", "write"}]
    /\ req \in [Sessions -> Requests]
    /\ seen \in [Sessions -> [Items -> Rows]]

\* The display order is an order: no two active items share a place.
PlacesDistinct ==
    \A i, j \in Active : i # j => items[i].order # items[j].order

InOrder(list, rows) ==
    \A m, n \in DOMAIN list :
        m < n => rows[list[m]].order <= rows[list[n]].order

\* The list that clients are given.
Shown == CHOOSE list \in SetToSeqs(Active) : InOrder(list, items)

\* "Positions are assigned atomically": when an accepted reorder commits, the
\* items have exactly the places that it gives them, and no others are listed.
OrderAsRequested ==
    [][\A s \in Sessions :
          pc[s] = "write" /\ req[s].op = "reorder" /\ items' # items
                /\ pc'[s] = "idle"
             => Shown' = req[s].order]_vars

\* The rows implement the list: no request undoes what another one did to the
\* visibility of an item or to its place.
Listing == INSTANCE CatalogueListing WITH
    listing <- Shown,
    visible <- { i \in Active : items[i].visible },
    gone <- { i \in Items : items[i].status = "deleted" }

ImplementsListing == Listing!ListingSpec
=============================================================================
