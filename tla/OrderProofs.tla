---------------------------- MODULE OrderProofs ----------------------------
(***************************************************************************)
(* CatalogueOrder for every finite set of items and every set of sessions: *)
(* places stay distinct, an accepted reorder is applied exactly, and the   *)
(* rows implement CatalogueListing. What a creation, a deletion or a       *)
(* reorder has read under the advisory lock is still in the table when it  *)
(* writes; distinct places leave one list to show.                         *)
(***************************************************************************)
EXTENDS CatalogueOrder, FiniteSetTheorems, SequenceTheorems,
        WellFoundedInduction, TLAPS

Used == { i \in Items : items[i].status # "free" }

\* No place is beyond the number of items there have been.
OrderBounded == \A i \in Items : items[i].order <= Cardinality(Used)

LockingOps == {"create", "delete", "reorder"}

Locked(s) ==
    /\ pc[s] # "idle" => req[s] \in Incoming
    /\ pc[s] = "lock" => req[s].op \in LockingOps
    /\ pc[s] \in {"read", "write"} /\ req[s].op \in LockingOps => lock = s

\* The rows that a session has read have the status and the place of those in
\* the table. Their visibility may be another by now.
Current(rows) ==
    /\ Listed(rows) = Active
    /\ \A i \in Items : rows[i].order = IF i \in Active THEN items[i].order ELSE 0

SeenCurrent(s) ==
    pc[s] = "write" =>
       /\ req[s].op \in {"create", "reorder"} => Current(seen[s])
       /\ req[s].op = "delete" => Listed(seen[s]) \subseteq Active

\* There is a list to show.
ShownSound == Shown \in SetToSeqs(Active) /\ InOrder(Shown, items)

Inv ==
    /\ TypeOK
    /\ ShownSound
    /\ OrderBounded
    /\ PlacesDistinct
    /\ \A s \in Sessions : Locked(s) /\ SeenCurrent(s)

\* What the invariant says of the table alone.
TableSound ==
    /\ items \in [Items -> Rows]
    /\ \A i \in Active : items[i].order > 0
    /\ OrderBounded
    /\ PlacesDistinct

-----------------------------------------------------------------------------
\* A set of natural numbers that is not empty has a least element.
LEMMA LeastElement ==
    ASSUME NEW T \in SUBSET Nat, T # {}
    PROVE  \E t \in T : \A u \in T : t <= u
<1> DEFINE Below == { ss \in Nat \X Nat : ss[1] < ss[2] }
<1>1. IsWellFoundedOn(Below, Nat)
  BY NatLessThanWellFounded DEF OpToRel
<1>2. PICK t \in T : \A u \in T : <<u, t>> \notin Below
  <2> HIDE DEF Below
  <2> QED
    BY <1>1, WFMin
<1>3. ASSUME NEW u \in T
      PROVE  t <= u
  <2>1. u \in Nat /\ t \in Nat /\ <<u, t>> \notin Below
    BY <1>2
  <2> QED
    BY <2>1
<1> QED
  BY <1>3

\* Max is the maximum of a set of natural numbers that has a bound.
LEMMA MaxIsLargest ==
    ASSUME NEW S \in SUBSET Nat, S # {}, NEW n \in Nat, \A x \in S : x <= n
    PROVE  Max(S) \in S /\ \A x \in S : x <= Max(S)
<1> DEFINE T == { n - x : x \in S }
<1>1. T \subseteq Nat /\ T # {}
  <2>1. \A x \in S : x \in Nat /\ x <= n /\ n - x \in Nat
    OBVIOUS
  <2>2. PICK x \in S : TRUE
    OBVIOUS
  <2> QED
    BY <2>1, <2>2
<1>2. PICK t \in T : \A u \in T : t <= u
  <2> HIDE DEF T
  <2> QED
    BY <1>1, LeastElement
<1>3. PICK m \in S : t = n - m
  OBVIOUS
<1>4. \A x \in S : m >= x
  BY <1>2, <1>3
<1> QED
  BY <1>3, <1>4 DEF Max

LEMMA UsedFinite ==
    /\ IsFiniteSet(Used)
    /\ Cardinality(Used) \in Nat
    /\ Cardinality(Items) \in Nat
    /\ Cardinality(Used) <= Cardinality(Items)
  BY OrderConstants, FS_Subset, FS_CardinalityType DEF Used

LEMMA OrderType ==
    ASSUME NEW r \in Requests
    PROVE  \E n \in Nat : DOMAIN r.order = 1..n /\ r.order \in [1..n -> Items]
<1>1. r.order \in Orders
  BY DEF Requests
<1>2. PICK n \in 0..Cardinality(Items) : r.order \in [1..n -> Items]
  BY <1>1 DEF Orders
<1> QED
  BY <1>2, UsedFinite

LEMMA NoRequestType == NoRequest \in Requests /\ NoRow \in Rows /\ DeletedRow \in Rows
<1>1. <<>> \in [1..0 -> Items]
  OBVIOUS
<1>2. <<>> \in Orders
  <2>1. 0 \in 0..Cardinality(Items)
    BY UsedFinite
  <2> QED
    BY <1>1, <2>1 DEF Orders
<1>3. NoRequest \in Requests
  BY <1>2 DEF NoRequest, Requests
<1>4. NoRow \in Rows
  BY UsedFinite DEF NoRow, Rows
<1>5. DeletedRow \in Rows
  BY <1>4 DEF DeletedRow, Rows
<1> QED
  BY <1>3, <1>4, <1>5

\* The place of an item in an order that names it.
LEMMA PlaceIs ==
    ASSUME NEW order, NEW i \in ToSet(order)
    PROVE  Place(order, i) \in DOMAIN order /\ order[Place(order, i)] = i
  BY DEF Place, ToSet

-----------------------------------------------------------------------------
(* Lists *)

\* A list of a finite set names each element once.
LEMMA ListOf ==
    ASSUME NEW S, IsFiniteSet(S), NEW list \in SetToSeqs(S)
    PROVE  /\ list \in [1..Cardinality(S) -> S] /\ Cardinality(S) \in Nat
           /\ list \in Seq(S) /\ Len(list) = Cardinality(S)
           /\ \A m, n \in 1..Cardinality(S) : m # n => list[m] # list[n]
           /\ ToSet(list) = S
<1>1. /\ list \in [1..Cardinality(S) -> S] /\ Cardinality(S) \in Nat
      /\ \A m, n \in 1..Cardinality(S) : m # n => list[m] # list[n]
  BY FS_CardinalityType DEF SetToSeqs, IsInjective
<1>2. list \in Seq(S) /\ Len(list) = Cardinality(S)
  BY <1>1
<1>3. list \in Injection(1..Cardinality(S), S)
  BY <1>1 DEF Injection, IsInjective
<1>4. /\ IsFiniteSet(1..Cardinality(S))
      /\ Cardinality(1..Cardinality(S)) = Cardinality(S)
  BY <1>1, FS_Interval
<1>5. list \in Surjection(1..Cardinality(S), S)
  BY <1>3, <1>4, FS_Injection
<1>6. ToSet(list) = S
  BY <1>1, <1>5 DEF Surjection, ToSet
<1> QED
  BY <1>1, <1>2, <1>6

\* Conversely, what names each element of a set once is a list of it.
LEMMA IsListOf ==
    ASSUME NEW S, IsFiniteSet(S), NEW n \in Nat, NEW list \in [1..n -> S],
           \A i, j \in 1..n : i # j => list[i] # list[j],
           \A x \in S : \E i \in 1..n : list[i] = x
    PROVE  list \in SetToSeqs(S) /\ n = Cardinality(S)
<1>1. list \in Bijection(1..n, S)
  BY DEF Bijection, Injection, Surjection, IsInjective
<1>2. ExistsBijection(1..n, S)
  BY <1>1 DEF ExistsBijection
<1>3. IsFiniteSet(1..n) /\ Cardinality(1..n) = n
  BY FS_Interval
<1>4. Cardinality(S) = n
  BY <1>2, <1>3, FS_Bijection
<1> QED
  BY <1>4 DEF SetToSeqs, IsInjective

\* Distinct places leave one way to list a set in their order: at the least
\* position where two lists differ, each would name an item before the other.
LEMMA OneOrder ==
    ASSUME NEW S, IsFiniteSet(S), NEW rows,
           \A i \in S : rows[i].order \in Nat,
           \A i, j \in S : i # j => rows[i].order # rows[j].order,
           NEW p \in SetToSeqs(S), InOrder(p, rows),
           NEW q \in SetToSeqs(S), InOrder(q, rows)
    PROVE  p = q
<1> DEFINE N == Cardinality(S)
           Differ == { k \in 1..N : p[k] # q[k] }
<1>1. /\ p \in [1..N -> S] /\ q \in [1..N -> S] /\ N \in Nat
      /\ \A m, n \in 1..N : m # n => p[m] # p[n] /\ q[m] # q[n]
      /\ \A x \in S : (\E m \in 1..N : p[m] = x) /\ (\E m \in 1..N : q[m] = x)
  BY ListOf DEF ToSet
<1>2. SUFFICES ASSUME Differ # {} PROVE FALSE
  BY <1>1
<1>3. PICK k \in Differ : \A m \in Differ : k <= m
  <2>1. Differ \in SUBSET Nat
    OBVIOUS
  <2> HIDE DEF Differ
  <2> QED
    BY <1>2, <2>1, LeastElement
<1>4. k \in 1..N /\ p[k] # q[k] /\ \A m \in 1..N : m < k => p[m] = q[m]
  BY <1>1, <1>3
<1> HIDE DEF N, Differ
<1>5. PICK i \in 1..N : p[i] = q[k]
  BY <1>1, <1>4
<1>6. PICK j \in 1..N : q[j] = p[k]
  BY <1>1, <1>4
<1>7. k < i /\ k < j
  <2>1. i # k /\ j # k
    BY <1>4, <1>5, <1>6
  <2>2. ~(i < k)
    BY <1>1, <1>4, <1>5, <2>1
  <2>3. ~(j < k)
    BY <1>1, <1>4, <1>6, <2>1
  <2> QED
    BY <1>1, <1>4, <2>1, <2>2, <2>3
<1>8. /\ rows[p[k]].order <= rows[q[k]].order
      /\ rows[q[k]].order <= rows[p[k]].order
  BY <1>1, <1>4, <1>5, <1>6, <1>7 DEF InOrder
<1>9. p[k] \in S /\ q[k] \in S
  BY <1>1, <1>4
<1> QED
  BY <1>4, <1>8, <1>9

\* A list with one element more, or one less, is a list of that set.
LEMMA AppendList ==
    ASSUME NEW S, IsFiniteSet(S), NEW list \in SetToSeqs(S), NEW x, x \notin S
    PROVE  /\ Append(list, x) \in SetToSeqs(S \cup {x})
           /\ \A rows :
                 (/\ InOrder(list, rows)
                  /\ \A i \in S : rows[i].order <= rows[x].order)
                 => InOrder(Append(list, x), rows)
<1> DEFINE N == Cardinality(S)
<1>1. /\ list \in [1..N -> S] /\ N \in Nat
      /\ list \in Seq(S) /\ Len(list) = N
      /\ \A m, n \in 1..N : m # n => list[m] # list[n]
      /\ \A y \in S : \E m \in 1..N : list[m] = y
  BY ListOf DEF ToSet
<1> HIDE DEF N
<1>2. PICK longer : longer = Append(list, x)
  OBVIOUS
<1>3. /\ longer \in [1..(N + 1) -> S \cup {x}]
      /\ \A m \in 1..N : longer[m] = list[m]
      /\ longer[N + 1] = x
  <2>1. list \in Seq(S \cup {x}) /\ x \in S \cup {x}
    BY <1>1
  <2>2. /\ longer \in Seq(S \cup {x}) /\ Len(longer) = N + 1
        /\ \A m \in 1..N : longer[m] = list[m]
        /\ longer[N + 1] = x
    BY <1>1, <1>2, <2>1, AppendProperties
  <2> QED
    BY <1>1, <2>2
<1>4. IsFiniteSet(S \cup {x}) /\ N + 1 \in Nat
  BY <1>1, FS_AddElement
<1>5. longer \in SetToSeqs(S \cup {x})
  <2>1. \A y \in S \cup {x} : \E m \in 1..(N + 1) : longer[m] = y
    BY <1>1, <1>3
  <2>2. \A m, n \in 1..(N + 1) : m # n => longer[m] # longer[n]
    BY <1>1, <1>3
  <2> QED
    BY <1>3, <1>4, <2>1, <2>2, IsListOf
<1>6. ASSUME NEW rows, InOrder(list, rows),
             \A i \in S : rows[i].order <= rows[x].order
      PROVE  InOrder(longer, rows)
  <2>1. DOMAIN list = 1..N /\ DOMAIN longer = 1..(N + 1)
    BY <1>1, <1>3
  <2>2. ASSUME NEW i \in 1..(N + 1), NEW j \in 1..(N + 1), i < j
        PROVE  rows[longer[i]].order <= rows[longer[j]].order
    <3>1. i \in 1..N /\ list[i] \in S /\ longer[i] = list[i]
      BY <1>1, <1>3, <2>2
    <3>2. CASE j = N + 1
      BY <1>3, <1>6, <3>1, <3>2
    <3>3. CASE j \in 1..N
      BY <1>3, <1>6, <2>1, <2>2, <3>1, <3>3 DEF InOrder
    <3> QED
      BY <1>1, <3>2, <3>3
  <2> QED
    BY <2>1, <2>2 DEF InOrder
<1> QED
  BY <1>2, <1>5, <1>6

LEMMA RemoveList ==
    ASSUME NEW S, IsFiniteSet(S), NEW list \in SetToSeqs(S),
           NEW n \in DOMAIN list
    PROVE  /\ RemoveAt(list, n) \in SetToSeqs(S \ {list[n]})
           /\ \A rows : InOrder(list, rows) => InOrder(RemoveAt(list, n), rows)
<1> DEFINE N    == Cardinality(S)
           rest == RemoveAt(list, n)
           Old(m) == IF m < n THEN m ELSE m + 1
<1>1. /\ list \in [1..N -> S] /\ N \in Nat /\ n \in 1..N
      /\ Len(list) = N
      /\ \A i, j \in 1..N : i # j => list[i] # list[j]
      /\ \A y \in S : \E m \in 1..N : list[m] = y
  BY ListOf DEF ToSet
<1> HIDE DEF N
<1>2. /\ SubSeq(list, 1, n - 1) \in Seq(S)
      /\ Len(SubSeq(list, 1, n - 1)) = n - 1
      /\ \A m \in 1..(n - 1) : SubSeq(list, 1, n - 1)[m] = list[m]
  BY <1>1, SubSeqProperties
<1>3. /\ SubSeq(list, n + 1, N) \in Seq(S)
      /\ Len(SubSeq(list, n + 1, N)) = N - n
      /\ \A m \in 1..(N - n) : SubSeq(list, n + 1, N)[m] = list[m + n]
  BY <1>1, SubSeqProperties
<1>4. rest = SubSeq(list, 1, n - 1) \o SubSeq(list, n + 1, N)
  BY <1>1 DEF RemoveAt
<1> HIDE DEF rest
<1>5. /\ rest \in Seq(S) /\ Len(rest) = N - 1
      /\ \A m \in 1..(N - 1) : rest[m] = list[Old(m)] /\ Old(m) \in 1..N
  <2>1. /\ rest \in Seq(S) /\ Len(rest) = (n - 1) + (N - n)
        /\ \A m \in 1..((n - 1) + (N - n)) :
              rest[m] = IF m <= n - 1 THEN SubSeq(list, 1, n - 1)[m]
                        ELSE SubSeq(list, n + 1, N)[m - (n - 1)]
    <3> DEFINE a == SubSeq(list, 1, n - 1)
               b == SubSeq(list, n + 1, N)
    <3>1. a \in Seq(S) /\ Len(a) = n - 1 /\ b \in Seq(S) /\ Len(b) = N - n
      BY <1>2, <1>3
    <3>2. rest = a \o b
      BY <1>4
    <3> HIDE DEF a, b
    <3>3. /\ rest \in Seq(S) /\ Len(rest) = Len(a) + Len(b)
          /\ \A m \in 1..(Len(a) + Len(b)) :
                rest[m] = IF m <= Len(a) THEN a[m] ELSE b[m - Len(a)]
      BY <3>1, <3>2, ConcatProperties
    <3> QED
      BY <3>1, <3>3 DEF a, b
  <2>2. (n - 1) + (N - n) = N - 1
    BY <1>1
  <2>3. ASSUME NEW m \in 1..(N - 1)
        PROVE  rest[m] = list[Old(m)] /\ Old(m) \in 1..N
    <3>1. CASE m < n
      <4>1. m \in 1..(n - 1) /\ m \in 1..N
        BY <1>1, <3>1
      <4> QED
        BY <1>1, <1>2, <2>1, <2>2, <3>1, <4>1
    <3>2. CASE ~(m < n)
      <4>1. /\ m - (n - 1) \in 1..(N - n)
            /\ (m - (n - 1)) + n = m + 1 /\ m + 1 \in 1..N
            /\ ~(m <= n - 1)
        BY <1>1, <3>2
      <4> QED
        BY <1>3, <2>1, <2>2, <3>2, <4>1
    <3> QED
      BY <3>1, <3>2
  <2> QED
    BY <2>1, <2>2, <2>3
<1>6. rest \in [1..(N - 1) -> S \ {list[n]}]
  BY <1>1, <1>5
<1>7. \A i, j \in 1..(N - 1) : i # j => rest[i] # rest[j]
  BY <1>1, <1>5
<1>8. ASSUME NEW y \in S \ {list[n]}
      PROVE  \E m \in 1..(N - 1) : rest[m] = y
  <2>1. PICK i \in 1..N : list[i] = y
    BY <1>1
  <2>2. CASE i < n
    BY <1>1, <1>5, <2>1, <2>2
  <2>3. CASE i > n
    <3>1. i - 1 \in 1..(N - 1) /\ Old(i - 1) = i
      BY <1>1, <2>3
    <3> QED
      BY <1>5, <2>1, <3>1
  <2> QED
    BY <1>1, <2>1, <2>2, <2>3
<1>9. rest \in SetToSeqs(S \ {list[n]})
  <2>1. IsFiniteSet(S \ {list[n]})
    BY FS_Subset
  <2>2. N - 1 \in Nat
    BY <1>1
  <2> QED
    BY <1>6, <1>7, <1>8, <2>1, <2>2, IsListOf
<1>10. ASSUME NEW rows, InOrder(list, rows)
       PROVE  InOrder(rest, rows)
  <2>1. DOMAIN rest = 1..(N - 1) /\ DOMAIN list = 1..N
    BY <1>1, <1>6
  <2>2. ASSUME NEW i \in 1..(N - 1), NEW j \in 1..(N - 1), i < j
        PROVE  rows[rest[i]].order <= rows[rest[j]].order
    <3>1. Old(i) < Old(j) /\ Old(i) \in 1..N /\ Old(j) \in 1..N
      BY <1>1, <1>5, <2>2
    <3> QED
      BY <1>5, <1>10, <2>1, <3>1 DEF InOrder
  <2> QED
    BY <2>1, <2>2 DEF InOrder
<1> QED
  BY <1>9, <1>10 DEF rest

\* What lists the active items in the order of their places is what is shown.
LEMMA ChosenList ==
    ASSUME NEW S, IsFiniteSet(S), NEW rows,
           \A i \in S : rows[i].order \in Nat,
           \A i, j \in S : i # j => rows[i].order # rows[j].order,
           NEW list \in SetToSeqs(S), InOrder(list, rows)
    PROVE  (CHOOSE l \in SetToSeqs(S) : InOrder(l, rows)) = list
<1> DEFINE l == CHOOSE l \in SetToSeqs(S) : InOrder(l, rows)
<1>1. l \in SetToSeqs(S) /\ InOrder(l, rows)
  OBVIOUS
<1> HIDE DEF l
<1>2. l = list
  BY <1>1, OneOrder
<1> QED
  BY <1>2 DEF l

LEMMA NextShown ==
    ASSUME TableSound', NEW list \in SetToSeqs(Active'), InOrder(list, items')
    PROVE  Shown' = list /\ ShownSound'
<1>1. IsFiniteSet(Active')
  <2>1. Active' \in SUBSET Items
    BY DEF Active
  <2> QED
    BY <2>1, OrderConstants, FS_Subset
<1>2. /\ \A i \in Active' : items'[i].order \in Nat
      /\ \A i, j \in Active' : i # j => items'[i].order # items'[j].order
  BY UsedFinite DEF TableSound, PlacesDistinct, Active, Rows
<1>3. Shown' = list
  BY <1>1, <1>2, ChosenList DEF Shown
<1> QED
  BY <1>3 DEF ShownSound

-----------------------------------------------------------------------------
(* The writes *)

LEMMA ActiveFinite == IsFiniteSet(Active)
  BY OrderConstants, FS_Subset DEF Active

LEMMA CreateTable ==
    ASSUME Inv, NEW s \in Sessions, Create(s)
    PROVE  /\ TableSound'
           /\ \E i \in Items :
                 /\ items[i].status = "free"
                 /\ Active' = Active \cup {i}
                 /\ items'[i].status = "active" /\ items'[i].visible = FALSE
                 /\ \A j \in Items \ {i} : items'[j] = items[j]
                 /\ \A j \in Active : items[j].order <= items'[i].order
                 /\ Shown' = Append(Shown, i) /\ ShownSound'
<1> DEFINE places == { seen[s][j].order : j \in Items }
           last   == Max(places)
<1>1. Current(seen[s])
  BY DEF Create, Inv, SeenCurrent
<1>2. PICK i \in Items :
         /\ items[i].status = "free"
         /\ items' = [items EXCEPT ![i] = [status |-> "active",
                                           order |-> 1 + last,
                                           visible |-> FALSE]]
  BY DEF Create
<1>3. /\ \A j \in Items : items[j].order \in Nat
      /\ \A j \in Items : seen[s][j].order <= Cardinality(Used)
      /\ \A j \in Items : seen[s][j].order \in Nat
  BY <1>1, UsedFinite DEF Inv, TypeOK, Rows, OrderBounded, Current
<1>4. places \subseteq Nat /\ places # {} /\ \A x \in places : x <= Cardinality(Used)
  BY <1>2, <1>3
<1>5. last \in places /\ \A x \in places : x <= last
  <2> HIDE DEF places
  <2> QED
    BY <1>4, MaxIsLargest, UsedFinite
<1>6. /\ last \in Nat
      /\ last <= Cardinality(Used)
      /\ \A j \in Active : items[j].order <= last
  <2>1. last \in Nat /\ last <= Cardinality(Used)
    BY <1>4, <1>5
  <2>2. ASSUME NEW j \in Active PROVE items[j].order <= last
    <3>1. seen[s][j].order \in places /\ seen[s][j].order = items[j].order
      BY <1>1 DEF Current, Active
    <3> QED
      BY <1>5, <3>1
  <2> QED
    BY <2>1, <2>2
<1> HIDE DEF last
<1>7. /\ Used' = Used \cup {i} /\ i \notin Used
      /\ Cardinality(Used)' = Cardinality(Used) + 1
      /\ Cardinality(Used)' <= Cardinality(Items)
  <2>1. Used' = Used \cup {i} /\ i \notin Used
    BY <1>2 DEF Used, Inv, TypeOK
  <2>2. Cardinality(Used)' = Cardinality(Used) + 1
    BY <2>1, UsedFinite, FS_AddElement
  <2>3. Used' \in SUBSET Items
    BY DEF Used
  <2> QED
    BY <2>1, <2>2, <2>3, OrderConstants, FS_Subset
<1>8. [status |-> "active", order |-> 1 + last, visible |-> FALSE] \in Rows
  BY <1>6, <1>7, UsedFinite DEF Rows
<1>9. items' \in [Items -> Rows] /\ Active' = Active \cup {i} /\ i \notin Active
  BY <1>2, <1>8 DEF Inv, TypeOK, Active
<1>10. /\ items'[i].order = 1 + last
       /\ \A j \in Items \ {i} : items'[j].order = items[j].order
  BY <1>2 DEF Inv, TypeOK
<1>11. OrderBounded'
  BY <1>3, <1>6, <1>7, <1>10, UsedFinite DEF Inv, OrderBounded
<1>12. PlacesDistinct'
  <2> SUFFICES ASSUME NEW j \in Active', NEW k \in Active', j # k
               PROVE  items'[j].order # items'[k].order
    BY DEF PlacesDistinct
  <2>1. j \in Items /\ k \in Items
    BY DEF Active
  <2> QED
    BY <1>3, <1>6, <1>9, <1>10, <2>1 DEF Inv, PlacesDistinct
<1>13. \A j \in Active' : items'[j].order > 0
  BY <1>6, <1>9, <1>10 DEF Inv, TypeOK, Active
<1>14. TableSound'
  BY <1>9, <1>11, <1>12, <1>13 DEF TableSound
<1>15. /\ items'[i].status = "active" /\ items'[i].visible = FALSE
       /\ \A j \in Items \ {i} : items'[j] = items[j]
  BY <1>2 DEF Inv, TypeOK
<1>16. \A j \in Active : items[j].order <= items'[i].order
  BY <1>3, <1>6, <1>10 DEF Active
<1>17. Shown' = Append(Shown, i) /\ ShownSound'
  <2>1. Shown \in SetToSeqs(Active) /\ InOrder(Shown, items) /\ i \notin Active
    BY <1>9 DEF Inv, ShownSound
  <2>2. InOrder(Shown, items')
    <3>1. \A m \in DOMAIN Shown : Shown[m] \in Active
      BY <2>1, ActiveFinite, ListOf
    <3>2. \A j \in Active : items'[j] = items[j]
      BY <1>9, <1>15 DEF Active
    <3> QED
      BY <2>1, <3>1, <3>2 DEF InOrder
  <2>3. \A j \in Active : items'[j].order <= items'[i].order
    BY <1>9, <1>15, <1>16 DEF Active
  <2>4. /\ Append(Shown, i) \in SetToSeqs(Active \cup {i})
        /\ InOrder(Append(Shown, i), items')
    BY <2>1, <2>2, <2>3, ActiveFinite, AppendList
  <2> QED
    BY <1>9, <1>14, <2>4, NextShown
<1> QED
  BY <1>2, <1>9, <1>14, <1>15, <1>16, <1>17

LEMMA DeleteTable ==
    ASSUME Inv, NEW s \in Sessions, Delete(s)
    PROVE  /\ TableSound'
           /\ \E d \in Active :
                 /\ items' = [items EXCEPT ![d] = DeletedRow]
                 /\ Active' = Active \ {d}
                 /\ \E n \in DOMAIN Shown :
                       Shown[n] = d /\ Shown' = RemoveAt(Shown, n)
                 /\ ShownSound'
<1> DEFINE d == req[s].item
<1>0. d \in Active
  BY DEF Delete, Inv, SeenCurrent
<1>1. /\ d \in Items
      /\ items' = [items EXCEPT ![d] = DeletedRow]
  BY DEF Delete, Listed
<1>2. DeletedRow.status = "deleted" /\ DeletedRow.order = 0
  BY DEF DeletedRow, NoRow
<1> HIDE DEF d
<1>3. /\ items' \in [Items -> Rows]
      /\ Active' = Active \ {d}
      /\ Used \subseteq Used'
      /\ \A j \in Items : items'[j].order = IF j = d THEN 0 ELSE items[j].order
  BY <1>1, <1>2, NoRequestType DEF Inv, TypeOK, Active, Used
<1>4. Cardinality(Used) <= Cardinality(Used)' /\ Cardinality(Used)' \in Nat
  <2>1. Used' \in SUBSET Items
    BY DEF Used
  <2>2. IsFiniteSet(Used') /\ Cardinality(Used') \in Nat
    BY <2>1, OrderConstants, FS_Subset, FS_CardinalityType
  <2>3. Cardinality(Used) <= Cardinality(Used')
    BY <1>3, <2>2, FS_Subset
  <2> QED
    BY <2>2, <2>3
<1>5. OrderBounded'
  <2>1. ASSUME NEW j \in Items
        PROVE  items'[j].order <= Cardinality(Used)'
    <3>1. items[j].order \in Nat /\ items[j].order <= Cardinality(Used)
      BY UsedFinite DEF Inv, TypeOK, Rows, OrderBounded
    <3>2. items'[j].order = 0 \/ items'[j].order = items[j].order
      BY <1>3
    <3> QED
      BY <1>4, <3>1, <3>2, UsedFinite
  <2> QED
    BY <2>1 DEF OrderBounded
<1>6. PlacesDistinct' /\ \A j \in Active' : items'[j].order > 0
  BY <1>3 DEF Inv, TypeOK, PlacesDistinct, Active
<1>7. TableSound'
  BY <1>3, <1>5, <1>6 DEF TableSound
<1>8. /\ Shown \in SetToSeqs(Active) /\ InOrder(Shown, items)
      /\ \A m \in DOMAIN Shown : Shown[m] \in Active
      /\ ToSet(Shown) = Active
  BY ActiveFinite, ListOf DEF Inv, ShownSound
<1>9. PICK n \in DOMAIN Shown : Shown[n] = d
  BY <1>0, <1>8 DEF ToSet
<1> DEFINE rest == RemoveAt(Shown, n)
<1>10. rest \in SetToSeqs(Active') /\ InOrder(rest, items)
  BY <1>3, <1>8, <1>9, ActiveFinite, RemoveList
<1>11. InOrder(rest, items')
  <2>1. IsFiniteSet(Active')
    BY <1>3, ActiveFinite, FS_Subset
  <2> HIDE DEF rest
  <2>2. \A m \in DOMAIN rest : rest[m] \in Active'
    BY <1>10, <2>1, ListOf
  <2>3. \A j \in Active' : items'[j].order = items[j].order
    BY <1>3 DEF Active
  <2> QED
    BY <1>10, <2>2, <2>3 DEF InOrder
<1>12. Shown' = rest /\ ShownSound'
  BY <1>7, <1>10, <1>11, NextShown
<1> QED
  BY <1>0, <1>1, <1>3, <1>7, <1>9, <1>12

LEMMA ReorderTable ==
    ASSUME Inv, NEW s \in Sessions, Reorder(s)
    PROVE  /\ TableSound'
           /\ Active' = Active
           /\ \A i \in Items : /\ items'[i].status = items[i].status
                               /\ items'[i].visible = items[i].visible
           /\ Shown' = req[s].order /\ ShownSound'
<1> DEFINE order == req[s].order
<1>1. PICK n \in Nat : DOMAIN order = 1..n /\ order \in [1..n -> Items]
  BY OrderType DEF Inv, TypeOK
<1>2. /\ IsInjective(order) /\ ToSet(order) = Active
      /\ Current(seen[s])
  BY DEF Reorder, IsComplete, Inv, SeenCurrent, Current
<1>3. items' = [i \in Items |->
         IF i \in ToSet(order) /\ Place(order, i) # seen[s][i].order
           THEN [items[i] EXCEPT !.order = Place(order, i)]
           ELSE items[i]]
  BY DEF Reorder, Placed
<1> HIDE DEF order
<1>4. \A i \in Active : Place(order, i) \in 1..n /\ order[Place(order, i)] = i
  BY <1>1, <1>2, PlaceIs
<1>5. Active \subseteq Used
  BY DEF Active, Used
<1>6. n <= Cardinality(Used)
  <2>1. order \in Injection(1..n, Used)
    BY <1>1, <1>2, <1>5 DEF Injection, IsInjective, ToSet
  <2>2. Cardinality(1..n) <= Cardinality(Used)
    BY <2>1, UsedFinite, FS_Injection
  <2>3. Cardinality(1..n) = n
    BY FS_Interval
  <2> QED
    BY <2>2, <2>3
<1>7. ASSUME NEW i \in Items
      PROVE  /\ items'[i] \in Rows
             /\ items'[i].status = items[i].status
             /\ items'[i].visible = items[i].visible
             /\ items'[i].order = IF i \in Active THEN Place(order, i)
                                                  ELSE items[i].order
  <2>0. items[i] \in Rows /\ Active \subseteq Items
    BY DEF Inv, TypeOK, Active
  <2>1. CASE i \in Active /\ Place(order, i) # seen[s][i].order
    <3>1. items'[i] = [items[i] EXCEPT !.order = Place(order, i)]
      BY <1>2, <1>3, <2>1
    <3>2. Place(order, i) \in 0..Cardinality(Items)
      BY <1>4, <1>6, <2>1, UsedFinite
    <3> QED
      BY <2>0, <2>1, <3>1, <3>2 DEF Rows
  <2>2. CASE i \in Active /\ Place(order, i) = seen[s][i].order
    BY <1>2, <1>3, <2>0, <2>2 DEF Current
  <2>3. CASE i \notin Active
    BY <1>2, <1>3, <2>0, <2>3
  <2> QED
    BY <2>1, <2>2, <2>3
<1>8. items' \in [Items -> Rows] /\ Active' = Active /\ Used' = Used
  BY <1>3, <1>7 DEF Active, Used
<1>9. OrderBounded'
  <2>1. \A i \in Items : items'[i].order <= Cardinality(Used)
    BY <1>4, <1>6, <1>7, UsedFinite DEF Inv, OrderBounded
  <2> QED
    BY <1>8, <2>1 DEF OrderBounded
<1>10. PlacesDistinct' /\ \A i \in Active' : items'[i].order > 0
  BY <1>4, <1>7, <1>8 DEF PlacesDistinct, Active
<1>11. TableSound'
  BY <1>8, <1>9, <1>10 DEF TableSound
<1>12. order \in SetToSeqs(Active)
  <2>1. /\ order \in [1..n -> Active]
        /\ \A x \in Active : \E m \in 1..n : order[m] = x
    BY <1>1, <1>2 DEF ToSet
  <2>2. \A i, j \in 1..n : i # j => order[i] # order[j]
    BY <1>1, <1>2 DEF IsInjective
  <2> QED
    BY <2>1, <2>2, ActiveFinite, IsListOf
<1>13. InOrder(order, items')
  <2>1. \A m \in 1..n : order[m] \in Active /\ Place(order, order[m]) = m
    <3>1. \A m \in 1..n : order[m] \in Active
      BY <1>1, <1>2 DEF ToSet
    <3>2. \A m, k \in 1..n : order[m] = order[k] => m = k
      BY <1>1, <1>2 DEF IsInjective
    <3> QED
      BY <1>4, <3>1, <3>2
  <2>2. \A m \in 1..n : items'[order[m]].order = m
    BY <1>7, <2>1 DEF Active
  <2> QED
    BY <1>1, <2>2 DEF InOrder
<1>14. Shown' = order /\ ShownSound'
  BY <1>8, <1>11, <1>12, <1>13, NextShown
<1> QED
  BY <1>7, <1>8, <1>11, <1>14 DEF order

LEMMA VisibilityKeepsPlaces ==
    ASSUME Inv, NEW s \in Sessions, SetVisibility(s)
    PROVE  /\ items' \in [Items -> Rows]
           /\ \A i \in Items : /\ items'[i].status = items[i].status
                               /\ items'[i].order = items[i].order
<1> DEFINE d == req[s].item
<1>1. PICK visible \in BOOLEAN :
         /\ d \in Items
         /\ \/ items' = items
            \/ items' = [items EXCEPT ![d].visible = visible]
  <2>1. \E visible \in BOOLEAN : visible = (req[s].op = "show")
    OBVIOUS
  <2> QED
    BY <2>1 DEF SetVisibility, Listed
<1> HIDE DEF d
<1>2. \A i \in Items : /\ items[i] \in Rows
                       /\ [items[i] EXCEPT !.visible = visible] \in Rows
  <2>1. ASSUME NEW row \in Rows
        PROVE  [row EXCEPT !.visible = visible] \in Rows
    BY DEF Rows
  <2> QED
    BY <2>1 DEF Inv, TypeOK
<1>3. CASE items' = [items EXCEPT ![d].visible = visible]
  <2>1. \A i \in Items :
           items'[i] = IF i = d THEN [items[i] EXCEPT !.visible = visible]
                                ELSE items[i]
    BY <1>1, <1>3 DEF Inv, TypeOK
  <2>2. \A i \in Items : /\ items'[i].status = items[i].status
                         /\ items'[i].order = items[i].order
    BY <1>2, <2>1 DEF Rows
  <2> QED
    BY <1>2, <1>3, <2>2 DEF Inv, TypeOK
<1> QED
  BY <1>1, <1>2, <1>3 DEF Inv, TypeOK

LEMMA SamePlaces ==
    ASSUME Inv, items' \in [Items -> Rows],
           \A i \in Items : /\ items'[i].status = items[i].status
                            /\ items'[i].order = items[i].order
    PROVE  /\ TableSound'
           /\ Active' = Active
           /\ Shown' = Shown /\ ShownSound'
           /\ \A t \in Sessions : SeenCurrent(t) /\ UNCHANGED <<pc[t], req[t], seen[t]>>
                                     => SeenCurrent(t)'
<1>1. Active' = Active /\ Used' = Used
  BY DEF Active, Used
<1>2. OrderBounded' /\ PlacesDistinct' /\ \A i \in Active' : items'[i].order > 0
  BY <1>1 DEF Inv, TypeOK, OrderBounded, PlacesDistinct, Active
<1>3. TableSound'
  BY <1>2 DEF TableSound
<1>4. Shown' = Shown /\ ShownSound'
  <2> DEFINE list == Shown
  <2>1. list \in SetToSeqs(Active) /\ InOrder(list, items)
    BY DEF Inv, ShownSound
  <2>2. PICK l : l = Shown
    OBVIOUS
  <2>3. \A m \in DOMAIN l : l[m] \in Active
    BY <2>1, <2>2, ActiveFinite, ListOf
  <2>4. InOrder(l, items')
    BY <2>1, <2>2, <2>3 DEF InOrder, Active
  <2> QED
    BY <1>1, <1>3, <2>1, <2>2, <2>4, NextShown
<1> QED
  BY <1>1, <1>3, <1>4 DEF SeenCurrent, Current, Listed

-----------------------------------------------------------------------------
(* The steps of a session, and the others *)

\* A session that goes on to another step, or ends.
LEMMA EndTypes ==
    ASSUME Inv, NEW s \in Sessions, End(s)
    PROVE  /\ lock' \in Sessions \cup {NoSession}
           /\ pc' \in [Sessions -> {"idle", "lock", "read", "write"}]
           /\ req' \in [Sessions -> Requests]
           /\ seen' \in [Sessions -> [Items -> Rows]]
           /\ Locked(s)' /\ SeenCurrent(s)'
           /\ \A t \in Sessions \ {s} :
                 UNCHANGED <<pc[t], req[t], seen[t]>> /\ Locked(t)'
  BY NoRequestType DEF Inv, TypeOK, End, NothingRead, Locked, SeenCurrent

\* While a session writes under the lock, no other one is about to write what
\* depends on the places.
LEMMA OthersWait ==
    ASSUME Inv, NEW s \in Sessions, NEW t \in Sessions, s # t,
           pc[s] = "write", req[s].op \in LockingOps
    PROVE  ~(pc[t] = "write" /\ req[t].op \in LockingOps)
  BY DEF Inv, Locked, LockingOps

LEMMA WriteInv ==
    ASSUME Inv, NEW s \in Sessions,
           Create(s) \/ Delete(s) \/ Reorder(s)
    PROVE  Inv'
<1>1. pc[s] = "write" /\ req[s].op \in LockingOps /\ End(s)
  BY DEF Create, Delete, Reorder, LockingOps
<1>2. TableSound'
  BY CreateTable, DeleteTable, ReorderTable
<1>3. ShownSound'
  BY CreateTable, DeleteTable, ReorderTable
<1>4. \A t \in Sessions : SeenCurrent(t)'
  BY <1>1, EndTypes, OthersWait DEF SeenCurrent, LockingOps
<1> QED
  BY <1>1, <1>2, <1>3, <1>4, EndTypes DEF Inv, TypeOK, TableSound

LEMMA UnlockedInv ==
    ASSUME Inv, NEW s \in Sessions, SetVisibility(s) \/ Fail(s)
    PROVE  Inv'
<1>1. End(s)
  BY DEF SetVisibility, Fail
<1>2. /\ items' \in [Items -> Rows]
      /\ \A i \in Items : /\ items'[i].status = items[i].status
                          /\ items'[i].order = items[i].order
  BY VisibilityKeepsPlaces DEF Fail, Inv, TypeOK
<1>3. \A t \in Sessions : SeenCurrent(t)'
  BY <1>1, <1>2, EndTypes, SamePlaces DEF Inv
<1> QED
  BY <1>1, <1>2, <1>3, EndTypes, SamePlaces DEF Inv, TypeOK, TableSound

\* A step that leaves the table alone.
LEMMA SameTable ==
    ASSUME Inv, UNCHANGED items
    PROVE  TableSound' /\ Active' = Active /\ Shown' = Shown /\ ShownSound'
<1>1. items' \in [Items -> Rows]
  BY DEF Inv, TypeOK
<1> QED
  BY <1>1, SamePlaces

LEMMA BeginInv ==
    ASSUME Inv, NEW s \in Sessions, Begin(s)
    PROVE  Inv'
<1>1. PICK r \in Incoming :
         /\ req' = [req EXCEPT ![s] = r]
         /\ pc' = [pc EXCEPT ![s] = IF r.op \in {"show", "hide"} THEN "read"
                                                                 ELSE "lock"]
  BY DEF Begin
<1>2. r \in Requests /\ (r.op \notin {"show", "hide"} <=> r.op \in LockingOps)
  BY DEF Incoming, Requests, LockingOps
<1>3. UNCHANGED <<items, lock, seen>>
  BY DEF Begin
<1>4. TypeOK'
  BY <1>1, <1>2, <1>3 DEF Inv, TypeOK, Active
<1>5. ASSUME NEW t \in Sessions
      PROVE  Locked(t)' /\ SeenCurrent(t)'
  BY <1>1, <1>2, <1>3
     DEF Inv, TypeOK, Locked, SeenCurrent, Current, Listed, Active
<1> QED
  BY <1>3, <1>4, <1>5, SameTable DEF Inv, TableSound

LEMMA LockInv ==
    ASSUME Inv, NEW s \in Sessions, Lock(s)
    PROVE  Inv'
<1>1. ASSUME NEW t \in Sessions
      PROVE  Locked(t)' /\ SeenCurrent(t)'
  BY OrderConstants
     DEF Lock, LockFree, Inv, TypeOK, Locked, SeenCurrent, Current, Listed, Active
<1> QED
  BY <1>1, SameTable DEF Lock, Inv, TypeOK, TableSound

LEMMA ReadInv ==
    ASSUME Inv, NEW s \in Sessions, Read(s)
    PROVE  Inv'
<1> DEFINE rows == Selected(req[s])
<1>1. /\ pc[s] = "read"
      /\ seen' = [seen EXCEPT ![s] = rows]
      /\ pc' = [pc EXCEPT ![s] = "write"]
      /\ UNCHANGED <<items, lock, req>>
  BY DEF Read
<1>2. rows \in [Items -> Rows]
  BY NoRequestType DEF Inv, TypeOK, Selected
<1>3. req[s].op \in {"create", "reorder"} => Current(rows)
  <2> SUFFICES ASSUME req[s].op \in {"create", "reorder"} PROVE Current(rows)
    OBVIOUS
  <2>1. req[s].item = NoItem
    BY <1>1 DEF Inv, Locked, Incoming
  <2>2. \A i \in Items : rows[i] = IF i \in Active THEN items[i] ELSE NoRow
    BY <2>1 DEF Selected
  <2>3. NoRow.status = "free" /\ NoRow.order = 0 /\ \A i \in Active : items[i] # NoRow
    BY DEF NoRow, Active
  <2> QED
    BY <2>2, <2>3 DEF Current, Listed, Active
<1>4. req[s].op = "delete" => Listed(rows) \subseteq Active
  BY DEF Selected, Listed
<1> HIDE DEF rows
<1>5. ASSUME NEW t \in Sessions
      PROVE  Locked(t)' /\ SeenCurrent(t)'
  <2>1. Locked(t)'
    BY <1>1 DEF Inv, TypeOK, Locked
  <2>2. CASE t = s
    BY <1>1, <1>3, <1>4, <2>1, <2>2
       DEF Inv, TypeOK, SeenCurrent, Current, Listed, Active
  <2>3. CASE t # s
    BY <1>1, <2>1, <2>3 DEF Inv, TypeOK, SeenCurrent, Current, Listed, Active
  <2> QED
    BY <2>1, <2>2, <2>3
<1> QED
  BY <1>1, <1>2, <1>5, SameTable DEF Inv, TypeOK, TableSound

LEMMA InitInv ==
    ASSUME Init
    PROVE  Inv /\ Shown = <<>>
<1>1. NoRow.status = "free" /\ NoRow.order = 0
  BY DEF NoRow
<1>2. Active = {}
  BY <1>1 DEF Init, Active
<1>3. TypeOK
  BY <1>2, NoRequestType DEF Init, TypeOK, NothingRead
<1>4. Shown = <<>> /\ ShownSound
  <2>1. <<>> \in SetToSeqs({}) /\ InOrder(<<>>, items)
    BY FS_EmptySet DEF SetToSeqs, IsInjective, InOrder
  <2>2. IsFiniteSet({})
    BY FS_EmptySet
  <2>3. Shown = <<>>
    BY <1>2, <2>1, <2>2, ChosenList DEF Shown
  <2> QED
    BY <1>2, <2>1, <2>3 DEF ShownSound
<1> QED
  BY <1>1, <1>2, <1>3, <1>4, UsedFinite
     DEF Init, Inv, OrderBounded, PlacesDistinct, Locked, SeenCurrent

LEMMA Invariance == Spec => []Inv
<1>1. Inv /\ [Next]_vars => Inv'
  <2> SUFFICES ASSUME Inv, [Next]_vars PROVE Inv'
    OBVIOUS
  <2>1. CASE UNCHANGED vars
    <3>1. \A s \in Sessions : Locked(s)' /\ SeenCurrent(s)'
      BY <2>1
         DEF vars, Inv, Locked, SeenCurrent, Current, Listed, Active
    <3> QED
      BY <2>1, <3>1, SameTable DEF vars, Inv, TypeOK, TableSound
  <2> QED
    BY <2>1, BeginInv, LockInv, ReadInv, WriteInv, UnlockedInv DEF Next
<1> QED
  BY InitInv, <1>1, PTL DEF Spec

-----------------------------------------------------------------------------
\* Rows, lock and sessions keep their types: no place is beyond the number of
\* items, although deletions leave gaps.
THEOREM TypeCorrect == Spec => []TypeOK
<1>1. Inv => TypeOK
  BY DEF Inv
<1> QED
  BY Invariance, <1>1, PTL

\* However creations, deletions, reorders and changes of visibility overlap, no
\* two active items share a place.
THEOREM PlacesStayDistinct == Spec => []PlacesDistinct
<1>1. Inv => PlacesDistinct
  BY DEF Inv
<1> QED
  BY Invariance, <1>1, PTL

\* When an accepted reorder commits, the items are listed exactly in the order
\* that it asks for.
THEOREM ReordersApplied == Spec => OrderAsRequested
<1> DEFINE Applied ==
             \A s \in Sessions :
                pc[s] = "write" /\ req[s].op = "reorder" /\ items' # items
                      /\ pc'[s] = "idle"
                   => Shown' = req[s].order
<1>1. Inv /\ [Next]_vars => [Applied]_vars
  <2> SUFFICES ASSUME Inv, Next, NEW s \in Sessions,
                      pc[s] = "write", req[s].op = "reorder", items' # items,
                      pc'[s] = "idle"
               PROVE  Shown' = req[s].order
    OBVIOUS
  <2>1. PICK t \in Sessions :
           \/ Begin(t) \/ Lock(t) \/ Read(t)
           \/ Create(t) \/ Delete(t) \/ Reorder(t) \/ SetVisibility(t)
           \/ Fail(t)
    BY DEF Next
  <2>2. Create(t) \/ Delete(t) \/ Reorder(t) \/ SetVisibility(t)
    BY <2>1 DEF Begin, Lock, Read, Fail
  <2>3. t = s
    <3>1. End(t)
      BY <2>2 DEF Create, Delete, Reorder, SetVisibility
    <3> QED
      BY <3>1 DEF End, Inv, TypeOK
  <2>4. Reorder(s)
    BY <2>2, <2>3 DEF Create, Delete, SetVisibility
  <2> QED
    BY <2>4, ReorderTable
<1> QED
  BY <1>1, Invariance, PTL DEF Spec, OrderAsRequested

-----------------------------------------------------------------------------
(* The rows implement the list. *)

Visible == { i \in Active : items[i].visible }

Gone == { i \in Items : items[i].status = "deleted" }

LEMMA ShownItems ==
    ASSUME Inv
    PROVE  ToSet(Shown) = Active /\ \A n \in DOMAIN Shown : Shown[n] \in Active
  BY ActiveFinite, ListOf DEF Inv, ShownSound

LEMMA CreateAppends ==
    ASSUME Inv, NEW s \in Sessions, Create(s)
    PROVE  \E i \in Items : Listing!AppendItem(i)
<1>1. PICK i \in Items :
         /\ items[i].status = "free"
         /\ Active' = Active \cup {i}
         /\ items'[i].status = "active" /\ items'[i].visible = FALSE
         /\ \A j \in Items \ {i} : items'[j] = items[j]
         /\ Shown' = Append(Shown, i)
  BY CreateTable
<1>2. i \notin Active \cup Gone
  BY <1>1 DEF Active, Gone
<1>3. Visible' = Visible /\ Gone' = Gone
  BY <1>1, <1>2 DEF Visible, Gone, Active
<1> QED
  BY <1>1, <1>2, <1>3, ShownItems
     DEF Listing!AppendItem, Listing!ToSet, ToSet, Visible, Gone

LEMMA DeleteRemoves ==
    ASSUME Inv, NEW s \in Sessions, Delete(s)
    PROVE  \E i \in Items : Listing!RemoveItem(i)
<1>1. PICK d \in Active :
         /\ items' = [items EXCEPT ![d] = DeletedRow]
         /\ Active' = Active \ {d}
         /\ \E n \in DOMAIN Shown :
               Shown[n] = d /\ Shown' = RemoveAt(Shown, n)
  BY DeleteTable
<1>2. d \in Items /\ \A j \in Items \ {d} : items'[j] = items[j]
  BY <1>1 DEF Active, Inv, TypeOK
<1>3. items'[d].status = "deleted"
  BY <1>1, <1>2 DEF Inv, TypeOK, DeletedRow, NoRow
<1>4. Visible' = Visible \ {d} /\ Gone' = Gone \cup {d}
  BY <1>1, <1>2, <1>3 DEF Visible, Gone, Active
<1> QED
  BY <1>1, <1>2, <1>4
     DEF Listing!RemoveItem, Listing!RemoveAt, RemoveAt, Visible, Gone

LEMMA ReorderPermutes ==
    ASSUME Inv, NEW s \in Sessions, Reorder(s)
    PROVE  Listing!Permute
<1>1. /\ Active' = Active
      /\ \A i \in Items : /\ items'[i].status = items[i].status
                          /\ items'[i].visible = items[i].visible
      /\ ShownSound'
  BY ReorderTable
<1>2. Visible' = Visible /\ Gone' = Gone
  BY <1>1 DEF Visible, Gone, Active
<1>3. Shown' \in SetToSeqs(ToSet(Shown))
  BY <1>1, ShownItems DEF ShownSound
<1> QED
  BY <1>2, <1>3
     DEF Listing!Permute, Listing!SetToSeqs, Listing!ToSet, SetToSeqs, ToSet,
         Listing!Cardinality, Cardinality, Visible, Gone

LEMMA VisibilityMarks ==
    ASSUME Inv, NEW s \in Sessions, SetVisibility(s)
    PROVE  \/ \E i \in Items : Listing!SetVisible(i)
           \/ UNCHANGED <<Shown, Visible, Gone>>
<1> DEFINE d == req[s].item
<1>1. /\ items' \in [Items -> Rows]
      /\ \A i \in Items : /\ items'[i].status = items[i].status
                          /\ items'[i].order = items[i].order
  BY VisibilityKeepsPlaces
<1>2. Active' = Active /\ Shown' = Shown /\ Gone' = Gone
  BY <1>1, SamePlaces DEF Gone
<1>3. CASE items' = items
  BY <1>2, <1>3 DEF Visible
<1>4. CASE items' # items
  <2>1. PICK visible : /\ d \in Active /\ visible = (req[s].op = "show")
                       /\ items' = [items EXCEPT ![d].visible = visible]
    BY <1>4 DEF SetVisibility
  <2>2. /\ d \in Items
        /\ items'[d].visible = visible /\ visible \in BOOLEAN
        /\ \A j \in Items \ {d} : items'[j] = items[j]
    <3>1. d \in Items /\ visible \in BOOLEAN
      BY <2>1 DEF Active
    <3>2. items[d] \in Rows
      BY <3>1 DEF Inv, TypeOK
    <3>3. [items[d] EXCEPT !.visible = visible].visible = visible
      BY <3>2 DEF Rows
    <3>4. items'[d] = [items[d] EXCEPT !.visible = visible]
      BY <2>1, <3>1 DEF Inv, TypeOK
    <3> QED
      BY <2>1, <3>1, <3>3, <3>4 DEF Inv, TypeOK
  <2>3. Visible' \in {Visible \cup {d}, Visible \ {d}}
    BY <1>2, <2>1, <2>2 DEF Visible, Active
  <2> QED
    BY <1>2, <2>1, <2>2, <2>3, ShownItems
       DEF Listing!SetVisible, Listing!ToSet, ToSet, Visible, Gone
<1> QED
  BY <1>3, <1>4

\* Rows that are written one by one, some of them without the lock, behave as
\* one list with a set of marks.
THEOREM RowsImplementListing == Spec => ImplementsListing
<1>1. Init => Listing!ListingInit
  <2> SUFFICES ASSUME Init PROVE Listing!ListingInit
    OBVIOUS
  <2>1. Shown = <<>>
    BY InitInv
  <2>2. Visible = {} /\ Gone = {}
    BY DEF Init, Visible, Gone, Active, NoRow
  <2> QED
    BY <2>1, <2>2 DEF Listing!ListingInit, Visible, Gone
<1>2. Inv /\ [Next]_vars => [Listing!ListingNext]_(Listing!listingVars)
  <2> SUFFICES ASSUME Inv, [Next]_vars
               PROVE  Listing!ListingNext \/ UNCHANGED <<Shown, Visible, Gone>>
    BY DEF Listing!listingVars, Visible, Gone
  <2>1. CASE UNCHANGED items
    BY <2>1, SameTable DEF Visible, Gone
  <2>2. CASE ~UNCHANGED items
    <3>1. PICK s \in Sessions :
             Create(s) \/ Delete(s) \/ Reorder(s) \/ SetVisibility(s)
      BY <2>2 DEF Next, vars, Begin, Lock, Read, Fail
    <3> QED
      BY <3>1, CreateAppends, DeleteRemoves, ReorderPermutes, VisibilityMarks
         DEF Listing!ListingNext
  <2> QED
    BY <2>1, <2>2
<1> QED
  BY <1>1, <1>2, Invariance, PTL
     DEF Spec, ImplementsListing, Listing!ListingSpec
=============================================================================
