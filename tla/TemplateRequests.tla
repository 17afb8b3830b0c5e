-------------------------- MODULE TemplateRequests --------------------------
(***************************************************************************)
(* The requests that write the template catalogue, one step per SQL        *)
(* statement whose result the handler acts on, as sessions of the HTTP     *)
(* service interleave them at READ COMMITTED. A transaction's writes show  *)
(* up when it commits, so the last step of a request holds its writes and  *)
(* its commit; a request that fails rolls back.                            *)
(***************************************************************************)
EXTENDS TemplateStore, FiniteSets

CONSTANTS
    Sessions,       \* database sessions, one per request being served
    NoSession,      \* holder of a free lock
    InvalidBody,    \* a template body that fails validation
    NameOf          \* the name of a template content

ASSUME RequestConstants ==
    /\ NoSession \notin Sessions
    /\ InvalidBody \notin Contents
    /\ InvalidBody # NoContent
    /\ DOMAIN NameOf = Contents

VARIABLES
    rowLock,        \* holder of the FOR UPDATE lock of a template row
    webLock,        \* holder of the sample's advisory lock
    pc,             \* the next statement of the session
    req,            \* the request of the session
    view,           \* what the session has read
    reply           \* what the last request of the session was told

sessionVars == <<rowLock, webLock, pc, req, view, reply>>
vars == <<templates, layouts, experiments, rowLock, webLock, pc,
          req, view, reply>>

Ops == {"none", "create_template", "edit_form", "put_layout",
        "delete_layout", "delete_template", "create_experiment"}

Requests == [op      : Ops,
             id      : TemplateIds \cup {NoId},       \* lineage or version
             content : Contents \cup {NoContent, InvalidBody},
             layout  : Layouts \cup {NoLayout},
             exp     : ExpIds \cup {NoId}]

Views == [row     : TemplateIds \cup {NoId},
          content : Contents \cup {NoContent},
          layout  : Layouts \cup {NoLayout},
          current : BOOLEAN,
          used    : BOOLEAN]

NoRequest == [op |-> "none", id |-> NoId, content |-> NoContent,
              layout |-> NoLayout, exp |-> NoId]

NothingRead == [row |-> NoId, content |-> NoContent, layout |-> NoLayout,
                current |-> FALSE, used |-> FALSE]

Replies == {"none", "Ok", "NotFound", "Conflict", "Unprocessable",
            "AssertRow", "AssertPdf", "StaleData", "ServerError"}

Steps == {"idle", "sample", "insert", "pick", "lock", "decide", "save",
          "read_layout", "drop_layout", "read_version", "drop_version"}

FirstStep(op) ==
    CASE op \in {"create_template", "create_experiment"} -> "sample"
      [] op \in {"edit_form", "put_layout"}              -> "pick"
      [] op = "delete_layout"                            -> "read_layout"
      [] op = "delete_template"                          -> "read_version"

\* A request carries the fields that its handler takes.
Incoming ==
    { r \in Requests :
        /\ r.op # "none"
        /\ r.id # NoId <=> r.op # "create_template"
        /\ r.content # NoContent <=> r.op \in {"create_template", "edit_form"}
        /\ r.layout # NoLayout <=> r.op = "put_layout"
        /\ r.exp # NoId <=> r.op = "create_experiment" }

-----------------------------------------------------------------------------
\* Faulty variant: the WHERE clause leaves is_current out.
VersionsOf(lineage) ==
    { t \in TemplateIds : IsLive(t) /\ templates[t].lineage = lineage }

\* The rows that SELECT ... WHERE lineage_id AND is_current AND not deleted
\* returns.
CurrentOf(lineage) ==
    { t \in TemplateIds : IsCurrent(t) /\ templates[t].lineage = lineage }

\* Faulty variant: the row lock is not waited for.
NeverLocked(t) == TRUE

Unlocked(t) == rowLock[t] = NoSession

\* The partial unique index on (sample_type_id, name); t is the row that the
\* same transaction retires or rewrites.
NameTaken(c, t) ==
    \E u \in TemplateIds \ {t} :
        IsCurrent(u) /\ NameOf[templates[u].content] = NameOf[c]

HasRow(s) == CurrentOf(req[s].id) # {}

Layoutless(layout) == layout \in {NoLayout, EmptyLayout}

\* Faulty variant: the locks outlive the transaction.
AnswerAndHold(s, r) ==
    /\ pc' = [pc EXCEPT ![s] = "idle"]
    /\ req' = [req EXCEPT ![s] = NoRequest]
    /\ view' = [view EXCEPT ![s] = NothingRead]
    /\ reply' = [reply EXCEPT ![s] = r]
    /\ UNCHANGED <<rowLock, webLock>>

\* End of the request: the reply goes out, the transaction ends and its locks
\* with it.
Answer(s, r) ==
    /\ pc' = [pc EXCEPT ![s] = "idle"]
    /\ req' = [req EXCEPT ![s] = NoRequest]
    /\ view' = [view EXCEPT ![s] = NothingRead]
    /\ reply' = [reply EXCEPT ![s] = r]
    /\ rowLock' = [t \in TemplateIds |->
                     IF rowLock[t] = s THEN NoSession ELSE rowLock[t]]
    /\ webLock' = IF webLock = s THEN NoSession ELSE webLock

Rollback(s, r) ==
    /\ Answer(s, r)
    /\ UNCHANGED <<templates, layouts, experiments>>

GoTo(s, step) == pc' = [pc EXCEPT ![s] = step]

-----------------------------------------------------------------------------
Init ==
    /\ StoreInit
    /\ rowLock = [t \in TemplateIds |-> NoSession]
    /\ webLock = NoSession
    /\ pc = [s \in Sessions |-> "idle"]
    /\ req = [s \in Sessions |-> NoRequest]
    /\ view = [s \in Sessions |-> NothingRead]
    /\ reply = [s \in Sessions |-> "none"]

\* Bound: a request that may insert a version starts while ids are left for
\* it and for every such request under way.
MayInsert(r) == r.op \in {"create_template", "edit_form", "put_layout"}

Inserting == { s \in Sessions : MayInsert(req[s]) }

HasRoom == Cardinality(Inserting)
              < Cardinality({ t \in TemplateIds : IsFree(t) })

Begin(s) ==
    /\ pc[s] = "idle"
    /\ \E r \in Incoming :
          /\ MayInsert(r) => HasRoom
          /\ req' = [req EXCEPT ![s] = r]
          /\ GoTo(s, FirstStep(r.op))
    /\ reply' = [reply EXCEPT ![s] = "none"]
    /\ UNCHANGED <<templates, layouts, experiments, rowLock,
                   webLock, view>>

\* get_sample_type. Sample types are created and deleted by requests that
\* touch none of the tables here, so either outcome is possible.
CheckSample(s) ==
    /\ pc[s] = "sample"
    /\ \/ /\ GoTo(s, IF req[s].op = "create_template" THEN "insert" ELSE "pick")
          /\ UNCHANGED <<templates, layouts, experiments, rowLock,
                         webLock, req, view, reply>>
       \/ Rollback(s, "NotFound")

\* Validation of the body, then create_template: the advisory lock of the
\* sample, the insert and the commit.
InsertTemplate(s) ==
    /\ pc[s] = "insert"
    /\ LET c == req[s].content
       IN  \/ c = InvalidBody /\ Rollback(s, "Unprocessable")
           \/ /\ c # InvalidBody
              /\ webLock = NoSession
              /\ \/ NameTaken(c, NoId) /\ Rollback(s, "Conflict")
                 \/ /\ ~NameTaken(c, NoId)
                    /\ \E t \in TemplateIds : CreateTemplate(t, c)
                    /\ Answer(s, "Ok")

\* SELECT ... FOR UPDATE, first half: the statement's snapshot picks the row.
PickRow(s) ==
    /\ pc[s] = "pick"
    /\ \/ /\ \E t \in CurrentOf(req[s].id) :
                view' = [view EXCEPT ![s].row = t]
          /\ GoTo(s, "lock")
          /\ UNCHANGED <<templates, layouts, experiments, rowLock,
                         webLock, req, reply>>
       \/ ~HasRow(s) /\ Rollback(s, "NotFound")

\* SELECT ... FOR UPDATE, second half: wait for the lock, then evaluate the
\* WHERE clause again on the row as it is now. A row that stopped being
\* current while the request waited is dropped from the result. Loads the
\* row and, by selectinload, its layout. create_experiment then requires a
\* layout with components.
LockRow(s) ==
    /\ pc[s] = "lock"
    /\ LET t == view[s].row
           creates == req[s].op = "create_experiment"
       IN  /\ Unlocked(t)
           /\ \/ /\ t \notin CurrentOf(req[s].id)
                 /\ Rollback(s, "NotFound")
              \/ /\ t \in CurrentOf(req[s].id)
                 /\ creates /\ Layoutless(layouts[t])
                 /\ Rollback(s, "Unprocessable")
              \/ /\ t \in CurrentOf(req[s].id)
                 /\ ~(creates /\ Layoutless(layouts[t]))
                 /\ rowLock' = [rowLock EXCEPT ![t] = s]
                 /\ view' = [view EXCEPT ![s].content = templates[t].content,
                                         ![s].layout = layouts[t]]
                 /\ GoTo(s, IF creates THEN "save" ELSE "decide")
                 /\ UNCHANGED <<templates, layouts, experiments,
                                webLock, req, reply>>

\* Validation of the body, then any_experiment_uses_template.
Decide(s) ==
    /\ pc[s] = "decide"
    /\ \/ req[s].content = InvalidBody /\ Rollback(s, "Unprocessable")
       \/ /\ req[s].content # InvalidBody
          /\ view' = [view EXCEPT ![s].used = Used(view[s].row)]
          /\ GoTo(s, "save")
          /\ UNCHANGED <<templates, layouts, experiments, rowLock,
                         webLock, req, reply>>

\* update_template_in_place. Its get_template sees the row while it is live.
SaveInPlace(s) ==
    /\ pc[s] = "save"
    /\ req[s].op = "edit_form"
    /\ ~view[s].used
    /\ LET t == view[s].row
           c == req[s].content
       IN  \/ ~IsLive(t) /\ Rollback(s, "AssertRow")
           \/ IsLive(t) /\ NameTaken(c, t) /\ Rollback(s, "Conflict")
           \/ /\ IsLive(t) /\ ~NameTaken(c, t)
              /\ templates' = [templates EXCEPT ![t].content = c]
              /\ UNCHANGED <<layouts, experiments>>
              /\ Answer(s, "Ok")

\* create_new_template_version. Retiring a layout that was loaded and is
\* gone by now updates no row, which the ORM reports as stale data.
SaveNewVersion(s) ==
    /\ pc[s] = "save"
    /\ req[s].op \in {"edit_form", "put_layout"}
    /\ view[s].used
    /\ LET edits == req[s].op = "edit_form"
           t == view[s].row
           c == IF edits THEN req[s].content ELSE view[s].content
           l == IF edits THEN Cloned(view[s].layout) ELSE req[s].layout
           stale == view[s].layout # NoLayout /\ layouts[t] = NoLayout
       IN  \/ ~HasRow(s) /\ Rollback(s, "AssertRow")
           \/ HasRow(s) /\ stale /\ Rollback(s, "StaleData")
           \/ /\ HasRow(s) /\ ~stale /\ NameTaken(c, t)
              /\ Rollback(s, IF edits THEN "Conflict" ELSE "ServerError")
           \/ /\ HasRow(s) /\ ~stale /\ ~NameTaken(c, t)
              /\ \E u \in TemplateIds :
                    /\ IsFree(u)
                    /\ templates' = [templates EXCEPT
                                        ![t].current = FALSE,
                                        ![u] = NextVersion(templates[t], c)]
                    /\ layouts' = [layouts EXCEPT ![u] = l]
              /\ UNCHANGED <<experiments>>
              /\ Answer(s, "Ok")

\* create_pdf_template or update_pdf_template_in_place, chosen by what was
\* loaded with the row. Either the SELECT misses a layout deleted since, and
\* the assertion fails, or the UPDATE does, and the ORM reports stale data.
SaveLayout(s) ==
    /\ pc[s] = "save"
    /\ req[s].op = "put_layout"
    /\ ~view[s].used
    /\ LET t == view[s].row
           loaded == view[s].layout # NoLayout
           present == layouts[t] # NoLayout
       IN  \/ loaded /\ ~present /\ Rollback(s, "AssertPdf")
           \/ loaded /\ ~present /\ Rollback(s, "StaleData")
           \/ ~loaded /\ present /\ Rollback(s, "ServerError")
           \/ /\ loaded = present
              /\ layouts' = [layouts EXCEPT ![t] = req[s].layout]
              /\ UNCHANGED <<templates, experiments>>
              /\ Answer(s, "Ok")

\* experiment_repository.create: the primary key counts deleted rows too.
\* The snapshot is built from the row as it was loaded.
InsertExperiment(s) ==
    /\ pc[s] = "save"
    /\ req[s].op = "create_experiment"
    /\ LET e == req[s].exp
       IN  \/ experiments[e].status # "free" /\ Rollback(s, "Conflict")
           \/ /\ experiments[e].status = "free"
              /\ experiments' = [experiments EXCEPT ![e] =
                    [status |-> "live", template |-> view[s].row,
                     content |-> view[s].content]]
              /\ UNCHANGED <<templates, layouts>>
              /\ Answer(s, "Ok")

\* delete_pdf_template: get_template and get_pdf_template, then the DELETE.
\* It takes no lock of the template row, and a DELETE that finds no row left
\* succeeds.
ReadLayout(s) ==
    /\ pc[s] = "read_layout"
    /\ LET t == req[s].id
           found == IsLive(t) /\ layouts[t] # NoLayout
       IN  \/ /\ found
              /\ GoTo(s, "drop_layout")
              /\ UNCHANGED <<templates, layouts, experiments,
                             rowLock, webLock, req, view, reply>>
           \/ ~found /\ Rollback(s, "NotFound")

DropLayout(s) ==
    /\ pc[s] = "drop_layout"
    /\ DeleteLayout(req[s].id)
    /\ Answer(s, "Ok")

\* delete_experiment_template: the advisory lock and get_template, then the
\* UPDATE, which waits for the row lock. is_current is written only when the
\* row was read as current.
ReadVersion(s) ==
    /\ pc[s] = "read_version"
    /\ webLock = NoSession
    /\ LET t == req[s].id
       IN  \/ /\ IsLive(t)
              /\ webLock' = s
              /\ view' = [view EXCEPT ![s].row = t,
                                      ![s].current = templates[t].current]
              /\ GoTo(s, "drop_version")
              /\ UNCHANGED <<templates, layouts, experiments,
                             rowLock, req, reply>>
           \/ ~IsLive(t) /\ Rollback(s, "NotFound")

DropVersion(s) ==
    /\ pc[s] = "drop_version"
    /\ LET t == view[s].row
       IN  /\ Unlocked(t)
           /\ templates' = [templates EXCEPT
                               ![t].status = "deleted",
                               ![t].current = @ /\ ~view[s].current]
    /\ UNCHANGED <<layouts, experiments>>
    /\ Answer(s, "Ok")

\* The client, the database or the process goes away: the session is closed,
\* its transaction rolled back, and nobody gets a reply.
Abort(s) ==
    /\ pc[s] # "idle"
    /\ Rollback(s, "none")

\* delete_experiment: a read and an UPDATE of one row that no other request
\* here waits for, in one step.
RemoveExperiment ==
    /\ \E e \in ExpIds : DeleteExperiment(e)
    /\ UNCHANGED sessionVars

Step(s) ==
    \/ CheckSample(s) \/ InsertTemplate(s)
    \/ PickRow(s) \/ LockRow(s) \/ Decide(s)
    \/ SaveInPlace(s) \/ SaveNewVersion(s) \/ SaveLayout(s)
    \/ InsertExperiment(s)
    \/ ReadLayout(s) \/ DropLayout(s)
    \/ ReadVersion(s) \/ DropVersion(s)

Next ==
    \/ \E s \in Sessions : Begin(s) \/ Step(s) \/ Abort(s)
    \/ RemoveExperiment

Spec == Init /\ [][Next]_vars

-----------------------------------------------------------------------------
SessionTypeOK ==
    /\ rowLock \in [TemplateIds -> Sessions \cup {NoSession}]
    /\ webLock \in Sessions \cup {NoSession}
    /\ pc \in [Sessions -> Steps]
    /\ req \in [Sessions -> Requests]
    /\ view \in [Sessions -> Views]
    /\ reply \in [Sessions -> Replies]

TypeOK == StoreTypeOK /\ SessionTypeOK

\* `assert row is not None` and `assert new_row is not None`: once the
\* current row is locked, neither the edit nor the fork can miss it.
RowNeverMissing == \A s \in Sessions : reply[s] # "AssertRow"

\* What a session knows while its transaction is open, whatever the other
\* sessions do: the steps it takes are those of its request; the row it has
\* locked is its lineage's current version, with the content and the layout
\* it loaded, unless the layout was deleted; a version it found unused stays
\* unused; and a version it is about to delete is live.
StepsOf(op) ==
    CASE op = "create_template"   -> {"sample", "insert"}
      [] op = "edit_form"         -> {"pick", "lock", "decide", "save"}
      [] op = "put_layout"        -> {"pick", "lock", "decide", "save"}
      [] op = "delete_layout"     -> {"read_layout", "drop_layout"}
      [] op = "delete_template"   -> {"read_version", "drop_version"}
      [] op = "create_experiment" -> {"sample", "pick", "lock", "save"}

Holds(s) == pc[s] \in {"decide", "save"}

OnPath(s) ==
    pc[s] # "idle" =>
        /\ req[s] \in Incoming
        /\ pc[s] \in StepsOf(req[s].op)
        /\ pc[s] = "save" => req[s].content # InvalidBody
        /\ pc[s] = "lock" => view[s].row \in TemplateIds

ViewStands(s) ==
    LET t == view[s].row
    IN  /\ Holds(s) =>
              /\ t \in CurrentOf(req[s].id)
              /\ rowLock[t] = s
              /\ view[s].content = templates[t].content
              /\ layouts[t] \in {view[s].layout, NoLayout}
        /\ pc[s] = "save" /\ ~view[s].used =>
              req[s].op = "create_experiment" \/ ~Used(t)
        /\ pc[s] = "drop_version" =>
              /\ t \in TemplateIds
              /\ IsLive(t)
              /\ webLock = s
              /\ templates[t].current => view[s].current

LockInv == \A s \in Sessions : OnPath(s) /\ ViewStands(s)

\* A save of the locked row meets what it has loaded, with one exception: it
\* fails in the ORM, in `assert pdf is not None` or on an index of another
\* table only if the layout it loaded has been deleted since.
OnlyDeletedLayoutsFail ==
    [][\A s \in Sessions :
          /\ pc[s] = "save" /\ pc'[s] = "idle"
          /\ reply'[s] \in {"AssertPdf", "StaleData", "ServerError"}
          => /\ view[s].layout # NoLayout
             /\ layouts[view[s].row] = NoLayout]_vars

\* The lock that the next statement of a session needs, if any, by its holder.
Holder(s) ==
    IF pc[s] \in {"lock", "drop_version"} THEN rowLock[view[s].row]
    ELSE IF pc[s] \in {"insert", "read_version"} THEN webLock
    ELSE NoSession

\* No requests wait for each other in a circle, edits for row locks and
\* creations and deletions for the advisory lock and then a row: among any
\* sessions one waits for none of them. A lock that is waited for belongs to
\* a request under way, so that it is freed.
NoWaitCycle ==
    /\ \A W \in SUBSET Sessions :
          W # {} => \E s \in W : Holder(s) \notin W
    /\ \A s, h \in Sessions : Holder(s) = h => pc[h] # "idle"
=============================================================================
