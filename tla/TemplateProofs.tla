--------------------------- MODULE TemplateProofs ---------------------------
(***************************************************************************)
(* TemplateRequests implements TemplateStore, for every set of sessions,   *)
(* ids, contents and layouts; the properties of the store follow.          *)
(***************************************************************************)
EXTENDS TemplateRequests, TLAPS

-----------------------------------------------------------------------------
\* The rows after a fork.
LEMMA ForkRows ==
    ASSUME StoreTypeOK, NEW t \in TemplateIds, NEW u \in TemplateIds,
           NEW c \in Contents, NEW l \in Layouts, Fork(t, u, c, l)
    PROVE  /\ t # u
           /\ templates' \in [TemplateIds -> TemplateRow]
           /\ templates'[t].status = "live"
           /\ templates'[t].lineage = templates[t].lineage
           /\ templates'[t].version = templates[t].version
           /\ templates'[t].content = templates[t].content
           /\ ~templates'[t].current
           /\ templates'[u] = NextVersion(templates[t], c)
           /\ \A v \in TemplateIds \ {t, u} : templates'[v] = templates[v]
<1>1. t # u
  BY DEF Fork, IsCurrent, IsFree
<1>2. [templates[t] EXCEPT !.current = FALSE] \in TemplateRow
  BY DEF StoreTypeOK, TemplateRow
<1>3. NextVersion(templates[t], c) \in TemplateRow
  BY DEF StoreTypeOK, TemplateRow, Statuses, NextVersion, NewRow
<1>4. /\ templates'[t] = [templates[t] EXCEPT !.current = FALSE]
      /\ templates'[u] = NextVersion(templates[t], c)
      /\ \A v \in TemplateIds \ {t, u} : templates'[v] = templates[v]
      /\ templates' \in [TemplateIds -> TemplateRow]
  BY <1>1, <1>2, <1>3 DEF StoreTypeOK, Fork
<1>5. templates[t] \in TemplateRow /\ templates[t].status = "live"
  BY DEF StoreTypeOK, Fork, IsCurrent
<1> QED
  BY <1>1, <1>4, <1>5 DEF TemplateRow

\* The rows after a deletion.
LEMMA DeleteRows ==
    ASSUME StoreTypeOK, NEW t \in TemplateIds, DeleteTemplate(t)
    PROVE  /\ templates' \in [TemplateIds -> TemplateRow]
           /\ templates'[t].status = "deleted"
           /\ templates'[t].lineage = templates[t].lineage
           /\ templates'[t].version = templates[t].version
           /\ templates'[t].content = templates[t].content
           /\ ~templates'[t].current
           /\ \A v \in TemplateIds \ {t} : templates'[v] = templates[v]
<1> DEFINE row == [templates[t] EXCEPT !.status = "deleted", !.current = FALSE]
<1>1. row \in TemplateRow
  BY DEF StoreTypeOK, TemplateRow, Statuses
<1>2. /\ templates'[t] = row
      /\ \A v \in TemplateIds \ {t} : templates'[v] = templates[v]
      /\ templates' \in [TemplateIds -> TemplateRow]
  BY <1>1 DEF StoreTypeOK, DeleteTemplate
<1>3. templates[t] \in TemplateRow
  BY DEF StoreTypeOK
<1> QED
  BY <1>2, <1>3 DEF TemplateRow

\* Every step of the store keeps its types.
LEMMA StoreTypeStep ==
    ASSUME StoreTypeOK, [StoreNext]_storeVars
    PROVE  StoreTypeOK'
<1>1. CASE UNCHANGED storeVars
  BY <1>1 DEF storeVars, StoreTypeOK, IsFree
<1>2. ASSUME NEW t \in TemplateIds, NEW c \in Contents, CreateTemplate(t, c)
      PROVE  StoreTypeOK'
  BY <1>2 DEF CreateTemplate, FirstVersion, NewRow,
              StoreTypeOK, TemplateRow, ExperimentRow, Statuses, IsFree
<1>3. ASSUME NEW t \in TemplateIds, NEW c \in Contents, EditInPlace(t, c)
      PROVE  StoreTypeOK'
  BY <1>3 DEF EditInPlace,
              StoreTypeOK, TemplateRow, ExperimentRow, Statuses, IsFree
<1>4. ASSUME NEW t \in TemplateIds, NEW u \in TemplateIds,
             NEW c \in Contents, NEW l \in Layouts, Fork(t, u, c, l)
      PROVE  StoreTypeOK'
  <2>1. /\ t # u
        /\ templates' \in [TemplateIds -> TemplateRow]
        /\ templates'[t].lineage = templates[t].lineage
        /\ templates'[t].content = templates[t].content
        /\ templates'[u] = NextVersion(templates[t], c)
        /\ \A v \in TemplateIds \ {t, u} : templates'[v] = templates[v]
    BY <1>4, ForkRows
  <2>2. ~IsFree(t)
    BY <1>4 DEF Fork, IsCurrent, IsFree
  <2>3. layouts' \in [TemplateIds -> Layouts \cup {NoLayout}]
    BY <1>4 DEF Fork, StoreTypeOK
  <2>4. experiments' \in [ExpIds -> ExperimentRow]
    BY <1>4 DEF Fork, StoreTypeOK
  <2>5. ASSUME NEW v \in TemplateIds, ~IsFree(v)'
        PROVE  /\ templates'[v].lineage \in TemplateIds
               /\ templates'[v].content \in Contents
    <3>1. CASE v = t
      BY <3>1, <2>1, <2>2 DEF StoreTypeOK
    <3>2. CASE v = u
      BY <3>2, <2>1, <2>2 DEF NextVersion, NewRow, StoreTypeOK
    <3>3. CASE v \in TemplateIds \ {t, u}
      BY <3>3, <2>1, <2>5 DEF StoreTypeOK, IsFree
    <3> QED
      BY <3>1, <3>2, <3>3
  <2> QED
    BY <2>1, <2>3, <2>4, <2>5 DEF StoreTypeOK
<1>5. ASSUME NEW t \in TemplateIds, NEW l \in Layouts, PutLayout(t, l)
      PROVE  StoreTypeOK'
  BY <1>5 DEF PutLayout,
              StoreTypeOK, TemplateRow, ExperimentRow, Statuses, IsFree
<1>6. ASSUME NEW t \in TemplateIds, DeleteLayout(t)
      PROVE  StoreTypeOK'
  BY <1>6 DEF DeleteLayout,
              StoreTypeOK, TemplateRow, ExperimentRow, Statuses, IsFree
<1>7. ASSUME NEW t \in TemplateIds, DeleteTemplate(t)
      PROVE  StoreTypeOK'
  <2>1. /\ templates' \in [TemplateIds -> TemplateRow]
        /\ templates'[t].lineage = templates[t].lineage
        /\ templates'[t].content = templates[t].content
        /\ \A v \in TemplateIds \ {t} : templates'[v] = templates[v]
    BY <1>7, DeleteRows
  <2> QED
    BY <1>7, <2>1 DEF DeleteTemplate, IsLive, StoreTypeOK, IsFree
<1>8. ASSUME NEW e \in ExpIds, NEW t \in TemplateIds, CreateExperiment(e, t)
      PROVE  StoreTypeOK'
  BY <1>8 DEF CreateExperiment, Snapshot,
              StoreTypeOK, TemplateRow, ExperimentRow, Statuses, IsFree
<1>9. ASSUME NEW e \in ExpIds, DeleteExperiment(e)
      PROVE  StoreTypeOK'
  BY <1>9 DEF DeleteExperiment,
              StoreTypeOK, TemplateRow, ExperimentRow, Statuses, IsFree
<1> QED
  BY <1>1, <1>2, <1>3, <1>4, <1>5, <1>6, <1>7, <1>8, <1>9 DEF StoreNext

-----------------------------------------------------------------------------
(* Sessions *)

\* A step leaves session q and the locks it holds as they are.
Undisturbed(q) ==
    /\ pc'[q] = pc[q] /\ req'[q] = req[q] /\ view'[q] = view[q]
    /\ \A t \in TemplateIds : rowLock[t] = q => rowLock'[t] = q
    /\ webLock = q => webLock' = q

\* A step leaves the row that session q has locked to q, but for a deletion
\* of its layout, and the version that q is about to delete live.
Respected(q) ==
    \A t \in TemplateIds :
        t = view[q].row =>
            /\ Holds(q) =>
                  /\ templates'[t] = templates[t]
                  /\ layouts'[t] \in {layouts[t], NoLayout}
                  /\ ~Used(t) => ~Used(t)'
            /\ pc[q] = "drop_version" =>
                  /\ templates'[t].status = "live"
                  /\ templates'[t].current => templates[t].current

\* A request ends with its session idle and well typed, and leaves the other
\* sessions and the locks they hold as they are.
LEMMA AnswerEnds ==
    ASSUME SessionTypeOK, NEW s \in Sessions, NEW r \in Replies, Answer(s, r)
    PROVE  /\ SessionTypeOK'
           /\ OnPath(s)' /\ ViewStands(s)'
           /\ \A q \in Sessions \ {s} : Undisturbed(q)
<1>1. NoRequest \in Requests
  BY DEF NoRequest, Requests, Ops
<1>2. NothingRead \in Views
  BY DEF NothingRead, Views
<1>3. SessionTypeOK'
  BY <1>1, <1>2 DEF SessionTypeOK, Answer, Steps
<1>4. OnPath(s)' /\ ViewStands(s)'
  <2>1. pc'[s] = "idle"
    BY DEF Answer, SessionTypeOK
  <2> QED
    BY <2>1 DEF OnPath, ViewStands, Holds
<1>5. \A q \in Sessions \ {s} : Undisturbed(q)
  BY DEF SessionTypeOK, Answer, Undisturbed
<1> QED
  BY <1>3, <1>4, <1>5

\* What a session knows stands through a step that leaves the session alone
\* and respects what it holds.
LEMMA Bystander ==
    ASSUME NEW q \in Sessions, OnPath(q), ViewStands(q),
           Undisturbed(q), Respected(q)
    PROVE  OnPath(q)' /\ ViewStands(q)'
<1>1. OnPath(q)'
  BY DEF OnPath, StepsOf, Undisturbed
<1>2. ViewStands(q)'
  <2>1. CASE Holds(q)
    <3>1. /\ view[q].row \in TemplateIds
          /\ rowLock[view[q].row] = q
      BY <2>1 DEF ViewStands, CurrentOf
    <3>2. pc[q] # "drop_version"
      BY <2>1 DEF Holds
    <3> QED
      BY <2>1, <3>1, <3>2
         DEF ViewStands, Holds, CurrentOf, IsCurrent, Undisturbed, Respected
  <2>2. CASE ~Holds(q)
    BY <2>2 DEF ViewStands, Holds, IsLive, Undisturbed, Respected
  <2> QED
    BY <2>1, <2>2
<1> QED
  BY <1>1, <1>2

\* A step of session s keeps the invariant when it is a step of the store,
\* leaves s in order and the other sessions alone.
LEMMA StepInv ==
    ASSUME TypeOK, LockInv, NEW s \in Sessions,
           [StoreNext]_storeVars, SessionTypeOK',
           OnPath(s)', ViewStands(s)',
           \A q \in Sessions \ {s} : Undisturbed(q) /\ Respected(q)
    PROVE  TypeOK' /\ LockInv'
<1>1. TypeOK'
  BY StoreTypeStep DEF TypeOK
<1>2. ASSUME NEW q \in Sessions
      PROVE  OnPath(q)' /\ ViewStands(q)'
  <2>1. OnPath(q) /\ ViewStands(q)
    BY DEF LockInv
  <2> QED
    BY <2>1, Bystander
<1> QED
  BY <1>1, <1>2 DEF LockInv

\* A step that leaves the store alone respects every session.
LEMMA StoreIdle ==
    ASSUME LockInv, UNCHANGED storeVars, NEW q \in Sessions
    PROVE  Respected(q)
<1>1. ViewStands(q)
  BY DEF LockInv
<1> QED
  BY <1>1 DEF storeVars, Respected, ViewStands, IsLive, Used

\* A rollback keeps the invariant and the store.
LEMMA RollbackInv ==
    ASSUME TypeOK, LockInv, NEW s \in Sessions, NEW r \in Replies,
           Rollback(s, r)
    PROVE  TypeOK' /\ LockInv' /\ [StoreNext]_storeVars
<1>1. UNCHANGED storeVars
  BY DEF Rollback, storeVars
<1>2. [StoreNext]_storeVars
  BY <1>1
<1> QED
  BY <1>1, <1>2, StepInv, StoreIdle, AnswerEnds DEF Rollback, TypeOK

\* So does a step that only moves its own session on: one that reads.
LEMMA ReadInv ==
    ASSUME TypeOK, LockInv, NEW s \in Sessions, UNCHANGED storeVars,
           SessionTypeOK', OnPath(s)', ViewStands(s)',
           \A q \in Sessions \ {s} : Undisturbed(q)
    PROVE  TypeOK' /\ LockInv' /\ [StoreNext]_storeVars
<1>1. [StoreNext]_storeVars
  OBVIOUS
<1> QED
  BY <1>1, StepInv, StoreIdle

\* A transaction that commits a step of the store keeps the invariant when
\* that step respects the other sessions.
LEMMA CommitInv ==
    ASSUME TypeOK, LockInv, NEW s \in Sessions, NEW r \in Replies,
           Answer(s, r), [StoreNext]_storeVars,
           \A q \in Sessions \ {s} : Respected(q)
    PROVE  TypeOK' /\ LockInv' /\ [StoreNext]_storeVars
  BY StepInv, AnswerEnds DEF TypeOK

-----------------------------------------------------------------------------
(* The steps of a session *)

Inv == TypeOK /\ LockInv

\* What the invariant says of one session.
LEMMA InvOf ==
    ASSUME Inv, NEW s \in Sessions
    PROVE  /\ OnPath(s) /\ ViewStands(s)
           /\ pc[s] \in Steps /\ req[s] \in Requests /\ view[s] \in Views
  BY DEF Inv, TypeOK, SessionTypeOK, LockInv

\* A request begins on the first step of its path, with nothing read.
LEMMA BeginInv ==
    ASSUME Inv, NEW s \in Sessions, Begin(s)
    PROVE  Inv' /\ [StoreNext]_storeVars
<1>1. PICK r \in Incoming : /\ req' = [req EXCEPT ![s] = r]
                            /\ GoTo(s, FirstStep(r.op))
  BY DEF Begin
<1>2. /\ r \in Requests
      /\ FirstStep(r.op) \in StepsOf(r.op)
      /\ FirstStep(r.op) \in Steps
      /\ FirstStep(r.op) \notin {"lock", "decide", "save", "drop_version"}
  BY DEF Incoming, Requests, Ops, FirstStep, StepsOf, Steps
<1>3. /\ pc'[s] = FirstStep(r.op)
      /\ req'[s] = r
      /\ pc' \in [Sessions -> Steps]
      /\ req' \in [Sessions -> Requests]
  BY <1>1, <1>2 DEF GoTo, Inv, TypeOK, SessionTypeOK
<1>4. SessionTypeOK'
  BY <1>3 DEF Begin, Inv, TypeOK, SessionTypeOK, Replies
<1>5. OnPath(s)' /\ ViewStands(s)'
  BY <1>2, <1>3 DEF OnPath, ViewStands, Holds
<1>6. \A q \in Sessions \ {s} : Undisturbed(q)
  BY <1>1 DEF Begin, GoTo, Inv, TypeOK, SessionTypeOK, Undisturbed
<1> QED
  BY <1>4, <1>5, <1>6, ReadInv DEF Begin, Inv, storeVars

\* The check of the sample moves a session along its path or ends it.
LEMMA CheckSampleInv ==
    ASSUME Inv, NEW s \in Sessions, CheckSample(s)
    PROVE  Inv' /\ [StoreNext]_storeVars
<1>1. CASE Rollback(s, "NotFound")
  BY <1>1, RollbackInv DEF Inv, Replies
<1>2. CASE ~Rollback(s, "NotFound")
  <2> DEFINE step == IF req[s].op = "create_template" THEN "insert" ELSE "pick"
  <2>1. /\ pc[s] = "sample" /\ GoTo(s, step)
        /\ UNCHANGED <<templates, layouts, experiments, rowLock, webLock, req,
                       view, reply>>
    BY <1>2 DEF CheckSample
  <2>5. /\ req[s] \in Incoming
        /\ req[s].op \in {"create_template", "create_experiment"}
    BY <2>1, InvOf DEF OnPath, StepsOf, Incoming, Requests, Ops
  <2>6. pc'[s] = step /\ req'[s] = req[s]
    BY <2>1 DEF GoTo, Inv, TypeOK, SessionTypeOK
  <2>2. OnPath(s)' /\ ViewStands(s)'
    BY <2>5, <2>6 DEF OnPath, ViewStands, Holds, StepsOf
  <2>3. SessionTypeOK'
    BY <2>1 DEF GoTo, Inv, TypeOK, SessionTypeOK, Steps
  <2>4. \A q \in Sessions \ {s} : Undisturbed(q)
    BY <2>1 DEF GoTo, Inv, TypeOK, SessionTypeOK, Undisturbed
  <2> QED
    BY <2>1, <2>2, <2>3, <2>4, ReadInv DEF Inv, storeVars
<1> QED
  BY <1>1, <1>2

\* A new template takes a free id, so no row that a session knows changes.
LEMMA InsertTemplateInv ==
    ASSUME Inv, NEW s \in Sessions, InsertTemplate(s)
    PROVE  Inv' /\ [StoreNext]_storeVars
<1>1. CASE Rollback(s, "Unprocessable") \/ Rollback(s, "Conflict")
  BY <1>1, RollbackInv DEF Inv, Replies
<1>2. CASE ~(Rollback(s, "Unprocessable") \/ Rollback(s, "Conflict"))
  <2> DEFINE c == req[s].content
  <2>1. PICK t \in TemplateIds : CreateTemplate(t, c)
    BY <1>2 DEF InsertTemplate
  <2>2. Answer(s, "Ok") /\ c # InvalidBody /\ pc[s] = "insert"
    BY <1>2 DEF InsertTemplate
  <2>3. c \in Contents
    BY <2>2, InvOf DEF OnPath, StepsOf, Incoming, Requests, Ops
  <2>4. StoreNext
    BY <2>1, <2>3 DEF StoreNext
  <2>5. ASSUME NEW q \in Sessions \ {s}
        PROVE  Respected(q)
    <3>1. ViewStands(q)
      BY InvOf
    <3>2. IsFree(t)
      BY <2>1 DEF CreateTemplate
    <3>3. ASSUME Holds(q) \/ pc[q] = "drop_version"
          PROVE  view[q].row # t
      BY <3>1, <3>2, <3>3 DEF ViewStands, CurrentOf, IsCurrent, IsLive, IsFree
    <3> QED
      BY <2>1, <3>1, <3>3
         DEF CreateTemplate, Respected, ViewStands, IsLive, Used, Inv, TypeOK,
             StoreTypeOK
  <2> QED
    BY <2>2, <2>4, <2>5, CommitInv DEF Inv, Replies
<1> QED
  BY <1>1, <1>2

\* The row picked for locking is recorded and nothing is claimed of it yet.
LEMMA PickRowInv ==
    ASSUME Inv, NEW s \in Sessions, PickRow(s)
    PROVE  Inv' /\ [StoreNext]_storeVars
<1>1. CASE Rollback(s, "NotFound")
  BY <1>1, RollbackInv DEF Inv, Replies
<1>2. CASE ~Rollback(s, "NotFound")
  <2>1. /\ pc[s] = "pick" /\ GoTo(s, "lock")
        /\ UNCHANGED <<templates, layouts, experiments, rowLock, webLock, req,
                       reply>>
    BY <1>2 DEF PickRow
  <2>2. PICK t \in TemplateIds : view' = [view EXCEPT ![s].row = t]
    BY <1>2 DEF PickRow, CurrentOf
  <2>3. SessionTypeOK'
    BY <2>1, <2>2 DEF GoTo, Inv, TypeOK, SessionTypeOK, Steps, Views
  <2>4. pc'[s] = "lock" /\ view'[s].row = t /\ req'[s] = req[s]
    BY <2>1, <2>2, InvOf DEF GoTo, Inv, TypeOK, SessionTypeOK, Views
  <2>5. OnPath(s)' /\ ViewStands(s)'
    BY <2>1, <2>4, InvOf DEF OnPath, ViewStands, Holds, StepsOf, Incoming, Ops,
                             Requests
  <2>6. \A q \in Sessions \ {s} : Undisturbed(q)
    BY <2>1, <2>2 DEF GoTo, Inv, TypeOK, SessionTypeOK, Undisturbed
  <2> QED
    BY <2>1, <2>3, <2>5, <2>6, ReadInv DEF Inv, storeVars
<1> QED
  BY <1>1, <1>2

\* Taking the row lock makes the session's view of the row true: the WHERE
\* clause was evaluated again under the lock.
LEMMA LockRowInv ==
    ASSUME Inv, NEW s \in Sessions, LockRow(s)
    PROVE  Inv' /\ [StoreNext]_storeVars
<1> DEFINE t == view[s].row
           creates == req[s].op = "create_experiment"
           step == IF creates THEN "save" ELSE "decide"
<1>1. CASE Rollback(s, "NotFound") \/ Rollback(s, "Unprocessable")
  BY <1>1, RollbackInv DEF Inv, Replies
<1>2. CASE ~(Rollback(s, "NotFound") \/ Rollback(s, "Unprocessable"))
  <2>1. /\ pc[s] = "lock" /\ Unlocked(t) /\ t \in CurrentOf(req[s].id)
        /\ rowLock' = [rowLock EXCEPT ![t] = s]
        /\ view' = [view EXCEPT ![s].content = templates[t].content,
                                ![s].layout = layouts[t]]
        /\ GoTo(s, step)
        /\ UNCHANGED <<templates, layouts, experiments, webLock, req, reply>>
    BY <1>2 DEF LockRow
  <2>2. /\ t \in TemplateIds
        /\ templates[t].content \in Contents \cup {NoContent}
        /\ layouts[t] \in Layouts \cup {NoLayout}
    BY <2>1 DEF CurrentOf, Inv, TypeOK, StoreTypeOK, TemplateRow
  <2>3. /\ req[s] \in Incoming
        /\ req[s].op \in {"edit_form", "put_layout", "create_experiment"}
    BY <2>1, InvOf DEF OnPath, StepsOf, Incoming, Requests, Ops
  <2>4. /\ pc'[s] = step /\ req'[s] = req[s]
        /\ rowLock'[t] = s
        /\ view'[s].row = t
        /\ view'[s].content = templates[t].content
        /\ view'[s].layout = layouts[t]
    BY <2>1, <2>2 DEF GoTo, Inv, TypeOK, SessionTypeOK, Views
  <2>5. view' \in [Sessions -> Views]
    <3>1. [view[s] EXCEPT !.content = templates[t].content,
                          !.layout = layouts[t]] \in Views
      BY <2>2 DEF Inv, TypeOK, SessionTypeOK, Views
    <3> QED
      BY <2>1, <3>1 DEF Inv, TypeOK, SessionTypeOK
  <2>6. SessionTypeOK'
    BY <2>1, <2>5 DEF GoTo, Inv, TypeOK, SessionTypeOK, Steps
  <2>7. OnPath(s)'
    BY <2>3, <2>4, RequestConstants
       DEF OnPath, StepsOf, Incoming, Requests, Ops
  <2>8. ViewStands(s)'
    BY <2>1, <2>3, <2>4 DEF ViewStands, Holds, CurrentOf, IsCurrent
  <2>9. \A q \in Sessions \ {s} : Undisturbed(q)
    BY <2>1, RequestConstants
       DEF GoTo, Inv, TypeOK, SessionTypeOK, Undisturbed, Unlocked
  <2> QED
    BY <2>1, <2>6, <2>7, <2>8, <2>9, ReadInv DEF Inv, storeVars
<1> QED
  BY <1>1, <1>2

\* Asking under the lock whether experiments use the row makes the answer
\* "no" stand, since creating one takes the same lock.
LEMMA DecideInv ==
    ASSUME Inv, NEW s \in Sessions, Decide(s)
    PROVE  Inv' /\ [StoreNext]_storeVars
<1> DEFINE t == view[s].row
<1>1. CASE Rollback(s, "Unprocessable")
  BY <1>1, RollbackInv DEF Inv, Replies
<1>2. CASE ~Rollback(s, "Unprocessable")
  <2>1. /\ pc[s] = "decide" /\ req[s].content # InvalidBody
        /\ view' = [view EXCEPT ![s].used = Used(t)]
        /\ GoTo(s, "save")
        /\ UNCHANGED <<templates, layouts, experiments, rowLock, webLock, req,
                       reply>>
    BY <1>2 DEF Decide
  <2>2. Used(t) \in BOOLEAN
    BY DEF Used
  <2>3. /\ pc'[s] = "save" /\ req'[s] = req[s]
        /\ view'[s].row = t /\ view'[s].used = Used(t)
        /\ view'[s].content = view[s].content
        /\ view'[s].layout = view[s].layout
    BY <2>1 DEF GoTo, Inv, TypeOK, SessionTypeOK, Views
  <2>4. SessionTypeOK'
    BY <2>1, <2>2 DEF GoTo, Inv, TypeOK, SessionTypeOK, Steps, Views
  <2>5. OnPath(s)'
    BY <2>1, <2>3, InvOf DEF OnPath, StepsOf, Incoming, Requests, Ops
  <2>6. ViewStands(s)'
    <3>1. /\ t \in CurrentOf(req[s].id) /\ rowLock[t] = s
          /\ view[s].content = templates[t].content
          /\ layouts[t] \in {view[s].layout, NoLayout}
      BY <2>1, InvOf DEF ViewStands, Holds
    <3>2. ~view'[s].used => ~Used(view[s].row)'
      BY <2>1, <2>3 DEF Used
    <3> QED
      BY <2>1, <2>3, <3>1, <3>2 DEF ViewStands, Holds, CurrentOf, IsCurrent
  <2>7. \A q \in Sessions \ {s} : Undisturbed(q)
    BY <2>1 DEF GoTo, Inv, TypeOK, SessionTypeOK, Undisturbed
  <2> QED
    BY <2>1, <2>4, <2>5, <2>6, <2>7, ReadInv DEF Inv, storeVars
<1> QED
  BY <1>1, <1>2

\* What a session relies on when it writes.
LEMMA Saving ==
    ASSUME Inv, NEW s \in Sessions, pc[s] = "save"
    PROVE  /\ view[s].row \in TemplateIds
           /\ IsCurrent(view[s].row) /\ IsLive(view[s].row)
           /\ HasRow(s)
           /\ rowLock[view[s].row] = s
           /\ view[s].content = templates[view[s].row].content
           /\ layouts[view[s].row] \in {view[s].layout, NoLayout}
           /\ view[s].used \/ req[s].op = "create_experiment"
                 \/ ~Used(view[s].row)
           /\ req[s].op = "edit_form" => req[s].content \in Contents
           /\ req[s].op = "put_layout" => req[s].layout \in Layouts
           /\ req[s].op = "create_experiment" => req[s].exp \in ExpIds
  BY InvOf DEF OnPath, ViewStands, Holds, HasRow, CurrentOf, IsCurrent, IsLive,
               Incoming, Requests

\* A row that one session has locked is not the row another holds.
LEMMA OtherRow ==
    ASSUME Inv, NEW s \in Sessions, NEW q \in Sessions \ {s},
           NEW t \in TemplateIds, rowLock[t] = s, Holds(q)
    PROVE  view[q].row # t
  BY InvOf DEF ViewStands

\* The edit in place changes the content of the one row the session locked.
LEMMA SaveInPlaceInv ==
    ASSUME Inv, NEW s \in Sessions, SaveInPlace(s)
    PROVE  Inv' /\ [StoreNext]_storeVars
<1> DEFINE t == view[s].row
           c == req[s].content
<1>1. CASE Rollback(s, "AssertRow") \/ Rollback(s, "Conflict")
  BY <1>1, RollbackInv DEF Inv, Replies
<1>2. CASE ~(Rollback(s, "AssertRow") \/ Rollback(s, "Conflict"))
  <2>1. /\ pc[s] = "save" /\ req[s].op = "edit_form" /\ ~view[s].used
        /\ templates' = [templates EXCEPT ![t].content = c]
        /\ UNCHANGED <<layouts, experiments>>
        /\ Answer(s, "Ok")
    BY <1>2 DEF SaveInPlace
  <2>2. /\ t \in TemplateIds /\ IsCurrent(t) /\ rowLock[t] = s
        /\ ~Used(t) /\ c \in Contents
    BY <2>1, Saving
  <2>3. EditInPlace(t, c)
    BY <2>1, <2>2 DEF EditInPlace
  <2>4. StoreNext
    BY <2>2, <2>3 DEF StoreNext
  <2>5. ASSUME NEW q \in Sessions \ {s}
        PROVE  Respected(q)
    <3>1. Holds(q) => view[q].row # t
      BY <2>2, OtherRow
    <3> QED
      BY <2>1, <3>1, InvOf
         DEF Respected, ViewStands, Holds, IsLive, Used, Inv, TypeOK,
             StoreTypeOK, TemplateRow
  <2> QED
    BY <2>1, <2>4, <2>5, CommitInv DEF Inv, Replies
<1> QED
  BY <1>1, <1>2

\* The fork retires the one row the session locked and takes a free id.
LEMMA SaveNewVersionInv ==
    ASSUME Inv, NEW s \in Sessions, SaveNewVersion(s)
    PROVE  Inv' /\ [StoreNext]_storeVars
<1> DEFINE edits == req[s].op = "edit_form"
           t == view[s].row
           c == IF edits THEN req[s].content ELSE view[s].content
           l == IF edits THEN Cloned(view[s].layout) ELSE req[s].layout
           stale == view[s].layout # NoLayout /\ layouts[t] = NoLayout
           Fails == \/ Rollback(s, "AssertRow")
                    \/ Rollback(s, "StaleData")
                    \/ Rollback(s, IF edits THEN "Conflict" ELSE "ServerError")
<1>1. CASE Fails
  BY <1>1, RollbackInv DEF Inv, Replies
<1>2. CASE ~Fails
  <2>1. /\ pc[s] = "save" /\ req[s].op \in {"edit_form", "put_layout"}
        /\ ~stale
        /\ UNCHANGED experiments
        /\ Answer(s, "Ok")
    BY <1>2 DEF SaveNewVersion
  <2>2. PICK u \in TemplateIds :
           /\ IsFree(u)
           /\ templates' = [templates EXCEPT
                               ![t].current = FALSE,
                               ![u] = NextVersion(templates[t], c)]
           /\ layouts' = [layouts EXCEPT ![u] = l]
    BY <1>2 DEF SaveNewVersion
  <2>3. /\ t \in TemplateIds /\ IsCurrent(t) /\ rowLock[t] = s
        /\ view[s].content = templates[t].content
        /\ layouts[t] \in {view[s].layout, NoLayout}
        /\ edits => req[s].content \in Contents
        /\ ~edits => req[s].layout \in Layouts
    BY <2>1, Saving
  <2>4. t # u
    BY <2>2, <2>3 DEF IsFree, IsCurrent
  <2>5. /\ view[s].content \in Contents \cup {NoContent}
        /\ view[s].layout \in Layouts \cup {NoLayout}
    BY InvOf DEF Views
  <2>6. layouts[t] = view[s].layout
    BY <2>1, <2>3
  <2>7. l \in Layouts
    BY <2>1, <2>3, <2>5, StoreConstants DEF Cloned
  <2>8. c = templates[t].content \/ l = Cloned(layouts[t])
    BY <2>3, <2>6
  <2>9. Fork(t, u, c, l)
    BY <2>1, <2>2, <2>3, <2>8 DEF Fork
  <2>10. c \in Contents
    BY <2>1, <2>3 DEF Inv, TypeOK, StoreTypeOK, IsCurrent, IsFree
  <2>11. StoreNext
    BY <2>3, <2>7, <2>9, <2>10 DEF StoreNext
  <2>12. ASSUME NEW q \in Sessions \ {s}
         PROVE  Respected(q)
    <3>1. Holds(q) => view[q].row # t
      BY <2>3, OtherRow
    <3>2. ASSUME Holds(q) \/ pc[q] = "drop_version"
          PROVE  view[q].row # u /\ IsLive(view[q].row)
      BY <2>2, <3>2, InvOf
         DEF ViewStands, CurrentOf, IsCurrent, IsLive, IsFree
    <3> QED
      BY <2>1, <2>2, <2>3, <3>1, <3>2
         DEF Respected, Holds, IsLive, Used, Inv, TypeOK, StoreTypeOK,
             TemplateRow
  <2> QED
    BY <2>1, <2>11, <2>12, CommitInv DEF Inv, Replies
<1> QED
  BY <1>1, <1>2

\* The save of a layout changes the one row the session locked.
LEMMA SaveLayoutInv ==
    ASSUME Inv, NEW s \in Sessions, SaveLayout(s)
    PROVE  Inv' /\ [StoreNext]_storeVars
<1> DEFINE t == view[s].row
           l == req[s].layout
           Fails == \/ Rollback(s, "AssertPdf")
                    \/ Rollback(s, "StaleData")
                    \/ Rollback(s, "ServerError")
<1>1. CASE Fails
  BY <1>1, RollbackInv DEF Inv, Replies
<1>2. CASE ~Fails
  <2>1. /\ pc[s] = "save" /\ req[s].op = "put_layout" /\ ~view[s].used
        /\ layouts' = [layouts EXCEPT ![t] = l]
        /\ UNCHANGED <<templates, experiments>>
        /\ Answer(s, "Ok")
    BY <1>2 DEF SaveLayout
  <2>2. /\ t \in TemplateIds /\ IsCurrent(t) /\ rowLock[t] = s
        /\ ~Used(t) /\ l \in Layouts
    BY <2>1, Saving
  <2>3. PutLayout(t, l)
    BY <2>1, <2>2 DEF PutLayout
  <2>4. StoreNext
    BY <2>2, <2>3 DEF StoreNext
  <2>5. ASSUME NEW q \in Sessions \ {s}
        PROVE  Respected(q)
    <3>1. Holds(q) => view[q].row # t
      BY <2>2, OtherRow
    <3> QED
      BY <2>1, <3>1, InvOf
         DEF Respected, ViewStands, IsLive, Used, Inv, TypeOK, StoreTypeOK
  <2> QED
    BY <2>1, <2>4, <2>5, CommitInv DEF Inv, Replies
<1> QED
  BY <1>1, <1>2

\* A new experiment uses the row its session locked, so no other session's
\* "unused" is disturbed.
LEMMA InsertExperimentInv ==
    ASSUME Inv, NEW s \in Sessions, InsertExperiment(s)
    PROVE  Inv' /\ [StoreNext]_storeVars
<1> DEFINE t == view[s].row
           e == req[s].exp
<1>1. CASE Rollback(s, "Conflict")
  BY <1>1, RollbackInv DEF Inv, Replies
<1>2. CASE ~Rollback(s, "Conflict")
  <2>1. /\ pc[s] = "save" /\ req[s].op = "create_experiment"
        /\ experiments[e].status = "free"
        /\ experiments' = [experiments EXCEPT ![e] =
                             [status |-> "live", template |-> t,
                              content |-> view[s].content]]
        /\ UNCHANGED <<templates, layouts>>
        /\ Answer(s, "Ok")
    BY <1>2 DEF InsertExperiment
  <2>2. /\ t \in TemplateIds /\ IsCurrent(t) /\ rowLock[t] = s
        /\ view[s].content = templates[t].content
        /\ e \in ExpIds
    BY <2>1, Saving
  <2>3. CreateExperiment(e, t)
    BY <2>1, <2>2 DEF CreateExperiment, Snapshot
  <2>4. StoreNext
    BY <2>2, <2>3 DEF StoreNext
  <2>5. ASSUME NEW q \in Sessions \ {s}
        PROVE  Respected(q)
    <3>1. Holds(q) => view[q].row # t
      BY <2>2, OtherRow
    <3> QED
      BY <2>1, <2>2, <3>1, InvOf
         DEF Respected, ViewStands, IsLive, Used, Inv, TypeOK, StoreTypeOK,
             ExperimentRow
  <2> QED
    BY <2>1, <2>4, <2>5, CommitInv DEF Inv, Replies
<1> QED
  BY <1>1, <1>2

\* The read of delete_pdf_template changes no row.
LEMMA ReadLayoutInv ==
    ASSUME Inv, NEW s \in Sessions, ReadLayout(s)
    PROVE  Inv' /\ [StoreNext]_storeVars
<1>1. CASE Rollback(s, "NotFound")
  BY <1>1, RollbackInv DEF Inv, Replies
<1>2. CASE ~Rollback(s, "NotFound")
  <2>1. /\ pc[s] = "read_layout" /\ GoTo(s, "drop_layout")
        /\ UNCHANGED <<templates, layouts, experiments, rowLock, webLock, req,
                       view, reply>>
    BY <1>2 DEF ReadLayout
  <2>2. pc'[s] = "drop_layout" /\ SessionTypeOK'
    BY <2>1 DEF GoTo, Inv, TypeOK, SessionTypeOK, Steps
  <2>3. OnPath(s)' /\ ViewStands(s)'
    BY <2>1, <2>2, InvOf
       DEF OnPath, ViewStands, Holds, StepsOf, Incoming, Requests, Ops
  <2>4. \A q \in Sessions \ {s} : Undisturbed(q)
    BY <2>1 DEF GoTo, Inv, TypeOK, SessionTypeOK, Undisturbed
  <2> QED
    BY <2>1, <2>2, <2>3, <2>4, ReadInv DEF Inv, storeVars
<1> QED
  BY <1>1, <1>2

\* The delete of a layout is what every other session's view allows for.
LEMMA DropLayoutInv ==
    ASSUME Inv, NEW s \in Sessions, DropLayout(s)
    PROVE  Inv' /\ [StoreNext]_storeVars
<1> DEFINE t == req[s].id
<1>1. pc[s] = "drop_layout" /\ DeleteLayout(t) /\ Answer(s, "Ok")
  BY DEF DropLayout
<1>2. t \in TemplateIds
  BY <1>1, InvOf DEF OnPath, StepsOf, Incoming, Requests, Ops
<1>3. StoreNext
  BY <1>1, <1>2 DEF StoreNext
<1>4. ASSUME NEW q \in Sessions \ {s}
      PROVE  Respected(q)
  BY <1>1, <1>2, InvOf
     DEF DeleteLayout, Respected, ViewStands, IsLive, Used, Inv, TypeOK,
         StoreTypeOK
<1> QED
  BY <1>1, <1>3, <1>4, CommitInv DEF Inv, Replies

\* The advisory lock makes the version read as live stay live.
LEMMA ReadVersionInv ==
    ASSUME Inv, NEW s \in Sessions, ReadVersion(s)
    PROVE  Inv' /\ [StoreNext]_storeVars
<1> DEFINE t == req[s].id
<1>1. CASE Rollback(s, "NotFound")
  BY <1>1, RollbackInv DEF Inv, Replies
<1>2. CASE ~Rollback(s, "NotFound")
  <2>1. /\ pc[s] = "read_version" /\ webLock = NoSession /\ IsLive(t)
        /\ webLock' = s
        /\ view' = [view EXCEPT ![s].row = t,
                                ![s].current = templates[t].current]
        /\ GoTo(s, "drop_version")
        /\ UNCHANGED <<templates, layouts, experiments, rowLock, req, reply>>
    BY <1>2 DEF ReadVersion
  <2>2. /\ req[s] \in Incoming /\ req[s].op = "delete_template"
        /\ t \in TemplateIds
    BY <2>1, InvOf DEF OnPath, StepsOf, Incoming, Requests, Ops
  <2>3. templates[t].current \in BOOLEAN
    BY <2>2 DEF Inv, TypeOK, StoreTypeOK, TemplateRow
  <2>4. [view[s] EXCEPT !.row = t, !.current = templates[t].current] \in Views
    BY <2>2, <2>3, InvOf DEF Views
  <2>5. /\ pc'[s] = "drop_version" /\ req'[s] = req[s]
        /\ view'[s].row = t /\ view'[s].current = templates[t].current
    BY <2>1 DEF GoTo, Inv, TypeOK, SessionTypeOK, Views
  <2>6. SessionTypeOK'
    BY <2>1, <2>4 DEF GoTo, Inv, TypeOK, SessionTypeOK, Steps
  <2>7. OnPath(s)' /\ ViewStands(s)'
    BY <2>1, <2>2, <2>5
       DEF OnPath, ViewStands, Holds, StepsOf, Incoming, Requests, Ops, IsLive
  <2>8. \A q \in Sessions \ {s} : Undisturbed(q)
    BY <2>1, RequestConstants DEF GoTo, Inv, TypeOK, SessionTypeOK, Undisturbed
  <2> QED
    BY <2>1, <2>6, <2>7, <2>8, ReadInv DEF Inv, storeVars
<1> QED
  BY <1>1, <1>2

\* The delete of a version waits for the row lock, so no session that holds
\* the row loses it.
LEMMA DropVersionInv ==
    ASSUME Inv, NEW s \in Sessions, DropVersion(s)
    PROVE  Inv' /\ [StoreNext]_storeVars
<1> DEFINE t == view[s].row
<1>1. /\ pc[s] = "drop_version" /\ Unlocked(t)
      /\ templates' = [templates EXCEPT
                          ![t].status = "deleted",
                          ![t].current = @ /\ ~view[s].current]
      /\ UNCHANGED <<layouts, experiments>>
      /\ Answer(s, "Ok")
  BY DEF DropVersion
<1>2. /\ t \in TemplateIds /\ IsLive(t) /\ webLock = s
      /\ templates[t].current => view[s].current
  BY <1>1, InvOf DEF ViewStands
<1>3. templates[t] \in TemplateRow /\ view[s].current \in BOOLEAN
  BY <1>2, InvOf DEF Inv, TypeOK, StoreTypeOK, Views
<1>4. (templates[t].current /\ ~view[s].current) = FALSE
  BY <1>2, <1>3 DEF TemplateRow
<1>5. DeleteTemplate(t)
  BY <1>1, <1>2, <1>3, <1>4 DEF DeleteTemplate
<1>6. StoreNext
  BY <1>2, <1>5 DEF StoreNext
<1>7. ASSUME NEW q \in Sessions \ {s}
      PROVE  Respected(q)
  <2>1. Holds(q) => view[q].row # t
    BY <1>1, InvOf, RequestConstants DEF ViewStands, Unlocked
  <2>2. pc[q] # "drop_version"
    BY <1>2, InvOf DEF ViewStands
  <2>3. \A v \in TemplateIds \ {t} : templates'[v] = templates[v]
    BY <1>2, <1>5, DeleteRows DEF Inv, TypeOK
  <2> QED
    BY <1>1, <2>1, <2>2, <2>3
       DEF Respected, Used, Inv, TypeOK, StoreTypeOK
<1> QED
  BY <1>1, <1>6, <1>7, CommitInv DEF Inv, Replies

\* Deleting an experiment only makes versions unused.
LEMMA RemoveExperimentInv ==
    ASSUME Inv, RemoveExperiment
    PROVE  Inv' /\ [StoreNext]_storeVars
<1>1. PICK e \in ExpIds : DeleteExperiment(e)
  BY DEF RemoveExperiment
<1>2. UNCHANGED sessionVars
  BY DEF RemoveExperiment
<1>3. StoreNext
  BY <1>1 DEF StoreNext
<1>4. SessionTypeOK'
  BY <1>2 DEF Inv, TypeOK, SessionTypeOK, sessionVars
<1>5. ASSUME NEW q \in Sessions
      PROVE  OnPath(q)' /\ ViewStands(q)'
  <2>1. Undisturbed(q)
    BY <1>2 DEF Undisturbed, sessionVars
  <2>2. Respected(q)
    BY <1>1, InvOf DEF DeleteExperiment, Respected, ViewStands, IsLive, Used,
                       Inv, TypeOK, StoreTypeOK, ExperimentRow
  <2> QED
    BY <2>1, <2>2, InvOf, Bystander
<1> QED
  BY <1>3, <1>4, <1>5, StoreTypeStep DEF Inv, TypeOK, LockInv

-----------------------------------------------------------------------------
(* Refinement *)

LEMMA InitInv == Init => Inv
<1> SUFFICES ASSUME Init PROVE Inv
  OBVIOUS
<1>1. StoreTypeOK
  <2>1. FreeTemplate \in TemplateRow /\ FreeTemplate.status = "free"
    BY DEF FreeTemplate, TemplateRow, Statuses
  <2>2. FreeExperiment \in ExperimentRow
    BY DEF FreeExperiment, ExperimentRow, Statuses
  <2>3. /\ templates = [t \in TemplateIds |-> FreeTemplate]
        /\ layouts = [t \in TemplateIds |-> NoLayout]
        /\ experiments = [e \in ExpIds |-> FreeExperiment]
    BY DEF Init, StoreInit
  <2>4. templates \in [TemplateIds -> TemplateRow]
    BY <2>1, <2>3
  <2>5. experiments \in [ExpIds -> ExperimentRow]
    BY <2>2, <2>3
  <2>6. \A t \in TemplateIds : IsFree(t)
    BY <2>1, <2>3 DEF IsFree
  <2>7. layouts \in [TemplateIds -> Layouts \cup {NoLayout}]
    BY <2>3
  <2> QED
    BY <2>4, <2>5, <2>6, <2>7 DEF StoreTypeOK
<1>2. NoRequest \in Requests /\ NothingRead \in Views
  BY DEF NoRequest, Requests, Ops, NothingRead, Views
<1>3. SessionTypeOK
  BY <1>2 DEF Init, SessionTypeOK, Steps, Replies
<1>4. LockInv
  BY DEF Init, LockInv, OnPath, ViewStands, Holds
<1> QED
  BY <1>1, <1>3, <1>4 DEF Inv, TypeOK

\* Every step of the detailed specification keeps the invariant and is a step
\* of the store or leaves it as it is.
LEMMA NextInv ==
    ASSUME Inv, [Next]_vars
    PROVE  Inv' /\ [StoreNext]_storeVars
<1>1. CASE UNCHANGED vars
  <2>1. UNCHANGED storeVars /\ UNCHANGED sessionVars
    BY <1>1 DEF vars, storeVars, sessionVars
  <2>2. TypeOK'
    BY <2>1 DEF storeVars, sessionVars, Inv, TypeOK, StoreTypeOK,
                SessionTypeOK, IsFree
  <2>3. ASSUME NEW q \in Sessions
        PROVE  OnPath(q)' /\ ViewStands(q)'
    <3>1. Undisturbed(q)
      BY <2>1 DEF Undisturbed, sessionVars
    <3>2. Respected(q)
      BY <2>1, StoreIdle DEF Inv
    <3> QED
      BY <3>1, <3>2, InvOf, Bystander
  <2> QED
    BY <2>1, <2>2, <2>3 DEF Inv, LockInv
<1>2. ASSUME NEW s \in Sessions, Begin(s) \/ Step(s) \/ Abort(s)
      PROVE  Inv' /\ [StoreNext]_storeVars
  <2>1. CASE Begin(s)
    BY <2>1, BeginInv
  <2>2. CASE Step(s)
    BY <2>2, CheckSampleInv, InsertTemplateInv, PickRowInv, LockRowInv,
       DecideInv, SaveInPlaceInv, SaveNewVersionInv, SaveLayoutInv,
       InsertExperimentInv, ReadLayoutInv, DropLayoutInv, ReadVersionInv,
       DropVersionInv
       DEF Step
  <2>3. CASE Abort(s)
    BY <2>3, RollbackInv DEF Abort, Inv, Replies
  <2> QED
    BY <1>2, <2>1, <2>2, <2>3
<1> QED
  BY <1>1, <1>2, RemoveExperimentInv DEF Next

\* Inv is an invariant of the requests.
LEMMA Invariance == Spec => []Inv
<1>1. Inv /\ [Next]_vars => Inv'
  BY NextInv
<1> QED
  BY InitInv, <1>1, PTL DEF Spec

\* The state of the catalogue and of the sessions is well formed whatever the
\* interleaving of the requests.
THEOREM TypeCorrect == Spec => []TypeOK
<1>1. Inv => TypeOK
  BY DEF Inv
<1> QED
  BY Invariance, <1>1, PTL

\* While a session holds the row lock, what it read of the row stands: the
\* has-experiments check cannot go stale between reading it and acting on it.
THEOREM LocksProtect == Spec => []LockInv
<1>1. Inv => LockInv
  BY DEF Inv
<1> QED
  BY Invariance, <1>1, PTL

\* The requests, interleaved statement by statement, implement the store,
\* whose operations are atomic.
THEOREM RequestsImplementStore == Spec => StoreSpec
<1>1. Init => StoreInit
  BY DEF Init
<1>2. Inv /\ [Next]_vars => [StoreNext]_storeVars
  BY NextInv
<1> QED
  BY <1>1, <1>2, Invariance, PTL DEF Spec, StoreSpec

\* Neither `assert row is not None` nor `assert new_row is not None` fails: a
\* session about to save finds the row it has locked.
THEOREM AssertionsHold == Spec => []RowNeverMissing
<1>1. Init => RowNeverMissing
  BY DEF Init, RowNeverMissing
<1>2. Inv /\ RowNeverMissing /\ [Next]_vars => RowNeverMissing'
  <2> SUFFICES ASSUME Inv, RowNeverMissing, [Next]_vars
               PROVE  RowNeverMissing'
    OBVIOUS
  <2>1. ASSUME NEW s \in Sessions, NEW r \in Replies \ {"AssertRow"},
               Answer(s, r)
        PROVE  RowNeverMissing'
    BY <2>1 DEF Answer, RowNeverMissing, Inv, TypeOK, SessionTypeOK
  <2>2. ASSUME UNCHANGED reply
        PROVE  RowNeverMissing'
    BY <2>2 DEF RowNeverMissing
  <2>3. ASSUME NEW s \in Sessions, NEW r \in Replies \ {"AssertRow"},
               Rollback(s, r)
        PROVE  RowNeverMissing'
    BY <2>1, <2>3 DEF Rollback
  <2>4. ASSUME NEW s \in Sessions, Begin(s)
        PROVE  RowNeverMissing'
    BY <2>4 DEF Begin, RowNeverMissing, Inv, TypeOK, SessionTypeOK
  <2>5. ASSUME NEW s \in Sessions, SaveInPlace(s) \/ SaveNewVersion(s)
        PROVE  RowNeverMissing'
    <3>1. IsLive(view[s].row) /\ HasRow(s)
      BY <2>5, Saving DEF SaveInPlace, SaveNewVersion
    <3> QED
      BY <2>1, <2>3, <2>5, <3>1 DEF SaveInPlace, SaveNewVersion, Replies
  <2>6. ASSUME NEW s \in Sessions,
               \/ CheckSample(s) \/ InsertTemplate(s) \/ PickRow(s)
               \/ LockRow(s) \/ Decide(s) \/ SaveLayout(s)
               \/ InsertExperiment(s) \/ ReadLayout(s) \/ DropLayout(s)
               \/ ReadVersion(s) \/ DropVersion(s) \/ Abort(s)
        PROVE  RowNeverMissing'
    BY <2>1, <2>2, <2>3, <2>6
       DEF CheckSample, InsertTemplate, PickRow, LockRow, Decide, SaveLayout,
           InsertExperiment, ReadLayout, DropLayout, ReadVersion, DropVersion,
           Abort, Replies
  <2>7. CASE RemoveExperiment
    BY <2>2, <2>7 DEF RemoveExperiment, sessionVars
  <2>8. CASE UNCHANGED vars
    BY <2>2, <2>8 DEF vars
  <2> QED
    BY <2>4, <2>5, <2>6, <2>7, <2>8 DEF Next, Step
<1> QED
  BY <1>1, <1>2, Invariance, PTL DEF Spec

-----------------------------------------------------------------------------
(* What the store keeps *)

\* A live experiment's snapshot equals the version it names after every step.
LEMMA FrozenStep ==
    ASSUME StoreTypeOK, FrozenForms, [StoreNext]_storeVars
    PROVE  FrozenForms'
<1> USE DEF FrozenForms, StoreTypeOK, IsFree
<1>1. CASE UNCHANGED storeVars
  BY <1>1 DEF storeVars
<1>2. ASSUME NEW t \in TemplateIds, NEW c \in Contents, CreateTemplate(t, c)
      PROVE  FrozenForms'
  BY <1>2 DEF CreateTemplate
<1>3. ASSUME NEW t \in TemplateIds, NEW c \in Contents, EditInPlace(t, c)
      PROVE  FrozenForms'
  <2>1. \A v \in TemplateIds \ {t} : templates'[v] = templates[v]
    BY <1>3 DEF EditInPlace
  <2>2. /\ templates'[t].status = templates[t].status
        /\ \A e \in ExpIds :
              experiments[e].status = "live" => experiments[e].template # t
    BY <1>3 DEF EditInPlace, Used, TemplateRow
  <2> QED
    BY <1>3, <2>1, <2>2 DEF EditInPlace
<1>4. ASSUME NEW t \in TemplateIds, NEW u \in TemplateIds,
             NEW c \in Contents, NEW l \in Layouts, Fork(t, u, c, l)
      PROVE  FrozenForms'
  <2>1. /\ templates'[t].status = "live"
        /\ templates'[t].content = templates[t].content
        /\ \A v \in TemplateIds \ {t, u} : templates'[v] = templates[v]
    BY <1>4, ForkRows
  <2>2. templates[u].status = "free"
    BY <1>4 DEF Fork
  <2> QED
    BY <1>4, <2>1, <2>2 DEF Fork
<1>5. CASE UNCHANGED <<templates, experiments>>
  BY <1>5
<1>6. ASSUME NEW t \in TemplateIds, DeleteTemplate(t)
      PROVE  FrozenForms'
  <2>1. /\ templates'[t].status = "deleted"
        /\ templates'[t].content = templates[t].content
        /\ \A v \in TemplateIds \ {t} : templates'[v] = templates[v]
    BY <1>6, DeleteRows
  <2> QED
    BY <1>6, <2>1 DEF DeleteTemplate
<1>7. ASSUME NEW e \in ExpIds, NEW t \in TemplateIds, CreateExperiment(e, t)
      PROVE  FrozenForms'
  BY <1>7 DEF CreateExperiment, Snapshot, IsCurrent
<1>8. ASSUME NEW e \in ExpIds, DeleteExperiment(e)
      PROVE  FrozenForms'
  BY <1>8 DEF DeleteExperiment, ExperimentRow
<1> HIDE DEF FrozenForms, StoreTypeOK, IsFree
<1> QED
  BY <1>1, <1>2, <1>3, <1>4, <1>5, <1>6, <1>7, <1>8
     DEF StoreNext, PutLayout, DeleteLayout

\* A step that keeps the version numbers, the lineages and which rows exist,
\* and makes no version current, keeps every lineage a chain.
LEMMA ChainKept ==
    ASSUME StoreTypeOK, VersionChain, StoreTypeOK',
           \A v \in TemplateIds :
              /\ IsFree(v)' <=> IsFree(v)
              /\ templates'[v].lineage = templates[v].lineage
              /\ templates'[v].version = templates[v].version
              /\ templates'[v].current => templates[v].current /\ IsLive(v)'
    PROVE  VersionChain'
  BY DEF VersionChain, StoreTypeOK

\* Every step of the store keeps the lineages chains.
LEMMA ChainStep ==
    ASSUME StoreTypeOK, VersionChain, [StoreNext]_storeVars
    PROVE  VersionChain'
<1>0. StoreTypeOK'
  BY StoreTypeStep
<1>1. CASE UNCHANGED templates
  BY <1>1 DEF VersionChain, IsLive, IsFree
<1>2. ASSUME NEW t \in TemplateIds, NEW c \in Contents, CreateTemplate(t, c)
      PROVE  VersionChain'
  <2>1. /\ templates'[t] = NewRow(t, 1, c)
        /\ \A v \in TemplateIds \ {t} : templates'[v] = templates[v]
        /\ templates[t].status = "free"
    BY <1>2 DEF CreateTemplate, FirstVersion, StoreTypeOK, IsFree
  <2>2. \A v \in TemplateIds \ {t} :
           templates[v].status # "free" => templates[v].lineage # t
    BY <2>1 DEF VersionChain, IsFree
  <2> QED
    BY <2>1, <2>2 DEF VersionChain, IsFree, IsLive, NewRow, StoreTypeOK
<1>3. ASSUME NEW t \in TemplateIds, NEW c \in Contents, EditInPlace(t, c)
      PROVE  VersionChain'
  <2>1. \A v \in TemplateIds \ {t} : templates'[v] = templates[v]
    BY <1>3 DEF EditInPlace, StoreTypeOK
  <2>2. /\ templates'[t].status = templates[t].status
        /\ templates'[t].lineage = templates[t].lineage
        /\ templates'[t].version = templates[t].version
        /\ templates'[t].current = templates[t].current
    BY <1>3 DEF EditInPlace, StoreTypeOK, TemplateRow
  <2> QED
    BY <1>0, <2>1, <2>2, ChainKept DEF IsFree, IsLive, VersionChain
<1>4. ASSUME NEW t \in TemplateIds, NEW u \in TemplateIds,
             NEW c \in Contents, NEW l \in Layouts, Fork(t, u, c, l)
      PROVE  VersionChain'
  <2>1. /\ t # u
        /\ templates'[t].status = "live"
        /\ templates'[t].lineage = templates[t].lineage
        /\ templates'[t].version = templates[t].version
        /\ ~templates'[t].current
        /\ templates'[u] = NextVersion(templates[t], c)
        /\ \A v \in TemplateIds \ {t, u} : templates'[v] = templates[v]
    BY <1>4, ForkRows
  <2>2. /\ templates[t].status = "live" /\ templates[t].current
        /\ templates[u].status = "free"
    BY <1>4 DEF Fork, IsCurrent, IsFree
  <2>3. /\ templates'[u].status = "live" /\ templates'[u].current
        /\ templates'[u].lineage = templates[t].lineage
        /\ templates'[u].version = templates[t].version + 1
    BY <2>1 DEF NextVersion, NewRow
  <2>4. \A v \in TemplateIds \ {t} :
           templates[v].status # "free"
           /\ templates[v].lineage = templates[t].lineage
           => /\ templates[v].version < templates[t].version
              /\ ~templates[v].current
    <3> SUFFICES ASSUME NEW v \in TemplateIds \ {t},
                        templates[v].status # "free",
                        templates[v].lineage = templates[t].lineage
                 PROVE  /\ templates[v].version < templates[t].version
                        /\ ~templates[v].current
      OBVIOUS
    <3>1. templates[v].version \in Nat /\ templates[t].version \in Nat
      BY DEF StoreTypeOK, TemplateRow
    <3>2. templates[v].version < templates[t].version
      BY <2>2 DEF VersionChain, IsFree
    <3>3. templates[v].current => templates[t].version < templates[v].version
      BY <2>2 DEF VersionChain, IsFree
    <3> QED
      BY <3>1, <3>2, <3>3
  <2>5. \A v \in TemplateIds : templates[v].version \in Nat
    BY DEF StoreTypeOK, TemplateRow
  <2>6. ASSUME NEW v \in TemplateIds, NEW w \in TemplateIds
        PROVE  /\ templates'[v].current => templates'[v].status = "live"
               /\ templates'[v].status # "free" =>
                     templates'[templates'[v].lineage].status # "free"
    BY <2>1, <2>2, <2>3, <1>0 DEF VersionChain, IsFree, IsLive, StoreTypeOK
  <2>7. ASSUME NEW v \in TemplateIds, NEW w \in TemplateIds, v # w,
               templates'[v].status # "free", templates'[w].status # "free",
               templates'[v].lineage = templates'[w].lineage
        PROVE  /\ templates'[v].version # templates'[w].version
               /\ templates'[v].current =>
                     templates'[w].version < templates'[v].version
    <3>1. CASE v = u
      BY <2>1, <2>2, <2>3, <2>4, <2>5, <2>7, <3>1
    <3>2. CASE w = u
      BY <2>1, <2>2, <2>3, <2>4, <2>5, <2>7, <3>2
    <3>3. CASE v # u /\ w # u
      BY <2>1, <2>2, <2>7, <3>3 DEF VersionChain, IsFree
    <3> QED
      BY <3>1, <3>2, <3>3
  <2> QED
    BY <2>6, <2>7 DEF VersionChain, IsFree, IsLive
<1>5. ASSUME NEW t \in TemplateIds, DeleteTemplate(t)
      PROVE  VersionChain'
  <2>1. /\ templates'[t].status = "deleted"
        /\ templates'[t].lineage = templates[t].lineage
        /\ templates'[t].version = templates[t].version
        /\ ~templates'[t].current
        /\ \A v \in TemplateIds \ {t} : templates'[v] = templates[v]
    BY <1>5, DeleteRows
  <2>2. templates[t].status = "live"
    BY <1>5 DEF DeleteTemplate, IsLive
  <2> QED
    BY <1>0, <2>1, <2>2, ChainKept DEF IsFree, IsLive, VersionChain
<1> QED
  BY <1>1, <1>2, <1>3, <1>4, <1>5
     DEF StoreNext, storeVars, PutLayout, DeleteLayout, CreateExperiment,
         DeleteExperiment

\* The empty catalogue has neither experiments nor lineages.
LEMMA StoreStart == StoreInit => FrozenForms /\ VersionChain
  BY DEF StoreInit, FrozenForms, VersionChain, FreeTemplate, FreeExperiment,
         IsFree, IsLive

\* The forms of a live experiment are those of the version it was created
\* from, for as long as it lives: FOR UPDATE makes fork-or-edit safe.
THEOREM FormsStayFrozen == Spec => []FrozenForms
<1>1. Init => FrozenForms
  BY StoreStart DEF Init
<1>2. Inv /\ FrozenForms /\ [Next]_vars => FrozenForms'
  BY NextInv, FrozenStep DEF Inv, TypeOK
<1> QED
  BY <1>1, <1>2, Invariance, PTL DEF Spec

\* A lineage has at most one current version, its latest: the unique index on
\* (lineage_id, version) is never what stops a fork.
THEOREM LineagesAreChains == Spec => []VersionChain
<1>1. Init => VersionChain
  BY StoreStart DEF Init
<1>2. Inv /\ VersionChain /\ [Next]_vars => VersionChain'
  BY NextInv, ChainStep DEF Inv, TypeOK
<1> QED
  BY <1>1, <1>2, Invariance, PTL DEF Spec

\* A retired version never comes back and is never edited again.
LEMMA RetiredStep ==
    ASSUME StoreTypeOK, VersionChain, StoreNext
    PROVE  RetiredStays
<1>1. CASE UNCHANGED templates
  BY <1>1 DEF RetiredStays
<1>2. ASSUME NEW t \in TemplateIds, NEW c \in Contents,
             CreateTemplate(t, c) \/ EditInPlace(t, c)
      PROVE  RetiredStays
  BY <1>2 DEF CreateTemplate, EditInPlace, RetiredStays, IsFree, IsCurrent,
              StoreTypeOK
<1>3. ASSUME NEW t \in TemplateIds, NEW u \in TemplateIds,
             NEW c \in Contents, NEW l \in Layouts, Fork(t, u, c, l)
      PROVE  RetiredStays
  <2>1. IsFree(u)
    BY <1>3 DEF Fork
  <2>2. /\ ~templates'[t].current
        /\ templates'[t].content = templates[t].content
        /\ \A v \in TemplateIds \ {t, u} : templates'[v] = templates[v]
    BY <1>3, ForkRows
  <2> QED
    BY <2>1, <2>2 DEF RetiredStays
<1>4. ASSUME NEW t \in TemplateIds, DeleteTemplate(t)
      PROVE  RetiredStays
  <2>1. /\ ~templates'[t].current
        /\ templates'[t].content = templates[t].content
        /\ \A v \in TemplateIds \ {t} : templates'[v] = templates[v]
    BY <1>4, DeleteRows
  <2> QED
    BY <2>1 DEF RetiredStays
<1> QED
  BY <1>1, <1>2, <1>3, <1>4
     DEF StoreNext, PutLayout, DeleteLayout, CreateExperiment,
         DeleteExperiment

\* The layout of a used version is only ever deleted.
LEMMA LayoutStep ==
    ASSUME StoreTypeOK, FrozenForms, StoreNext
    PROVE  LayoutKept
<1>1. CASE UNCHANGED layouts
  BY <1>1 DEF LayoutKept
<1>2. ASSUME NEW t \in TemplateIds, NEW u \in TemplateIds,
             NEW c \in Contents, NEW l \in Layouts, Fork(t, u, c, l)
      PROVE  LayoutKept
  <2>1. ~Used(u)
    BY <1>2 DEF Fork, FrozenForms, Used, IsFree
  <2> QED
    BY <1>2, <2>1 DEF Fork, LayoutKept, StoreTypeOK
<1>3. ASSUME NEW t \in TemplateIds, NEW l \in Layouts, PutLayout(t, l)
      PROVE  LayoutKept
  BY <1>3 DEF PutLayout, LayoutKept, StoreTypeOK
<1>4. ASSUME NEW t \in TemplateIds, DeleteLayout(t)
      PROVE  LayoutKept
  BY <1>4 DEF DeleteLayout, LayoutKept, StoreTypeOK
<1> QED
  BY <1>1, <1>2, <1>3, <1>4
     DEF StoreNext, CreateTemplate, EditInPlace, DeleteTemplate,
         CreateExperiment, DeleteExperiment

\* No interleaving of edits, forks and deletions reinstates or rewrites a
\* version that is no longer current.
THEOREM RetiredVersionsStay == Spec => RetiredForGood
<1>1. Inv /\ VersionChain /\ [Next]_vars => [RetiredStays]_storeVars
  BY NextInv, RetiredStep DEF Inv, TypeOK
<1> QED
  BY <1>1, Invariance, LineagesAreChains, PTL DEF Spec, RetiredForGood

\* No interleaving of layout saves and experiment creations rewrites the
\* layout that a live experiment's report is rendered with.
THEOREM UsedLayoutsStay == Spec => UsedLayoutKept
<1>1. Inv /\ FrozenForms /\ [Next]_vars => [LayoutKept]_storeVars
  BY NextInv, LayoutStep DEF Inv, TypeOK
<1> QED
  BY <1>1, Invariance, FormsStayFrozen, PTL DEF Spec, UsedLayoutKept

-----------------------------------------------------------------------------
(* What a failing save says *)

\* The partial unique index on the names of current versions.
NamesApart ==
    \A t, u \in TemplateIds :
        t # u /\ IsCurrent(t) /\ IsCurrent(u) =>
            NameOf[templates[t].content] # NameOf[templates[u].content]

\* Names stay apart when one row becomes current, or takes a content, whose
\* name no current row but the one it replaces has.
LEMMA NamesStep ==
    ASSUME NamesApart, NEW u \in TemplateIds, NEW t, NEW c \in Contents,
           ~NameTaken(c, t),
           templates'[u].content = c,
           t \in TemplateIds => t = u \/ ~IsCurrent(t)',
           \A v \in TemplateIds \ {u} :
              IsCurrent(v)' => IsCurrent(v) /\ templates'[v] = templates[v]
    PROVE  NamesApart'
<1>1. \A v \in TemplateIds \ {u} :
         IsCurrent(v)' => NameOf[templates'[v].content] # NameOf[c]
  BY DEF NameTaken
<1> QED
  BY <1>1 DEF NamesApart

LEMMA NamesInv ==
    ASSUME Inv, NamesApart, [Next]_vars
    PROVE  NamesApart'
<1>1. CASE UNCHANGED templates
  BY <1>1 DEF NamesApart, IsCurrent
<1>2. ASSUME NEW s \in Sessions, InsertTemplate(s), ~UNCHANGED templates
      PROVE  NamesApart'
  <2>1. /\ req[s].content # InvalidBody
        /\ ~NameTaken(req[s].content, NoId)
        /\ \E t \in TemplateIds : CreateTemplate(t, req[s].content)
    BY <1>2 DEF InsertTemplate, Rollback
  <2>2. PICK t \in TemplateIds : CreateTemplate(t, req[s].content)
    BY <2>1
  <2>3. req[s].content \in Contents
    <3>1. pc[s] = "insert" /\ req[s] \in Incoming /\ pc[s] \in StepsOf(req[s].op)
      BY <1>2, InvOf DEF InsertTemplate, OnPath
    <3>2. req[s].op \in Ops /\ req[s].op # "none"
      BY <3>1 DEF Incoming, Requests
    <3>3. req[s].op = "create_template"
      BY <3>1, <3>2 DEF StepsOf, Ops
    <3> QED
      BY <2>1, <3>1, <3>3 DEF Incoming, Requests
  <2>4. /\ templates'[t].content = req[s].content
        /\ \A v \in TemplateIds \ {t} : templates'[v] = templates[v]
    BY <2>2 DEF CreateTemplate, FirstVersion, NewRow, Inv, TypeOK, StoreTypeOK
  <2>5. NoId \notin TemplateIds
    BY StoreConstants
  <2> QED
    BY <2>1, <2>3, <2>4, <2>5, NamesStep DEF IsCurrent
<1>3. ASSUME NEW s \in Sessions, SaveInPlace(s), ~UNCHANGED templates
      PROVE  NamesApart'
  <2> DEFINE t == view[s].row
             c == req[s].content
  <2>1. /\ pc[s] = "save" /\ req[s].op = "edit_form"
        /\ ~NameTaken(c, t)
        /\ templates' = [templates EXCEPT ![t].content = c]
    BY <1>3 DEF SaveInPlace, Rollback
  <2>2. t \in TemplateIds /\ c \in Contents
    BY <2>1, Saving
  <2>3. /\ templates'[t].content = c
        /\ \A v \in TemplateIds \ {t} : templates'[v] = templates[v]
    BY <2>1, <2>2 DEF Inv, TypeOK, StoreTypeOK, TemplateRow
  <2> QED
    BY <2>1, <2>2, <2>3, NamesStep DEF IsCurrent
<1>4. ASSUME NEW s \in Sessions, SaveNewVersion(s), ~UNCHANGED templates
      PROVE  NamesApart'
  <2> DEFINE edits == req[s].op = "edit_form"
             t == view[s].row
             c == IF edits THEN req[s].content ELSE view[s].content
  <2>1. /\ pc[s] = "save" /\ ~NameTaken(c, t)
        /\ \E u \in TemplateIds :
              /\ IsFree(u)
              /\ templates' = [templates EXCEPT
                                  ![t].current = FALSE,
                                  ![u] = NextVersion(templates[t], c)]
    BY <1>4 DEF SaveNewVersion, Rollback
  <2>2. PICK u \in TemplateIds :
              /\ IsFree(u)
              /\ templates' = [templates EXCEPT
                                  ![t].current = FALSE,
                                  ![u] = NextVersion(templates[t], c)]
    BY <2>1
  <2>3. /\ t \in TemplateIds /\ IsCurrent(t)
        /\ view[s].content = templates[t].content
        /\ edits => req[s].content \in Contents
    BY <2>1, Saving
  <2>4. c \in Contents
    BY <2>3 DEF Inv, TypeOK, StoreTypeOK, IsCurrent, IsFree
  <2>5. /\ t # u
        /\ templates'[u] = NextVersion(templates[t], c)
        /\ ~templates'[t].current
        /\ \A v \in TemplateIds \ {t, u} : templates'[v] = templates[v]
    <3>1. t # u
      BY <2>2, <2>3 DEF IsFree, IsCurrent
    <3>2. templates \in [TemplateIds -> TemplateRow]
      BY DEF Inv, TypeOK, StoreTypeOK
    <3>3. templates'[t] = [templates[t] EXCEPT !.current = FALSE]
      BY <2>2, <2>3, <3>1, <3>2
    <3> QED
      BY <2>2, <2>3, <3>1, <3>2, <3>3 DEF TemplateRow
  <2>6. templates'[u].content = c
    BY <2>5 DEF NextVersion, NewRow
  <2>7. \A v \in TemplateIds \ {u} :
           IsCurrent(v)' => IsCurrent(v) /\ templates'[v] = templates[v]
    BY <2>5 DEF IsCurrent
  <2>8. PICK w \in TemplateIds : w = t
    BY <2>3
  <2>9. ~IsCurrent(w)' /\ ~NameTaken(c, w)
    BY <2>1, <2>5, <2>8 DEF IsCurrent
  <2> HIDE DEF c, t
  <2> QED
    BY <2>4, <2>6, <2>7, <2>9, NamesStep
<1>5. ASSUME NEW s \in Sessions, DropVersion(s)
      PROVE  NamesApart'
  <2>1. /\ view[s].row \in TemplateIds
        /\ templates' = [templates EXCEPT
                            ![view[s].row].status = "deleted",
                            ![view[s].row].current = @ /\ ~view[s].current]
    BY <1>5, InvOf DEF DropVersion, ViewStands
  <2>2. \A v \in TemplateIds :
           IsCurrent(v)' => IsCurrent(v) /\ templates'[v] = templates[v]
    BY <2>1 DEF IsCurrent, Inv, TypeOK, StoreTypeOK, TemplateRow
  <2> QED
    BY <2>2 DEF NamesApart
<1>6. ASSUME NEW s \in Sessions,
             \/ Begin(s) \/ CheckSample(s) \/ PickRow(s) \/ LockRow(s)
             \/ Decide(s) \/ SaveLayout(s) \/ InsertExperiment(s)
             \/ ReadLayout(s) \/ DropLayout(s) \/ ReadVersion(s) \/ Abort(s)
      PROVE  UNCHANGED templates
  BY <1>6 DEF Begin, CheckSample, PickRow, LockRow, Decide, SaveLayout,
              InsertExperiment, ReadLayout, DropLayout, DeleteLayout,
              ReadVersion, Abort, Rollback
<1>7. CASE RemoveExperiment
  BY <1>1, <1>7 DEF RemoveExperiment, DeleteExperiment
<1>8. CASE UNCHANGED vars
  BY <1>1, <1>8 DEF vars
<1> QED
  BY <1>1, <1>2, <1>3, <1>4, <1>5, <1>6, <1>7, <1>8 DEF Next, Step

\* A save that fails otherwise than by the rules of the catalogue has had its
\* layout deleted under it; the name of a row that is kept never collides.
THEOREM SavesMeetWhatTheyLoaded == Spec => OnlyDeletedLayoutsFail
<1> DEFINE Explained ==
             \A s \in Sessions :
                 /\ pc[s] = "save" /\ pc'[s] = "idle"
                 /\ reply'[s] \in {"AssertPdf", "StaleData", "ServerError"}
                 => /\ view[s].layout # NoLayout
                    /\ layouts[view[s].row] = NoLayout
<1>1. Init => NamesApart
  BY DEF Init, StoreInit, FreeTemplate, NamesApart, IsCurrent
<1>2. Inv /\ NamesApart /\ [Next]_vars => NamesApart'
  BY NamesInv
<1>3. Inv /\ NamesApart /\ [Next]_vars => [Explained]_vars
  <2> SUFFICES ASSUME Inv, NamesApart, Next, NEW s \in Sessions,
                      pc[s] = "save", pc'[s] = "idle",
                      reply'[s] \in {"AssertPdf", "StaleData", "ServerError"}
               PROVE  /\ view[s].layout # NoLayout
                      /\ layouts[view[s].row] = NoLayout
    OBVIOUS
  <2>1. reply \in [Sessions -> Replies] /\ pc \in [Sessions -> Steps]
    BY DEF Inv, TypeOK, SessionTypeOK
  <2>2. ASSUME NEW r, Answer(s, r)
        PROVE  reply'[s] = r
    BY <2>1, <2>2 DEF Answer
  <2>3. ASSUME NEW q \in Sessions, Begin(q) \/ Step(q) \/ Abort(q)
        PROVE  q = s
    <3>1. \E step : pc' = [pc EXCEPT ![q] = step]
      BY <2>3 DEF Begin, Step, Abort, CheckSample, InsertTemplate, PickRow,
                  LockRow, Decide, SaveInPlace, SaveNewVersion, SaveLayout,
                  InsertExperiment, ReadLayout, DropLayout, ReadVersion,
                  DropVersion, Rollback, Answer, GoTo
    <3> QED
      BY <2>1, <3>1
  <2>4. pc' # pc
    BY <2>1
  <2>5. Step(s) \/ Abort(s)
    BY <2>3, <2>4 DEF Next, RemoveExperiment, sessionVars, Begin
  <2>6. ~Abort(s)
    BY <2>2 DEF Abort, Rollback
  <2>7. ~SaveInPlace(s)
    BY <2>2 DEF SaveInPlace, Rollback
  <2>8. ~InsertExperiment(s)
    BY <2>2 DEF InsertExperiment, Rollback
  <2>9. SaveNewVersion(s) \/ SaveLayout(s)
    BY <2>5, <2>6, <2>7, <2>8
       DEF Step, CheckSample, InsertTemplate, PickRow, LockRow, Decide,
           ReadLayout, DropLayout, ReadVersion, DropVersion
  <2>10. CASE SaveNewVersion(s)
    <3> DEFINE t == view[s].row
               stale == view[s].layout # NoLayout /\ layouts[t] = NoLayout
    <3>1. ~NameTaken(view[s].content, t)
      BY Saving DEF NameTaken, NamesApart
    <3>2. stale
      BY <2>2, <2>10, <3>1 DEF SaveNewVersion, Rollback
    <3> QED
      BY <3>2
  <2>11. CASE SaveLayout(s)
    <3>1. layouts[view[s].row] \in {view[s].layout, NoLayout}
      BY Saving
    <3> QED
      BY <2>2, <2>11, <3>1 DEF SaveLayout, Rollback
  <2> QED
    BY <2>9, <2>10, <2>11
<1> QED
  BY <1>1, <1>2, <1>3, Invariance, PTL DEF Spec, OnlyDeletedLayoutsFail
-----------------------------------------------------------------------------
(* Waiting *)

\* A session holds no lock but those its transaction has taken: one row from
\* LockRow on, the advisory lock from ReadVersion on.
OwnsOnly(s) ==
    /\ \A t \in TemplateIds : rowLock[t] = s => Holds(s) /\ view[s].row = t
    /\ webLock = s => pc[s] = "drop_version"

LockOwners == \A s \in Sessions : OwnsOnly(s)

\* Locks are taken by the two steps above and end with their transaction.
LEMMA OwnersStep ==
    ASSUME Inv, LockOwners, [Next]_vars
    PROVE  LockOwners'
<1> SUFFICES ASSUME NEW q \in Sessions
             PROVE  OwnsOnly(q)'
  BY DEF LockOwners
<1>1. OwnsOnly(q)
  BY DEF LockOwners
<1>2. /\ rowLock \in [TemplateIds -> Sessions \cup {NoSession}]
      /\ pc \in [Sessions -> Steps] /\ view \in [Sessions -> Views]
  BY DEF Inv, TypeOK, SessionTypeOK
<1>3. ASSUME NEW s \in Sessions, NEW r, Answer(s, r)
      PROVE  OwnsOnly(q)'
  <2>1. CASE q = s
    BY <1>2, <1>3, <2>1, RequestConstants DEF Answer, OwnsOnly
  <2>2. CASE q # s
    BY <1>1, <1>2, <1>3, <2>2, RequestConstants DEF Answer, OwnsOnly, Holds
  <2> QED
    BY <2>1, <2>2
<1>4. ASSUME NEW s \in Sessions, Begin(s)
      PROVE  OwnsOnly(q)'
  BY <1>1, <1>2, <1>4 DEF Begin, GoTo, OwnsOnly, Holds
<1>5. ASSUME NEW s \in Sessions, CheckSample(s)
      PROVE  OwnsOnly(q)'
  BY <1>1, <1>2, <1>3, <1>5 DEF CheckSample, Rollback, GoTo, OwnsOnly, Holds
<1>6. ASSUME NEW s \in Sessions, PickRow(s)
      PROVE  OwnsOnly(q)'
  <2>1. CASE Rollback(s, "NotFound")
    BY <1>3, <2>1 DEF Rollback
  <2>2. CASE ~Rollback(s, "NotFound")
    <3>1. /\ pc[s] = "pick" /\ GoTo(s, "lock")
          /\ rowLock' = rowLock /\ webLock' = webLock
          /\ \E t : view' = [view EXCEPT ![s].row = t]
      BY <1>6, <2>2 DEF PickRow
    <3>2. q # s => view'[q] = view[q]
      BY <1>2, <3>1
    <3> QED
      BY <1>1, <1>2, <3>1, <3>2 DEF GoTo, OwnsOnly, Holds
  <2> QED
    BY <2>1, <2>2
<1>7. ASSUME NEW s \in Sessions, LockRow(s)
      PROVE  OwnsOnly(q)'
  <2> DEFINE t == view[s].row
  <2>1. CASE Rollback(s, "NotFound") \/ Rollback(s, "Unprocessable")
    BY <1>3, <2>1 DEF Rollback
  <2>2. CASE ~(Rollback(s, "NotFound") \/ Rollback(s, "Unprocessable"))
    <3>1. /\ pc[s] = "lock" /\ pc'[s] \in {"save", "decide"}
          /\ rowLock' = [rowLock EXCEPT ![t] = s] /\ webLock' = webLock
          /\ view' = [view EXCEPT ![s].content = templates[t].content,
                                  ![s].layout = layouts[t]]
          /\ q # s => pc'[q] = pc[q]
      BY <1>2, <1>7, <2>2 DEF LockRow, GoTo
    <3>2. view'[q].row = view[q].row
      BY <1>2, <3>1 DEF Views
    <3>3. CASE q = s
      BY <1>1, <1>2, <3>1, <3>2, <3>3 DEF OwnsOnly, Holds
    <3>4. CASE q # s
      BY <1>1, <1>2, <3>1, <3>2, <3>4 DEF OwnsOnly, Holds
    <3> QED
      BY <3>3, <3>4
  <2> QED
    BY <2>1, <2>2
<1>8. ASSUME NEW s \in Sessions, Decide(s)
      PROVE  OwnsOnly(q)'
  <2>1. CASE Rollback(s, "Unprocessable")
    BY <1>3, <2>1 DEF Rollback
  <2>2. CASE ~Rollback(s, "Unprocessable")
    <3>1. /\ pc[s] = "decide" /\ GoTo(s, "save")
          /\ rowLock' = rowLock /\ webLock' = webLock
          /\ view' = [view EXCEPT ![s].used = Used(view[s].row)]
      BY <1>8, <2>2 DEF Decide
    <3>2. view'[q].row = view[q].row
      BY <1>2, <3>1 DEF Views
    <3> QED
      BY <1>1, <1>2, <3>1, <3>2 DEF GoTo, OwnsOnly, Holds
  <2> QED
    BY <2>1, <2>2
<1>9. ASSUME NEW s \in Sessions, ReadLayout(s)
      PROVE  OwnsOnly(q)'
  BY <1>1, <1>2, <1>3, <1>9 DEF ReadLayout, Rollback, GoTo, OwnsOnly, Holds
<1>10. ASSUME NEW s \in Sessions, ReadVersion(s)
       PROVE  OwnsOnly(q)'
  <2>1. CASE Rollback(s, "NotFound")
    BY <1>3, <2>1 DEF Rollback
  <2>2. CASE ~Rollback(s, "NotFound")
    <3>1. /\ pc[s] = "read_version" /\ GoTo(s, "drop_version")
          /\ rowLock' = rowLock /\ webLock' = s
          /\ q # s => view'[q] = view[q]
      BY <1>2, <1>10, <2>2 DEF ReadVersion
    <3> QED
      BY <1>1, <1>2, <3>1 DEF GoTo, OwnsOnly, Holds
  <2> QED
    BY <2>1, <2>2
<1>11. ASSUME NEW s \in Sessions,
              \/ InsertTemplate(s) \/ SaveInPlace(s) \/ SaveNewVersion(s)
              \/ SaveLayout(s) \/ InsertExperiment(s) \/ DropLayout(s)
              \/ DropVersion(s) \/ Abort(s)
       PROVE  OwnsOnly(q)'
  <2>1. \E r : Answer(s, r)
    BY <1>11 DEF InsertTemplate, SaveInPlace, SaveNewVersion, SaveLayout,
                 InsertExperiment, DropLayout, DropVersion, Abort, Rollback
  <2> QED
    BY <1>3, <2>1
<1>12. CASE RemoveExperiment
  BY <1>1, <1>12 DEF RemoveExperiment, sessionVars, OwnsOnly, Holds
<1>13. CASE UNCHANGED vars
  BY <1>1, <1>13 DEF vars, OwnsOnly, Holds
<1> QED
  BY <1>4, <1>5, <1>6, <1>7, <1>8, <1>9, <1>10, <1>11, <1>12, <1>13
     DEF Next, Step

\* A session that holds a row waits for nothing, one that holds the advisory
\* lock only for a row, and every other one for one of those.
LEMMA WaitOrder ==
    ASSUME Inv, LockOwners
    PROVE  NoWaitCycle
<1>1. ASSUME NEW s \in Sessions, NEW h \in Sessions, Holder(s) = h
      PROVE  /\ ~Holds(s)
             /\ Holds(h) \/ (pc[h] = "drop_version" /\ pc[s] # "drop_version")
  <2>1. ~Holds(s)
    BY <1>1, RequestConstants DEF Holder, Holds
  <2>2. CASE pc[s] \in {"lock", "drop_version"}
    <3>1. view[s].row \in TemplateIds
      BY <2>2, InvOf DEF OnPath, ViewStands
    <3> QED
      BY <1>1, <2>1, <2>2, <3>1 DEF Holder, LockOwners, OwnsOnly
  <2>3. CASE pc[s] \in {"insert", "read_version"}
    BY <1>1, <2>1, <2>3 DEF Holder, LockOwners, OwnsOnly
  <2> QED
    BY <1>1, <2>2, <2>3, RequestConstants DEF Holder
<1>2. ASSUME NEW W \in SUBSET Sessions, W # {}
      PROVE  \E s \in W : Holder(s) \notin W
  <2>1. CASE \E s \in W : Holds(s)
    BY <1>1, <2>1
  <2>2. CASE ~(\E s \in W : Holds(s)) /\ \E s \in W : pc[s] = "drop_version"
    BY <1>1, <2>2
  <2>3. CASE \A s \in W : ~Holds(s) /\ pc[s] # "drop_version"
    BY <1>1, <1>2, <2>3
  <2> QED
    BY <2>1, <2>2, <2>3
<1>3. ASSUME NEW s \in Sessions, NEW h \in Sessions, Holder(s) = h
      PROVE  pc[h] # "idle"
  BY <1>1, <1>3 DEF Holds
<1> QED
  BY <1>2, <1>3 DEF NoWaitCycle

\* No requests wait for each other in a circle, and a lock that is waited for
\* belongs to a request under way.
THEOREM NoRequestsWaitInACircle == Spec => []NoWaitCycle
<1>1. Init => LockOwners
  BY RequestConstants DEF Init, LockOwners, OwnsOnly
<1>2. Inv /\ LockOwners /\ [Next]_vars => LockOwners'
  BY OwnersStep
<1>3. Inv /\ LockOwners => NoWaitCycle
  BY WaitOrder
<1> QED
  BY <1>1, <1>2, <1>3, Invariance, PTL DEF Spec
=============================================================================
