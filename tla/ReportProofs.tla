---------------------------- MODULE ReportProofs ----------------------------
(***************************************************************************)
(* What ReportPipeline keeps for any experiments, any number of requests   *)
(* at once, any queue size, and transactions that may fail or not: links   *)
(* lead to a PDF, failed reports are not served, and a start repairs what  *)
(* the last process left unfinished.                                       *)
(***************************************************************************)
EXTENDS ReportPipeline, SequenceTheorems, FiniteSetTheorems, TLAPS

\* A row's link and status agree with each other and with the object store.
RowSound(e) ==
    /\ rows[e].key => objects[e] # NoData
    /\ rows[e].status = "failed" => ~rows[e].key
    /\ rows[e].status = "success" => rows[e].key

\* A job in the worker's hands is a real one, and so is its upload by the time
\* that success is recorded.
WorkerSound ==
    /\ worker.pc # "idle" => worker.job \in Jobs
    /\ worker.pc = "success" => objects[worker.job.exp] # NoData

SessionsSound ==
    \A s \in Sessions : session[s].pc # "idle" => session[s].job \in Jobs

Inv ==
    /\ TypeOK
    /\ \A e \in ExpIds : RowSound(e)
    /\ WorkerSound
    /\ SessionsSound

-----------------------------------------------------------------------------
\* Every transaction leaves the table as it is but for one row.
LEMMA WriteRows ==
    ASSUME TypeOK, NEW e \in ExpIds, NEW new \in Rows, Write(e, new)
    PROVE  /\ rows' \in [ExpIds -> Rows]
           /\ \A f \in ExpIds \ {e} : rows'[f] = rows[f]
           /\ rows'[e] \in {rows[e], new}
  BY DEF TypeOK, Write

LEMMA StatusRows ==
    ASSUME TypeOK, NEW e \in ExpIds, NEW st \in {"pending", "processing"},
           WriteStatus(e, st), \A f \in ExpIds : RowSound(f), UNCHANGED objects
    PROVE  rows' \in [ExpIds -> Rows] /\ \A f \in ExpIds : RowSound(f)'
<1> DEFINE new == [rows[e] EXCEPT !.status = st]
<1>1. new \in Rows /\ new.status = st /\ new.key = rows[e].key
  BY DEF TypeOK, Rows
<1>2. Write(e, new)
  BY DEF WriteStatus
<1> HIDE DEF new
<1> QED
  BY <1>1, <1>2, WriteRows DEF RowSound

LEMMA SuccessRows ==
    ASSUME TypeOK, NEW e \in ExpIds, WriteSuccess(e), objects[e] # NoData,
           \A f \in ExpIds : RowSound(f), UNCHANGED objects
    PROVE  rows' \in [ExpIds -> Rows] /\ \A f \in ExpIds : RowSound(f)'
<1> DEFINE new == [rows[e] EXCEPT !.status = "success", !.key = TRUE]
<1>1. new \in Rows /\ new.status = "success" /\ new.key = TRUE
  BY DEF TypeOK, Rows
<1>2. Write(e, new)
  BY DEF WriteSuccess
<1> HIDE DEF new
<1> QED
  BY <1>1, <1>2, WriteRows DEF RowSound

LEMMA FailureRows ==
    ASSUME TypeOK, NEW e \in ExpIds, WriteFailure(e),
           \A f \in ExpIds : RowSound(f), UNCHANGED objects
    PROVE  rows' \in [ExpIds -> Rows] /\ \A f \in ExpIds : RowSound(f)'
<1> DEFINE new == [rows[e] EXCEPT !.status = "failed", !.key = FALSE]
<1>1. new \in Rows /\ new.status = "failed" /\ new.key = FALSE
  BY DEF TypeOK, Rows
<1>2. Write(e, new)
  BY DEF WriteFailure
<1> HIDE DEF new
<1> QED
  BY <1>1, <1>2, WriteRows DEF RowSound

\* An upload takes no object away.
LEMMA UploadLands ==
    ASSUME TypeOK, worker.job \in Jobs, Upload
    PROVE  /\ objects' \in [ExpIds -> 0..MaxData \cup {NoData}]
           /\ objects'[worker.job.exp] # NoData
           /\ \A e \in ExpIds : objects[e] # NoData => objects'[e] # NoData
  BY PipelineConstants DEF TypeOK, Upload, Jobs, NoData

LEMMA InitInv == Init => Inv
  BY PipelineConstants, EmptySeq
     DEF Init, Inv, TypeOK, Rows, Idle, NoJob, RowSound, WorkerSound,
         SessionsSound

-----------------------------------------------------------------------------
(* The requests *)

LEMMA JobOfIsJob ==
    ASSUME TypeOK, NEW e \in ExpIds
    PROVE  JobOf(e) \in Jobs
  BY DEF TypeOK, JobOf, Jobs, Rows

LEMMA RequestInv ==
    ASSUME Inv, NEW s \in Sessions, Request(s)
    PROVE  Inv'
<1>1. PICK e \in ExpIds :
         session' = [session EXCEPT ![s] = [pc |-> "enqueue", job |-> JobOf(e)]]
  BY DEF Request
<1>2. JobOf(e) \in Jobs
  BY JobOfIsJob DEF Inv
<1> QED
  BY <1>1, <1>2
     DEF Request, Inv, TypeOK, RowSound, WorkerSound, SessionsSound

LEMMA ReplyTypes ==
    ASSUME Inv, NEW s \in Sessions, Reply(s)
    PROVE  /\ session' \in [Sessions -> [pc  : {"idle", "enqueue", "pending"},
                                         job : Jobs \cup {NoJob}]]
           /\ SessionsSound'
  BY DEF Inv, TypeOK, Reply, Idle, SessionsSound

LEMMA EnqueueInv ==
    ASSUME Inv, NEW s \in Sessions, Enqueue(s)
    PROVE  Inv'
<1>1. CASE Reply(s) /\ UNCHANGED queue
  BY <1>1, ReplyTypes DEF Enqueue, Inv, TypeOK, RowSound, WorkerSound
<1>2. CASE ~(Reply(s) /\ UNCHANGED queue)
  <2>1. /\ session[s].pc = "enqueue" /\ HasSpace
        /\ queue' = Append(queue, session[s].job)
        /\ session' = [session EXCEPT ![s].pc = "pending"]
        /\ UNCHANGED <<rows, objects, phase, worker, pool, accepted>>
    BY <1>2 DEF Enqueue
  <2>2. session[s].job \in Jobs
    BY <2>1 DEF Inv, SessionsSound
  <2>3. queue' \in Seq(Jobs) /\ Len(queue') <= QueueMax
    BY <2>1, <2>2, PipelineConstants DEF Inv, TypeOK, HasSpace
  <2>4. SessionsSound'
    BY <2>1, <2>2 DEF Inv, TypeOK, SessionsSound
  <2> QED
    BY <2>1, <2>3, <2>4 DEF Inv, TypeOK, RowSound, WorkerSound
<1> QED
  BY <1>1, <1>2

LEMMA MarkPendingInv ==
    ASSUME Inv, NEW s \in Sessions, MarkPending(s)
    PROVE  Inv'
<1> DEFINE job == session[s].job
<1>1. job \in Jobs /\ job.exp \in ExpIds /\ job.data \in 0..MaxData
  BY DEF MarkPending, Inv, SessionsSound, Jobs
<1>2. /\ WriteStatus(job.exp, "pending")
      /\ accepted' = [accepted EXCEPT ![job.exp] = job.data]
      /\ Reply(s)
      /\ UNCHANGED <<objects, phase, queue, worker, pool>>
  BY DEF MarkPending
<1>3. rows' \in [ExpIds -> Rows] /\ \A f \in ExpIds : RowSound(f)'
  BY <1>1, <1>2, StatusRows DEF Inv
<1>4. accepted' \in [ExpIds -> 0..MaxData]
  BY <1>1, <1>2 DEF Inv, TypeOK
<1> QED
  BY <1>2, <1>3, <1>4, ReplyTypes DEF Inv, TypeOK, WorkerSound

LEMMA PendingFaultInv ==
    ASSUME Inv, NEW s \in Sessions, PendingFault(s)
    PROVE  Inv'
  BY ReplyTypes DEF PendingFault, Inv, TypeOK, RowSound, WorkerSound

-----------------------------------------------------------------------------
(* The worker *)

LEMMA TakeInv ==
    ASSUME Inv, Take
    PROVE  Inv'
<1>1. /\ Head(queue) \in Jobs
      /\ Tail(queue) \in Seq(Jobs)
      /\ Len(Tail(queue)) <= QueueMax
  BY HeadTailProperties, PipelineConstants DEF Take, Inv, TypeOK
<1> QED
  BY <1>1 DEF Take, Inv, TypeOK, RowSound, WorkerSound, SessionsSound

LEMMA WorkerMoves ==
    ASSUME Inv, NEW step \in {"start", "render", "success", "failure"},
           worker.pc # "idle", WorkerTo(step)
    PROVE  /\ worker' \in [pc  : {"idle", "start", "render", "success",
                                  "failure"},
                           job : Jobs \cup {NoJob}]
           /\ worker'.pc = step
           /\ worker'.job = worker.job
           /\ worker.job \in Jobs
           /\ worker.job.exp \in ExpIds
  BY DEF Inv, TypeOK, WorkerSound, WorkerTo, Jobs

LEMMA WorkerRests ==
    ASSUME worker' = Idle
    PROVE  /\ worker' \in [pc  : {"idle", "start", "render", "success",
                                  "failure"},
                           job : Jobs \cup {NoJob}]
           /\ WorkerSound'
  BY DEF Idle, WorkerSound

LEMMA MarkProcessingInv ==
    ASSUME Inv, MarkProcessing
    PROVE  Inv'
<1>1. worker.pc # "idle" /\ WorkerTo("render")
  BY DEF MarkProcessing
<1>2. rows' \in [ExpIds -> Rows] /\ \A f \in ExpIds : RowSound(f)'
  BY <1>1, WorkerMoves, StatusRows DEF MarkProcessing, Inv
<1> QED
  BY <1>1, <1>2, WorkerMoves
     DEF MarkProcessing, Inv, TypeOK, WorkerSound, SessionsSound

\* The executor uploads, or not, and the worker goes on.
LEMMA RenderInv ==
    ASSUME Inv, Render \/ ProcessDies
    PROVE  Inv'
<1>1. /\ worker.pc = "render"
      /\ UNCHANGED <<rows, phase, queue, session, accepted>>
      /\ pool' \in {"ok", "broken"}
      /\ \/ Upload /\ (WorkerTo("success") \/ WorkerTo("failure"))
         \/ UNCHANGED objects /\ WorkerTo("failure")
  BY DEF Render, ProcessDies, Inv, TypeOK
<1>2. worker.job \in Jobs /\ worker.job.exp \in ExpIds
  BY <1>1 DEF Inv, WorkerSound, Jobs
<1>3. /\ objects' \in [ExpIds -> 0..MaxData \cup {NoData}]
      /\ \A e \in ExpIds : objects[e] # NoData => objects'[e] # NoData
  BY <1>1, <1>2, UploadLands DEF Inv, TypeOK
<1>4. /\ worker' \in [pc  : {"idle", "start", "render", "success", "failure"},
                      job : Jobs \cup {NoJob}]
      /\ WorkerSound'
  <2>1. CASE Upload /\ WorkerTo("success")
    BY <1>1, <1>2, <2>1, WorkerMoves, UploadLands DEF Inv, WorkerSound
  <2>2. CASE WorkerTo("failure")
    BY <1>1, <1>2, <2>2, WorkerMoves DEF WorkerSound
  <2> QED
    BY <1>1, <2>1, <2>2
<1> QED
  BY <1>1, <1>3, <1>4 DEF Inv, TypeOK, RowSound, SessionsSound

LEMMA RecordInv ==
    ASSUME Inv, RecordSuccess \/ WorkerFault \/ RecordFailure
    PROVE  Inv'
<1>1. CASE RecordSuccess
  <2>1. worker.job.exp \in ExpIds /\ objects[worker.job.exp] # NoData
    BY <1>1 DEF RecordSuccess, Inv, WorkerSound, Jobs
  <2>2. rows' \in [ExpIds -> Rows] /\ \A f \in ExpIds : RowSound(f)'
    BY <1>1, <2>1, SuccessRows DEF RecordSuccess, Inv
  <2> QED
    BY <1>1, <2>2, WorkerRests
       DEF RecordSuccess, Inv, TypeOK, SessionsSound
<1>2. CASE WorkerFault
  <2>1. worker.pc # "idle" /\ WorkerTo("failure")
    BY <1>2 DEF WorkerFault
  <2> QED
    BY <1>2, <2>1, WorkerMoves
       DEF WorkerFault, Inv, TypeOK, RowSound, WorkerSound, SessionsSound
<1>3. CASE RecordFailure
  <2>1. worker.job.exp \in ExpIds
    BY <1>3 DEF RecordFailure, Inv, WorkerSound, Jobs
  <2>2. rows' \in [ExpIds -> Rows] /\ \A f \in ExpIds : RowSound(f)'
    <3>1. CASE WriteFailure(worker.job.exp)
      BY <1>3, <2>1, <3>1, FailureRows DEF RecordFailure, Inv
    <3>2. CASE UNCHANGED rows
      BY <1>3, <3>2 DEF RecordFailure, Inv, TypeOK, RowSound
    <3> QED
      BY <1>3, <3>1, <3>2 DEF RecordFailure
  <2> QED
    BY <1>3, <2>2, WorkerRests
       DEF RecordFailure, Inv, TypeOK, SessionsSound
<1> QED
  BY <1>1, <1>2, <1>3

-----------------------------------------------------------------------------
(* Edits, and the life of the process *)

LEMMA EditInv ==
    ASSUME Inv, NEW e \in ExpIds, Edit(e) \/ Delete(e)
    PROVE  Inv'
<1>1. /\ rows' \in [ExpIds -> Rows]
      /\ \A f \in ExpIds : /\ rows'[f].key = rows[f].key
                           /\ rows'[f].status = rows[f].status
  <2>1. CASE Edit(e)
    <3>1. rows[e] \in Rows /\ rows[e].data + 1 \in 0..MaxData
      BY <2>1, PipelineConstants DEF Edit, Inv, TypeOK, Rows
    <3>2. [rows[e] EXCEPT !.data = @ + 1] \in Rows
      BY <3>1 DEF Rows
    <3> QED
      BY <2>1, <3>2 DEF Edit, Inv, TypeOK, Rows
  <2>2. CASE Delete(e)
    BY <2>2 DEF Delete, Inv, TypeOK, Rows
  <2> QED
    BY <2>1, <2>2
<1> QED
  BY <1>1 DEF Edit, Delete, Inv, TypeOK, RowSound, WorkerSound, SessionsSound

LEMMA StopInv ==
    ASSUME Inv, Stop
    PROVE  Inv'
<1>1. /\ objects' \in [ExpIds -> 0..MaxData \cup {NoData}]
      /\ \A e \in ExpIds : objects[e] # NoData => objects'[e] # NoData
  <2>1. CASE worker.pc = "render" /\ Upload
    BY <2>1, UploadLands DEF Inv, WorkerSound
  <2>2. CASE UNCHANGED objects
    BY <2>2 DEF Inv, TypeOK
  <2> QED
    BY <2>1, <2>2 DEF Stop
<1>2. queue' \in Seq(Jobs) /\ Len(queue') <= QueueMax
  BY EmptySeq, PipelineConstants DEF Stop
<1>3. /\ session' \in [Sessions -> [pc  : {"idle", "enqueue", "pending"},
                                    job : Jobs \cup {NoJob}]]
      /\ SessionsSound'
  BY DEF Stop, Idle, SessionsSound
<1> QED
  BY <1>1, <1>2, <1>3, WorkerRests DEF Stop, Inv, TypeOK, RowSound

\* What a start makes of the queue and of the rows.
Repaired(e) ==
    \/ rows'[e] = rows[e] /\ e \notin Orphaned
    \/ /\ e \in Orphaned
       /\ rows'[e] = [rows[e] EXCEPT !.status = "pending"]
       /\ \E i \in DOMAIN queue' : queue'[i] = JobOf(e)
    \/ /\ e \in Orphaned
       /\ rows'[e] = [rows[e] EXCEPT !.status = "failed", !.key = FALSE]

LEMMA StartStep ==
    ASSUME TypeOK, Start
    PROVE  /\ queue' \in Seq(Jobs) /\ Len(queue') <= QueueMax
           /\ rows' \in [ExpIds -> Rows]
           /\ \A e \in ExpIds : Repaired(e)
<1>1. PICK order \in SetToSeqs(Orphaned) :
         LET room   == IF Len(order) < QueueMax THEN Len(order) ELSE QueueMax
             queued == SubSeq(order, 1, room)
         IN  /\ queue' = [i \in 1..room |-> JobOf(order[i])]
             /\ rows' = [e \in ExpIds |->
                   IF e \notin Orphaned THEN rows[e]
                   ELSE IF e \in ToSet(queued)
                        THEN [rows[e] EXCEPT !.status = "pending"]
                        ELSE [rows[e] EXCEPT !.status = "failed",
                                             !.key = FALSE]]
  BY DEF Start
<1> DEFINE room   == IF Len(order) < QueueMax THEN Len(order) ELSE QueueMax
           queued == SubSeq(order, 1, room)
<1>2. Orphaned \subseteq ExpIds /\ Cardinality(Orphaned) \in Nat
  <2>1. Orphaned \subseteq ExpIds
    BY DEF Orphaned
  <2> QED
    BY <2>1, PipelineConstants, FS_Subset, FS_CardinalityType
<1>3. order \in Seq(ExpIds) /\ \A i \in 1..Len(order) : order[i] \in Orphaned
  <2>1. order \in [1..Cardinality(Orphaned) -> Orphaned]
    BY DEF SetToSeqs
  <2> QED
    BY <1>2, <2>1
<1>4. room \in Nat /\ room <= Len(order) /\ room <= QueueMax
  BY <1>3, PipelineConstants
<1>5. \A i \in 1..room : order[i] \in ExpIds
  BY <1>2, <1>3, <1>4
<1>6. /\ DOMAIN queued = 1..room
      /\ \A i \in 1..room : queued[i] = order[i]
  BY <1>4, <1>5, SubSeqProperties
<1> HIDE DEF room, queued
<1>7. /\ queue' = [i \in 1..room |-> JobOf(order[i])]
      /\ rows' = [e \in ExpIds |->
            IF e \notin Orphaned THEN rows[e]
            ELSE IF e \in ToSet(queued)
                 THEN [rows[e] EXCEPT !.status = "pending"]
                 ELSE [rows[e] EXCEPT !.status = "failed", !.key = FALSE]]
  BY <1>1 DEF room, queued
<1>8. queue' \in [1..room -> Jobs]
  BY <1>5, <1>7, JobOfIsJob
<1>9. queue' \in Seq(Jobs) /\ Len(queue') = room
  BY <1>4, <1>8
<1>10. rows' \in [ExpIds -> Rows]
  <2>1. ASSUME NEW e \in ExpIds
        PROVE  /\ [rows[e] EXCEPT !.status = "pending"] \in Rows
               /\ [rows[e] EXCEPT !.status = "failed", !.key = FALSE] \in Rows
               /\ rows[e] \in Rows
    BY DEF TypeOK, Rows
  <2> QED
    BY <1>7, <2>1
<1>11. ASSUME NEW e \in ExpIds
       PROVE  Repaired(e)
  <2>1. CASE e \in Orphaned /\ e \in ToSet(queued)
    <3>1. PICK i \in 1..room : order[i] = e
      BY <1>6, <2>1 DEF ToSet
    <3>2. i \in DOMAIN queue' /\ queue'[i] = JobOf(e)
      BY <1>7, <3>1
    <3> QED
      BY <1>7, <2>1, <3>2 DEF Repaired
  <2>2. CASE e \notin Orphaned \/ e \notin ToSet(queued)
    BY <1>7, <2>2 DEF Repaired
  <2> QED
    BY <2>1, <2>2
<1> QED
  BY <1>4, <1>9, <1>10, <1>11

LEMMA StartInv ==
    ASSUME Inv, Start
    PROVE  Inv'
<1>1. /\ queue' \in Seq(Jobs) /\ Len(queue') <= QueueMax
      /\ rows' \in [ExpIds -> Rows]
      /\ \A e \in ExpIds : Repaired(e)
  BY StartStep DEF Inv
<1>2. UNCHANGED <<objects, worker, pool, session, accepted>> /\ phase' = "up"
  BY DEF Start
<1>3. ASSUME NEW e \in ExpIds
      PROVE  RowSound(e)'
  <2>1. rows[e] \in Rows /\ RowSound(e) /\ Repaired(e) /\ objects' = objects
    BY <1>1, <1>2 DEF Inv, TypeOK
  <2>2. CASE rows'[e] = rows[e]
    BY <2>1, <2>2 DEF RowSound
  <2>3. CASE rows'[e] = [rows[e] EXCEPT !.status = "pending"]
    <3>1. rows'[e].status = "pending" /\ rows'[e].key = rows[e].key
      BY <2>1, <2>3 DEF Rows
    <3> QED
      BY <2>1, <3>1 DEF RowSound
  <2>4. CASE rows'[e] = [rows[e] EXCEPT !.status = "failed", !.key = FALSE]
    <3>1. rows'[e].status = "failed" /\ rows'[e].key = FALSE
      BY <2>1, <2>4 DEF Rows
    <3> QED
      BY <2>1, <3>1 DEF RowSound
  <2> QED
    BY <2>1, <2>2, <2>3, <2>4 DEF Repaired
<1> QED
  BY <1>1, <1>2, <1>3 DEF Inv, TypeOK, WorkerSound, SessionsSound

LEMMA InvStep ==
    ASSUME Inv, [Next]_vars
    PROVE  Inv'
<1>1. CASE UNCHANGED vars
  BY <1>1 DEF vars, Inv, TypeOK, RowSound, WorkerSound, SessionsSound
<1>2. ASSUME NEW s \in Sessions, Request(s) \/ Serve(s)
      PROVE  Inv'
  BY <1>2, RequestInv, EnqueueInv, MarkPendingInv, PendingFaultInv DEF Serve
<1>3. CASE Worker
  BY <1>3, TakeInv, MarkProcessingInv, RenderInv, RecordInv DEF Worker
<1> QED
  BY <1>1, <1>2, <1>3, EditInv, StopInv, StartInv DEF Next

LEMMA Invariance == Spec => []Inv
  BY InitInv, InvStep, PTL DEF Spec

-----------------------------------------------------------------------------
\* The rows, the queue and the worker keep their types; the queue its bound.
THEOREM TypeCorrect == Spec => []TypeOK
<1>1. Inv => TypeOK
  BY DEF Inv
<1> QED
  BY Invariance, <1>1, PTL

\* What a client can download was uploaded, whatever fails and whenever the
\* process stops.
THEOREM LinksAlwaysLead == Spec => []LinksLead
<1>1. Inv => LinksLead
  BY DEF Inv, RowSound, LinksLead
<1> QED
  BY Invariance, <1>1, PTL

\* A failed report is never served, and a successful one always is.
THEOREM OutcomesAreServed == Spec => []OutcomeServed
<1>1. Inv => OutcomeServed
  BY DEF Inv, RowSound, OutcomeServed
<1> QED
  BY Invariance, <1>1, PTL

\* A start leaves no report unfinished without a job for its present state.
THEOREM StartsRepair == Spec => StartRepairs
<1> DEFINE Repairs ==
             phase = "down" /\ phase' = "up" =>
                \A e \in ExpIds :
                   LET job == [exp |-> e, data |-> rows[e].data]
                   IN  rows'[e].live /\ rows'[e].status \in Unfinished
                          => \E i \in DOMAIN queue' : queue'[i] = job
<1>1. Inv /\ [Next]_vars => [Repairs]_vars
  <2> SUFFICES ASSUME Inv, Next, phase = "down", phase' = "up",
                      NEW e \in ExpIds, rows'[e].live,
                      rows'[e].status \in Unfinished
               PROVE  \E i \in DOMAIN queue' :
                         queue'[i] = [exp |-> e, data |-> rows[e].data]
    OBVIOUS
  <2>1. Start
    BY DEF Next, Request, Serve, Enqueue, MarkPending, PendingFault, Worker,
           Take, MarkProcessing, Render, ProcessDies, RecordSuccess,
           WorkerFault, RecordFailure, Edit, Delete, Stop
  <2>2. Repaired(e)
    BY <2>1, StartStep DEF Inv
  <2>3. ~(rows'[e] = rows[e] /\ e \notin Orphaned)
    BY DEF Orphaned
  <2>4. rows'[e] # [rows[e] EXCEPT !.status = "failed", !.key = FALSE]
    BY DEF Inv, TypeOK, Rows, Unfinished
  <2> QED
    BY <2>2, <2>3, <2>4 DEF Repaired, JobOf
<1> QED
  BY <1>1, Invariance, PTL DEF Spec, StartRepairs
=============================================================================
