--------------------------- MODULE ReportPipeline ---------------------------
(***************************************************************************)
(* PDF reports: requests put jobs on an in-memory queue and write          *)
(* "pending"; one worker task takes a job, writes "processing", renders    *)
(* and uploads, and writes the outcome; a new process queues again what    *)
(* the last one left unfinished. The queue and the rows are updated in     *)
(* separate steps, and everything but the rows and the object store is     *)
(* lost when the process ends. Each step of a session or of the worker is  *)
(* one database transaction or one await of the code.                      *)
(***************************************************************************)
EXTENDS Integers, Sequences, FiniteSets, SequencesExt

CONSTANTS
    ExpIds,         \* the experiments
    Sessions,       \* requests being served
    QueueMax,       \* report_worker_settings.queue_max_size
    DbFaults,       \* whether a transaction that writes a row may fail
    MaxData         \* bound: edits of an experiment

NoExp == "none"

ASSUME PipelineConstants ==
    /\ IsFiniteSet(ExpIds) /\ NoExp \notin ExpIds
    /\ QueueMax \in Nat \ {0}
    /\ DbFaults \in BOOLEAN
    /\ MaxData \in Nat

VARIABLES
    rows,           \* the experiments table
    objects,        \* object store: the data each experiment's PDF shows
    phase,          \* whether the process is up
    queue,          \* asyncio.Queue of ReportJobs
    worker,         \* the worker task and the job in its hands
    pool,           \* the executor's process: "ok", or "broken" for good
    session,        \* the report requests being served
    accepted        \* history: the data of the latest request answered 202, or 0

vars == <<rows, objects, phase, queue, worker, pool, session, accepted>>

NoData == -1

Rows == [live   : BOOLEAN,
         data   : 0..MaxData,       \* state, counted by its edits
         status : {"null", "pending", "processing", "success", "failed"},
         key    : BOOLEAN]          \* report_r2_key IS NOT NULL

\* A ReportJob: the experiment and a copy of its state.
Jobs == [exp : ExpIds, data : 0..MaxData]

NoJob == [exp |-> NoExp, data |-> NoData]

Idle == [pc |-> "idle", job |-> NoJob]

Unfinished == {"pending", "processing"}

JobOf(e) == [exp |-> e, data |-> rows[e].data]

-----------------------------------------------------------------------------
Init ==
    /\ rows = [e \in ExpIds |-> [live |-> TRUE, data |-> 0,
                                 status |-> "null", key |-> FALSE]]
    /\ objects = [e \in ExpIds |-> NoData]
    /\ phase = "up"
    /\ queue = <<>>
    /\ worker = Idle
    /\ pool = "ok"
    /\ session = [s \in Sessions |-> Idle]
    /\ accepted = [e \in ExpIds |-> 0]

\* A transaction that writes `new` over the columns of experiment e. Every
\* one starts with `get`, which does not see a deleted experiment, and then
\* writes nothing.
Write(e, new) ==
    rows' = IF rows[e].live THEN [rows EXCEPT ![e] = new] ELSE rows

WriteStatus(e, st) == Write(e, [rows[e] EXCEPT !.status = st])

\* Faulty variant: the key of an earlier report stays.
KeepKey(e) == WriteStatus(e, "failed")

\* update_report_failure, update_report_success
WriteSuccess(e) == Write(e, [rows[e] EXCEPT !.status = "success", !.key = TRUE])
WriteFailure(e) == Write(e, [rows[e] EXCEPT !.status = "failed", !.key = FALSE])

-----------------------------------------------------------------------------
(* POST /report/generate *)

Reply(s) == session' = [session EXCEPT ![s] = Idle]

\* Faulty variant: only a report that has not been started is refused.
RefusesPending(e) == rows[e].status = "pending"

\* "Report is already ..."
Refuses(e) == rows[e].status \in Unfinished

\* The row is read, and the job's copy of its state with it: 404 for a
\* deleted experiment, 409 for one with a report under way.
Request(s) ==
    /\ phase = "up"
    /\ session[s].pc = "idle"
    /\ \E e \in ExpIds :
          /\ rows[e].live
          /\ ~Refuses(e)
          /\ session' = [session EXCEPT ![s] = [pc |-> "enqueue",
                                                job |-> JobOf(e)]]
    /\ UNCHANGED <<rows, objects, phase, queue, worker, pool, accepted>>

\* Faulty variant: one job too many.
HasSpaceForOneMore == Len(queue) <= QueueMax

\* put_nowait does not raise QueueFull.
HasSpace == Len(queue) < QueueMax

\* The layout is read and the job put on the queue: 422 without a layout
\* (another request may delete it any time), 503 when the queue is full.
Enqueue(s) ==
    /\ session[s].pc = "enqueue"
    /\ \/ /\ HasSpace
          /\ queue' = Append(queue, session[s].job)
          /\ session' = [session EXCEPT ![s].pc = "pending"]
       \/ Reply(s) /\ UNCHANGED queue
    /\ UNCHANGED <<rows, objects, phase, worker, pool, accepted>>

\* "pending" is written, and the client told 202.
MarkPending(s) ==
    /\ session[s].pc = "pending"
    /\ LET job == session[s].job
       IN  /\ WriteStatus(job.exp, "pending")
           /\ accepted' = [accepted EXCEPT ![job.exp] = job.data]
    /\ Reply(s)
    /\ UNCHANGED <<objects, phase, queue, worker, pool>>

\* The transaction fails, and the client is told 500. The job stays queued.
PendingFault(s) ==
    /\ DbFaults
    /\ session[s].pc = "pending"
    /\ Reply(s)
    /\ UNCHANGED <<rows, objects, phase, queue, worker, pool, accepted>>

-----------------------------------------------------------------------------
(* report_worker *)

WorkerTo(pc) == worker' = [worker EXCEPT !.pc = pc]

\* Faulty variant: the newest job goes first.
TakeNewest ==
    /\ phase = "up"
    /\ worker.pc = "idle"
    /\ queue # <<>>
    /\ worker' = [pc |-> "start", job |-> Last(queue)]
    /\ queue' = Front(queue)
    /\ UNCHANGED <<rows, objects, phase, pool, session, accepted>>

Take ==
    /\ phase = "up"
    /\ worker.pc = "idle"
    /\ queue # <<>>
    /\ worker' = [pc |-> "start", job |-> Head(queue)]
    /\ queue' = Tail(queue)
    /\ UNCHANGED <<rows, objects, phase, pool, session, accepted>>

MarkProcessing ==
    /\ worker.pc = "start"
    /\ WriteStatus(worker.job.exp, "processing")
    /\ WorkerTo("render")
    /\ UNCHANGED <<objects, phase, queue, pool, session, accepted>>

\* generate_pdf and upload_pdf in the executor.
Upload == objects' = [objects EXCEPT ![worker.job.exp] = worker.job.data]

\* Faulty variant: the key is handed out before the upload is known to land.
RenderBlind ==
    /\ worker.pc = "render"
    /\ \/ Upload /\ WorkerTo("success")
       \/ UNCHANGED objects /\ WorkerTo("success")
    /\ UNCHANGED <<rows, phase, queue, pool, session, accepted>>

\* An error comes before the upload.
Render ==
    /\ worker.pc = "render"
    /\ \/ pool = "ok" /\ Upload /\ WorkerTo("success")
       \/ UNCHANGED objects /\ WorkerTo("failure")
    /\ UNCHANGED <<rows, phase, queue, pool, session, accepted>>

\* The executor's process dies, before or after the upload. From then on the
\* pool is broken: run_in_executor raises at once.
ProcessDies ==
    /\ worker.pc = "render" /\ pool = "ok"
    /\ Upload \/ UNCHANGED objects
    /\ pool' = "broken"
    /\ WorkerTo("failure")
    /\ UNCHANGED <<rows, phase, queue, session, accepted>>

RecordSuccess ==
    /\ worker.pc = "success"
    /\ WriteSuccess(worker.job.exp)
    /\ worker' = Idle
    /\ UNCHANGED <<objects, phase, queue, pool, session, accepted>>

\* An exception in a transaction of the try block.
WorkerFault ==
    /\ DbFaults
    /\ worker.pc \in {"start", "success"}
    /\ WorkerTo("failure")
    /\ UNCHANGED <<rows, objects, phase, queue, pool, session, accepted>>

\* Faulty variant: an error while the failure is recorded ends the task.
RecordOrDie ==
    /\ worker.pc = "failure"
    /\ \/ WriteFailure(worker.job.exp) /\ worker' = Idle
       \/ DbFaults /\ UNCHANGED rows /\ WorkerTo("dead")
    /\ UNCHANGED <<objects, phase, queue, pool, session, accepted>>

\* The except block: an error while the failure is recorded is only logged.
RecordFailure ==
    /\ worker.pc = "failure"
    /\ \/ WriteFailure(worker.job.exp)
       \/ DbFaults /\ UNCHANGED rows
    /\ worker' = Idle
    /\ UNCHANGED <<objects, phase, queue, pool, session, accepted>>

-----------------------------------------------------------------------------
(* Edits and deletions of experiments, seen from here *)

Edit(e) ==
    /\ phase = "up"
    /\ rows[e].live
    /\ rows[e].data < MaxData
    /\ rows' = [rows EXCEPT ![e].data = @ + 1]
    /\ UNCHANGED <<objects, phase, queue, worker, pool, session, accepted>>

Delete(e) ==
    /\ phase = "up"
    /\ rows[e].live
    /\ rows' = [rows EXCEPT ![e].live = FALSE]
    /\ UNCHANGED <<objects, phase, queue, worker, pool, session, accepted>>

-----------------------------------------------------------------------------
(* lifespan *)

\* Shutdown or crash: the queue is lost, the worker and the requests are cut
\* off. What the executor is uploading may still land: it is not waited for.
\* The next process has a new executor.
Stop ==
    /\ phase = "up"
    /\ \/ worker.pc = "render" /\ pool = "ok" /\ Upload
       \/ UNCHANGED objects
    /\ pool' = "ok"
    /\ phase' = "down"
    /\ queue' = <<>>
    /\ worker' = Idle
    /\ session' = [s \in Sessions |-> Idle]
    /\ UNCHANGED <<rows, accepted>>

\* Faulty variant: a job that was only queued is forgotten.
OrphanedProcessing ==
    { e \in ExpIds : rows[e].live /\ rows[e].status = "processing" }

\* list_orphaned_reports
Orphaned == { e \in ExpIds : rows[e].live /\ rows[e].status \in Unfinished }

\* The start of a process. The orphans come in any order; those that the
\* queue has no room for are marked as failed. One transaction, before any
\* request is served.
Start ==
    /\ phase = "down"
    /\ \E order \in SetToSeqs(Orphaned) :
          LET room   == IF Len(order) < QueueMax THEN Len(order) ELSE QueueMax
              queued == SubSeq(order, 1, room)
          IN  /\ queue' = [i \in 1..room |-> JobOf(order[i])]
              /\ rows' = [e \in ExpIds |->
                    IF e \notin Orphaned THEN rows[e]
                    ELSE IF e \in ToSet(queued)
                         THEN [rows[e] EXCEPT !.status = "pending"]
                         ELSE [rows[e] EXCEPT !.status = "failed",
                                              !.key = FALSE]]
    /\ phase' = "up"
    /\ UNCHANGED <<objects, worker, pool, session, accepted>>

-----------------------------------------------------------------------------
Worker == Take \/ MarkProcessing \/ Render \/ ProcessDies
             \/ RecordSuccess \/ WorkerFault \/ RecordFailure

Serve(s) == Enqueue(s) \/ MarkPending(s) \/ PendingFault(s)

Next ==
    \/ \E s \in Sessions : Request(s) \/ Serve(s)
    \/ Worker
    \/ \E e \in ExpIds : Edit(e) \/ Delete(e)
    \/ Stop \/ Start

Spec == Init /\ [][Next]_vars

\* The event loop runs the worker task and the requests it has begun, every
\* rendering ends, and a process that stopped is started again.
FairSpec ==
    /\ Spec
    /\ WF_vars(Worker)
    /\ \A s \in Sessions : WF_vars(Serve(s))
    /\ WF_vars(Start)

\* Clients that ask for the report of an experiment one at a time: a request
\* is answered, or lost with the process, before the next one for it begins.
OneAtATime ==
    \A s, t \in Sessions :
        s # t /\ session[s].pc # "idle" =>
           session[t].job.exp # session[s].job.exp

SerialSpec == Init /\ [][Next /\ OneAtATime']_vars

-----------------------------------------------------------------------------
TypeOK ==
    /\ rows \in [ExpIds -> Rows]
    /\ objects \in [ExpIds -> 0..MaxData \cup {NoData}]
    /\ phase \in {"up", "down"}
    /\ queue \in Seq(Jobs) /\ Len(queue) <= QueueMax
    /\ worker \in [pc  : {"idle", "start", "render", "success", "failure"},
                   job : Jobs \cup {NoJob}]
    /\ pool \in {"ok", "broken"}
    /\ session \in [Sessions -> [pc  : {"idle", "enqueue", "pending"},
                                 job : Jobs \cup {NoJob}]]
    /\ accepted \in [ExpIds -> 0..MaxData]

\* What download hands out a link for is in the object store, also while the
\* report is generated again and after a restart.
LinksLead ==
    \A e \in ExpIds : rows[e].key => objects[e] # NoData

\* "A failed regeneration must not leave report/download still serving a PDF
\* from a previous successful run", and a successful one is served.
OutcomeServed ==
    \A e \in ExpIds :
        /\ rows[e].status = "failed" => ~rows[e].key
        /\ rows[e].status = "success" => rows[e].key

Queued(e) == \E i \in DOMAIN queue : queue[i].exp = e

Outstanding(e) == Queued(e) \/ worker.job.exp = e

Requested(e) == \E s \in Sessions : session[s].job.exp = e

\* An experiment shown as pending or processing has a job, in the queue or
\* in the worker's hands.
Settled(e) ==
    rows[e].live /\ rows[e].status \in Unfinished => Outstanding(e)

\* A start repairs every experiment whose job was lost, whatever failed
\* before: it gets a job with its present state or is marked as failed.
StartRepairs ==
    [][phase = "down" /\ phase' = "up" =>
          \A e \in ExpIds :
             LET job == [exp |-> e, data |-> rows[e].data]
             IN  rows'[e].live /\ rows'[e].status \in Unfinished
                    => \E i \in DOMAIN queue' : queue'[i] = job]_vars

\* Requests for one experiment that do not overlap (SerialSpec) leave it with
\* one job at most, and the PDF of a report that succeeded shows the experiment as the
\* latest accepted request found it, or later.
OneJob ==
    \A e \in ExpIds :
        LET mine == { i \in DOMAIN queue : queue[i].exp = e }
        IN  Cardinality(mine) + (IF worker.job.exp = e THEN 1 ELSE 0) <= 1

ServedFresh ==
    \A e \in ExpIds :
        rows[e].live /\ rows[e].status = "success" =>
            objects[e] >= accepted[e]

\* "marks the experiment as failed, and moves on": once nothing is queued,
\* requested or in the worker's hands, no report is left unfinished.
NothingLeftOver ==
    (phase = "up" /\ queue = <<>> /\ worker = Idle) =>
        \A e \in ExpIds : Requested(e) \/ Settled(e)

\* "The worker never dies on a failed job": it comes back for the next one,
\* also when recording the failure fails.
WorkerReturns == (worker.pc # "idle") ~> (worker.pc = "idle")

\* No job waits forever behind those of other experiments: it is taken, or
\* lost with the process.
EveryJobTaken ==
    \A e \in ExpIds : Queued(e) ~> (worker.job.exp = e \/ ~Queued(e))
=============================================================================
