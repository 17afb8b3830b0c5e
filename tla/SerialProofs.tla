---------------------------- MODULE SerialProofs ----------------------------
(***************************************************************************)
(* What ReportPipeline keeps when clients ask for the report of an         *)
(* experiment one at a time and no transaction fails: one job at most for  *)
(* an experiment, and a successful PDF as fresh as the latest accepted     *)
(* request. Any number of requests for different experiments may overlap,  *)
(* and experiments are edited, deleted and the process restarted meanwhile.*)
(***************************************************************************)
EXTENDS ReportProofs

\* The jobs that are queued or in the worker's hands.
Held == { queue[i] : i \in DOMAIN queue }
           \cup (IF worker.pc = "idle" THEN {} ELSE {worker.job})

\* The job's copy of the state lies between that of the latest accepted
\* request and the experiment's present one.
Fresh(job) ==
    /\ accepted[job.exp] <= job.data
    /\ job.data <= rows[job.exp].data

\* A request for e has queued its job and is about to write "pending".
Announcing(e) ==
    \E s \in Sessions : session[s].pc = "pending" /\ session[s].job.exp = e

JobSound(job) ==
    /\ Fresh(job)
    /\ rows[job.exp].live =>
          rows[job.exp].status \in Unfinished \/ Announcing(job.exp)

\* The only job held for the experiment of a request is the request's own.
RequestSound(s) ==
    session[s].pc # "idle" =>
       /\ Fresh(session[s].job)
       /\ \A job \in Held :
             job.exp = session[s].job.exp =>
                session[s].pc = "pending" /\ job = session[s].job

Apart ==
    /\ \A i, j \in DOMAIN queue : queue[i].exp = queue[j].exp => i = j
    /\ worker.pc # "idle" =>
          \A i \in DOMAIN queue : queue[i].exp # worker.job.exp

\* Nothing is left of what ended, or of a process that stopped.
Clean ==
    /\ worker.pc = "idle" => worker.job = NoJob
    /\ \A s \in Sessions : session[s].pc = "idle" => session[s].job = NoJob
    /\ phase = "down" =>
          /\ queue = <<>>
          /\ worker.pc = "idle"
          /\ \A s \in Sessions : session[s].pc = "idle"

Uploaded == worker.pc = "success" => objects[worker.job.exp] = worker.job.data

AcceptedFirst == \A e \in ExpIds : accepted[e] <= rows[e].data

SerialInv ==
    /\ Inv
    /\ OneAtATime
    /\ Apart
    /\ Clean
    /\ \A job \in Held : JobSound(job)
    /\ \A s \in Sessions : RequestSound(s)
    /\ AcceptedFirst
    /\ Uploaded
    /\ ServedFresh

-----------------------------------------------------------------------------
LEMMA HeldAreJobs ==
    ASSUME Inv, NEW job \in Held
    PROVE  job \in Jobs /\ job.exp \in ExpIds /\ job.data \in 0..MaxData
<1>1. job \in Jobs
  BY DEF Held, Inv, TypeOK, WorkerSound
<1> QED
  BY <1>1 DEF Jobs

LEMMA AskedAreJobs ==
    ASSUME Inv, NEW s \in Sessions, session[s].pc # "idle"
    PROVE  /\ session[s].job \in Jobs
           /\ session[s].job.exp \in ExpIds
           /\ session[s].job.data \in 0..MaxData
  BY DEF Inv, SessionsSound, Jobs

LEMMA InitSerial == Init => SerialInv
<1> SUFFICES ASSUME Init PROVE SerialInv
  OBVIOUS
<1>1. Inv
  BY InitInv
<1>2. Held = {}
  BY DEF Init, Held, Idle
<1>3. /\ \A s \in Sessions : session[s] = Idle
      /\ worker = Idle /\ queue = <<>>
  BY DEF Init
<1>4. OneAtATime /\ Apart /\ Clean /\ Uploaded
  BY <1>3 DEF OneAtATime, Apart, Clean, Uploaded, Idle
<1>5. \A s \in Sessions : RequestSound(s)
  BY <1>3 DEF RequestSound, Idle
<1>6. AcceptedFirst /\ ServedFresh
  BY DEF Init, AcceptedFirst, ServedFresh
<1> QED
  BY <1>1, <1>2, <1>4, <1>5, <1>6 DEF SerialInv

-----------------------------------------------------------------------------
(* The requests *)

LEMMA RequestSerial ==
    ASSUME SerialInv, Inv', OneAtATime', NEW s \in Sessions, Request(s)
    PROVE  SerialInv'
<1>1. PICK e \in ExpIds :
         /\ rows[e].live
         /\ ~Refuses(e)
         /\ session' = [session EXCEPT ![s] = [pc |-> "enqueue", job |-> JobOf(e)]]
  BY DEF Request
<1>2. /\ phase = "up" /\ session[s].pc = "idle"
      /\ UNCHANGED <<rows, objects, phase, queue, worker, pool, accepted>>
  BY DEF Request
<1>3. /\ session'[s] = [pc |-> "enqueue", job |-> JobOf(e)]
      /\ \A t \in Sessions \ {s} : session'[t] = session[t]
      /\ JobOf(e).exp = e /\ JobOf(e).data = rows[e].data
  BY <1>1 DEF SerialInv, Inv, TypeOK, JobOf
<1>4. Held' = Held
  BY <1>2 DEF Held
<1>5. \A f \in ExpIds : Announcing(f) => Announcing(f)'
  BY <1>2, <1>3 DEF Announcing
<1>6. \A job \in Held' : JobSound(job)'
  BY <1>2, <1>4, <1>5, HeldAreJobs DEF SerialInv, JobSound, Fresh
<1>7. ~Announcing(e)
  BY <1>2, <1>3 DEF OneAtATime, Announcing
<1>8. \A job \in Held : job.exp # e
  BY <1>1, <1>7 DEF SerialInv, JobSound, Refuses
<1>9. RequestSound(s)'
  <2>1. Fresh(JobOf(e))
    <3>1. rows[e].data \in Nat
      BY DEF SerialInv, Inv, TypeOK, Rows
    <3> QED
      BY <1>3, <3>1 DEF SerialInv, AcceptedFirst, Fresh
  <2> QED
    BY <1>2, <1>3, <1>4, <1>8, <2>1 DEF RequestSound, Fresh
<1>10. ASSUME NEW t \in Sessions \ {s}
       PROVE  RequestSound(t)'
  BY <1>2, <1>3, <1>4 DEF SerialInv, RequestSound, Fresh
<1>11. Apart' /\ Uploaded' /\ AcceptedFirst' /\ ServedFresh'
  BY <1>2 DEF SerialInv, Apart, Uploaded, AcceptedFirst, ServedFresh
<1>12. Clean'
  BY <1>2, <1>3 DEF SerialInv, Clean
<1> QED
  BY <1>6, <1>9, <1>10, <1>11, <1>12 DEF SerialInv

\* A request that ends leaves the others as they are.
LEMMA ReplyEffect ==
    ASSUME Inv, NEW s \in Sessions, Reply(s)
    PROVE  /\ session'[s] = Idle
           /\ \A t \in Sessions \ {s} : session'[t] = session[t]
  BY DEF Inv, TypeOK, Reply

LEMMA AppendElements ==
    ASSUME TypeOK, NEW job \in Jobs, queue' = Append(queue, job)
    PROVE  /\ DOMAIN queue = 1..Len(queue) /\ Len(queue) \in Nat
           /\ DOMAIN queue' = 1..(Len(queue) + 1)
           /\ \A i \in DOMAIN queue : queue'[i] = queue[i]
           /\ queue'[Len(queue) + 1] = job
  BY DEF TypeOK

LEMMA EnqueueSerial ==
    ASSUME SerialInv, Inv', OneAtATime', NEW s \in Sessions, Enqueue(s)
    PROVE  SerialInv'
<1>1. /\ session[s].pc = "enqueue"
      /\ UNCHANGED <<rows, objects, phase, worker, pool, accepted>>
  BY DEF Enqueue
<1> DEFINE mine == session[s].job
<1>2. mine \in Jobs /\ mine.exp \in ExpIds /\ Fresh(mine)
  BY <1>1, AskedAreJobs DEF SerialInv, RequestSound
<1>3. phase = "up"
  BY <1>1 DEF SerialInv, Inv, TypeOK, Clean
<1>4. Uploaded' /\ AcceptedFirst' /\ ServedFresh'
  BY <1>1 DEF SerialInv, Uploaded, AcceptedFirst, ServedFresh
<1>5. CASE Reply(s) /\ UNCHANGED queue
  <2>1. /\ session'[s] = Idle
        /\ \A t \in Sessions \ {s} : session'[t] = session[t]
    BY <1>5, ReplyEffect DEF SerialInv
  <2>2. Held' = Held
    BY <1>1, <1>5 DEF Held
  <2>3. \A f \in ExpIds : Announcing(f) => Announcing(f)'
    BY <1>1, <2>1 DEF Announcing
  <2>4. \A job \in Held' : JobSound(job)'
    BY <1>1, <2>2, <2>3, HeldAreJobs DEF SerialInv, JobSound, Fresh
  <2>5. \A t \in Sessions : RequestSound(t)'
    BY <1>1, <2>1, <2>2 DEF SerialInv, RequestSound, Fresh, Idle
  <2>6. Apart' /\ Clean'
    BY <1>1, <1>3, <1>5, <2>1 DEF SerialInv, Apart, Clean, Idle
  <2> QED
    BY <1>4, <2>4, <2>5, <2>6 DEF SerialInv
<1>6. CASE ~(Reply(s) /\ UNCHANGED queue)
  <2>1. queue' = Append(queue, mine)
        /\ session' = [session EXCEPT ![s].pc = "pending"]
    BY <1>6 DEF Enqueue
  <2>2. /\ session'[s].pc = "pending" /\ session'[s].job = mine
        /\ \A t \in Sessions \ {s} : session'[t] = session[t]
    BY <2>1 DEF SerialInv, Inv, TypeOK
  <2>3. /\ DOMAIN queue = 1..Len(queue) /\ Len(queue) \in Nat
        /\ DOMAIN queue' = 1..(Len(queue) + 1)
        /\ \A i \in DOMAIN queue : queue'[i] = queue[i]
        /\ queue'[Len(queue) + 1] = mine
    BY <1>2, <2>1, AppendElements DEF SerialInv, Inv
  <2>4. Held' \subseteq Held \cup {mine}
    BY <1>1, <2>3 DEF Held
  <2>5. \A job \in Held : job.exp # mine.exp
    BY <1>1 DEF SerialInv, RequestSound
  <2>6. \A f \in ExpIds : Announcing(f) => Announcing(f)'
    BY <1>1, <2>2 DEF Announcing
  <2>7. Announcing(mine.exp)'
    BY <2>2 DEF Announcing
  <2>8. \A job \in Held' : JobSound(job)'
    <3>1. \A job \in Held : JobSound(job)'
      BY <1>1, <2>6, HeldAreJobs DEF SerialInv, JobSound, Fresh
    <3>2. JobSound(mine)'
      BY <1>1, <1>2, <2>2, <2>7 DEF JobSound, Fresh
    <3> QED
      BY <2>2, <2>4, <3>1, <3>2
  <2>9. RequestSound(s)'
    BY <1>1, <1>2, <2>2, <2>4, <2>5 DEF RequestSound, Fresh
  <2>10. ASSUME NEW t \in Sessions \ {s}
         PROVE  RequestSound(t)'
    <3>1. session[t].job.exp # mine.exp \/ session[t].pc = "idle"
      BY <1>1 DEF SerialInv, OneAtATime
    <3> QED
      BY <1>1, <2>2, <2>4, <3>1 DEF SerialInv, RequestSound, Fresh
  <2>11. Clean'
    BY <1>1, <1>3, <2>2 DEF SerialInv, Clean
  <2>12. Apart'
    <3>1. \A i \in DOMAIN queue : queue[i].exp # mine.exp
      BY <2>5 DEF Held
    <3>2. worker.pc # "idle" => worker.job.exp # mine.exp
      BY <2>5 DEF Held
    <3> QED
      BY <1>1, <2>3, <3>1, <3>2 DEF SerialInv, Apart
  <2> QED
    BY <1>4, <2>8, <2>9, <2>10, <2>11, <2>12 DEF SerialInv
<1> QED
  BY <1>5, <1>6

\* What a status written to a row leaves as it was.
LEMMA StatusEffect ==
    ASSUME TypeOK, NEW e \in ExpIds, NEW st, WriteStatus(e, st)
    PROVE  /\ \A f \in ExpIds : rows'[f].live = rows[f].live
           /\ \A f \in ExpIds : rows'[f].data = rows[f].data
           /\ \A f \in ExpIds \ {e} : rows'[f] = rows[f]
           /\ rows[e].live => rows'[e].status = st
  BY DEF TypeOK, Rows, WriteStatus, Write

LEMMA MarkPendingSerial ==
    ASSUME SerialInv, Inv', OneAtATime', NEW s \in Sessions, MarkPending(s)
    PROVE  SerialInv'
<1> DEFINE mine == session[s].job
<1>1. /\ session[s].pc = "pending"
      /\ WriteStatus(mine.exp, "pending")
      /\ accepted' = [accepted EXCEPT ![mine.exp] = mine.data]
      /\ Reply(s)
      /\ UNCHANGED <<objects, phase, queue, worker, pool>>
  BY DEF MarkPending
<1>2. /\ mine.exp \in ExpIds /\ Fresh(mine)
      /\ \A job \in Held : job.exp = mine.exp => job = mine
  BY <1>1, AskedAreJobs DEF SerialInv, RequestSound
<1>3. /\ session'[s] = Idle
      /\ \A t \in Sessions \ {s} : session'[t] = session[t]
  BY <1>1, ReplyEffect DEF SerialInv
<1>4. /\ \A f \in ExpIds : rows'[f].live = rows[f].live
      /\ \A f \in ExpIds : rows'[f].data = rows[f].data
      /\ \A f \in ExpIds \ {mine.exp} : rows'[f] = rows[f]
      /\ rows[mine.exp].live => rows'[mine.exp].status = "pending"
  BY <1>1, <1>2, StatusEffect DEF SerialInv, Inv
<1>5. /\ accepted'[mine.exp] = mine.data
      /\ \A f \in ExpIds \ {mine.exp} : accepted'[f] = accepted[f]
      /\ mine.data <= rows[mine.exp].data /\ mine.data \in Nat
  BY <1>1, <1>2, AskedAreJobs DEF SerialInv, Inv, TypeOK, Fresh
<1>6. Held' = Held
  BY <1>1 DEF Held
<1>7. ASSUME NEW job \in Held
      PROVE  JobSound(job)'
  <2>1. job.exp \in ExpIds /\ JobSound(job)
    BY HeldAreJobs DEF SerialInv
  <2>2. CASE job.exp = mine.exp
    BY <1>2, <1>4, <1>5, <2>2 DEF JobSound, Fresh, Unfinished
  <2>3. CASE job.exp # mine.exp
    <3>1. Announcing(job.exp) => Announcing(job.exp)'
      BY <1>3, <2>3 DEF Announcing
    <3> QED
      BY <1>4, <1>5, <2>1, <2>3, <3>1 DEF JobSound, Fresh
  <2> QED
    BY <2>2, <2>3
<1>8. ASSUME NEW t \in Sessions
      PROVE  RequestSound(t)'
  <2>1. CASE t = s
    BY <1>3, <2>1 DEF RequestSound, Idle
  <2>2. CASE t # s /\ session[t].pc # "idle"
    <3>1. session[t].job.exp # mine.exp /\ session[t].job.exp \in ExpIds
      BY <1>1, <2>2, AskedAreJobs DEF SerialInv, OneAtATime
    <3> QED
      BY <1>3, <1>4, <1>5, <1>6, <2>2, <3>1 DEF SerialInv, RequestSound, Fresh
  <2>3. CASE t # s /\ session[t].pc = "idle"
    BY <1>3, <2>3 DEF RequestSound
  <2> QED
    BY <2>1, <2>2, <2>3
<1>9. AcceptedFirst' /\ ServedFresh'
  BY <1>1, <1>4, <1>5 DEF SerialInv, AcceptedFirst, ServedFresh
<1>10. Apart' /\ Uploaded' /\ Clean'
  BY <1>1, <1>3 DEF SerialInv, Apart, Uploaded, Clean, Idle
<1> QED
  BY <1>6, <1>7, <1>8, <1>9, <1>10 DEF SerialInv

-----------------------------------------------------------------------------
(* The worker *)

\* A step that takes no request on, announces nothing anew, changes no job's
\* copy and no experiment's data, and may only let go of a job.
Keeps ==
    /\ UNCHANGED <<phase, session, accepted>>
    /\ Held' \subseteq Held
    /\ \A f \in ExpIds : rows'[f].data = rows[f].data
    /\ \A f \in ExpIds : rows'[f].live = rows[f].live

LEMMA KeepsSound ==
    ASSUME SerialInv, Keeps,
           \A job \in Held' : rows'[job.exp].live =>
              \/ rows'[job.exp].status \in Unfinished
              \/ rows'[job.exp].status = rows[job.exp].status
    PROVE  /\ \A job \in Held' : JobSound(job)'
           /\ \A s \in Sessions : RequestSound(s)'
           /\ AcceptedFirst'
<1>1. \A f \in ExpIds : Announcing(f)' = Announcing(f)
  BY DEF Keeps, Announcing
<1>2. \A job \in Held' : JobSound(job)'
  BY <1>1, HeldAreJobs DEF SerialInv, JobSound, Fresh, Keeps
<1>3. \A s \in Sessions : RequestSound(s)'
  BY AskedAreJobs DEF SerialInv, RequestSound, Fresh, Keeps
<1> QED
  BY <1>2, <1>3 DEF SerialInv, AcceptedFirst, Keeps

LEMMA WorkerIs ==
    ASSUME SerialInv, worker.pc # "idle"
    PROVE  /\ worker.job \in Held
           /\ worker.job.exp \in ExpIds
           /\ Fresh(worker.job)
           /\ worker.job.data \in Nat
<1>1. worker.job \in Held
  BY DEF Held
<1> QED
  BY <1>1, HeldAreJobs DEF SerialInv, JobSound

\* The worker goes on with the job in its hands, or puts it down.
LEMMA WorkerHolds ==
    ASSUME SerialInv, UNCHANGED queue,
           \/ worker.pc # "idle" /\ worker'.job = worker.job
           \/ worker' = Idle
    PROVE  Held' \subseteq Held /\ Apart'
<1>1. Held' \subseteq Held
  BY DEF Held, Idle
<1> QED
  BY <1>1 DEF SerialInv, Apart, Idle

LEMMA TakeSerial ==
    ASSUME SerialInv, Inv', Take
    PROVE  SerialInv'
<1>1. /\ phase = "up" /\ worker.pc = "idle" /\ queue # <<>>
      /\ worker' = [pc |-> "start", job |-> Head(queue)]
      /\ queue' = Tail(queue)
      /\ UNCHANGED <<rows, objects, phase, pool, session, accepted>>
  BY DEF Take
<1>2. /\ Len(queue) \in Nat \ {0} /\ DOMAIN queue = 1..Len(queue)
      /\ DOMAIN queue' = 1..(Len(queue) - 1)
      /\ \A i \in DOMAIN queue' : queue'[i] = queue[i + 1] /\ i + 1 \in DOMAIN queue
      /\ worker'.job = queue[1] /\ 1 \in DOMAIN queue
  <2>1. queue \in Seq(Jobs) /\ queue # <<>>
    BY <1>1 DEF SerialInv, Inv, TypeOK
  <2> QED
    BY <1>1, <2>1, HeadTailProperties
<1>3. Held' \subseteq Held
  BY <1>1, <1>2 DEF Held
<1>4. Apart'
  BY <1>1, <1>2 DEF SerialInv, Apart
<1>5. Keeps
  BY <1>1, <1>3 DEF Keeps
<1>6. Clean' /\ Uploaded' /\ ServedFresh' /\ OneAtATime'
  BY <1>1 DEF SerialInv, Clean, Uploaded, ServedFresh, OneAtATime
<1> QED
  BY <1>1, <1>4, <1>5, <1>6, KeepsSound DEF SerialInv

LEMMA MarkProcessingSerial ==
    ASSUME SerialInv, Inv', MarkProcessing
    PROVE  SerialInv'
<1> DEFINE e == worker.job.exp
<1>1. /\ worker.pc = "start" /\ WriteStatus(e, "processing")
      /\ worker' = [worker EXCEPT !.pc = "render"]
      /\ UNCHANGED <<objects, phase, queue, pool, session, accepted>>
  BY DEF MarkProcessing, WorkerTo
<1>2. e \in ExpIds
  BY <1>1, WorkerIs
<1>3. /\ \A f \in ExpIds : rows'[f].live = rows[f].live
      /\ \A f \in ExpIds : rows'[f].data = rows[f].data
      /\ \A f \in ExpIds \ {e} : rows'[f] = rows[f]
      /\ rows[e].live => rows'[e].status = "processing"
  BY <1>1, <1>2, StatusEffect DEF SerialInv, Inv
<1>4. worker'.job = worker.job /\ worker'.pc = "render"
  BY <1>1 DEF SerialInv, Inv, TypeOK
<1>5. Held' \subseteq Held /\ Apart'
  BY <1>1, <1>4, WorkerHolds
<1>6. Keeps
  BY <1>1, <1>3, <1>5 DEF Keeps
<1>7. \A job \in Held' : rows'[job.exp].live =>
         \/ rows'[job.exp].status \in Unfinished
         \/ rows'[job.exp].status = rows[job.exp].status
  BY <1>3, <1>5, HeldAreJobs DEF Unfinished, SerialInv
<1>8. Clean' /\ Uploaded' /\ OneAtATime'
  BY <1>1, <1>4 DEF SerialInv, Clean, Uploaded, OneAtATime
<1>9. ServedFresh'
  BY <1>1, <1>2, <1>3 DEF SerialInv, ServedFresh
<1> QED
  BY <1>5, <1>6, <1>7, <1>8, <1>9, KeepsSound DEF SerialInv

\* What the executor uploads is as fresh as the job it was uploaded for.
LEMMA UploadFresh ==
    ASSUME SerialInv, worker.pc # "idle", Upload, UNCHANGED <<rows, accepted>>
    PROVE  /\ objects'[worker.job.exp] = worker.job.data
           /\ ServedFresh'
<1>1. /\ objects' = [objects EXCEPT ![worker.job.exp] = worker.job.data]
      /\ objects \in [ExpIds -> 0..MaxData \cup {NoData}]
      /\ accepted \in [ExpIds -> 0..MaxData]
  BY DEF Upload, SerialInv, Inv, TypeOK
<1> QED
  BY <1>1, WorkerIs DEF SerialInv, ServedFresh, Fresh

LEMMA RenderSerial ==
    ASSUME SerialInv, Inv', Render \/ ProcessDies
    PROVE  SerialInv'
<1>1. /\ worker.pc = "render"
      /\ UNCHANGED <<rows, phase, queue, session, accepted>>
      /\ \/ Upload /\ (WorkerTo("success") \/ WorkerTo("failure"))
         \/ UNCHANGED objects /\ WorkerTo("failure")
  BY DEF Render, ProcessDies
<1>2. worker'.job = worker.job /\ worker'.pc \in {"success", "failure"}
      /\ (worker'.pc = "success" => Upload)
  BY <1>1 DEF SerialInv, Inv, TypeOK, WorkerTo
<1>3. Held' \subseteq Held /\ Apart'
  BY <1>1, <1>2, WorkerHolds
<1>4. Keeps
  BY <1>1, <1>3 DEF Keeps
<1>5. Clean' /\ OneAtATime'
  BY <1>1, <1>2 DEF SerialInv, Clean, OneAtATime
<1>6. Uploaded' /\ ServedFresh'
  <2>1. CASE Upload
    BY <1>1, <1>2, <2>1, UploadFresh DEF Uploaded
  <2>2. CASE UNCHANGED objects /\ WorkerTo("failure")
    BY <1>1, <1>2, <2>2 DEF SerialInv, Inv, TypeOK, WorkerTo, Uploaded, ServedFresh
  <2> QED
    BY <1>1, <2>1, <2>2
<1> QED
  BY <1>1, <1>3, <1>4, <1>5, <1>6, KeepsSound DEF SerialInv

\* What the outcome written to a row leaves as it was.
LEMMA OutcomeEffect ==
    ASSUME TypeOK, NEW e \in ExpIds, WriteSuccess(e) \/ WriteFailure(e)
    PROVE  /\ \A f \in ExpIds : rows'[f].live = rows[f].live
           /\ \A f \in ExpIds : rows'[f].data = rows[f].data
           /\ \A f \in ExpIds \ {e} : rows'[f] = rows[f]
           /\ WriteFailure(e) /\ rows[e].live => rows'[e].status = "failed"
<1>1. rows \in [ExpIds -> Rows]
  BY DEF TypeOK
<1>2. CASE WriteSuccess(e)
  <2>1. CASE rows[e].live
    <3> DEFINE new == [rows[e] EXCEPT !.status = "success", !.key = TRUE]
    <3>1. /\ new.live = rows[e].live /\ new.data = rows[e].data
          /\ new.status = "success"
      BY <1>1 DEF Rows
    <3>2. rows' = [rows EXCEPT ![e] = new]
      BY <1>2, <2>1 DEF WriteSuccess, Write
    <3> HIDE DEF new
    <3>3. ~(WriteFailure(e) /\ rows'[e].status # "failed")
      <4>1. SUFFICES ASSUME WriteFailure(e) PROVE rows'[e].status = "failed"
        OBVIOUS
      <4> QED
        BY <1>1, <2>1, <4>1 DEF WriteFailure, Write, Rows
    <3> QED
      BY <1>1, <3>1, <3>2, <3>3
  <2>2. CASE ~rows[e].live
    BY <1>2, <2>2 DEF WriteSuccess, Write
  <2> QED
    BY <2>1, <2>2
<1>3. CASE WriteFailure(e)
  <2>1. CASE rows[e].live
    <3> DEFINE new == [rows[e] EXCEPT !.status = "failed", !.key = FALSE]
    <3>1. /\ new.live = rows[e].live /\ new.data = rows[e].data
          /\ new.status = "failed"
      BY <1>1 DEF Rows
    <3>2. rows' = [rows EXCEPT ![e] = new]
      BY <1>3, <2>1 DEF WriteFailure, Write
    <3> HIDE DEF new
    <3> QED
      BY <1>1, <3>1, <3>2
  <2>2. CASE ~rows[e].live
    BY <1>3, <2>2 DEF WriteFailure, Write
  <2> QED
    BY <2>1, <2>2
<1> QED
  BY <1>2, <1>3

\* An outcome is recorded when the job is no longer held.
LEMMA RecordSerial ==
    ASSUME SerialInv, Inv', ~DbFaults, RecordSuccess \/ RecordFailure
    PROVE  SerialInv'
<1> DEFINE e == worker.job.exp
<1>1. /\ worker.pc # "idle" /\ worker' = Idle
      /\ UNCHANGED <<objects, phase, queue, pool, session, accepted>>
      /\ \/ WriteSuccess(e) /\ worker.pc = "success"
         \/ WriteFailure(e)
  BY DEF RecordSuccess, RecordFailure
<1>2. e \in ExpIds /\ Fresh(worker.job)
  BY <1>1, WorkerIs
<1>3. /\ \A f \in ExpIds : rows'[f].live = rows[f].live
      /\ \A f \in ExpIds : rows'[f].data = rows[f].data
      /\ \A f \in ExpIds \ {e} : rows'[f] = rows[f]
      /\ rows[e].live /\ rows'[e].status = "success" => worker.pc = "success"
  <2>1. /\ \A f \in ExpIds : rows'[f].live = rows[f].live
        /\ \A f \in ExpIds : rows'[f].data = rows[f].data
        /\ \A f \in ExpIds \ {e} : rows'[f] = rows[f]
        /\ WriteFailure(e) /\ rows[e].live => rows'[e].status = "failed"
    BY <1>1, <1>2, OutcomeEffect DEF SerialInv, Inv
  <2> QED
    BY <1>1, <2>1
<1>4. Held' \subseteq Held /\ Apart'
  BY <1>1, WorkerHolds
<1>5. \A job \in Held' : job.exp # e
  BY <1>1 DEF SerialInv, Apart, Held, Idle
<1>6. Keeps
  BY <1>1, <1>3, <1>4 DEF Keeps
<1>7. \A job \in Held' : rows'[job.exp].status = rows[job.exp].status
  BY <1>3, <1>4, <1>5, HeldAreJobs DEF SerialInv
<1>8. Clean' /\ OneAtATime' /\ Uploaded'
  BY <1>1 DEF SerialInv, Clean, OneAtATime, Uploaded, Idle
<1>9. ServedFresh'
  <2>1. worker.pc = "success" => objects[e] >= accepted[e]
    BY <1>1, <1>2, WorkerIs DEF SerialInv, Inv, TypeOK, Uploaded, Fresh
  <2> QED
    BY <1>1, <1>2, <1>3, <2>1 DEF SerialInv, ServedFresh
<1> QED
  BY <1>4, <1>6, <1>7, <1>8, <1>9, KeepsSound DEF SerialInv

-----------------------------------------------------------------------------
(* Edits, and the life of the process *)

LEMMA EditEffect ==
    ASSUME TypeOK, NEW e \in ExpIds, Edit(e) \/ Delete(e), NEW f \in ExpIds
    PROVE  /\ rows[f].data \in Nat /\ rows'[f].data \in Nat
           /\ rows[f].data <= rows'[f].data
           /\ rows'[f].status = rows[f].status
           /\ rows'[f].live => rows[f].live
<1>1. /\ rows \in [ExpIds -> Rows] /\ rows[f].data \in Nat
      /\ rows[e].data \in Nat
  BY PipelineConstants DEF TypeOK, Rows
<1>2. CASE f # e
  BY <1>1, <1>2 DEF Edit, Delete
<1>3. CASE f = e /\ Edit(e)
  <2>1. rows'[e] = [rows[e] EXCEPT !.data = @ + 1]
    BY <1>1, <1>3 DEF Edit
  <2>2. /\ rows'[e].data = rows[e].data + 1
        /\ rows'[e].status = rows[e].status
        /\ rows'[e].live = rows[e].live
    BY <1>1, <2>1 DEF Rows
  <2> QED
    BY <1>1, <1>3, <2>2
<1>4. CASE f = e /\ Delete(e)
  <2>1. rows'[e] = [rows[e] EXCEPT !.live = FALSE]
    BY <1>1, <1>4 DEF Delete
  <2>2. /\ rows'[e].data = rows[e].data
        /\ rows'[e].status = rows[e].status
        /\ rows'[e].live = FALSE
    BY <1>1, <2>1 DEF Rows
  <2> QED
    BY <1>1, <1>4, <2>2
<1> QED
  BY <1>2, <1>3, <1>4

LEMMA EditSerial ==
    ASSUME SerialInv, Inv', NEW e \in ExpIds, Edit(e) \/ Delete(e)
    PROVE  SerialInv'
<1>1. /\ UNCHANGED <<objects, phase, queue, worker, pool, session, accepted>>
      /\ rows[e].live /\ phase = "up"
  BY DEF Edit, Delete
<1>2. \A f \in ExpIds : /\ rows[f].data \in Nat /\ rows'[f].data \in Nat
                        /\ rows[f].data <= rows'[f].data
                        /\ rows'[f].status = rows[f].status
                        /\ rows'[f].live => rows[f].live
  BY EditEffect DEF SerialInv, Inv
<1>3. Held' = Held /\ \A f \in ExpIds : Announcing(f)' = Announcing(f)
  BY <1>1 DEF Held, Announcing
<1>4. ASSUME NEW job, job \in Jobs, Fresh(job)
      PROVE  Fresh(job)'
  <2>1. /\ job.exp \in ExpIds /\ job.data \in Nat
        /\ accepted[job.exp] \in Nat /\ accepted' = accepted
    BY <1>1, <1>4 DEF Jobs, SerialInv, Inv, TypeOK
  <2> QED
    BY <1>2, <1>4, <2>1 DEF Fresh
<1>5. ASSUME NEW job \in Held
      PROVE  JobSound(job)'
  BY <1>2, <1>3, <1>4, HeldAreJobs DEF SerialInv, JobSound
<1>6. ASSUME NEW s \in Sessions
      PROVE  RequestSound(s)'
  <2>1. CASE session[s].pc = "idle"
    BY <1>1, <2>1 DEF RequestSound
  <2>2. CASE session[s].pc # "idle"
    <3>1. Fresh(session[s].job)'
      <4>1. PICK job : job = session[s].job
        OBVIOUS
      <4>2. job \in Jobs /\ Fresh(job)
        BY <2>2, <4>1, AskedAreJobs DEF SerialInv, RequestSound
      <4>3. Fresh(job)'
        BY <1>4, <4>2
      <4> QED
        BY <1>1, <4>1, <4>3 DEF Fresh
    <3> QED
      BY <1>1, <1>3, <2>2, <3>1 DEF SerialInv, RequestSound
  <2> QED
    BY <2>1, <2>2
<1>7. AcceptedFirst'
  BY <1>1, <1>2 DEF SerialInv, Inv, TypeOK, AcceptedFirst
<1>8. ServedFresh'
  BY <1>1, <1>2 DEF SerialInv, ServedFresh
<1>9. Apart' /\ Clean' /\ Uploaded' /\ OneAtATime'
  BY <1>1 DEF SerialInv, Apart, Clean, Uploaded, OneAtATime
<1> QED
  BY <1>3, <1>5, <1>6, <1>7, <1>8, <1>9 DEF SerialInv

LEMMA StopSerial ==
    ASSUME SerialInv, Inv', Stop
    PROVE  SerialInv'
<1>1. /\ queue' = <<>> /\ worker' = Idle
      /\ session' = [s \in Sessions |-> Idle]
      /\ UNCHANGED <<rows, accepted>>
      /\ \/ worker.pc = "render" /\ Upload
         \/ UNCHANGED objects
  BY DEF Stop
<1>2. Held' = {}
  BY <1>1 DEF Held, Idle
<1>3. ServedFresh'
  BY <1>1, UploadFresh DEF SerialInv, ServedFresh
<1>4. \A s \in Sessions : RequestSound(s)'
  BY <1>1 DEF RequestSound, Idle
<1>5. Apart' /\ Clean' /\ Uploaded' /\ OneAtATime' /\ AcceptedFirst'
  BY <1>1
     DEF SerialInv, Apart, Clean, Uploaded, OneAtATime, AcceptedFirst, Idle
<1> QED
  BY <1>2, <1>3, <1>4, <1>5 DEF SerialInv

\* A start gives each experiment left unfinished one job at most, with its
\* present state.
LEMMA StartQueues ==
    ASSUME TypeOK, Start
    PROVE  /\ \A i \in DOMAIN queue' :
                 \E e \in Orphaned : /\ queue'[i] = JobOf(e)
                                    /\ rows'[e].status \in Unfinished
           /\ \A i, j \in DOMAIN queue' : queue'[i].exp = queue'[j].exp => i = j
           /\ \A e \in ExpIds : /\ rows'[e].live = rows[e].live
                                /\ rows'[e].data = rows[e].data
           /\ \A e \in ExpIds : rows'[e].status = "success" =>
                                rows[e].status = "success"
<1>1. PICK order \in SetToSeqs(Orphaned) :
         LET room   == IF Len(order) < QueueMax THEN Len(order) ELSE QueueMax
             queued == SubSeq(order, 1, room)
         IN  /\ queue' = [i \in 1..room |-> JobOf(order[i])]
             /\ rows' = [e \in ExpIds |->
                   IF e \notin Orphaned THEN rows[e]
                   ELSE IF e \in ToSet(queued)
                        THEN [rows[e] EXCEPT !.status = "pending"]
                        ELSE [rows[e] EXCEPT !.status = "failed",
                                             !.key = FALSE]]
  BY DEF Start
<1> DEFINE room   == IF Len(order) < QueueMax THEN Len(order) ELSE QueueMax
           queued == SubSeq(order, 1, room)
<1>2. Orphaned \subseteq ExpIds /\ Cardinality(Orphaned) \in Nat
  <2>1. Orphaned \subseteq ExpIds
    BY DEF Orphaned
  <2> QED
    BY <2>1, PipelineConstants, FS_Subset, FS_CardinalityType
<1>3. /\ order \in Seq(ExpIds)
      /\ \A i \in 1..Len(order) : order[i] \in Orphaned
      /\ \A i, j \in 1..Len(order) : order[i] = order[j] => i = j
  <2>1. /\ order \in [1..Cardinality(Orphaned) -> Orphaned]
        /\ \A i, j \in 1..Cardinality(Orphaned) :
              i # j => order[i] # order[j]
    BY DEF SetToSeqs, IsInjective
  <2> QED
    BY <1>2, <2>1
<1>4. room \in Nat /\ room <= Len(order)
  BY <1>3, PipelineConstants
<1>5. \A i \in 1..room : i \in 1..Len(order) /\ order[i] \in ExpIds
  BY <1>2, <1>3, <1>4
<1>6. /\ DOMAIN queued = 1..room
      /\ \A i \in 1..room : queued[i] = order[i]
  BY <1>3, <1>4, <1>5, SubSeqProperties
<1> HIDE DEF room, queued
<1>7. /\ queue' = [i \in 1..room |-> JobOf(order[i])]
      /\ rows' = [e \in ExpIds |->
            IF e \notin Orphaned THEN rows[e]
            ELSE IF e \in ToSet(queued)
                 THEN [rows[e] EXCEPT !.status = "pending"]
                 ELSE [rows[e] EXCEPT !.status = "failed", !.key = FALSE]]
  BY <1>1 DEF room, queued
<1>8. \A i \in 1..room : queue'[i] = JobOf(order[i]) /\ queue'[i].exp = order[i]
  BY <1>7 DEF JobOf
<1>9. ASSUME NEW i \in 1..room
      PROVE  order[i] \in Orphaned /\ rows'[order[i]].status \in Unfinished
  <2>1. order[i] \in Orphaned /\ order[i] \in ToSet(queued) /\ order[i] \in ExpIds
    BY <1>2, <1>3, <1>5, <1>6 DEF ToSet
  <2>2. rows'[order[i]] = [rows[order[i]] EXCEPT !.status = "pending"]
    BY <1>7, <2>1
  <2> QED
    BY <2>1, <2>2 DEF TypeOK, Rows, Unfinished
<1>10. ASSUME NEW e \in ExpIds
       PROVE  /\ rows'[e].live = rows[e].live /\ rows'[e].data = rows[e].data
              /\ rows'[e].status = "success" => rows[e].status = "success"
  <2>1. rows[e] \in Rows
    BY DEF TypeOK
  <2>2. \/ rows'[e] = rows[e]
        \/ rows'[e] = [rows[e] EXCEPT !.status = "pending"]
        \/ rows'[e] = [rows[e] EXCEPT !.status = "failed", !.key = FALSE]
    BY <1>7
  <2> QED
    BY <2>1, <2>2 DEF Rows
<1>11. DOMAIN queue' = 1..room
  BY <1>7
<1>12. \A i \in DOMAIN queue' :
          \E e \in Orphaned : /\ queue'[i] = JobOf(e)
                             /\ rows'[e].status \in Unfinished
  BY <1>8, <1>9, <1>11
<1>13. \A i, j \in DOMAIN queue' : queue'[i].exp = queue'[j].exp => i = j
  BY <1>3, <1>5, <1>8, <1>11
<1> QED
  BY <1>10, <1>12, <1>13

LEMMA StartSerial ==
    ASSUME SerialInv, Inv', Start
    PROVE  SerialInv'
<1>1. /\ phase = "down" /\ phase' = "up"
      /\ UNCHANGED <<objects, worker, pool, session, accepted>>
  BY DEF Start
<1>2. /\ queue = <<>> /\ worker.pc = "idle" /\ worker'.pc = "idle"
      /\ \A s \in Sessions : session'[s].pc = "idle"
  BY <1>1 DEF SerialInv, Clean
<1>3. /\ \A i \in DOMAIN queue' :
            \E e \in Orphaned : /\ queue'[i] = JobOf(e)
                               /\ rows'[e].status \in Unfinished
      /\ \A i, j \in DOMAIN queue' : queue'[i].exp = queue'[j].exp => i = j
      /\ \A e \in ExpIds : /\ rows'[e].live = rows[e].live
                           /\ rows'[e].data = rows[e].data
      /\ \A e \in ExpIds : rows'[e].status = "success" =>
                           rows[e].status = "success"
  BY StartQueues DEF SerialInv, Inv
<1>4. \A job \in Held' : \E i \in DOMAIN queue' : job = queue'[i]
  BY <1>2 DEF Held
<1>5. ASSUME NEW job \in Held'
      PROVE  JobSound(job)'
  <2>1. PICK e \in Orphaned : job = JobOf(e) /\ rows'[e].status \in Unfinished
    BY <1>3, <1>4
  <2>2. /\ e \in ExpIds /\ job.exp = e /\ job.data = rows[e].data
        /\ rows[e].data \in Nat /\ accepted[e] <= rows[e].data
    BY <2>1 DEF Orphaned, JobOf, SerialInv, Inv, TypeOK, Rows, AcceptedFirst
  <2> QED
    BY <1>1, <1>3, <2>1, <2>2 DEF JobSound, Fresh
<1>6. \A s \in Sessions : RequestSound(s)'
  BY <1>2 DEF RequestSound
<1>7. Apart'
  BY <1>2, <1>3 DEF Apart
<1>8. Clean' /\ Uploaded' /\ OneAtATime'
  BY <1>1, <1>2 DEF SerialInv, Clean, Uploaded, OneAtATime
<1>9. AcceptedFirst' /\ ServedFresh'
  BY <1>1, <1>3 DEF SerialInv, AcceptedFirst, ServedFresh
<1> QED
  BY <1>5, <1>6, <1>7, <1>8, <1>9 DEF SerialInv

LEMMA StutterSerial ==
    ASSUME SerialInv, Inv', UNCHANGED vars
    PROVE  SerialInv'
<1>1. UNCHANGED <<rows, objects, phase, queue, worker, session, accepted>>
  BY DEF vars
<1>2. Held' = Held /\ \A e \in ExpIds : Announcing(e)' = Announcing(e)
  BY <1>1 DEF Held, Announcing
<1>3. \A job \in Held' : JobSound(job)'
  BY <1>1, <1>2, HeldAreJobs DEF SerialInv, JobSound, Fresh
<1>4. \A s \in Sessions : RequestSound(s)'
  BY <1>1, <1>2 DEF SerialInv, RequestSound, Fresh
<1>5. Apart' /\ Clean' /\ Uploaded' /\ OneAtATime' /\ AcceptedFirst' /\ ServedFresh'
  BY <1>1 DEF SerialInv, Apart, Clean, Uploaded, OneAtATime, AcceptedFirst,
              ServedFresh
<1> QED
  BY <1>3, <1>4, <1>5 DEF SerialInv

LEMMA SerialInvariance ==
    ASSUME ~DbFaults
    PROVE  SerialSpec => []SerialInv
<1>1. Init => SerialInv
  BY InitSerial
<1>2. SerialInv /\ [Next /\ OneAtATime']_vars => SerialInv'
  <2> SUFFICES ASSUME SerialInv, [Next /\ OneAtATime']_vars
               PROVE  SerialInv'
    OBVIOUS
  <2>1. Inv'
    BY InvStep DEF SerialInv
  <2>2. CASE UNCHANGED vars
    BY <2>1, <2>2, StutterSerial
  <2>3. ASSUME OneAtATime', NEW s \in Sessions, Request(s) \/ Serve(s)
        PROVE  SerialInv'
    BY <2>1, <2>3, RequestSerial, EnqueueSerial, MarkPendingSerial
       DEF Serve, PendingFault
  <2>4. CASE Worker
    BY <2>1, <2>4, TakeSerial, MarkProcessingSerial, RenderSerial, RecordSerial
       DEF Worker, WorkerFault
  <2> QED
    BY <2>1, <2>2, <2>3, <2>4, EditSerial, StopSerial, StartSerial DEF Next
<1> QED
  BY <1>1, <1>2, PTL DEF SerialSpec

-----------------------------------------------------------------------------
\* An experiment whose reports are requested one at a time never has two jobs.
THEOREM OneJobEach ==
    ASSUME ~DbFaults
    PROVE  SerialSpec => []OneJob
<1>1. SerialInv => OneJob
  <2> SUFFICES ASSUME SerialInv, NEW e \in ExpIds
               PROVE  Cardinality({ i \in DOMAIN queue : queue[i].exp = e })
                         + (IF worker.job.exp = e THEN 1 ELSE 0) <= 1
    BY DEF OneJob
  <2> DEFINE mine == { i \in DOMAIN queue : queue[i].exp = e }
  <2>1. mine = {} \/ \E i \in DOMAIN queue : mine = {i}
    BY DEF SerialInv, Apart
  <2>2. worker.job.exp = e => worker.pc # "idle"
    BY PipelineConstants DEF SerialInv, Clean, NoJob
  <2>3. worker.job.exp = e => mine = {}
    BY <2>2 DEF SerialInv, Apart
  <2>4. Cardinality(mine) = 0 \/ Cardinality(mine) = 1
    BY <2>1, FS_EmptySet, FS_Singleton
  <2>5. mine = {} => Cardinality(mine) = 0
    BY FS_EmptySet
  <2> HIDE DEF mine
  <2>6. Cardinality(mine) + (IF worker.job.exp = e THEN 1 ELSE 0) <= 1
    BY <2>3, <2>4, <2>5
  <2> QED
    BY <2>6 DEF mine
<1> QED
  BY <1>1, SerialInvariance, PTL

\* Nor does a report that succeeded show less than its latest accepted
\* request promised, whatever was edited or restarted in between.
THEOREM ServesFresh ==
    ASSUME ~DbFaults
    PROVE  SerialSpec => []ServedFresh
<1>1. SerialInv => ServedFresh
  BY DEF SerialInv
<1> QED
  BY <1>1, SerialInvariance, PTL
=============================================================================
