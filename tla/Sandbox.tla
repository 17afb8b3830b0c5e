------------------------------ MODULE Sandbox ------------------------------
(***************************************************************************)
(* run_bounded: a call waits for a slot, starts a process for its formula, *)
(* polls for the result, and at the end kills the process and gives the    *)
(* slot back. The process runs on its own: it may finish, be reclaimed at  *)
(* its CPU limit, die without a word or never end. What its function gives *)
(* is handed to the queue's feeder thread, which drops it when it cannot   *)
(* be pickled, and otherwise writes it to the pipe, in parts when it is    *)
(* long. The process may end between two parts.                            *)
(***************************************************************************)
EXTENDS Integers, FiniteSets

CONSTANTS
    Calls,          \* threads of asyncio.to_thread that serve calculations
    MaxConcurrent   \* calc_sandbox_settings.max_concurrent

ASSUME SandboxConstants == MaxConcurrent \in Nat \ {0} /\ IsFiniteSet(Calls)

VARIABLES
    slots,          \* free slots of the semaphore
    pc,             \* the next step of each call
    child,          \* the process of each call
    pipe,           \* how much of the result is in the parent's pipe
    late,           \* whether the wall-clock deadline of the call has passed
    outcome,        \* what the call, or the last one, ends with
    lost            \* history: how many processes could not be started

vars == <<slots, pc, child, pipe, late, outcome, lost>>

Outcomes == {"none", "result", "busy", "cpu_limit", "time_limit",
             "no_result", "not_started"}

Amounts == {"nothing", "part", "all"}

Alive(c) == child[c] \in {"running", "feeding", "leaving"}

Goto(c, step) == pc' = [pc EXCEPT ![c] = step]

End(c, o) == Goto(c, "cleanup") /\ outcome' = [outcome EXCEPT ![c] = o]

-----------------------------------------------------------------------------
Init ==
    /\ slots = MaxConcurrent
    /\ pc = [c \in Calls |-> "idle"]
    /\ child = [c \in Calls |-> "none"]
    /\ pipe = [c \in Calls |-> "nothing"]
    /\ late = [c \in Calls |-> FALSE]
    /\ outcome = [c \in Calls |-> "none"]
    /\ lost = 0

Begin(c) ==
    /\ pc[c] = "idle"
    /\ Goto(c, "acquire")
    /\ outcome' = [outcome EXCEPT ![c] = "none"]
    /\ UNCHANGED <<slots, child, pipe, late, lost>>

\* Faulty variant: the outcome of the wait is not looked at.
AcquireBlindly(c) ==
    /\ pc[c] = "acquire"
    /\ slots' = slots - 1
    /\ Goto(c, "start")
    /\ UNCHANGED <<child, pipe, late, outcome, lost>>

Acquire(c) ==
    /\ pc[c] = "acquire"
    /\ slots > 0
    /\ slots' = slots - 1
    /\ Goto(c, "start")
    /\ UNCHANGED <<child, pipe, late, outcome, lost>>

\* queue_seconds pass without a free slot: 429.
Refuse(c) ==
    /\ pc[c] = "acquire"
    /\ slots = 0
    /\ Goto(c, "idle")
    /\ outcome' = [outcome EXCEPT ![c] = "busy"]
    /\ UNCHANGED <<slots, child, pipe, late, lost>>

\* The queue and the process are made before the try block.
Start(c) ==
    /\ pc[c] = "start"
    /\ child' = [child EXCEPT ![c] = "running"]
    /\ Goto(c, "get")
    /\ UNCHANGED <<slots, pipe, late, outcome, lost>>

StartRaises(c) ==
    /\ pc[c] = "start"
    /\ Goto(c, "idle")
    /\ outcome' = [outcome EXCEPT ![c] = "not_started"]
    /\ lost' = lost + 1
    /\ UNCHANGED <<slots, child, pipe, late>>

-----------------------------------------------------------------------------
(* _collect *)

\* out.get: Empty when nothing comes within the poll interval. The timeout
\* covers only the wait for the first byte.
Get(c) ==
    /\ pc[c] = "get"
    /\ Goto(c, IF pipe[c] = "nothing" THEN "check" ELSE "receive")
    /\ UNCHANGED <<slots, child, pipe, late, outcome, lost>>

\* out.get, when there is something to read: it reads until all has come. As
\* the parent has the write end open, the end of the process is not seen.
Receive(c) ==
    /\ pc[c] = "receive"
    /\ pipe[c] = "all"
    /\ End(c, "result")
    /\ UNCHANGED <<slots, child, pipe, late, lost>>

\* Faulty variant: a process that neither ends nor answers is polled forever.
GivesUpOnDead(c) == ~Alive(c)

GivesUp(c) == ~Alive(c) \/ late[c]

Check(c) ==
    /\ pc[c] = "check"
    /\ Goto(c, IF GivesUp(c) THEN "limit" ELSE "get")
    /\ UNCHANGED <<slots, child, pipe, late, outcome, lost>>

\* _limit_error, after a short join.
Limit(c) ==
    /\ pc[c] = "limit"
    /\ End(c, CASE child[c] = "reclaimed" -> "cpu_limit"
                [] Alive(c)               -> "time_limit"
                [] OTHER                  -> "no_result")
    /\ UNCHANGED <<slots, child, pipe, late, lost>>

\* Faulty variant: the slot is given back only when there is a result.
ReleaseOnResult(c) ==
    slots' = IF outcome[c] = "result" THEN slots + 1 ELSE slots

Release(c) == slots' = slots + 1

\* Faulty variant: the process is left to itself.
LeaveAlone(c) == UNCHANGED child

\* proc.kill, proc.join
Reap(c) == child' = [child EXCEPT ![c] = "none"]

\* The finally block.
Cleanup(c) ==
    /\ pc[c] = "cleanup"
    /\ Reap(c)
    /\ Release(c)
    /\ pipe' = [pipe EXCEPT ![c] = "nothing"]
    /\ late' = [late EXCEPT ![c] = FALSE]
    /\ Goto(c, "idle")
    /\ UNCHANGED <<outcome, lost>>

-----------------------------------------------------------------------------
(* The process, and time *)

ChildTo(c, from, to) ==
    /\ child[c] \in from
    /\ child' = [child EXCEPT ![c] = to]
    /\ UNCHANGED <<slots, pc, late, outcome, lost>>

\* The function has returned or raised, and out.put has handed that to the
\* feeder thread. Nothing is pickled here, so nothing is raised here.
ChildPuts(c) == ChildTo(c, {"running"}, "feeding") /\ UNCHANGED pipe

\* The feeder has written some of it: a header, or what the pipe has room for.
ChildFeedsPart(c) ==
    /\ pipe[c] = "nothing"
    /\ ChildTo(c, {"feeding"}, "feeding")
    /\ pipe' = [pipe EXCEPT ![c] = "part"]

\* The feeder has written all of it, or the rest.
ChildFeeds(c) ==
    /\ ChildTo(c, {"feeding"}, "leaving")
    /\ pipe' = [pipe EXCEPT ![c] = "all"]

\* The feeder cannot pickle it: it writes a traceback to stderr, and no more.
ChildDrops(c) ==
    /\ pipe[c] = "nothing"
    /\ ChildTo(c, {"feeding"}, "leaving")
    /\ UNCHANGED pipe

ChildExits(c) == ChildTo(c, {"leaving"}, "exited") /\ UNCHANGED pipe

\* SIGXCPU, or death for another reason. Pickling and writing take CPU time as
\* well, and leave what has been written in the pipe.
ChildReclaimed(c) ==
    ChildTo(c, {"running", "feeding", "leaving"}, "reclaimed") /\ UNCHANGED pipe

ChildDies(c) == ChildTo(c, {"running", "feeding"}, "dead") /\ UNCHANGED pipe

Deadline(c) ==
    /\ pc[c] \in {"get", "receive", "check"}
    /\ ~late[c]
    /\ late' = [late EXCEPT ![c] = TRUE]
    /\ UNCHANGED <<slots, pc, child, pipe, outcome, lost>>

-----------------------------------------------------------------------------
Proceed(c) ==
    \/ Acquire(c) \/ Refuse(c) \/ Start(c) \/ StartRaises(c)
    \/ Get(c) \/ Receive(c) \/ Check(c) \/ Limit(c) \/ Cleanup(c)

Child(c) ==
    \/ ChildPuts(c) \/ ChildFeedsPart(c) \/ ChildFeeds(c) \/ ChildDrops(c)
    \/ ChildExits(c) \/ ChildReclaimed(c) \/ ChildDies(c)

Next == \E c \in Calls : Begin(c) \/ Proceed(c) \/ Child(c) \/ Deadline(c)

Spec == Init /\ [][Next]_vars

\* The rest of a result that has been written in part.
ChildFeedsRest(c) == pipe[c] = "part" /\ ChildFeeds(c)

\* Threads run and time passes, and a feeder that has begun to write goes on
\* while its process is alive. Nothing is assumed of the formula.
FairSpec ==
    /\ Spec
    /\ \A c \in Calls : /\ WF_vars(Proceed(c))
                         /\ WF_vars(Deadline(c))
                         /\ WF_vars(ChildFeedsRest(c))

-----------------------------------------------------------------------------
TypeOK ==
    /\ slots \in 0..MaxConcurrent
    /\ pc \in [Calls -> {"idle", "acquire", "start", "get", "receive", "check",
                         "limit", "cleanup"}]
    /\ child \in [Calls -> {"none", "running", "feeding", "leaving",
                            "exited", "reclaimed", "dead"}]
    /\ pipe \in [Calls -> Amounts]
    /\ late \in [Calls -> BOOLEAN]
    /\ outcome \in [Calls -> Outcomes]
    /\ lost \in Nat

Working(c) == pc[c] \notin {"idle", "acquire"}

\* "Caps how many formulas may run at once": no more processes are alive than
\* there are slots, also those that nobody waits for any more.
ProcessesBounded ==
    Cardinality({ c \in Calls : Alive(c) }) <= MaxConcurrent

\* Every slot is free, in use, or lost to a process that could not be started:
\* neither a limit nor a death of the process takes one away or gives back two.
SlotsAccounted ==
    slots + Cardinality({ c \in Calls : Working(c) }) + lost = MaxConcurrent

\* "the parent always learns why rather than seeing a bare exit code": a call
\* whose function has returned or raised is not told that there is no result.
ParentLearnsWhy ==
    \A c \in Calls :
        pc[c] = "cleanup" /\ outcome[c] = "no_result" => child[c] # "exited"

\* A result that will never be complete: the process ended while it was being
\* written.
Torn(c) == pipe[c] = "part" /\ ~Alive(c)

\* "a formula that never terminates must not take the service down with it":
\* every call ends, however its process behaves, with one exception: a call
\* whose process ended between two parts of its result may read for ever.
OnlyTornResultsHang ==
    \A c \in Calls :
        (pc[c] # "idle") ~> (pc[c] = "idle" \/ (pc[c] = "receive" /\ Torn(c)))

Collecting(c) == pc[c] \in {"get", "receive", "check"}

\* "Wait for the child's result, noticing promptly if it dies without one":
\* once the process is dead, the call stops waiting for it.
NoticesDeath ==
    \A c \in Calls : (Collecting(c) /\ ~Alive(c)) ~> ~Collecting(c)
=============================================================================
