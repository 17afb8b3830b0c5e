--------------------------- MODULE SandboxProofs ---------------------------
(***************************************************************************)
(* Sandbox keeps count of its slots, for every number of slots and every   *)
(* finite set of calls: a slot is free, in use or lost.                    *)
(***************************************************************************)
EXTENDS Sandbox, FiniteSetTheorems, TLAPS

Workers == { c \in Calls : Working(c) }

\* A process belongs to a call that is past its start.
Owned ==
    \A c \in Calls :
        child[c] # "none" =>
            pc[c] \in {"get", "receive", "check", "limit", "cleanup"}

Inv == TypeOK /\ SlotsAccounted /\ Owned

\* The steps that start no call and end none.
Quiet == Workers' = Workers /\ UNCHANGED <<slots, lost>>

-----------------------------------------------------------------------------
LEMMA WorkersFinite ==
    /\ IsFiniteSet(Workers)
    /\ Cardinality(Workers) \in Nat
  BY SandboxConstants, FS_Subset, FS_CardinalityType DEF Workers

LEMMA Accounted == SlotsAccounted <=> slots + Cardinality(Workers) + lost = MaxConcurrent
  BY DEF SlotsAccounted, Workers

\* One call enters the set of workers, or leaves it.
LEMMA WorkerEnters ==
    ASSUME TypeOK, NEW c \in Calls, c \notin Workers, Workers' = Workers \cup {c}
    PROVE  Cardinality(Workers)' = Cardinality(Workers) + 1
  BY WorkersFinite, FS_AddElement

LEMMA WorkerLeaves ==
    ASSUME TypeOK, NEW c \in Calls, c \in Workers, Workers' = Workers \ {c}
    PROVE  /\ Cardinality(Workers)' = Cardinality(Workers) - 1
           /\ Cardinality(Workers) >= 1
<1>1. Cardinality(Workers)' = Cardinality(Workers) - 1
  BY WorkersFinite, FS_RemoveElement
<1>2. Cardinality(Workers) # 0
  BY WorkersFinite, FS_EmptySet
<1> QED
  BY <1>1, <1>2, WorkersFinite

LEMMA QuietInv ==
    ASSUME SlotsAccounted, Quiet
    PROVE  SlotsAccounted'
  BY DEF SlotsAccounted, Quiet, Workers

\* A change of pc within the same side of the slot.
LEMMA QuietGoto ==
    ASSUME TypeOK, NEW c \in Calls, NEW step, Goto(c, step),
           Working(c) <=> step \notin {"idle", "acquire"}
    PROVE  Workers' = Workers
  BY DEF TypeOK, Goto, Workers, Working

LEMMA InitInv == Init => Inv
<1> SUFFICES ASSUME Init PROVE Inv
  OBVIOUS
<1>1. TypeOK
  BY SandboxConstants DEF Init, TypeOK, Outcomes, Amounts
<1>2. Workers = {}
  BY DEF Init, Workers, Working
<1>3. SlotsAccounted
  BY <1>2, FS_EmptySet, SandboxConstants DEF Init, SlotsAccounted, Workers
<1> QED
  BY <1>1, <1>3 DEF Init, Inv, Owned

-----------------------------------------------------------------------------
\* A call takes a slot, or is refused.
LEMMA EntryInv ==
    ASSUME Inv, NEW c \in Calls, Begin(c) \/ Acquire(c) \/ Refuse(c)
    PROVE  Inv'
<1> USE DEF Inv
<1>1. TypeOK' /\ Owned'
  <2>1. CASE Begin(c) \/ Refuse(c)
    BY <2>1 DEF TypeOK, Owned, Outcomes, Begin, Refuse, Goto
  <2>2. CASE Acquire(c)
    <3>1. slots - 1 \in 0..MaxConcurrent
      BY <2>2, SandboxConstants DEF Acquire, TypeOK
    <3> QED
      BY <2>2, <3>1 DEF TypeOK, Owned, Acquire, Goto
  <2> QED
    BY <2>1, <2>2
<1>2. CASE Begin(c) \/ Refuse(c)
  <2>1. Workers' = Workers
    BY <1>2 DEF Begin, Refuse, Goto, Workers, Working, TypeOK
  <2> QED
    BY <1>1, <1>2, <2>1, QuietInv DEF Quiet, Begin, Refuse
<1>3. CASE Acquire(c)
  <2>1. c \notin Workers /\ Workers' = Workers \cup {c}
    BY <1>3 DEF Acquire, Goto, Workers, Working, TypeOK
  <2>2. Cardinality(Workers)' = Cardinality(Workers) + 1
    BY <2>1, WorkerEnters
  <2>3. slots' = slots - 1 /\ lost' = lost
    BY <1>3 DEF Acquire
  <2>4. SlotsAccounted'
    BY <2>2, <2>3, WorkersFinite, SandboxConstants
       DEF TypeOK, SlotsAccounted, Workers
  <2> QED
    BY <1>1, <2>4
<1> QED
  BY <1>2, <1>3

\* The process is made, or cannot be made, which takes the slot away.
LEMMA StartInv ==
    ASSUME Inv, NEW c \in Calls, Start(c) \/ StartRaises(c)
    PROVE  Inv'
<1> USE DEF Inv
<1>1. TypeOK' /\ Owned'
  <2>1. CASE Start(c)
    BY <2>1 DEF TypeOK, Owned, Start, Goto
  <2>2. CASE StartRaises(c)
    <3>1. child[c] = "none"
      BY <2>2 DEF StartRaises, Owned
    <3> QED
      BY <2>2, <3>1 DEF TypeOK, Owned, Outcomes, StartRaises, Goto
  <2> QED
    BY <2>1, <2>2
<1>2. CASE Start(c)
  <2>1. Workers' = Workers
    BY <1>2 DEF Start, Goto, Workers, Working, TypeOK
  <2> QED
    BY <1>1, <1>2, <2>1, QuietInv DEF Quiet, Start
<1>3. CASE StartRaises(c)
  <2>1. c \in Workers /\ Workers' = Workers \ {c}
    BY <1>3 DEF StartRaises, Goto, Workers, Working, TypeOK
  <2>2. Cardinality(Workers)' = Cardinality(Workers) - 1
    BY <2>1, WorkerLeaves
  <2>3. slots' = slots /\ lost' = lost + 1
    BY <1>3 DEF StartRaises
  <2>4. SlotsAccounted'
    BY <2>2, <2>3, WorkersFinite, SandboxConstants
       DEF TypeOK, SlotsAccounted, Workers
  <2> QED
    BY <1>1, <2>4
<1> QED
  BY <1>2, <1>3

\* Polling decides what the call ends with and leaves the slots alone.
LEMMA PollInv ==
    ASSUME Inv, NEW c \in Calls,
           Get(c) \/ Receive(c) \/ Check(c) \/ Limit(c) \/ Deadline(c)
    PROVE  Inv'
<1> USE DEF Inv
<1>1. TypeOK' /\ Owned'
  BY DEF TypeOK, Owned, Outcomes, Get, Receive, Check, Limit, Deadline, End, Goto
<1>2. Workers' = Workers
  BY DEF Get, Receive, Check, Limit, Deadline, End, Goto, Workers, Working, TypeOK
<1> QED
  BY <1>1, <1>2, QuietInv DEF Quiet, Get, Receive, Check, Limit, Deadline

\* The finally block gives back the one slot that the call holds.
LEMMA CleanupInv ==
    ASSUME Inv, NEW c \in Calls, Cleanup(c)
    PROVE  Inv'
<1> USE DEF Inv
<1>1. c \in Workers /\ Workers' = Workers \ {c}
  BY DEF Cleanup, Goto, Workers, Working, TypeOK
<1>2. /\ Cardinality(Workers)' = Cardinality(Workers) - 1
      /\ Cardinality(Workers) >= 1
  BY <1>1, WorkerLeaves
<1>3. slots' = slots + 1 /\ lost' = lost
  BY DEF Cleanup, Release
<1>4. SlotsAccounted'
  BY <1>2, <1>3, WorkersFinite, SandboxConstants
     DEF TypeOK, SlotsAccounted, Workers
<1>5. slots + 1 <= MaxConcurrent
  BY <1>2, WorkersFinite, SandboxConstants DEF TypeOK, SlotsAccounted, Workers
<1>6. TypeOK' /\ Owned'
  BY <1>3, <1>5, SandboxConstants
     DEF TypeOK, Amounts, Owned, Cleanup, Reap, Goto
<1> QED
  BY <1>4, <1>6

\* The process has no access to the slots.
LEMMA ChildInv ==
    ASSUME Inv, NEW c \in Calls, Child(c)
    PROVE  Inv'
<1> USE DEF Inv
<1>1. /\ child[c] # "none"
      /\ \E to \in {"feeding", "leaving", "exited", "reclaimed", "dead"} :
            child' = [child EXCEPT ![c] = to]
      /\ UNCHANGED <<slots, pc, late, outcome, lost>>
      /\ pipe' = pipe \/ \E m \in Amounts : pipe' = [pipe EXCEPT ![c] = m]
  BY DEF Amounts, Child, ChildPuts, ChildFeedsPart, ChildFeeds, ChildDrops, ChildExits, ChildReclaimed,
         ChildDies, ChildTo
<1>2. TypeOK' /\ Owned'
  BY <1>1 DEF TypeOK, Owned
<1>3. Workers' = Workers
  BY <1>1 DEF Workers, Working
<1> QED
  BY <1>1, <1>2, <1>3, QuietInv DEF Quiet

LEMMA Invariance == Spec => []Inv
<1>1. Inv /\ [Next]_vars => Inv'
  <2> SUFFICES ASSUME Inv, [Next]_vars PROVE Inv'
    OBVIOUS
  <2>1. CASE UNCHANGED vars
    <3>1. Workers' = Workers /\ TypeOK' /\ Owned'
      BY <2>1 DEF vars, Workers, Working, Inv, TypeOK, Owned
    <3> QED
      BY <2>1, <3>1, QuietInv DEF Inv, Quiet, vars
  <2> QED
    BY <2>1, EntryInv, StartInv, PollInv, CleanupInv, ChildInv
       DEF Next, Proceed
<1> QED
  BY InitInv, <1>1, PTL DEF Spec

-----------------------------------------------------------------------------
\* Slots, calls and processes keep their types: no slot is given back twice.
THEOREM TypeCorrect == Spec => []TypeOK
<1>1. Inv => TypeOK
  BY DEF Inv
<1> QED
  BY Invariance, <1>1, PTL

\* A slot is lost only with a process that could not be started.
THEOREM SlotsAreAccounted == Spec => []SlotsAccounted
<1>1. Inv => SlotsAccounted
  BY DEF Inv
<1> QED
  BY Invariance, <1>1, PTL

\* However many calls there are, no more processes are alive than there are
\* slots: each belongs to a call that holds one.
THEOREM ProcessesAreBounded == Spec => []ProcessesBounded
<1>1. Inv => ProcessesBounded
  <2> SUFFICES ASSUME Inv PROVE ProcessesBounded
    OBVIOUS
  <2> DEFINE Living == { c \in Calls : Alive(c) }
  <2>1. Living \subseteq Workers
    BY DEF Inv, Owned, Alive, Workers, Working
  <2>2. Cardinality(Living) <= Cardinality(Workers)
    BY <2>1, WorkersFinite, FS_Subset
  <2>3. Cardinality(Living) \in Nat
    BY <2>1, WorkersFinite, FS_Subset, FS_CardinalityType
  <2>4. Cardinality(Workers) <= MaxConcurrent
    BY WorkersFinite, SandboxConstants
       DEF Inv, TypeOK, SlotsAccounted, Workers
  <2> HIDE DEF Living
  <2>5. Cardinality(Living) <= MaxConcurrent
    BY <2>2, <2>3, <2>4, WorkersFinite, SandboxConstants
  <2> QED
    BY <2>5 DEF ProcessesBounded, Living
<1> QED
  BY Invariance, <1>1, PTL
=============================================================================
