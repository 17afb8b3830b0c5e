----------------------------- MODULE DryRunProofs -----------------------------
(***************************************************************************)
(* What the author's dry run says about the formulas and about the         *)
(* calculation that follows. Both runs evaluate the same list, and as long *)
(* as nothing fails each step of it leaves one possible namespace.         *)
(***************************************************************************)
EXTENDS CalculationProofs

-----------------------------------------------------------------------------
(* The rounds of _resolve_order *)

ReadyAfter(F, list) ==
    { n \in DOMAIN F \ ToSet(list) : Dependencies(F)[n] \subseteq ToSet(list) }

NextOrder(F, list) == list \o Sorted(ReadyAfter(F, list))

\* R holds the lists after each of k rounds.
Rounds(F, list, k, R) ==
    /\ R[0] = <<>> /\ R[k] = list
    /\ \A i \in 1..k : ReadyAfter(F, R[i - 1]) # {} /\ R[i] = NextOrder(F, R[i - 1])

ByRounds(F, list) == \E k \in Nat : \E R : Rounds(F, list, k, R)

LEMMA NoRound ==
    ASSUME NEW F
    PROVE  ByRounds(F, <<>>)
<1> DEFINE R == [ i \in {0} |-> <<>> ]
<1>1. Rounds(F, <<>>, 0, R)
  BY DEF Rounds
<1> QED
  BY <1>1 DEF ByRounds

LEMMA OneRound ==
    ASSUME NEW F, NEW list, ByRounds(F, list), ReadyAfter(F, list) # {}
    PROVE  ByRounds(F, NextOrder(F, list))
<1>1. PICK k \in Nat : \E R : Rounds(F, list, k, R)
  BY DEF ByRounds
<1>2. PICK R : Rounds(F, list, k, R)
  BY <1>1
<1>3. PICK more : more = NextOrder(F, list)
  OBVIOUS
<1> DEFINE T == [ i \in 0..(k + 1) |-> IF i = k + 1 THEN more ELSE R[i] ]
<1>4. /\ T[0] = <<>> /\ T[k + 1] = more
      /\ \A i \in 0..k : T[i] = R[i]
  BY <1>2 DEF Rounds
<1>5. ASSUME NEW i \in 1..(k + 1)
      PROVE  ReadyAfter(F, T[i - 1]) # {} /\ T[i] = NextOrder(F, T[i - 1])
  <2>1. i - 1 \in 0..k /\ T[i - 1] = R[i - 1]
    BY <1>4
  <2>2. CASE i = k + 1
    BY <1>2, <1>3, <1>4, <2>1, <2>2 DEF Rounds
  <2>3. CASE i # k + 1
    <3>1. i \in 1..k /\ T[i] = R[i]
      BY <1>4, <2>3
    <3> QED
      BY <1>2, <2>1, <3>1 DEF Rounds
  <2> QED
    BY <2>2, <2>3
<1> HIDE DEF T
<1>6. Rounds(F, more, k + 1, T)
  BY <1>4, <1>5 DEF Rounds
<1> QED
  BY <1>3, <1>6 DEF ByRounds

\* There is one list in which the rounds can end.
LEMMA SameOrder ==
    ASSUME NEW F, NEW a, ByRounds(F, a), ReadyAfter(F, a) = {},
           NEW b, ByRounds(F, b), ReadyAfter(F, b) = {}
    PROVE  a = b
<1>1. PICK k \in Nat : \E R : Rounds(F, a, k, R)
  BY DEF ByRounds
<1>2. PICK R : Rounds(F, a, k, R)
  BY <1>1
<1>3. PICK m \in Nat : \E T : Rounds(F, b, m, T)
  BY DEF ByRounds
<1>4. PICK T : Rounds(F, b, m, T)
  BY <1>3
<1>5. /\ R[0] = <<>> /\ T[0] = <<>> /\ R[k] = a /\ T[m] = b
      /\ \A i \in 1..k : ReadyAfter(F, R[i - 1]) # {} /\ R[i] = NextOrder(F, R[i - 1])
      /\ \A i \in 1..m : ReadyAfter(F, T[i - 1]) # {} /\ T[i] = NextOrder(F, T[i - 1])
  BY <1>2, <1>4 DEF Rounds
<1> DEFINE Bad == { i \in Nat : i <= k /\ i <= m /\ R[i] # T[i] }
<1>6. Bad = {}
  <2>1. SUFFICES ASSUME Bad # {} PROVE FALSE
    OBVIOUS
  <2>2. PICK i \in Bad : \A j \in Bad : i <= j
    <3>1. Bad \in SUBSET Nat
      OBVIOUS
    <3> HIDE DEF Bad
    <3> QED
      BY <2>1, <3>1, LeastElement
  <2>3. i # 0 /\ i \in 1..k /\ i \in 1..m /\ i - 1 \in Nat
    BY <1>5
  <2>4. i - 1 \notin Bad
    BY <2>2, <2>3
  <2>5. R[i - 1] = T[i - 1]
    BY <2>3, <2>4
  <2> QED
    BY <1>5, <2>3, <2>5
<1>7. \A i \in Nat : i <= k /\ i <= m => R[i] = T[i]
  BY <1>6
<1>8. CASE k < m
  <2>1. k + 1 \in 1..m /\ (k + 1) - 1 = k
    BY <1>8
  <2>2. ReadyAfter(F, T[k]) # {}
    BY <1>5, <2>1
  <2> QED
    BY <1>5, <1>7, <1>8, <2>2
<1>9. CASE m < k
  <2>1. m + 1 \in 1..k /\ (m + 1) - 1 = m
    BY <1>9
  <2>2. ReadyAfter(F, R[m]) # {}
    BY <1>5, <2>1
  <2> QED
    BY <1>5, <1>7, <1>9, <2>2
<1>10. CASE k = m
  BY <1>5, <1>7, <1>10
<1> QED
  BY <1>8, <1>9, <1>10

-----------------------------------------------------------------------------
(* The evaluation of a list, as long as nothing fails *)

\* The namespace that f sees, and the one it leaves when it is formula n.
Sees(f, sp) == IF f.block THEN [sp EXCEPT ![Result] = "unbound"] ELSE sp

Leaves(n, f, sp) ==
    [ [ m \in Names |-> IF m \in f.binds THEN "local" ELSE Sees(f, sp)[m] ]
        EXCEPT ![n] = "result" ]

Finds(f, sp) == [ m \in f.reads |-> Sees(f, sp)[m] ]

\* given: the ids that have a value.
Stumbles(f, sp, given) ==
    \/ \E m \in f.reads : Sees(f, sp)[m] = "unbound"
    \/ f.looks \ given # {}
    \/ f.gives \in Errors

\* The first k formulas of the list take the namespace through S.
Goes(F, given, list, k, S, found) ==
    /\ S[0] = Fresh
    /\ \A i \in 1..k : /\ ~Stumbles(F[list[i]], S[i - 1], given)
                       /\ S[i] = Leaves(list[i], F[list[i]], S[i - 1])
                       /\ found[list[i]] = Finds(F[list[i]], S[i - 1])

GoesTo(F, given, list, k, sp, found) ==
    \E S : Goes(F, given, list, k, S, found) /\ S[k] = sp

\* The formula in place j is the first that fails.
FailsAt(F, given, list, j) ==
    \E sp, found : /\ GoesTo(F, given, list, j - 1, sp, found)
                   /\ Stumbles(F[list[j]], sp, given)

Fails(F, given, list) == \E j \in 1..Len(list) : FailsAt(F, given, list, j)

LEMMA SameCourse ==
    ASSUME NEW F, NEW given, NEW list, NEW k \in Nat, NEW m \in Nat,
           NEW S, NEW f, Goes(F, given, list, k, S, f),
           NEW T, NEW g, Goes(F, given, list, m, T, g)
    PROVE  \A i \in Nat : i <= k /\ i <= m => S[i] = T[i]
<1> DEFINE Bad == { i \in Nat : i <= k /\ i <= m /\ S[i] # T[i] }
<1>1. /\ S[0] = T[0]
      /\ \A i \in 1..k : S[i] = Leaves(list[i], F[list[i]], S[i - 1])
      /\ \A i \in 1..m : T[i] = Leaves(list[i], F[list[i]], T[i - 1])
  BY DEF Goes
<1>2. Bad = {}
  <2>1. SUFFICES ASSUME Bad # {} PROVE FALSE
    OBVIOUS
  <2>2. PICK i \in Bad : \A j \in Bad : i <= j
    <3>1. Bad \in SUBSET Nat
      OBVIOUS
    <3> HIDE DEF Bad
    <3> QED
      BY <2>1, <3>1, LeastElement
  <2>3. i # 0 /\ i \in 1..k /\ i \in 1..m /\ i - 1 \in Nat
    BY <1>1
  <2>4. i - 1 \notin Bad
    BY <2>2, <2>3
  <2>5. S[i - 1] = T[i - 1]
    BY <2>3, <2>4
  <2> QED
    BY <1>1, <2>3, <2>5
<1> QED
  BY <1>2

\* What goes well to the end did not fail anywhere on the way.
LEMMA GoesOrFails ==
    ASSUME NEW F, NEW given, NEW list, NEW k \in Nat, NEW sp, NEW found,
           GoesTo(F, given, list, k, sp, found), NEW j \in 1..k
    PROVE  ~FailsAt(F, given, list, j)
<1>1. SUFFICES ASSUME NEW tp, NEW g, GoesTo(F, given, list, j - 1, tp, g),
                      Stumbles(F[list[j]], tp, given)
               PROVE  FALSE
  BY DEF FailsAt
<1>2. PICK S : Goes(F, given, list, k, S, found) /\ S[k] = sp
  BY DEF GoesTo
<1>3. PICK m : m = j - 1
  OBVIOUS
<1>4. PICK T : Goes(F, given, list, m, T, g) /\ T[m] = tp
  BY <1>1, <1>3 DEF GoesTo
<1>5. S[m] = T[m]
  <2>1. m \in Nat /\ m <= k /\ m <= m
    BY <1>3
  <2> QED
    BY <1>2, <1>4, <2>1, SameCourse
<1>6. ~Stumbles(F[list[j]], S[j - 1], given)
  BY <1>2 DEF Goes
<1> QED
  BY <1>1, <1>3, <1>4, <1>5, <1>6

\* Both find the same behind the names.
LEMMA SameFindings ==
    ASSUME NEW F, NEW given, NEW list, NEW k \in Nat,
           NEW sp, NEW f, GoesTo(F, given, list, k, sp, f),
           NEW tp, NEW g, GoesTo(F, given, list, k, tp, g)
    PROVE  \A i \in 1..k : f[list[i]] = g[list[i]]
<1>1. PICK S : Goes(F, given, list, k, S, f)
  BY DEF GoesTo
<1>2. PICK T : Goes(F, given, list, k, T, g)
  BY DEF GoesTo
<1>3. \A i \in Nat : i <= k => S[i] = T[i]
  BY <1>1, <1>2, SameCourse
<1>4. ASSUME NEW i \in 1..k
      PROVE  f[list[i]] = g[list[i]]
  <2>1. i - 1 \in Nat /\ i - 1 <= k /\ S[i - 1] = T[i - 1]
    BY <1>3
  <2> QED
    BY <1>1, <1>2, <2>1 DEF Goes
<1> QED
  BY <1>4

\* One formula more.
LEMMA GoesOn ==
    ASSUME NEW F, NEW given, NEW list, NEW k \in Nat, NEW sp, NEW found,
           GoesTo(F, given, list, k, sp, found),
           NEW n, n = list[k + 1], ~Stumbles(F[n], sp, given),
           \A i \in 1..k : list[i] # n,
           NEW more, more[n] = Finds(F[n], sp), \A i \in 1..k : more[list[i]] = found[list[i]]
    PROVE  GoesTo(F, given, list, k + 1, Leaves(n, F[n], sp), more)
<1>1. PICK S : Goes(F, given, list, k, S, found) /\ S[k] = sp
  BY DEF GoesTo
<1>2. PICK tp : tp = Leaves(n, F[n], sp)
  OBVIOUS
<1> DEFINE T == [ i \in 0..(k + 1) |-> IF i = k + 1 THEN tp ELSE S[i] ]
<1>3. T[0] = S[0] /\ T[k + 1] = tp /\ \A i \in 0..k : T[i] = S[i]
  OBVIOUS
<1>4. ASSUME NEW i \in 1..(k + 1)
      PROVE  /\ ~Stumbles(F[list[i]], T[i - 1], given)
             /\ T[i] = Leaves(list[i], F[list[i]], T[i - 1])
             /\ more[list[i]] = Finds(F[list[i]], T[i - 1])
  <2>1. i - 1 \in 0..k /\ T[i - 1] = S[i - 1]
    BY <1>3
  <2>2. CASE i = k + 1
    BY <1>1, <1>2, <1>3, <2>1, <2>2
  <2>3. CASE i # k + 1
    <3>1. i \in 1..k /\ T[i] = S[i]
      BY <1>3, <2>3
    <3> QED
      BY <1>1, <2>1, <3>1 DEF Goes
  <2> QED
    BY <2>2, <2>3
<1> HIDE DEF T
<1>5. Goes(F, given, list, k + 1, T, more)
  BY <1>1, <1>3, <1>4 DEF Goes
<1> QED
  BY <1>2, <1>3, <1>5 DEF GoesTo

-----------------------------------------------------------------------------
(* The invariant *)

\* The ids that have a value in either run: once collected, collected for good.
Given == DOMAIN ExpectedValues(draft.answers, forms)

Good(f) == OutcomeOf("ok", ValueOf(f), {})

Clean == \A n \in DOMAIN reply.outcomes : reply.outcomes[n].status = "ok"

RoundsSound ==
    /\ ByRounds(formulas, order)
    /\ run = "calculate" =>
          ByRounds(formulas, reply.order) /\ ReadyAfter(formulas, reply.order) = {}
    /\ run = "calculate" /\ phase = "evaluate" => Unresolved = {}

\* Nothing has failed, and the formulas took the namespace to where it is.
WellSoFar ==
    /\ GoesTo(formulas, Given, order, at - 1, space, saw)
    /\ outcomes = [ n \in DOMAIN outcomes |-> Good(formulas[n]) ]
    /\ saw = [ n \in DOMAIN outcomes |-> saw[n] ]

\* A formula of the list fails, and the dry run has noticed.
Failing ==
    /\ run = "dry_run"
    /\ Fails(formulas, Given, order)
    /\ \E n \in DOMAIN outcomes : outcomes[n].status # "ok"

CourseSound == phase = "evaluate" => WellSoFar \/ Failing

\* A clean reply has seen all formulas do well; for any other there is a reason
\* that the calculation will meet as well.
ReplySound ==
    run = "calculate" =>
        /\ Clean =>
              /\ ToSet(reply.order) = DOMAIN formulas
              /\ reply.outcomes = [ n \in DOMAIN formulas |-> Good(formulas[n]) ]
              /\ reply.saw = [ n \in DOMAIN formulas |-> reply.saw[n] ]
              /\ \E sp : GoesTo(formulas, Given, reply.order, Len(reply.order), sp, reply.saw)
        /\ ~Clean =>
              \/ ToSet(reply.order) # DOMAIN formulas
              \/ Fails(formulas, Given, reply.order)

NothingStored ==
    phase \in {"collect", "order", "evaluate"} =>
        stored = [ n \in DOMAIN formulas |-> "nothing" ]

\* OutcomesExplained, on the way: as far as the formulas are evaluated.
ErrorsSound ==
    run = "dry_run" /\ phase = "evaluate" =>
        \A n \in DOMAIN outcomes :
            /\ outcomes[n].status = "skipped" <=> Behind[n] \cap Decided("error") # {}
            /\ outcomes[n].status = "error" =>
                  /\ outcomes[n].detail # "circular"
                  /\ outcomes[n].detail = "missing_value" /\ Literal(formulas[n]) =>
                        outcomes[n].names \subseteq formulas[n].keys \ DOMAIN values

SpaceSound ==
    KeepToThemselves /\ phase = "evaluate" =>
        \A m \in Decided("ok") : space[m] = "result"

DryRunInv ==
    /\ Inv
    /\ RoundsSound /\ CourseSound /\ ReplySound /\ NothingStored
    /\ ErrorsSound /\ SpaceSound
    /\ OutcomesExplained /\ ReadsResults /\ DryRunPredicts

-----------------------------------------------------------------------------
(* What the steps have in common *)

LEMMA SameFormulas ==
    ASSUME formulas' = formulas
    PROVE  Behind' = Behind /\ Cyclic' = Cyclic /\ KeepToThemselves' = KeepToThemselves
<1>1. Behind' = Behind
  BY DEF Behind
<1>2. Cyclic' = Cyclic
  BY <1>1 DEF Cyclic
<1>3. KeepToThemselves' = KeepToThemselves
  BY DEF KeepToThemselves
<1> QED
  BY <1>1, <1>2, <1>3

LEMMA SameGiven ==
    ASSUME DraftSound, draft' = draft
    PROVE  Given' = Given
  BY SameDraft DEF Given

\* A step of the second run that leaves the reply alone, or of the first.
LEMMA SameReply ==
    ASSUME ReplySound, OutcomesExplained,
           formulas' = formulas, Given' = Given, reply' = reply, run' = run
    PROVE  ReplySound' /\ OutcomesExplained'
<1>1. Clean' = Clean
  BY DEF Clean
<1>2. ReplySound'
  BY <1>1 DEF ReplySound
<1>3. OutcomesExplained'
  BY SameFormulas DEF OutcomesExplained, Given
<1> QED
  BY <1>2, <1>3

LEMMA ReadyIs ==
    ASSUME Inv, phase \in {"order", "evaluate"}
    PROVE  /\ Ready = ReadyAfter(formulas, order)
           /\ Unresolved = DOMAIN formulas \ ToSet(order)
           /\ ToSet(order) \subseteq DOMAIN formulas
           /\ phase = "evaluate" => ReadyAfter(formulas, order) = {}
           /\ DOMAIN values = Given
<1>1. /\ IsOrder(formulas, order)
      /\ remaining = [ n \in DOMAIN formulas \ ToSet(order) |-> Dependencies(formulas)[n] ]
      /\ phase = "evaluate" => Ready = {}
  BY DEF Inv, OrderSound
<1>2. Ready = ReadyAfter(formulas, order) /\ Unresolved = DOMAIN formulas \ ToSet(order)
  BY <1>1 DEF Ready, ReadyAfter, Unresolved
<1>3. ToSet(order) \subseteq DOMAIN formulas
  BY <1>1 DEF IsOrder, ToSet
<1>4. values = ExpectedValues(draft.answers, forms)
  <2>1. left = {} /\ FilledFrom(values, draft.answers, forms, Slots(forms) \ left)
    BY DEF Inv, ValuesSound
  <2>2. Slots(forms) \ left = Slots(forms)
    BY <2>1
  <2> QED
    BY <2>1, <2>2, FilledAll
<1> QED
  BY <1>1, <1>2, <1>3, <1>4 DEF Given

LEMMA TurnIs ==
    ASSUME Inv, NEW n, Turn(n)
    PROVE  /\ phase = "evaluate" /\ n \in DOMAIN formulas /\ n = order[at]
           /\ at \in 1..Len(order) /\ at \in Nat /\ Len(order) \in Nat
           /\ DOMAIN outcomes = { order[j] : j \in 1..(at - 1) }
           /\ n \notin DOMAIN outcomes
           /\ Behind[n] \subseteq DOMAIN outcomes
           /\ Dependencies(formulas)[n] \subseteq DOMAIN outcomes
           /\ \A m \in DOMAIN outcomes : m \in DOMAIN formulas /\ n \notin Behind[m]
<1>1. /\ IsOrder(formulas, order) /\ phase = "evaluate" /\ n = order[at]
      /\ at \in 1..Len(order) + 1 /\ at <= Len(order)
      /\ DOMAIN outcomes = { order[j] : j \in 1..(at - 1) }
  BY DEF Inv, TypeOK, OrderSound, OutcomesSound, Turn
<1>2. /\ DOMAIN order = 1..Len(order) /\ Len(order) \in Nat
      /\ \A i, j \in DOMAIN order : i # j => order[i] # order[j]
  BY <1>1 DEF IsOrder
<1>3. at \in DOMAIN order /\ at \in Nat /\ at \in 1..Len(order)
  BY <1>1, <1>2
<1>4. /\ n \in DOMAIN formulas /\ Behind[n] \subseteq DOMAIN outcomes
      /\ n \notin DOMAIN outcomes
  BY <1>1, <1>3, BehindEarlier
<1>5. Dependencies(formulas)[n] \subseteq DOMAIN outcomes
  BY <1>4, BehindLeast
<1>6. ASSUME NEW m \in DOMAIN outcomes
      PROVE  m \in DOMAIN formulas /\ n \notin Behind[m]
  <2>1. PICK j \in 1..(at - 1) : m = order[j]
    BY <1>1
  <2>2. j \in DOMAIN order /\ j \in Nat /\ j < at
    BY <1>2, <1>3
  <2>3. m \in DOMAIN formulas /\ Behind[m] \subseteq { order[i] : i \in 1..(j - 1) }
    BY <1>1, <2>1, <2>2, BehindEarlier
  <2>4. \A i \in 1..(j - 1) : i \in DOMAIN order /\ i # at
    BY <1>2, <1>3, <2>2
  <2>5. \A i \in 1..(j - 1) : order[i] # n
    BY <1>1, <1>2, <1>3, <2>4
  <2> QED
    BY <2>3, <2>5
<1> QED
  BY <1>1, <1>2, <1>3, <1>4, <1>5, <1>6

\* A formula is blocked when there is an error somewhere behind it.
LEMMA BlockedIs ==
    ASSUME Inv, ErrorsSound, NEW n, Turn(n), run = "dry_run"
    PROVE  Blocked(n) <=> Behind[n] \cap Decided("error") # {}
<1>1. /\ n \in DOMAIN formulas /\ n \notin DOMAIN outcomes
      /\ Dependencies(formulas)[n] \subseteq DOMAIN outcomes
      /\ \A m \in DOMAIN outcomes : m \in DOMAIN formulas
      /\ \A m \in DOMAIN outcomes :
            outcomes[m].status = "skipped" <=> Behind[m] \cap Decided("error") # {}
  BY TurnIs DEF ErrorsSound
<1>2. Failed \subseteq DOMAIN outcomes
  BY DEF Failed, Decided
<1>3. BlockedBy(formulas[n]) = Dependencies(formulas)[n] \cap Failed
  BY <1>1, <1>2 DEF BlockedBy, Dependencies
<1>4. Behind[n] = Dependencies(formulas)[n]
                    \cup UNION { Behind[m] : m \in Dependencies(formulas)[n] }
  BY <1>1, BehindStep
<1>5. ASSUME NEW m \in Dependencies(formulas)[n] \cap Failed
      PROVE  Behind[n] \cap Decided("error") # {}
  <2>1. CASE m \in Decided("error")
    BY <1>4, <2>1
  <2>2. CASE m \in Decided("skipped")
    <3>1. Behind[m] \cap Decided("error") # {}
      BY <1>1, <2>2 DEF Decided
    <3> QED
      BY <1>4, <3>1
  <2> QED
    BY <2>1, <2>2 DEF Failed
<1>6. ASSUME NEW e \in Behind[n] \cap Decided("error")
      PROVE  Dependencies(formulas)[n] \cap Failed # {}
  <2>1. CASE e \in Dependencies(formulas)[n]
    BY <2>1 DEF Failed
  <2>2. CASE e \notin Dependencies(formulas)[n]
    <3>1. PICK m \in Dependencies(formulas)[n] : e \in Behind[m]
      BY <1>4, <2>2
    <3>2. m \in Decided("skipped")
      BY <1>1, <3>1 DEF Decided
    <3> QED
      BY <3>2 DEF Failed
  <2> QED
    BY <2>1, <2>2
<1> QED
  BY <1>3, <1>5, <1>6 DEF Blocked

LEMMA StumblesIs ==
    ASSUME Inv, NEW n, Turn(n)
    PROVE  ErrorsOf(formulas[n]) = {} <=> ~Stumbles(formulas[n], space, Given)
<1> DEFINE f == formulas[n]
<1>1. Sees(f, space) = Before(f) /\ DOMAIN values = Given
  BY ReadyIs, TurnIs DEF Sees, Before
<1>2. ASSUME Stumbles(f, space, Given)
      PROVE  ErrorsOf(f) # {}
  <2>1. CASE \E m \in f.reads : Sees(f, space)[m] = "unbound"
    <3>1. PICK m \in Unbound(f) : TRUE
      BY <1>1, <2>1 DEF Unbound
    <3>2. [kind |-> "undefined_name", names |-> {m}] \in ErrorsOf(f)
      BY DEF ErrorsOf
    <3> QED
      BY <3>2
  <2>2. CASE f.looks \ Given # {}
    <3>1. PICK id \in Missing(f) : TRUE
      BY <1>1, <2>2 DEF Missing
    <3>2. [kind |-> "missing_value", names |-> {id}] \in ErrorsOf(f)
      BY DEF ErrorsOf
    <3> QED
      BY <3>2
  <2>3. CASE f.gives \in Errors
    BY <2>3, OwnError
  <2> QED
    BY <1>2, <2>1, <2>2, <2>3 DEF Stumbles
<1>3. ASSUME NEW e \in ErrorsOf(f)
      PROVE  Stumbles(f, space, Given)
  BY <1>1, ErrorIs DEF Stumbles, Unbound, Missing
<1> QED
  BY <1>2, <1>3

-----------------------------------------------------------------------------
(* The steps *)

LEMMA InitDryRun == Init => DryRunInv
<1> SUFFICES ASSUME Init PROVE DryRunInv
  OBVIOUS
<1>1. Inv
  BY InitInv
<1>2. RoundsSound
  BY NoRound DEF Init, RoundsSound
<1>3. CourseSound /\ ErrorsSound /\ SpaceSound
  BY DEF Init, CourseSound, ErrorsSound, SpaceSound
<1>4. ReplySound /\ OutcomesExplained /\ DryRunPredicts
  BY DEF Init, ReplySound, OutcomesExplained, DryRunPredicts
<1>5. NothingStored
  BY DEF Init, NothingStored, formulas
<1>6. ReadsResults
  <2>1. DOMAIN saw = {}
    BY DEF Init, Empty
  <2> QED
    BY <2>1 DEF ReadsResults
<1> QED
  BY <1>1, <1>2, <1>3, <1>4, <1>5, <1>6 DEF DryRunInv

\* A step before the evaluation.
LEMMA BeforeDryRun ==
    ASSUME DryRunInv, draft' = draft, run' = run, reply' = reply, stored' = stored,
           phase \in {"collect", "order"}, phase' \in {"collect", "order"},
           RoundsSound', saw' = saw \/ saw' = Empty, Inv'
    PROVE  DryRunInv'
<1>1. formulas' = formulas /\ Given' = Given
  BY SameDraft, SameGiven DEF DryRunInv, Inv
<1>2. ReplySound' /\ OutcomesExplained'
  BY <1>1, SameReply DEF DryRunInv
<1>3. NothingStored'
  BY <1>1 DEF DryRunInv, NothingStored
<1>4. CourseSound' /\ ErrorsSound' /\ SpaceSound' /\ DryRunPredicts'
  BY DEF CourseSound, ErrorsSound, SpaceSound, DryRunPredicts
<1>5. ReadsResults'
  <2>1. CASE saw' = saw
    BY <1>1, <2>1, SameFormulas DEF DryRunInv, ReadsResults
  <2>2. CASE saw' = Empty
    <3>1. DOMAIN saw' = {}
      BY <2>2 DEF Empty
    <3> QED
      BY <3>1 DEF ReadsResults
  <2> QED
    BY <2>1, <2>2
<1> QED
  BY <1>2, <1>3, <1>4, <1>5 DEF DryRunInv

LEMMA CollectDryRun ==
    ASSUME DryRunInv, NEW s, Collect(s), Inv'
    PROVE  DryRunInv'
<1>1. /\ draft' = draft /\ run' = run /\ reply' = reply /\ stored' = stored /\ saw' = saw
      /\ phase = "collect" /\ phase' = "collect" /\ order' = order
  BY DEF Collect, ordering, replies
<1>2. formulas' = formulas
  BY <1>1, SameDraft DEF DryRunInv, Inv
<1>3. RoundsSound'
  BY <1>1, <1>2 DEF DryRunInv, RoundsSound
<1> QED
  BY <1>1, <1>3, BeforeDryRun

LEMMA CollectedDryRun ==
    ASSUME DryRunInv, Collected, Inv'
    PROVE  DryRunInv'
<1>1. /\ draft' = draft /\ run' = run /\ reply' = reply /\ stored' = stored /\ saw' = Empty
      /\ phase = "collect" /\ phase' = "order" /\ order' = <<>>
  BY DEF Collected, inputs, replies
<1>2. formulas' = formulas
  BY <1>1, SameDraft DEF DryRunInv, Inv
<1>3. RoundsSound'
  BY <1>1, <1>2, NoRound DEF DryRunInv, RoundsSound
<1> QED
  BY <1>1, <1>3, BeforeDryRun

LEMMA RoundDryRun ==
    ASSUME DryRunInv, Round, Inv'
    PROVE  DryRunInv'
<1>1. /\ draft' = draft /\ run' = run /\ reply' = reply /\ stored' = stored /\ saw' = saw
      /\ phase = "order" /\ phase' = "order"
  BY DEF Round, inputs, replies
<1>2. formulas' = formulas
  BY <1>1, SameDraft DEF DryRunInv, Inv
<1>3. order' = NextOrder(formulas, order) /\ ReadyAfter(formulas, order) # {}
  <2>1. order' = order \o Sorted(Ready) /\ Ready # {}
    BY DEF Round, LoopEnds
  <2>2. Ready = ReadyAfter(formulas, order)
    BY <1>1, ReadyIs DEF DryRunInv
  <2> QED
    BY <2>1, <2>2 DEF NextOrder
<1>4. ByRounds(formulas, order')
  BY <1>3, OneRound DEF DryRunInv, RoundsSound
<1>5. RoundsSound'
  BY <1>1, <1>2, <1>4 DEF DryRunInv, RoundsSound
<1> QED
  BY <1>1, <1>5, BeforeDryRun

LEMMA OrderEndsDryRun ==
    ASSUME DryRunInv, OrderEnds, Inv'
    PROVE  DryRunInv'
<1>1. /\ draft' = draft /\ run' = run /\ reply' = reply /\ stored' = stored /\ saw' = saw
      /\ outcomes' = outcomes /\ order' = order /\ remaining' = remaining
      /\ space' = space /\ at' = at /\ context' = context
      /\ phase = "order" /\ phase' = (IF Refuses THEN "report" ELSE "evaluate")
      /\ Ready = {}
  BY DEF OrderEnds, LoopEnds, inputs, ordering, replies
<1>2. formulas' = formulas /\ Given' = Given
  BY <1>1, SameDraft, SameGiven DEF DryRunInv, Inv
<1>3. /\ outcomes = Empty /\ saw = Empty /\ at = 1 /\ space = Fresh /\ DOMAIN Empty = {}
      /\ stored = [ n \in DOMAIN formulas |-> "nothing" ]
  BY <1>1 DEF DryRunInv, Inv, OutcomesSound, NothingStored, Empty
<1>4. /\ ReadyAfter(formulas, order) = {}
      /\ Unresolved = DOMAIN formulas \ ToSet(order) /\ ToSet(order) \subseteq DOMAIN formulas
  BY <1>1, ReadyIs DEF DryRunInv
<1>5. ReplySound' /\ OutcomesExplained'
  BY <1>1, <1>2, SameReply DEF DryRunInv
<1>6. RoundsSound'
  <2>1. Unresolved' = Unresolved
    BY <1>1 DEF Unresolved
  <2> QED
    BY <1>1, <1>2, <2>1 DEF DryRunInv, RoundsSound, Refuses
<1>7. CourseSound'
  <2>1. GoesTo(formulas, Given, order, 0, Fresh, Empty)
    <3> DEFINE S == [ i \in {0} |-> Fresh ]
    <3>1. Goes(formulas, Given, order, 0, S, Empty)
      BY DEF Goes
    <3>2. S[0] = Fresh
      OBVIOUS
    <3> QED
      BY <3>1, <3>2 DEF GoesTo
  <2>2. GoesTo(formulas', Given', order', at' - 1, space', saw')
    BY <1>1, <1>2, <1>3, <2>1
  <2>3. /\ Empty = [ n \in DOMAIN Empty |-> Good(formulas[n]) ]
        /\ Empty = [ n \in DOMAIN Empty |-> Empty[n] ]
    BY DEF Empty
  <2> QED
    BY <1>1, <1>2, <1>3, <2>2, <2>3 DEF CourseSound, WellSoFar
<1>8. ErrorsSound' /\ SpaceSound'
  BY <1>1, <1>3 DEF ErrorsSound, SpaceSound, Decided
<1>9. NothingStored'
  BY <1>1, <1>2, <1>3 DEF NothingStored
<1>10. ReadsResults'
  BY <1>1, <1>3 DEF ReadsResults
<1>11. DryRunPredicts'
  <2> SUFFICES ASSUME Refuses PROVE DryRunPredicts'
    BY <1>1 DEF DryRunPredicts
  <2>1. run = "calculate" /\ ToSet(order) # DOMAIN formulas /\ DOMAIN formulas # {}
    BY <1>4 DEF Refuses
  <2>2. reply.order = order
    BY <1>4, <2>1, SameOrder DEF DryRunInv, RoundsSound
  <2>3. ~Clean
    BY <2>1, <2>2 DEF DryRunInv, ReplySound
  <2>4. Decided("ok")' = {}
    BY <1>1, <1>3 DEF Decided
  <2> QED
    BY <1>1, <1>2, <1>3, <2>1, <2>3, <2>4 DEF DryRunPredicts, Clean
<1> QED
  BY <1>5, <1>6, <1>7, <1>8, <1>9, <1>10, <1>11 DEF DryRunInv

LEMMA ReportDryRun ==
    ASSUME DryRunInv, Report, Inv'
    PROVE  DryRunInv'
<1>1. /\ draft' = draft /\ run' = run /\ reply' = reply /\ stored' = stored /\ saw' = saw
      /\ outcomes' = outcomes /\ order' = order /\ phase = "report" /\ phase' = "done"
  BY DEF Report, inputs, ordering
<1>2. formulas' = formulas /\ Given' = Given
  BY <1>1, SameDraft, SameGiven DEF DryRunInv, Inv
<1>3. ReplySound' /\ OutcomesExplained'
  BY <1>1, <1>2, SameReply DEF DryRunInv
<1>4. RoundsSound'
  BY <1>1, <1>2 DEF DryRunInv, RoundsSound
<1>5. CourseSound' /\ ErrorsSound' /\ SpaceSound' /\ NothingStored'
  BY <1>1 DEF CourseSound, ErrorsSound, SpaceSound, NothingStored
<1>6. ReadsResults'
  BY <1>1, <1>2, SameFormulas DEF DryRunInv, ReadsResults
<1>7. DryRunPredicts'
  BY <1>1, <1>2 DEF DryRunInv, DryRunPredicts, Decided
<1> QED
  BY <1>3, <1>4, <1>5, <1>6, <1>7 DEF DryRunInv

\* The outcomes after one formula more.
LEMMA OneOutcome ==
    ASSUME Inv, NEW n, NEW outcome, Turn(n), Settle(n, outcome)
    PROVE  /\ draft' = draft /\ run' = run /\ reply' = reply /\ stored' = stored
           /\ order' = order /\ remaining' = remaining /\ values' = values
           /\ at' = at + 1 /\ at \in Nat
           /\ formulas' = formulas /\ Given' = Given
           /\ outcomes' = [ m \in DOMAIN outcomes \cup {n} |->
                              IF m = n THEN outcome ELSE outcomes[m] ]
           /\ n \notin DOMAIN outcomes
           /\ Decided("ok")' = Decided("ok") \cup (IF outcome.status = "ok" THEN {n} ELSE {})
           /\ Decided("error")' =
                 Decided("error") \cup (IF outcome.status = "error" THEN {n} ELSE {})
<1>1. /\ draft' = draft /\ run' = run /\ reply' = reply /\ stored' = stored
      /\ order' = order /\ remaining' = remaining /\ values' = values
      /\ at' = at + 1
      /\ outcomes' = Update(outcomes, [ k \in {n} |-> outcome ])
  BY DEF Settle, inputs, ordering, replies
<1>2. formulas' = formulas /\ Given' = Given
  BY <1>1, SameDraft, SameGiven DEF Inv
<1>3. outcomes' = [ m \in DOMAIN outcomes \cup {n} |-> IF m = n THEN outcome ELSE outcomes[m] ]
  BY <1>1 DEF Update
<1>4. n \notin DOMAIN outcomes /\ at \in Nat
  BY TurnIs
<1>5. /\ Decided("ok")' = Decided("ok") \cup (IF outcome.status = "ok" THEN {n} ELSE {})
      /\ Decided("error")' =
            Decided("error") \cup (IF outcome.status = "error" THEN {n} ELSE {})
  BY <1>3, <1>4 DEF Decided
<1> QED
  BY <1>1, <1>2, <1>3, <1>4, <1>5

\* What is the same for all three ways to settle a formula.
LEMMA SettleDryRun ==
    ASSUME DryRunInv, NEW n, NEW outcome, Turn(n), Settle(n, outcome)
    PROVE  ReplySound' /\ OutcomesExplained'
           /\ (phase' = "evaluate" => RoundsSound' /\ NothingStored' /\ DryRunPredicts')
<1>1. /\ run' = run /\ reply' = reply /\ stored' = stored /\ order' = order
      /\ remaining' = remaining /\ formulas' = formulas /\ Given' = Given
      /\ phase = "evaluate"
  BY OneOutcome, TurnIs DEF DryRunInv
<1>2. ReplySound' /\ OutcomesExplained'
  BY <1>1, SameReply DEF DryRunInv
<1>3. ASSUME phase' = "evaluate"
      PROVE  RoundsSound' /\ NothingStored' /\ DryRunPredicts'
  <2>1. Unresolved' = Unresolved
    BY <1>1 DEF Unresolved
  <2>2. RoundsSound'
    BY <1>1, <2>1 DEF DryRunInv, RoundsSound
  <2>3. NothingStored'
    BY <1>1 DEF DryRunInv, NothingStored
  <2>4. DryRunPredicts'
    BY <1>3 DEF DryRunPredicts
  <2> QED
    BY <2>2, <2>3, <2>4
<1> QED
  BY <1>2, <1>3

\* An outcome of the dry run that is explained.
LEMMA SettleErrors ==
    ASSUME Inv, ErrorsSound, NEW n, NEW outcome, Turn(n), Settle(n, outcome),
           run = "dry_run" =>
              /\ outcome.status = "skipped" <=> Behind[n] \cap Decided("error") # {}
              /\ outcome.status = "error" =>
                    /\ outcome.detail # "circular"
                    /\ outcome.detail = "missing_value" /\ Literal(formulas[n]) =>
                          outcome.names \subseteq formulas[n].keys \ DOMAIN values
    PROVE  ErrorsSound'
<1>1. SUFFICES ASSUME run' = "dry_run", NEW m \in DOMAIN outcomes'
               PROVE  /\ outcomes'[m].status = "skipped" <=> Behind'[m] \cap Decided("error")' # {}
                      /\ outcomes'[m].status = "error" =>
                            /\ outcomes'[m].detail # "circular"
                            /\ outcomes'[m].detail = "missing_value"
                                  /\ Literal(formulas'[m]) =>
                                  outcomes'[m].names \subseteq formulas'[m].keys \ DOMAIN values'
  BY DEF ErrorsSound
<1>2. /\ run = "dry_run" /\ values' = values /\ formulas' = formulas /\ Behind' = Behind
      /\ outcomes' = [ k \in DOMAIN outcomes \cup {n} |->
                         IF k = n THEN outcome ELSE outcomes[k] ]
      /\ n \notin DOMAIN outcomes
      /\ Decided("error")' =
            Decided("error") \cup (IF outcome.status = "error" THEN {n} ELSE {})
  BY <1>1, OneOutcome, SameFormulas
<1>3. /\ phase = "evaluate" /\ n \in DOMAIN formulas /\ Behind[n] \subseteq DOMAIN outcomes
      /\ \A k \in DOMAIN outcomes : n \notin Behind[k]
  BY TurnIs
<1>4. CASE m = n
  <2>1. n \notin Behind[n]
    BY <1>2, <1>3
  <2>2. Behind[n] \cap Decided("error")' = Behind[n] \cap Decided("error")
    BY <1>2, <2>1
  <2> QED
    BY <1>1, <1>2, <1>4, <2>2
<1>5. CASE m # n
  <2>1. m \in DOMAIN outcomes /\ n \notin Behind[m] /\ outcomes'[m] = outcomes[m]
    BY <1>1, <1>2, <1>3, <1>5
  <2>2. Behind[m] \cap Decided("error")' = Behind[m] \cap Decided("error")
    BY <1>2, <2>1
  <2> QED
    BY <1>2, <1>3, <2>1, <2>2 DEF ErrorsSound
<1> QED
  BY <1>4, <1>5

LEMMA SkipDryRun ==
    ASSUME DryRunInv, NEW n, Skip(n), Inv'
    PROVE  DryRunInv'
<1>1. /\ Turn(n) /\ Blocked(n) /\ run = "dry_run" /\ phase = "evaluate"
      /\ phase' = phase /\ space' = space /\ saw' = saw
      /\ Settle(n, OutcomeOf("skipped", "dependency_failed", BlockedBy(formulas[n])))
  BY DEF Skip, Blocked, Turn
<1>2. PICK o : o = OutcomeOf("skipped", "dependency_failed", BlockedBy(formulas[n]))
  OBVIOUS
<1>3. o.status = "skipped" /\ Settle(n, o)
  BY <1>1, <1>2 DEF OutcomeOf
<1>4. /\ run' = run /\ order' = order /\ formulas' = formulas /\ Given' = Given
      /\ outcomes' = [ m \in DOMAIN outcomes \cup {n} |-> IF m = n THEN o ELSE outcomes[m] ]
      /\ n \notin DOMAIN outcomes
      /\ Decided("ok")' = Decided("ok") \cup (IF o.status = "ok" THEN {n} ELSE {})
  BY <1>1, <1>3, OneOutcome DEF DryRunInv
<1>5. ReplySound' /\ OutcomesExplained' /\ RoundsSound' /\ NothingStored' /\ DryRunPredicts'
  BY <1>1, <1>3, SettleDryRun
<1>6. ErrorsSound'
  <2>1. Behind[n] \cap Decided("error") # {}
    BY <1>1, BlockedIs DEF DryRunInv
  <2> QED
    BY <1>1, <1>3, <2>1, SettleErrors DEF DryRunInv
<1>7. SpaceSound'
  <2>1. Decided("ok")' = Decided("ok")
    BY <1>3, <1>4
  <2> QED
    BY <1>1, <1>4, <2>1, SameFormulas DEF DryRunInv, SpaceSound
<1>8. ReadsResults'
  BY <1>1, <1>4, SameFormulas DEF DryRunInv, ReadsResults
<1>9. CourseSound'
  <2>1. Failing
    <3>1. SUFFICES ASSUME WellSoFar PROVE FALSE
      BY <1>1 DEF DryRunInv, CourseSound
    <3>2. \A m \in DOMAIN outcomes : outcomes[m].status = "ok"
      BY <3>1 DEF WellSoFar, Good, OutcomeOf
    <3>3. Failed = {}
      BY <3>2 DEF Failed, Decided
    <3> QED
      BY <1>1, <3>3 DEF Blocked, BlockedBy
  <2>2. Failing'
    BY <1>4, <2>1 DEF Failing
  <2> QED
    BY <2>2 DEF CourseSound
<1> QED
  BY <1>5, <1>6, <1>7, <1>8, <1>9 DEF DryRunInv

\* As long as formulas keep to themselves, what a formula can be evaluated
\* with are results.
LEMMA FindsResults ==
    ASSUME DryRunInv, KeepToThemselves, NEW n, Turn(n), ~Blocked(n),
           NEW m \in formulas[n].reads, m \in DOMAIN formulas, m # n
    PROVE  Found(formulas[n])[m] = "result"
<1>1. /\ phase = "evaluate" /\ n \in DOMAIN formulas
      /\ Dependencies(formulas)[n] \subseteq DOMAIN outcomes
  BY TurnIs DEF DryRunInv
<1>2. m \in formulas[n].names /\ m \in DOMAIN outcomes
  BY <1>1, FormulaTypes DEF Dependencies, DryRunInv
<1>3. m \in Decided("ok")
  <2>1. CASE run = "dry_run"
    <3>1. m \notin Failed
      BY <1>2, <2>1 DEF Blocked, BlockedBy
    <3>2. outcomes[m].status \in Statuses
      BY <1>2 DEF DryRunInv, Inv, TypeOK, IsOutcomes
    <3> QED
      BY <1>2, <3>1, <3>2 DEF Failed, Decided, Statuses
  <2>2. CASE run = "calculate"
    BY <1>1, <1>2, <2>2 DEF DryRunInv, Inv, OutcomesSound, IsResult, Decided
  <2> QED
    BY <2>1, <2>2 DEF DryRunInv, Inv, TypeOK
<1>4. space[m] = "result"
  BY <1>1, <1>3 DEF DryRunInv, SpaceSound
<1>5. formulas[n].block => Result # m
  BY <1>1 DEF KeepToThemselves
<1>6. Before(formulas[n])[m] = space[m]
  BY <1>5 DEF Before
<1> QED
  BY <1>4, <1>6 DEF Found

\* The assignments of n leave the results of others alone.
LEMMA KeepsResults ==
    ASSUME Inv, KeepToThemselves, NEW n, Turn(n), NEW bound \in SUBSET formulas[n].binds,
           NEW m \in DOMAIN outcomes
    PROVE  m \in Names /\ After(formulas[n], bound)[m] = space[m]
<1>1. /\ n \in DOMAIN formulas /\ n \notin DOMAIN outcomes /\ m \in DOMAIN formulas
  BY TurnIs
<1>2. m \in Names /\ m # n
  BY <1>1 DEF Inv, DraftSound
<1>3. m \notin bound /\ (formulas[n].block => Result # m)
  BY <1>1, <1>2 DEF KeepToThemselves
<1> QED
  BY <1>2, <1>3 DEF After, Before

\* What is found is added to what was found before.
LEMMA FoundMore ==
    ASSUME DryRunInv, NEW n, Turn(n), ~Blocked(n), formulas' = formulas,
           saw' = Update(saw, [ k \in {n} |-> Found(formulas[n]) ])
    PROVE  ReadsResults'
<1>1. SUFFICES ASSUME KeepToThemselves, NEW k \in DOMAIN saw', NEW m \in DOMAIN saw'[k] \ {k},
                      m \in DOMAIN formulas
               PROVE  saw'[k][m] = "result"
  BY SameFormulas DEF ReadsResults
<1>2. saw' = [ j \in DOMAIN saw \cup {n} |-> IF j = n THEN Found(formulas[n]) ELSE saw[j] ]
  BY DEF Update
<1>3. CASE k = n
  <2>1. saw'[k] = Found(formulas[n]) /\ DOMAIN Found(formulas[n]) = formulas[n].reads
    BY <1>2, <1>3 DEF Found
  <2> QED
    BY <1>1, <1>3, <2>1, FindsResults
<1>4. CASE k # n
  <2>1. k \in DOMAIN saw /\ saw'[k] = saw[k]
    BY <1>1, <1>2, <1>4
  <2> QED
    BY <1>1, <2>1 DEF DryRunInv, ReadsResults
<1> QED
  BY <1>3, <1>4

LEMMA SucceedDryRun ==
    ASSUME DryRunInv, NEW n, Succeed(n), Inv'
    PROVE  DryRunInv'
<1>1. /\ Turn(n) /\ ~Blocked(n) /\ phase = "evaluate" /\ phase' = phase
      /\ ErrorsOf(formulas[n]) = {}
      /\ space' = [After(formulas[n], formulas[n].binds) EXCEPT ![n] = "result"]
      /\ saw' = Update(saw, [ k \in {n} |-> Found(formulas[n]) ])
      /\ Settle(n, OutcomeOf("ok", ValueOf(formulas[n]), {}))
  BY DEF Succeed, Turn, Exported
<1>2. PICK o : o = OutcomeOf("ok", ValueOf(formulas[n]), {})
  OBVIOUS
<1>3. o.status = "ok" /\ Settle(n, o) /\ o = Good(formulas[n])
  BY <1>1, <1>2 DEF OutcomeOf, Good
<1>4. /\ run' = run /\ order' = order /\ formulas' = formulas /\ Given' = Given
      /\ at' = at + 1 /\ at \in Nat
      /\ outcomes' = [ m \in DOMAIN outcomes \cup {n} |-> IF m = n THEN o ELSE outcomes[m] ]
      /\ n \notin DOMAIN outcomes
      /\ Decided("ok")' = Decided("ok") \cup (IF o.status = "ok" THEN {n} ELSE {})
  BY <1>1, <1>3, OneOutcome DEF DryRunInv
<1>5. ReplySound' /\ OutcomesExplained' /\ RoundsSound' /\ NothingStored' /\ DryRunPredicts'
  BY <1>1, <1>3, SettleDryRun
<1>6. ErrorsSound'
  <2>1. run = "dry_run" => Behind[n] \cap Decided("error") = {}
    BY <1>1, BlockedIs DEF DryRunInv
  <2> QED
    BY <1>1, <1>3, <2>1, SettleErrors DEF DryRunInv
<1>7. n \in DOMAIN formulas /\ n \in Names /\ formulas[n].binds \in SUBSET formulas[n].binds
  BY <1>1, FormulaTypes DEF DryRunInv
<1>8. SpaceSound'
  <2>1. SUFFICES ASSUME KeepToThemselves, NEW m \in Decided("ok")'
                 PROVE  space'[m] = "result"
    BY <1>4, SameFormulas DEF SpaceSound
  <2>2. DOMAIN After(formulas[n], formulas[n].binds) = Names
    BY DEF After
  <2>3. CASE m = n
    BY <1>1, <1>7, <2>2, <2>3
  <2>4. CASE m # n
    <3>1. m \in Decided("ok") /\ m \in DOMAIN outcomes
      BY <1>4, <2>1, <2>4 DEF Decided
    <3>2. space[m] = "result"
      BY <1>1, <2>1, <3>1 DEF DryRunInv, SpaceSound
    <3>3. m \in Names /\ After(formulas[n], formulas[n].binds)[m] = space[m]
      BY <1>1, <1>7, <2>1, <3>1, KeepsResults DEF DryRunInv
    <3> QED
      BY <1>1, <2>2, <2>4, <3>2, <3>3
  <2> QED
    BY <2>3, <2>4
<1>9. ReadsResults'
  BY <1>1, <1>4, FoundMore
<1>10. CASE WellSoFar
  <2>1. ~Stumbles(formulas[n], space, Given)
    BY <1>1, StumblesIs DEF DryRunInv
  <2>2. /\ GoesTo(formulas, Given, order, at - 1, space, saw)
        /\ outcomes = [ m \in DOMAIN outcomes |-> Good(formulas[m]) ]
        /\ saw = [ m \in DOMAIN outcomes |-> saw[m] ]
    BY <1>10 DEF WellSoFar
  <2>3. saw' = [ m \in DOMAIN outcomes \cup {n} |->
                   IF m = n THEN Found(formulas[n]) ELSE saw[m] ]
    <3>1. saw' = [ m \in DOMAIN saw \cup {n} |-> IF m = n THEN Found(formulas[n]) ELSE saw[m] ]
      BY <1>1 DEF Update
    <3>2. DOMAIN saw = DOMAIN outcomes
      BY <2>2
    <3> QED
      BY <3>1, <3>2
  <2>4. space' = Leaves(n, formulas[n], space) /\ Found(formulas[n]) = Finds(formulas[n], space)
    BY <1>1 DEF Leaves, Finds, Found, After, Before, Sees
  <2>5. /\ n = order[at] /\ at \in 1..Len(order)
        /\ \A i \in 1..(at - 1) : order[i] \in DOMAIN outcomes
    BY <1>1, TurnIs DEF DryRunInv
  <2>6. GoesTo(formulas, Given, order, at, space', saw')
    <3>1. PICK k : k = at - 1
      OBVIOUS
    <3>2. k \in Nat /\ k + 1 = at /\ n = order[k + 1]
      BY <1>4, <2>5, <3>1
    <3>3. PICK found : found = saw
      OBVIOUS
    <3>4. PICK more : more = saw'
      OBVIOUS
    <3>5. /\ more[n] = Finds(formulas[n], space)
          /\ \A i \in 1..k : order[i] # n /\ more[order[i]] = found[order[i]]
      BY <1>4, <2>3, <2>4, <2>5, <3>1, <3>3, <3>4
    <3>6. GoesTo(formulas, Given, order, k, space, found)
      BY <2>2, <3>1, <3>3
    <3>7. GoesTo(formulas, Given, order, k + 1, Leaves(n, formulas[n], space), more)
      BY <2>1, <3>2, <3>5, <3>6, GoesOn
    <3> QED
      BY <2>4, <3>2, <3>4, <3>7
  <2>7. outcomes' = [ m \in DOMAIN outcomes' |-> Good(formulas[m]) ]
    BY <1>3, <1>4, <2>2
  <2>8. saw' = [ m \in DOMAIN outcomes' |-> saw'[m] ]
    BY <1>4, <2>3
  <2>9. at' - 1 = at
    BY <1>4
  <2> QED
    BY <1>4, <1>5, <1>6, <1>8, <1>9, <2>6, <2>7, <2>8, <2>9
       DEF DryRunInv, CourseSound, WellSoFar
<1>11. CASE Failing
  <2>1. PICK m \in DOMAIN outcomes : outcomes[m].status # "ok"
    BY <1>11 DEF Failing
  <2>2. m \in DOMAIN outcomes' /\ outcomes'[m].status # "ok"
    BY <1>4, <2>1
  <2>3. Failing'
    BY <1>4, <1>11, <2>2 DEF Failing
  <2> QED
    BY <1>5, <1>6, <1>8, <1>9, <2>3 DEF DryRunInv, CourseSound
<1> QED
  BY <1>1, <1>10, <1>11 DEF DryRunInv, CourseSound

\* The first failure is one that the other run meets in the same place.
LEMMA FailsNow ==
    ASSUME DryRunInv, NEW n, Turn(n), WellSoFar, ErrorsOf(formulas[n]) # {}
    PROVE  at \in 1..Len(order) /\ FailsAt(formulas, Given, order, at)
<1>1. n = order[at] /\ at \in 1..Len(order)
  BY TurnIs DEF DryRunInv
<1>2. Stumbles(formulas[order[at]], space, Given)
  BY <1>1, StumblesIs DEF DryRunInv
<1>3. GoesTo(formulas, Given, order, at - 1, space, saw)
  BY DEF WellSoFar
<1> QED
  BY <1>1, <1>2, <1>3 DEF FailsAt

LEMMA FailDryRun ==
    ASSUME DryRunInv, NEW n, Fail(n), Inv'
    PROVE  DryRunInv'
<1>1. PICK e \in ErrorsOf(formulas[n]) :
         /\ Settle(n, OutcomeOf("error", e.kind, e.names))
         /\ \/ \E bound \in SUBSET formulas[n].binds : space' = After(formulas[n], bound)
            \/ e.kind = "other" /\ UNCHANGED space
  BY DEF Fail
<1>2. /\ Turn(n) /\ ~Blocked(n) /\ phase = "evaluate"
      /\ phase' = (IF run = "calculate" THEN "report" ELSE phase)
      /\ saw' = Update(saw, [ k \in {n} |-> Found(formulas[n]) ])
  BY DEF Fail, Turn
<1>3. PICK o : o = OutcomeOf("error", e.kind, e.names)
  OBVIOUS
<1>4. o.status = "error" /\ o.detail = e.kind /\ o.names = e.names /\ Settle(n, o)
  BY <1>1, <1>3 DEF OutcomeOf
<1>5. /\ run' = run /\ order' = order /\ formulas' = formulas /\ Given' = Given
      /\ reply' = reply /\ stored' = stored /\ remaining' = remaining
      /\ outcomes' = [ m \in DOMAIN outcomes \cup {n} |-> IF m = n THEN o ELSE outcomes[m] ]
      /\ n \notin DOMAIN outcomes
      /\ Decided("ok")' = Decided("ok") \cup (IF o.status = "ok" THEN {n} ELSE {})
  BY <1>2, <1>4, OneOutcome DEF DryRunInv
<1>6. /\ ReplySound' /\ OutcomesExplained'
      /\ phase' = "evaluate" => RoundsSound' /\ NothingStored' /\ DryRunPredicts'
  BY <1>2, <1>4, SettleDryRun
<1>7. ErrorsSound'
  <2>1. run = "dry_run" => Behind[n] \cap Decided("error") = {}
    BY <1>2, BlockedIs DEF DryRunInv
  <2>2. o.detail # "circular"
    BY <1>4, ErrorIs DEF Errors
  <2>3. o.detail = "missing_value" /\ Literal(formulas[n])
           => o.names \subseteq formulas[n].keys \ DOMAIN values
    <3>1. SUFFICES ASSUME e.kind = "missing_value", Literal(formulas[n])
                   PROVE  e.names \subseteq Missing(formulas[n])
      BY <1>4 DEF Missing, Literal
    <3>2. \E id \in Missing(formulas[n]) : e.names = {id}
      BY <3>1, ErrorIs DEF Literal
    <3> QED
      BY <3>2
  <2> QED
    BY <1>2, <1>4, <2>1, <2>2, <2>3, SettleErrors DEF DryRunInv
<1>8. SpaceSound'
  <2>1. SUFFICES ASSUME KeepToThemselves, NEW m \in Decided("ok")'
                 PROVE  space'[m] = "result"
    BY <1>5, SameFormulas DEF SpaceSound
  <2>2. m \in Decided("ok") /\ m \in DOMAIN outcomes
    BY <1>4, <1>5, <2>1 DEF Decided
  <2>3. space[m] = "result"
    BY <1>2, <2>1, <2>2 DEF DryRunInv, SpaceSound
  <2>4. ASSUME NEW bound \in SUBSET formulas[n].binds, space' = After(formulas[n], bound)
        PROVE  space'[m] = "result"
    BY <1>2, <2>1, <2>2, <2>3, <2>4, KeepsResults DEF DryRunInv
  <2> QED
    BY <1>1, <2>3, <2>4
<1>9. ReadsResults'
  BY <1>2, <1>5, FoundMore
<1>10. CASE run = "dry_run"
  <2>1. n \in DOMAIN outcomes' /\ outcomes'[n].status # "ok"
    BY <1>4, <1>5
  <2>2. Fails(formulas, Given, order)
    <3>1. CASE WellSoFar
      BY <1>1, <1>2, <3>1, FailsNow DEF Fails
    <3>2. CASE Failing
      BY <3>2 DEF Failing
    <3> QED
      BY <1>2, <3>1, <3>2 DEF DryRunInv, CourseSound
  <2>3. Failing'
    BY <1>5, <1>10, <2>1, <2>2 DEF Failing
  <2> QED
    BY <1>2, <1>6, <1>7, <1>8, <1>9, <1>10, <2>3 DEF DryRunInv, CourseSound
<1>11. CASE run = "calculate"
  <2>1. WellSoFar
    BY <1>2, <1>11 DEF DryRunInv, CourseSound, Failing
  <2>2. at \in 1..Len(order) /\ FailsAt(formulas, Given, order, at)
    BY <1>1, <1>2, <2>1, FailsNow
  <2>3. reply.order = order
    <3>1. ReadyAfter(formulas, order) = {}
      BY <1>2, ReadyIs DEF DryRunInv
    <3> QED
      BY <1>11, <3>1, SameOrder DEF DryRunInv, RoundsSound
  <2>4. ~Clean
    <3>1. SUFFICES ASSUME Clean PROVE FALSE
      OBVIOUS
    <3>2. PICK sp : GoesTo(formulas, Given, order, Len(order), sp, reply.saw)
      BY <1>11, <2>3, <3>1 DEF DryRunInv, ReplySound
    <3>3. Len(order) \in Nat
      BY <1>2, TurnIs DEF DryRunInv
    <3>4. PICK found : found = reply.saw
      OBVIOUS
    <3>5. GoesTo(formulas, Given, order, Len(order), sp, found)
      BY <3>2, <3>4
    <3> QED
      BY <2>2, <3>3, <3>5, GoesOrFails
  <2>5. n \in DOMAIN formulas /\ n \notin Decided("ok")'
    <3>1. n \in DOMAIN formulas
      BY <1>2, TurnIs DEF DryRunInv
    <3> QED
      BY <1>4, <1>5, <3>1 DEF Decided
  <2>6. stored = [ m \in DOMAIN formulas |-> "nothing" ]
    BY <1>2 DEF DryRunInv, NothingStored
  <2>7. DryRunPredicts'
    BY <1>5, <2>4, <2>5, <2>6 DEF DryRunPredicts, Clean
  <2>8. RoundsSound' /\ NothingStored' /\ CourseSound'
    BY <1>2, <1>5, <1>11 DEF DryRunInv, RoundsSound, NothingStored, CourseSound
  <2> QED
    BY <1>6, <1>7, <1>8, <1>9, <2>7, <2>8 DEF DryRunInv
<1> QED
  BY <1>10, <1>11 DEF DryRunInv, Inv, TypeOK

\* All formulas of the order have an outcome.
LEMMA AllDecided ==
    ASSUME Inv, phase = "evaluate", at > Len(order)
    PROVE  at - 1 = Len(order) /\ Len(order) \in Nat /\ DOMAIN outcomes = ToSet(order)
<1>1. /\ at \in 1..Len(order) + 1 /\ IsOrder(formulas, order)
      /\ DOMAIN outcomes = { order[j] : j \in 1..(at - 1) }
  BY DEF Inv, TypeOK, OrderSound, OutcomesSound
<1>2. Len(order) \in Nat /\ DOMAIN order = 1..Len(order)
  BY <1>1 DEF IsOrder
<1>3. at - 1 = Len(order)
  BY <1>1, <1>2
<1> QED
  BY <1>1, <1>2, <1>3 DEF ToSet

\* What is left out of the order is on or behind a cycle, the rest is not.
LEMMA LeftOut ==
    ASSUME Inv, phase = "evaluate"
    PROVE  /\ Unresolved = { n \in DOMAIN formulas : ({n} \cup Behind[n]) \cap Cyclic # {} }
           /\ \A n \in ToSet(order) : Behind[n] \cap Unresolved = {}
<1>1. OrderExact
  BY ExactOrder
<1>2. Unresolved = DOMAIN formulas \ ToSet(order)
  BY ReadyIs
<1>3. ToSet(order) = { n \in DOMAIN formulas : ({n} \cup Behind[n]) \cap Cyclic = {} }
  BY <1>1 DEF OrderExact, Ordered
<1>4. \A n \in ToSet(order) : Behind[n] \subseteq ToSet(order)
  BY OrderedAcyclic DEF Inv, OrderSound
<1> QED
  BY <1>2, <1>3, <1>4

LEMMA AnswerDryRunDryRun ==
    ASSUME DryRunInv, AnswerDryRun, Inv'
    PROVE  DryRunInv'
<1> DEFINE circular == [ n \in Unresolved |-> OutcomeOf("error", "circular", Unresolved \ {n}) ]
<1>1. /\ draft' = draft /\ run = "dry_run" /\ run' = "calculate"
      /\ phase = "evaluate" /\ phase' = "collect" /\ at > Len(order)
      /\ remaining' = remaining /\ order' = order
      /\ outcomes' = outcomes /\ saw' = saw /\ stored' = stored
      /\ reply'.order = order /\ reply'.saw = saw
      /\ reply'.missing = (UNION { formulas[n].keys : n \in DOMAIN formulas }) \ DOMAIN values
      /\ reply'.outcomes = Update(outcomes, circular)
  BY DEF AnswerDryRun, ordering
<1>2. formulas' = formulas /\ Given' = Given
  BY <1>1, SameDraft, SameGiven DEF DryRunInv, Inv
<1>3. PICK o : o = reply'.outcomes
  OBVIOUS
<1>4. PICK U : U = Unresolved
  OBVIOUS
<1>5. o = [ n \in DOMAIN outcomes \cup U |->
              IF n \in U THEN OutcomeOf("error", "circular", U \ {n}) ELSE outcomes[n] ]
  BY <1>1, <1>3, <1>4 DEF Update
<1>6. /\ DOMAIN outcomes = ToSet(order) /\ at - 1 = Len(order) /\ Len(order) \in Nat
      /\ U = DOMAIN formulas \ ToSet(order) /\ ToSet(order) \subseteq DOMAIN formulas
      /\ ReadyAfter(formulas, order) = {}
  BY <1>1, <1>4, AllDecided, ReadyIs DEF DryRunInv
<1>7. /\ DOMAIN o = DOMAIN formulas
      /\ \A n \in U : o[n].status = "error" /\ o[n].detail = "circular"
      /\ \A n \in ToSet(order) : o[n] = outcomes[n]
  BY <1>5, <1>6 DEF OutcomeOf
<1>8. RoundsSound'
  BY <1>1, <1>2, <1>6 DEF DryRunInv, RoundsSound
<1>9. CourseSound' /\ ErrorsSound' /\ SpaceSound' /\ DryRunPredicts'
  BY <1>1 DEF CourseSound, ErrorsSound, SpaceSound, DryRunPredicts
<1>10. NothingStored'
  BY <1>1, <1>2 DEF DryRunInv, NothingStored
<1>11. ReadsResults'
  BY <1>1, <1>2, SameFormulas DEF DryRunInv, ReadsResults
<1>12. Clean' <=> U = {} /\ \A n \in DOMAIN outcomes : outcomes[n].status = "ok"
  <2>1. Clean' <=> \A n \in DOMAIN o : o[n].status = "ok"
    BY <1>3 DEF Clean
  <2> QED
    BY <1>6, <1>7, <2>1
<1>13. ReplySound'
  <2>1. ASSUME Clean'
        PROVE  /\ ToSet(order) = DOMAIN formulas
               /\ o = [ n \in DOMAIN formulas |-> Good(formulas[n]) ]
               /\ saw = [ n \in DOMAIN formulas |-> saw[n] ]
               /\ \E sp : GoesTo(formulas, Given, order, Len(order), sp, saw)
    <3>1. U = {} /\ ToSet(order) = DOMAIN formulas /\ DOMAIN outcomes = DOMAIN formulas
      BY <1>6, <1>12, <2>1
    <3>2. WellSoFar
      BY <1>1, <1>12, <2>1 DEF DryRunInv, CourseSound, Failing
    <3>3. outcomes = [ n \in DOMAIN formulas |-> Good(formulas[n]) ]
      BY <3>1, <3>2 DEF WellSoFar
    <3>4. o = [ n \in DOMAIN formulas |-> Good(formulas[n]) ]
      BY <1>5, <3>1, <3>3
    <3>5. GoesTo(formulas, Given, order, Len(order), space, saw)
      BY <1>6, <3>2 DEF WellSoFar
    <3> QED
      BY <3>1, <3>2, <3>4, <3>5 DEF WellSoFar
  <2>2. ASSUME ~Clean'
        PROVE  ToSet(order) # DOMAIN formulas \/ Fails(formulas, Given, order)
    <3>1. CASE U # {}
      BY <1>6, <3>1
    <3>2. CASE \E n \in DOMAIN outcomes : outcomes[n].status # "ok"
      <4>1. ~WellSoFar
        BY <3>2 DEF WellSoFar, Good, OutcomeOf
      <4> QED
        BY <1>1, <4>1 DEF DryRunInv, CourseSound, Failing
    <3> QED
      BY <1>12, <2>2, <3>1, <3>2
  <2> QED
    BY <1>1, <1>2, <1>3, <2>1, <2>2 DEF ReplySound
<1>14. OutcomesExplained'
  <2> DEFINE Of(status) == { n \in DOMAIN o : o[n].status = status }
             Circular   == { n \in DOMAIN o : o[n].status = "error" /\ o[n].detail = "circular" }
  <2>1. \A n \in DOMAIN outcomes :
           /\ outcomes[n].status = "skipped" <=> Behind[n] \cap Decided("error") # {}
           /\ outcomes[n].status = "error" =>
                 /\ outcomes[n].detail # "circular"
                 /\ outcomes[n].detail = "missing_value" /\ Literal(formulas[n]) =>
                       outcomes[n].names \subseteq formulas[n].keys \ DOMAIN values
    BY <1>1 DEF DryRunInv, ErrorsSound
  <2>2. Circular = U
    BY <1>6, <1>7, <2>1
  <2>3. /\ U = { n \in DOMAIN formulas : ({n} \cup Behind[n]) \cap Cyclic # {} }
        /\ \A n \in ToSet(order) : Behind[n] \cap U = {}
    BY <1>1, <1>4, LeftOut DEF DryRunInv
  <2>4. { n \in DOMAIN o : o[n].status = "error" } = Decided("error") \cup U
    BY <1>6, <1>7 DEF Decided
  <2>5. ASSUME NEW n \in DOMAIN o \ U
        PROVE  o[n].status = "skipped"
                  <=> Behind[n] \cap { m \in DOMAIN o : o[m].status = "error" } # {}
    <3>1. n \in ToSet(order) /\ n \in DOMAIN outcomes /\ o[n] = outcomes[n]
      BY <1>6, <1>7, <2>5
    <3>2. Behind[n] \cap U = {}
      BY <2>3, <3>1
    <3> QED
      BY <2>1, <2>4, <3>1, <3>2
  <2>6. ASSUME NEW n \in DOMAIN o, o[n].status = "error", o[n].detail = "missing_value",
               Literal(formulas[n])
        PROVE  o[n].names \subseteq reply'.missing
    <3>1. n \notin U
      BY <1>7, <2>6
    <3>2. n \in DOMAIN formulas /\ n \in DOMAIN outcomes /\ o[n] = outcomes[n]
      BY <1>6, <1>7, <3>1
    <3> QED
      BY <1>1, <2>1, <2>6, <3>2
  <2> HIDE DEF Circular
  <2>7. Behind' = Behind /\ Cyclic' = Cyclic
    BY <1>2, SameFormulas
  <2>8. reply'.missing \cap Given' = {}
    <3>1. DOMAIN values = Given
      BY <1>1, ReadyIs DEF DryRunInv
    <3> QED
      BY <1>1, <1>2, <3>1
  <2> QED
    BY <1>1, <1>2, <1>3, <1>7, <2>2, <2>3, <2>5, <2>6, <2>7, <2>8
       DEF OutcomesExplained, Circular, Given
<1> QED
  BY <1>8, <1>9, <1>10, <1>11, <1>13, <1>14 DEF DryRunInv

LEMMA StoreDryRun ==
    ASSUME DryRunInv, Store, Inv'
    PROVE  DryRunInv'
<1>1. /\ phase = "evaluate" /\ run = "calculate" /\ at > Len(order) /\ phase' = "report"
      /\ run' = run /\ order' = order /\ remaining' = remaining /\ outcomes' = outcomes
      /\ saw' = saw /\ reply' = reply
      /\ draft' = [draft EXCEPT !.answers = values]
      /\ stored' = [ n \in DOMAIN formulas |->
                       IF n \in DOMAIN outcomes THEN outcomes[n].detail ELSE "nothing" ]
  BY DEF Store, ordering
<1>2. /\ draft'.client = draft.client /\ draft'.lab = draft.lab
      /\ draft'.formulas = draft.formulas /\ draft'.answers = values
  BY <1>1 DEF DryRunInv, Inv, DraftSound
<1>3. forms' = forms /\ formulas' = formulas
  BY <1>2 DEF forms, formulas
<1>4. Given' = Given
  <2>1. values = ExpectedValues(draft.answers, forms)
    BY <1>1, CollectedAll DEF DryRunInv, ValuesCollected
  <2>2. values = ExpectedValues(values, forms)
    BY <2>1, Complete
  <2> QED
    BY <1>2, <1>3, <2>1, <2>2 DEF Given
<1>5. ReplySound' /\ OutcomesExplained'
  BY <1>1, <1>3, <1>4, SameReply DEF DryRunInv
<1>6. RoundsSound'
  BY <1>1, <1>3 DEF DryRunInv, RoundsSound
<1>7. CourseSound' /\ ErrorsSound' /\ SpaceSound' /\ NothingStored'
  BY <1>1 DEF CourseSound, ErrorsSound, SpaceSound, NothingStored
<1>8. ReadsResults'
  BY <1>1, <1>3, SameFormulas DEF DryRunInv, ReadsResults
<1>9. DryRunPredicts'
  <2>1. WellSoFar
    BY <1>1 DEF DryRunInv, CourseSound, Failing
  <2>2. /\ DOMAIN outcomes = ToSet(order) /\ at - 1 = Len(order) /\ Len(order) \in Nat
        /\ ToSet(order) = DOMAIN formulas
    <3>1. Unresolved = {} /\ Unresolved = DOMAIN formulas \ ToSet(order)
          /\ ToSet(order) \subseteq DOMAIN formulas
      BY <1>1, ReadyIs DEF DryRunInv, RoundsSound
    <3> QED
      BY <1>1, <3>1, AllDecided DEF DryRunInv
  <2>3. reply.order = order
    <3>1. ReadyAfter(formulas, order) = {}
      BY <1>1, ReadyIs DEF DryRunInv
    <3> QED
      BY <1>1, <3>1, SameOrder DEF DryRunInv, RoundsSound
  <2>4. GoesTo(formulas, Given, order, Len(order), space, saw)
    BY <2>1, <2>2 DEF WellSoFar
  <2>5. Clean
    <3>1. SUFFICES ASSUME ~Clean PROVE FALSE
      OBVIOUS
    <3>2. PICK j \in 1..Len(order) : FailsAt(formulas, Given, order, j)
      BY <1>1, <2>2, <2>3, <3>1 DEF DryRunInv, ReplySound, Fails
    <3>3. ~FailsAt(formulas, Given, order, j)
      BY <2>2, <2>4, GoesOrFails
    <3> QED
      BY <3>2, <3>3
  <2>6. /\ outcomes = [ n \in DOMAIN formulas |-> Good(formulas[n]) ]
        /\ reply.outcomes = [ n \in DOMAIN formulas |-> Good(formulas[n]) ]
    BY <1>1, <2>1, <2>2, <2>5 DEF DryRunInv, ReplySound, WellSoFar
  <2>7. saw = reply.saw
    <3>1. PICK found : found = reply.saw
      OBVIOUS
    <3>2. PICK sp : GoesTo(formulas, Given, order, Len(order), sp, found)
      <4>1. PICK sp : GoesTo(formulas, Given, order, Len(order), sp, reply.saw)
        BY <1>1, <2>3, <2>5 DEF DryRunInv, ReplySound
      <4> QED
        BY <3>1, <4>1
    <3>3. \A i \in 1..Len(order) : saw[order[i]] = found[order[i]]
      <4>1. PICK L : L = Len(order)
        OBVIOUS
      <4>2. PICK seen : seen = saw
        OBVIOUS
      <4>3. /\ L \in Nat /\ GoesTo(formulas, Given, order, L, sp, found)
            /\ GoesTo(formulas, Given, order, L, space, seen)
        BY <2>2, <2>4, <3>2, <4>1, <4>2
      <4>4. \A i \in 1..L : seen[order[i]] = found[order[i]]
        BY <4>3, SameFindings
      <4> QED
        BY <4>1, <4>2, <4>4
    <3>4. \A n \in DOMAIN formulas : \E i \in 1..Len(order) : n = order[i]
      <4>1. DOMAIN outcomes = { order[j] : j \in 1..(at - 1) }
        BY <1>1 DEF DryRunInv, Inv, OutcomesSound
      <4> QED
        BY <2>2, <4>1
    <3>5. /\ saw = [ n \in DOMAIN formulas |-> saw[n] ]
          /\ found = [ n \in DOMAIN formulas |-> found[n] ]
      BY <1>1, <2>1, <2>2, <2>5, <3>1 DEF DryRunInv, ReplySound, WellSoFar
    <3> QED
      BY <3>1, <3>3, <3>4, <3>5
  <2>8. \A n \in DOMAIN formulas : Good(formulas[n]).status = "ok"
    BY DEF Good, OutcomeOf
  <2>9. Decided("ok")' = DOMAIN formulas
    BY <1>1, <2>6, <2>8 DEF Decided
  <2>10. stored' = [ n \in DOMAIN reply.outcomes |-> reply.outcomes[n].detail ]
    BY <1>1, <2>6
  <2> QED
    BY <1>1, <1>3, <2>3, <2>5, <2>6, <2>7, <2>9, <2>10 DEF DryRunPredicts, Clean
<1> QED
  BY <1>5, <1>6, <1>7, <1>8, <1>9 DEF DryRunInv

LEMMA SameDryRun ==
    ASSUME DryRunInv, UNCHANGED vars, Inv'
    PROVE  DryRunInv'
<1>1. /\ draft' = draft /\ run' = run /\ phase' = phase /\ values' = values
      /\ remaining' = remaining /\ order' = order /\ at' = at /\ space' = space
      /\ outcomes' = outcomes /\ saw' = saw /\ reply' = reply /\ stored' = stored
  BY DEF vars
<1>2. formulas' = formulas /\ Given' = Given
  BY <1>1, SameDraft, SameGiven DEF DryRunInv, Inv
<1>3. Behind' = Behind /\ KeepToThemselves' = KeepToThemselves
  BY <1>2, SameFormulas
<1>4. ReplySound' /\ OutcomesExplained'
  BY <1>1, <1>2, SameReply DEF DryRunInv
<1>5. RoundsSound'
  BY <1>1, <1>2 DEF DryRunInv, RoundsSound, Unresolved
<1>6. CourseSound'
  BY <1>1, <1>2 DEF DryRunInv, CourseSound, WellSoFar, Failing
<1>7. NothingStored'
  BY <1>1, <1>2 DEF DryRunInv, NothingStored
<1>8. ErrorsSound'
  BY <1>1, <1>2, <1>3 DEF DryRunInv, ErrorsSound, Decided
<1>9. SpaceSound'
  BY <1>1, <1>3 DEF DryRunInv, SpaceSound, Decided
<1>10. ReadsResults'
  BY <1>1, <1>2, <1>3 DEF DryRunInv, ReadsResults
<1>11. DryRunPredicts'
  BY <1>1, <1>2 DEF DryRunInv, DryRunPredicts, Decided
<1> QED
  BY <1>4, <1>5, <1>6, <1>7, <1>8, <1>9, <1>10, <1>11 DEF DryRunInv

LEMMA NextDryRun ==
    ASSUME DryRunInv, [Next]_vars
    PROVE  DryRunInv'
<1>1. Inv'
  BY NextInv DEF DryRunInv
<1>2. CASE UNCHANGED vars
  BY <1>1, <1>2, SameDryRun
<1>3. CASE Advance
  <2>1. CASE Collected
    BY <1>1, <2>1, CollectedDryRun
  <2>2. CASE Round
    BY <1>1, <2>2, RoundDryRun
  <2>3. CASE OrderEnds
    BY <1>1, <2>3, OrderEndsDryRun
  <2>4. CASE AnswerDryRun
    BY <1>1, <2>4, AnswerDryRunDryRun
  <2>5. CASE Store
    BY <1>1, <2>5, StoreDryRun
  <2>6. CASE Report
    BY <1>1, <2>6, ReportDryRun
  <2>7. CASE \E s \in left : Collect(s)
    BY <1>1, <2>7, CollectDryRun
  <2>8. CASE \E n \in Names : Evaluate(n)
    BY <1>1, <2>8, SkipDryRun, SucceedDryRun, FailDryRun DEF Evaluate
  <2> QED
    BY <1>3, <2>1, <2>2, <2>3, <2>4, <2>5, <2>6, <2>7, <2>8 DEF Advance
<1> QED
  BY <1>2, <1>3 DEF Next, Done

LEMMA DryRunInvariance == Spec => []DryRunInv
<1>1. Init => DryRunInv
  BY InitDryRun
<1>2. DryRunInv /\ [Next]_vars => DryRunInv'
  BY NextDryRun
<1> QED
  BY <1>1, <1>2, PTL DEF Spec

-----------------------------------------------------------------------------
\* For all formulas: dry_run skips a formula exactly when there is an error
\* somewhere behind it, reports as circular exactly what has no order, lists every
\* value that is missing to a formula whose text shows its keys, and lists none
\* that is there.
THEOREM ReplyExplainsOutcomes == Spec => []OutcomesExplained
<1>1. DryRunInv => OutcomesExplained
  BY DEF DryRunInv
<1> QED
  BY <1>1, DryRunInvariance, PTL

\* For all formulas: a dry run without an error, and only such a run, means that
\* calculate succeeds on the same document, in the same order, with the same
\* names behind each formula and the results of the reply.
THEOREM DryRunForetells == Spec => []DryRunPredicts
<1>1. DryRunInv => DryRunPredicts
  BY DEF DryRunInv
<1> QED
  BY <1>1, DryRunInvariance, PTL

\* For all formulas that assign no name of another one: what a formula reads by
\* the name of another one is its result.
THEOREM NamesReadResults == Spec => []ReadsResults
<1>1. DryRunInv => ReadsResults
  BY DEF DryRunInv
<1> QED
  BY <1>1, DryRunInvariance, PTL
=============================================================================
