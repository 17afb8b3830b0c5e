---------------------------- MODULE Calculations ----------------------------
(***************************************************************************)
(* The formulas of one document: the values they work on, the order they   *)
(* are evaluated in, the author's dry run and the calculation of the       *)
(* experiment, and what a report then shows. A formula is given by what a  *)
(* walk over its text finds, what its evaluation looks up and assigns, and *)
(* what it comes to. Formulas leave the dictionary of the values alone.    *)
(***************************************************************************)
EXTENDS FormSchema, ReportContext

CONSTANTS
    Alphabet,       \* every identifier, as sorted() lists them
    Result,         \* the identifier "result"
    Families        \* the documents tried: sets of forms, answers and formulas

Names == ToSet(Alphabet)

Errors == {"undefined_name", "missing_value", "other"}

\* The text of a formula names more than its evaluation looks up, in branches
\* that are not taken, and looks up more than it names, by a computed key.
\* What it comes to when its lookups succeed: a value, nothing (None or an
\* empty string), or an error raised otherwise, a KeyError of a dictionary of
\* its own included. "other": syntax, dunder, division by zero, a result that
\* is not finite, anything else.
Formulas ==
    { f \in [ names : SUBSET Names,     \* identifiers in the text
              keys  : SUBSET Ids,       \* values['id'] in the text
              reads : SUBSET Names,     \* names looked up, not assigned before
              looks : SUBSET Ids,       \* keys looked up in the values
              binds : SUBSET Names,     \* what leading statements assign
              block : BOOLEAN,          \* does not end in an expression
              gives : {"value", "nothing"} \cup Errors ] : f.reads \subseteq f.names }

ASSUME CalculationConstants ==
    /\ IsList(Alphabet)
    /\ \A i, j \in DOMAIN Alphabet : Alphabet[i] = Alphabet[j] => i = j
    /\ Result \in Names
    /\ \A family \in Families :
          /\ \A form \in family.forms : IsForm(form)
          /\ \A answers \in family.answers :
                /\ DOMAIN answers \subseteq Ids
                /\ answers \in [DOMAIN answers -> Values]
          /\ \A F \in family.formulas :
                /\ DOMAIN F \subseteq Names
                /\ F \in [DOMAIN F -> Formulas]

VARIABLES
    draft,          \* the document
    run,            \* "dry_run", then "calculate"
    phase,          \* the next step of the run
    left,           \* the slots of the forms that the loop has not come to
    values,         \* the answers, completed with defaults
    remaining,      \* the dependencies of the formulas not in the order yet
    order,          \* the order of evaluation
    at,             \* the next place in the order
    space,          \* the namespace that the formulas share
    outcomes,       \* what became of each formula
    saw,            \* history: what each formula found behind the names it read
    reply,          \* the reply to the dry run
    stored,         \* the results in the document
    context         \* what placeholders show

vars == <<draft, run, phase, left, values, remaining, order, at, space, outcomes,
          saw, reply, stored, context>>

inputs   == <<draft, run, left, values>>
ordering == <<remaining, order>>
replies  == <<reply, stored, context>>

forms    == <<draft.client, draft.lab>>
formulas == draft.formulas

Empty == [ n \in {} |-> {} ]

-----------------------------------------------------------------------------
(* The order of evaluation *)

Dependencies(F) ==
    [ n \in DOMAIN F |-> (F[n].names \cap DOMAIN F) \ {n} ]

Place(n) == CHOOSE i \in DOMAIN Alphabet : Alphabet[i] = n

Ascending(list) ==
    \A i, j \in DOMAIN list : i < j => Place(list[i]) < Place(list[j])

Sorted(S) == CHOOSE list \in SetToSeqs(S) : Ascending(list)

\* Faulty variant: one resolved dependency is taken for all of them.
ReadyOnAny ==
    { n \in DOMAIN remaining :
        remaining[n] = {} \/ remaining[n] \cap ToSet(order) # {} }

Ready == { n \in DOMAIN remaining : remaining[n] \subseteq ToSet(order) }

\* Faulty variant: what is resolved is not taken away.
KeepAll == remaining

WithoutReady == Restrict(remaining, DOMAIN remaining \ Ready)

Unresolved == DOMAIN remaining

\* Faulty variant: the loop ends only when everything is resolved.
EndsWhenEmpty == Unresolved = {}

LoopEnds == Ready = {}

-----------------------------------------------------------------------------
(* One formula *)

Fresh == [ n \in Names |-> "unbound" ]

\* A block starts by dropping what an earlier one has left in "result".
Before(f) == IF f.block THEN [space EXCEPT ![Result] = "unbound"] ELSE space

After(f, bound) ==
    [ n \in Names |-> IF n \in bound THEN "local" ELSE Before(f)[n] ]

Unbound(f) == { n \in f.reads : Before(f)[n] = "unbound" }

Missing(f) == f.looks \ DOMAIN values

\* The names that an error raised otherwise carries: of an identifier or of a
\* key, whatever it is, or none.
OwnNames(f) ==
    CASE f.gives = "undefined_name" -> {{}} \cup { {n} : n \in Names }
      [] f.gives = "missing_value"  -> {{}} \cup { {id} : id \in Ids }
      [] f.gives = "other"          -> {{}}

\* The errors it can end with.
ErrorsOf(f) ==
    [ kind : {"undefined_name"}, names : { {n} : n \in Unbound(f) } ]
      \cup [ kind : {"missing_value"}, names : { {id} : id \in Missing(f) } ]
      \cup IF f.gives \in Errors THEN [ kind : {f.gives}, names : OwnNames(f) ]
                                 ELSE {}

\* A block's value is what it leaves in "result".
ValueOf(f) == IF f.block /\ Result \notin f.binds THEN "nothing" ELSE f.gives

Found(f) == [ n \in f.reads |-> Before(f)[n] ]

\* detail: what the result is, or the kind of the error.
OutcomeOf(status, detail, names) ==
    [status |-> status, detail |-> detail, names |-> names]

Decided(status) == { n \in DOMAIN outcomes : outcomes[n].status = status }

Failed == Decided("error") \cup Decided("skipped")

\* Faulty variant: only errors count, not what was skipped because of one.
BlockedByError(f) == f.names \cap Decided("error")

BlockedBy(f) == f.names \cap Failed

-----------------------------------------------------------------------------
Init ==
    /\ \E family \in Families :
          draft \in [ client : family.forms, lab : family.forms,
                      answers : family.answers, formulas : family.formulas ]
    /\ run = "dry_run" /\ phase = "collect"
    /\ left = Slots(forms) /\ values = draft.answers
    /\ remaining = Empty /\ order = <<>> /\ at = 1
    /\ space = Fresh /\ outcomes = Empty /\ saw = Empty
    /\ reply = [ order |-> <<>>, missing |-> {}, duplicates |-> {},
                 outcomes |-> Empty, saw |-> Empty ]
    /\ stored = [ n \in DOMAIN draft.formulas |-> "nothing" ]
    /\ context = Empty

\* Both runs complete the values in the same way, slot after slot.
Collect(s) ==
    /\ phase = "collect"
    /\ s \in left
    /\ \A t \in left \ {s} : Earlier(s, t)
    /\ values' = FillDefault(values, forms, s)
    /\ left' = left \ {s}
    /\ UNCHANGED <<draft, run, phase, ordering, at, space, outcomes, saw, replies>>

\* The formulas are put in order next.
Collected ==
    /\ phase = "collect"
    /\ left = {}
    /\ phase' = "order"
    /\ remaining' = Dependencies(formulas)
    /\ order' = <<>>
    /\ at' = 1 /\ space' = Fresh /\ outcomes' = Empty /\ saw' = Empty
    /\ UNCHANGED <<inputs, replies>>

\* One turn of the loop of _resolve_order.
Round ==
    /\ phase = "order"
    /\ ~LoopEnds
    /\ order' = order \o Sorted(Ready)
    /\ remaining' = WithoutReady
    /\ UNCHANGED <<inputs, phase, at, space, outcomes, saw, replies>>

\* Faulty variant: formulas without an order do not stop the calculation.
NeverRefuses == FALSE

\* _dependency_order raises, where the dry run goes on.
Refuses == run = "calculate" /\ Unresolved # {}

OrderEnds ==
    /\ phase = "order"
    /\ LoopEnds
    /\ phase' = IF Refuses THEN "report" ELSE "evaluate"
    /\ UNCHANGED <<inputs, ordering, at, space, outcomes, saw, replies>>

Settle(n, outcome) ==
    /\ outcomes' = Update(outcomes, [ k \in {n} |-> outcome ])
    /\ at' = at + 1
    /\ UNCHANGED <<inputs, ordering, replies>>

\* The formula whose turn it is, and whether it can be evaluated.
Turn(n) == phase = "evaluate" /\ at <= Len(order) /\ n = order[at]

Blocked(n) == run = "dry_run" /\ BlockedBy(formulas[n]) # {}

Skip(n) ==
    /\ Turn(n)
    /\ Blocked(n)
    /\ Settle(n, OutcomeOf("skipped", "dependency_failed", BlockedBy(formulas[n])))
    /\ UNCHANGED <<phase, space, saw>>

\* Faulty variant: the result is not put in the namespace.
NotExported(n) == space' = After(formulas[n], formulas[n].binds)

\* The assignments of the formula, and its result under its name.
Exported(n) ==
    space' = [After(formulas[n], formulas[n].binds) EXCEPT ![n] = "result"]

Succeed(n) ==
    /\ Turn(n)
    /\ ~Blocked(n)
    /\ ErrorsOf(formulas[n]) = {}
    /\ Exported(n)
    /\ saw' = Update(saw, [ k \in {n} |-> Found(formulas[n]) ])
    /\ Settle(n, OutcomeOf("ok", ValueOf(formulas[n]), {}))
    /\ UNCHANGED phase

\* An error ends a calculation. A formula that fails has made some of its
\* assignments, or none when it was not even run.
Fail(n) ==
    /\ Turn(n)
    /\ ~Blocked(n)
    /\ \E e \in ErrorsOf(formulas[n]) :
          /\ Settle(n, OutcomeOf("error", e.kind, e.names))
          /\ \/ \E bound \in SUBSET formulas[n].binds :
                   space' = After(formulas[n], bound)
             \/ e.kind = "other" /\ UNCHANGED space
    /\ phase' = IF run = "calculate" THEN "report" ELSE phase
    /\ saw' = Update(saw, [ k \in {n} |-> Found(formulas[n]) ])

\* The rest of dry_run: the formulas without an order, the keys without a value.
AnswerDryRun ==
    /\ phase = "evaluate" /\ run = "dry_run" /\ at > Len(order)
    /\ LET circular == [ n \in Unresolved |->
                           OutcomeOf("error", "circular", Unresolved \ {n}) ]
       IN  reply' = [ order      |-> order,
                      missing    |-> (UNION { formulas[n].keys : n \in DOMAIN formulas })
                                       \ DOMAIN values,
                      duplicates |-> DuplicateIds(forms),
                      outcomes   |-> Update(outcomes, circular),
                      saw        |-> saw ]
    /\ run' = "calculate"
    /\ phase' = "collect"
    /\ left' = Slots(forms) /\ values' = draft.answers
    /\ UNCHANGED <<draft, ordering, at, space, outcomes, saw, stored, context>>

\* calculate writes the values and the results back.
Store ==
    /\ phase = "evaluate" /\ run = "calculate" /\ at > Len(order)
    /\ stored' = [ n \in DOMAIN formulas |->
                     IF n \in DOMAIN outcomes THEN outcomes[n].detail ELSE "nothing" ]
    /\ draft' = [draft EXCEPT !.answers = values]
    /\ phase' = "report"
    /\ UNCHANGED <<run, left, values, ordering, at, space, outcomes, saw, reply, context>>

\* A report of the document, calculated or not.
Report ==
    /\ phase = "report"
    /\ \E keys \in SetToSeqs(TopLevel) :
          context' = FlattenContext(keys, DOMAIN draft.answers, stored)
    /\ phase' = "done"
    /\ UNCHANGED <<inputs, ordering, at, space, outcomes, saw, reply, stored>>

Evaluate(n) == Skip(n) \/ Succeed(n) \/ Fail(n)

Advance ==
    \/ Collected \/ Round \/ OrderEnds \/ AnswerDryRun \/ Store \/ Report
    \/ \E s \in left : Collect(s)
    \/ \E n \in Names : Evaluate(n)

Done == phase = "done" /\ UNCHANGED vars

Next == Advance \/ Done

\* The evaluation is one loop after another; nothing else delays it.
Spec == Init /\ [][Next]_vars /\ WF_vars(Advance)

-----------------------------------------------------------------------------
Statuses == {"ok", "error", "skipped"}

IsOutcomes(o) ==
    /\ DOMAIN o \subseteq DOMAIN formulas
    /\ \A n \in DOMAIN o : /\ o[n].status \in Statuses
                           /\ o[n].names \subseteq Names \cup Ids

TypeOK ==
    /\ run \in {"dry_run", "calculate"}
    /\ phase \in {"collect", "order", "evaluate", "report", "done"}
    /\ left \subseteq Slots(forms)
    /\ DOMAIN values \subseteq Ids /\ values \in [DOMAIN values -> Values]
    /\ DOMAIN remaining \subseteq DOMAIN formulas
    /\ Len(order) + Cardinality(Unresolved) <= Cardinality(DOMAIN formulas)
    /\ at \in 1..Len(order) + 1
    /\ space \in [Names -> {"unbound", "local", "result"}]
    /\ IsOutcomes(outcomes) /\ IsOutcomes(reply.outcomes)
    /\ reply.missing \subseteq Ids /\ reply.duplicates \subseteq Ids
    /\ stored \in [DOMAIN formulas -> {"value", "nothing"}]
    /\ \A k \in DOMAIN context : context[k] \in Sources

\* The formulas that each formula depends on, directly or not: those in every
\* set that holds what it depends on and what its own members depend on.
Behind ==
    LET D      == Dependencies(formulas)
        closed == { S \in SUBSET DOMAIN formulas : \A m \in S : D[m] \subseteq S }
    IN  [ n \in DOMAIN formulas |->
            { m \in DOMAIN formulas :
                \A S \in closed : D[n] \subseteq S => m \in S } ]

Cyclic == { n \in DOMAIN formulas : n \in Behind[n] }

Ordered == phase = "evaluate"

\* Each formula comes once, after all it refers to; left out are exactly those
\* on a cycle and those behind one, whatever they are called and declared.
OrderExact ==
    Ordered =>
        /\ \A i \in DOMAIN order :
              Dependencies(formulas)[order[i]]
                 \subseteq { order[j] : j \in 1..(i - 1) }
        /\ Cardinality(ToSet(order)) = Len(order)
        /\ ToSet(order) = { n \in DOMAIN formulas :
                              ({n} \cup Behind[n]) \cap Cyclic = {} }

\* The text shows every key of a value that the formula can miss.
Literal(f) == f.looks \subseteq f.keys /\ f.gives # "missing_value"

\* "every calculation reports its own result or error": the dry run skips a
\* formula only because of an error somewhere behind it, and never evaluates
\* one that has such an error; circular are those without an order; a value
\* that a formula misses is in the reply's list of them if the formula's text
\* shows its keys, for the list is made from the text; and the list holds
\* nothing that the document has an answer or a default for.
OutcomesExplained ==
    run = "calculate" =>
        LET o    == reply.outcomes
            Of(status) == { n \in DOMAIN o : o[n].status = status }
            circular == { n \in Of("error") : o[n].detail = "circular" }
        IN  /\ DOMAIN o = DOMAIN formulas
            /\ circular = { n \in DOMAIN formulas :
                              ({n} \cup Behind[n]) \cap Cyclic # {} }
            /\ \A n \in DOMAIN o \ circular :
                  n \in Of("skipped") <=> Behind[n] \cap Of("error") # {}
            /\ \A n \in Of("error") :
                  o[n].detail = "missing_value" /\ Literal(formulas[n])
                    => o[n].names \subseteq reply.missing
            /\ reply.missing \cap DOMAIN ExpectedValues(draft.answers, forms) = {}

\* A dry run without an error and only such a run promises that the same
\* document can be calculated, with formulas that find the same as then.
DryRunPredicts ==
    (run = "calculate" /\ phase \in {"report", "done"}) =>
        LET o     == reply.outcomes
            clean == \A n \in DOMAIN o : o[n].status = "ok"
        IN  /\ clean <=> (Decided("ok") = DOMAIN formulas)
            /\ clean => order = reply.order /\ outcomes = o /\ saw = reply.saw
            /\ clean => stored = [ n \in DOMAIN o |-> o[n].detail ]
            /\ ~clean => stored = [ n \in DOMAIN formulas |-> "nothing" ]

\* No formula assigns the name of another one, nor drops it.
KeepToThemselves ==
    \A n \in DOMAIN formulas :
        /\ formulas[n].binds \cap DOMAIN formulas \subseteq {n}
        /\ formulas[n].block => Result \notin DOMAIN formulas \ {n}

\* "Intermediate results reference earlier calculation names directly": as long
\* as formulas keep to their own names, a formula that reads another one's
\* finds the result of that one, never nothing and never a leftover.
ReadsResults ==
    KeepToThemselves =>
        \A n \in DOMAIN saw : \A m \in DOMAIN saw[n] \ {n} :
            m \in DOMAIN formulas => saw[n][m] = "result"

\* An id has its answer, or else the default of the first question in the two
\* forms that has one for it; also when the document was calculated before, and
\* its answers are what was collected then. When no id is reported as used
\* twice, the order of the forms makes no difference.
ValuesCollected ==
    phase # "collect" =>
        /\ values = ExpectedValues(draft.answers, forms)
        /\ (run = "calculate" /\ reply.duplicates = {}) =>
              values = ExpectedValues(draft.answers, <<draft.lab, draft.client>>)

\* A placeholder shows a calculation, result or formula, before an answer, and
\* an answer before metadata, in whatever order the document is stored.
PlaceholdersShow ==
    phase = "done" =>
        context = [ k \in (Metadata \cup DOMAIN draft.answers \cup DOMAIN stored)
                             \cap Placeholders |->
                      IF k \in DOMAIN stored
                        THEN IF stored[k] = "value" THEN "result" ELSE "formula"
                      ELSE IF k \in DOMAIN draft.answers THEN "answer"
                      ELSE "metadata" ]

\* Every run ends, also with cycles among the formulas.
EveryRunEnds == <>(phase = "done")
=============================================================================
