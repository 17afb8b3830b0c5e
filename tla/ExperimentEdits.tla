-------------------------- MODULE ExperimentEdits --------------------------
(***************************************************************************)
(* The writes of an experiment's state: one JSON document that holds the   *)
(* answers and, per calculation, a formula and its result. Every request   *)
(* reads the document in one step and writes the whole of it back in       *)
(* another, without a lock. One calculation stands for all.                *)
(***************************************************************************)
EXTENDS Integers

CONSTANTS
    Sessions,       \* requests being served
    Answers,        \* what clients put in `values`
    NoAnswer,       \* `values` holds no answer to the question
    Default,        \* the answer that the form's config.default gives
    Formulas,       \* formulas of the calculation
    NoFormula       \* a body that brings no calculations

ASSUME EditConstants ==
    /\ NoAnswer \notin Answers
    /\ Default \notin Answers \cup {NoAnswer}
    /\ NoFormula \notin Formulas

VARIABLES
    doc,            \* experiments.state
    live,           \* deleted_at IS NULL
    pc,             \* the next step of each session
    req,            \* the request of each session
    read,           \* the document that each session has read
    computed        \* history: documents that calculate evaluated

vars == <<doc, live, pc, req, read, computed>>

\* The result of a calculation is named by what it was computed from.
Unevaluated == [values |-> NoAnswer, formula |-> NoFormula]

Stored == Answers \cup {NoAnswer, Default}

Results == [values : Stored, formula : Formulas \cup {NoFormula}]

Docs == [values : Stored, formula : Formulas, result : Results]

NothingRead == [values |-> NoAnswer, formula |-> NoFormula,
                result |-> Unevaluated]

Requests == [op : {"put", "put_calculations", "calculate"},
             values : Answers \cup {NoAnswer},
             formula : Formulas \cup {NoFormula}]

NoRequest == [op |-> "calculate", values |-> NoAnswer, formula |-> NoFormula]

\* PUT echoes the formula that its client has seen.
Incoming ==
    { r \in Requests :
        /\ r.op # "put" => r.values = NoAnswer
        /\ r.formula = NoFormula <=> r.op = "calculate" }

\* collect_values: answers first, defaults for what is not answered.
Collected(values) == IF values = NoAnswer THEN Default ELSE values

-----------------------------------------------------------------------------
\* create_experiment: the template's formula, no answers, no result.
Init ==
    /\ doc \in [values : {NoAnswer}, formula : Formulas,
                result : {Unevaluated}]
    /\ live = TRUE
    /\ pc = [s \in Sessions |-> "idle"]
    /\ req = [s \in Sessions |-> NoRequest]
    /\ read = [s \in Sessions |-> NothingRead]
    /\ computed = {Unevaluated}

\* Faulty variant: the formulas of a PUT are not compared.
NoDrift(r, d) == FALSE

\* _assert_no_template_drift, for the formulas: 422 for a client that has
\* seen another formula than the one stored.
Drifted(r, d) == r.op = "put" /\ r.formula # d.formula

\* The first read, and the checks on what it returned: 404, 422.
Read(s) ==
    /\ pc[s] = "idle"
    /\ live
    /\ \E r \in Incoming :
          /\ ~Drifted(r, doc)
          /\ req' = [req EXCEPT ![s] = r]
    /\ read' = [read EXCEPT ![s] = doc]
    /\ pc' = [pc EXCEPT ![s] = "write"]
    /\ UNCHANGED <<doc, live, computed>>

\* Faulty variant: the result in the body of a PUT is believed, and is that
\* of another formula.
PutBelieved(r, d) ==
    [d EXCEPT !.values = r.values,
              !.result = [values |-> r.values, formula |-> r.formula]]

\* update_experiment: the calculations are those that were read.
Put(r, d) == [d EXCEPT !.values = r.values]

\* Faulty variant: the result of the old formula stays.
PutFormulaOnly(r, d) == [d EXCEPT !.formula = r.formula]

\* update_experiment_calculations: results start over.
PutCalculations(r, d) == [d EXCEPT !.formula = r.formula,
                                   !.result = Unevaluated]

\* Faulty variant: the entry is replaced by its result.
CalculatedBare(d) ==
    LET v == Collected(d.values)
    IN  [d EXCEPT !.values = v,
                  !.formula = NoFormula,
                  !.result = [values |-> v, formula |-> d.formula]]

\* calculate: answers and defaults are saved with the result.
Calculated(d) ==
    LET v == Collected(d.values)
    IN  [d EXCEPT !.values = v,
                  !.result = [values |-> v, formula |-> d.formula]]

NewDoc(r, d) ==
    CASE r.op = "put"              -> Put(r, d)
      [] r.op = "put_calculations" -> PutCalculations(r, d)
      [] r.op = "calculate"        -> Calculated(d)

Reply(s) ==
    /\ pc' = [pc EXCEPT ![s] = "idle"]
    /\ req' = [req EXCEPT ![s] = NoRequest]
    /\ read' = [read EXCEPT ![s] = NothingRead]

\* experiment_repository.update: reads again whether the experiment is still
\* there, and writes the document if it differs from the one that was read.
Write(s) ==
    /\ pc[s] = "write"
    /\ live
    /\ LET new == NewDoc(req[s], read[s])
       IN  /\ doc' = IF new = read[s] THEN doc ELSE new
           /\ computed' = IF req[s].op = "calculate"
                          THEN computed \cup {new.result} ELSE computed
    /\ Reply(s)
    /\ UNCHANGED live

\* The experiment was deleted meanwhile (500), a schema check or the sandbox
\* refused (422, 429), or the connection was lost.
Fail(s) ==
    /\ pc[s] = "write"
    /\ Reply(s)
    /\ UNCHANGED <<doc, live, computed>>

Delete ==
    /\ live
    /\ live' = FALSE
    /\ UNCHANGED <<doc, pc, req, read, computed>>

Next == Delete \/ \E s \in Sessions : Read(s) \/ Write(s) \/ Fail(s)

Spec == Init /\ [][Next]_vars

-----------------------------------------------------------------------------
TypeOK ==
    /\ doc \in Docs
    /\ live \in BOOLEAN
    /\ pc \in [Sessions -> {"idle", "write"}]
    /\ req \in [Sessions -> Requests]
    /\ read \in [Sessions -> Docs \cup {NothingRead}]
    /\ computed \subseteq Results

\* No fabricated result reaches a report: a stored result is empty or was
\* computed by calculate, and from the formula stored with it, whatever the
\* order in which the requests wrote.
ResultComputed ==
    /\ doc.result \in computed
    /\ doc.result # Unevaluated => doc.result.formula = doc.formula

\* Session s writes the document in this step.
Writes(s, op) == pc[s] = "write" /\ req[s].op = op /\ doc' # doc

\* Answers are stored only next to the formulas that their client saw.
DriftRefused ==
    [][\A s \in Sessions :
          Writes(s, "put") /\ pc'[s] = "idle"
             => doc'.formula = req[s].formula]_vars

\* "The only field PUT actually changes" is `values`, which is set by "Worker
\* via PUT", and /calculate writes `result`: a formula override and a result
\* survive a PUT, and answers survive a calculate, which adds the defaults of
\* the questions nobody answered.
WritesOwnFields ==
    [][\A s \in Sessions :
          pc'[s] = "idle" =>
             /\ Writes(s, "put")
                   => doc' = [doc EXCEPT !.values = doc'.values]
             /\ Writes(s, "calculate")
                   => doc'.values = Collected(doc.values)]_vars
=============================================================================
