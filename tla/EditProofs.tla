----------------------------- MODULE EditProofs -----------------------------
(***************************************************************************)
(* What ExperimentEdits keeps for every set of sessions, answers and       *)
(* formulas: a document that waits to be written is as sound as the one    *)
(* that is stored, since a document is always written as a whole.          *)
(***************************************************************************)
EXTENDS ExperimentEdits, TLAPS

\* What ResultComputed says of any document.
Sound(d) ==
    /\ d.result \in computed
    /\ d.result # Unevaluated => d.result.formula = d.formula

\* A session that is about to write has read a sound document, and its client
\* has seen the formula in it.
ReadSound(s) ==
    pc[s] = "write" =>
        /\ req[s] \in Incoming
        /\ read[s] \in Docs
        /\ Sound(read[s])
        /\ req[s].op = "put" => req[s].formula = read[s].formula

Inv ==
    /\ TypeOK
    /\ Sound(doc)
    /\ \A s \in Sessions : ReadSound(s)

-----------------------------------------------------------------------------
\* What a request makes of a document it has read.
LEMMA NewDocSound ==
    ASSUME NEW d \in Docs, Sound(d), NEW r \in Incoming,
           r.op = "put" => r.formula = d.formula,
           Unevaluated \in computed
    PROVE  LET new == NewDoc(r, d)
           IN  /\ new \in Docs
               /\ new.result \in Results
               /\ r.op # "calculate" => new.result \in computed
               /\ new.result # Unevaluated => new.result.formula = new.formula
               /\ r.op = "put" => new.formula = r.formula
<1>1. /\ d.values \in Stored /\ d.formula \in Formulas /\ d.result \in Results
      /\ d = [values |-> d.values, formula |-> d.formula, result |-> d.result]
  BY DEF Docs
<1>2. /\ r.op \in {"put", "put_calculations", "calculate"}
      /\ r.values \in Stored
      /\ r.op # "calculate" => r.formula \in Formulas
  BY DEF Incoming, Requests, Stored
<1>3. Unevaluated \in Results
  BY DEF Unevaluated, Results, Stored
<1>4. CASE r.op = "put"
  BY <1>1, <1>2, <1>4 DEF NewDoc, Put, Docs, Sound
<1>5. CASE r.op = "put_calculations"
  BY <1>1, <1>2, <1>3, <1>5 DEF NewDoc, PutCalculations, Docs
<1>6. CASE r.op = "calculate"
  <2> DEFINE v == Collected(d.values)
             result == [values |-> v, formula |-> d.formula]
  <2>1. v \in Stored
    BY <1>1 DEF Collected, Stored
  <2>2. NewDoc(r, d) = [values |-> v, formula |-> d.formula, result |-> result]
    BY <1>1, <1>6 DEF NewDoc, Calculated
  <2>3. result \in Results
    BY <1>1, <2>1 DEF Results
  <2> QED
    BY <1>1, <1>6, <2>1, <2>2, <2>3 DEF Docs
<1> QED
  BY <1>2, <1>4, <1>5, <1>6

LEMMA InitInv == Init => Inv
<1> SUFFICES ASSUME Init PROVE Inv
  OBVIOUS
<1>1. doc \in Docs /\ Sound(doc)
  BY DEF Init, Docs, Sound, Stored, Results, Unevaluated
<1>2. computed \subseteq Results
  BY DEF Init, Results, Unevaluated, Stored
<1>3. NoRequest \in Requests
  BY DEF NoRequest, Requests
<1>4. TypeOK
  BY <1>1, <1>2, <1>3 DEF Init, TypeOK
<1> QED
  BY <1>1, <1>4 DEF Init, Inv, ReadSound

\* computed only grows, so that a document stays sound.
LEMMA NextInv ==
    ASSUME Inv, Unevaluated \in computed, [Next]_vars
    PROVE  Inv' /\ Unevaluated \in computed'
<1> USE DEF Inv, TypeOK
<1>1. CASE UNCHANGED vars
  BY <1>1 DEF vars, Sound, ReadSound
<1>2. CASE Delete
  BY <1>2 DEF Delete, Sound, ReadSound
<1>3. ASSUME NEW s \in Sessions, Read(s)
      PROVE  Inv' /\ Unevaluated \in computed'
  <2>1. PICK r \in Incoming :
           ~Drifted(r, doc) /\ req' = [req EXCEPT ![s] = r]
    BY <1>3 DEF Read
  <2>2. r \in Requests
    BY DEF Incoming
  <2>3. TypeOK'
    BY <1>3, <2>1, <2>2 DEF Read
  <2>4. ASSUME NEW q \in Sessions
        PROVE  ReadSound(q)'
    BY <1>3, <2>1, <2>4 DEF Read, ReadSound, Sound, Drifted
  <2> QED
    BY <1>3, <2>3, <2>4 DEF Read, Sound
<1>4. ASSUME NEW s \in Sessions, Reply(s)
      PROVE  /\ pc' \in [Sessions -> {"idle", "write"}]
             /\ req' \in [Sessions -> Requests]
             /\ read' \in [Sessions -> Docs \cup {NothingRead}]
             /\ pc'[s] = "idle"
             /\ \A q \in Sessions \ {s} :
                   /\ pc'[q] = pc[q] /\ req'[q] = req[q]
                   /\ read'[q] = read[q]
  <2>1. NoRequest \in Requests
    BY DEF NoRequest, Requests
  <2> QED
    BY <1>4, <2>1 DEF Reply
<1>5. ASSUME NEW s \in Sessions, Fail(s)
      PROVE  Inv' /\ Unevaluated \in computed'
  BY <1>4, <1>5 DEF Fail, Sound, ReadSound
<1>6. ASSUME NEW s \in Sessions, Write(s)
      PROVE  Inv' /\ Unevaluated \in computed'
  <2> DEFINE new == NewDoc(req[s], read[s])
  <2>1. /\ pc[s] = "write" /\ Reply(s) /\ UNCHANGED live
        /\ doc' = IF new = read[s] THEN doc ELSE new
        /\ computed' = IF req[s].op = "calculate"
                       THEN computed \cup {new.result} ELSE computed
    BY <1>6 DEF Write
  <2>2. /\ req[s] \in Incoming /\ read[s] \in Docs /\ Sound(read[s])
        /\ req[s].op = "put" => req[s].formula = read[s].formula
    BY <2>1 DEF ReadSound
  <2>3. /\ new \in Docs
        /\ new.result \in Results
        /\ req[s].op # "calculate" => new.result \in computed
        /\ new.result # Unevaluated => new.result.formula = new.formula
    BY <2>2, NewDocSound
  <2> HIDE DEF new
  <2>4. computed \subseteq computed' /\ computed' \subseteq Results
    BY <2>1, <2>3
  <2>5. new.result \in computed'
    BY <2>1, <2>3
  <2>6. doc' \in Docs /\ Sound(doc)'
    BY <2>1, <2>3, <2>4, <2>5 DEF Sound
  <2>7. TypeOK'
    BY <1>4, <2>1, <2>4, <2>6
  <2>8. ASSUME NEW q \in Sessions
        PROVE  ReadSound(q)'
    BY <1>4, <2>1, <2>4, <2>8 DEF ReadSound, Sound
  <2> QED
    BY <2>4, <2>6, <2>7, <2>8
<1> QED
  BY <1>1, <1>2, <1>3, <1>5, <1>6 DEF Next

LEMMA Invariance == Spec => [](Inv /\ Unevaluated \in computed)
<1>1. Init => Inv /\ Unevaluated \in computed
  BY InitInv DEF Init
<1>2. Inv /\ Unevaluated \in computed /\ [Next]_vars
         => (Inv /\ Unevaluated \in computed)'
  BY NextInv
<1> QED
  BY <1>1, <1>2, PTL DEF Spec

-----------------------------------------------------------------------------
\* The document and what the sessions hold of it keep their types.
THEOREM TypeCorrect == Spec => []TypeOK
<1>1. Inv => TypeOK
  BY DEF Inv
<1> QED
  BY Invariance, <1>1, PTL

\* However many requests overlap, no result is stored that calculate has not
\* computed, nor next to a formula it was not computed from.
THEOREM ResultsAreComputed == Spec => []ResultComputed
<1>1. Inv => ResultComputed
  BY DEF Inv, Sound, ResultComputed
<1> QED
  BY Invariance, <1>1, PTL

\* The comparison that PUT makes with the document it has read still holds of
\* the document it writes.
THEOREM DriftStaysOut == Spec => DriftRefused
<1> DEFINE Seen == \A s \in Sessions :
                      Writes(s, "put") /\ pc'[s] = "idle"
                         => doc'.formula = req[s].formula
<1>1. Inv /\ Unevaluated \in computed /\ [Next]_vars => [Seen]_vars
  <2> SUFFICES ASSUME Inv, Unevaluated \in computed, Next, NEW s \in Sessions,
                      Writes(s, "put"), pc'[s] = "idle"
               PROVE  doc'.formula = req[s].formula
    OBVIOUS
  <2>1. pc \in [Sessions -> {"idle", "write"}]
    BY DEF Inv, TypeOK
  <2>2. PICK q \in Sessions : Write(q)
    BY DEF Next, Delete, Read, Fail, Writes
  <2>3. q = s
    BY <2>1, <2>2 DEF Write, Reply, Writes
  <2>4. doc' = NewDoc(req[s], read[s])
    BY <2>2, <2>3 DEF Write, Writes
  <2>5. NewDoc(req[s], read[s]).formula = req[s].formula
    BY NewDocSound DEF Inv, ReadSound, Writes
  <2> QED
    BY <2>4, <2>5
<1> QED
  BY <1>1, Invariance, PTL DEF Spec, DriftRefused
=============================================================================
