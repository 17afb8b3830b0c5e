--------------------------- MODULE ReportContext ---------------------------
(***************************************************************************)
(* flatten_context: what a placeholder of a report shows. The document is  *)
(* walked in the order in which its top-level keys happen to be stored.    *)
(***************************************************************************)
EXTENDS Sequences, SequencesExt, FiniteSets

CONSTANTS
    Metadata,       \* top-level keys that hold a scalar
    Placeholders    \* keys that a template can refer to (_VALID_KEY)

ASSUME ContextConstants ==
    IsFiniteSet(Metadata) /\ {"values", "calculations"} \cap Metadata = {}

\* dict.update: f with the entries of g put in.
Update(f, g) ==
    [ k \in DOMAIN f \cup DOMAIN g |-> IF k \in DOMAIN g THEN g[k] ELSE f[k] ]

Sources == {"metadata", "answer", "result", "formula"}

TopLevel == Metadata \cup {"values", "calculations"}

\* What one top-level key puts into the context. A calculation shows its result
\* when there is one, otherwise its formula: results tells for each whether its
\* result is a "value".
Shows(key, answered, results) ==
    CASE key = "values"       -> [ k \in answered \cap Placeholders |-> "answer" ]
      [] key = "calculations" -> [ k \in DOMAIN results \cap Placeholders |->
                                     IF results[k] = "value" THEN "result"
                                                             ELSE "formula" ]
      [] OTHER                -> [ k \in {key} \cap Placeholders |-> "metadata" ]

\* The loop over the document's keys: the last one to show a placeholder wins.
Walk(keys, answered, results) ==
    LET by(k) == { i \in DOMAIN keys : k \in DOMAIN Shows(keys[i], answered, results) }
        all   == UNION { DOMAIN Shows(keys[i], answered, results) : i \in DOMAIN keys }
    IN  [ k \in all |-> Shows(keys[Max(by(k))], answered, results)[k] ]

\* Faulty variant: the walk is all there is.
WalkOnly(keys, answered, results) == Walk(keys, answered, results)

\* After the walk, the answers and then the calculations are put in again.
FlattenContext(keys, answered, results) ==
    Update(Update(Walk(keys, answered, results), Shows("values", answered, results)),
           Shows("calculations", answered, results))
=============================================================================
