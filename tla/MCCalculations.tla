--------------------------- MODULE MCCalculations ---------------------------
(* Small documents for Calculations. *)
EXTENDS Calculations, TLC

MCAlphabet == <<"a", "b", "result">>
MCIds      == {"a", "name"}

NameSets == SUBSET ToSet(MCAlphabet)

Formula(names, keys, reads, looks, binds, block, gives) ==
    [ names |-> names, keys |-> keys, reads |-> reads, looks |-> looks,
      binds |-> binds, block |-> block, gives |-> gives ]

\* Formulas of one expression that look up what they name.
Plain(keys, gives) ==
    { Formula(R, keys, R, keys, {}, FALSE, g) : R \in NameSets, g \in gives }

\* Formulas with assignments.
Block == { Formula(R \cup B, {}, R, {}, B, block, "value") :
             R \in NameSets, B \in NameSets, block \in BOOLEAN }

\* Formulas with branches that are not taken and keys that are computed.
Astray(keys, gives) ==
    UNION { { Formula(names, k, reads, l, {}, FALSE, g) : reads \in SUBSET names } :
            names \in SUBSET {"a", "b"}, k \in keys, l \in keys, g \in gives }

Given(sets) == { [ id \in given |-> Answered ] : given \in sets }

NoForms(fs) == [ forms |-> {<<>>}, answers |-> Given({{}}), formulas |-> fs ]

\* Formulas that read each other and other names, in all ways.
Graphs == { NoForms([ S -> Plain({}, {"value", "nothing", "other"}) ]) :
              S \in NameSets }

\* One formula with assignments, and another without.
Blocks == UNION { { NoForms({ (n :> f) @@ (m :> g) :
                                f \in Block, g \in Plain({}, {"value"}) }) :
                    n \in ToSet(MCAlphabet) \ {m} } : m \in ToSet(MCAlphabet) }

\* A formula that strays from its text, and another that only names too much.
Strays == { [ forms    |-> {<<>>},
              answers  |-> Given({{}, {"a"}}),
              formulas |-> { ("a" :> f) @@ ("b" :> g) :
                               f \in Astray({{}, {"a"}}, {"value"} \cup Errors),
                               g \in Astray({{}}, {"value"}) } ] }

\* Forms that share ids, with groups; formulas that read the answers.
MCDefaults == {"d1", "d2"}

Singles == { Question(id, d) : id \in MCIds, d \in MCDefaults \cup {NoDefault} }

Groups == { Group("name", c, kids) :
              c \in {NoCount, 2}, kids \in { <<q>> : q \in Singles } \cup {<<>>} }

Forms == { [ forms    |-> BoundedSeq(Singles \cup Groups, 1),
             answers  |-> Given({{}, {"a"}}),
             formulas |-> [ {n} -> Plain({"a"}, {"value"}) ] ] : n \in {"a", "b"} }

MCFamilies == Graphs \cup Blocks \cup Strays \cup Forms
=============================================================================
