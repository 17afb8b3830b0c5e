CONSTANTS
    Sessions = {s1, s2}
    Answers = {a1, a2}
    NoAnswer = NoAnswer
    Default = Default
    Formulas = {f1, f2}
    NoFormula = NoFormula
SPECIFICATION Spec
SYMMETRY Symmetry
INVARIANTS
    TypeOK
    ResultComputed
PROPERTY DriftRefused
CHECK_DEADLOCK FALSE
