CONSTANTS
    Sessions = {s1, s2}
    Answers = {a1, a2}
    NoAnswer = NoAnswer
    Default = Default
    Formulas = {f1, f2}
    NoFormula = NoFormula
SPECIFICATION Spec
SYMMETRY Symmetry
PROPERTY WritesOwnFields
CHECK_DEADLOCK FALSE
