CONSTANTS
    Calls = {k1, k2}
    MaxConcurrent = 1
SPECIFICATION Spec
SYMMETRY Symmetry
INVARIANT ParentLearnsWhy
