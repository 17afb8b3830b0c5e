CONSTANTS
    Calls = {k1, k2, k3}
    MaxConcurrent = 2
SPECIFICATION FairSpec
INVARIANTS
    TypeOK
    ProcessesBounded
    SlotsAccounted
PROPERTY OnlyTornResultsHang
