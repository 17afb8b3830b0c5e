CONSTANTS
    Alphabet <- MCAlphabet
    Result = "result"
    Ids <- MCIds
    Defaults <- MCDefaults
    NoDefault = "no default"
    NoCount = NoCount
    Metadata = {"name"}
    Placeholders = {"a", "b", "result", "name"}
    Families <- MCFamilies
SPECIFICATION Spec
INVARIANTS
    TypeOK
    OrderExact
    OutcomesExplained
    DryRunPredicts
    ReadsResults
    ValuesCollected
    PlaceholdersShow
PROPERTY EveryRunEnds
