CONSTANTS
    TemplateIds = {t1, t2, t3}
    ExpIds = {e1}
    Contents = {c1, c2}
    NoContent = NoContent
    Layouts = {full, empty}
    EmptyLayout = empty
    NoLayout = NoLayout
    NoId = NoId
    Sessions = {s1, s2}
    NoSession = NoSession
    InvalidBody = InvalidBody
    NameOf <- MCNameOf
SPECIFICATION Spec
SYMMETRY Symmetry
INVARIANTS
    TypeOK
    LockInv
    FrozenForms
    VersionChain
    RowNeverMissing
    NoWaitCycle
PROPERTIES
    RetiredForGood
    UsedLayoutKept
    OnlyDeletedLayoutsFail
    StoreSpec
CHECK_DEADLOCK FALSE
