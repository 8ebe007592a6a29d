SPECIFICATION Spec
CONSTANTS
    Users = {u1, u2}
    Names = {n1}
    Codes = {}
    Tasks = {t1, t2, t3}
    InitialQuota = 1
    MaxDomains = 2
    MaxRecords = 1
    MaxFailures = 1
    None = None
SYMMETRY Symmetry
INVARIANTS
    TypeOK
    UniqueNames
    ModeratedIsPaid
    RecordsFollowOwner
PROPERTIES
    PaidIsKept
    NamesFollowLifecycle
CHECK_DEADLOCK FALSE
