SPECIFICATION Spec
CONSTANTS
    Users = {u1, u2}
    Names = {n1}
    Codes = {c1}
    Tasks = {t1, t2}
    InitialQuota = 1
    MaxDomains = 1
    MaxRecords = 0
    MaxFailures = 1
    None = None
SYMMETRY Symmetry
INVARIANTS
    EachCodeOnce
CHECK_DEADLOCK FALSE
