SPECIFICATION MCSpec
CONSTANTS
    web1 = web1
    web2 = web2
    Tasks = {t1, t2}
    Names = {web1, web2}
    Users = {u1, u2}
    Queries <- Nested
    MaxDomains = 3
    MaxRecords = 2
    MaxChallenges = 1
    MaxCas = 2
INVARIANTS TypeOK StableAnswer IssuedToOwner
SYMMETRY Alike
CHECK_DEADLOCK FALSE
