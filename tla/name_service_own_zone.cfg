SPECIFICATION MCSpec
CONSTANTS
    web1 = web1
    web2 = web2
    Tasks = {t1}
    Names = {web1, web2}
    Users = {u1}
    Queries <- Nested
    MaxDomains = 2
    MaxRecords = 1
    MaxChallenges = 0
    MaxCas = 0
INVARIANTS AnswersFromOwnZone
CHECK_DEADLOCK FALSE
