SPECIFICATION FairSpec
CONSTANTS
    Tasks = {t1, t2}
    Conns = {c1, c2, c3}
    Keys = {"name"}
    Kinds = {"send", "stream"}
    Tails = {"none", "rest"}
    MaxPerHost = 1
    MaxRequests = 2
    MaxFailures = 1
    NoConn = NoConn
INVARIANTS
    OwnOrRefused
PROPERTIES
    RequestEnds
CHECK_DEADLOCK FALSE
