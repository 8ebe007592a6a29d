SPECIFICATION Spec
CONSTANTS
    Tasks = {t1, t2}
    Conns = {c1, c2}
    Keys = {"name", "addr"}
    Kinds = {"send", "head", "stream"}
    Tails = {"none"}
    MaxPerHost = 1
    MaxRequests = 3
    MaxFailures = 1
    NoConn = NoConn
SYMMETRY Symmetry
INVARIANTS
    TypeOK
    InUseOnce
    PooledIsQuiet
    AnswerIsOwn
CHECK_DEADLOCK FALSE
