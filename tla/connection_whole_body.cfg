SPECIFICATION Spec
CONSTANTS
    Tasks = {t1}
    Conns = {c1}
    Keys = {"name"}
    Kinds = {"send"}
    Tails = {"none", "rest"}
    MaxPerHost = 1
    MaxRequests = 1
    MaxFailures = 0
    NoConn = NoConn
SYMMETRY Symmetry
INVARIANTS
    WholeBody
CHECK_DEADLOCK FALSE
