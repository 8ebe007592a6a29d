SPECIFICATION MCSpec
CONSTANTS
    MaxTabs = 3
    GurtUrls = {"g"}
    FileUrls = {"f"}
    MaxPages = 5
    NoUrl = NoUrl
    Downloads = {d1, d2}
    Paths = {p1}
    MaxChunks = 2
    NoFile = NoFile
INVARIANTS TypeOK ScriptsHaveTab NoLeftovers
PROPERTIES LoneLoadAgrees SpinEnds OneVerdict CompletedIsWhole DownloadEnds
CHECK_DEADLOCK FALSE
