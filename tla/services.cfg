SPECIFICATION Spec
CONSTANTS
    MaxUrl = 5
    Blocked = {5}
    LinkSets <- Links
    ClankerFiles <- Files
    MaxDepth = 2
    MaxPages = 4
    BatchSize = 2
    CommitEvery = 4
    Domains = {d1, d2}
    Permits = 1
    MaxFaults = 1
    MaxCommands = 1
    Connections = {c1, c2, c3}
    Allowed = {"GET", "HEAD", "OPTIONS"}
    RateLimit = 3
    ConnLimit = 2
    Minute = 2
    Addresses = {a1}
    Short = 2
    Long = 3
    MaxLogins = 2
    MaxOthers = 2
    MaxKeys = 2
    RouteTables <- Tables
    Results <- Returned
    AskedPaths <- Paths
    Bodies <- BodyTexts
INVARIANTS TypeOK NearestFirst SiteCovered CrawlingIsCrawled CompletedIsIndexed ServedBelowLimit WindowHolds ExchangeAgrees
PROPERTY CrawledAgain
CHECK_DEADLOCK FALSE
