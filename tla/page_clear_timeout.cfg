SPECIFICATION PageSpec
CONSTANTS
    Elements = {}
    Shown = {}
    MaxScripts = 1
    MaxTimers = 1
    MaxTicks = 1
    MaxSubs = 0
    MaxClicks = 0
    MaxReads = 0
PROPERTY ClearedNeverDue
CHECK_DEADLOCK FALSE
