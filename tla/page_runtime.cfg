SPECIFICATION FairSpec
CONSTANTS
    Elements = {made}
    Shown = {}
    MaxScripts = 2
    MaxTimers = 1
    MaxTicks = 2
    MaxSubs = 1
    MaxClicks = 1
    MaxReads = 1
INVARIANTS PageTypeOK OnceOnly CallbackKept
PROPERTIES TimersRun PageEnds
CHECK_DEADLOCK FALSE
