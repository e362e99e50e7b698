\* Mining switched on and off around searches, and shutdowns by either signal or both.
SPECIFICATION FairProcessSpec
CONSTANTS
    Loops = {"l1", "l2"}
    Signals = {"SIGINT", "SIGTERM"}
    TERM = "SIGTERM"
    NoLoop = "null"
    Settled = "settled"
    GRACE = 1
INVARIANTS
    OneLoop
    MinedIsSaved
PROPERTIES
    MiningResumes
    StopCompletes
CHECK_DEADLOCK FALSE
