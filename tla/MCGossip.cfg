\* Two nodes, connections that are lost, no retarget: work is length. Safety and liveness.
SPECIFICATION FairGossipSpec
CONSTANTS
    n1 = n1
    n2 = n2
    Nodes <- Pair
    Links <- PairLinks
    Miners <- Pair
    Clocks = {0}
    DIFFICULTY_ADJUST_INTERVAL = 10
    TARGET_BLOCK_TIME_MS = 1
    MIN_DIFFICULTY = 1
    MAX_DIFFICULTY = 1
    GENESIS_DIFFICULTY = 1
    MEDIAN_TIME_BLOCKS = 3
    MAX_FUTURE_DRIFT_MS = 2
    MaxHeight = 2
INVARIANTS
    GossipTypeOK
    QuietNodesAgree
PROPERTIES
    WorkConverges
