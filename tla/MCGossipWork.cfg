\* Retargets make forks of one height differ in work; nothing is ever lost.
SPECIFICATION CalmGossipSpec
CONSTANTS
    n1 = n1
    n2 = n2
    Nodes <- Pair
    Links <- PairLinks
    Miners <- Pair
    Clocks = {0, 9}
    DIFFICULTY_ADJUST_INTERVAL = 2
    TARGET_BLOCK_TIME_MS = 1
    MIN_DIFFICULTY = 0
    MAX_DIFFICULTY = 1
    GENESIS_DIFFICULTY = 1
    MEDIAN_TIME_BLOCKS = 3
    MAX_FUTURE_DRIFT_MS = 2
    MaxHeight = 4
INVARIANTS
    QuietNodesAgree
CHECK_DEADLOCK FALSE
