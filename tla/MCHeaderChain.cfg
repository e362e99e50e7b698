\* Block time and difficulty under arbitrary block times.
SPECIFICATION HeaderSpec
CONSTANTS
    DIFFICULTY_ADJUST_INTERVAL = 2
    TARGET_BLOCK_TIME_MS = 1
    MIN_DIFFICULTY = 1
    MAX_DIFFICULTY = 4
    MEDIAN_TIME_BLOCKS = 3
    MAX_FUTURE_DRIFT_MS = 3
    GENESIS_DIFFICULTY = 2
    MaxTime = 6
    MaxHeight = 6
INVARIANTS
    PassedStaysPassed
    HonestBlockFits
    OneLieMovesTwoBits
CHECK_DEADLOCK FALSE
