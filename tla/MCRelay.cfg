\* Payments of a client to a node, connections that are lost, answers that are lost.
SPECIFICATION FairRelaySpec
CONSTANTS
    n1 = n1
    n2 = n2
    n3 = n3
    alice = alice
    poor = poor
    shop = shop
    Nodes <- Line
    Links <- LineLinks
    Addr <- MCAddr
    Genesis <- MCGenesis
    Miners = {n3}
    Home = n1
    Client = alice
    Payments <- Three
    OVERLAP = 1
    Planted <- DeadAtMiner
    FAULTS = 1
    Clocks = {0}
    GENESIS_DIFFICULTY = 1
    DIFFICULTY_ADJUST_INTERVAL = 10
    TARGET_BLOCK_TIME_MS = 1
    MIN_DIFFICULTY = 1
    MAX_DIFFICULTY = 1
    MEDIAN_TIME_BLOCKS = 3
    MAX_FUTURE_DRIFT_MS = 2
    MaxHeight = 0
    BLOCK_REWARD = 0
    MAX_TXS_PER_BLOCK = 3
    MAX_BLOCK_BYTES = 10
    MIN_FEE = 1
    MAX_TX_FUTURE_DRIFT_MS = 0
    TX_EXPIRY_MS = 0
    MAX_MEMPOOL_TXS = 3
    RUN_AHEAD = 2
    MAX_STRIKES = 3
INVARIANTS
    QuietPoolsAgree
    AcknowledgedOnce
PROPERTIES
    SubmittedIsSettled
    PaymentsStay
CHECK_DEADLOCK FALSE
