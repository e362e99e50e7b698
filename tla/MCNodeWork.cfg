\* Fork choice where forks of one length differ in work: empty blocks, a retarget at block 4.
SPECIFICATION NodeSpec
CONSTANTS
    me = me
    peer = peer
    alice = alice
    bob = bob
    Addr <- MCAddr
    Genesis <- MCGenesis
    Me = me
    Peer = peer
    Txs = {}
    Bodies <- NoBodies
    PeerTimes = {8, 9}
    DIFFICULTY_ADJUST_INTERVAL = 2
    TARGET_BLOCK_TIME_MS = 1
    MIN_DIFFICULTY = 0
    MAX_DIFFICULTY = 1
    GENESIS_DIFFICULTY = 1
    MEDIAN_TIME_BLOCKS = 3
    MAX_FUTURE_DRIFT_MS = 12
    MAX_TX_FUTURE_DRIFT_MS = 0
    TX_EXPIRY_MS = 0
    MIN_FEE = 1
    BLOCK_REWARD = 2
    MAX_TXS_PER_BLOCK = 3
    MAX_BLOCK_BYTES = 10
    MAX_MEMPOOL_TXS = 3
    RUN_AHEAD = 2
    MAX_STRIKES = 2
    MaxHeight = 5
    MaxOffered = 3
    MaxTime = 0
PROPERTIES
    ImplementsHeaviestChain
CHECK_DEADLOCK FALSE
