\* The candidate against the size rule: two transactions of which one block holds one.
SPECIFICATION NodeSpec
CONSTANTS
    me = me
    peer = peer
    alice = alice
    bob = bob
    Addr <- MCAddr
    Genesis <- MCGenesis
    Me = me
    Peer = peer
    Txs <- BigTxs
    Bodies <- NoBodies
    PeerTimes = {1, 2}
    DIFFICULTY_ADJUST_INTERVAL = 10
    TARGET_BLOCK_TIME_MS = 1
    MIN_DIFFICULTY = 1
    MAX_DIFFICULTY = 1
    GENESIS_DIFFICULTY = 1
    MEDIAN_TIME_BLOCKS = 3
    MAX_FUTURE_DRIFT_MS = 1
    MAX_TX_FUTURE_DRIFT_MS = 0
    TX_EXPIRY_MS = 0
    MIN_FEE = 1
    BLOCK_REWARD = 2
    MAX_TXS_PER_BLOCK = 3
    MAX_BLOCK_BYTES = 5
    MAX_MEMPOOL_TXS = 3
    RUN_AHEAD = 2
    MAX_STRIKES = 2
    MaxHeight = 2
    MaxOffered = 0
    MaxTime = 1
INVARIANTS
    CandidateAcceptable
CHECK_DEADLOCK FALSE
