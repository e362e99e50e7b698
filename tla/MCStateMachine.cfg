\* Every domain of the replicated state, one at a time, and what they share.
SPECIFICATION MCSpec
CONSTANTS
    None = None
    alice = alice
    bob = bob
    GOLD = GOLD
    steve = steve
    overworld = overworld
    nether = nether
    spawn = spawn
    LastTime = 2
    Addr <- MCAddr
    Genesis <- MCGenesis
    NATIVE = NATIVE
    Symbols <- MCSymbols
    BLOCK_REWARD = 2
    MEDIAN_TIME_BLOCKS = 1
    MAX_AMOUNT = 200
    Fees = {1}
    Times = {1, 2, 3}
    MaxNonce = 3
    Costs = {2}
    Durations = {1}
    CONTRACT_ACCEPT_WINDOW = 1
    MAX_CONTRACT_DURATION = 1
    BANK_INTEREST_APR_BPS = 5000
    MS_PER_YEAR = 1
    Horizon = 4
    Supplies = {100}
    Liquidities = {20}
    TradeSizes = {3, 17}
    MinOuts = {0, 8}
    CREATOR_SUPPLY_BPS = 500
    SWAP_FEE_BPS = 30
    Uuids = {steve}
    Prices = {4}
    MARKET_FEE_BPS = 2500
    ServerIds = {overworld}
    Places = {spawn, nether}
    SalePrices = {0, 5, 9}
    SERVER_REGISTRATION_PRICE = 3
    CHUNK_CLAIM_PRICE = 2
    MAX_CHUNKS_PER_OWNER = 1
    LAND_FEE_BPS = 2500
    ShareCounts = {100}
    COMPANY_TREASURY_BPS = 4000
    FOUNDER_SHARE_BPS = 1000
    MAX_COMPANY_HOLDERS = 2
    VoteDurations = {1}
INVARIANTS
    StateTypeOK
    CoinConserved
    TokensConserved
    SalesCanDeliver
    TablesAgree
    TreasuryPaysWhatItRaised
    VotesAreCounted
PROPERTIES
    PoolsKeepTheirProduct
    GoodsMoveBySaleOrGift
    VotesAreFinal
CHECK_DEADLOCK FALSE
