\* Contracts: proposals, answers, early settlement, sweeps; and that every contract closes.
SPECIFICATION FairBankSpec
CONSTANTS
    None = None
    alice = alice
    bob = bob
    Addr <- MCAddr
    Genesis <- MCGenesis
    BLOCK_REWARD = 1
    MEDIAN_TIME_BLOCKS = 3
    MAX_AMOUNT = 1000
    Fees = {1}
    Times <- MCTimes
    MaxNonce = 2
    Costs = {2}
    Durations = {1}
    CONTRACT_ACCEPT_WINDOW = 1
    MAX_CONTRACT_DURATION = 1
    BANK_INTEREST_APR_BPS = 5000
    MS_PER_YEAR = 1
    Horizon = 5
INVARIANTS
    EscrowBacked
    SupplyConserved
    InterestAudited
    NothingOverdue
PROPERTIES
    ClosedForGood
    OnlySignersPay
    EveryContractCloses
CHECK_DEADLOCK FALSE
