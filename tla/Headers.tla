------------------------------ MODULE Headers -------------------------------
(***************************************************************************)
(* The rules a block header must meet given the blocks before it:          *)
(* difficulty, block time and work, of core/blockchain.js and              *)
(* core/block.js. A chain is a sequence of blocks whose first element is   *)
(* the genesis block, so the block at index i of the code is chain[i + 1]. *)
(* A block commits to its parent through prevHash, so a block is known by  *)
(* the chain that ends in it and prevHash is left out.                     *)
(***************************************************************************)
EXTENDS BlockTime, SequencesExt

CONSTANTS
    GENESIS_DIFFICULTY,
    DIFFICULTY_ADJUST_INTERVAL,
    TARGET_BLOCK_TIME_MS,
    MIN_DIFFICULTY,
    MAX_DIFFICULTY,
    MEDIAN_TIME_BLOCKS,
    MAX_FUTURE_DRIFT_MS

ASSUME HeadersAssumption ==
    /\ {DIFFICULTY_ADJUST_INTERVAL, MEDIAN_TIME_BLOCKS} \subseteq Nat \ {0}
    /\ {TARGET_BLOCK_TIME_MS, MAX_FUTURE_DRIFT_MS, MIN_DIFFICULTY} \subseteq Nat
    /\ MAX_DIFFICULTY \in Nat
    /\ GENESIS_DIFFICULTY \in MIN_DIFFICULTY..MAX_DIFFICULTY

genesisBlock ==
    [timestamp |-> 0, difficulty |-> GENESIS_DIFFICULTY, miner |-> "none", txs |-> << >>]

height(chain) == Len(chain) - 1

Clamp(d) ==
    IF d < MIN_DIFFICULTY THEN MIN_DIFFICULTY
    ELSE IF d > MAX_DIFFICULTY THEN MAX_DIFFICULTY ELSE d

(* Mutant of Retargeted: two bits at a time.                               *)
RetargetedByTwo(d, actual, expected) ==
    Clamp(d + (IF actual <= 0 \/ 2 * actual < expected THEN 2 ELSE 0)
            - (IF actual > 2 * expected THEN 2 ELSE 0))

(* One bit up when the window was mined in less than half of its time, one *)
(* bit down when it took more than twice that.                             *)
Retargeted(d, actual, expected) ==
    Clamp(d + (IF actual <= 0 \/ 2 * actual < expected THEN 1 ELSE 0)
            - (IF actual > 2 * expected THEN 1 ELSE 0))

(* expectedDifficulty of the block that would follow chain.                *)
expectedDifficulty(chain) ==
    LET index == Len(chain)
        prev  == Last(chain)
        start == chain[index - DIFFICULTY_ADJUST_INTERVAL + 1]
    IN  IF index % DIFFICULTY_ADJUST_INTERVAL # 0 \/ index = DIFFICULTY_ADJUST_INTERVAL
        THEN prev.difficulty
        ELSE Retargeted(prev.difficulty, prev.timestamp - start.timestamp,
                        DIFFICULTY_ADJUST_INTERVAL * TARGET_BLOCK_TIME_MS)

(* The timestamps the median of the next block is taken over.              *)
Window(chain) ==
    LET first == IF Len(chain) > MEDIAN_TIME_BLOCKS
                 THEN Len(chain) - MEDIAN_TIME_BLOCKS + 1 ELSE 1
    IN  [i \in 1..(Len(chain) - first + 1) |-> chain[first + i - 1].timestamp]

(* The time rules of checkContext, by the clock of the checking node.      *)
InTime(chain, ts, now) ==
    /\ ts > medianTimePast(Window(chain))
    /\ ts <= now + MAX_FUTURE_DRIFT_MS

(* Mutant of CandidateTime: the node's clock, whatever the blocks say.     *)
CandidateTimeOfClock(chain, now) == now

(* The time buildCandidate gives a block.                                  *)
CandidateTime(chain, now) ==
    Max({now, medianTimePast(Window(chain)) + 1, Last(chain).timestamp + 1})

PowerOfTwo[d \in Nat] == IF d = 0 THEN 1 ELSE 2 * PowerOfTwo[d - 1]

blockWork(block) == PowerOfTwo[block.difficulty]

totalWork(chain) == FoldLeft(LAMBDA sum, b : sum + blockWork(b), 0, chain)
=============================================================================
