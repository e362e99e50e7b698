---------------------------- MODULE HeaderChain -----------------------------
(***************************************************************************)
(* How the headers of one chain grow: honest miners take their block time  *)
(* from buildCandidate, others choose any time checkContext lets through,  *)
(* before or after the blocks around it. What the time and difficulty      *)
(* rules promise is stated here, for the chain alone.                      *)
(***************************************************************************)
EXTENDS Headers

CONSTANTS
    MaxTime,             \* bound: the last reading of the clock
    MaxHeight            \* bound: the length of the chain

ASSUME HeaderChainAssumption ==
    /\ MaxTime \in Nat
    /\ MaxHeight \in Nat

VARIABLES
    chain,      \* blockchain.blocks, the headers only
    now         \* Date.now() of the node that checks the blocks

headerVars == <<chain, now>>

Header(ts) == [timestamp |-> ts, difficulty |-> expectedDifficulty(chain)]

HeaderInit == chain = <<genesisBlock>> /\ now = 0

(* addBlock, as far as the header goes.                                    *)
Extend(ts) ==
    /\ height(chain) < MaxHeight
    /\ InTime(chain, ts, now)
    /\ chain' = Append(chain, Header(ts))
    /\ UNCHANGED now

(* mineOnce on the tip: a candidate too far in the future is not added.    *)
MineHonestly == Extend(CandidateTime(chain, now))

MineAtWill == \E ts \in 1..(MaxTime + MAX_FUTURE_DRIFT_MS) : Extend(ts)

Tick == now < MaxTime /\ now' = now + 1 /\ UNCHANGED chain

HeaderNext == MineHonestly \/ MineAtWill \/ Tick

HeaderSpec == HeaderInit /\ [][HeaderNext]_headerVars

-----------------------------------------------------------------------------
(* Properties                                                              *)

(* What is left of "stops a miner from walking block time backwards":      *)
(* deadlines are held against the time of a block, and a block may lie     *)
(* before its parent, so a deadline that one block has passed need not be  *)
(* passed for the next. One that the median of the blocks up to some point *)
(* has passed is passed for every block beyond that point, not only for    *)
(* the one checkContext compares with it.                                  *)
PassedStaysPassed ==
    \A i \in 1..Len(chain) : \A j \in (i + 1)..Len(chain) :
        chain[j].timestamp > medianTimePast(Window(SubSeq(chain, 1, i)))

(* No choice of block times by others makes an honest candidate            *)
(* unacceptable, except a tip at the very edge of the allowed drift, and   *)
(* then only until the clock moves.                                        *)
HonestBlockFits ==
    Last(chain).timestamp < now + MAX_FUTURE_DRIFT_MS =>
        InTime(chain, CandidateTime(chain, now), now)

(* The difficulties a chain would have had with the given block times.     *)
Rebuilt(times) ==
    FoldLeft(LAMBDA c, ts : Append(c, [timestamp |-> ts, difficulty |-> expectedDifficulty(c)]),
             <<genesisBlock>>, Tail(times))

(* "A miner cannot swing difficulty with a single manipulated timestamp":  *)
(* had one block carried any other time, the difficulty of the tip would   *)
(* differ by two bits at most (one up instead of one down), however many   *)
(* retargets have followed; and it never leaves its limits.                *)
OneLieMovesTwoBits ==
  /\ Last(chain).difficulty \in MIN_DIFFICULTY..MAX_DIFFICULTY
  /\ \A i \in 2..Len(chain), ts \in 1..(MaxTime + MAX_FUTURE_DRIFT_MS) :
        LET times == [k \in 1..Len(chain) |-> IF k = i THEN ts ELSE chain[k].timestamp]
            gap   == Last(Rebuilt(times)).difficulty - Last(chain).difficulty
        IN  gap \in -2..2
=============================================================================
