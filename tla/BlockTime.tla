----------------------------- MODULE BlockTime ------------------------------
(* The block-time rule of core/blockchain.js, shared by the ledger and the *)
(* header modules: a block must be later than the median of the blocks     *)
(* just before it.                                                         *)
EXTENDS Integers, FiniteSets, Sequences

(* Mutant of medianTimePast: the window is not sorted.                     *)
medianTimePastUnsorted(window) == window[Len(window) \div 2 + 1]

(* window.sort()[floor(length / 2)]: the timestamp of the window that has  *)
(* at most half of the others before it.                                   *)
medianTimePast(window) ==
    LET before(t) == Cardinality({i \in DOMAIN window : window[i] < t})
        upTo(t)   == Cardinality({i \in DOMAIN window : window[i] <= t})
        middle    == Len(window) \div 2
    IN  CHOOSE t \in {window[i] : i \in DOMAIN window} :
            before(t) <= middle /\ middle < upTo(t)
=============================================================================
