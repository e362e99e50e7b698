----------------------------- MODULE Inclusion ------------------------------
(***************************************************************************)
(* How transactions move between a node's mempool and its chain: the trial *)
(* of core/blockchain.js buildCandidate, and what addBlock and replaceChain*)
(* do to the pool. Node and Relay share these.                             *)
(***************************************************************************)
EXTENDS Chain, Mempool

Selected(state, pool) == selectForBlock(pool, state, MAX_TXS_PER_BLOCK - 1)

(* Mutant of Trial: a transaction that fails the trial is mined anyway.    *)
TrialOfNothing(state, pool, index) ==
    [state |-> state, accepted |-> Selected(state, pool), pool |-> pool]

(* The trial of buildCandidate: what applies is accepted, what throws is   *)
(* left out and struck.                                                    *)
Trial(state, pool, index) ==
    FoldLeft(LAMBDA acc, tx :
                 IF CanApply(acc.state, tx)
                 THEN [acc EXCEPT !.state = Applied(@, tx), !.accepted = Append(@, tx)]
                 ELSE [acc EXCEPT !.pool = penalize(@, tx, index)],
             [state |-> state, accepted |-> << >>, pool |-> pool], Selected(state, pool))

(* Mutant of PoolAfterBlock: the pool keeps what was mined.                *)
PoolAfterBlockKeepingAll(pool, block, state, now) == pool

(* addBlock: what was mined and what it outdates leaves the pool.          *)
PoolAfterBlock(pool, block, state, now) ==
    reconcile(remove(pool, ToSet(block.txs)), state, now)

(* The transactions of the old chain that the new one lacks, in order.     *)
Orphaned(old, new) ==
    Dropping(FlattenSeq([i \in DOMAIN old |-> old[i].txs]), TxsOf(new))

(* Mutant of PoolAfterReorg: what the reorg drops is not put back.         *)
PoolAfterReorgForgetting(pool, old, new, state, now) ==
    reconcile(remove(pool, TxsOf(new)), state, now)

(* replaceChain: what was adopted leaves the pool, what was orphaned is    *)
(* added again as if it had just arrived, refusals included.               *)
PoolAfterReorg(pool, old, new, state, now) ==
    LET readd(p, tx) == add(p, tx, state, now)
    IN  reconcile(FoldLeft(readd, remove(pool, TxsOf(new)), Orphaned(old, new)), state, now)
=============================================================================
