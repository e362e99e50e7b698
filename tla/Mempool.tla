------------------------------ MODULE Mempool -------------------------------
(***************************************************************************)
(* core/mempool.js: the transactions a node holds until they are mined.    *)
(* A pool is a record of txs, in insertion order (the order a Map iterates *)
(* in), and strikes, the failed attempts counted per transaction.          *)
(*                                                                         *)
(* The operators are pure: the class Blockchain (Node.tla) passes in the   *)
(* account state and the clock. A transaction is known by its contents,    *)
(* which its hash commits to.                                              *)
(***************************************************************************)
EXTENDS Transactions, SequencesExt

CONSTANTS
    MAX_MEMPOOL_TXS,
    RUN_AHEAD,               \* 16: how far a sender may queue ahead
    MAX_STRIKES,
    TX_EXPIRY_MS

ASSUME MempoolAssumption ==
    /\ {MAX_MEMPOOL_TXS, RUN_AHEAD, MAX_STRIKES} \subseteq Nat \ {0}
    /\ TX_EXPIRY_MS \in Nat

emptyPool == [txs |-> << >>, strikes |-> << >>]

Pooled(pool) == ToSet(pool.txs)

PendingFor(pool, from) == {tx \in Pooled(pool) : tx.from = from}

(* Mutants of Acceptable: everybody's transactions count as the sender's;  *)
(* the limits on what one sender may queue are dropped.                    *)
AcceptableShared(pool, tx, state, now) ==
    /\ validateTransaction(tx, now)
    /\ tx \notin Pooled(pool)
    /\ Len(pool.txs) < MAX_MEMPOOL_TXS
    /\ state.nonce[tx.from] <= tx.nonce
    /\ tx.nonce <= state.nonce[tx.from] + RUN_AHEAD
    /\ Cardinality(Pooled(pool)) < RUN_AHEAD
    /\ tx.fee <= state.balance[tx.from]

AcceptableUnlimited(pool, tx, state, now) ==
    /\ validateTransaction(tx, now)
    /\ tx \notin Pooled(pool)
    /\ Len(pool.txs) < MAX_MEMPOOL_TXS
    /\ state.nonce[tx.from] <= tx.nonce
    /\ tx.fee <= state.balance[tx.from]

(* What add asks of a transaction. Only the fee must be affordable: what   *)
(* the body spends is left to block application.                           *)
Acceptable(pool, tx, state, now) ==
    /\ validateTransaction(tx, now)
    /\ tx \notin Pooled(pool)
    /\ Len(pool.txs) < MAX_MEMPOOL_TXS
    /\ state.nonce[tx.from] <= tx.nonce
    /\ tx.nonce <= state.nonce[tx.from] + RUN_AHEAD
    /\ Cardinality(PendingFor(pool, tx.from)) < RUN_AHEAD
    /\ tx.fee <= state.balance[tx.from]

add(pool, tx, state, now) ==
    IF Acceptable(pool, tx, state, now)
    THEN [pool EXCEPT !.txs = Append(@, tx)]
    ELSE pool

(* The members of txs that are not in gone, in their order.                *)
Dropping(txs, gone) ==
    FoldLeft(LAMBDA kept, tx : IF tx \in gone THEN kept ELSE Append(kept, tx), << >>, txs)

remove(pool, gone) ==
    [txs     |-> Dropping(pool.txs, gone),
     strikes |-> Restrict(pool.strikes, DOMAIN pool.strikes \ gone)]

(* The strikes once tx is recorded with strike.                            *)
Struck(strikes, tx, strike) ==
    [t \in DOMAIN strikes \cup {tx} |-> IF t = tx THEN strike ELSE strikes[t]]

(* Mutant of penalize: one strike more is allowed.                         *)
penalizeOnceMore(pool, tx, index) ==
    LET struck == tx \in DOMAIN pool.strikes
        count  == IF struck THEN pool.strikes[tx].count + 1 ELSE 1
    IN  IF struck /\ pool.strikes[tx].lastHeight = index THEN pool
        ELSE IF count > MAX_STRIKES THEN remove(pool, {tx})
        ELSE [pool EXCEPT !.strikes = Struck(@, tx, [count |-> count, lastHeight |-> index])]

(* One strike per height; the last one evicts.                             *)
penalize(pool, tx, index) ==
    LET struck == tx \in DOMAIN pool.strikes
        count  == IF struck THEN pool.strikes[tx].count + 1 ELSE 1
    IN  IF struck /\ pool.strikes[tx].lastHeight = index THEN pool
        ELSE IF count >= MAX_STRIKES THEN remove(pool, {tx})
        ELSE [pool EXCEPT !.strikes = Struck(@, tx, [count |-> count, lastHeight |-> index])]

(* The one of several transactions with the same sender and nonce that is  *)
(* tried: the highest fee, and of equal fees the one that came first.      *)
Best(pool, from, nonce) ==
    LET rivals == {i \in DOMAIN pool.txs :
                      pool.txs[i].from = from /\ pool.txs[i].nonce = nonce}
    IN  {i \in rivals : \A j \in rivals \ {i} :
            \/ pool.txs[j].fee < pool.txs[i].fee
            \/ pool.txs[j].fee = pool.txs[i].fee /\ i < j}

(* The positions of the transactions of one sender that follow on from its *)
(* account nonce without a gap, in nonce order.                            *)
RunOf(pool, from, state) ==
    LET first == state.nonce[from]
        reach == Max({n \in first..(first + Len(pool.txs)) :
                        \A k \in first..(n - 1) : Best(pool, from, k) # {}})
    IN  [k \in 1..(reach - first) |->
            CHOOSE i \in Best(pool, from, first + k - 1) : TRUE]

(* The senders' runs, highest first fee first and of equal fees the sender *)
(* that entered the pool first, cut at the limit.                          *)
selectForBlock(pool, state, limit) ==
    LET senders == {f \in {tx.from : tx \in Pooled(pool)} : RunOf(pool, f, state) # << >>}
        entered(f) == Min({i \in DOMAIN pool.txs : pool.txs[i].from = f})
        fee(f) == pool.txs[RunOf(pool, f, state)[1]].fee
        before(f, g) == fee(f) > fee(g) \/ (fee(f) = fee(g) /\ entered(f) < entered(g))
        order == CHOOSE s \in [1..Cardinality(senders) -> senders] :
                     \A i, j \in DOMAIN s : i < j => before(s[i], s[j])
        all == FlattenSeq([k \in DOMAIN order |-> RunOf(pool, order[k], state)])
    IN  [k \in 1..Min({limit, Len(all)}) |-> pool.txs[all[k]]]

(* What a new tip makes useless: a nonce already used, or too old.         *)
Outdated(tx, state, now) ==
    \/ tx.nonce < state.nonce[tx.from]
    \/ now - tx.timestamp > TX_EXPIRY_MS

reconcile(pool, state, now) ==
    remove(pool, {tx \in Pooled(pool) : Outdated(tx, state, now)})
=============================================================================
