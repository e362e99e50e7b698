---------------------------- MODULE Transactions ----------------------------
(* What is checked of a transaction wherever one arrives, from a client, a *)
(* peer or a block: validateTransaction of core/transaction.js. Shape,     *)
(* hash and signature are not modelled: every transaction here is one its  *)
(* sender signed, and it is known by its contents, which its hash covers.  *)
EXTENDS Integers

CONSTANTS
    MIN_FEE,
    MAX_TX_FUTURE_DRIFT_MS

ASSUME TransactionsAssumption == {MIN_FEE, MAX_TX_FUTURE_DRIFT_MS} \subseteq Nat

validateTransaction(tx, now) ==
    /\ tx.fee >= MIN_FEE
    /\ tx.timestamp <= now + MAX_TX_FUTURE_DRIFT_MS
=============================================================================
