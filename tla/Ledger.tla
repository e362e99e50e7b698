------------------------------- MODULE Ledger -------------------------------
(***************************************************************************)
(* What every transaction and every block does to the accounts, whatever   *)
(* the transaction is about: core/state.js applyTransaction and applyBlock,*)
(* core/ledger.js, the bank's own record of core/bank.js and the           *)
(* block-time rule of core/blockchain.js.                                  *)
(*                                                                         *)
(* applyBlock applies the transactions of one block in order to a copy of  *)
(* the state. Here a block is opened by BeginBlock, each transaction is a  *)
(* step, and the block is closed by the coinbase and the sweep of expired  *)
(* agreements. A transaction that would throw is simply not enabled: the   *)
(* code drops the copy, so no state it reaches is ever kept.               *)
(*                                                                         *)
(* The modules of the domains (Bank, Market, Land, ...) extend this one.   *)
(***************************************************************************)
EXTENDS Amounts, BlockTime

CONSTANTS
    None,                \* null, where a record leaves something out
    Addr,                \* the addresses that take part
    Genesis,             \* the allocation of the genesis block
    BLOCK_REWARD,
    MEDIAN_TIME_BLOCKS,
    MAX_AMOUNT,          \* Number.MAX_SAFE_INTEGER
    Fees,                \* the fees transactions offer, all at least MIN_FEE
    Times,               \* the timestamps blocks carry
    MaxNonce             \* bound: the transactions of one sender

ASSUME LedgerAssumption ==
    /\ IsFiniteSet(Addr)
    /\ Genesis \in [Addr -> Nat]
    /\ BLOCK_REWARD \in Nat
    /\ MEDIAN_TIME_BLOCKS \in Nat \ {0}
    /\ MAX_AMOUNT \in Nat
    /\ Fees \subseteq Nat \ {0}
    /\ Times \subseteq Nat
    /\ MaxNonce \in Nat

VARIABLES
    balance,    \* [Addr -> Nat]: account.balance
    nonce,      \* [Addr -> Nat]: account.nonce, the transactions it has landed
    bank,       \* state.bank, without the fees held in tokens
    height,     \* index of the last applied block; genesis is 0
    recent,     \* timestamps of the last MEDIAN_TIME_BLOCKS blocks
    block       \* the block being applied: its timestamp and fees so far

ledgerVars == <<balance, nonce, bank, height, recent, block>>

-----------------------------------------------------------------------------
(* Primitives                                                              *)

NoBlock == [open |-> FALSE, timestamp |-> 0, fees |-> 0]

(* checkedAdd: a sum that is not a safe integer makes the block invalid.   *)
Fits(n) == n <= MAX_AMOUNT

AllFit(table) == \A k \in DOMAIN table : Fits(table[k])

emptyBank == [pending |-> 0, vault |-> 0, treasury |-> 0, interestPaid |-> 0]

(* creditTreasury: existing coin that becomes the bank's.                  *)
creditTreasury(b, amount) == [b EXCEPT !.treasury = @ + amount]

(* Table without a key, whose row delete removes.                          *)
Without(table, key) == [k \in DOMAIN table \ {key} |-> table[k]]

(* Table with a new row, or with the row of key replaced.                  *)
With(table, key, row) ==
    [k \in DOMAIN table \cup {key} |-> IF k = key THEN row ELSE table[k]]

(* The window of recent timestamps once a block of time ts is applied.     *)
Push(window, ts) ==
    Append(IF Len(window) < MEDIAN_TIME_BLOCKS THEN window ELSE Tail(window), ts)

-----------------------------------------------------------------------------
(* Blocks and transactions                                                 *)

LedgerInit ==
    /\ balance = Genesis
    /\ nonce = [a \in Addr |-> 0]
    /\ bank = emptyBank
    /\ height = 0
    /\ recent = <<0>>
    /\ block = NoBlock

(* The header of the next block: its time need only pass the median of the *)
(* recent blocks, so it may lie before the time of the block it follows.   *)
BeginBlock(ts) ==
    /\ ~ block.open
    /\ ts > medianTimePast(recent)
    /\ block' = [open |-> TRUE, timestamp |-> ts, fees |-> 0]
    /\ UNCHANGED <<balance, nonce, bank, height, recent>>

(* applyTransaction, up to the handler: a transaction carries its sender's *)
(* next nonce and its fee is affordable on top of what the body costs.     *)
CanPay(from, fee, cost) ==
    /\ block.open
    /\ nonce[from] < MaxNonce
    /\ balance[from] >= fee + cost
    /\ Fits(block.fees + fee)

(* What every applied transaction leaves behind besides its handler.       *)
Landed(from, fee) ==
    /\ nonce' = [nonce EXCEPT ![from] = @ + 1]
    /\ block' = [block EXCEPT !.fees = @ + fee]
    /\ UNCHANGED <<height, recent>>

(* A transaction that pays the bank a price (or, at 0, only its fee).       *)
PayBank(from, fee, price) ==
    /\ CanPay(from, fee, price)
    /\ balance' = Minus(balance, from, fee + price)
    /\ bank' = creditTreasury(bank, price)
    /\ Fits(bank'.treasury)
    /\ Landed(from, fee)

PayFee(from, fee) == PayBank(from, fee, 0)

(* tx.hash: a transaction is known by its sender and nonce on one chain.   *)
TxId(from) == <<from, nonce[from]>>

(* TRANSFER of native coin.                                                *)
Transfer(from, to, amount, fee) ==
    /\ CanPay(from, fee, amount)
    /\ to # from
    /\ balance' = Plus(Minus(balance, from, fee + amount), to, amount)
    /\ Fits(balance'[to])
    /\ Landed(from, fee)
    /\ UNCHANGED bank

(* The end of applyBlock: the coinbase pays the reward and the fees, the   *)
(* sweep of expired agreements pays out of the bank, and the tip moves.    *)
CloseBlock(miner, payouts, newBank) ==
    /\ block.open
    /\ balance' = [a \in Addr |-> balance[a] + payouts[a]
                        + IF a = miner THEN BLOCK_REWARD + block.fees ELSE 0]
    /\ AllFit(balance')
    /\ bank' = newBank
    /\ AllFit(newBank)
    /\ height' = height + 1
    /\ recent' = Push(recent, block.timestamp)
    /\ block' = NoBlock
    /\ UNCHANGED nonce

-----------------------------------------------------------------------------

LedgerTypeOK ==
    /\ balance \in [Addr -> Nat]
    /\ nonce \in [Addr -> Nat]
    /\ bank \in [pending : Nat, vault : Nat, treasury : Nat, interestPaid : Nat]
    /\ height \in Nat
    /\ recent \in Seq(Nat)
    /\ block \in [open : BOOLEAN, timestamp : Nat, fees : Nat]
    /\ block.open \/ block = NoBlock

(* circulatingSupply for accounts and the bank; the fees of an open block  *)
(* have left their senders and not yet reached the miner.                  *)
circulatingSupply ==
    Total(balance) + bank.pending + bank.vault + bank.treasury + block.fees

(* What genesis and every later mint have put into circulation.            *)
Minted == Total(Genesis) + BLOCK_REWARD * height + bank.interestPaid
=============================================================================
