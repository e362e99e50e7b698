------------------------------- MODULE Chain --------------------------------
(***************************************************************************)
(* Applying and validating blocks: core/state.js applyTransaction and      *)
(* applyBlock, core/block.js validateBlockStructure and core/blockchain.js *)
(* validateChain. Transactions are transfers, the least that lets one fail *)
(* on one chain and apply on another; the domains' own handlers are in     *)
(* Bank and its siblings.                                                  *)
(*                                                                         *)
(* A block is [timestamp, difficulty, miner, txs]; miner and the fees of   *)
(* txs stand for its coinbase, which validateBlockStructure wants first    *)
(* and alone.                                                              *)
(***************************************************************************)
EXTENDS Headers, Amounts, Transactions

CONSTANTS
    Addr,
    Genesis,             \* the allocations of the genesis block
    BLOCK_REWARD,
    MAX_TXS_PER_BLOCK,
    MAX_BLOCK_BYTES

ASSUME ChainAssumption ==
    /\ IsFiniteSet(Addr)
    /\ Genesis \in [Addr -> Nat]
    /\ {BLOCK_REWARD, MAX_BLOCK_BYTES} \subseteq Nat
    /\ MAX_TXS_PER_BLOCK \in Nat \ {0}

(* What a transaction says, signed by its sender.                          *)
SignedTxs ==
    [from : Addr, to : Addr, nonce : Nat, fee : Nat, amount : Nat, timestamp : Nat, size : Nat]

TypeOfState == [balance : [Addr -> Nat], nonce : [Addr -> Nat]]

genesisState == [balance |-> Genesis, nonce |-> [a \in Addr |-> 0]]

-----------------------------------------------------------------------------
(* Applying                                                                *)

(* Mutant of CanApply: the nonce is only required not to be used yet.      *)
CanApplyAnyNonce(state, tx) ==
    /\ tx.nonce >= state.nonce[tx.from]
    /\ state.balance[tx.from] >= tx.fee + tx.amount
    /\ tx.to # tx.from

(* The tests of applyTransaction and of the transfer it dispatches to.     *)
CanApply(state, tx) ==
    /\ tx.nonce = state.nonce[tx.from]
    /\ state.balance[tx.from] >= tx.fee + tx.amount
    /\ tx.to # tx.from

Applied(state, tx) ==
    [balance |-> Plus(Minus(state.balance, tx.from, tx.fee + tx.amount), tx.to, tx.amount),
     nonce   |-> [state.nonce EXCEPT ![tx.from] = @ + 1]]

(* The transactions of a body in order; ok is FALSE once one has thrown.   *)
ApplyAll(state, txs) ==
    FoldLeft(LAMBDA acc, tx :
                 IF acc.ok /\ CanApply(acc.state, tx)
                 THEN [ok |-> TRUE, state |-> Applied(acc.state, tx)]
                 ELSE [acc EXCEPT !.ok = FALSE],
             [ok |-> TRUE, state |-> state], txs)

FeesOf(txs) == FoldLeft(LAMBDA sum, tx : sum + tx.fee, 0, txs)

(* The coinbase comes last: the miner cannot spend in the block it mines.  *)
applyBlock(state, block) ==
    LET body == ApplyAll(state, block.txs)
    IN  [body EXCEPT !.state.balance =
            Plus(@, block.miner, BLOCK_REWARD + FeesOf(block.txs))]

-----------------------------------------------------------------------------
(* Validating                                                              *)

blockSize(block) == FoldLeft(LAMBDA sum, tx : sum + tx.size, 0, block.txs)

(* validateBlockStructure, with the coinbase counted among the txs.        *)
StructureOK(block, now) ==
    /\ Len(block.txs) + 1 <= MAX_TXS_PER_BLOCK
    /\ blockSize(block) <= MAX_BLOCK_BYTES
    /\ IsInjective(block.txs)
    /\ \A tx \in ToSet(block.txs) : validateTransaction(tx, now)

(* checkContext for the block that would follow chain.                     *)
ContextOK(chain, block, now) ==
    /\ block.difficulty = expectedDifficulty(chain)
    /\ InTime(chain, block.timestamp, now)

TxsOf(chain) == UNION {ToSet(chain[i].txs) : i \in DOMAIN chain}

(* The transaction index: where in the chain a transaction is.             *)
IndexOf(chain) ==
    [tx \in TxsOf(chain) |->
        CHOOSE at \in UNION {{i} \X DOMAIN chain[i].txs : i \in DOMAIN chain} :
            chain[at[1]].txs[at[2]] = tx]

(* One round of the loop of validateChain: block i on the chain before it. *)
Validated(acc, block, now) ==
    LET applied == applyBlock(acc.state, block)
    IN  [ok    |-> /\ acc.ok
                   /\ StructureOK(block, now)
                   /\ ContextOK(acc.chain, block, now)
                   /\ ToSet(block.txs) \cap TxsOf(acc.chain) = {}
                   /\ applied.ok,
         state |-> applied.state,
         chain |-> Append(acc.chain, block)]

(* validateChain: replay from genesis; state is meaningful when ok.        *)
validateChain(chain, now) ==
    IF Head(chain) # genesisBlock
    THEN [ok |-> FALSE, state |-> genesisState, chain |-> << >>]
    ELSE FoldLeft(LAMBDA acc, block : IF acc.ok THEN Validated(acc, block, now) ELSE acc,
                  [ok |-> TRUE, state |-> genesisState, chain |-> <<genesisBlock>>],
                  Tail(chain))
=============================================================================
