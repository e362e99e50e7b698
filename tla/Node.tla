-------------------------------- MODULE Node --------------------------------
(***************************************************************************)
(* One node's Blockchain object (core/blockchain.js) and its mempool, with *)
(* the world around it: clients submit transactions, the mining loop       *)
(* searches in slices between which anything else may run, peers hand over *)
(* any block or chain they ever made (late, twice, in any order or never), *)
(* snapshots are written and the process dies and restarts.                *)
(***************************************************************************)
EXTENDS Inclusion

CONSTANTS
    Me,                  \* the address this node mines for
    Peer,                \* the address the others mine for
    Txs,                 \* the transactions clients and peers may send
    Bodies,              \* the transaction lists peers put into blocks
    PeerTimes,           \* the times they give their blocks
    MaxHeight,           \* bound: the length of chains
    MaxOffered,          \* bound: the chains peers have made
    MaxTime              \* bound: the last reading of the clock

ASSUME NodeAssumption ==
    /\ {Me, Peer} \subseteq Addr
    /\ Txs \subseteq SignedTxs
    /\ Bodies \subseteq Seq(Txs)
    /\ PeerTimes \subseteq Nat
    /\ {MaxHeight, MaxOffered, MaxTime} \subseteq Nat

VARIABLES
    blocks,      \* this.blocks
    state,       \* this.state: accounts only
    work,        \* this.work
    txIndex,     \* this.txIndex, without the coinbases
    pool,        \* this.mempool
    searching,   \* the chain mineOnce tries to complete, << >> between searches
    disk,        \* chain.json: the last snapshot, << >> before the first
    offered,     \* the chains other miners have made
    now          \* Date.now()

chainVars == <<blocks, state, work, txIndex>>
nodeVars == <<blocks, state, work, txIndex, pool, searching, disk, offered, now>>

-----------------------------------------------------------------------------
(* Changing the chain                                                      *)

(* What addBlock asks of the last block of c: that it is new, that the     *)
(* rest of c is what this node holds, and the rules of validateChain, with *)
(* the state and the index standing in for the replay.                     *)
Appendable(c) ==
    LET block == Last(c)
    IN  /\ Front(c) = blocks
        /\ StructureOK(block, now)
        /\ ContextOK(blocks, block, now)
        /\ ToSet(block.txs) \cap DOMAIN txIndex = {}
        /\ applyBlock(state, block).ok

(* The index once the transactions of the block at i are entered.          *)
Indexed(index, i, block) ==
    [tx \in DOMAIN index \cup ToSet(block.txs) |->
        IF tx \in ToSet(block.txs)
        THEN <<i, CHOOSE p \in DOMAIN block.txs : block.txs[p] = tx>>
        ELSE index[tx]]

(* Mutant of addBlock: the index is that of the new block alone.           *)
addBlockForgettingIndex(c) ==
    LET block == Last(c)
        applied == applyBlock(state, block)
    IN  /\ blocks' = c
        /\ state' = applied.state
        /\ work' = work + blockWork(block)
        /\ txIndex' = Indexed(<< >>, Len(c), block)
        /\ pool' = PoolAfterBlock(pool, block, applied.state, now)

addBlock(c) ==
    LET block == Last(c)
        applied == applyBlock(state, block)
    IN  /\ blocks' = c
        /\ state' = applied.state
        /\ work' = work + blockWork(block)
        /\ txIndex' = Indexed(txIndex, Len(c), block)
        /\ pool' = PoolAfterBlock(pool, block, applied.state, now)

(* Mutants of Replaceable: any valid chain; length instead of work.        *)
ReplaceableIfValid(c) == validateChain(c, now).ok

ReplaceableByLength(c) ==
    /\ Len(c) > Len(blocks)
    /\ validateChain(c, now).ok

(* What replaceChain asks of a chain: strictly more work, and every rule.  *)
Replaceable(c) ==
    /\ totalWork(c) > work
    /\ validateChain(c, now).ok

(* Mutant of replaceChain: the work is not replaced.                       *)
replaceChainKeepingWork(c) ==
    LET result == validateChain(c, now)
    IN  /\ blocks' = c
        /\ state' = result.state
        /\ UNCHANGED work
        /\ txIndex' = IndexOf(c)
        /\ pool' = PoolAfterReorg(pool, blocks, c, result.state, now)

replaceChain(c) ==
    LET result == validateChain(c, now)
    IN  /\ blocks' = c
        /\ state' = result.state
        /\ work' = totalWork(c)
        /\ txIndex' = IndexOf(c)
        /\ pool' = PoolAfterReorg(pool, blocks, c, result.state, now)

-----------------------------------------------------------------------------
(* Mining                                                                  *)

Tried == Trial(state, pool, Len(blocks))

buildCandidate ==
    [timestamp  |-> CandidateTime(blocks, now),
     difficulty |-> expectedDifficulty(blocks),
     miner      |-> Me,
     txs        |-> Tried.accepted]

(* mineOnce is called: the candidate is fixed now and only its proof of    *)
(* work is looked for later.                                               *)
StartMining ==
    /\ searching = << >>
    /\ height(blocks) < MaxHeight
    /\ searching' = Append(blocks, buildCandidate)
    /\ pool' = Tried.pool
    /\ UNCHANGED <<blocks, state, work, txIndex, disk, offered, now>>

(* A slice finds the proof of work: addBlock, by the clock of this moment. *)
MineFound ==
    /\ searching # << >>
    /\ Front(searching) = blocks
    /\ IF Appendable(searching)
       THEN addBlock(searching)
       ELSE UNCHANGED <<chainVars, pool>>
    /\ searching' = << >>
    /\ UNCHANGED <<disk, offered, now>>

(* A slice notices that the tip is no longer the candidate's parent.       *)
MineTipChanged ==
    /\ searching # << >>
    /\ Front(searching) # blocks
    /\ searching' = << >>
    /\ UNCHANGED <<blocks, state, work, txIndex, pool, disk, offered, now>>

(* The loop is told to stop: a slice sees the signal and gives up.         *)
MineAborted ==
    /\ searching # << >>
    /\ searching' = << >>
    /\ UNCHANGED <<blocks, state, work, txIndex, pool, disk, offered, now>>

-----------------------------------------------------------------------------
(* Clients, peers, the clock and the disk                                  *)

submitTransaction(tx) ==
    /\ pool' = add(pool, tx, state, now)
    /\ UNCHANGED <<blocks, state, work, txIndex, searching, disk, offered, now>>

(* Somebody else's miner, who need not be honest, extends a chain: one     *)
(* that others made, or this node's, which it broadcasts.                  *)
PeerMines(c, block) ==
    /\ height(c) < MaxHeight
    /\ Cardinality(offered) < MaxOffered
    /\ offered' = offered \cup {Append(c, block)}
    /\ UNCHANGED <<blocks, state, work, txIndex, pool, searching, disk, now>>

ReceiveBlock(c) ==
    /\ Appendable(c)
    /\ addBlock(c)
    /\ UNCHANGED <<searching, disk, offered, now>>

ReceiveChain(c) ==
    /\ Replaceable(c)
    /\ replaceChain(c)
    /\ UNCHANGED <<searching, disk, offered, now>>

Tick ==
    /\ now < MaxTime
    /\ now' = now + 1
    /\ UNCHANGED <<blocks, state, work, txIndex, pool, searching, disk, offered>>

(* save: a temporary file renamed over the snapshot, so a crash leaves the *)
(* old snapshot or the new one.                                            *)
save ==
    /\ disk' = blocks
    /\ UNCHANGED <<blocks, state, work, txIndex, pool, searching, offered, now>>

(* The process dies, at any point, and a new one loads the snapshot the    *)
(* way it would take a chain from a peer. The mempool is not kept.         *)
Restart ==
    LET fresh  == <<genesisBlock>>
        loaded == IF Len(disk) > 1 /\ totalWork(disk) > totalWork(fresh)
                                   /\ validateChain(disk, now).ok
                  THEN disk ELSE fresh
    IN  /\ blocks' = loaded
        /\ state' = validateChain(loaded, now).state
        /\ work' = totalWork(loaded)
        /\ txIndex' = IndexOf(loaded)
        /\ pool' = emptyPool
        /\ searching' = << >>
        /\ UNCHANGED <<disk, offered, now>>

-----------------------------------------------------------------------------

NodeInit ==
    /\ blocks = <<genesisBlock>>
    /\ state = genesisState
    /\ work = blockWork(genesisBlock)
    /\ txIndex = << >>
    /\ pool = emptyPool
    /\ searching = << >>
    /\ disk = << >>
    /\ offered = {}
    /\ now = 0

PeerBlock ==
    [timestamp : PeerTimes, difficulty : MIN_DIFFICULTY..MAX_DIFFICULTY,
     miner : {Peer}, txs : Bodies]

NodeNext ==
    \/ \E tx \in Txs : submitTransaction(tx)
    \/ StartMining
    \/ MineFound
    \/ MineTipChanged
    \/ MineAborted
    \/ \E c \in offered \cup {<<genesisBlock>>, blocks}, block \in PeerBlock : PeerMines(c, block)
    \/ \E c \in offered : ReceiveBlock(c)
    \/ \E c \in offered : ReceiveChain(c)
    \/ Tick
    \/ save
    \/ Restart

NodeSpec == NodeInit /\ [][NodeNext]_nodeVars

-----------------------------------------------------------------------------
(* Properties                                                              *)

NodeTypeOK ==
    /\ height(blocks) \in 0..MaxHeight
    /\ state \in TypeOfState
    /\ work \in Nat
    /\ DOMAIN txIndex \subseteq Txs
    /\ Pooled(pool) \subseteq Txs
    /\ IsInjective(pool.txs)
    /\ \A tx \in DOMAIN pool.strikes : pool.strikes[tx].count \in 1..(MAX_STRIKES - 1)

(* The index finds every transaction of the chain, where it is, and none   *)
(* of an abandoned chain: a transaction is mined at most once.             *)
IndexIsExact ==
    /\ DOMAIN txIndex = TxsOf(blocks)
    /\ \A i \in DOMAIN blocks, tx \in DOMAIN txIndex :
          \A p \in DOMAIN blocks[i].txs : blocks[i].txs[p] = tx <=> txIndex[tx] = <<i, p>>

(* Every sender's transactions are mined in nonce order without a gap, on  *)
(* whatever fork they are, and the account remembers how many there were.  *)
NoncesInOrder ==
    LET places == UNION {{i} \X DOMAIN blocks[i].txs : i \in DOMAIN blocks}
        at(p)  == blocks[p[1]].txs[p[2]]
        after(p, q) == p[1] > q[1] \/ (p[1] = q[1] /\ p[2] > q[2])
    IN  /\ \A a \in Addr :
              {tx.nonce : tx \in {t \in TxsOf(blocks) : t.from = a}} = 0..(state.nonce[a] - 1)
        /\ \A p, q \in places :
              at(p).from = at(q).from /\ after(p, q) => at(p).nonce > at(q).nonce

(* The invariants the class states: the blocks are a fully validated chain *)
(* rooted at genesis, the state, built up block by block and swapped by    *)
(* reorgs and restarts, is what a replay of them gives, and so are the     *)
(* index and the work the next fork choice compares with.                  *)
StateIsReplay ==
    LET replay == validateChain(blocks, now)
    IN  /\ replay.ok
        /\ state = replay.state
        /\ work = totalWork(blocks)
        /\ IndexIsExact
        /\ NoncesInOrder

(* The pool never holds a transaction that is on the chain or whose nonce  *)
(* has been used. Its limits hold through reorgs, which put transactions   *)
(* back; strikes are kept for pooled transactions only: one that leaves    *)
(* and comes back starts with none, and none are leaked.                   *)
PoolIsSound ==
    /\ \A tx \in Pooled(pool) : tx \notin TxsOf(blocks) /\ tx.nonce >= state.nonce[tx.from]
    /\ Len(pool.txs) <= MAX_MEMPOOL_TXS
    /\ \A a \in Addr : Cardinality(PendingFor(pool, a)) <= RUN_AHEAD
    /\ DOMAIN pool.strikes \subseteq Pooled(pool)

(* While its parent is the tip, the candidate being searched for applies:  *)
(* whatever was submitted since it was built, no proof of work is wasted   *)
(* on a block whose body this node would refuse.                           *)
CandidateApplies ==
    searching # << >> /\ Front(searching) = blocks =>
        LET body == Last(searching).txs
        IN  /\ Len(body) < MAX_TXS_PER_BLOCK
            /\ IsInjective(body)
            /\ ToSet(body) \cap DOMAIN txIndex = {}
            /\ ApplyAll(state, body).ok

Snapshot == IF disk = << >> THEN <<genesisBlock>> ELSE disk

(* A snapshot always loads, and the node is never behind it.               *)
SnapshotIsUsable ==
    /\ validateChain(Snapshot, now).ok
    /\ totalWork(Snapshot) <= work

(* A node implements HeaviestChain: adding a block and a reorg are both    *)
(* its Adopt, and everything else leaves chain, accounts and snapshot.     *)
(* The rules are taken by the latest clock: what is valid now stays valid. *)
ValidInTheEnd(c) == validateChain(c, MaxTime).ok

AccountsOf(c) == validateChain(c, MaxTime).state

Promise ==
    INSTANCE HeaviestChain WITH
        Start <- <<genesisBlock>>, Work <- totalWork, Valid <- ValidInTheEnd,
        Replay <- AccountsOf, chain <- blocks, accounts <- state, saved <- Snapshot

ImplementsHeaviestChain == Promise!Spec

(* "A single bad one is dropped instead of producing a block the network   *)
(* will reject" (the comment of buildCandidate): the candidate passes the  *)
(* structural rules every node applies.                                    *)
CandidateAcceptable ==
    searching # << >> => StructureOK(Last(searching), now)

(* "Transactions dropped by the reorg go back to the mempool" unless they  *)
(* are old, their nonce is used or too far off on the new chain, their     *)
(* sender cannot pay the fee there, or there is not room for all that the  *)
(* new chain leaves unmined: what is pooled already keeps its place until  *)
(* reconcile, which runs last, even where it is outdated.                  *)
ReorgPutsBack ==
    [][totalWork(blocks') > totalWork(blocks) =>
          LET unmined == (Pooled(pool) \cup TxsOf(blocks)) \ TxsOf(blocks')
          IN  \A tx \in TxsOf(blocks) \ TxsOf(blocks') :
                  \/ tx \in Pooled(pool')
                  \/ Outdated(tx, state', now)
                  \/ tx.nonce > state'.nonce[tx.from] + RUN_AHEAD
                  \/ tx.fee > state'.balance[tx.from]
                  \/ Cardinality(unmined) > MAX_MEMPOOL_TXS
                  \/ Cardinality({t \in unmined : t.from = tx.from}) > RUN_AHEAD]_nodeVars

(* "A transaction that is merely waiting on an ordering it will eventually *)
(* get is not thrown out" (penalize): what a candidate evicts is next in   *)
(* line for its sender, so it failed by itself.                            *)
EvictsOnlyDead ==
    [][searching = << >> /\ searching' # << >> =>
          \A tx \in Pooled(pool) \ Pooled(pool') :
              tx.nonce = state.nonce[tx.from]]_nodeVars
=============================================================================
