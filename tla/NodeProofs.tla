----------------------------- MODULE NodeProofs -----------------------------
(***************************************************************************)
(* Proofs about Node: the chain a node holds is valid and the accounts,    *)
(* the index and the work kept beside it are its own, its pool is sound    *)
(* and its candidates apply, and the node implements HeaviestChain. What   *)
(* the operators compute is in InclusionProofs; this is about the steps.   *)
(***************************************************************************)
EXTENDS Node, InclusionProofs

-----------------------------------------------------------------------------
(* The index and the order of nonces                                       *)

LEMMA IndexedExact ==
    ASSUME NEW c \in Seq(BlockSet), NEW b \in BlockSet, NEW index, Exact(index, c),
           IsInjective(b.txs), ToSet(b.txs) \cap TxsOf(c) = {},
           NEW n \in Nat, n = Len(c) + 1
    PROVE  Exact(Indexed(index, n, b), Append(c, b))
PROOF
<1>1. PICK e : e = Append(c, b)
    OBVIOUS
<1>2. /\ e[n] = b /\ n \notin DOMAIN c
      /\ \A i \in DOMAIN c : e[i] = c[i]
      /\ \A i \in DOMAIN e : i \in DOMAIN c \/ i = n
    BY <1>1, Longer
<1>3. PICK new : new = Indexed(index, n, b)
    OBVIOUS
<1>4. PICK body : body = b.txs
    OBVIOUS
<1>5. /\ DOMAIN new = TxsOf(c) \cup ToSet(body)
      /\ \A tx \in ToSet(body) : new[tx] = <<n, CHOOSE p \in DOMAIN body : body[p] = tx>>
      /\ \A tx \in TxsOf(c) : new[tx] = index[tx]
    BY <1>3, <1>4 DEF Indexed, Exact
<1>6. DOMAIN new = TxsOf(e)
    BY <1>1, <1>4, <1>5, TxsOfAppend
<1>7. ASSUME NEW i \in DOMAIN e, NEW tx \in DOMAIN new, NEW p \in DOMAIN e[i].txs
      PROVE  e[i].txs[p] = tx <=> new[tx] = <<i, p>>
  <2>1. CASE tx \in ToSet(body)
    <3>1. PICK q \in DOMAIN body : body[q] = tx
        BY <2>1 DEF ToSet
    <3>2. \A r \in DOMAIN body : body[r] = tx => r = q
        BY <1>4, <3>1 DEF IsInjective
    <3>3. new[tx] = <<n, q>>
      <4>1. (CHOOSE r \in DOMAIN body : body[r] = tx) = q
          BY <3>1, <3>2
      <4> QED
          BY <1>5, <2>1, <4>1
    <3>4. CASE i = n
        BY <1>2, <1>4, <3>1, <3>2, <3>3, <3>4
    <3>5. CASE i \in DOMAIN c
      <4>1. e[i].txs[p] \in TxsOf(c)
          BY <1>2, <3>5 DEF TxsOf, ToSet
      <4>2. e[i].txs[p] # tx
          BY <1>4, <2>1, <4>1
      <4>3. i # n
          BY <1>2, <3>5
      <4> QED
          BY <3>3, <4>2, <4>3
    <3> QED
        BY <1>2, <3>4, <3>5
  <2>2. CASE tx \in TxsOf(c)
    <3>1. new[tx] = index[tx]
        BY <1>5, <2>2
    <3>2. CASE i \in DOMAIN c
        BY <1>2, <2>2, <3>1, <3>2 DEF Exact
    <3>3. CASE i = n
      <4>1. e[i].txs[p] # tx
          BY <1>2, <1>4, <2>2, <3>3 DEF ToSet
      <4>5. PICK j \in DOMAIN c : \E q \in DOMAIN c[j].txs : c[j].txs[q] = tx
          BY <2>2 DEF TxsOf, ToSet
      <4>2. PICK q \in DOMAIN c[j].txs : c[j].txs[q] = tx
          BY <4>5
      <4>3. index[tx] = <<j, q>>
          BY <2>2, <4>2 DEF Exact
      <4>4. j # n
          BY <1>2
      <4> QED
          BY <3>1, <3>3, <4>1, <4>3, <4>4
    <3> QED
        BY <1>2, <3>2, <3>3
  <2> QED
      BY <1>5, <2>1, <2>2
<1> QED
    BY <1>1, <1>3, <1>6, <1>7 DEF Exact

LEMMA OrderIsNonces ==
    ASSUME ChainOrder(blocks, state.nonce)
    PROVE  NoncesInOrder
PROOF
<1>1. PICK places : places = UNION {{i} \X DOMAIN blocks[i].txs : i \in DOMAIN blocks}
    OBVIOUS
<1>2. ASSUME NEW m \in places
      PROVE  m[1] \in DOMAIN blocks /\ m[2] \in DOMAIN blocks[m[1]].txs
  <2>1. PICK i \in DOMAIN blocks : m \in {i} \X DOMAIN blocks[i].txs
      BY <1>1
  <2> QED
      BY <2>1
<1>3. \A m, n \in places :
          /\ blocks[m[1]].txs[m[2]].from = blocks[n[1]].txs[n[2]].from
          /\ m[1] > n[1] \/ (m[1] = n[1] /\ m[2] > n[2])
          => blocks[m[1]].txs[m[2]].nonce > blocks[n[1]].txs[n[2]].nonce
    BY <1>2 DEF ChainOrder
<1> QED
    BY <1>1, <1>3 DEF NoncesInOrder, ChainOrder, NoncesOf

-----------------------------------------------------------------------------
(* The invariant                                                           *)

(* A chain this node may hold at time t.                                   *)
Held(c, t) == c \in ChainSet /\ height(c) <= MaxHeight /\ validateChain(c, t).ok

(* A candidate b on top of c, as buildCandidate leaves it.                 *)
Sought(c, b, t) ==
    /\ Held(c, t) /\ height(c) < MaxHeight
    /\ b \in BlockSet
    /\ Len(b.txs) < MAX_TXS_PER_BLOCK
    /\ ApplyAll(After(c, t), b.txs).ok

ClockInv == now \in 0..MaxTime

ChainInv ==
    /\ Held(blocks, now)
    /\ state = After(blocks, now)
    /\ work = totalWork(blocks)
    /\ Exact(txIndex, blocks)

PoolInv ==
    /\ PoolFit(pool)
    /\ \A tx \in Pooled(pool) : ~ (tx.nonce < state.nonce[tx.from])

SearchInv ==
    searching = << >> \/ \E c, b : searching = Append(c, b) /\ Sought(c, b, now)

DiskInv == disk = << >> \/ (Held(disk, now) /\ totalWork(disk) <= totalWork(blocks))

OfferInv == \A c \in offered : c \in ChainSet /\ height(c) <= MaxHeight

NodeInv == ClockInv /\ ChainInv /\ PoolInv /\ SearchInv /\ DiskInv /\ OfferInv

LEMMA HeldLater ==
    ASSUME NEW t \in Nat, NEW u \in Nat, t <= u, NEW c, Held(c, t)
    PROVE  Held(c, u) /\ After(c, u) = After(c, t)
PROOF
BY ValidLater DEF Held

LEMMA HeldGenesis ==
    ASSUME NEW t
    PROVE  /\ Held(<<genesisBlock>>, t) /\ After(<<genesisBlock>>, t) = genesisState
           /\ Len(<<genesisBlock>>) = 1
PROOF
<1>1. height(<<genesisBlock>>) = 0 /\ Len(<<genesisBlock>>) = 1
    BY DEF height
<1>2. MaxHeight \in Nat
    BY NodeAssumption
<1> QED
    BY <1>1, <1>2, GenesisType, ValidateAlone DEF Held, After, Rooted

(* What a restart loads is the snapshot, or genesis where there is none.   *)
LEMMA LoadedIs ==
    ASSUME ClockInv, DiskInv
    PROVE  /\ Snapshot = IF Len(disk) > 1 /\ totalWork(disk) > totalWork(<<genesisBlock>>)
                               /\ validateChain(disk, now).ok
                         THEN disk ELSE <<genesisBlock>>
           /\ Held(Snapshot, now)
PROOF
<1>1. CASE disk = << >>
    BY <1>1, HeldGenesis DEF Snapshot
<1>2. CASE disk # << >>
  <2>1. Held(disk, now)
      BY <1>2 DEF DiskInv
  <2>2. disk = <<genesisBlock>> \/ (Len(disk) > 1 /\ totalWork(disk) > totalWork(<<genesisBlock>>))
      BY <2>1, GenesisIsLightest DEF Held
  <2>3. disk = <<genesisBlock>> => ~ (Len(disk) > 1)
      BY HeldGenesis
  <2> QED
      BY <1>2, <2>1, <2>2, <2>3 DEF Snapshot, Held
<1> QED
    BY <1>1, <1>2

(* No chain this node may hold has less work than genesis alone.           *)
LEMMA HeldWork ==
    ASSUME NEW t, NEW c, Held(c, t)
    PROVE  totalWork(c) \in Nat /\ totalWork(<<genesisBlock>>) <= totalWork(c)
PROOF
<1>1. c \in ChainSet /\ c \in Seq(BlockSet)
    BY DEF Held, ChainSet
<1>2. totalWork(c) \in Nat /\ totalWork(<<genesisBlock>>) \in Nat
    BY <1>1, WorkType, GenesisType DEF ChainSet
<1>3. c = <<genesisBlock>> \/ totalWork(c) > totalWork(<<genesisBlock>>)
    BY GenesisIsLightest DEF Held
<1> QED
    BY <1>2, <1>3

LEMMA NodeInitInv == NodeInit => NodeInv
PROOF
<1> SUFFICES ASSUME NodeInit
             PROVE  NodeInv
    OBVIOUS
<1> USE DEF NodeInit
<1>1. ClockInv
    BY NodeAssumption DEF ClockInv
<1>2. Held(blocks, now) /\ state = After(blocks, now)
    BY HeldGenesis
<1>3. work = totalWork(blocks)
    BY WorkOfAlone
<1>4. Exact(txIndex, blocks)
  <2>1. DOMAIN txIndex = {} /\ TxsOf(blocks) = {}
      BY TxsOfAlone
  <2> QED
      BY <2>1 DEF Exact
<1>5. PoolInv
    BY FitEmpty DEF PoolInv
<1> QED
    BY <1>1, <1>2, <1>3, <1>4, <1>5 DEF NodeInv, ChainInv, SearchInv, DiskInv, OfferInv

-----------------------------------------------------------------------------
(* What the steps do to it                                                 *)

LEMMA AddBlockStep ==
    ASSUME ClockInv, ChainInv, PoolInv, NEW c \in ChainSet, height(c) <= MaxHeight,
           Appendable(c), addBlock(c), now' = now
    PROVE  /\ ChainInv' /\ PoolInv'
           /\ totalWork(blocks') > totalWork(blocks)
           /\ TxsOf(blocks) \subseteq TxsOf(blocks')
PROOF
<1>1. c \in Seq(BlockSet) /\ c # << >> /\ blocks \in ChainSet /\ blocks \in Seq(BlockSet)
    BY DEF ChainInv, Held, ChainSet
<1>2. PICK b : b = Last(c)
    OBVIOUS
<1>3. Front(c) = blocks
    BY DEF Appendable
<1>4. b \in BlockSet /\ c = Append(blocks, b)
    BY <1>1, <1>2, <1>3, FrontLast
<1>5. state = After(blocks, now) /\ validateChain(blocks, now).ok /\ DOMAIN txIndex = TxsOf(blocks)
    BY DEF ChainInv, Held, Exact
<1>6. FollowsOn(blocks, b, now)
    BY <1>2, <1>5 DEF Appendable, FollowsOn, After
<1>7. validateChain(c, now).ok /\ After(c, now) = applyBlock(state, b).state
    BY <1>1, <1>4, <1>5, <1>6, ValidAppend
<1>8. /\ blocks' = c /\ state' = applyBlock(state, b).state
      /\ work' = work + blockWork(b)
      /\ txIndex' = Indexed(txIndex, Len(c), b)
      /\ pool' = PoolAfterBlock(pool, b, applyBlock(state, b).state, now)
    BY <1>2 DEF addBlock
<1>9. /\ totalWork(blocks) \in Nat
      /\ totalWork(c) = totalWork(blocks) + blockWork(b)
      /\ totalWork(c) > totalWork(blocks)
    BY <1>1, <1>4, WorkGrows
<1>10. work' = totalWork(blocks')
    BY <1>8, <1>9 DEF ChainInv
<1>11. Exact(txIndex', blocks')
  <2>1. IsInjective(b.txs) /\ ToSet(b.txs) \cap TxsOf(blocks) = {}
      BY <1>6 DEF FollowsOn, StructureOK
  <2>2. Len(c) \in Nat /\ Len(c) = Len(blocks) + 1
      BY <1>1, <1>4, AppendProperties, LenProperties
  <2>3. Exact(txIndex, blocks)
      BY DEF ChainInv
  <2>4. Exact(Indexed(txIndex, Len(c), b), Append(blocks, b))
      BY <1>1, <1>4, <2>1, <2>2, <2>3, IndexedExact
  <2> QED
      BY <1>4, <1>8, <2>4
<1>12. Held(blocks', now') /\ state' = After(blocks', now')
    BY <1>7, <1>8 DEF Held
<1>13. ChainInv'
    BY <1>10, <1>11, <1>12 DEF ChainInv
<1>14. PoolInv'
  <2>1. PoolFit(pool)
      BY DEF PoolInv
  <2>2. /\ PoolFit(pool')
        /\ Pooled(pool') = {tx \in Pooled(pool) \ ToSet(b.txs) : ~ Outdated(tx, state', now)}
      BY <1>8, <2>1, FitAfterBlock
  <2>3. \A tx \in Pooled(pool') : ~ (tx.nonce < state'.nonce[tx.from])
      BY <2>2 DEF Outdated
  <2> QED
      BY <2>2, <2>3 DEF PoolInv
<1>15. TxsOf(blocks) \subseteq TxsOf(blocks')
    BY <1>1, <1>4, <1>8, TxsOfAppend
<1> QED
    BY <1>8, <1>9, <1>13, <1>14, <1>15

LEMMA ReplaceStep ==
    ASSUME ClockInv, ChainInv, PoolInv, NEW c \in ChainSet, height(c) <= MaxHeight,
           Replaceable(c), replaceChain(c), now' = now
    PROVE  ChainInv' /\ PoolInv' /\ totalWork(blocks') > totalWork(blocks)
PROOF
<1>1. validateChain(c, now).ok /\ totalWork(c) > work
    BY DEF Replaceable
<1>2. /\ blocks' = c /\ state' = After(c, now) /\ work' = totalWork(c) /\ txIndex' = IndexOf(c)
      /\ pool' = PoolAfterReorg(pool, blocks, c, state', now)
    BY DEF replaceChain, After
<1>3. Exact(txIndex', blocks')
    BY <1>1, <1>2, ValidDistinct, IndexOfExact DEF ChainSet
<1>4. ChainInv'
    BY <1>1, <1>2, <1>3 DEF ChainInv, Held
<1>5. PoolInv'
  <2>1. PoolFit(pool) /\ blocks \in Seq(BlockSet)
      BY DEF PoolInv, ChainInv, Held, ChainSet
  <2>2. /\ PoolFit(pool')
        /\ \A tx \in Pooled(pool') : ~ Outdated(tx, state', now)
      BY <1>2, <2>1, FitAfterReorg
  <2> QED
      BY <2>2 DEF PoolInv, Outdated
<1> QED
    BY <1>1, <1>2, <1>4, <1>5 DEF ChainInv

LEMMA RestartStep ==
    ASSUME ClockInv, ChainInv, DiskInv, Restart
    PROVE  /\ ChainInv' /\ PoolInv'
           /\ blocks' = Snapshot
           /\ ~ (totalWork(blocks') > totalWork(blocks))
           /\ totalWork(Snapshot) <= totalWork(blocks')
PROOF
<1>1. Held(Snapshot, now) /\ blocks' = Snapshot
    BY LoadedIs DEF Restart
<1>2. /\ state' = After(Snapshot, now) /\ work' = totalWork(Snapshot)
      /\ txIndex' = IndexOf(Snapshot) /\ pool' = emptyPool /\ now' = now
    BY LoadedIs DEF Restart, After
<1>3. Exact(txIndex', blocks')
    BY <1>1, <1>2, ValidDistinct, IndexOfExact DEF Held, ChainSet
<1>4. ChainInv'
    BY <1>1, <1>2, <1>3 DEF ChainInv
<1>5. PoolInv'
    BY <1>2, FitEmpty DEF PoolInv
<1>6. totalWork(Snapshot) \in Nat /\ totalWork(blocks) \in Nat
      /\ totalWork(<<genesisBlock>>) <= totalWork(blocks)
    BY <1>1, HeldWork DEF ChainInv
<1>7. totalWork(Snapshot) <= totalWork(blocks)
    BY <1>6 DEF Snapshot, DiskInv
<1> QED
    BY <1>1, <1>4, <1>5, <1>6, <1>7

(* The candidate is a block, and its body applies after the chain.         *)
LEMMA CandidateIs ==
    ASSUME ClockInv, ChainInv, PoolInv, NEW trial, trial = Tried
    PROVE  /\ buildCandidate \in BlockSet /\ buildCandidate.txs = trial.accepted
           /\ Len(trial.accepted) < MAX_TXS_PER_BLOCK
           /\ ApplyAll(state, trial.accepted).ok
           /\ PoolFit(trial.pool) /\ Pooled(trial.pool) \subseteq Pooled(pool)
           /\ ToSet(trial.accepted) \subseteq Pooled(pool)
PROOF
<1>1. state \in TypeOfState /\ PoolFit(pool) /\ Held(blocks, now)
    BY ValidType DEF ChainInv, PoolInv, Held
<1>2. /\ trial.accepted \in Seq(SignedTxs)
      /\ Len(trial.accepted) < MAX_TXS_PER_BLOCK
      /\ ApplyAll(state, trial.accepted).ok
      /\ PoolFit(trial.pool) /\ Pooled(trial.pool) \subseteq Pooled(pool)
      /\ ToSet(trial.accepted) \subseteq Pooled(pool)
    BY <1>1, TrialIs DEF Tried
<1>3. CandidateTime(blocks, now) \in Nat /\ expectedDifficulty(blocks) \in Nat
  <2>1. blocks \in ChainSet /\ now \in Nat
      BY <1>1, NodeAssumption DEF Held, ClockInv
  <2> QED
      BY <2>1, HeaderOfNext
<1>4. buildCandidate \in BlockSet /\ buildCandidate.txs = trial.accepted
    BY <1>2, <1>3, NodeAssumption DEF buildCandidate, BlockSet
<1> QED
    BY <1>2, <1>4

LEMMA StartStep ==
    ASSUME ClockInv, ChainInv, PoolInv, StartMining
    PROVE  PoolInv' /\ SearchInv' /\ Pooled(pool') \subseteq Pooled(pool)
PROOF
<1>1. Held(blocks, now) /\ state = After(blocks, now)
    BY DEF ChainInv
<1>2. PICK trial : trial = Tried
    OBVIOUS
<1>3. /\ buildCandidate \in BlockSet /\ buildCandidate.txs = trial.accepted
      /\ Len(trial.accepted) < MAX_TXS_PER_BLOCK
      /\ ApplyAll(state, trial.accepted).ok
      /\ PoolFit(trial.pool) /\ Pooled(trial.pool) \subseteq Pooled(pool)
    BY <1>2, CandidateIs
<1>4. /\ height(blocks) < MaxHeight /\ now' = now /\ state' = state
       /\ searching' = Append(blocks, buildCandidate) /\ pool' = trial.pool
    BY <1>2 DEF StartMining
<1>5. Sought(blocks, buildCandidate, now')
    BY <1>1, <1>3, <1>4 DEF Sought
<1>6. SearchInv'
    BY <1>4, <1>5 DEF SearchInv
<1>7. PoolInv'
    BY <1>3, <1>4 DEF PoolInv
<1> QED
    BY <1>3, <1>4, <1>6, <1>7

LEMMA ChainStays ==
    ASSUME ChainInv, UNCHANGED <<chainVars, now>>
    PROVE  ChainInv'
PROOF
BY DEF ChainInv, chainVars

LEMMA PoolStays ==
    ASSUME PoolInv, UNCHANGED <<state, pool>>
    PROVE  PoolInv'
PROOF
BY DEF PoolInv

LEMMA SearchStays ==
    ASSUME SearchInv, UNCHANGED <<searching, now>>
    PROVE  SearchInv'
PROOF
BY DEF SearchInv

LEMMA SearchEnds ==
    ASSUME searching' = << >>
    PROVE  SearchInv'
PROOF
BY DEF SearchInv

LEMMA DiskStays ==
    ASSUME DiskInv, UNCHANGED <<disk, now>>,
           disk = << >> \/ totalWork(disk) <= totalWork(blocks')
    PROVE  DiskInv'
PROOF
BY DEF DiskInv

(* The snapshot stays behind a chain that only gains work.                 *)
LEMMA DiskBehind ==
    ASSUME ChainInv, DiskInv, UNCHANGED <<disk, now>>, ChainInv',
           totalWork(blocks') > totalWork(blocks) \/ UNCHANGED blocks
    PROVE  DiskInv'
PROOF
<1>1. totalWork(blocks) \in Nat /\ totalWork(blocks') \in Nat
    BY HeldWork DEF ChainInv
<1>2. disk # << >> => totalWork(disk) \in Nat /\ totalWork(disk) <= totalWork(blocks)
    BY HeldWork DEF DiskInv
<1>3. disk = << >> \/ totalWork(disk) <= totalWork(blocks')
    BY <1>1, <1>2
<1> QED
    BY <1>3, DiskStays

LEMMA OffersStay ==
    ASSUME OfferInv, UNCHANGED offered
    PROVE  OfferInv'
PROOF
BY DEF OfferInv

LEMMA SubmitStep ==
    ASSUME NodeInv, NEW tx \in Txs, submitTransaction(tx)
    PROVE  NodeInv'
PROOF
<1>1. UNCHANGED <<blocks, state, work, txIndex, searching, disk, offered, now>>
    BY DEF submitTransaction
<1>2. PoolInv'
  <2>1. PoolFit(pool) /\ pool' = add(pool, tx, state, now) /\ tx \in SignedTxs
      BY NodeAssumption DEF NodeInv, PoolInv, submitTransaction
  <2>2. /\ PoolFit(pool')
        /\ Acceptable(pool, tx, state, now) => Pooled(pool') = Pooled(pool) \cup {tx}
        /\ ~ Acceptable(pool, tx, state, now) => pool' = pool
      BY <2>1, FitAdd
  <2>3. Acceptable(pool, tx, state, now) => ~ (tx.nonce < state.nonce[tx.from])
    <3>1. state \in TypeOfState /\ tx.from \in Addr /\ tx.nonce \in Nat
        BY ValidType, NodeAssumption DEF NodeInv, ChainInv, Held, SignedTxs
    <3>2. state.nonce[tx.from] \in Nat
        BY <3>1 DEF TypeOfState
    <3> QED
        BY <3>1, <3>2 DEF Acceptable
  <2> QED
      BY <1>1, <2>2, <2>3 DEF NodeInv, PoolInv
<1>3. ChainInv' /\ SearchInv' /\ DiskInv' /\ OfferInv' /\ ClockInv'
    BY <1>1, ChainStays, SearchStays, DiskBehind, OffersStay
       DEF NodeInv, chainVars, ClockInv
<1> QED
    BY <1>2, <1>3 DEF NodeInv

LEMMA StartKeeps ==
    ASSUME NodeInv, StartMining
    PROVE  NodeInv'
PROOF
<1>1. UNCHANGED <<blocks, state, work, txIndex, disk, offered, now>>
    BY DEF StartMining
<1>2. PoolInv' /\ SearchInv'
    BY StartStep DEF NodeInv
<1>3. ChainInv' /\ DiskInv' /\ OfferInv' /\ ClockInv'
    BY <1>1, ChainStays, DiskBehind, OffersStay DEF NodeInv, chainVars, ClockInv
<1> QED
    BY <1>2, <1>3 DEF NodeInv

(* A search ends with the block added, or with nothing but its end.        *)
LEMMA FoundIs ==
    ASSUME NodeInv, MineFound
    PROVE  \/ /\ searching \in ChainSet /\ height(searching) <= MaxHeight
              /\ Appendable(searching) /\ addBlock(searching)
           \/ UNCHANGED <<chainVars, pool>>
PROOF
<1>1. PICK c, b : searching = Append(c, b) /\ Sought(c, b, now)
    BY DEF NodeInv, SearchInv, MineFound
<1>2. c \in ChainSet /\ b \in BlockSet /\ height(c) < MaxHeight
    BY <1>1 DEF Sought, Held
<1>3. /\ searching \in ChainSet /\ height(searching) = height(c) + 1 /\ height(c) \in Nat
      /\ MaxHeight \in Nat
    BY <1>1, <1>2, AppendIs, NodeAssumption
<1>4. height(searching) <= MaxHeight
    BY <1>2, <1>3
<1> QED
    BY <1>3, <1>4 DEF MineFound

LEMMA FoundStep ==
    ASSUME NodeInv, MineFound
    PROVE  NodeInv'
PROOF
<1>1. searching' = << >> /\ UNCHANGED <<disk, offered, now>>
    BY DEF MineFound
<1>2. ChainInv' /\ PoolInv' /\ (totalWork(blocks') > totalWork(blocks) \/ UNCHANGED blocks)
  <2>1. CASE UNCHANGED <<chainVars, pool>>
      BY <1>1, <2>1, ChainStays, PoolStays DEF NodeInv, chainVars
  <2>2. CASE ~ UNCHANGED <<chainVars, pool>>
    <3>1. /\ searching \in ChainSet /\ height(searching) <= MaxHeight
          /\ Appendable(searching) /\ addBlock(searching)
        BY <2>2, FoundIs
    <3> QED
        BY <1>1, <3>1, AddBlockStep DEF NodeInv
  <2> QED
      BY <2>1, <2>2
<1>3. SearchInv' /\ DiskInv' /\ OfferInv' /\ ClockInv'
    BY <1>1, <1>2, SearchEnds, DiskBehind, OffersStay DEF NodeInv, ClockInv
<1> QED
    BY <1>2, <1>3 DEF NodeInv

LEMMA GiveUpStep ==
    ASSUME NodeInv, MineTipChanged \/ MineAborted
    PROVE  NodeInv'
PROOF
<1>1. searching' = << >> /\ UNCHANGED <<blocks, state, work, txIndex, pool, disk, offered, now>>
    BY DEF MineTipChanged, MineAborted
<1> QED
    BY <1>1, SearchEnds, ChainStays, PoolStays, DiskBehind, OffersStay
       DEF NodeInv, chainVars, ClockInv

LEMMA PeerBlocks == PeerBlock \subseteq BlockSet
PROOF
<1>1. \A d \in MIN_DIFFICULTY..MAX_DIFFICULTY : d \in Nat
    BY HeadersAssumption
<1>2. Bodies \subseteq Seq(SignedTxs)
  <2>1. Bodies \subseteq Seq(Txs) /\ Txs \subseteq SignedTxs
      BY NodeAssumption
  <2>2. Seq(Txs) \subseteq Seq(SignedTxs)
      BY <2>1, SeqDef
  <2> QED
      BY <2>1, <2>2
<1> QED
    BY <1>1, <1>2, NodeAssumption DEF PeerBlock, BlockSet

LEMMA PeerMinesStep ==
    ASSUME NodeInv, NEW c \in offered \cup {<<genesisBlock>>, blocks}, NEW block \in PeerBlock,
           PeerMines(c, block)
    PROVE  NodeInv'
PROOF
<1>1. /\ UNCHANGED <<blocks, state, work, txIndex, pool, searching, disk, now>>
      /\ offered' = offered \cup {Append(c, block)} /\ height(c) < MaxHeight
    BY DEF PeerMines
<1>2. block \in BlockSet
    BY PeerBlocks
<1>3. c \in ChainSet
    BY GenesisType DEF NodeInv, OfferInv, ChainInv, Held
<1>4. /\ Append(c, block) \in ChainSet /\ height(Append(c, block)) = height(c) + 1
      /\ height(c) \in Nat /\ MaxHeight \in Nat
    BY <1>2, <1>3, AppendIs, NodeAssumption
<1>5. height(Append(c, block)) <= MaxHeight
    BY <1>1, <1>4
<1>6. OfferInv'
    BY <1>1, <1>4, <1>5 DEF NodeInv, OfferInv
<1> QED
    BY <1>1, <1>6, SearchStays, ChainStays, PoolStays, DiskBehind
       DEF NodeInv, chainVars, ClockInv

LEMMA ReceiveStep ==
    ASSUME NodeInv, NEW c \in offered, ReceiveBlock(c) \/ ReceiveChain(c)
    PROVE  NodeInv'
PROOF
<1>1. UNCHANGED <<searching, disk, offered, now>>
    BY DEF ReceiveBlock, ReceiveChain
<1>2. c \in ChainSet /\ height(c) <= MaxHeight
    BY DEF NodeInv, OfferInv
<1>3. ChainInv' /\ PoolInv' /\ totalWork(blocks') > totalWork(blocks)
  <2>1. CASE ReceiveBlock(c)
      BY <1>1, <1>2, <2>1, AddBlockStep DEF ReceiveBlock, NodeInv
  <2>2. CASE ReceiveChain(c)
      BY <1>1, <1>2, <2>2, ReplaceStep DEF ReceiveChain, NodeInv
  <2> QED
      BY <2>1, <2>2
<1>4. SearchInv' /\ DiskInv' /\ OfferInv' /\ ClockInv'
    BY <1>1, <1>3, SearchStays, DiskBehind, OffersStay DEF NodeInv, ClockInv
<1> QED
    BY <1>3, <1>4 DEF NodeInv

(* What is valid stays valid as the clock moves.                           *)
LEMMA TickStep ==
    ASSUME NodeInv, Tick
    PROVE  NodeInv'
PROOF
<1>1. /\ now < MaxTime /\ now' = now + 1
      /\ UNCHANGED <<blocks, state, work, txIndex, pool, searching, disk, offered>>
    BY DEF Tick
<1>2. now \in Nat /\ now' \in Nat /\ now <= now' /\ ClockInv'
    BY <1>1, NodeAssumption DEF NodeInv, ClockInv
<1>3. \A c : Held(c, now) => Held(c, now') /\ After(c, now') = After(c, now)
    BY <1>2, HeldLater
<1>4. ChainInv'
    BY <1>1, <1>3 DEF NodeInv, ChainInv
<1>5. SearchInv'
  <2>1. CASE searching = << >>
      BY <1>1, <2>1 DEF SearchInv
  <2>2. CASE searching # << >>
    <3>1. PICK c, b : searching = Append(c, b) /\ Sought(c, b, now)
        BY <2>2 DEF NodeInv, SearchInv
    <3>2. Sought(c, b, now')
        BY <1>3, <3>1 DEF Sought
    <3> QED
        BY <1>1, <3>1, <3>2 DEF SearchInv
  <2> QED
      BY <2>1, <2>2
<1>6. DiskInv'
    BY <1>1, <1>3 DEF NodeInv, DiskInv
<1> QED
    BY <1>1, <1>2, <1>4, <1>5, <1>6, PoolStays, OffersStay DEF NodeInv

LEMMA SaveStep ==
    ASSUME NodeInv, save
    PROVE  NodeInv'
PROOF
<1>1. disk' = blocks /\ UNCHANGED <<blocks, state, work, txIndex, pool, searching, offered, now>>
    BY DEF save
<1>2. totalWork(blocks) \in Nat
    BY HeldWork DEF NodeInv, ChainInv
<1>3. totalWork(disk') <= totalWork(blocks')
    BY <1>1, <1>2
<1>4. DiskInv'
    BY <1>1, <1>3 DEF NodeInv, ChainInv, DiskInv
<1> QED
    BY <1>1, <1>4, SearchStays, ChainStays, PoolStays, OffersStay
       DEF NodeInv, chainVars, ClockInv

LEMMA RestartKeeps ==
    ASSUME NodeInv, Restart
    PROVE  NodeInv'
PROOF
<1>1. searching' = << >> /\ UNCHANGED <<disk, offered, now>>
    BY DEF Restart
<1>2. ChainInv' /\ PoolInv' /\ totalWork(Snapshot) <= totalWork(blocks')
    BY RestartStep DEF NodeInv
<1>3. disk = << >> \/ totalWork(disk) <= totalWork(blocks')
    BY <1>2 DEF Snapshot
<1> QED
    BY <1>1, <1>2, <1>3, SearchEnds, DiskStays, OffersStay DEF NodeInv, ClockInv

LEMMA NodeStep ==
    ASSUME NodeInv, [NodeNext]_nodeVars
    PROVE  NodeInv'
PROOF
<1>1. ASSUME NEW tx \in Txs, submitTransaction(tx)
      PROVE  NodeInv'
    BY <1>1, SubmitStep
<1>2. CASE StartMining
    BY <1>2, StartKeeps
<1>3. CASE MineFound
    BY <1>3, FoundStep
<1>4. CASE MineTipChanged \/ MineAborted
    BY <1>4, GiveUpStep
<1>5. ASSUME NEW c \in offered \cup {<<genesisBlock>>, blocks}, NEW block \in PeerBlock,
             PeerMines(c, block)
      PROVE  NodeInv'
    BY <1>5, PeerMinesStep
<1>6. ASSUME NEW c \in offered, ReceiveBlock(c) \/ ReceiveChain(c)
      PROVE  NodeInv'
    BY <1>6, ReceiveStep
<1>7. CASE Tick
    BY <1>7, TickStep
<1>8. CASE save
    BY <1>8, SaveStep
<1>9. CASE Restart
    BY <1>9, RestartKeeps
<1>10. CASE UNCHANGED nodeVars
  <2>1. UNCHANGED <<blocks, state, work, txIndex, pool, searching, disk, offered, now>>
      BY <1>10 DEF nodeVars
  <2> QED
      BY <2>1, SearchStays, ChainStays, PoolStays, DiskBehind, OffersStay
         DEF NodeInv, chainVars, ClockInv
<1> QED
    BY <1>1, <1>2, <1>3, <1>4, <1>5, <1>6, <1>7, <1>8, <1>9, <1>10 DEF NodeNext

LEMMA NodeInvariant == NodeSpec => []NodeInv
PROOF
<1>1. NodeInv /\ [NodeNext]_nodeVars => NodeInv'
    BY NodeStep
<1> QED
    BY <1>1, NodeInitInv, PTL DEF NodeSpec

LEMMA ChainTyped ==
    ASSUME NodeInv
    PROVE  /\ blocks \in ChainSet /\ blocks \in Seq(BlockSet) /\ blocks # << >>
           /\ validateChain(blocks, now).ok /\ state = After(blocks, now)
           /\ state \in TypeOfState /\ DOMAIN txIndex = TxsOf(blocks) /\ TxsOf(blocks) \subseteq SignedTxs
PROOF
<1>1. blocks \in ChainSet /\ blocks \in Seq(BlockSet) /\ blocks # << >>
    BY DEF NodeInv, ChainInv, Held, ChainSet
<1>2. validateChain(blocks, now).ok /\ state = After(blocks, now) /\ DOMAIN txIndex = TxsOf(blocks)
    BY DEF NodeInv, ChainInv, Held, Exact
<1> QED
    BY <1>1, <1>2, ValidType, TxsOfType

(* No transaction of the chain can be mined there again, and those that    *)
(* can are not on it.                                                      *)
LEMMA MinedIsUsed ==
    ASSUME NodeInv, NEW tx \in TxsOf(blocks)
    PROVE  tx.nonce < state.nonce[tx.from]
PROOF
<1>1. ChainOrder(blocks, state.nonce)
    BY ChainTyped, ValidOrder
<1>2. tx \in SignedTxs /\ tx.from \in Addr /\ tx.nonce \in Nat
    BY ChainTyped DEF SignedTxs
<1>3. state.nonce[tx.from] \in Nat
    BY <1>2, ChainTyped DEF TypeOfState
<1>4. tx.nonce \in NoncesOf(TxsOf(blocks), tx.from)
    BY DEF NoncesOf
<1>5. tx.nonce \in 0..(state.nonce[tx.from] - 1)
    BY <1>1, <1>2, <1>4 DEF ChainOrder
<1> QED
    BY <1>3, <1>5

-----------------------------------------------------------------------------
(* What is mined or pooled has been sent                                   *)

Drawn ==
    /\ TxsOf(blocks) \subseteq Txs
    /\ TxsOf(searching) \subseteq Txs
    /\ TxsOf(disk) \subseteq Txs
    /\ \A c \in offered : TxsOf(c) \subseteq Txs
    /\ Pooled(pool) \subseteq Txs

LEMMA DrawnInit == NodeInit => Drawn
PROOF
<1> SUFFICES ASSUME NodeInit
             PROVE  Drawn
    OBVIOUS
<1>1. TxsOf(<< >>) = {}
    BY DEF TxsOf
<1> QED
    BY <1>1, TxsOfAlone, FitEmpty DEF NodeInit, Drawn

(* A block added, whoever made it.                                         *)
LEMMA DrawnAdd ==
    ASSUME NodeInv, Drawn, NEW c, TxsOf(c) \subseteq Txs, addBlock(c)
    PROVE  TxsOf(blocks') \subseteq Txs /\ Pooled(pool') \subseteq Txs
PROOF
<1>1. blocks' = c
    BY DEF addBlock
<1>2. pool' = PoolAfterBlock(pool, Last(c), applyBlock(state, Last(c)).state, now)
    BY DEF addBlock
<1>3. PoolFit(pool)
    BY DEF NodeInv, PoolInv
<1>4. Pooled(pool') \subseteq Pooled(pool)
    BY <1>2, <1>3, FitAfterBlock
<1> QED
    BY <1>1, <1>4 DEF Drawn

LEMMA DrawnStart ==
    ASSUME NodeInv, Drawn, StartMining
    PROVE  TxsOf(searching') \subseteq Txs /\ Pooled(pool') \subseteq Txs
PROOF
<1>1. blocks \in Seq(BlockSet) /\ ClockInv /\ ChainInv /\ PoolInv
    BY ChainTyped DEF NodeInv
<1>2. PICK trial : trial = Tried
    OBVIOUS
<1>3. PICK b \in BlockSet : b = buildCandidate /\ b.txs = trial.accepted
    BY <1>1, <1>2, CandidateIs
<1>4. ToSet(trial.accepted) \subseteq Pooled(pool) /\ Pooled(trial.pool) \subseteq Pooled(pool)
    BY <1>1, <1>2, CandidateIs
<1>5. searching' = Append(blocks, b) /\ pool' = trial.pool
    BY <1>2, <1>3 DEF StartMining
<1>6. TxsOf(searching') = TxsOf(blocks) \cup ToSet(trial.accepted)
    BY <1>1, <1>3, <1>5, TxsOfAppend
<1> QED
    BY <1>4, <1>5, <1>6 DEF Drawn

LEMMA DrawnOffer ==
    ASSUME NodeInv, Drawn, NEW c \in offered \cup {<<genesisBlock>>, blocks}, NEW block \in PeerBlock,
           PeerMines(c, block)
    PROVE  \A d \in offered' : TxsOf(d) \subseteq Txs
PROOF
<1>1. c \in Seq(BlockSet) /\ TxsOf(c) \subseteq Txs
    BY ChainTyped, GenesisType, TxsOfAlone DEF NodeInv, OfferInv, ChainSet, Drawn
<1>2. block \in BlockSet /\ block.txs \in Seq(Txs)
    BY PeerBlocks, NodeAssumption DEF PeerBlock
<1>3. ToSet(block.txs) \subseteq Txs
    BY <1>2, ToSetIs
<1>4. TxsOf(Append(c, block)) \subseteq Txs
    BY <1>1, <1>2, <1>3, TxsOfAppend
<1>5. offered' = offered \cup {Append(c, block)}
    BY DEF PeerMines
<1> QED
    BY <1>4, <1>5 DEF Drawn

LEMMA DrawnReplace ==
    ASSUME NodeInv, Drawn, NEW c \in offered, ReceiveChain(c)
    PROVE  TxsOf(blocks') \subseteq Txs /\ Pooled(pool') \subseteq Txs
PROOF
<1>1. PoolFit(pool) /\ blocks \in Seq(BlockSet)
    BY ChainTyped DEF NodeInv, PoolInv
<1>2. PICK s : s = validateChain(c, now).state
    OBVIOUS
<1>3. blocks' = c /\ pool' = PoolAfterReorg(pool, blocks, c, s, now)
    BY <1>2 DEF ReceiveChain, replaceChain
<1>4. Pooled(pool') \subseteq Unmined(pool, blocks, c)
    BY <1>1, <1>3, FitAfterReorg
<1> QED
    BY <1>3, <1>4 DEF Unmined, Drawn

LEMMA DrawnStep ==
    ASSUME NodeInv, Drawn, NodeNext
    PROVE  Drawn'
PROOF
<1> USE DEF Drawn
<1>1. ASSUME NEW tx \in Txs, submitTransaction(tx)
      PROVE  Drawn'
  <2>1. PoolFit(pool) /\ pool' = add(pool, tx, state, now) /\ tx \in SignedTxs
      BY <1>1, NodeAssumption DEF NodeInv, PoolInv, submitTransaction
  <2>2. Pooled(pool') \subseteq Pooled(pool) \cup {tx}
      BY <2>1, FitAdd
  <2> QED
      BY <1>1, <2>2 DEF submitTransaction
<1>2. CASE StartMining
    BY <1>2, DrawnStart DEF StartMining
<1>3. TxsOf(<< >>) = {}
    BY DEF TxsOf
<1>4. CASE MineFound
  <2>1. searching' = << >> /\ UNCHANGED <<disk, offered>>
      BY <1>4 DEF MineFound
  <2>2. TxsOf(blocks') \subseteq Txs /\ Pooled(pool') \subseteq Txs
    <3>1. CASE addBlock(searching)
        BY <3>1, DrawnAdd
    <3>2. CASE UNCHANGED <<blocks, pool>>
        BY <3>2
    <3> QED
        BY <1>4, <3>1, <3>2 DEF MineFound, chainVars
  <2> QED
      BY <1>3, <2>1, <2>2
<1>5. CASE MineTipChanged \/ MineAborted
    BY <1>3, <1>5 DEF MineTipChanged, MineAborted
<1>6. ASSUME NEW c \in offered \cup {<<genesisBlock>>, blocks}, NEW block \in PeerBlock,
             PeerMines(c, block)
      PROVE  Drawn'
  <2>1. \A d \in offered' : TxsOf(d) \subseteq Txs
      BY <1>6, DrawnOffer
  <2> QED
      BY <1>6, <2>1 DEF PeerMines
<1>7. ASSUME NEW c \in offered, ReceiveBlock(c)
      PROVE  Drawn'
  <2>1. TxsOf(blocks') \subseteq Txs /\ Pooled(pool') \subseteq Txs
      BY <1>7, DrawnAdd DEF ReceiveBlock
  <2> QED
      BY <1>7, <2>1 DEF ReceiveBlock
<1>8. ASSUME NEW c \in offered, ReceiveChain(c)
      PROVE  Drawn'
  <2>1. TxsOf(blocks') \subseteq Txs /\ Pooled(pool') \subseteq Txs
      BY <1>8, DrawnReplace
  <2> QED
      BY <1>8, <2>1 DEF ReceiveChain
<1>9. CASE Tick
    BY <1>9 DEF Tick
<1>10. CASE save
    BY <1>10 DEF save
<1>11. CASE Restart
  <2>1. blocks' \in {disk, <<genesisBlock>>} /\ pool' = emptyPool /\ searching' = << >>
        /\ UNCHANGED <<disk, offered>>
      BY <1>11 DEF Restart
  <2> QED
      BY <1>3, <2>1, TxsOfAlone, FitEmpty
<1> QED
    BY <1>1, <1>2, <1>4, <1>5, <1>6, <1>7, <1>8, <1>9, <1>10, <1>11 DEF NodeNext

LEMMA DrawnInvariant == NodeSpec => []Drawn
PROOF
<1>1. NodeInv /\ Drawn /\ UNCHANGED nodeVars => Drawn'
    BY DEF Drawn, nodeVars
<1>2. NodeInv /\ Drawn /\ [NodeNext]_nodeVars => Drawn'
    BY <1>1, DrawnStep
<1> QED
    BY <1>2, DrawnInit, NodeInvariant, PTL DEF NodeSpec

-----------------------------------------------------------------------------
(* What holds of every node                                                *)

(* A node keeps to its types.                                              *)
THEOREM NodeAlwaysTyped == NodeSpec => []NodeTypeOK
PROOF
<1>1. NodeInv /\ Drawn => NodeTypeOK
  <2> SUFFICES ASSUME NodeInv, Drawn
               PROVE  NodeTypeOK
      OBVIOUS
  <2>1. height(blocks) \in 0..MaxHeight
    <3>1. Len(blocks) \in Nat /\ Len(blocks) # 0
        BY ChainTyped, LenProperties, EmptySeq
    <3>2. height(blocks) \in Nat
        BY <3>1 DEF height
    <3> QED
        BY <3>2, NodeAssumption DEF NodeInv, ChainInv, Held
  <2>2. work \in Nat
      BY HeldWork DEF NodeInv, ChainInv
  <2>3. PoolFit(pool)
      BY DEF NodeInv, PoolInv
  <2>4. Pooled(pool) \subseteq Txs /\ TxsOf(blocks) \subseteq Txs
      BY DEF Drawn
  <2> QED
      BY <2>1, <2>2, <2>3, <2>4, ChainTyped DEF NodeTypeOK, PoolFit
<1> QED
    BY <1>1, NodeInvariant, DrawnInvariant, PTL

(* What addBlock, replaceChain and the load of a snapshot leave is what a  *)
(* replay of the blocks gives, index and work included, and along it every *)
(* account's nonces are mined once each and in order, whatever forks came  *)
(* and went.                                                               *)
THEOREM StateAlwaysReplays == NodeSpec => []StateIsReplay
PROOF
<1>1. NodeInv => StateIsReplay
  <2> SUFFICES ASSUME NodeInv
               PROVE  StateIsReplay
      OBVIOUS
  <2>1. ChainOrder(blocks, state.nonce)
      BY ChainTyped, ValidOrder
  <2>2. NoncesInOrder
      BY <2>1, OrderIsNonces
  <2>3. IndexIsExact
      BY DEF NodeInv, ChainInv, Exact, IndexIsExact
  <2> QED
      BY <2>2, <2>3, ChainTyped DEF NodeInv, ChainInv, StateIsReplay, After
<1> QED
    BY <1>1, NodeInvariant, PTL

(* The pool holds nothing that is mined or used up, keeps to its limits    *)
(* through reorgs that put transactions back, and leaks no strikes.        *)
THEOREM PoolAlwaysSound == NodeSpec => []PoolIsSound
PROOF
<1>1. NodeInv => PoolIsSound
  <2> SUFFICES ASSUME NodeInv
               PROVE  PoolIsSound
      OBVIOUS
  <2>1. PoolFit(pool) /\ \A tx \in Pooled(pool) : ~ (tx.nonce < state.nonce[tx.from])
      BY DEF NodeInv, PoolInv
  <2>2. ASSUME NEW tx \in Pooled(pool)
        PROVE  tx \notin TxsOf(blocks) /\ tx.nonce >= state.nonce[tx.from]
    <3>1. tx \in SignedTxs
        BY <2>1, ToSetIs DEF PoolFit, Pooled
    <3>2. tx.from \in Addr /\ tx.nonce \in Nat
        BY <3>1 DEF SignedTxs
    <3>3. state.nonce[tx.from] \in Nat
        BY <3>2, ChainTyped DEF TypeOfState
    <3>4. tx \notin TxsOf(blocks)
        BY <2>1, MinedIsUsed
    <3> QED
        BY <2>1, <3>2, <3>3, <3>4
  <2> QED
      BY <2>1, <2>2 DEF PoolIsSound, PoolFit
<1> QED
    BY <1>1, NodeInvariant, PTL

(* A candidate whose parent is still the tip applies to the state and      *)
(* repeats nothing of the chain, so that its proof of work is not wasted.  *)
THEOREM CandidateAlwaysApplies == NodeSpec => []CandidateApplies
PROOF
<1>1. NodeInv => CandidateApplies
  <2> SUFFICES ASSUME NodeInv, searching # << >>, Front(searching) = blocks
               PROVE  LET body == Last(searching).txs
                      IN  /\ Len(body) < MAX_TXS_PER_BLOCK
                          /\ IsInjective(body)
                          /\ ToSet(body) \cap DOMAIN txIndex = {}
                          /\ ApplyAll(state, body).ok
      BY DEF CandidateApplies
  <2>1. PICK c, b : searching = Append(c, b) /\ Sought(c, b, now)
      BY DEF NodeInv, SearchInv
  <2>2. c \in ChainSet /\ b \in BlockSet
      BY <2>1 DEF Sought, Held
  <2>3. c = blocks /\ Last(searching) = b
      BY <2>1, <2>2, AppendIs
  <2>4. PICK body : body = b.txs
      OBVIOUS
  <2>5. body \in Seq(SignedTxs) /\ ToSet(body) \subseteq SignedTxs
      BY <2>2, <2>4, BlockTxs
  <2>6. Len(body) < MAX_TXS_PER_BLOCK /\ ApplyAll(state, body).ok
      BY <2>1, <2>3, <2>4, ChainTyped DEF Sought
  <2>7. PICK e : e = ApplyAll(state, body).state.nonce
      OBVIOUS
  <2>8. e \in [Addr -> Nat] /\ state.nonce \in [Addr -> Nat]
      BY <2>5, <2>7, ApplyAllType, ChainTyped DEF Outcome, TypeOfState
  <2>9. BodyOrder(body, state.nonce, e)
      BY <2>5, <2>6, <2>7, ApplyOrder, ChainTyped
  <2>10. \A p \in DOMAIN body : body[p].nonce \in Nat /\ body[p] \in SignedTxs /\ p \in Nat
    <3> SUFFICES ASSUME NEW p \in DOMAIN body
                 PROVE  body[p].nonce \in Nat /\ body[p] \in SignedTxs /\ p \in Nat
        OBVIOUS
    <3>1. p \in 1..Len(body) /\ Len(body) \in Nat
        BY <2>5, LenProperties
    <3>2. body[p] \in SignedTxs
        BY <2>5, <3>1, ElementOfSeq
    <3> QED
        BY <3>1, <3>2 DEF SignedTxs
  <2>11. IsInjective(body)
    <3> SUFFICES ASSUME NEW p \in DOMAIN body, NEW q \in DOMAIN body, body[p] = body[q], p # q
                 PROVE  FALSE
        BY DEF IsInjective
    <3>1. p > q \/ q > p
        BY <2>10
    <3>2. body[p].nonce > body[q].nonce \/ body[q].nonce > body[p].nonce
        BY <2>9, <3>1 DEF BodyOrder
    <3> QED
        BY <2>10, <3>2
  <2>12. ToSet(body) \cap DOMAIN txIndex = {}
    <3> SUFFICES ASSUME NEW tx \in ToSet(body), tx \in TxsOf(blocks)
                 PROVE  FALSE
        BY ChainTyped
    <3>1. tx \in SignedTxs /\ tx.from \in Addr /\ tx.nonce \in Nat
        BY <2>5 DEF SignedTxs
    <3>2. tx.nonce < state.nonce[tx.from]
        BY MinedIsUsed
    <3>3. tx.nonce \in NoncesOf(ToSet(body), tx.from)
        BY DEF NoncesOf
    <3>4. tx.nonce \in state.nonce[tx.from]..(e[tx.from] - 1)
        BY <2>9, <3>1, <3>3 DEF BodyOrder
    <3>5. state.nonce[tx.from] \in Nat /\ e[tx.from] \in Nat
        BY <2>8, <3>1
    <3> QED
        BY <3>1, <3>2, <3>4, <3>5
  <2> QED
      BY <2>3, <2>4, <2>6, <2>11, <2>12
<1> QED
    BY <1>1, NodeInvariant, PTL

(* Whenever the process dies, the snapshot it left loads, by any later     *)
(* clock, and is never ahead of the chain that was held.                   *)
THEOREM SnapshotAlwaysUsable == NodeSpec => []SnapshotIsUsable
PROOF
<1>1. NodeInv => SnapshotIsUsable
  <2> SUFFICES ASSUME NodeInv
               PROVE  SnapshotIsUsable
      OBVIOUS
  <2>1. Held(Snapshot, now)
      BY LoadedIs DEF NodeInv
  <2>2. totalWork(Snapshot) <= totalWork(blocks)
      BY HeldWork DEF Snapshot, NodeInv, DiskInv, ChainInv
  <2> QED
      BY <2>1, <2>2 DEF SnapshotIsUsable, Held, NodeInv, ChainInv
<1> QED
    BY <1>1, NodeInvariant, PTL

-----------------------------------------------------------------------------
(* Reorgs put back what they drop                                          *)

LEMMA ValidTxs ==
    ASSUME NEW t, NEW c \in ChainSet, validateChain(c, t).ok
    PROVE  \A tx \in TxsOf(c) : validateTransaction(tx, t)
PROOF
<1> DEFINE Good == {d \in ChainSet : \A tx \in TxsOf(d) : validateTransaction(tx, t)}
<1>1. <<genesisBlock>> \in Good
    BY GenesisType, TxsOfAlone
<1>2. ASSUME NEW d \in ChainSet, NEW b \in BlockSet, d \in Good, Append(d, b) \in ChainSet,
             validateChain(d, t).ok, validateChain(Append(d, b), t).ok
      PROVE  Append(d, b) \in Good
  <2>1. FollowsOn(d, b, t)
      BY <1>2, ValidAppend
  <2>2. \A tx \in ToSet(b.txs) : validateTransaction(tx, t)
      BY <2>1 DEF FollowsOn, StructureOK
  <2>3. TxsOf(Append(d, b)) = TxsOf(d) \cup ToSet(b.txs)
      BY TxsOfAppend DEF ChainSet
  <2> QED
      BY <1>2, <2>2, <2>3
<1> HIDE DEF Good
<1>3. c \in Good
    BY <1>1, <1>2, ValidInduction
<1> QED
    BY <1>3 DEF Good

(* Which steps gain work: a block on top of the chain, which drops no      *)
(* transaction, or a reorg.                                                *)
LEMMA GainingStep ==
    ASSUME NodeInv, [NodeNext]_nodeVars, totalWork(blocks') > totalWork(blocks)
    PROVE  \/ TxsOf(blocks) \subseteq TxsOf(blocks')
           \/ \E c \in offered : ReceiveChain(c)
PROOF
<1>1. CASE UNCHANGED blocks
    BY <1>1
<1>2. CASE MineFound
  <2>1. now' = now
      BY <1>2 DEF MineFound
  <2>2. CASE UNCHANGED <<chainVars, pool>>
      BY <1>1, <2>2 DEF chainVars
  <2>3. CASE ~ UNCHANGED <<chainVars, pool>>
    <3>1. /\ searching \in ChainSet /\ height(searching) <= MaxHeight
          /\ Appendable(searching) /\ addBlock(searching)
        BY <1>2, <2>3, FoundIs
    <3> QED
        BY <2>1, <3>1, AddBlockStep DEF NodeInv
  <2> QED
      BY <2>2, <2>3
<1>3. ASSUME NEW c \in offered, ReceiveBlock(c)
      PROVE  TxsOf(blocks) \subseteq TxsOf(blocks')
  <2>1. c \in ChainSet /\ height(c) <= MaxHeight
      BY DEF NodeInv, OfferInv
  <2> QED
      BY <1>3, <2>1, AddBlockStep DEF ReceiveBlock, NodeInv
<1>4. CASE Restart
    BY <1>4, RestartStep DEF NodeInv
<1>5. ~ UNCHANGED blocks =>
          MineFound \/ Restart \/ (\E c \in offered : ReceiveBlock(c) \/ ReceiveChain(c))
    BY DEF NodeNext, nodeVars, submitTransaction, StartMining, MineTipChanged, MineAborted,
           PeerMines, Tick, save
<1> QED
    BY <1>1, <1>2, <1>3, <1>4, <1>5

(* A transaction a reorg drops is pooled again, or there is one of the     *)
(* stated reasons: it is old, its nonce is used or too far ahead on the    *)
(* new chain, its fee cannot be paid there, or what the new chain leaves   *)
(* unmined is more than the pool, or its sender's share of it, has room    *)
(* for.                                                                    *)
THEOREM ReorgsPutBack == NodeSpec => ReorgPutsBack
PROOF
<1> DEFINE Step == totalWork(blocks') > totalWork(blocks) =>
               LET unmined == (Pooled(pool) \cup TxsOf(blocks)) \ TxsOf(blocks')
               IN  \A tx \in TxsOf(blocks) \ TxsOf(blocks') :
                       \/ tx \in Pooled(pool')
                       \/ Outdated(tx, state', now)
                       \/ tx.nonce > state'.nonce[tx.from] + RUN_AHEAD
                       \/ tx.fee > state'.balance[tx.from]
                       \/ Cardinality(unmined) > MAX_MEMPOOL_TXS
                       \/ Cardinality({t \in unmined : t.from = tx.from}) > RUN_AHEAD
<1>1. NodeInv /\ [NodeNext]_nodeVars => Step
  <2> SUFFICES ASSUME NodeInv, [NodeNext]_nodeVars, totalWork(blocks') > totalWork(blocks),
                      NEW tx \in TxsOf(blocks) \ TxsOf(blocks')
               PROVE  LET unmined == (Pooled(pool) \cup TxsOf(blocks)) \ TxsOf(blocks')
                      IN  \/ tx \in Pooled(pool')
                          \/ Outdated(tx, state', now)
                          \/ tx.nonce > state'.nonce[tx.from] + RUN_AHEAD
                          \/ tx.fee > state'.balance[tx.from]
                          \/ Cardinality(unmined) > MAX_MEMPOOL_TXS
                          \/ Cardinality({t \in unmined : t.from = tx.from}) > RUN_AHEAD
      OBVIOUS
  <2>1. PICK c \in offered : ReceiveChain(c)
      BY GainingStep
  <2>2. /\ blocks' = c /\ state' = After(c, now)
        /\ pool' = PoolAfterReorg(pool, blocks, c, state', now)
        /\ validateChain(c, now).ok
      BY <2>1 DEF ReceiveChain, Replaceable, replaceChain, After
  <2>3. PICK all : all = Unmined(pool, blocks, c)
      OBVIOUS
  <2>4. PoolFit(pool) /\ blocks \in Seq(BlockSet) /\ c \in ChainSet
      BY ChainTyped DEF NodeInv, PoolInv, OfferInv
  <2>5. state' \in TypeOfState
      BY <2>2, <2>4, ValidType
  <2>6. IsFiniteSet(all) /\ tx \in all /\ tx \in SignedTxs
      BY <2>2, <2>3, <2>4, UnminedIs, ChainTyped DEF Unmined
  <2>7. validateTransaction(tx, now)
      BY ValidTxs, ChainTyped
  <2>8. \/ tx \in Pooled(pool')
        \/ Outdated(tx, state', now)
        \/ \E w : RefusedBy(w, tx, all, state', now)
      BY <2>2, <2>3, <2>4, FitAfterReorg
  <2>9. ASSUME NEW w, RefusedBy(w, tx, all, state', now)
        PROVE  \/ Outdated(tx, state', now)
               \/ tx.nonce > state'.nonce[tx.from] + RUN_AHEAD
               \/ tx.fee > state'.balance[tx.from]
               \/ Cardinality(all) > MAX_MEMPOOL_TXS
               \/ Cardinality({u \in all : u.from = tx.from}) > RUN_AHEAD
      BY <2>5, <2>6, <2>7, <2>9, WhyRefused
  <2>10. all = (Pooled(pool) \cup TxsOf(blocks)) \ TxsOf(blocks')
      BY <2>2, <2>3 DEF Unmined
  <2> QED
      BY <2>8, <2>9, <2>10
<1> QED
    BY <1>1, NodeInvariant, PTL DEF NodeSpec, ReorgPutsBack

-----------------------------------------------------------------------------
(* What a node promises                                                    *)

LEMMA PromiseInit == NodeInit => Promise!Init
PROOF
<1> SUFFICES ASSUME NodeInit
             PROVE  Promise!Init
    OBVIOUS
<1>1. blocks = <<genesisBlock>> /\ state = genesisState /\ disk = << >>
    BY DEF NodeInit
<1>2. AccountsOf(<<genesisBlock>>) = genesisState
    BY HeldGenesis DEF AccountsOf, After
<1>3. Snapshot = <<genesisBlock>>
    BY <1>1 DEF Snapshot
<1> QED
    BY <1>1, <1>2, <1>3 DEF Promise!Init

(* By the latest clock, the chain held after a step is still what its      *)
(* blocks replay to.                                                       *)
LEMMA ValidToTheEnd ==
    ASSUME NodeInv
    PROVE  ValidInTheEnd(blocks) /\ AccountsOf(blocks) = state
PROOF
<1>1. now \in Nat /\ MaxTime \in Nat /\ now <= MaxTime
    BY NodeAssumption DEF NodeInv, ClockInv
<1>2. validateChain(blocks, MaxTime).ok /\ After(blocks, MaxTime) = After(blocks, now)
    BY <1>1, ChainTyped, ValidLater
<1> QED
    BY <1>2, ChainTyped DEF ValidInTheEnd, AccountsOf, After

LEMMA ValidToTheEndNext == (NodeInv => ValidInTheEnd(blocks) /\ AccountsOf(blocks) = state)'
PROOF
<1>1. NodeInv => ValidInTheEnd(blocks) /\ AccountsOf(blocks) = state
    BY ValidToTheEnd
<1> QED
    BY <1>1, PTL

LEMMA PromiseStep ==
    ASSUME NodeInv, [NodeNext]_nodeVars
    PROVE  [Promise!Next]_Promise!vars
PROOF
<1>1. /\ ValidInTheEnd(blocks') /\ AccountsOf(blocks') = state'
    BY NodeStep, ValidToTheEndNext DEF ValidInTheEnd, AccountsOf
<1>2. CASE totalWork(blocks') > totalWork(blocks) /\ UNCHANGED disk
  <2>1. Snapshot' = Snapshot
      BY <1>2 DEF Snapshot
  <2>2. Promise!Adopt
      BY <1>1, <1>2, <2>1 DEF Promise!Adopt
  <2> QED
      BY <2>2 DEF Promise!Next
<1>3. CASE UNCHANGED <<blocks, state, disk>>
  <2>1. Snapshot' = Snapshot
      BY <1>3 DEF Snapshot
  <2> QED
      BY <1>3, <2>1 DEF Promise!vars
<1>4. CASE save
  <2>1. disk' = blocks /\ UNCHANGED <<blocks, state>>
      BY <1>4 DEF save
  <2>2. Snapshot' = blocks
      BY <2>1, ChainTyped DEF Snapshot
  <2>3. Promise!Save
      BY <2>1, <2>2 DEF Promise!Save
  <2> QED
      BY <2>3 DEF Promise!Next
<1>5. CASE Restart
  <2>1. blocks' = Snapshot
      BY <1>5, RestartStep DEF NodeInv
  <2>2. Snapshot' = Snapshot
      BY <1>5 DEF Restart, Snapshot
  <2>3. Promise!CrashAndRestart
      BY <1>1, <2>1, <2>2 DEF Promise!CrashAndRestart
  <2> QED
      BY <2>3 DEF Promise!Next
<1>6. CASE MineFound
  <2>1. UNCHANGED <<disk, now>>
      BY <1>6 DEF MineFound
  <2>2. CASE UNCHANGED <<chainVars, pool>>
      BY <1>3, <2>1, <2>2 DEF chainVars
  <2>3. CASE ~ UNCHANGED <<chainVars, pool>>
    <3>1. /\ searching \in ChainSet /\ height(searching) <= MaxHeight
          /\ Appendable(searching) /\ addBlock(searching)
        BY <1>6, <2>3, FoundIs
    <3>2. totalWork(blocks') > totalWork(blocks)
        BY <2>1, <3>1, AddBlockStep DEF NodeInv
    <3> QED
        BY <1>2, <2>1, <3>2
  <2> QED
      BY <2>2, <2>3
<1>7. ASSUME NEW c \in offered, ReceiveBlock(c) \/ ReceiveChain(c)
      PROVE  [Promise!Next]_Promise!vars
  <2>1. c \in ChainSet /\ height(c) <= MaxHeight /\ UNCHANGED <<disk, now>>
      BY <1>7 DEF NodeInv, OfferInv, ReceiveBlock, ReceiveChain
  <2>2. totalWork(blocks') > totalWork(blocks)
      BY <1>7, <2>1, AddBlockStep, ReplaceStep DEF NodeInv, ReceiveBlock, ReceiveChain
  <2> QED
      BY <1>2, <2>1, <2>2
<1>8. ~ UNCHANGED <<blocks, state, disk>> =>
          save \/ Restart \/ MineFound \/ (\E c \in offered : ReceiveBlock(c) \/ ReceiveChain(c))
    BY DEF NodeNext, nodeVars, submitTransaction, StartMining, MineTipChanged, MineAborted,
           PeerMines, Tick
<1> QED
    BY <1>3, <1>4, <1>5, <1>6, <1>7, <1>8

(* Whatever brings blocks to it, and wherever it crashes, a node keeps the *)
(* promise of HeaviestChain: one valid chain and its accounts, moved only  *)
(* to strictly more work, and after a restart back to the snapshot.        *)
THEOREM NodeKeepsPromise == NodeSpec => ImplementsHeaviestChain
PROOF
<1>1. NodeInv /\ [NodeNext]_nodeVars => [Promise!Next]_Promise!vars
    BY PromiseStep
<1> QED
    BY <1>1, PromiseInit, NodeInvariant, PTL DEF NodeSpec, ImplementsHeaviestChain, Promise!Spec
=============================================================================
