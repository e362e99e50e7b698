-------------------------- MODULE InclusionProofs ---------------------------
(***************************************************************************)
(* What the operators of Chain, Mempool and Inclusion compute, for chains, *)
(* bodies and pools of any length: the work of a chain, applying and       *)
(* validating it, its transactions and their index, the order of nonces    *)
(* along it, and what the operations on a pool keep. NodeProofs and        *)
(* RelayProofs rest on these laws.                                         *)
(***************************************************************************)
EXTENDS Inclusion, TLAPS, FiniteSetTheorems, SequenceTheorems, FunctionTheorems

Heads == INSTANCE HeaderProofs WITH chain <- << >>, now <- 0, MaxTime <- 0, MaxHeight <- 0

-----------------------------------------------------------------------------
(* Work                                                                    *)

(* What HeaderProofs shows of a chain of headers holds of blocks.           *)
LEMMA HeadsAssumed == Heads!HeadersAssumption /\ Heads!HeaderChainAssumption
PROOF
BY HeadersAssumption
   DEF Heads!HeadersAssumption, Heads!HeaderChainAssumption

LEMMA SameWork ==
    /\ Heads!PowerOfTwo = PowerOfTwo
    /\ \A b : Heads!blockWork(b) = blockWork(b)
    /\ \A c : Heads!totalWork(c) = totalWork(c)
PROOF
<1>1. Heads!PowerOfTwo = PowerOfTwo
    BY DEF PowerOfTwo, Heads!PowerOfTwo
<1>2. \A b : Heads!blockWork(b) = blockWork(b)
    BY <1>1 DEF blockWork, Heads!blockWork
<1>3. \A c : Heads!totalWork(c) = totalWork(c)
    BY <1>2 DEF totalWork, Heads!totalWork, FoldLeft, Heads!FoldLeft,
                MapThenFoldSet, Heads!MapThenFoldSet, Max, Heads!Max
<1> QED
    BY <1>1, <1>2, <1>3

LEMMA PowerOfTwoType == \A d \in Nat : PowerOfTwo[d] \in Nat \ {0}
PROOF
BY Heads!PowerOfTwoType, HeadsAssumed, SameWork

LEMMA WorkOfNone == totalWork(<< >>) = 0
PROOF
BY Heads!WorkOfNone, HeadsAssumed, SameWork

LEMMA WorkOfAppend ==
    ASSUME NEW S, NEW c \in Seq(S), NEW b \in S
    PROVE  totalWork(Append(c, b)) = totalWork(c) + blockWork(b)
PROOF
<1>1. Heads!totalWork(Append(c, b)) = Heads!totalWork(c) + Heads!blockWork(b)
    BY Heads!WorkOfAppend, HeadsAssumed
<1> QED
    BY <1>1, SameWork

-----------------------------------------------------------------------------
(* Applying                                                                *)

BlockSet ==
    [timestamp : Nat, difficulty : Nat, miner : Addr \cup {"none"}, txs : Seq(SignedTxs)]

ChainSet == Seq(BlockSet) \ {<< >>}

Outcome == [ok : BOOLEAN, state : TypeOfState]

(* One round of ApplyAll and of FeesOf.                                    *)
Tested(p, acc, tx) ==
    IF acc.ok /\ CanApply(acc.state, tx)
    THEN [ok |-> TRUE, state |-> Applied(acc.state, tx)]
    ELSE [acc EXCEPT !.ok = FALSE]

Charged(p, sum, tx) == sum + tx.fee

Body == INSTANCE FoldLaws WITH op <- Tested

Fee == INSTANCE FoldLaws WITH op <- Charged

LEMMA ApplyIsFold ==
    \A state0, txs : ApplyAll(state0, txs) = Body!Fold(0, [ok |-> TRUE, state |-> state0], txs)
PROOF
BY DEF ApplyAll, Tested, Body!Fold, FoldLeft,
       MapThenFoldSet, Body!MapThenFoldSet, Max, Body!Greatest

LEMMA FeesIsFold == \A txs : FeesOf(txs) = Fee!Fold(0, 0, txs)
PROOF
BY DEF FeesOf, Charged, Fee!Fold, FoldLeft,
       MapThenFoldSet, Fee!MapThenFoldSet, Max, Fee!Greatest

LEMMA FeesType == \A txs \in Seq(SignedTxs) : FeesOf(txs) \in Nat
PROOF
<1> DEFINE Good == {txs \in Seq(SignedTxs) : FeesOf(txs) \in Nat}
<1>1. << >> \in Good
    BY FeesIsFold, Fee!FoldEmpty, EmptySeq
<1>2. ASSUME NEW txs \in Seq(SignedTxs), NEW tx \in SignedTxs, txs \in Good
      PROVE  Append(txs, tx) \in Good
  <2>1. FeesOf(Append(txs, tx)) = FeesOf(txs) + tx.fee
      BY FeesIsFold, Fee!FoldAppend DEF Charged
  <2>2. tx.fee \in Nat
      BY DEF SignedTxs
  <2> QED
      BY <1>2, <2>1, <2>2, AppendProperties
<1> HIDE DEF Good
<1>3. Seq(SignedTxs) \subseteq Good
    BY <1>1, <1>2, Fee!SeqSetInduction
<1> QED
    BY <1>3 DEF Good

LEMMA AppliedType ==
    ASSUME NEW s \in TypeOfState, NEW tx \in SignedTxs, CanApply(s, tx)
    PROVE  Applied(s, tx) \in TypeOfState
PROOF
<1>1. /\ tx.from \in Addr /\ tx.to \in Addr /\ tx.fee \in Nat /\ tx.amount \in Nat
    BY DEF SignedTxs
<1>2. s.balance \in [Addr -> Nat] /\ s.nonce \in [Addr -> Nat]
    BY DEF TypeOfState
<1>3. PICK cost \in Nat : cost = tx.fee + tx.amount
    BY <1>1
<1>4. s.balance[tx.from] \in Nat /\ s.balance[tx.from] >= cost
    BY <1>1, <1>2, <1>3 DEF CanApply
<1>5. PICK paid : paid = Minus(s.balance, tx.from, cost)
    OBVIOUS
<1>6. paid \in [Addr -> Nat]
  <2>1. PICK f \in [Addr -> Nat] : f = s.balance
      BY <1>2
  <2>2. f[tx.from] - cost \in Nat
      BY <1>3, <1>4, <2>1
  <2>3. paid = [f EXCEPT ![tx.from] = f[tx.from] - cost]
      BY <1>5, <2>1 DEF Minus
  <2> QED
      BY <2>2, <2>3
<1>7. Plus(paid, tx.to, tx.amount) \in [Addr -> Nat]
    BY <1>1, <1>6 DEF Plus
<1>8. [s.nonce EXCEPT ![tx.from] = @ + 1] \in [Addr -> Nat]
    BY <1>1, <1>2
<1> QED
    BY <1>3, <1>5, <1>7, <1>8 DEF Applied, TypeOfState

LEMMA ApplyAllEmpty ==
    \A s : ApplyAll(s, << >>) = [ok |-> TRUE, state |-> s]
PROOF
BY ApplyIsFold, Body!FoldEmpty

LEMMA ApplyAllAppend ==
    ASSUME NEW s, NEW txs \in Seq(SignedTxs), NEW tx \in SignedTxs
    PROVE  ApplyAll(s, Append(txs, tx)) =
               IF ApplyAll(s, txs).ok /\ CanApply(ApplyAll(s, txs).state, tx)
               THEN [ok |-> TRUE, state |-> Applied(ApplyAll(s, txs).state, tx)]
               ELSE [ApplyAll(s, txs) EXCEPT !.ok = FALSE]
PROOF
<1>1. PICK base : base = [ok |-> TRUE, state |-> s]
    OBVIOUS
<1>2. Body!Fold(0, base, Append(txs, tx)) = Tested(0, Body!Fold(0, base, txs), tx)
    BY Body!FoldAppend
<1>3. ApplyAll(s, Append(txs, tx)) = Body!Fold(0, base, Append(txs, tx))
    BY <1>1, ApplyIsFold
<1>4. ApplyAll(s, txs) = Body!Fold(0, base, txs)
    BY <1>1, ApplyIsFold
<1> QED
    BY <1>2, <1>3, <1>4 DEF Tested

LEMMA ApplyAllType ==
    ASSUME NEW s \in TypeOfState, NEW txs \in Seq(SignedTxs)
    PROVE  ApplyAll(s, txs) \in Outcome
PROOF
<1> DEFINE Good == {body \in Seq(SignedTxs) : ApplyAll(s, body) \in Outcome}
<1>1. << >> \in Good
  <2>1. [ok |-> TRUE, state |-> s] \in Outcome
      BY DEF Outcome
  <2> QED
      BY <2>1, ApplyAllEmpty, EmptySeq
<1>2. ASSUME NEW body \in Seq(SignedTxs), NEW tx \in SignedTxs, body \in Good
      PROVE  Append(body, tx) \in Good
  <2>1. PICK acc \in Outcome : acc = ApplyAll(s, body)
      BY <1>2
  <2>2. ApplyAll(s, Append(body, tx)) =
            IF acc.ok /\ CanApply(acc.state, tx)
            THEN [ok |-> TRUE, state |-> Applied(acc.state, tx)]
            ELSE [acc EXCEPT !.ok = FALSE]
      BY <2>1, ApplyAllAppend
  <2>3. acc.state \in TypeOfState
      BY DEF Outcome
  <2>4. ApplyAll(s, Append(body, tx)) \in Outcome
    <3>1. CASE acc.ok /\ CanApply(acc.state, tx)
        BY <2>2, <2>3, <3>1, AppliedType DEF Outcome
    <3>2. CASE ~ (acc.ok /\ CanApply(acc.state, tx))
        BY <2>2, <3>2 DEF Outcome
    <3> QED
        BY <3>1, <3>2
  <2> QED
      BY <2>4, AppendProperties
<1> HIDE DEF Good
<1>3. Seq(SignedTxs) \subseteq Good
    BY <1>1, <1>2, Body!SeqSetInduction
<1> QED
    BY <1>3 DEF Good

LEMMA ApplyBlockIs ==
    ASSUME NEW s \in TypeOfState, NEW b \in BlockSet
    PROVE  /\ applyBlock(s, b) \in Outcome
           /\ applyBlock(s, b).ok = ApplyAll(s, b.txs).ok
           /\ applyBlock(s, b).state.nonce = ApplyAll(s, b.txs).state.nonce
PROOF
<1>1. b.txs \in Seq(SignedTxs) /\ FeesOf(b.txs) \in Nat
    BY FeesType DEF BlockSet
<1>2. PICK body \in Outcome : body = ApplyAll(s, b.txs)
    BY <1>1, ApplyAllType
<1>3. PICK n \in Nat : n = BLOCK_REWARD + FeesOf(b.txs)
    BY <1>1, ChainAssumption
<1>4. body.state.balance \in [Addr -> Nat] /\ body.state.nonce \in [Addr -> Nat]
    BY DEF Outcome, TypeOfState
<1>5. Plus(body.state.balance, b.miner, n) \in [Addr -> Nat]
  <2>1. PICK f \in [Addr -> Nat] : f = body.state.balance
      BY <1>4
  <2>2. PICK m : m = b.miner
      OBVIOUS
  <2>3. [f EXCEPT ![m] = @ + n] \in [Addr -> Nat]
    <3>1. CASE m \in Addr
      <4>1. f[m] + n \in Nat
          BY <3>1
      <4> QED
          BY <4>1
    <3>2. CASE m \notin Addr
        BY <3>2
    <3> QED
        BY <3>1, <3>2
  <2> QED
      BY <2>1, <2>2, <2>3 DEF Plus
<1>6. applyBlock(s, b) = [body EXCEPT !.state.balance = Plus(@, b.miner, n)]
    BY <1>2, <1>3 DEF applyBlock
<1>7. applyBlock(s, b) =
          [ok    |-> body.ok,
           state |-> [balance |-> Plus(body.state.balance, b.miner, n),
                      nonce   |-> body.state.nonce]]
    BY <1>6 DEF Outcome, TypeOfState
<1> QED
    BY <1>2, <1>4, <1>5, <1>7 DEF Outcome, TypeOfState

-----------------------------------------------------------------------------
(* Validating                                                              *)

(* One round of validateChain by the clock p, and where it begins.         *)
Checked(p, acc, b) == IF acc.ok THEN Validated(acc, b, p) ELSE acc

Rooted == [ok |-> TRUE, state |-> genesisState, chain |-> <<genesisBlock>>]

Replay == INSTANCE FoldLaws WITH op <- Checked

LEMMA GenesisType == genesisBlock \in BlockSet /\ <<genesisBlock>> \in ChainSet
PROOF
<1>1. GENESIS_DIFFICULTY \in Nat
    BY HeadersAssumption
<1>2. << >> \in Seq(SignedTxs)
    BY EmptySeq
<1> QED
    BY <1>1, <1>2 DEF genesisBlock, BlockSet, ChainSet

LEMMA GenesisStateType == genesisState \in TypeOfState
PROOF
BY ChainAssumption DEF genesisState, TypeOfState

LEMMA ChainInduction ==
    ASSUME NEW Good, \A b \in BlockSet : <<b>> \in Good,
           \A c \in ChainSet, b \in BlockSet : c \in Good => Append(c, b) \in Good
    PROVE  ChainSet \subseteq Good
PROOF
<1> DEFINE All == Good \cup {<< >>}
<1>1. ASSUME NEW c \in Seq(BlockSet), NEW b \in BlockSet, c \in All
      PROVE  Append(c, b) \in All
  <2>1. CASE c = << >>
    <3>1. Append(c, b) = <<b>>
        BY <2>1
    <3> QED
        BY <3>1
  <2>2. CASE c # << >>
      BY <1>1, <2>2 DEF ChainSet
  <2> QED
      BY <2>1, <2>2
<1> HIDE DEF All
<1>2. Seq(BlockSet) \subseteq All
  <2>1. << >> \in All
      BY DEF All
  <2> QED
      BY <1>1, <2>1, Replay!SeqSetInduction
<1> QED
    BY <1>2 DEF All, ChainSet

LEMMA ValidateIsFold ==
    \A c, t : Head(c) = genesisBlock => validateChain(c, t) = Replay!Fold(t, Rooted, Tail(c))
PROOF
BY DEF validateChain, Checked, Rooted, Replay!Fold, FoldLeft,
       MapThenFoldSet, Replay!MapThenFoldSet, Max, Replay!Greatest

LEMMA ValidateOther ==
    \A c, t : Head(c) # genesisBlock => ~ validateChain(c, t).ok
PROOF
BY DEF validateChain

LEMMA ValidateAlone == \A t : validateChain(<<genesisBlock>>, t) = Rooted
PROOF
<1>1. Head(<<genesisBlock>>) = genesisBlock /\ Tail(<<genesisBlock>>) = << >>
    OBVIOUS
<1> QED
    BY <1>1, ValidateIsFold, Replay!FoldEmpty

LEMMA HeadOfAppend ==
    ASSUME NEW c \in ChainSet, NEW b \in BlockSet
    PROVE  /\ Append(c, b) \in ChainSet
           /\ Head(Append(c, b)) = Head(c) /\ Tail(Append(c, b)) = Append(Tail(c), b)
           /\ Tail(c) \in Seq(BlockSet)
PROOF
BY HeadTailAppend, HeadTailProperties, AppendProperties DEF ChainSet

LEMMA ValidateAppend ==
    ASSUME NEW c \in ChainSet, NEW b \in BlockSet, NEW t
    PROVE  validateChain(Append(c, b), t) = IF validateChain(c, t).ok
                                            THEN Validated(validateChain(c, t), b, t)
                                            ELSE validateChain(c, t)
PROOF
<1>1. PICK d : d = Append(c, b)
    OBVIOUS
<1>2. Head(d) = Head(c) /\ Tail(d) = Append(Tail(c), b) /\ Tail(c) \in Seq(BlockSet)
    BY <1>1, HeadOfAppend
<1>3. CASE Head(c) = genesisBlock
  <2>1. PICK base : base = Rooted
      OBVIOUS
  <2>5. PICK tail \in Seq(BlockSet) : tail = Tail(c)
      BY <1>2
  <2>2. Replay!Fold(t, base, Append(tail, b)) = Checked(t, Replay!Fold(t, base, tail), b)
      BY Replay!FoldAppend
  <2>3. validateChain(d, t) = Replay!Fold(t, base, Append(tail, b))
      BY <1>2, <1>3, <2>1, <2>5, ValidateIsFold
  <2>4. validateChain(c, t) = Replay!Fold(t, base, tail)
      BY <1>3, <2>1, <2>5, ValidateIsFold
  <2> QED
      BY <1>1, <2>2, <2>3, <2>4 DEF Checked
<1>4. CASE Head(c) # genesisBlock
  <2>1. validateChain(d, t) = validateChain(c, t)
      BY <1>2, <1>4 DEF validateChain
  <2>2. ~ validateChain(c, t).ok
      BY <1>4, ValidateOther
  <2> QED
      BY <1>1, <2>1, <2>2
<1> QED
    BY <1>3, <1>4

(* What a chain that passes looks like: the replay ends in the chain       *)
(* itself, and the accounts are accounts.                                  *)
ValidResult(c, t) ==
    validateChain(c, t).ok =>
        /\ Head(c) = genesisBlock
        /\ validateChain(c, t) = [ok    |-> TRUE,
                                  state |-> validateChain(c, t).state,
                                  chain |-> c]
        /\ validateChain(c, t).state \in TypeOfState

(* A chain passes when the chain before its last block does and the block  *)
(* meets every rule on it.                                                 *)
FollowsOn(c, b, t) ==
    /\ StructureOK(b, t)
    /\ ContextOK(c, b, t)
    /\ ToSet(b.txs) \cap TxsOf(c) = {}
    /\ applyBlock(validateChain(c, t).state, b).ok

LEMMA ValidatedIs ==
    ASSUME NEW c \in ChainSet, NEW b \in BlockSet, NEW t, ValidResult(c, t)
    PROVE  /\ validateChain(Append(c, b), t).ok <=> validateChain(c, t).ok /\ FollowsOn(c, b, t)
           /\ validateChain(Append(c, b), t).ok =>
                  validateChain(Append(c, b), t) =
                      [ok |-> TRUE, state |-> applyBlock(validateChain(c, t).state, b).state,
                       chain |-> Append(c, b)]
PROOF
<1>1. PICK r : r = validateChain(c, t)
    OBVIOUS
<1>2. PICK e : e = validateChain(Append(c, b), t)
    OBVIOUS
<1>3. e = IF r.ok THEN Validated(r, b, t) ELSE r
    BY <1>1, <1>2, ValidateAppend
<1>4. CASE r.ok
  <2>1. r = [ok |-> TRUE, state |-> r.state, chain |-> c]
      BY <1>1, <1>4 DEF ValidResult
  <2>2. r.chain = c /\ r.ok = TRUE
      BY <2>1
  <2>3. e = [ok |-> FollowsOn(c, b, t), state |-> applyBlock(r.state, b).state,
             chain |-> Append(c, b)]
    <3>1. PICK a : a = applyBlock(r.state, b)
        OBVIOUS
    <3>2. e = [ok |-> /\ StructureOK(b, t) /\ ContextOK(c, b, t)
                      /\ ToSet(b.txs) \cap TxsOf(c) = {} /\ a.ok,
               state |-> a.state, chain |-> Append(c, b)]
        BY <1>3, <1>4, <2>2, <3>1 DEF Validated
    <3> QED
        BY <1>1, <3>1, <3>2 DEF FollowsOn
  <2>4. e.ok <=> FollowsOn(c, b, t)
      BY <2>3
  <2>5. e.ok => e = [ok |-> TRUE, state |-> applyBlock(r.state, b).state,
                     chain |-> Append(c, b)]
      BY <2>3
  <2> QED
      BY <1>1, <1>2, <1>4, <2>4, <2>5
<1>5. CASE ~ r.ok
    BY <1>1, <1>2, <1>3, <1>5
<1> QED
    BY <1>4, <1>5

LEMMA ValidResults == \A t : \A c \in ChainSet : ValidResult(c, t)
PROOF
<1> SUFFICES ASSUME NEW t
             PROVE  \A c \in ChainSet : ValidResult(c, t)
    OBVIOUS
<1> DEFINE Good == {c \in ChainSet : ValidResult(c, t)}
<1>1. ASSUME NEW b \in BlockSet
      PROVE  <<b>> \in Good
  <2>1. <<b>> \in ChainSet /\ Head(<<b>>) = b
      BY DEF ChainSet
  <2>2. CASE b = genesisBlock
    <3>1. validateChain(<<b>>, t) = Rooted
        BY <2>2, ValidateAlone
    <3> QED
        BY <2>1, <2>2, <3>1, GenesisStateType DEF ValidResult, Rooted
  <2>3. CASE b # genesisBlock
      BY <2>1, <2>3, ValidateOther DEF ValidResult
  <2> QED
      BY <2>2, <2>3
<1>2. ASSUME NEW c \in ChainSet, NEW b \in BlockSet, c \in Good
      PROVE  Append(c, b) \in Good
  <2>1. PICK d \in ChainSet : d = Append(c, b) /\ Head(d) = Head(c)
      BY HeadOfAppend
  <2> SUFFICES ASSUME validateChain(d, t).ok
               PROVE  /\ Head(d) = genesisBlock
                      /\ validateChain(d, t) = [ok |-> TRUE, state |-> validateChain(d, t).state,
                                                chain |-> d]
                      /\ validateChain(d, t).state \in TypeOfState
      BY <2>1 DEF ValidResult
  <2>2. ValidResult(c, t)
      BY <1>2
  <2>3. validateChain(c, t).ok
      BY <2>1, <2>2, ValidatedIs
  <2>4. validateChain(c, t).state \in TypeOfState /\ Head(c) = genesisBlock
      BY <2>2, <2>3 DEF ValidResult
  <2>5. PICK a \in Outcome : a = applyBlock(validateChain(c, t).state, b)
      BY <2>4, ApplyBlockIs
  <2>6. validateChain(d, t) = [ok |-> TRUE, state |-> a.state, chain |-> d]
      BY <2>1, <2>2, <2>5, ValidatedIs
  <2> QED
      BY <2>1, <2>4, <2>6 DEF Outcome
<1> HIDE DEF Good
<1>3. ChainSet \subseteq Good
    BY <1>1, <1>2, ChainInduction
<1> QED
    BY <1>3 DEF Good

(* The accounts after c, by the clock t.                                   *)
After(c, t) == validateChain(c, t).state

LEMMA ValidAppend ==
    ASSUME NEW c \in ChainSet, NEW b \in BlockSet, NEW t
    PROVE  /\ validateChain(Append(c, b), t).ok <=> validateChain(c, t).ok /\ FollowsOn(c, b, t)
           /\ validateChain(Append(c, b), t).ok =>
                  After(Append(c, b), t) = applyBlock(After(c, t), b).state
PROOF
BY ValidResults, ValidatedIs DEF After

LEMMA ValidType ==
    ASSUME NEW c \in ChainSet, NEW t, validateChain(c, t).ok
    PROVE  Head(c) = genesisBlock /\ After(c, t) \in TypeOfState
PROOF
BY ValidResults DEF ValidResult, After

(* An induction along the chains that pass.                                *)
LEMMA ValidInduction ==
    ASSUME NEW t, NEW Good, <<genesisBlock>> \in Good,
           \A c \in ChainSet, b \in BlockSet :
               /\ c \in Good /\ Append(c, b) \in ChainSet
               /\ validateChain(c, t).ok /\ validateChain(Append(c, b), t).ok
               => Append(c, b) \in Good
    PROVE  \A c \in ChainSet : validateChain(c, t).ok => c \in Good
PROOF
<1> DEFINE All == {c \in ChainSet : validateChain(c, t).ok => c \in Good}
<1>1. ASSUME NEW b \in BlockSet
      PROVE  <<b>> \in All
  <2>1. <<b>> \in ChainSet /\ Head(<<b>>) = b
      BY DEF ChainSet
  <2> QED
      BY <2>1, ValidateOther
<1>2. ASSUME NEW c \in ChainSet, NEW b \in BlockSet, c \in All
      PROVE  Append(c, b) \in All
    BY <1>2, HeadOfAppend, ValidAppend
<1> HIDE DEF All
<1>3. ChainSet \subseteq All
    BY <1>1, <1>2, ChainInduction
<1> QED
    BY <1>3 DEF All

(* What is valid stays valid, and leaves the same accounts.                *)
LEMMA StructureLater ==
    ASSUME NEW b \in BlockSet, NEW t \in Nat, NEW u \in Nat, t <= u, StructureOK(b, t)
    PROVE  StructureOK(b, u)
PROOF
<1>1. ASSUME NEW tx \in ToSet(b.txs)
      PROVE  validateTransaction(tx, u)
  <2>1. tx \in SignedTxs
    <3>1. PICK txs \in Seq(SignedTxs) : txs = b.txs
        BY DEF BlockSet
    <3> QED
        BY <3>1, ElementOfSeq, LenProperties DEF ToSet
  <2>2. tx.timestamp \in Nat
      BY <2>1 DEF SignedTxs
  <2>3. validateTransaction(tx, t)
      BY DEF StructureOK
  <2>4. PICK drift \in Nat : drift = MAX_TX_FUTURE_DRIFT_MS
      BY TransactionsAssumption
  <2>5. tx.timestamp <= t + drift
      BY <2>3, <2>4 DEF validateTransaction
  <2>6. tx.timestamp <= u + drift
      BY <2>2, <2>4, <2>5
  <2> QED
      BY <2>3, <2>4, <2>6 DEF validateTransaction
<1> QED
    BY <1>1 DEF StructureOK

LEMMA ContextLater ==
    ASSUME NEW c, NEW b \in BlockSet, NEW t \in Nat, NEW u \in Nat, t <= u, ContextOK(c, b, t)
    PROVE  ContextOK(c, b, u)
PROOF
<1>1. PICK drift \in Nat : drift = MAX_FUTURE_DRIFT_MS
    BY HeadersAssumption
<1>2. PICK ts \in Nat : ts = b.timestamp
    BY DEF BlockSet
<1>3. ts <= t + drift
    BY <1>1, <1>2 DEF ContextOK, InTime
<1>4. ts <= u + drift
    BY <1>3
<1> QED
    BY <1>1, <1>2, <1>4 DEF ContextOK, InTime

LEMMA ValidLater ==
    ASSUME NEW t \in Nat, NEW u \in Nat, t <= u, NEW c \in ChainSet, validateChain(c, t).ok
    PROVE  validateChain(c, u).ok /\ After(c, u) = After(c, t)
PROOF
<1> DEFINE Good == {d \in ChainSet : validateChain(d, u).ok /\ After(d, u) = After(d, t)}
<1>1. <<genesisBlock>> \in Good
    BY ValidateAlone, GenesisType DEF After, Rooted
<1>2. ASSUME NEW d \in ChainSet, NEW b \in BlockSet,
             d \in Good, Append(d, b) \in ChainSet,
             validateChain(d, t).ok, validateChain(Append(d, b), t).ok
      PROVE  Append(d, b) \in Good
  <2>1. validateChain(d, u).ok /\ After(d, u) = After(d, t)
      BY <1>2
  <2>2. FollowsOn(d, b, t)
      BY <1>2, ValidAppend
  <2>3. FollowsOn(d, b, u)
      BY <2>1, <2>2, StructureLater, ContextLater DEF FollowsOn, After
  <2>4. validateChain(Append(d, b), u).ok
      BY <2>1, <2>3, ValidAppend
  <2>5. After(Append(d, b), u) = After(Append(d, b), t)
      BY <1>2, <2>1, <2>4, ValidAppend
  <2> QED
      BY <1>2, <2>4, <2>5
<1> HIDE DEF Good
<1>3. \A d \in ChainSet : validateChain(d, t).ok => d \in Good
    BY <1>1, <1>2, ValidInduction
<1> QED
    BY <1>3 DEF Good

-----------------------------------------------------------------------------
(* Work of chains                                                          *)

LEMMA BlockWorkType == \A b \in BlockSet : blockWork(b) \in Nat /\ blockWork(b) > 0
PROOF
<1> SUFFICES ASSUME NEW b \in BlockSet
             PROVE  blockWork(b) \in Nat /\ blockWork(b) > 0
    OBVIOUS
<1>1. b.difficulty \in Nat
    BY DEF BlockSet
<1> QED
    BY <1>1, PowerOfTwoType DEF blockWork

LEMMA WorkOfAlone == totalWork(<<genesisBlock>>) = blockWork(genesisBlock)
PROOF
<1>1. PICK b \in BlockSet : b = genesisBlock
    BY GenesisType
<1>2. blockWork(b) \in Nat
    BY BlockWorkType
<1>3. << >> \in Seq(BlockSet) /\ Append(<< >>, b) = <<b>>
    OBVIOUS
<1>4. totalWork(Append(<< >>, b)) = totalWork(<< >>) + blockWork(b)
    BY <1>3, WorkOfAppend
<1>5. totalWork(<<b>>) = blockWork(b)
    BY <1>2, <1>3, <1>4, WorkOfNone
<1> QED
    BY <1>1, <1>5

LEMMA WorkType == \A c \in Seq(BlockSet) : totalWork(c) \in Nat
PROOF
<1> DEFINE Good == {c \in Seq(BlockSet) : totalWork(c) \in Nat}
<1>1. << >> \in Good
    BY WorkOfNone
<1>2. ASSUME NEW c \in Seq(BlockSet), NEW b \in BlockSet, c \in Good
      PROVE  Append(c, b) \in Good
    BY <1>2, WorkOfAppend, BlockWorkType, AppendProperties
<1> HIDE DEF Good
<1>3. Seq(BlockSet) \subseteq Good
    BY <1>1, <1>2, Replay!SeqSetInduction
<1> QED
    BY <1>3 DEF Good

LEMMA WorkGrows ==
    ASSUME NEW c \in ChainSet, NEW b \in BlockSet
    PROVE  /\ totalWork(c) \in Nat
           /\ totalWork(Append(c, b)) = totalWork(c) + blockWork(b)
           /\ totalWork(Append(c, b)) > totalWork(c)
PROOF
<1>1. c \in Seq(BlockSet)
    BY DEF ChainSet
<1>2. totalWork(c) \in Nat /\ blockWork(b) \in Nat /\ blockWork(b) > 0
    BY <1>1, WorkType, BlockWorkType
<1>3. totalWork(Append(c, b)) = totalWork(c) + blockWork(b)
    BY <1>1, WorkOfAppend
<1> QED
    BY <1>2, <1>3

(* A chain longer than the genesis block alone has more work than it.      *)
LEMMA GenesisIsLightest ==
    ASSUME NEW t, NEW c \in ChainSet, validateChain(c, t).ok
    PROVE  c = <<genesisBlock>> \/ (Len(c) > 1 /\ totalWork(c) > totalWork(<<genesisBlock>>))
PROOF
<1> DEFINE Good == {d \in ChainSet :
                \/ d = <<genesisBlock>>
                \/ Len(d) > 1 /\ totalWork(d) > totalWork(<<genesisBlock>>)}
<1>1. <<genesisBlock>> \in Good
    BY GenesisType
<1>2. ASSUME NEW d \in ChainSet, NEW b \in BlockSet,
             d \in Good, Append(d, b) \in ChainSet,
             validateChain(d, t).ok, validateChain(Append(d, b), t).ok
      PROVE  Append(d, b) \in Good
  <2>1. PICK e \in ChainSet : e = Append(d, b)
      BY <1>2
  <2>2. totalWork(d) \in Nat /\ totalWork(e) \in Nat /\ totalWork(e) > totalWork(d)
        /\ totalWork(<<genesisBlock>>) \in Nat
      BY <2>1, WorkGrows, WorkType, GenesisType DEF ChainSet
  <2>3. totalWork(e) > totalWork(<<genesisBlock>>)
      BY <1>2, <2>2
  <2>4. Len(e) > 1
      BY <2>1, AppendProperties, LenProperties, EmptySeq DEF ChainSet
  <2> QED
      BY <2>1, <2>3, <2>4
<1> HIDE DEF Good
<1>3. \A d \in ChainSet : validateChain(d, t).ok => d \in Good
    BY <1>1, <1>2, ValidInduction
<1> QED
    BY <1>3 DEF Good

-----------------------------------------------------------------------------
(* The transactions of a chain, and the index                              *)

LEMMA ToSetIs ==
    ASSUME NEW S, NEW s \in Seq(S)
    PROVE  /\ ToSet(s) \subseteq S
           /\ \A x \in S : ToSet(Append(s, x)) = ToSet(s) \cup {x}
PROOF
<1>1. PICK n \in Nat : n = Len(s) /\ DOMAIN s = 1..n /\ \A i \in 1..n : s[i] \in S
    BY LenProperties, ElementOfSeq
<1>2. ASSUME NEW x \in S
      PROVE  ToSet(Append(s, x)) = ToSet(s) \cup {x}
  <2>1. PICK e : e = Append(s, x)
      OBVIOUS
  <2>2. /\ DOMAIN e = 1..(n + 1) /\ e[n + 1] = x
        /\ \A i \in 1..n : e[i] = s[i]
      BY <1>1, <2>1, AppendProperties, LenProperties
  <2>3. 1..(n + 1) = (1..n) \cup {n + 1}
      OBVIOUS
  <2> QED
      BY <1>1, <2>1, <2>2, <2>3 DEF ToSet
<1> QED
    BY <1>1, <1>2 DEF ToSet

LEMMA BlockTxs == \A b \in BlockSet : b.txs \in Seq(SignedTxs) /\ ToSet(b.txs) \subseteq SignedTxs
PROOF
BY ToSetIs DEF BlockSet

LEMMA TxsOfAppend ==
    ASSUME NEW c \in Seq(BlockSet), NEW b \in BlockSet
    PROVE  TxsOf(Append(c, b)) = TxsOf(c) \cup ToSet(b.txs)
PROOF
<1>1. PICK n \in Nat : n = Len(c) /\ DOMAIN c = 1..n
    BY LenProperties
<1>2. PICK e : e = Append(c, b)
    OBVIOUS
<1>3. DOMAIN e = 1..(n + 1) /\ e[n + 1] = b /\ \A i \in 1..n : e[i] = c[i]
    BY <1>1, <1>2, AppendProperties, LenProperties
<1>4. 1..(n + 1) = (1..n) \cup {n + 1}
    OBVIOUS
<1> QED
    BY <1>1, <1>2, <1>3, <1>4 DEF TxsOf

LEMMA TxsOfAlone == TxsOf(<<genesisBlock>>) = {}
PROOF
<1>1. DOMAIN <<genesisBlock>> = {1} /\ <<genesisBlock>>[1] = genesisBlock
    OBVIOUS
<1>2. ToSet(genesisBlock.txs) = {}
    BY DEF genesisBlock, ToSet
<1> QED
    BY <1>1, <1>2 DEF TxsOf

LEMMA TxsOfType == \A c \in Seq(BlockSet) : TxsOf(c) \subseteq SignedTxs
PROOF
<1> SUFFICES ASSUME NEW c \in Seq(BlockSet), NEW i \in DOMAIN c
             PROVE  ToSet(c[i].txs) \subseteq SignedTxs
    BY DEF TxsOf
<1>1. c[i] \in BlockSet
    BY LenProperties, ElementOfSeq
<1> QED
    BY <1>1, BlockTxs

(* No transaction has two places in c.                                     *)
Distinct(c) ==
    \A i, j \in DOMAIN c : \A p \in DOMAIN c[i].txs, q \in DOMAIN c[j].txs :
        c[i].txs[p] = c[j].txs[q] => i = j /\ p = q

LEMMA Longer ==
    ASSUME NEW c \in Seq(BlockSet), NEW b \in BlockSet
    PROVE  /\ Append(c, b) \in Seq(BlockSet) /\ Len(Append(c, b)) = Len(c) + 1
           /\ DOMAIN c = 1..Len(c) /\ DOMAIN Append(c, b) = 1..(Len(c) + 1)
           /\ Append(c, b)[Len(c) + 1] = b
           /\ \A i \in DOMAIN c : i \in DOMAIN Append(c, b) /\ Append(c, b)[i] = c[i]
           /\ \A i \in DOMAIN Append(c, b) : i \in DOMAIN c \/ i = Len(c) + 1
           /\ Len(c) + 1 \notin DOMAIN c /\ Len(c) \in Nat
PROOF
<1>1. PICK n \in Nat : n = Len(c) /\ DOMAIN c = 1..n
    BY LenProperties
<1>2. PICK e : e = Append(c, b)
    OBVIOUS
<1>3. /\ e \in Seq(BlockSet) /\ Len(e) = n + 1 /\ DOMAIN e = 1..(n + 1)
      /\ e[n + 1] = b /\ \A i \in 1..n : e[i] = c[i]
    BY <1>1, <1>2, AppendProperties, LenProperties
<1>4. /\ \A i \in 1..n : i \in 1..(n + 1)
      /\ \A i \in 1..(n + 1) : i \in 1..n \/ i = n + 1
      /\ n + 1 \notin 1..n
    OBVIOUS
<1> QED
    BY <1>1, <1>2, <1>3, <1>4

LEMMA DistinctAppend ==
    ASSUME NEW c \in Seq(BlockSet), NEW b \in BlockSet, Distinct(c),
           IsInjective(b.txs), ToSet(b.txs) \cap TxsOf(c) = {}
    PROVE  Distinct(Append(c, b))
PROOF
<1>1. PICK e : e = Append(c, b)
    OBVIOUS
<1>2. PICK n \in Nat : n = Len(c) + 1
    BY Longer
<1>3. /\ e[n] = b /\ n \notin DOMAIN c
      /\ \A i \in DOMAIN c : e[i] = c[i]
      /\ \A i \in DOMAIN e : i \in DOMAIN c \/ i = n
    BY <1>1, <1>2, Longer
<1>4. \A i \in DOMAIN c : \A p \in DOMAIN c[i].txs, q \in DOMAIN b.txs :
          c[i].txs[p] # b.txs[q]
    BY DEF TxsOf, ToSet
<1>5. \A p, q \in DOMAIN b.txs : b.txs[p] = b.txs[q] => p = q
    BY DEF IsInjective
<1> QED
    BY <1>1, <1>3, <1>4, <1>5 DEF Distinct

LEMMA ValidDistinct ==
    ASSUME NEW t, NEW c \in ChainSet, validateChain(c, t).ok
    PROVE  Distinct(c)
PROOF
<1> DEFINE Good == {d \in ChainSet : Distinct(d)}
<1>1. <<genesisBlock>> \in Good
  <2>1. DOMAIN <<genesisBlock>> = {1} /\ <<genesisBlock>>[1] = genesisBlock
      OBVIOUS
  <2>2. DOMAIN genesisBlock.txs = {}
      BY DEF genesisBlock
  <2> QED
      BY <2>1, <2>2, GenesisType DEF Distinct
<1>2. ASSUME NEW d \in ChainSet, NEW b \in BlockSet,
             d \in Good, Append(d, b) \in ChainSet,
             validateChain(d, t).ok, validateChain(Append(d, b), t).ok
      PROVE  Append(d, b) \in Good
  <2>1. FollowsOn(d, b, t)
      BY <1>2, ValidAppend
  <2>2. d \in Seq(BlockSet)
      BY DEF ChainSet
  <2> QED
      BY <1>2, <2>1, <2>2, DistinctAppend DEF FollowsOn, StructureOK
<1> HIDE DEF Good
<1>3. \A d \in ChainSet : validateChain(d, t).ok => d \in Good
    BY <1>1, <1>2, ValidInduction
<1> QED
    BY <1>3 DEF Good

(* index finds exactly the transactions of c.                              *)
Exact(index, c) ==
    /\ DOMAIN index = TxsOf(c)
    /\ \A i \in DOMAIN c, tx \in DOMAIN index :
          \A p \in DOMAIN c[i].txs : c[i].txs[p] = tx <=> index[tx] = <<i, p>>

LEMMA IndexOfExact ==
    ASSUME NEW c \in Seq(BlockSet), Distinct(c)
    PROVE  Exact(IndexOf(c), c)
PROOF
<1>1. PICK index : index = IndexOf(c)
    OBVIOUS
<1>2. PICK places : places = UNION {{i} \X DOMAIN c[i].txs : i \in DOMAIN c}
    OBVIOUS
<1>3. index = [tx \in TxsOf(c) |-> CHOOSE at \in places : c[at[1]].txs[at[2]] = tx]
    BY <1>1, <1>2 DEF IndexOf
<1>4. \A i \in DOMAIN c : \A p \in DOMAIN c[i].txs : <<i, p>> \in places
    BY <1>2
<1>5. \A at \in places : \E i \in DOMAIN c : \E p \in DOMAIN c[i].txs : at = <<i, p>>
    BY <1>2
<1>6. ASSUME NEW tx \in TxsOf(c)
      PROVE  \E i \in DOMAIN c : \E p \in DOMAIN c[i].txs :
                 index[tx] = <<i, p>> /\ c[i].txs[p] = tx
  <2>0. PICK j \in DOMAIN c : \E q \in DOMAIN c[j].txs : c[j].txs[q] = tx
      BY DEF TxsOf, ToSet
  <2>1. PICK q \in DOMAIN c[j].txs : c[j].txs[q] = tx
      BY <2>0
  <2>2. PICK at : at = <<j, q>>
      OBVIOUS
  <2>3. at \in places /\ at[1] = j /\ at[2] = q
      BY <1>4, <2>2
  <2>4. c[at[1]].txs[at[2]] = tx
      BY <2>1, <2>3
  <2>5. index[tx] \in places /\ c[index[tx][1]].txs[index[tx][2]] = tx
      BY <1>3, <2>3, <2>4
  <2>8. PICK i \in DOMAIN c : \E p \in DOMAIN c[i].txs : index[tx] = <<i, p>>
      BY <1>5, <2>5
  <2>6. PICK p \in DOMAIN c[i].txs : index[tx] = <<i, p>>
      BY <2>8
  <2>7. index[tx][1] = i /\ index[tx][2] = p
      BY <2>6
  <2> QED
      BY <2>5, <2>6, <2>7
<1>7. ASSUME NEW i \in DOMAIN c, NEW tx \in TxsOf(c), NEW p \in DOMAIN c[i].txs
      PROVE  c[i].txs[p] = tx <=> index[tx] = <<i, p>>
  <2>0. PICK j \in DOMAIN c :
            \E q \in DOMAIN c[j].txs : index[tx] = <<j, q>> /\ c[j].txs[q] = tx
      BY <1>6
  <2>1. PICK q \in DOMAIN c[j].txs : index[tx] = <<j, q>> /\ c[j].txs[q] = tx
      BY <2>0
  <2>2. c[i].txs[p] = tx => i = j /\ p = q
      BY <2>1 DEF Distinct
  <2>3. index[tx] = <<i, p>> => i = j /\ p = q
      BY <2>1
  <2> QED
      BY <2>1, <2>2, <2>3
<1>8. DOMAIN index = TxsOf(c)
    BY <1>3
<1> QED
    BY <1>1, <1>7, <1>8 DEF Exact

-----------------------------------------------------------------------------
(* Nonces                                                                  *)

NoncesOf(txs, a) == {tx.nonce : tx \in {t \in txs : t.from = a}}

LEMMA NoncesOfUnion ==
    /\ \A a : NoncesOf({}, a) = {}
    /\ \A T, U, a : NoncesOf(T \cup U, a) = NoncesOf(T, a) \cup NoncesOf(U, a)
    /\ \A tx, a : NoncesOf({tx}, a) = IF tx.from = a THEN {tx.nonce} ELSE {}
PROOF
BY DEF NoncesOf

(* A sender's transactions in txs use the nonces from s up to e, each once *)
(* and in order.                                                           *)
BodyOrder(txs, s, e) ==
    /\ \A a \in Addr : s[a] <= e[a] /\ NoncesOf(ToSet(txs), a) = s[a]..(e[a] - 1)
    /\ \A p, q \in DOMAIN txs : txs[p].from = txs[q].from /\ p > q => txs[p].nonce > txs[q].nonce

LEMMA BodyOrderAppend ==
    ASSUME NEW txs \in Seq(SignedTxs), NEW tx \in SignedTxs,
           NEW s \in [Addr -> Nat], NEW e \in [Addr -> Nat], NEW f \in [Addr -> Nat],
           BodyOrder(txs, s, e), tx.nonce = e[tx.from], f = [e EXCEPT ![tx.from] = @ + 1]
    PROVE  BodyOrder(Append(txs, tx), s, f)
PROOF
<1>0. tx.from \in Addr /\ \A t \in SignedTxs : t.nonce \in Nat /\ t.from \in Addr
    BY DEF SignedTxs
<1>1. PICK n \in Nat : n = Len(txs) /\ DOMAIN txs = 1..n
    BY LenProperties
<1>2. PICK long : long = Append(txs, tx)
    OBVIOUS
<1>3. /\ DOMAIN long = 1..(n + 1) /\ long[n + 1] = tx
      /\ \A i \in 1..n : long[i] = txs[i] /\ txs[i] \in SignedTxs
    BY <1>1, <1>2, AppendProperties, LenProperties, ElementOfSeq
<1>4. ASSUME NEW a \in Addr
      PROVE  s[a] <= f[a] /\ NoncesOf(ToSet(long), a) = s[a]..(f[a] - 1)
  <2>0. ToSet(long) = ToSet(txs) \cup {tx}
      BY <1>2, ToSetIs
  <2>1. NoncesOf(ToSet(long), a) = NoncesOf(ToSet(txs), a) \cup NoncesOf({tx}, a)
      BY <2>0 DEF NoncesOf
  <2>2. PICK low \in Nat, high \in Nat : low = s[a] /\ high = e[a]
      OBVIOUS
  <2>3. low <= high /\ NoncesOf(ToSet(txs), a) = low..(high - 1)
      BY <2>2 DEF BodyOrder
  <2>4. CASE tx.from = a
    <3>1. f[a] = high + 1 /\ tx.nonce = high
        BY <2>2, <2>4
    <3>2. NoncesOf({tx}, a) = {high}
        BY <2>4, <3>1, NoncesOfUnion
    <3>3. low..high = (low..(high - 1)) \cup {high} /\ (high + 1) - 1 = high /\ low <= high + 1
        BY <2>3
    <3> QED
        BY <2>1, <2>2, <2>3, <3>1, <3>2, <3>3
  <2>5. CASE tx.from # a
    <3>1. f[a] = high
        BY <2>2, <2>5
    <3>2. NoncesOf({tx}, a) = {}
        BY <2>5, NoncesOfUnion
    <3> QED
        BY <2>1, <2>2, <2>3, <3>1, <3>2
  <2> QED
      BY <2>4, <2>5
<1>5. ASSUME NEW p \in 1..(n + 1), NEW q \in 1..(n + 1), long[p].from = long[q].from, p > q
      PROVE  long[p].nonce > long[q].nonce
  <2>1. q \in 1..n
      BY <1>5
  <2>2. CASE p \in 1..n
      BY <1>1, <1>3, <1>5, <2>1, <2>2 DEF BodyOrder
  <2>3. CASE p = n + 1
    <3>1. PICK t \in SignedTxs : t = txs[q] /\ t = long[q] /\ t \in ToSet(txs)
        BY <1>1, <1>3, <2>1 DEF ToSet
    <3>2. t.from = tx.from
        BY <1>3, <1>5, <2>3, <3>1
    <3>3. PICK a \in Addr : a = tx.from
        BY <1>0
    <3>4. t.nonce \in NoncesOf(ToSet(txs), a)
        BY <3>1, <3>2, <3>3 DEF NoncesOf
    <3>5. t.nonce \in s[a]..(e[a] - 1)
        BY <3>3, <3>4 DEF BodyOrder
    <3>6. s[a] \in Nat /\ e[a] \in Nat /\ tx.nonce = e[a]
        BY <3>3
    <3>7. tx.nonce > t.nonce
        BY <3>5, <3>6
    <3> QED
        BY <1>3, <2>3, <3>1, <3>7
  <2> QED
      BY <2>2, <2>3
<1> QED
    BY <1>2, <1>3, <1>4, <1>5 DEF BodyOrder

LEMMA ApplyOrder ==
    ASSUME NEW s \in TypeOfState, NEW txs \in Seq(SignedTxs), ApplyAll(s, txs).ok
    PROVE  BodyOrder(txs, s.nonce, ApplyAll(s, txs).state.nonce)
PROOF
<1> DEFINE Good == {body \in Seq(SignedTxs) :
                ApplyAll(s, body).ok => BodyOrder(body, s.nonce, ApplyAll(s, body).state.nonce)}
<1>0. s.nonce \in [Addr -> Nat]
    BY DEF TypeOfState
<1>1. << >> \in Good
  <2>1. ToSet(<< >>) = {} /\ DOMAIN << >> = {}
      BY DEF ToSet
  <2>2. ApplyAll(s, << >>).state.nonce = s.nonce
      BY ApplyAllEmpty
  <2>3. \A a \in Addr : s.nonce[a] <= s.nonce[a] /\ {} = s.nonce[a]..(s.nonce[a] - 1)
      BY <1>0
  <2>4. BodyOrder(<< >>, s.nonce, s.nonce)
      BY <2>1, <2>3, NoncesOfUnion DEF BodyOrder
  <2> QED
      BY <2>2, <2>4, EmptySeq
<1>2. ASSUME NEW body \in Seq(SignedTxs), NEW tx \in SignedTxs, body \in Good
      PROVE  Append(body, tx) \in Good
  <2> SUFFICES ASSUME ApplyAll(s, Append(body, tx)).ok
               PROVE  BodyOrder(Append(body, tx), s.nonce,
                                ApplyAll(s, Append(body, tx)).state.nonce)
      BY AppendProperties
  <2>1. PICK acc \in Outcome : acc = ApplyAll(s, body)
      BY ApplyAllType
  <2>2. ApplyAll(s, Append(body, tx)) =
            IF acc.ok /\ CanApply(acc.state, tx)
            THEN [ok |-> TRUE, state |-> Applied(acc.state, tx)]
            ELSE [acc EXCEPT !.ok = FALSE]
      BY <2>1, ApplyAllAppend
  <2>3. acc.ok /\ CanApply(acc.state, tx)
      BY <2>2 DEF Outcome
  <2>4. ApplyAll(s, Append(body, tx)).state = Applied(acc.state, tx)
      BY <2>2, <2>3
  <2>5. PICK e \in [Addr -> Nat] : e = acc.state.nonce
      BY DEF Outcome, TypeOfState
  <2>6. BodyOrder(body, s.nonce, e)
      BY <1>2, <2>1, <2>3, <2>5
  <2>7. PICK f : f = [e EXCEPT ![tx.from] = @ + 1]
      OBVIOUS
  <2>8. f \in [Addr -> Nat] /\ tx.nonce = e[tx.from]
    <3>1. tx.from \in Addr
        BY DEF SignedTxs
    <3>2. f \in [Addr -> Nat]
        BY <2>7, <3>1
    <3>3. tx.nonce = e[tx.from]
        BY <2>3, <2>5 DEF CanApply
    <3> QED
        BY <3>2, <3>3
  <2>9. ApplyAll(s, Append(body, tx)).state.nonce = f
      BY <2>4, <2>5, <2>7 DEF Applied
  <2> QED
      BY <1>0, <2>6, <2>7, <2>8, <2>9, BodyOrderAppend
<1> HIDE DEF Good
<1>3. Seq(SignedTxs) \subseteq Good
    BY <1>1, <1>2, Body!SeqSetInduction
<1> QED
    BY <1>3 DEF Good

(* The same along a chain that starts with no nonce used.                  *)
ChainOrder(c, e) ==
    /\ \A a \in Addr : NoncesOf(TxsOf(c), a) = 0..(e[a] - 1)
    /\ \A i, j \in DOMAIN c : \A p \in DOMAIN c[i].txs, q \in DOMAIN c[j].txs :
          /\ c[i].txs[p].from = c[j].txs[q].from
          /\ i > j \/ (i = j /\ p > q)
          => c[i].txs[p].nonce > c[j].txs[q].nonce

LEMMA ChainOrderAppend ==
    ASSUME NEW c \in Seq(BlockSet), NEW b \in BlockSet,
           NEW s \in [Addr -> Nat], NEW e \in [Addr -> Nat],
           ChainOrder(c, s), BodyOrder(b.txs, s, e)
    PROVE  ChainOrder(Append(c, b), e)
PROOF
<1>1. PICK d : d = Append(c, b)
    OBVIOUS
<1>2. PICK n \in Nat : n = Len(c) + 1
    BY Longer
<1>3. /\ d[n] = b /\ DOMAIN c = 1..(n - 1) /\ DOMAIN d = 1..n
      /\ \A i \in DOMAIN c : d[i] = c[i]
      /\ \A i \in DOMAIN d : i \in DOMAIN c \/ i = n
    BY <1>1, <1>2, Longer
<1>4. ASSUME NEW a \in Addr
      PROVE  NoncesOf(TxsOf(d), a) = 0..(e[a] - 1)
  <2>1. NoncesOf(TxsOf(d), a) = NoncesOf(TxsOf(c), a) \cup NoncesOf(ToSet(b.txs), a)
      BY <1>1, TxsOfAppend, NoncesOfUnion
  <2>2. PICK low \in Nat, high \in Nat : low = s[a] /\ high = e[a]
      OBVIOUS
  <2>3. /\ NoncesOf(TxsOf(c), a) = 0..(low - 1)
        /\ low <= high /\ NoncesOf(ToSet(b.txs), a) = low..(high - 1)
      BY <2>2 DEF ChainOrder, BodyOrder
  <2>4. 0..(high - 1) = (0..(low - 1)) \cup (low..(high - 1))
      BY <2>3
  <2> QED
      BY <2>1, <2>2, <2>3, <2>4
<1>5. \A t \in SignedTxs : t.nonce \in Nat /\ t.from \in Addr
    BY DEF SignedTxs
<1>6. ASSUME NEW i \in DOMAIN d, NEW j \in DOMAIN d,
             NEW p \in DOMAIN d[i].txs, NEW q \in DOMAIN d[j].txs,
             d[i].txs[p].from = d[j].txs[q].from, i > j \/ (i = j /\ p > q)
      PROVE  d[i].txs[p].nonce > d[j].txs[q].nonce
  <2>1. CASE i \in DOMAIN c
    <3>1. j \in DOMAIN c
        BY <1>3, <1>6, <2>1
    <3> QED
        BY <1>3, <1>6, <2>1, <3>1 DEF ChainOrder
  <2>2. CASE i = n /\ j = n
      BY <1>3, <1>6, <2>2 DEF BodyOrder
  <2>3. CASE i = n /\ j \in DOMAIN c
    <3>1. d[j].txs[q] \in TxsOf(c) /\ d[i].txs[p] \in ToSet(b.txs)
        BY <1>3, <2>3 DEF TxsOf, ToSet
    <3>2. PICK t \in SignedTxs, u \in SignedTxs : t = d[i].txs[p] /\ u = d[j].txs[q]
        BY <3>1, TxsOfType, BlockTxs
    <3>3. PICK a \in Addr : a = t.from /\ a = u.from
        BY <1>5, <1>6, <3>2
    <3>4. t.nonce \in NoncesOf(ToSet(b.txs), a) /\ u.nonce \in NoncesOf(TxsOf(c), a)
        BY <3>1, <3>2, <3>3 DEF NoncesOf
    <3>5. t.nonce \in s[a]..(e[a] - 1) /\ u.nonce \in 0..(s[a] - 1)
        BY <3>4 DEF ChainOrder, BodyOrder
    <3>6. s[a] \in Nat /\ e[a] \in Nat
        OBVIOUS
    <3>7. t.nonce > u.nonce
        BY <3>5, <3>6
    <3> QED
        BY <3>2, <3>7
  <2> QED
      BY <1>3, <2>1, <2>2, <2>3
<1> QED
    BY <1>1, <1>4, <1>6 DEF ChainOrder

LEMMA ValidOrder ==
    ASSUME NEW t, NEW c \in ChainSet, validateChain(c, t).ok
    PROVE  ChainOrder(c, After(c, t).nonce)
PROOF
<1> DEFINE Good == {d \in ChainSet : ChainOrder(d, After(d, t).nonce)}
<1>1. <<genesisBlock>> \in Good
  <2>1. DOMAIN <<genesisBlock>> = {1} /\ <<genesisBlock>>[1] = genesisBlock
      OBVIOUS
  <2>2. DOMAIN genesisBlock.txs = {}
      BY DEF genesisBlock
  <2>3. After(<<genesisBlock>>, t).nonce = [a \in Addr |-> 0]
      BY ValidateAlone DEF After, Rooted, genesisState
  <2>4. {} = 0..(0 - 1)
      OBVIOUS
  <2> QED
      BY <2>1, <2>2, <2>3, <2>4, GenesisType, TxsOfAlone, NoncesOfUnion DEF ChainOrder
<1>2. ASSUME NEW d \in ChainSet, NEW b \in BlockSet,
             d \in Good, Append(d, b) \in ChainSet,
             validateChain(d, t).ok, validateChain(Append(d, b), t).ok
      PROVE  Append(d, b) \in Good
  <2>1. PICK s \in TypeOfState : s = After(d, t)
      BY <1>2, ValidType
  <2>2. applyBlock(s, b).ok /\ After(Append(d, b), t) = applyBlock(s, b).state
      BY <1>2, <2>1, ValidAppend DEF FollowsOn, After
  <2>3. PICK a : a = ApplyAll(s, b.txs)
      OBVIOUS
  <2>4. a \in Outcome /\ a.ok /\ After(Append(d, b), t).nonce = a.state.nonce
      BY <2>2, <2>3, ApplyBlockIs, BlockTxs, ApplyAllType
  <2>5. BodyOrder(b.txs, s.nonce, a.state.nonce)
      BY <2>3, <2>4, BlockTxs, ApplyOrder
  <2>6. s.nonce \in [Addr -> Nat] /\ a.state.nonce \in [Addr -> Nat]
      BY <2>4 DEF Outcome, TypeOfState
  <2>7. ChainOrder(d, s.nonce) /\ d \in Seq(BlockSet)
      BY <1>2, <2>1 DEF ChainSet
  <2>8. ChainOrder(Append(d, b), a.state.nonce)
      BY <2>5, <2>6, <2>7, ChainOrderAppend
  <2> QED
      BY <1>2, <2>4, <2>8
<1> HIDE DEF Good
<1>3. \A d \in ChainSet : validateChain(d, t).ok => d \in Good
    BY <1>1, <1>2, ValidInduction
<1> QED
    BY <1>3 DEF Good

-----------------------------------------------------------------------------
(* Pools                                                                   *)

Kept(gone, kept, tx) == IF tx \in gone THEN kept ELSE Append(kept, tx)

Drop == INSTANCE FoldLaws WITH op <- Kept

LEMMA DroppingIsFold == \A txs, gone : Dropping(txs, gone) = Drop!Fold(gone, << >>, txs)
PROOF
BY DEF Dropping, Kept, Drop!Fold, FoldLeft,
       MapThenFoldSet, Drop!MapThenFoldSet, Max, Drop!Greatest

LEMMA InjectiveAppend ==
    ASSUME NEW S, NEW s \in Seq(S), NEW x \in S
    PROVE  IsInjective(Append(s, x)) <=> IsInjective(s) /\ x \notin ToSet(s)
PROOF
<1>1. PICK n \in Nat : n = Len(s) /\ DOMAIN s = 1..n
    BY LenProperties
<1>2. PICK e : e = Append(s, x)
    OBVIOUS
<1>3. DOMAIN e = 1..(n + 1) /\ e[n + 1] = x /\ \A i \in 1..n : e[i] = s[i]
    BY <1>1, <1>2, AppendProperties, LenProperties
<1>4. \A i \in 1..n : i # n + 1 /\ i \in 1..(n + 1)
    OBVIOUS
<1>5. \A i \in 1..(n + 1) : i \in 1..n \/ i = n + 1
    OBVIOUS
<1>6. n + 1 \in 1..(n + 1)
    OBVIOUS
<1>7. ASSUME IsInjective(e)
      PROVE  IsInjective(s) /\ x \notin ToSet(s)
    BY <1>1, <1>3, <1>4, <1>6, <1>7 DEF IsInjective, ToSet
<1>8. ASSUME IsInjective(s), x \notin ToSet(s)
      PROVE  IsInjective(e)
    BY <1>1, <1>3, <1>5, <1>8 DEF IsInjective, ToSet
<1> QED
    BY <1>2, <1>7, <1>8

LEMMA DroppingIs ==
    ASSUME NEW txs \in Seq(SignedTxs), NEW gone
    PROVE  /\ Dropping(txs, gone) \in Seq(SignedTxs)
           /\ Len(Dropping(txs, gone)) <= Len(txs)
           /\ ToSet(Dropping(txs, gone)) = ToSet(txs) \ gone
           /\ IsInjective(txs) => IsInjective(Dropping(txs, gone))
PROOF
<1> DEFINE Good == {s \in Seq(SignedTxs) :
                /\ Dropping(s, gone) \in Seq(SignedTxs)
                /\ Len(Dropping(s, gone)) <= Len(s)
                /\ ToSet(Dropping(s, gone)) = ToSet(s) \ gone
                /\ IsInjective(s) => IsInjective(Dropping(s, gone))}
<1>1. << >> \in Good
  <2>1. Dropping(<< >>, gone) = << >>
      BY DroppingIsFold, Drop!FoldEmpty
  <2>2. << >> \in Seq(SignedTxs) /\ Len(<< >>) = 0 /\ ToSet(<< >>) = {}
      BY DEF ToSet
  <2>3. {} = {} \ gone /\ 0 <= 0
      OBVIOUS
  <2> QED
      BY <2>1, <2>2, <2>3
<1>2. ASSUME NEW s \in Seq(SignedTxs), NEW tx \in SignedTxs, s \in Good
      PROVE  Append(s, tx) \in Good
  <2>1. PICK kept \in Seq(SignedTxs) : kept = Dropping(s, gone)
      BY <1>2
  <2>2. PICK long \in Seq(SignedTxs) : long = Append(s, tx)
      BY AppendProperties
  <2>3. Dropping(long, gone) = IF tx \in gone THEN kept ELSE Append(kept, tx)
      BY <2>1, <2>2, DroppingIsFold, Drop!FoldAppend DEF Kept
  <2>4. /\ Len(long) = Len(s) + 1 /\ ToSet(long) = ToSet(s) \cup {tx}
        /\ IsInjective(long) => IsInjective(s) /\ tx \notin ToSet(s)
      BY <2>2, AppendProperties, ToSetIs, InjectiveAppend
  <2>5. /\ Len(kept) <= Len(s) /\ ToSet(kept) = ToSet(s) \ gone
        /\ IsInjective(s) => IsInjective(kept)
        /\ Len(kept) \in Nat /\ Len(s) \in Nat
      BY <1>2, <2>1, LenProperties
  <2>6. CASE tx \in gone
    <3>1. ToSet(long) \ gone = ToSet(s) \ gone
        BY <2>4, <2>6
    <3>2. Len(kept) <= Len(long)
        BY <2>4, <2>5
    <3> QED
        BY <2>2, <2>3, <2>4, <2>5, <2>6, <3>1, <3>2
  <2>7. CASE tx \notin gone
    <3>1. PICK e \in Seq(SignedTxs) : e = Append(kept, tx)
        BY AppendProperties
    <3>2. /\ Len(e) = Len(kept) + 1 /\ ToSet(e) = ToSet(kept) \cup {tx}
          /\ IsInjective(kept) /\ tx \notin ToSet(kept) => IsInjective(e)
        BY <3>1, AppendProperties, ToSetIs, InjectiveAppend
    <3>3. Len(e) <= Len(long)
        BY <2>4, <2>5, <3>2
    <3>4. ToSet(e) = ToSet(long) \ gone
        BY <2>4, <2>5, <2>7, <3>2
    <3>5. IsInjective(long) => IsInjective(e)
        BY <2>4, <2>5, <3>2
    <3> QED
        BY <2>2, <2>3, <2>7, <3>1, <3>3, <3>4, <3>5
  <2> QED
      BY <2>6, <2>7
<1> HIDE DEF Good
<1>3. Seq(SignedTxs) \subseteq Good
    BY <1>1, <1>2, Drop!SeqSetInduction
<1> QED
    BY <1>3 DEF Good

(* What holds of a pool by itself: its limits, and its strikes are those   *)
(* of pooled transactions.                                                 *)
PoolFit(p) ==
    /\ p = [txs |-> p.txs, strikes |-> p.strikes]
    /\ p.txs \in Seq(SignedTxs)
    /\ IsInjective(p.txs)
    /\ Len(p.txs) <= MAX_MEMPOOL_TXS
    /\ \A a \in Addr : Cardinality(PendingFor(p, a)) <= RUN_AHEAD
    /\ DOMAIN p.strikes \subseteq Pooled(p)
    /\ \A tx \in DOMAIN p.strikes : p.strikes[tx].count \in 1..(MAX_STRIKES - 1)

LEMMA PooledFinite ==
    ASSUME NEW s \in Seq(SignedTxs)
    PROVE  IsFiniteSet(ToSet(s)) /\ Cardinality(ToSet(s)) <= Len(s)
           /\ (IsInjective(s) => Cardinality(ToSet(s)) = Len(s))
PROOF
<1> DEFINE Good == {t \in Seq(SignedTxs) :
                /\ IsFiniteSet(ToSet(t)) /\ Cardinality(ToSet(t)) <= Len(t)
                /\ IsInjective(t) => Cardinality(ToSet(t)) = Len(t)}
<1>1. << >> \in Good
  <2>1. << >> \in Seq(SignedTxs) /\ Len(<< >>) = 0 /\ ToSet(<< >>) = {}
      BY DEF ToSet
  <2>2. IsFiniteSet({}) /\ Cardinality({}) = 0 /\ 0 <= 0
      BY FS_EmptySet
  <2> QED
      BY <2>1, <2>2
<1>2. ASSUME NEW t \in Seq(SignedTxs), NEW tx \in SignedTxs, t \in Good
      PROVE  Append(t, tx) \in Good
  <2>1. PICK e \in Seq(SignedTxs) : e = Append(t, tx)
      BY AppendProperties
  <2>2. /\ Len(e) = Len(t) + 1 /\ ToSet(e) = ToSet(t) \cup {tx} /\ Len(t) \in Nat
        /\ IsInjective(e) => IsInjective(t) /\ tx \notin ToSet(t)
      BY <2>1, AppendProperties, LenProperties, ToSetIs, InjectiveAppend
  <2>3. /\ IsFiniteSet(ToSet(t)) /\ Cardinality(ToSet(t)) <= Len(t)
        /\ IsInjective(t) => Cardinality(ToSet(t)) = Len(t)
      BY <1>2
  <2>4. /\ IsFiniteSet(ToSet(e))
        /\ Cardinality(ToSet(e)) = IF tx \in ToSet(t) THEN Cardinality(ToSet(t))
                                   ELSE Cardinality(ToSet(t)) + 1
      BY <2>2, <2>3, FS_AddElement
  <2>5. Cardinality(ToSet(t)) \in Nat
      BY <2>3, FS_CardinalityType
  <2>6. Cardinality(ToSet(e)) <= Len(e) /\ (IsInjective(e) => Cardinality(ToSet(e)) = Len(e))
      BY <2>2, <2>3, <2>4, <2>5
  <2> QED
      BY <2>1, <2>4, <2>6
<1> HIDE DEF Good
<1>3. Seq(SignedTxs) \subseteq Good
    BY <1>1, <1>2, Drop!SeqSetInduction
<1> QED
    BY <1>3 DEF Good

LEMMA FitEmpty == PoolFit(emptyPool) /\ Pooled(emptyPool) = {}
PROOF
<1>1. PICK p : p = emptyPool
    OBVIOUS
<1>2. p.txs = << >> /\ p.strikes = << >> /\ p = [txs |-> p.txs, strikes |-> p.strikes]
    BY <1>1 DEF emptyPool
<1>3. Pooled(p) = {} /\ DOMAIN p.strikes = {} /\ IsInjective(p.txs)
    BY <1>2 DEF Pooled, ToSet, IsInjective
<1>4. \A a \in Addr : PendingFor(p, a) = {}
    BY <1>3 DEF PendingFor
<1>5. MAX_MEMPOOL_TXS \in Nat /\ RUN_AHEAD \in Nat
    BY MempoolAssumption
<1>6. p.txs \in Seq(SignedTxs) /\ Len(p.txs) <= MAX_MEMPOOL_TXS
    BY <1>2, <1>5, EmptySeq
<1>7. \A a \in Addr : Cardinality(PendingFor(p, a)) <= RUN_AHEAD
    BY <1>4, <1>5, FS_EmptySet
<1> QED
    BY <1>1, <1>2, <1>3, <1>6, <1>7 DEF PoolFit

LEMMA FitRemove ==
    ASSUME NEW p, PoolFit(p), NEW gone
    PROVE  PoolFit(remove(p, gone)) /\ Pooled(remove(p, gone)) = Pooled(p) \ gone
PROOF
<1>1. PICK q : q = remove(p, gone)
    OBVIOUS
<1>2. /\ q.txs = Dropping(p.txs, gone)
      /\ q.strikes = [tx \in DOMAIN p.strikes \ gone |-> p.strikes[tx]]
      /\ q = [txs |-> q.txs, strikes |-> q.strikes]
    BY <1>1 DEF remove, Restrict
<1>3. /\ p.txs \in Seq(SignedTxs) /\ IsInjective(p.txs) /\ Len(p.txs) <= MAX_MEMPOOL_TXS
      /\ Len(p.txs) \in Nat
    BY LenProperties DEF PoolFit
<1>4. /\ q.txs \in Seq(SignedTxs) /\ Len(q.txs) <= Len(p.txs) /\ IsInjective(q.txs)
      /\ Pooled(q) = Pooled(p) \ gone
    BY <1>2, <1>3, DroppingIs DEF Pooled
<1>5. Len(q.txs) <= MAX_MEMPOOL_TXS
  <2>1. Len(q.txs) \in Nat /\ MAX_MEMPOOL_TXS \in Nat
      BY <1>4, LenProperties, MempoolAssumption
  <2> QED
      BY <1>3, <1>4, <2>1
<1>6. ASSUME NEW a \in Addr
      PROVE  Cardinality(PendingFor(q, a)) <= RUN_AHEAD
  <2>1. PendingFor(q, a) \subseteq PendingFor(p, a)
      BY <1>4 DEF PendingFor
  <2>2. IsFiniteSet(PendingFor(p, a))
      BY <1>3, PooledFinite, FS_Subset DEF PendingFor, Pooled
  <2>3. /\ Cardinality(PendingFor(q, a)) <= Cardinality(PendingFor(p, a))
        /\ Cardinality(PendingFor(q, a)) \in Nat /\ Cardinality(PendingFor(p, a)) \in Nat
      BY <2>1, <2>2, FS_Subset, FS_CardinalityType
  <2>4. Cardinality(PendingFor(p, a)) <= RUN_AHEAD /\ RUN_AHEAD \in Nat
      BY MempoolAssumption DEF PoolFit
  <2> QED
      BY <2>3, <2>4
<1>7. DOMAIN q.strikes = DOMAIN p.strikes \ gone
    BY <1>2
<1>8. DOMAIN q.strikes \subseteq Pooled(q)
    BY <1>4, <1>7 DEF PoolFit
<1>9. \A tx \in DOMAIN q.strikes : q.strikes[tx].count \in 1..(MAX_STRIKES - 1)
    BY <1>2, <1>7 DEF PoolFit
<1> QED
    BY <1>1, <1>2, <1>4, <1>5, <1>6, <1>8, <1>9 DEF PoolFit

LEMMA FitAdd ==
    ASSUME NEW p, PoolFit(p), NEW tx \in SignedTxs, NEW s, NEW t
    PROVE  /\ PoolFit(add(p, tx, s, t))
           /\ Acceptable(p, tx, s, t) => Pooled(add(p, tx, s, t)) = Pooled(p) \cup {tx}
           /\ ~ Acceptable(p, tx, s, t) => add(p, tx, s, t) = p
PROOF
<1>1. CASE ~ Acceptable(p, tx, s, t)
    BY <1>1 DEF add
<1>2. CASE Acceptable(p, tx, s, t)
  <2>1. PICK q : q = add(p, tx, s, t)
      OBVIOUS
  <2>2. p = [txs |-> p.txs, strikes |-> p.strikes] /\ p.txs \in Seq(SignedTxs)
      BY DEF PoolFit
  <2>3. q = [txs |-> Append(p.txs, tx), strikes |-> p.strikes]
    <3>1. q = [p EXCEPT !.txs = Append(@, tx)]
        BY <1>2, <2>1 DEF add
    <3> QED
        BY <2>2, <3>1
  <2>4. q.txs = Append(p.txs, tx) /\ q.strikes = p.strikes
      BY <2>3
  <2>5. /\ q.txs \in Seq(SignedTxs) /\ Len(q.txs) = Len(p.txs) + 1
        /\ Pooled(q) = Pooled(p) \cup {tx}
      BY <2>2, <2>4, AppendProperties, ToSetIs DEF Pooled
  <2>6. IsInjective(q.txs)
      BY <1>2, <2>2, <2>4, InjectiveAppend DEF PoolFit, Acceptable, Pooled
  <2>7. Len(q.txs) <= MAX_MEMPOOL_TXS
    <3>1. Len(p.txs) < MAX_MEMPOOL_TXS
        BY <1>2 DEF Acceptable
    <3>2. Len(p.txs) \in Nat /\ MAX_MEMPOOL_TXS \in Nat
        BY <2>2, LenProperties, MempoolAssumption
    <3> QED
        BY <2>5, <3>1, <3>2
  <2>8. ASSUME NEW a \in Addr
        PROVE  Cardinality(PendingFor(q, a)) <= RUN_AHEAD
    <3>1. CASE tx.from = a
      <4>1. PendingFor(q, a) = PendingFor(p, a) \cup {tx}
          BY <2>5, <3>1 DEF PendingFor
      <4>2. IsFiniteSet(PendingFor(p, a))
          BY <2>2, PooledFinite, FS_Subset DEF PendingFor, Pooled
      <4>3. /\ Cardinality(PendingFor(q, a)) = IF tx \in PendingFor(p, a)
                                               THEN Cardinality(PendingFor(p, a))
                                               ELSE Cardinality(PendingFor(p, a)) + 1
            /\ Cardinality(PendingFor(p, a)) \in Nat
          BY <4>1, <4>2, FS_AddElement, FS_CardinalityType
      <4>4. Cardinality(PendingFor(p, a)) < RUN_AHEAD /\ RUN_AHEAD \in Nat
          BY <1>2, <3>1, MempoolAssumption DEF Acceptable
      <4> QED
          BY <4>3, <4>4
    <3>2. CASE tx.from # a
      <4>1. PendingFor(q, a) = PendingFor(p, a)
          BY <2>5, <3>2 DEF PendingFor
      <4> QED
          BY <4>1 DEF PoolFit
    <3> QED
        BY <3>1, <3>2
  <2>9. /\ DOMAIN q.strikes \subseteq Pooled(q)
        /\ \A u \in DOMAIN q.strikes : q.strikes[u].count \in 1..(MAX_STRIKES - 1)
      BY <2>4, <2>5 DEF PoolFit
  <2>10. PoolFit(q)
      BY <2>3, <2>4, <2>5, <2>6, <2>7, <2>8, <2>9 DEF PoolFit
  <2> QED
      BY <1>2, <2>1, <2>5, <2>10
<1> QED
    BY <1>1, <1>2

LEMMA FitPenalize ==
    ASSUME NEW p, PoolFit(p), NEW tx \in Pooled(p), NEW index
    PROVE  /\ PoolFit(penalize(p, tx, index))
           /\ Pooled(penalize(p, tx, index)) \subseteq Pooled(p)
           /\ Pooled(p) \ {tx} \subseteq Pooled(penalize(p, tx, index))
PROOF
<1>1. PICK count : count = IF tx \in DOMAIN p.strikes THEN p.strikes[tx].count + 1 ELSE 1
    OBVIOUS
<1>2. PICK q : q = penalize(p, tx, index)
    OBVIOUS
<1>3. /\ q = p \/ q = remove(p, {tx})
                \/ (/\ ~ (count >= MAX_STRIKES)
                    /\ q = [p EXCEPT !.strikes = Struck(@, tx, [count |-> count, lastHeight |-> index])])
    BY <1>1, <1>2 DEF penalize
<1>4. CASE q = p
    BY <1>2, <1>4
<1>5. CASE q = remove(p, {tx})
    BY <1>2, <1>5, FitRemove
<1>6. CASE /\ ~ (count >= MAX_STRIKES)
           /\ q = [p EXCEPT !.strikes = Struck(@, tx, [count |-> count, lastHeight |-> index])]
  <2>1. PICK strike : strike = [count |-> count, lastHeight |-> index]
      OBVIOUS
  <2>2. p = [txs |-> p.txs, strikes |-> p.strikes]
      BY DEF PoolFit
  <2>3. q = [txs |-> p.txs, strikes |-> Struck(p.strikes, tx, strike)]
      BY <1>6, <2>1, <2>2
  <2>4. /\ q.txs = p.txs
        /\ q.strikes = [t \in DOMAIN p.strikes \cup {tx} |-> IF t = tx THEN strike ELSE p.strikes[t]]
      BY <2>3 DEF Struck
  <2>5. Pooled(q) = Pooled(p) /\ \A a : PendingFor(q, a) = PendingFor(p, a)
      BY <2>4 DEF Pooled, PendingFor
  <2>6. count \in 1..(MAX_STRIKES - 1)
    <3>1. PICK m \in Nat : m = MAX_STRIKES
        BY MempoolAssumption
    <3>2. count \in Int /\ count >= 1
        BY <1>1, <3>1 DEF PoolFit
    <3> QED
        BY <1>6, <3>1, <3>2
  <2>7. DOMAIN q.strikes = DOMAIN p.strikes \cup {tx}
      BY <2>4
  <2>8. \A t \in DOMAIN q.strikes : q.strikes[t].count \in 1..(MAX_STRIKES - 1)
      BY <2>1, <2>4, <2>6, <2>7 DEF PoolFit
  <2>9. DOMAIN q.strikes \subseteq Pooled(q)
      BY <2>5, <2>7 DEF PoolFit
  <2>10. PoolFit(q)
      BY <2>3, <2>4, <2>5, <2>8, <2>9 DEF PoolFit
  <2> QED
      BY <1>2, <2>5, <2>10
<1> QED
    BY <1>3, <1>4, <1>5, <1>6

-----------------------------------------------------------------------------
(* Selecting and trying transactions                                       *)

LEMMA Greatest ==
    ASSUME NEW low \in Nat, NEW high \in Nat, NEW T \in SUBSET (low..high), T # {}
    PROVE  Max(T) \in T /\ \A n \in T : n <= Max(T)
PROOF
<1> DEFINE Gaps == {k \in Nat : high - k \in T}
<1>1. PICK x \in T : TRUE
    OBVIOUS
<1>2. high - x \in Nat /\ high - (high - x) = x
    BY <1>1
<1>3. Gaps \in SUBSET Nat /\ high - x \in Gaps
    BY <1>1, <1>2
<1>4. PICK k \in Gaps : \A j \in Gaps : ~ (j < k)
    BY <1>3, Drop!Least
<1>5. PICK m \in T : m = high - k /\ k \in Nat
    BY <1>4
<1>6. ASSUME NEW n \in T
      PROVE  m >= n
  <2>1. high - n \in Nat /\ high - (high - n) = n
      OBVIOUS
  <2>2. high - n \in Gaps
      BY <2>1
  <2>3. ~ (high - n < k)
      BY <1>4, <2>2
  <2> QED
      BY <1>5, <2>3
<1>7. \E y \in T : \A n \in T : y >= n
    BY <1>6
<1>8. Max(T) \in T /\ \A n \in T : Max(T) >= n
    BY <1>7 DEF Max
<1> QED
    BY <1>8

LEMMA RunOfIs ==
    ASSUME NEW p, PoolFit(p), NEW s \in TypeOfState, NEW a \in Addr
    PROVE  /\ RunOf(p, a, s) \in Seq(DOMAIN p.txs)
           /\ IsInjective(RunOf(p, a, s))
           /\ \A i \in ToSet(RunOf(p, a, s)) : p.txs[i].from = a
PROOF
<1>1. PICK first \in Nat : first = s.nonce[a]
    BY DEF TypeOfState
<1>2. PICK n \in Nat : n = Len(p.txs)
    BY LenProperties DEF PoolFit
<1>3. PICK T : T = {m \in first..(first + n) : \A k \in first..(m - 1) : Best(p, a, k) # {}}
    OBVIOUS
<1>4. first \in T
    BY <1>3
<1>5. PICK reach \in first..(first + n) : reach = Max(T) /\ reach \in T
  <2>1. T \in SUBSET (first..(first + n)) /\ T # {} /\ first + n \in Nat
      BY <1>3, <1>4
  <2>2. Max(T) \in T
      BY <2>1, Greatest
  <2> QED
      BY <2>1, <2>2
<1>6. PICK m \in Nat : m = reach - first
    OBVIOUS
<1>7. PICK run : run = RunOf(p, a, s)
    OBVIOUS
<1>8. run = [k \in 1..m |-> CHOOSE i \in Best(p, a, first + k - 1) : TRUE]
    BY <1>1, <1>2, <1>3, <1>5, <1>6, <1>7 DEF RunOf
<1>9. ASSUME NEW k \in 1..m
      PROVE  /\ run[k] \in DOMAIN p.txs
             /\ p.txs[run[k]].from = a /\ p.txs[run[k]].nonce = first + k - 1
  <2>1. first + k - 1 \in first..(reach - 1)
      BY <1>6
  <2>2. Best(p, a, first + k - 1) # {}
      BY <1>3, <1>5, <2>1
  <2>3. run[k] \in Best(p, a, first + k - 1)
      BY <1>8, <2>2
  <2> QED
      BY <2>3 DEF Best
<1>10. DOMAIN run = 1..m
    BY <1>8
<1>11. run \in Seq(DOMAIN p.txs)
  <2>1. PICK D : D = DOMAIN p.txs
      OBVIOUS
  <2>2. run \in [1..m -> D]
      BY <1>8, <1>9, <2>1
  <2> QED
      BY <2>1, <2>2
<1>12. IsInjective(run)
  <2> SUFFICES ASSUME NEW j \in 1..m, NEW k \in 1..m, run[j] = run[k]
               PROVE  j = k
      BY <1>10 DEF IsInjective
  <2>1. first + j - 1 = first + k - 1
      BY <1>9
  <2> QED
      BY <2>1
<1>13. \A i \in ToSet(run) : p.txs[i].from = a
    BY <1>9, <1>10 DEF ToSet
<1> QED
    BY <1>7, <1>11, <1>12, <1>13

-----------------------------------------------------------------------------
(* Flattening                                                              *)

LEMMA ConcatIs ==
    ASSUME NEW S, NEW s \in Seq(S), NEW t \in Seq(S)
    PROVE  /\ s \o t \in Seq(S) /\ ToSet(s \o t) = ToSet(s) \cup ToSet(t)
           /\ IsInjective(s) /\ IsInjective(t) /\ ToSet(s) \cap ToSet(t) = {}
                  => IsInjective(s \o t)
PROOF
<1>1. PICK m \in Nat, n \in Nat : m = Len(s) /\ n = Len(t)
    BY LenProperties
<1>2. PICK e : e = s \o t
    OBVIOUS
<1>3. /\ e \in Seq(S) /\ DOMAIN e = 1..(m + n) /\ DOMAIN s = 1..m /\ DOMAIN t = 1..n
      /\ \A i \in 1..(m + n) : e[i] = IF i <= m THEN s[i] ELSE t[i - m]
    BY <1>1, <1>2, ConcatProperties, LenProperties
<1>4. \A i \in 1..m : i \in 1..(m + n) /\ e[i] = s[i]
    BY <1>3
<1>5. \A i \in 1..n : i + m \in 1..(m + n) /\ e[i + m] = t[i]
  <2> SUFFICES ASSUME NEW i \in 1..n
               PROVE  i + m \in 1..(m + n) /\ e[i + m] = t[i]
      OBVIOUS
  <2>1. i + m \in 1..(m + n) /\ ~ (i + m <= m) /\ (i + m) - m = i
      OBVIOUS
  <2> QED
      BY <1>3, <2>1
<1>6. \A i \in 1..(m + n) : i \in 1..m \/ (i - m \in 1..n /\ (i - m) + m = i)
    OBVIOUS
<1>7. ToSet(e) = ToSet(s) \cup ToSet(t)
  <2>1. ASSUME NEW i \in 1..(m + n)
        PROVE  e[i] \in ToSet(s) \cup ToSet(t)
    <3>1. CASE i \in 1..m
        BY <1>3, <1>4, <3>1 DEF ToSet
    <3>2. CASE i - m \in 1..n /\ (i - m) + m = i
      <4>1. PICK k \in 1..n : k = i - m /\ k + m = i
          BY <3>2
      <4>2. e[i] = t[k]
          BY <1>5, <4>1
      <4> QED
          BY <1>3, <4>2 DEF ToSet
    <3> QED
        BY <1>6, <3>1, <3>2
  <2>2. \A i \in 1..m : s[i] \in ToSet(e)
      BY <1>3, <1>4 DEF ToSet
  <2>3. ASSUME NEW i \in 1..n
        PROVE  t[i] \in ToSet(e)
    <3>1. PICK k \in 1..(m + n) : k = i + m /\ e[k] = t[i]
        BY <1>5
    <3> QED
        BY <1>3, <3>1 DEF ToSet
  <2>4. /\ ToSet(e) = {e[i] : i \in 1..(m + n)}
        /\ ToSet(s) = {s[i] : i \in 1..m} /\ ToSet(t) = {t[i] : i \in 1..n}
      BY <1>3 DEF ToSet
  <2> QED
      BY <2>1, <2>2, <2>3, <2>4
<1>8. ASSUME IsInjective(s), IsInjective(t), ToSet(s) \cap ToSet(t) = {},
             NEW i \in 1..(m + n), NEW j \in 1..(m + n), e[i] = e[j]
      PROVE  i = j
  <2>1. \A k \in 1..m, l \in 1..n : s[k] # t[l]
      BY <1>3, <1>8 DEF ToSet
  <2>2. CASE i \in 1..m /\ j \in 1..m
      BY <1>3, <1>4, <1>8, <2>2 DEF IsInjective
  <2>3. CASE i - m \in 1..n /\ j - m \in 1..n
    <3>1. PICK k \in 1..n, l \in 1..n : k = i - m /\ l = j - m
        BY <2>3
    <3>2. k + m = i /\ l + m = j
        BY <3>1
    <3>3. t[k] = t[l]
        BY <1>5, <1>8, <3>2
    <3>4. k = l
        BY <1>3, <1>8, <3>3 DEF IsInjective
    <3> QED
        BY <3>2, <3>4
  <2>4. CASE i \in 1..m /\ j - m \in 1..n
    <3>1. PICK l \in 1..n : l = j - m
        BY <2>4
    <3>2. l + m = j
        BY <3>1
    <3>3. e[i] = s[i] /\ e[j] = t[l]
        BY <1>4, <1>5, <2>4, <3>2
    <3> QED
        BY <1>8, <2>1, <2>4, <3>3
  <2>5. CASE i - m \in 1..n /\ j \in 1..m
    <3>1. PICK l \in 1..n : l = i - m
        BY <2>5
    <3>2. l + m = i
        BY <3>1
    <3>3. e[j] = s[j] /\ e[i] = t[l]
        BY <1>4, <1>5, <2>5, <3>2
    <3> QED
        BY <1>8, <2>1, <2>5, <3>3
  <2> QED
      BY <1>6, <2>2, <2>3, <2>4, <2>5
<1> QED
    BY <1>2, <1>3, <1>7, <1>8 DEF IsInjective

(* A table of the first n prefixes of the concatenation of runs.           *)
Joins(runs, n, g) == g = [i \in 1..n |-> IF i = 1 THEN runs[i] ELSE g[i - 1] \o runs[i]]

LEMMA JoinsExist == \A runs : \A n \in Nat : \E g : Joins(runs, n, g)
PROOF
<1> SUFFICES ASSUME NEW runs
             PROVE  \A n \in Nat : \E g : Joins(runs, n, g)
    OBVIOUS
<1> DEFINE Good == {n \in Nat : \E g : Joins(runs, n, g)}
<1>1. 0 \in Good
  <2>1. PICK g : g = [i \in 1..0 |-> 0]
      OBVIOUS
  <2>2. g = [i \in 1..0 |-> IF i = 1 THEN runs[i] ELSE g[i - 1] \o runs[i]]
      BY <2>1
  <2> QED
      BY <2>2 DEF Joins
<1>2. ASSUME NEW n \in Nat, n \in Good
      PROVE  n + 1 \in Good
  <2>1. PICK g : Joins(runs, n, g)
      BY <1>2
  <2>7. PICK h : h = [i \in 1..(n + 1) |-> IF i = 1 THEN runs[i] ELSE g[i - 1] \o runs[i]]
      OBVIOUS
  <2>2. \A i \in 1..(n + 1) : h[i] = IF i = 1 THEN runs[i] ELSE g[i - 1] \o runs[i]
      BY <2>7
  <2>8. \A i \in 1..n : g[i] = IF i = 1 THEN runs[i] ELSE g[i - 1] \o runs[i]
      BY <2>1 DEF Joins
  <2>3. \A i \in 1..n : i \in 1..(n + 1) /\ h[i] = g[i]
      BY <2>2, <2>8
  <2>4. \A i \in 1..(n + 1) : i # 1 => i - 1 \in 1..n
      OBVIOUS
  <2>5. \A i \in 1..(n + 1) : h[i] = IF i = 1 THEN runs[i] ELSE h[i - 1] \o runs[i]
      BY <2>2, <2>3, <2>4
  <2>6. h = [i \in 1..(n + 1) |-> IF i = 1 THEN runs[i] ELSE h[i - 1] \o runs[i]]
      BY <2>5, <2>7
  <2>9. Joins(runs, n + 1, h)
      BY ONLY <2>6 DEF Joins
  <2> QED
      BY <2>9
<1> HIDE DEF Good
<1>3. Nat \subseteq Good
    BY <1>1, <1>2, Drop!NatSetInduction
<1> QED
    BY <1>3 DEF Good

LEMMA FlattenIs ==
    ASSUME NEW S, NEW runs \in Seq(Seq(S))
    PROVE  /\ FlattenSeq(runs) \in Seq(S)
           /\ ToSet(FlattenSeq(runs)) = UNION {ToSet(runs[i]) : i \in DOMAIN runs}
           /\ /\ \A i \in DOMAIN runs : IsInjective(runs[i])
              /\ \A i, j \in DOMAIN runs : i # j => ToSet(runs[i]) \cap ToSet(runs[j]) = {}
              => IsInjective(FlattenSeq(runs))
PROOF
<1>1. PICK n \in Nat : n = Len(runs) /\ DOMAIN runs = 1..n /\ \A i \in 1..n : runs[i] \in Seq(S)
    BY LenProperties, ElementOfSeq
<1>2. CASE n = 0
  <2>1. runs = << >> /\ FlattenSeq(runs) = runs
      BY <1>1, <1>2, EmptySeq DEF FlattenSeq
  <2>2. << >> \in Seq(S) /\ DOMAIN << >> = {}
      OBVIOUS
  <2>3. ToSet(<< >>) = {} /\ IsInjective(<< >>)
      BY <2>2 DEF ToSet, IsInjective
  <2>4. UNION {ToSet(runs[i]) : i \in {}} = {}
      OBVIOUS
  <2> QED
      BY <2>1, <2>2, <2>3, <2>4
<1>3. CASE n # 0
  <2>1. PICK g : g = CHOOSE f : Joins(runs, n, f)
      OBVIOUS
  <2>2. Joins(runs, n, g)
      BY <2>1, JoinsExist
  <2>3. FlattenSeq(runs) = g[n]
      BY <1>1, <1>3, <2>1 DEF FlattenSeq, Joins
  <2>4. PICK apart : apart = (/\ \A i \in DOMAIN runs : IsInjective(runs[i])
                              /\ \A i, j \in DOMAIN runs :
                                     i # j => ToSet(runs[i]) \cap ToSet(runs[j]) = {})
      OBVIOUS
  <2> DEFINE Good == {k \in Nat : k + 1 \in 1..n =>
                  /\ g[k + 1] \in Seq(S)
                  /\ ToSet(g[k + 1]) = UNION {ToSet(runs[i]) : i \in 1..(k + 1)}
                  /\ apart => IsInjective(g[k + 1])}
  <2>5. 0 \in Good
    <3>1. 0 + 1 = 1 /\ 1 \in 1..n /\ 1..1 = {1}
        BY <1>3
    <3>2. g[1] = runs[1] /\ runs[1] \in Seq(S)
        BY <1>1, <2>2, <3>1 DEF Joins
    <3>3. UNION {ToSet(runs[i]) : i \in {1}} = ToSet(runs[1])
        OBVIOUS
    <3> QED
        BY <1>1, <2>4, <3>1, <3>2, <3>3
  <2>6. ASSUME NEW k \in Nat, k \in Good
        PROVE  k + 1 \in Good
    <3> SUFFICES ASSUME (k + 1) + 1 \in 1..n
                 PROVE  /\ g[(k + 1) + 1] \in Seq(S)
                        /\ ToSet(g[(k + 1) + 1]) = UNION {ToSet(runs[i]) : i \in 1..((k + 1) + 1)}
                        /\ apart => IsInjective(g[(k + 1) + 1])
        OBVIOUS
    <3>1. PICK m \in 1..n : m = k + 1
        OBVIOUS
    <3>2. PICK l \in 1..n : l = m + 1 /\ l # 1 /\ l - 1 = m
        BY <3>1
    <3>3. g[l] = g[m] \o runs[l]
        BY <2>2, <3>2 DEF Joins
    <3>4. /\ g[m] \in Seq(S) /\ ToSet(g[m]) = UNION {ToSet(runs[i]) : i \in 1..m}
          /\ apart => IsInjective(g[m])
        BY <2>6, <3>1
    <3>5. /\ g[l] \in Seq(S) /\ ToSet(g[l]) = ToSet(g[m]) \cup ToSet(runs[l])
          /\ IsInjective(g[m]) /\ IsInjective(runs[l]) /\ ToSet(g[m]) \cap ToSet(runs[l]) = {}
                 => IsInjective(g[l])
        BY <1>1, <3>3, <3>4, ConcatIs
    <3>6. 1..l = (1..m) \cup {l} /\ l \notin 1..m /\ \A i \in 1..m : i \in 1..n
        BY <3>2
    <3>7. ToSet(g[l]) = UNION {ToSet(runs[i]) : i \in 1..l}
        BY <3>4, <3>5, <3>6
    <3>8. apart => IsInjective(g[l])
      <4> SUFFICES ASSUME apart
                   PROVE  ToSet(g[m]) \cap ToSet(runs[l]) = {} /\ IsInjective(runs[l])
          BY <3>4, <3>5
      <4>1. \A i \in 1..m : ToSet(runs[i]) \cap ToSet(runs[l]) = {}
          BY <1>1, <2>4, <3>6
      <4>2. IsInjective(runs[l])
          BY <1>1, <2>4
      <4> QED
          BY <3>4, <4>1, <4>2
    <3> QED
        BY <3>1, <3>2, <3>5, <3>7, <3>8
  <2> HIDE DEF Good
  <2>7. Nat \subseteq Good
      BY <2>5, <2>6, Drop!NatSetInduction
  <2>8. n - 1 \in Good /\ (n - 1) + 1 = n /\ n \in 1..n
      BY <1>3, <2>7
  <2>9. /\ g[n] \in Seq(S) /\ ToSet(g[n]) = UNION {ToSet(runs[i]) : i \in 1..n}
        /\ apart => IsInjective(g[n])
      BY <2>8 DEF Good
  <2> QED
      BY <1>1, <2>3, <2>4, <2>9
<1> QED
    BY <1>2, <1>3

-----------------------------------------------------------------------------
(* Ordering the senders                                                    *)

(* A finite set in which R, given as the set below(x) of what comes before *)
(* x, is total can be listed in that order.                                *)
LEMMA Listing ==
    ASSUME NEW T, IsFiniteSet(T), NEW below \in [T -> SUBSET T],
           \A x \in T : x \notin below[x],
           \A x, y \in T : x # y => x \in below[y] \/ y \in below[x],
           \A x, y, z \in T : x \in below[y] /\ y \in below[z] => x \in below[z]
    PROVE  \E s \in [1..Cardinality(T) -> T] :
               \A i, j \in 1..Cardinality(T) : i < j => s[i] \in below[s[j]]
PROOF
<1>1. PICK n \in Nat : n = Cardinality(T)
    BY FS_CardinalityType
<1>2. PICK rank : rank = [x \in T |-> Cardinality(below[x]) + 1]
    OBVIOUS
<1>3. ASSUME NEW x \in T
      PROVE  /\ IsFiniteSet(below[x]) /\ Cardinality(below[x]) \in Nat
             /\ Cardinality(below[x]) < n
  <2>1. IsFiniteSet(below[x]) /\ below[x] \subseteq T /\ below[x] # T
      BY FS_Subset
  <2>2. Cardinality(below[x]) <= n /\ (Cardinality(below[x]) = n => below[x] = T)
      BY <1>1, <2>1, FS_Subset
  <2>3. Cardinality(below[x]) \in Nat
      BY <2>1, FS_CardinalityType
  <2> QED
      BY <1>1, <2>1, <2>2, <2>3
<1>4. rank \in [T -> 1..n]
  <2>1. \A x \in T : rank[x] \in 1..n
    <3> SUFFICES ASSUME NEW x \in T
                 PROVE  rank[x] \in 1..n
        OBVIOUS
    <3>1. PICK k \in Nat : k = Cardinality(below[x]) /\ k < n
        BY <1>3
    <3>2. rank[x] = k + 1
        BY <1>2, <3>1
    <3> QED
        BY <1>1, <3>1, <3>2
  <2> QED
      BY <1>2, <2>1
<1>5. ASSUME NEW x \in T, NEW y \in T, x \in below[y]
      PROVE  rank[x] < rank[y]
  <2>1. below[x] \subseteq below[y] /\ below[x] # below[y]
    <3>1. \A z \in below[x] : z \in T /\ z \in below[y]
        BY <1>5
    <3> QED
        BY <1>5, <3>1
  <2>2. PICK k \in Nat, l \in Nat : k = Cardinality(below[x]) /\ l = Cardinality(below[y])
      BY <1>3
  <2>3. k <= l /\ (k = l => below[x] = below[y])
      BY <1>3, <2>1, <2>2, FS_Subset
  <2>4. rank[x] = k + 1 /\ rank[y] = l + 1
      BY <1>2, <2>2
  <2> QED
      BY <2>1, <2>3, <2>4
<1>6. \A x \in T : rank[x] \in Nat
    BY <1>4
<1>7. \A x, y \in T : x # y => rank[x] # rank[y]
  <2> SUFFICES ASSUME NEW x \in T, NEW y \in T, x # y
               PROVE  rank[x] # rank[y]
      OBVIOUS
  <2>1. rank[x] < rank[y] \/ rank[y] < rank[x]
      BY <1>5
  <2> QED
      BY <1>6, <2>1
<1>8. \A i \in 1..n : \E x \in T : rank[x] = i
  <2>1. PICK U : U = {rank[x] : x \in T}
      OBVIOUS
  <2>2. IsFiniteSet(U) /\ Cardinality(U) = n
    <3>1. rank \in [T -> U]
        BY <1>4, <2>1
    <3>2. \A x, y \in T : rank[x] = rank[y] => x = y
        BY <1>7
    <3>3. \A u \in U : \E x \in T : rank[x] = u
        BY <2>1
    <3>4. rank \in Bijection(T, U)
        BY <3>1, <3>2, <3>3, Fun_IsBij
    <3>5. ExistsBijection(T, U)
        BY <3>4 DEF ExistsBijection
    <3> QED
        BY <1>1, <3>5, FS_Bijection
  <2>3. U \subseteq 1..n
      BY <1>4, <2>1
  <2>4. IsFiniteSet(1..n) /\ Cardinality(1..n) = n
      BY FS_Interval
  <2>5. U = 1..n
      BY <2>2, <2>3, <2>4, FS_Subset
  <2>6. \A u \in U : \E x \in T : rank[x] = u
      BY <2>1
  <2> QED
      BY <2>5, <2>6
<1>9. PICK s : s = [i \in 1..n |-> CHOOSE x \in T : rank[x] = i]
    OBVIOUS
<1>10. \A i \in 1..n : s[i] \in T /\ rank[s[i]] = i
    BY <1>8, <1>9
<1>11. ASSUME NEW i \in 1..n, NEW j \in 1..n, i < j
       PROVE  s[i] \in below[s[j]]
  <2>1. s[i] \in T /\ s[j] \in T /\ rank[s[i]] = i /\ rank[s[j]] = j
      BY <1>10
  <2>2. s[i] # s[j]
      BY <1>11, <2>1
  <2>3. CASE s[j] \in below[s[i]]
    <3>1. j < i
        BY <1>5, <2>1, <2>3
    <3> QED
        BY <1>11, <3>1
  <2> QED
      BY <2>1, <2>2, <2>3
<1>12. s \in [1..n -> T]
    BY <1>9, <1>10
<1> QED
    BY <1>1, <1>11, <1>12

LEMMA Smallest ==
    ASSUME NEW T \in SUBSET Nat, T # {}
    PROVE  Min(T) \in T
PROOF
<1>1. PICK m \in T : TRUE
    OBVIOUS
<1>2. PICK n \in T : \A k \in T : ~ (k < n)
    BY <1>1, Drop!Least
<1>3. \A k \in T : n <= k
    BY <1>2
<1>4. \E x \in T : \A y \in T : x <= y
    BY <1>3
<1> QED
    BY <1>4 DEF Min

(* A higher fee first, and of equal fees the smaller place: such an order  *)
(* can always be listed.                                                   *)
LEMMA FeeOrder ==
    ASSUME NEW T, IsFiniteSet(T), NEW fee \in [T -> Nat], NEW place \in [T -> Nat],
           \A x, y \in T : place[x] = place[y] => x = y
    PROVE  \E s \in [1..Cardinality(T) -> T] : \A i, j \in 1..Cardinality(T) :
               i < j => \/ fee[s[i]] > fee[s[j]]
                        \/ fee[s[i]] = fee[s[j]] /\ place[s[i]] < place[s[j]]
PROOF
<1>1. PICK below : below = [y \in T |-> {x \in T :
                               fee[x] > fee[y] \/ (fee[x] = fee[y] /\ place[x] < place[y])}]
    OBVIOUS
<1>2. /\ below \in [T -> SUBSET T]
      /\ \A x, y \in T : x \in below[y] <=>
             fee[x] > fee[y] \/ (fee[x] = fee[y] /\ place[x] < place[y])
    BY <1>1
<1>3. \A x \in T : fee[x] \in Nat /\ place[x] \in Nat
    OBVIOUS
<1>4. \A x \in T : x \notin below[x]
    BY <1>2, <1>3
<1>5. ASSUME NEW x \in T, NEW y \in T, x # y
      PROVE  x \in below[y] \/ y \in below[x]
  <2>1. place[x] # place[y]
      BY <1>5
  <2> QED
      BY <1>2, <1>3, <2>1
<1>6. \A x, y, z \in T : x \in below[y] /\ y \in below[z] => x \in below[z]
    BY <1>2, <1>3
<1>9. below \in [T -> SUBSET T]
    BY <1>2
<1>10. \E s \in [1..Cardinality(T) -> T] :
           \A i, j \in 1..Cardinality(T) : i < j => s[i] \in below[s[j]]
    BY <1>4, <1>5, <1>6, <1>9, Listing
<1>7. PICK s \in [1..Cardinality(T) -> T] :
          \A i, j \in 1..Cardinality(T) : i < j => s[i] \in below[s[j]]
    BY <1>10
<1>8. \A i \in 1..Cardinality(T) : s[i] \in T
    OBVIOUS
<1> QED
    BY <1>2, <1>7, <1>8

(* The parts of selectForBlock.                                            *)
SendersOf(p, s) == {f \in {tx.from : tx \in Pooled(p)} : RunOf(p, f, s) # << >>}

EnteredAt(p, f) == Min({i \in DOMAIN p.txs : p.txs[i].from = f})

FirstFee(p, s, f) == p.txs[RunOf(p, f, s)[1]].fee

Before(p, s, f, g) ==
    \/ FirstFee(p, s, f) > FirstFee(p, s, g)
    \/ FirstFee(p, s, f) = FirstFee(p, s, g) /\ EnteredAt(p, f) < EnteredAt(p, g)

Ranking(p, s) ==
    CHOOSE o \in [1..Cardinality(SendersOf(p, s)) -> SendersOf(p, s)] :
        \A i, j \in DOMAIN o : i < j => Before(p, s, o[i], o[j])

RunsOf(p, s) == [k \in DOMAIN Ranking(p, s) |-> RunOf(p, Ranking(p, s)[k], s)]

LEMMA SelectionIs ==
    \A p, s, limit : selectForBlock(p, s, limit) =
        [k \in 1..Min({limit, Len(FlattenSeq(RunsOf(p, s)))}) |->
            p.txs[FlattenSeq(RunsOf(p, s))[k]]]
PROOF
BY DEF selectForBlock, RunsOf, Ranking, Before, FirstFee, EnteredAt, SendersOf

LEMMA SenderIs ==
    ASSUME NEW p, PoolFit(p), NEW s \in TypeOfState, NEW f \in SendersOf(p, s)
    PROVE  /\ f \in Addr /\ RunOf(p, f, s) # << >>
           /\ FirstFee(p, s, f) \in Nat
           /\ EnteredAt(p, f) \in Nat /\ p.txs[EnteredAt(p, f)].from = f
PROOF
<1>1. PICK txs \in Seq(SignedTxs) : txs = p.txs
    BY DEF PoolFit
<1>2. PICK D : D = DOMAIN txs
    OBVIOUS
<1>3. D \subseteq Nat /\ \A i \in D : txs[i] \in SignedTxs
    BY <1>2, LenProperties, ElementOfSeq
<1>4. \A tx \in SignedTxs : tx.from \in Addr /\ tx.fee \in Nat
    BY DEF SignedTxs
<1>5. PICK tx \in Pooled(p) : tx.from = f
    BY DEF SendersOf
<1>6. tx \in SignedTxs
    BY <1>1, <1>2, <1>3 DEF Pooled, ToSet
<1>7. f \in Addr
    BY <1>4, <1>5, <1>6
<1>8. PICK r \in Seq(D) : r = RunOf(p, f, s) /\ r # << >>
    BY <1>1, <1>2, <1>7, RunOfIs DEF SendersOf
<1>9. 1 \in 1..Len(r) /\ DOMAIN r = 1..Len(r)
    BY <1>8, EmptySeq, LenProperties
<1>10. r[1] \in D /\ r[1] \in ToSet(r)
    BY <1>9, ElementOfSeq DEF ToSet
<1>11. txs[r[1]].from = f
    BY <1>1, <1>7, <1>8, <1>10, RunOfIs
<1>12. PICK T : T = {i \in D : txs[i].from = f}
    OBVIOUS
<1>13. T \in SUBSET Nat /\ T # {}
    BY <1>3, <1>10, <1>11, <1>12
<1>14. Min(T) \in T
    BY <1>13, Smallest
<1>15. EnteredAt(p, f) \in T
    BY <1>1, <1>2, <1>12, <1>14 DEF EnteredAt
<1>16. FirstFee(p, s, f) = txs[r[1]].fee
    BY <1>1, <1>8 DEF FirstFee
<1>17. FirstFee(p, s, f) \in Nat
    BY <1>3, <1>4, <1>10, <1>16
<1>18. EnteredAt(p, f) \in Nat /\ p.txs[EnteredAt(p, f)].from = f
    BY <1>1, <1>3, <1>12, <1>15
<1> QED
    BY <1>7, <1>8, <1>17, <1>18

LEMMA RankingIs ==
    ASSUME NEW p, PoolFit(p), NEW s \in TypeOfState
    PROVE  \E n \in Nat :
               /\ Ranking(p, s) \in [1..n -> SendersOf(p, s)]
               /\ \A i, j \in 1..n : Ranking(p, s)[i] = Ranking(p, s)[j] => i = j
PROOF
<1>1. PICK T : T = SendersOf(p, s)
    OBVIOUS
<1>2. T \subseteq Addr /\ IsFiniteSet(T)
    BY <1>1, SenderIs, ChainAssumption, FS_Subset
<1>3. PICK fee : fee = [f \in T |-> FirstFee(p, s, f)]
    OBVIOUS
<1>4. PICK place : place = [f \in T |-> EnteredAt(p, f)]
    OBVIOUS
<1>5. \A f \in T : fee[f] \in Nat /\ place[f] \in Nat /\ p.txs[place[f]].from = f
    BY <1>1, <1>3, <1>4, SenderIs
<1>6. fee \in [T -> Nat] /\ place \in [T -> Nat]
    BY <1>3, <1>4, <1>5
<1>7. \A x, y \in T : place[x] = place[y] => x = y
    BY <1>5
<1>8. PICK n \in Nat : n = Cardinality(T)
    BY <1>2, FS_CardinalityType
<1>9. \E o \in [1..Cardinality(T) -> T] : \A i, j \in 1..Cardinality(T) :
          i < j => \/ fee[o[i]] > fee[o[j]]
                   \/ fee[o[i]] = fee[o[j]] /\ place[o[i]] < place[o[j]]
    BY <1>2, <1>6, <1>7, FeeOrder
<1>10. PICK o \in [1..n -> T] : \A i, j \in 1..n :
           i < j => \/ fee[o[i]] > fee[o[j]]
                    \/ fee[o[i]] = fee[o[j]] /\ place[o[i]] < place[o[j]]
    BY <1>8, <1>9
<1>11. \A f, g \in T : Before(p, s, f, g) <=>
           fee[f] > fee[g] \/ (fee[f] = fee[g] /\ place[f] < place[g])
    BY <1>3, <1>4 DEF Before
<1>12. \A i, j \in 1..n : i < j => Before(p, s, o[i], o[j])
  <2>1. \A i \in 1..n : o[i] \in T
      OBVIOUS
  <2> QED
      BY <1>10, <1>11, <2>1
<1>13. DOMAIN o = 1..n
    OBVIOUS
<1>14. PICK r : r = Ranking(p, s)
    OBVIOUS
<1>15. r \in [1..n -> T] /\ \A i, j \in DOMAIN r : i < j => Before(p, s, r[i], r[j])
    BY <1>1, <1>8, <1>12, <1>13, <1>14 DEF Ranking
<1>16. ASSUME NEW i \in 1..n, NEW j \in 1..n, r[i] = r[j]
       PROVE  i = j
  <2>1. r[i] \in T /\ r[j] \in T
      BY <1>15
  <2>2. ~ Before(p, s, r[i], r[j]) /\ ~ Before(p, s, r[j], r[i])
      BY <1>5, <1>11, <1>16, <2>1
  <2>3. DOMAIN r = 1..n
      BY <1>15
  <2>4. ~ (i < j) /\ ~ (j < i)
      BY <1>15, <2>2, <2>3
  <2> QED
      BY <2>4
<1> QED
    BY <1>1, <1>14, <1>15, <1>16

(* What is selected: pooled transactions, each once, below the limit.      *)
LEMMA SelectedIs ==
    ASSUME NEW p, PoolFit(p), NEW s \in TypeOfState
    PROVE  /\ Selected(s, p) \in Seq(SignedTxs)
           /\ Len(Selected(s, p)) <= MAX_TXS_PER_BLOCK - 1
           /\ IsInjective(Selected(s, p))
           /\ ToSet(Selected(s, p)) \subseteq Pooled(p)
PROOF
<1>1. PICK limit \in Nat : limit = MAX_TXS_PER_BLOCK - 1
    BY ChainAssumption
<1>2. PICK txs \in Seq(SignedTxs) : txs = p.txs /\ IsInjective(txs)
    BY DEF PoolFit
<1>3. PICK D : D = DOMAIN txs
    OBVIOUS
<1>4. /\ \A i \in D : txs[i] \in SignedTxs /\ txs[i] \in Pooled(p)
      /\ \A i, j \in D : txs[i] = txs[j] => i = j
    BY <1>2, <1>3, LenProperties, ElementOfSeq DEF Pooled, ToSet, IsInjective
<1>5. PICK r : r = Ranking(p, s)
    OBVIOUS
<1>6. PICK n \in Nat : /\ r \in [1..n -> SendersOf(p, s)]
                       /\ \A i, j \in 1..n : r[i] = r[j] => i = j
    BY <1>5, RankingIs
<1>7. PICK runs : runs = RunsOf(p, s)
    OBVIOUS
<1>8. runs = [k \in 1..n |-> RunOf(p, r[k], s)]
  <2>1. DOMAIN r = 1..n
      BY <1>6
  <2> QED
      BY <1>5, <1>7, <2>1 DEF RunsOf
<1>9. ASSUME NEW k \in 1..n
      PROVE  /\ runs[k] \in Seq(D) /\ IsInjective(runs[k])
             /\ \A i \in ToSet(runs[k]) : txs[i].from = r[k]
  <2>1. r[k] \in SendersOf(p, s)
      BY <1>6
  <2>2. r[k] \in Addr
      BY <2>1, SenderIs
  <2>3. runs[k] = RunOf(p, r[k], s)
      BY <1>8
  <2> QED
      BY <1>2, <1>3, <2>2, <2>3, RunOfIs
<1>10. DOMAIN runs = 1..n /\ runs \in Seq(Seq(D))
    BY <1>8, <1>9
<1>11. ASSUME NEW i \in 1..n, NEW j \in 1..n, i # j
       PROVE  ToSet(runs[i]) \cap ToSet(runs[j]) = {}
  <2>1. r[i] # r[j]
      BY <1>6, <1>11
  <2> QED
      BY <1>9, <2>1
<1>12. PICK all : all = FlattenSeq(runs)
    OBVIOUS
<1>13. all \in Seq(D) /\ IsInjective(all)
    BY <1>9, <1>10, <1>11, <1>12, FlattenIs
<1>14. PICK m \in Nat : m = Min({limit, Len(all)}) /\ m <= limit /\ m <= Len(all)
  <2>1. PICK l \in Nat : l = Len(all)
      BY <1>13, LenProperties
  <2>2. limit <= l \/ l <= limit
      OBVIOUS
  <2>3. \E x \in {limit, l} : \A y \in {limit, l} : x <= y
      BY <2>2
  <2>4. Min({limit, l}) \in {limit, l} /\ \A y \in {limit, l} : Min({limit, l}) <= y
      BY <2>3 DEF Min
  <2> QED
      BY <2>1, <2>4
<1>15. PICK sel : sel = Selected(s, p)
    OBVIOUS
<1>16. sel = [k \in 1..m |-> txs[all[k]]]
    BY <1>1, <1>2, <1>7, <1>12, <1>14, <1>15, SelectionIs DEF Selected
<1>17. \A k \in 1..m : k \in DOMAIN all /\ all[k] \in D
  <2>1. DOMAIN all = 1..Len(all) /\ Len(all) \in Nat
      BY <1>13, LenProperties
  <2>2. \A k \in 1..m : k \in 1..Len(all)
      BY <1>14, <2>1
  <2> QED
      BY <1>13, <2>1, <2>2, ElementOfSeq
<1>18. \A k \in 1..m : sel[k] \in SignedTxs /\ sel[k] \in Pooled(p)
    BY <1>4, <1>16, <1>17
<1>19. sel \in Seq(SignedTxs) /\ Len(sel) = m /\ DOMAIN sel = 1..m
    BY <1>16, <1>18
<1>20. IsInjective(sel)
  <2> SUFFICES ASSUME NEW i \in 1..m, NEW j \in 1..m, sel[i] = sel[j]
               PROVE  i = j
      BY <1>19 DEF IsInjective
  <2>1. all[i] = all[j]
      BY <1>4, <1>16, <1>17
  <2> QED
      BY <1>13, <1>17, <2>1 DEF IsInjective
<1>21. ToSet(sel) \subseteq Pooled(p)
    BY <1>18, <1>19 DEF ToSet
<1> QED
    BY <1>1, <1>14, <1>15, <1>19, <1>20, <1>21

-----------------------------------------------------------------------------
(* Trying and putting back                                                 *)

(* One round of Trial at height index, and of the putting back of          *)
(* PoolAfterReorg: p holds the accounts and the clock.                     *)
Attempted(index, acc, tx) ==
    IF CanApply(acc.state, tx)
    THEN [acc EXCEPT !.state = Applied(@, tx), !.accepted = Append(@, tx)]
    ELSE [acc EXCEPT !.pool = penalize(@, tx, index)]

Readded(p, pool0, tx) == add(pool0, tx, p.state, p.now)

Attempt == INSTANCE FoldLaws WITH op <- Attempted

Readd == INSTANCE FoldLaws WITH op <- Readded

LEMMA TrialIsFold ==
    \A s, p, index :
        Trial(s, p, index) = Attempt!Fold(index, [state |-> s, accepted |-> << >>, pool |-> p],
                                          Selected(s, p))
PROOF
BY DEF Trial, Attempted, Attempt!Fold, FoldLeft,
       MapThenFoldSet, Attempt!MapThenFoldSet, Max, Attempt!Greatest

(* How far a trial has come after the transactions tried.                  *)
Trying(s, p, tried, acc) ==
    /\ acc = [state |-> acc.state, accepted |-> acc.accepted, pool |-> acc.pool]
    /\ acc.accepted \in Seq(SignedTxs) /\ Len(acc.accepted) <= Len(tried)
    /\ ToSet(acc.accepted) \subseteq ToSet(tried)
    /\ acc.state \in TypeOfState
    /\ ApplyAll(s, acc.accepted) = [ok |-> TRUE, state |-> acc.state]
    /\ PoolFit(acc.pool)
    /\ Pooled(acc.pool) \subseteq Pooled(p)
    /\ Pooled(p) \ ToSet(tried) \subseteq Pooled(acc.pool)

LEMMA TryingStep ==
    ASSUME NEW s \in TypeOfState, NEW p, NEW tried \in Seq(SignedTxs), NEW tx \in SignedTxs,
           NEW acc, Trying(s, p, tried, acc), NEW index,
           tx \in Pooled(p), tx \notin ToSet(tried)
    PROVE  Trying(s, p, Append(tried, tx), Attempted(index, acc, tx))
PROOF
<1>1. PICK long \in Seq(SignedTxs) : long = Append(tried, tx)
    BY AppendProperties
<1>2. PICK l \in Nat : l = Len(tried) /\ Len(long) = l + 1 /\ ToSet(long) = ToSet(tried) \cup {tx}
    BY <1>1, AppendProperties, LenProperties, ToSetIs
<1>3. PICK a \in Seq(SignedTxs) : a = acc.accepted /\ Len(a) <= l
    BY <1>2 DEF Trying
<1>4. PICK st \in TypeOfState : st = acc.state
    BY DEF Trying
<1>5. PICK pl : pl = acc.pool
    OBVIOUS
<1>6. acc = [state |-> st, accepted |-> a, pool |-> pl]
    BY <1>3, <1>4, <1>5 DEF Trying
<1>7. /\ ApplyAll(s, a) = [ok |-> TRUE, state |-> st] /\ PoolFit(pl)
      /\ Pooled(pl) \subseteq Pooled(p) /\ Pooled(p) \ ToSet(tried) \subseteq Pooled(pl)
      /\ ToSet(a) \subseteq ToSet(tried)
    BY <1>3, <1>4, <1>5 DEF Trying
<1>8. PICK new : new = Attempted(index, acc, tx)
    OBVIOUS
<1>9. CASE CanApply(st, tx)
  <2>1. PICK b \in Seq(SignedTxs) : b = Append(a, tx) /\ Len(b) = Len(a) + 1
      BY AppendProperties
  <2>1a. ToSet(b) = ToSet(a) \cup {tx}
      BY <2>1, ToSetIs
  <2>2. PICK su \in TypeOfState : su = Applied(st, tx)
      BY <1>9, AppliedType
  <2>3. new = [state |-> su, accepted |-> b, pool |-> pl]
    <3>1. CanApply(acc.state, tx) /\ acc.state = st /\ acc.accepted = a
        BY <1>3, <1>4, <1>9
    <3>2. new = [acc EXCEPT !.state = Applied(@, tx), !.accepted = Append(@, tx)]
        BY <1>8, <3>1 DEF Attempted
    <3>3. new = [acc EXCEPT !.state = su, !.accepted = b]
        BY <2>1, <2>2, <3>1, <3>2
    <3> QED
        BY <1>6, <3>3
  <2>4. ApplyAll(s, b) = [ok |-> TRUE, state |-> su]
      BY <1>7, <1>9, <2>1, <2>2, ApplyAllAppend
  <2>5. Len(b) <= Len(long)
    <3>1. Len(a) \in Nat
        BY LenProperties
    <3> QED
        BY <1>2, <1>3, <2>1, <3>1
  <2>6. Pooled(p) \ ToSet(long) \subseteq Pooled(pl) /\ ToSet(b) \subseteq ToSet(long)
      BY <1>2, <1>7, <2>1a
  <2> QED
      BY <1>1, <1>7, <1>8, <2>3, <2>4, <2>5, <2>6 DEF Trying
<1>10. CASE ~ CanApply(st, tx)
  <2>1. tx \in Pooled(pl)
      BY <1>7
  <2>2. PICK q : q = penalize(pl, tx, index)
      OBVIOUS
  <2>3. PoolFit(q) /\ Pooled(q) \subseteq Pooled(pl) /\ Pooled(pl) \ {tx} \subseteq Pooled(q)
      BY <1>7, <2>1, <2>2, FitPenalize
  <2>4. new = [state |-> st, accepted |-> a, pool |-> q]
      BY <1>4, <1>6, <1>8, <1>10, <2>2 DEF Attempted
  <2>5. Len(a) <= Len(long)
    <3>1. Len(a) \in Nat
        BY LenProperties
    <3> QED
        BY <1>2, <1>3, <3>1
  <2>6. /\ Pooled(q) \subseteq Pooled(p) /\ Pooled(p) \ ToSet(long) \subseteq Pooled(q)
        /\ ToSet(a) \subseteq ToSet(long)
      BY <1>2, <1>7, <2>3
  <2> QED
      BY <1>1, <1>7, <1>8, <2>3, <2>4, <2>5, <2>6 DEF Trying
<1> QED
    BY <1>9, <1>10

LEMMA TrialIs ==
    ASSUME NEW s \in TypeOfState, NEW p, PoolFit(p), NEW index
    PROVE  /\ Trial(s, p, index).accepted \in Seq(SignedTxs)
           /\ ToSet(Trial(s, p, index).accepted) \subseteq Pooled(p)
           /\ Len(Trial(s, p, index).accepted) < MAX_TXS_PER_BLOCK
           /\ ApplyAll(s, Trial(s, p, index).accepted).ok
           /\ PoolFit(Trial(s, p, index).pool)
           /\ Pooled(Trial(s, p, index).pool) \subseteq Pooled(p)
PROOF
<1>1. PICK base : base = [state |-> s, accepted |-> << >>, pool |-> p]
    OBVIOUS
<1> DEFINE Good == {tried \in Seq(SignedTxs) :
                ToSet(tried) \subseteq Pooled(p) /\ IsInjective(tried)
                => Trying(s, p, tried, Attempt!Fold(index, base, tried))}
<1>2. << >> \in Good
  <2>1. Attempt!Fold(index, base, << >>) = base
      BY Attempt!FoldEmpty
  <2>2. << >> \in Seq(SignedTxs) /\ Len(<< >>) = 0 /\ ToSet(<< >>) = {}
      BY DEF ToSet
  <2>3. base.state = s /\ base.accepted = << >> /\ base.pool = p
        /\ base = [state |-> base.state, accepted |-> base.accepted, pool |-> base.pool]
      BY <1>1
  <2>4. Trying(s, p, << >>, base)
      BY <2>2, <2>3, ApplyAllEmpty DEF Trying
  <2> QED
      BY <2>1, <2>2, <2>4
<1>3. ASSUME NEW tried \in Seq(SignedTxs), NEW tx \in SignedTxs, tried \in Good
      PROVE  Append(tried, tx) \in Good
  <2>1. PICK long \in Seq(SignedTxs) : long = Append(tried, tx)
      BY AppendProperties
  <2> SUFFICES ASSUME ToSet(long) \subseteq Pooled(p), IsInjective(long)
               PROVE  Trying(s, p, long, Attempt!Fold(index, base, long))
      BY <2>1
  <2>2. /\ ToSet(long) = ToSet(tried) \cup {tx}
        /\ IsInjective(tried) /\ tx \notin ToSet(tried)
      BY <2>1, ToSetIs, InjectiveAppend
  <2>3. PICK acc : acc = Attempt!Fold(index, base, tried)
      OBVIOUS
  <2>4. Trying(s, p, tried, acc) /\ tx \in Pooled(p)
      BY <1>3, <2>2, <2>3
  <2>5. Attempt!Fold(index, base, long) = Attempted(index, acc, tx)
      BY <2>1, <2>3, Attempt!FoldAppend
  <2> QED
      BY <2>1, <2>2, <2>4, <2>5, TryingStep
<1> HIDE DEF Good
<1>4. Seq(SignedTxs) \subseteq Good
    BY <1>2, <1>3, Attempt!SeqSetInduction
<1>5. PICK sel \in Seq(SignedTxs) : /\ sel = Selected(s, p) /\ Len(sel) <= MAX_TXS_PER_BLOCK - 1
                              /\ IsInjective(sel) /\ ToSet(sel) \subseteq Pooled(p)
    BY SelectedIs
<1>6. PICK acc : acc = Attempt!Fold(index, base, sel)
    OBVIOUS
<1>7. Trying(s, p, sel, acc)
    BY <1>4, <1>5, <1>6 DEF Good
<1>8. acc = Trial(s, p, index)
    BY <1>1, <1>5, <1>6, TrialIsFold
<1>9. /\ acc.accepted \in Seq(SignedTxs) /\ Len(acc.accepted) <= Len(sel)
      /\ ToSet(acc.accepted) \subseteq ToSet(sel)
      /\ ApplyAll(s, acc.accepted).ok /\ PoolFit(acc.pool)
      /\ Pooled(acc.pool) \subseteq Pooled(p)
    BY <1>7 DEF Trying
<1>10. Len(acc.accepted) < MAX_TXS_PER_BLOCK
  <2>1. /\ Len(acc.accepted) \in Nat /\ Len(sel) \in Nat /\ MAX_TXS_PER_BLOCK \in Nat
      BY <1>5, <1>9, LenProperties, ChainAssumption
  <2> QED
      BY <1>5, <1>9, <2>1
<1> QED
    BY <1>5, <1>8, <1>9, <1>10

-----------------------------------------------------------------------------
(* What a new block and a reorg leave of the pool                          *)

LEMMA FitReconcile ==
    ASSUME NEW p, PoolFit(p), NEW s, NEW t
    PROVE  /\ PoolFit(reconcile(p, s, t))
           /\ Pooled(reconcile(p, s, t)) = {tx \in Pooled(p) : ~ Outdated(tx, s, t)}
PROOF
<1>1. PICK gone : gone = {tx \in Pooled(p) : Outdated(tx, s, t)}
    OBVIOUS
<1>2. PoolFit(remove(p, gone)) /\ Pooled(remove(p, gone)) = Pooled(p) \ gone
    BY FitRemove
<1>3. Pooled(p) \ gone = {tx \in Pooled(p) : ~ Outdated(tx, s, t)}
    BY <1>1
<1> QED
    BY <1>1, <1>2, <1>3 DEF reconcile

LEMMA FitAfterBlock ==
    ASSUME NEW p, PoolFit(p), NEW b, NEW s, NEW t
    PROVE  /\ PoolFit(PoolAfterBlock(p, b, s, t))
           /\ Pooled(PoolAfterBlock(p, b, s, t)) =
                  {tx \in Pooled(p) \ ToSet(b.txs) : ~ Outdated(tx, s, t)}
PROOF
BY FitRemove, FitReconcile DEF PoolAfterBlock

LEMMA OrphanedIs ==
    ASSUME NEW old \in Seq(BlockSet), NEW new
    PROVE  /\ Orphaned(old, new) \in Seq(SignedTxs)
           /\ ToSet(Orphaned(old, new)) = TxsOf(old) \ TxsOf(new)
PROOF
<1>1. PICK bodies : bodies = [i \in DOMAIN old |-> old[i].txs]
    OBVIOUS
<1>2. PICK n \in Nat : n = Len(old) /\ DOMAIN old = 1..n /\ \A i \in 1..n : old[i] \in BlockSet
    BY LenProperties, ElementOfSeq
<1>3. DOMAIN bodies = DOMAIN old /\ \A i \in DOMAIN old : bodies[i] = old[i].txs
    BY <1>1
<1>4. bodies \in Seq(Seq(SignedTxs))
  <2>1. bodies = [i \in 1..n |-> old[i].txs]
      BY <1>1, <1>2
  <2>2. \A i \in 1..n : bodies[i] \in Seq(SignedTxs)
      BY <1>2, <1>3, BlockTxs
  <2> QED
      BY <2>1, <2>2
<1>5. PICK all : all = FlattenSeq(bodies)
    OBVIOUS
<1>6. all \in Seq(SignedTxs) /\ ToSet(all) = UNION {ToSet(bodies[i]) : i \in DOMAIN bodies}
    BY <1>4, <1>5, FlattenIs
<1>7. ToSet(all) = TxsOf(old)
    BY <1>3, <1>6 DEF TxsOf
<1>8. Orphaned(old, new) = Dropping(all, TxsOf(new))
    BY <1>1, <1>5 DEF Orphaned
<1> QED
    BY <1>6, <1>7, <1>8, DroppingIs

LEMMA ReaddIsFold ==
    \A p, txs, s, t : FoldLeft(LAMBDA q, tx : add(q, tx, s, t), p, txs)
                          = Readd!Fold([state |-> s, now |-> t], p, txs)
PROOF
BY DEF Readded, Readd!Fold, FoldLeft,
       MapThenFoldSet, Readd!MapThenFoldSet, Max, Readd!Greatest

(* What the new chain leaves unmined, and a pool of it that refuses tx.    *)
Unmined(p, old, new) == (Pooled(p) \cup TxsOf(old)) \ TxsOf(new)

RefusedBy(w, tx, all, s, t) ==
    PoolFit(w) /\ Pooled(w) \subseteq all /\ tx \notin Pooled(w) /\ ~ Acceptable(w, tx, s, t)

LEMMA UnminedIs ==
    ASSUME NEW p, PoolFit(p), NEW old \in Seq(BlockSet), NEW new
    PROVE  IsFiniteSet(Unmined(p, old, new)) /\ Unmined(p, old, new) \subseteq SignedTxs
PROOF
<1>1. PICK T : T = TxsOf(old) \ TxsOf(new)
    OBVIOUS
<1>2. IsFiniteSet(T) /\ T \subseteq SignedTxs
    BY <1>1, OrphanedIs, PooledFinite, TxsOfType
<1>3. IsFiniteSet(Pooled(p)) /\ Pooled(p) \subseteq SignedTxs
    BY PooledFinite, ToSetIs DEF PoolFit, Pooled
<1>4. IsFiniteSet(Pooled(p) \cup T)
    BY <1>2, <1>3, FS_Union
<1>5. Unmined(p, old, new) \subseteq Pooled(p) \cup T
    BY <1>1 DEF Unmined
<1> QED
    BY <1>2, <1>3, <1>4, <1>5, FS_Subset

(* Why a transaction that was in a chain is refused.                       *)
LEMMA WhyRefused ==
    ASSUME NEW all, IsFiniteSet(all), NEW tx \in all, tx \in SignedTxs, NEW s, NEW t, NEW w,
           RefusedBy(w, tx, all, s, t), validateTransaction(tx, t),
           s \in TypeOfState
    PROVE  \/ Outdated(tx, s, t)
           \/ tx.nonce > s.nonce[tx.from] + RUN_AHEAD
           \/ tx.fee > s.balance[tx.from]
           \/ Cardinality(all) > MAX_MEMPOOL_TXS
           \/ Cardinality({u \in all : u.from = tx.from}) > RUN_AHEAD
PROOF
<1>1. /\ PoolFit(w) /\ Pooled(w) \subseteq all /\ tx \notin Pooled(w) /\ ~ Acceptable(w, tx, s, t)
    BY DEF RefusedBy
<1>2. PICK a \in Addr : a = tx.from
    BY DEF SignedTxs
<1>3. PICK n \in Nat, bal \in Nat, nn \in Nat, fee \in Nat :
          n = s.nonce[a] /\ bal = s.balance[a] /\ nn = tx.nonce /\ fee = tx.fee
    BY <1>2 DEF TypeOfState, SignedTxs
<1>4. PICK M \in Nat, R \in Nat : M = MAX_MEMPOOL_TXS /\ R = RUN_AHEAD
    BY MempoolAssumption
<1>5. PICK l \in Nat : l = Len(w.txs) /\ l = Cardinality(Pooled(w))
    BY <1>1, LenProperties, PooledFinite DEF PoolFit, Pooled
<1>6. IsFiniteSet(Pooled(w)) /\ IsFiniteSet(PendingFor(w, a))
    BY <1>1, FS_Subset DEF PendingFor
<1>7. PICK k \in Nat : k = Cardinality(PendingFor(w, a))
    BY <1>6, FS_CardinalityType
<1>8. \/ ~ (l < M) \/ ~ (n <= nn) \/ ~ (nn <= n + R) \/ ~ (k < R) \/ ~ (fee <= bal)
    BY <1>1, <1>2, <1>3, <1>4, <1>5, <1>7 DEF Acceptable
<1>9. Cardinality(all) \in Nat /\ l < Cardinality(all)
  <2>1. IsFiniteSet(Pooled(w) \cup {tx}) /\ Cardinality(Pooled(w) \cup {tx}) = l + 1
      BY <1>1, <1>5, <1>6, FS_AddElement
  <2>2. Pooled(w) \cup {tx} \subseteq all
      BY <1>1
  <2>3. l + 1 <= Cardinality(all)
      BY <2>1, <2>2, FS_Subset
  <2> QED
      BY <2>3, FS_CardinalityType
<1>10. PICK mine : mine = {u \in all : u.from = tx.from}
    OBVIOUS
<1>11. Cardinality(mine) \in Nat /\ k < Cardinality(mine)
  <2>1. PICK P : P = PendingFor(w, a)
      OBVIOUS
  <2>2. tx \notin P /\ P \cup {tx} \subseteq mine /\ IsFiniteSet(mine)
      BY <1>1, <1>2, <1>10, <2>1, FS_Subset DEF PendingFor
  <2>3. IsFiniteSet(P \cup {tx}) /\ Cardinality(P \cup {tx}) = k + 1
      BY <1>6, <1>7, <2>1, <2>2, FS_AddElement
  <2>4. k + 1 <= Cardinality(mine)
      BY <2>2, <2>3, FS_Subset
  <2> QED
      BY <2>2, <2>4, FS_CardinalityType
<1>12. CASE ~ (l < M)
    BY <1>4, <1>9, <1>12
<1>13. CASE ~ (n <= nn)
  <2>1. nn < n
      BY <1>13
  <2> QED
      BY <1>2, <1>3, <2>1 DEF Outdated
<1>14. CASE ~ (nn <= n + R)
  <2>1. nn > n + R
      BY <1>14
  <2> QED
      BY <1>2, <1>3, <1>4, <2>1
<1>15. CASE ~ (k < R)
  <2>1. Cardinality(mine) > R
      BY <1>11, <1>15
  <2> QED
      BY <1>4, <1>10, <2>1
<1>16. CASE ~ (fee <= bal)
  <2>1. fee > bal
      BY <1>16
  <2> QED
      BY <1>2, <1>3, <2>1
<1> QED
    BY <1>8, <1>12, <1>13, <1>14, <1>15, <1>16

(* How far the putting back has come after the transactions done.          *)
Returning(q0, all, s, t, done, q) ==
    /\ PoolFit(q)
    /\ Pooled(q) \subseteq Pooled(q0) \cup ToSet(done)
    /\ \A tx \in ToSet(done) : tx \in Pooled(q) \/ \E w : RefusedBy(w, tx, all, s, t)

LEMMA FitAfterReorg ==
    ASSUME NEW p, PoolFit(p), NEW old \in Seq(BlockSet), NEW new, NEW s, NEW t
    PROVE  /\ PoolFit(PoolAfterReorg(p, old, new, s, t))
           /\ Pooled(PoolAfterReorg(p, old, new, s, t)) \subseteq Unmined(p, old, new)
           /\ \A tx \in Pooled(PoolAfterReorg(p, old, new, s, t)) : ~ Outdated(tx, s, t)
           /\ \A tx \in TxsOf(old) \ TxsOf(new) :
                 \/ tx \in Pooled(PoolAfterReorg(p, old, new, s, t))
                 \/ Outdated(tx, s, t)
                 \/ \E w : RefusedBy(w, tx, Unmined(p, old, new), s, t)
PROOF
<1>1. PICK all : all = Unmined(p, old, new)
    OBVIOUS
<1>2. PICK q0 : q0 = remove(p, TxsOf(new))
    OBVIOUS
<1>3. PoolFit(q0) /\ Pooled(q0) \subseteq all
    BY <1>1, <1>2, FitRemove DEF Unmined
<1>4. PICK back \in Seq(SignedTxs) :
          back = Orphaned(old, new) /\ ToSet(back) = TxsOf(old) \ TxsOf(new)
    BY OrphanedIs
<1>5. ToSet(back) \subseteq all
    BY <1>1, <1>4 DEF Unmined
<1>6. PICK at : at = [state |-> s, now |-> t]
    OBVIOUS
<1> DEFINE Good == {done \in Seq(SignedTxs) :
                ToSet(done) \subseteq all => Returning(q0, all, s, t, done, Readd!Fold(at, q0, done))}
<1>7. << >> \in Good
  <2>1. Readd!Fold(at, q0, << >>) = q0
      BY Readd!FoldEmpty
  <2>2. << >> \in Seq(SignedTxs) /\ ToSet(<< >>) = {}
      BY DEF ToSet
  <2>3. Returning(q0, all, s, t, << >>, q0)
      BY <1>3, <2>2 DEF Returning
  <2> QED
      BY <2>1, <2>2, <2>3
<1>8. ASSUME NEW done \in Seq(SignedTxs), NEW tx \in SignedTxs, done \in Good
      PROVE  Append(done, tx) \in Good
  <2>1. PICK long \in Seq(SignedTxs) : long = Append(done, tx) /\ ToSet(long) = ToSet(done) \cup {tx}
      BY AppendProperties, ToSetIs
  <2> SUFFICES ASSUME ToSet(long) \subseteq all
               PROVE  Returning(q0, all, s, t, long, Readd!Fold(at, q0, long))
      BY <2>1
  <2>2. PICK q : q = Readd!Fold(at, q0, done)
      OBVIOUS
  <2>3. Returning(q0, all, s, t, done, q)
      BY <1>8, <2>1, <2>2
  <2>4. PICK r : r = add(q, tx, s, t)
      OBVIOUS
  <2>5. Readd!Fold(at, q0, long) = r
    <3>1. Readd!Fold(at, q0, long) = Readded(at, q, tx)
        BY <2>1, <2>2, Readd!FoldAppend
    <3> QED
        BY <1>6, <2>4, <3>1 DEF Readded
  <2>6. /\ PoolFit(q) /\ PoolFit(r)
        /\ Acceptable(q, tx, s, t) => Pooled(r) = Pooled(q) \cup {tx}
        /\ ~ Acceptable(q, tx, s, t) => r = q
      BY <2>3, <2>4, FitAdd DEF Returning
  <2>7. /\ Pooled(q) \subseteq Pooled(q0) \cup ToSet(done)
        /\ \A u \in ToSet(done) : u \in Pooled(q) \/ \E w : RefusedBy(w, u, all, s, t)
      BY <2>3 DEF Returning
  <2>8. Pooled(q) \subseteq Pooled(r) /\ Pooled(r) \subseteq Pooled(q0) \cup ToSet(long)
      BY <2>1, <2>6, <2>7
  <2>9. Pooled(q) \subseteq all
      BY <1>3, <2>1, <2>7
  <2>10. tx \in Pooled(r) \/ RefusedBy(q, tx, all, s, t)
    <3>1. CASE Acceptable(q, tx, s, t)
        BY <2>6, <3>1
    <3>2. CASE ~ Acceptable(q, tx, s, t)
        BY <2>6, <2>9, <3>2 DEF RefusedBy
    <3> QED
        BY <3>1, <3>2
  <2>11. \A u \in ToSet(long) : u \in Pooled(r) \/ \E w : RefusedBy(w, u, all, s, t)
      BY <2>1, <2>7, <2>8, <2>10
  <2> QED
      BY <2>5, <2>6, <2>8, <2>11 DEF Returning
<1> HIDE DEF Good
<1>9. Seq(SignedTxs) \subseteq Good
    BY <1>7, <1>8, Readd!SeqSetInduction
<1>10. PICK q : q = Readd!Fold(at, q0, back)
    OBVIOUS
<1>11. Returning(q0, all, s, t, back, q)
    BY <1>5, <1>9, <1>10 DEF Good
<1>12. PoolAfterReorg(p, old, new, s, t) = reconcile(q, s, t)
    BY <1>2, <1>4, <1>6, <1>10, ReaddIsFold DEF PoolAfterReorg
<1>13. PICK r : r = reconcile(q, s, t)
    OBVIOUS
<1>14. PoolFit(r) /\ Pooled(r) = {tx \in Pooled(q) : ~ Outdated(tx, s, t)}
    BY <1>11, <1>13, FitReconcile DEF Returning
<1>15. \A tx \in ToSet(back) : tx \in Pooled(r) \/ Outdated(tx, s, t)
                                 \/ \E w : RefusedBy(w, tx, all, s, t)
    BY <1>11, <1>14 DEF Returning
<1>16. Pooled(r) \subseteq all
    BY <1>3, <1>5, <1>11, <1>14 DEF Returning
<1> QED
    BY <1>1, <1>4, <1>12, <1>13, <1>14, <1>15, <1>16

-----------------------------------------------------------------------------
(* The last block of a chain, and the header of the next one               *)

LEMMA FrontLast ==
    ASSUME NEW S, NEW c \in Seq(S), c # << >>
    PROVE  /\ Front(c) \in Seq(S) /\ Last(c) \in S /\ c = Append(Front(c), Last(c))
           /\ Len(Front(c)) = Len(c) - 1
PROOF
<1>1. PICK n : n = Len(c)
    OBVIOUS
<1>2. n \in Nat /\ n # 0 /\ DOMAIN c = 1..n
    BY <1>1, LenProperties, EmptySeq
<1>3. Front(c) = [i \in 1..(n - 1) |-> c[i]]
    BY <1>1 DEF Front
<1>4. \A i \in 1..n : c[i] \in S
    BY <1>1, <1>2, ElementOfSeq
<1>5. \A i \in 1..(n - 1) : i \in 1..n
    BY <1>2
<1>6. n - 1 \in Nat
    BY <1>2
<1>7. Front(c) \in Seq(S) /\ Len(Front(c)) = n - 1
    BY <1>3, <1>4, <1>5, <1>6
<1>8. Last(c) = c[n] /\ Last(c) \in S
    BY <1>1, <1>2, <1>4 DEF Last
<1>9. Append(Front(c), Last(c)) \in Seq(S) /\ Len(Append(Front(c), Last(c))) = n
    BY <1>2, <1>7, <1>8, AppendProperties
<1>10. \A i \in 1..n : Append(Front(c), Last(c))[i] = c[i]
  <2> SUFFICES ASSUME NEW i \in 1..n
               PROVE  Append(Front(c), Last(c))[i] = c[i]
      OBVIOUS
  <2>1. i = n \/ i \in 1..(n - 1)
      BY <1>2
  <2>2. Len(Front(c)) + 1 = n
      BY <1>2, <1>7
  <2>3. i = n => Append(Front(c), Last(c))[i] = Last(c)
      BY <1>7, <1>8, <2>2, AppendProperties
  <2>4. i \in 1..(n - 1) => Append(Front(c), Last(c))[i] = Front(c)[i]
      BY <1>7, <1>8, AppendProperties
  <2> QED
      BY <1>3, <1>8, <2>1, <2>3, <2>4
<1>11. Append(Front(c), Last(c)) = c
    BY <1>1, <1>9, <1>10, SeqEqual
<1> QED
    BY <1>1, <1>7, <1>8, <1>11

LEMMA AppendIs ==
    ASSUME NEW c \in ChainSet, NEW b \in BlockSet
    PROVE  /\ Append(c, b) \in ChainSet /\ Append(c, b) # << >>
           /\ Front(Append(c, b)) = c /\ Last(Append(c, b)) = b
           /\ height(Append(c, b)) = height(c) + 1 /\ height(c) \in Nat
PROOF
<1>1. c \in Seq(BlockSet) /\ c # << >>
    BY DEF ChainSet
<1>2. Append(c, b) \in ChainSet /\ Append(c, b) \in Seq(BlockSet) /\ Append(c, b) # << >>
    BY HeadOfAppend DEF ChainSet
<1>3. PICK a : a = Append(c, b)
    OBVIOUS
<1>4. Front(a) \in Seq(BlockSet) /\ Last(a) \in BlockSet /\ a = Append(Front(a), Last(a))
      /\ Len(Front(a)) = Len(a) - 1
    BY <1>2, <1>3, FrontLast
<1>5. Len(a) = Len(c) + 1 /\ a[Len(c) + 1] = b /\ \A i \in 1..Len(c) : a[i] = c[i]
    BY <1>1, <1>3, AppendProperties
<1>6. Len(c) \in Nat /\ Len(c) # 0
    BY <1>1, LenProperties, EmptySeq
<1>7. Last(a) = b
    BY <1>5 DEF Last
<1>8. Len(Front(a)) = Len(c)
    BY <1>4, <1>5, <1>6
<1>9. \A i \in 1..Len(c) : a[i] = Front(a)[i]
    BY <1>4, <1>8, AppendProperties
<1>10. Front(a) = c
    BY <1>1, <1>4, <1>5, <1>8, <1>9, SeqEqual
<1>11. height(a) = height(c) + 1 /\ height(c) \in Nat
    BY <1>5, <1>6 DEF height
<1> QED
    BY <1>2, <1>3, <1>7, <1>10, <1>11

LEMMA SameHeaderRules ==
    /\ \A c, t : Heads!CandidateTime(c, t) = CandidateTime(c, t)
    /\ \A c : Heads!expectedDifficulty(c) = expectedDifficulty(c)
    /\ \A c : Heads!Last(c) = Last(c)
PROOF
<1>1. \A c : Heads!Window(c) = Window(c)
    BY DEF Window, Heads!Window
<1>2. \A w : Heads!medianTimePast(w) = medianTimePast(w)
    BY DEF medianTimePast, Heads!medianTimePast, Cardinality, Heads!Cardinality
<1>3. \A S : Heads!Max(S) = Max(S)
    BY DEF Max, Heads!Max
<1>4. \A c : Heads!expectedDifficulty(c) = expectedDifficulty(c)
    BY DEF expectedDifficulty, Heads!expectedDifficulty, Last, Heads!Last,
           Retargeted, Heads!Retargeted, Clamp, Heads!Clamp
<1>5. \A c : Heads!Last(c) = Last(c)
    BY DEF Last, Heads!Last
<1> QED
    BY <1>1, <1>2, <1>3, <1>4, <1>5 DEF CandidateTime, Heads!CandidateTime

LEMMA HeaderOfNext ==
    ASSUME NEW c \in ChainSet, NEW t \in Nat
    PROVE  CandidateTime(c, t) \in Nat /\ expectedDifficulty(c) \in Nat
PROOF
<1>1. c \in Seq(BlockSet) /\ c # << >>
    BY DEF ChainSet
<1>2. \A x \in BlockSet : x.timestamp \in Nat /\ x.difficulty \in Nat
    BY DEF BlockSet
<1>3. Last(c).difficulty \in Nat
    BY <1>1, <1>2, FrontLast
<1>4. Heads!CandidateTime(c, t) \in Nat
    BY <1>1, <1>2, Heads!CandidateTimeType, HeadsAssumed
<1>5. Heads!expectedDifficulty(c) \in Heads!Limits \cup {Heads!Last(c).difficulty}
    BY <1>1, <1>2, Heads!ExpectedType, HeadsAssumed
<1>6. Heads!Limits \subseteq Nat
    BY HeadersAssumption DEF Heads!Limits
<1> QED
    BY <1>3, <1>4, <1>5, <1>6, SameHeaderRules
=============================================================================
