------------------------------ MODULE FoldLaws ------------------------------
(***************************************************************************)
(* What FoldLeft computes, for any operator op with a parameter p. The     *)
(* chain is validated, applied and weighed by folds (validateChain,        *)
(* applyBlock and totalWork of blockchain.js); proofs about one of them    *)
(* take an instance of this module with its step for op.                   *)
(***************************************************************************)
EXTENDS Sequences, Folds, TLAPS, WellFoundedInduction

CONSTANT op(_, _, _)

(* Max of FiniteSetsExt.                                                   *)
Greatest(S) == CHOOSE x \in S : \A y \in S : x >= y

(* FoldLeft of SequencesExt, written out, so that an instance of this      *)
(* module does not bring all of that one with it.                          *)
Fold(p, base, seq) ==
    MapThenFoldSet(LAMBDA x, acc : op(p, acc, x), base, LAMBDA i : seq[i],
                   LAMBDA S : Greatest(S), DOMAIN seq)

(* Every set of numbers with an element has a least one.                   *)
LEMMA Least ==
    ASSUME NEW T \in SUBSET Nat, NEW m \in T
    PROVE  \E n \in T : \A k \in T : ~ (k < n)
PROOF
<1>1. PICK n \in T : \A k \in T : ~ (<<k, n>> \in OpToRel(<, Nat))
    BY NatLessThanWellFounded, WFMin
<1> QED
    BY <1>1 DEF OpToRel

(* Induction on numbers and sequences, for properties given as sets.       *)
LEMMA NatSetInduction ==
    ASSUME NEW Good, 0 \in Good, \A n \in Nat : n \in Good => n + 1 \in Good
    PROVE  Nat \subseteq Good
PROOF
<1> SUFFICES ASSUME NEW m \in Nat, m \notin Good
             PROVE  FALSE
    OBVIOUS
<1> DEFINE Bad == {n \in Nat : n \notin Good}
<1>1. m \in Bad /\ Bad \in SUBSET Nat
    OBVIOUS
<1>2. PICK n \in Bad : \A k \in Bad : ~ (k < n)
    BY <1>1, Least
<1>4. n \in Nat /\ n # 0 /\ n \notin Good
    OBVIOUS
<1>5. n - 1 \in Nat /\ n - 1 < n /\ (n - 1) + 1 = n
    BY <1>4
<1>6. n - 1 \in Good
    BY <1>2, <1>5
<1> QED
    BY <1>4, <1>5, <1>6

LEMMA SeqSetInduction ==
    ASSUME NEW S, NEW Good, << >> \in Good,
           \A s \in Seq(S), x \in S : s \in Good => Append(s, x) \in Good
    PROVE  Seq(S) \subseteq Good
PROOF
<1> DEFINE Upto == {n \in Nat : \A s \in Seq(S) : Len(s) = n => s \in Good}
<1>1. 0 \in Upto
    OBVIOUS
<1>2. ASSUME NEW n \in Nat, n \in Upto
      PROVE  n + 1 \in Upto
  <2> SUFFICES ASSUME NEW s \in Seq(S), Len(s) = n + 1
               PROVE  s \in Good
      BY <1>2
  <2>1. PICK t : t = [i \in 1..n |-> s[i]]
      OBVIOUS
  <2>2. t \in Seq(S) /\ s[n + 1] \in S /\ s = Append(t, s[n + 1])
      BY <2>1
  <2>3. Len(t) = n
      BY <2>1
  <2> QED
      BY <1>2, <2>2, <2>3
<1> HIDE DEF Upto
<1>3. Nat \subseteq Upto
    BY <1>1, <1>2, NatSetInduction
<1> QED
    BY <1>3 DEF Upto

-----------------------------------------------------------------------------

LEMMA MaxUpTo ==
    ASSUME NEW n \in Nat, NEW s \in SUBSET (1..n), s # {}
    PROVE  Greatest(s) \in s /\ \A y \in s : Greatest(s) >= y
PROOF
<1> DEFINE Good == {k \in Nat : \A t \in SUBSET (1..k) :
                        t # {} => \E x \in t : \A y \in t : x >= y}
<1>1. 0 \in Good
  <2>1. 1..0 = {}
      OBVIOUS
  <2> QED
      BY <2>1
<1>2. ASSUME NEW k \in Nat, k \in Good
      PROVE  k + 1 \in Good
  <2> SUFFICES ASSUME NEW t \in SUBSET (1..(k + 1)), t # {}
               PROVE  \E x \in t : \A y \in t : x >= y
      OBVIOUS
  <2>1. CASE k + 1 \in t
      BY <2>1
  <2>2. CASE k + 1 \notin t
    <3>1. t \in SUBSET (1..k)
        BY <2>2
    <3> QED
        BY <1>2, <3>1
  <2> QED
      BY <2>1, <2>2
<1> HIDE DEF Good
<1>3. n \in Good
    BY <1>1, <1>2, NatSetInduction
<1>4. \E x \in s : \A y \in s : x >= y
    BY <1>3 DEF Good
<1> QED
    BY <1>4 DEF Greatest

(* One step of the recursion FoldLeft stands for: h comes from g.          *)
Round(p, base, seq, g, s) ==
    IF s = {} THEN base ELSE op(p, g[s \ {Greatest(s)}], seq[Greatest(s)])

Rounds(p, base, seq, n, g) == g = [s \in SUBSET (1..n) |-> Round(p, base, seq, g, s)]

LEMMA RoundsExist ==
    ASSUME NEW p, NEW base, NEW seq, NEW n \in Nat
    PROVE  \E g : Rounds(p, base, seq, n, g)
PROOF
<1> DEFINE Good == {k \in Nat : \E g : g = [s \in SUBSET (1..k) |-> Round(p, base, seq, g, s)]}
<1>1. 0 \in Good
  <2>1. [s \in SUBSET (1..0) |-> base] =
            [s \in SUBSET (1..0) |->
                Round(p, base, seq, [u \in SUBSET (1..0) |-> base], s)]
      BY DEF Round
  <2> QED
      BY <2>1
<1>2. ASSUME NEW k \in Nat, k \in Good
      PROVE  k + 1 \in Good
  <2>1. PICK g : g = [s \in SUBSET (1..k) |-> Round(p, base, seq, g, s)]
      BY <1>2
  <2>2. PICK h : h = [s \in SUBSET (1..(k + 1)) |-> Round(p, base, seq, g, s)]
      OBVIOUS
  <2>3. ASSUME NEW s \in SUBSET (1..(k + 1)), s # {}
        PROVE  s \ {Greatest(s)} \in SUBSET (1..k)
    <3>1. k + 1 \in Nat
        OBVIOUS
    <3>2. PICK m : m = Greatest(s)
        OBVIOUS
    <3>3. m \in s /\ \A y \in s : m >= y
        BY <2>3, <3>1, <3>2, MaxUpTo
    <3>4. s \ {m} \in SUBSET (1..k)
        BY <3>3
    <3> QED
        BY <3>2, <3>4
  <2>4. \A s \in SUBSET (1..k) : s \in SUBSET (1..(k + 1)) /\ h[s] = g[s]
    <3>1. \A s \in SUBSET (1..k) : s \in SUBSET (1..(k + 1))
        OBVIOUS
    <3>2. \A s \in SUBSET (1..k) : g[s] = Round(p, base, seq, g, s)
        BY <2>1
    <3> QED
        BY <2>2, <3>1, <3>2
  <2>5. \A s \in SUBSET (1..(k + 1)) : Round(p, base, seq, g, s) = Round(p, base, seq, h, s)
      BY <2>3, <2>4 DEF Round
  <2>6. h = [s \in SUBSET (1..(k + 1)) |-> Round(p, base, seq, h, s)]
      BY <2>2, <2>5
  <2> QED
      BY <2>6
<1> HIDE DEF Good
<1>3. n \in Good
    BY <1>1, <1>2, NatSetInduction
<1> QED
    BY <1>3 DEF Good, Rounds

LEMMA FoldIs ==
    ASSUME NEW p, NEW base, NEW seq, NEW n \in Nat, DOMAIN seq = 1..n
    PROVE  \E g : Rounds(p, base, seq, n, g) /\ Fold(p, base, seq) = g[1..n]
PROOF
<1> DEFINE iter == CHOOSE g : g = [s \in SUBSET (DOMAIN seq) |-> Round(p, base, seq, g, s)]
<1>1. Fold(p, base, seq) = iter[DOMAIN seq]
    BY DEF Fold, MapThenFoldSet, Round
<1>2. iter = [s \in SUBSET (DOMAIN seq) |-> Round(p, base, seq, iter, s)]
    BY RoundsExist DEF Rounds
<1> QED
    BY <1>1, <1>2 DEF Rounds

LEMMA FoldEmpty == \A p, base : Fold(p, base, << >>) = base
PROOF
<1> SUFFICES ASSUME NEW p, NEW base
             PROVE  Fold(p, base, << >>) = base
    OBVIOUS
<1>1. DOMAIN << >> = 1..0 /\ 1..0 = {} /\ 0 \in Nat
    OBVIOUS
<1>2. PICK g : Rounds(p, base, << >>, 0, g) /\ Fold(p, base, << >>) = g[1..0]
    BY <1>1, FoldIs
<1>3. g[1..0] = Round(p, base, << >>, g, 1..0)
    BY <1>2 DEF Rounds
<1> QED
    BY <1>1, <1>2, <1>3 DEF Round

LEMMA RoundUpTo ==
    ASSUME NEW p, NEW base, NEW seq, NEW n \in Nat, NEW k \in 1..n, NEW g,
           Rounds(p, base, seq, n, g)
    PROVE  g[1..k] = op(p, g[1..(k - 1)], seq[k])
PROOF
<1>1. k \in Nat /\ 1..k \in SUBSET (1..n) /\ 1..k # {} /\ 1..k \in SUBSET (1..k)
    OBVIOUS
<1>2. PICK m : m = Greatest(1..k)
    OBVIOUS
<1>3. m \in 1..k /\ \A y \in 1..k : m >= y
    BY <1>1, <1>2, MaxUpTo
<1>4. m = k
    BY <1>3
<1>5. (1..k) \ {k} = 1..(k - 1)
    OBVIOUS
<1>6. g[1..k] = Round(p, base, seq, g, 1..k)
    BY <1>1 DEF Rounds
<1> QED
    BY <1>1, <1>2, <1>4, <1>5, <1>6 DEF Round

LEMMA FoldAppend ==
    ASSUME NEW p, NEW base, NEW S, NEW seq \in Seq(S), NEW x \in S
    PROVE  Fold(p, base, Append(seq, x)) = op(p, Fold(p, base, seq), x)
PROOF
<1>1. PICK n \in Nat : n = Len(seq) /\ DOMAIN seq = 1..n
    OBVIOUS
<1>2. PICK long : long = Append(seq, x)
    OBVIOUS
<1>3. /\ n + 1 \in Nat /\ DOMAIN long = 1..(n + 1)
      /\ long[n + 1] = x /\ \A i \in 1..n : long[i] = seq[i]
    BY <1>1, <1>2
<1>4. PICK g : Rounds(p, base, seq, n, g) /\ Fold(p, base, seq) = g[1..n]
    BY <1>1, FoldIs
<1>5. PICK h : Rounds(p, base, long, n + 1, h) /\ Fold(p, base, long) = h[1..(n + 1)]
    BY <1>3, FoldIs
<1> DEFINE Good == {k \in Nat : k <= n => h[1..k] = g[1..k]}
<1>6. 0 \in Good
  <2>1. 1..0 = {}
      OBVIOUS
  <2>2. h[{}] = base /\ g[{}] = base
      BY <1>4, <1>5 DEF Round, Rounds
  <2> QED
      BY <2>1, <2>2
<1>7. ASSUME NEW k \in Nat, k \in Good
      PROVE  k + 1 \in Good
  <2> SUFFICES ASSUME k + 1 <= n
               PROVE  h[1..(k + 1)] = g[1..(k + 1)]
      OBVIOUS
  <2>1. k + 1 \in 1..n /\ k + 1 \in 1..(n + 1) /\ (k + 1) - 1 = k
      OBVIOUS
  <2>2. h[1..k] = g[1..k]
      BY <1>7
  <2>3. g[1..(k + 1)] = op(p, g[1..k], seq[k + 1])
      BY <1>1, <1>4, <2>1, RoundUpTo
  <2>4. h[1..(k + 1)] = op(p, h[1..k], long[k + 1])
      BY <1>3, <1>5, <2>1, RoundUpTo
  <2> QED
      BY <1>3, <2>1, <2>2, <2>3, <2>4
<1> HIDE DEF Good
<1>8. n \in Good
    BY <1>6, <1>7, NatSetInduction
<1>9. h[1..n] = g[1..n]
    BY <1>8 DEF Good
<1>10. h[1..(n + 1)] = op(p, h[1..n], long[n + 1])
  <2>1. n + 1 \in 1..(n + 1) /\ (n + 1) - 1 = n
      OBVIOUS
  <2> QED
      BY <1>3, <1>5, <2>1, RoundUpTo
<1> QED
    BY <1>2, <1>3, <1>4, <1>5, <1>9, <1>10
=============================================================================
