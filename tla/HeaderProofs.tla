---------------------------- MODULE HeaderProofs ----------------------------
(***************************************************************************)
(* Proofs about HeaderChain, and the facts about medians, windows and      *)
(* difficulties they rest on. Nothing bounds the chain, the clock or the   *)
(* window here.                                                            *)
(***************************************************************************)
EXTENDS HeaderChain, TLAPS, FiniteSetTheorems, SequenceTheorems

(* One round of Rebuilt.                                                   *)
Grown(p, c, ts) ==
    Append(c, [timestamp |-> ts, difficulty |-> expectedDifficulty(c)])

Growth == INSTANCE FoldLaws WITH op <- Grown

-----------------------------------------------------------------------------
(* The median of a window                                                  *)

Below(w, t) == {i \in DOMAIN w : w[i] < t}
UpTo(w, t)  == {i \in DOMAIN w : w[i] <= t}

IsMedian(w, m) ==
    /\ m \in {w[i] : i \in DOMAIN w}
    /\ Cardinality(Below(w, m)) <= Len(w) \div 2
    /\ Len(w) \div 2 < Cardinality(UpTo(w, m))

LEMMA Middle ==
    /\ \A n \in Nat : n # 0 => n \div 2 \in Nat /\ n \div 2 < n
    /\ \A n \in Nat : n \div 2 <= (n + 1) \div 2 /\ (n + 1) \div 2 < n \div 2 + 2
PROOF OBVIOUS

LEMMA CountsOf ==
    ASSUME NEW w \in Seq(Nat), NEW t
    PROVE  /\ IsFiniteSet(Below(w, t)) /\ Cardinality(Below(w, t)) \in Nat
           /\ IsFiniteSet(UpTo(w, t)) /\ Cardinality(UpTo(w, t)) \in Nat
PROOF
<1>1. Len(w) \in Nat /\ DOMAIN w = 1..Len(w)
    BY LenProperties
<1>2. IsFiniteSet(1..Len(w))
    BY <1>1, FS_Interval
<1>3. Below(w, t) \subseteq 1..Len(w) /\ UpTo(w, t) \subseteq 1..Len(w)
    BY <1>1 DEF Below, UpTo
<1> QED
    BY <1>2, <1>3, FS_Subset, FS_CardinalityType

LEMMA Bounded ==
    ASSUME NEW w \in Seq(Nat)
    PROVE  \E b \in Nat : \A i \in DOMAIN w : w[i] <= b
PROOF
<1>1. Len(w) \in Nat /\ DOMAIN w = 1..Len(w) /\ \A i \in 1..Len(w) : w[i] \in Nat
    BY LenProperties
<1> DEFINE Good == {k \in Nat : k <= Len(w) => \E b \in Nat : \A i \in 1..k : w[i] <= b}
<1>2. 0 \in Good
    OBVIOUS
<1>3. ASSUME NEW k \in Nat, k \in Good
      PROVE  k + 1 \in Good
  <2> SUFFICES ASSUME k + 1 <= Len(w)
               PROVE  \E b \in Nat : \A i \in 1..(k + 1) : w[i] <= b
      OBVIOUS
  <2>1. PICK b \in Nat : \A i \in 1..k : w[i] <= b
      BY <1>1, <1>3
  <2>2. w[k + 1] \in Nat
      BY <1>1
  <2>3. PICK c \in Nat : b <= c /\ w[k + 1] <= c
      BY <2>2
  <2>4. ASSUME NEW i \in 1..(k + 1)
        PROVE  w[i] <= c
    <3>1. CASE i = k + 1
        BY <2>3, <3>1
    <3>2. CASE i # k + 1
      <4>1. i \in 1..k /\ w[i] \in Nat
          BY <1>1, <3>2
      <4> QED
          BY <2>1, <2>3, <4>1
    <3> QED
        BY <3>1, <3>2
  <2> QED
      BY <2>4
<1> HIDE DEF Good
<1>4. Len(w) \in Good
    BY <1>1, <1>2, <1>3, Growth!NatSetInduction
<1> QED
    BY <1>1, <1>4 DEF Good

LEMMA MedianExists ==
    ASSUME NEW w \in Seq(Nat), w # << >>
    PROVE  \E m : IsMedian(w, m)
PROOF
<1>1. Len(w) \in Nat /\ Len(w) # 0 /\ DOMAIN w = 1..Len(w) /\ \A i \in 1..Len(w) : w[i] \in Nat
    BY LenProperties
<1>2. PICK half : half = Len(w) \div 2
    OBVIOUS
<1>3. half \in Nat /\ half < Len(w)
    BY <1>1, <1>2, Middle
<1> DEFINE High == {t \in Nat : half < Cardinality(UpTo(w, t))}
<1>4. \E t : t \in High
  <2>1. PICK b \in Nat : \A i \in DOMAIN w : w[i] <= b
      BY Bounded
  <2>2. UpTo(w, b) = 1..Len(w)
      BY <1>1, <2>1 DEF UpTo
  <2>3. Cardinality(1..Len(w)) = Len(w)
      BY <1>1, FS_Interval
  <2> QED
      BY <1>3, <2>2, <2>3
<1>5. PICK t \in High : \A k \in High : ~ (k < t)
    BY <1>4, Growth!Least
<1>6. t \in Nat /\ half < Cardinality(UpTo(w, t))
    OBVIOUS
<1>7. Cardinality(Below(w, t)) <= half
  <2>1. CASE t = 0
    <3>1. Below(w, t) = {}
        BY <1>1, <2>1 DEF Below
    <3> QED
        BY <1>3, <3>1, FS_EmptySet
  <2>2. CASE t # 0
    <3>1. t - 1 \in Nat /\ t - 1 < t
        BY <1>6, <2>2
    <3>2. Below(w, t) = UpTo(w, t - 1)
        BY <1>1, <1>6, <3>1 DEF Below, UpTo
    <3>3. ~ (half < Cardinality(UpTo(w, t - 1)))
        BY <1>5, <3>1
    <3> QED
        BY <1>3, <3>2, <3>3, CountsOf
  <2> QED
      BY <2>1, <2>2
<1>8. t \in {w[i] : i \in DOMAIN w}
  <2> SUFFICES ASSUME t \notin {w[i] : i \in DOMAIN w}
               PROVE  FALSE
      OBVIOUS
  <2>1. Below(w, t) = UpTo(w, t)
      BY <1>1, <1>6 DEF Below, UpTo
  <2> QED
      BY <1>3, <1>6, <1>7, <2>1, CountsOf
<1> QED
    BY <1>2, <1>6, <1>7, <1>8 DEF IsMedian

LEMMA MedianIsMedian ==
    ASSUME NEW w \in Seq(Nat), w # << >>
    PROVE  IsMedian(w, medianTimePast(w)) /\ medianTimePast(w) \in Nat
PROOF
<1>1. PICK m : IsMedian(w, m)
    BY MedianExists
<1>2. medianTimePast(w) = CHOOSE t \in {w[i] : i \in DOMAIN w} : IsMedian(w, t)
    BY DEF medianTimePast, IsMedian, Below, UpTo
<1>3. m \in {w[i] : i \in DOMAIN w}
    BY <1>1 DEF IsMedian
<1>4. IsMedian(w, medianTimePast(w))
    BY <1>1, <1>2, <1>3
<1>5. DOMAIN w = 1..Len(w) /\ \A i \in 1..Len(w) : w[i] \in Nat
    BY LenProperties
<1> QED
    BY <1>4, <1>5 DEF IsMedian

(* Positions moved back by d are as many.                                  *)
LEMMA Moved ==
    ASSUME NEW A, NEW B, IsFiniteSet(B), A \subseteq Int, NEW d \in Int,
           \A i \in A : i - d \in B
    PROVE  IsFiniteSet(A) /\ Cardinality(A) <= Cardinality(B)
PROOF
<1> DEFINE f == [i \in A |-> i - d]
<1>1. f \in Injection(A, B)
    BY DEF Injection, IsInjective
<1> QED
    BY <1>1, FS_Injection

(* The window v of the chain one block later: v holds what w held, less    *)
(* its first d entries, and then ts.                                       *)
Slides(w, v, ts, d) ==
    /\ v \in Seq(Nat)
    /\ Len(v) = Len(w) + 1 - d
    /\ \A i \in 1..(Len(w) - d) : v[i] = w[i + d]
    /\ v[Len(v)] = ts

LEMMA MedianSlides ==
    ASSUME NEW w \in Seq(Nat), w # << >>, NEW v, NEW ts \in Nat, NEW d \in {0, 1},
           Slides(w, v, ts, d), ts > medianTimePast(w)
    PROVE  /\ medianTimePast(w) <= medianTimePast(v)
           /\ medianTimePast(v) <= ts
PROOF
<1>1. PICK n \in Nat : n = Len(w) /\ n # 0 /\ DOMAIN w = 1..n /\ \A i \in 1..n : w[i] \in Nat
    BY LenProperties
<1>2. PICK k \in Nat : k = n + 1 - d /\ k # 0
    BY <1>1
<1>3. /\ v \in Seq(Nat) /\ Len(v) = k /\ DOMAIN v = 1..k /\ v # << >>
      /\ \A i \in 1..(n - d) : v[i] = w[i + d]
      /\ v[k] = ts
    BY <1>1, <1>2, LenProperties DEF Slides
<1>4. PICK m \in Nat : m = medianTimePast(w) /\ IsMedian(w, m)
    BY <1>1, MedianIsMedian
<1>5. PICK q \in Nat : q = medianTimePast(v) /\ IsMedian(v, q)
    BY <1>3, MedianIsMedian
<1>6. PICK half \in Nat, half1 \in Nat :
          half = n \div 2 /\ half1 = k \div 2 /\ half <= half1 /\ half1 < half + 2 - d
  <2>1. CASE d = 0
      BY <1>2, <2>1, Middle
  <2>2. CASE d = 1
      BY <1>1, <1>2, <2>2, Middle
  <2> QED
      BY <2>1, <2>2
<1>7. /\ Cardinality(Below(w, m)) <= half /\ half < Cardinality(UpTo(w, m))
      /\ Cardinality(Below(v, q)) <= half1 /\ half1 < Cardinality(UpTo(v, q))
    BY <1>1, <1>3, <1>4, <1>5, <1>6 DEF IsMedian
<1>8. ts > m
    BY <1>4
<1>9. m <= q
  <2> SUFFICES ASSUME q < m
               PROVE  FALSE
      OBVIOUS
  <2>1. \A i \in UpTo(v, q) : i - (-d) \in Below(w, m)
    <3>0. /\ UpTo(v, q) = {i \in 1..k : v[i] <= q}
          /\ Below(w, m) = {i \in 1..n : w[i] < m}
        BY <1>1, <1>3 DEF UpTo, Below
    <3> SUFFICES ASSUME NEW i \in UpTo(v, q)
                 PROVE  i - (-d) \in Below(w, m)
        OBVIOUS
    <3>1. i \in 1..k /\ v[i] <= q
        BY <3>0
    <3>2. i # k
        BY <1>3, <1>8, <3>1
    <3>3. i \in 1..(n - d) /\ i - (-d) = i + d
        BY <1>2, <3>1, <3>2
    <3>4. v[i] = w[i + d] /\ i + d \in 1..n
        BY <1>3, <3>3
    <3>5. i + d \in Below(w, m)
        BY <1>1, <3>0, <3>1, <3>4
    <3> QED
        BY <3>3, <3>5
  <2>2. UpTo(v, q) \subseteq Int
      BY <1>3 DEF UpTo
  <2>3. Cardinality(UpTo(v, q)) <= Cardinality(Below(w, m))
      BY <2>1, <2>2, CountsOf, Moved
  <2> QED
      BY <1>3, <1>6, <1>7, <2>3, CountsOf
<1>10. q <= ts
  <2> SUFFICES ASSUME ts < q
               PROVE  FALSE
      OBVIOUS
  <2>0. PICK Old : Old = IF d = 0 THEN UpTo(w, m) ELSE UpTo(w, m) \ {1}
      OBVIOUS
  <2>1. \A i \in Old : i - d \in Below(v, q) \ {k}
    <3> SUFFICES ASSUME NEW i \in Old
                 PROVE  i - d \in 1..k /\ v[i - d] < q /\ i - d # k
        BY <1>3 DEF Below
    <3>1. i \in 1..n /\ w[i] <= m /\ i > d
        BY <1>1, <2>0 DEF UpTo
    <3>2. i - d \in 1..(n - d) /\ (i - d) + d = i
        BY <3>1
    <3>3. v[i - d] = w[i]
        BY <1>3, <3>2
    <3> QED
        BY <1>1, <1>2, <1>8, <3>1, <3>2, <3>3
  <2>2. Old \subseteq Int
      BY <1>1, <2>0 DEF UpTo
  <2>3. k \in Below(v, q)
      BY <1>2, <1>3 DEF Below
  <2>4. /\ IsFiniteSet(Below(v, q) \ {k})
        /\ Cardinality(Below(v, q) \ {k}) = Cardinality(Below(v, q)) - 1
      BY <1>3, <2>3, CountsOf, FS_RemoveElement
  <2>5. Cardinality(Old) <= Cardinality(Below(v, q)) - 1
    <3>1. d \in Int
        OBVIOUS
    <3>2. Cardinality(Old) <= Cardinality(Below(v, q) \ {k})
        BY <2>1, <2>2, <2>4, <3>1, Moved
    <3> QED
        BY <2>4, <3>2
  <2>6. Cardinality(Old) \in Int /\ Cardinality(Old) >= Cardinality(UpTo(w, m)) - d
    <3>1. IsFiniteSet(UpTo(w, m)) /\ Cardinality(UpTo(w, m)) \in Nat
        BY CountsOf
    <3>2. CASE d = 0
        BY <2>0, <3>1, <3>2
    <3>3. CASE d = 1
      <4>1. Old = UpTo(w, m) \ {1}
          BY <2>0, <3>3
      <4>2. Cardinality(UpTo(w, m) \ {1}) =
                IF 1 \in UpTo(w, m) THEN Cardinality(UpTo(w, m)) - 1
                ELSE Cardinality(UpTo(w, m))
          BY <3>1, FS_RemoveElement
      <4> QED
          BY <3>1, <3>3, <4>1, <4>2
    <3>4. d = 0 \/ d = 1
        OBVIOUS
    <3> QED
        BY ONLY <3>2, <3>3, <3>4
  <2>7. Cardinality(UpTo(w, m)) \in Nat /\ Cardinality(Below(v, q)) \in Nat
      BY <1>3, CountsOf
  <2>8. d \in Int
      OBVIOUS
  <2> QED
      BY ONLY <1>6, <1>7, <2>5, <2>6, <2>7, <2>8
<1> QED
    BY <1>4, <1>5, <1>9, <1>10

-----------------------------------------------------------------------------
(* Windows of a chain                                                      *)

First(n) == IF n > MEDIAN_TIME_BLOCKS THEN n - MEDIAN_TIME_BLOCKS + 1 ELSE 1

LEMMA FirstIs ==
    ASSUME NEW n \in Nat, n # 0
    PROVE  /\ First(n) \in 1..n
           /\ First(n + 1) = First(n) \/ First(n + 1) = First(n) + 1
PROOF
<1>1. PICK M \in Nat : M = MEDIAN_TIME_BLOCKS /\ M # 0
    BY HeadersAssumption
<1>2. CASE n > M
    BY <1>1, <1>2 DEF First
<1>3. CASE n = M
    BY <1>1, <1>3 DEF First
<1>4. CASE n < M
    BY <1>1, <1>4 DEF First
<1> QED
    BY <1>1, <1>2, <1>3, <1>4

LEMMA WindowEntries ==
    ASSUME NEW S, NEW c \in Seq(S), c # << >>, \A b \in S : b.timestamp \in Nat,
           NEW first \in Nat, first = First(Len(c))
    PROVE  /\ first \in 1..Len(c)
           /\ Window(c) \in Seq(Nat)
           /\ Len(Window(c)) = Len(c) - first + 1
           /\ \A i \in 1..(Len(c) - first + 1) : Window(c)[i] = c[first + i - 1].timestamp
PROOF
<1>1. PICK n \in Nat : n = Len(c) /\ n # 0 /\ \A i \in 1..n : c[i] \in S
    BY LenProperties
<1>2. first = First(n)
    BY <1>1
<1>3. first \in 1..n
    BY <1>1, <1>2, FirstIs
<1>4. PICK k \in Nat : k = n - first + 1
    BY <1>1, <1>3
<1>5. Window(c) = [i \in 1..k |-> c[first + i - 1].timestamp]
    BY <1>1, <1>2, <1>4 DEF Window, First
<1>6. \A i \in 1..k : first + i - 1 \in 1..n
    BY <1>3, <1>4
<1>7. \A i \in 1..k : c[first + i - 1].timestamp \in Nat
    BY <1>1, <1>6
<1>8. Window(c) \in Seq(Nat) /\ Len(Window(c)) = k
    BY <1>5, <1>7
<1> QED
    BY <1>1, <1>3, <1>4, <1>5, <1>8

LEMMA WindowOf ==
    ASSUME NEW S, NEW c \in Seq(S), c # << >>, \A b \in S : b.timestamp \in Nat
    PROVE  /\ Window(c) \in Seq(Nat) /\ Window(c) # << >>
           /\ medianTimePast(Window(c)) \in Nat
PROOF
<1>1. Len(c) \in Nat /\ Len(c) # 0
    BY LenProperties
<1>2. PICK first \in 1..Len(c) : first = First(Len(c))
    BY <1>1, FirstIs
<1>3. Window(c) \in Seq(Nat) /\ Len(Window(c)) = Len(c) - first + 1
    BY <1>1, <1>2, WindowEntries
<1>4. Window(c) # << >>
    BY <1>1, <1>3
<1> QED
    BY <1>3, <1>4, MedianIsMedian

LEMMA WindowSlides ==
    ASSUME NEW S, NEW c \in Seq(S), c # << >>, \A b \in S : b.timestamp \in Nat,
           NEW x \in S
    PROVE  \E d \in {0, 1} : Slides(Window(c), Window(Append(c, x)), x.timestamp, d)
PROOF
<1>1. PICK n \in Nat : n = Len(c) /\ n # 0
    BY LenProperties
<1>3. PICK long \in Seq(S) : long = Append(c, x)
    BY AppendProperties
<1>4. /\ Len(long) = n + 1 /\ long # << >>
      /\ long[n + 1] = x /\ \A i \in 1..n : long[i] = c[i]
    BY <1>1, <1>3, AppendProperties
<1>5. PICK a \in 1..n : a = First(n) /\ a \in Nat
    BY <1>1, FirstIs
<1>6. PICK b \in 1..(n + 1) : b = First(n + 1) /\ b \in Nat
  <2>1. n + 1 \in Nat /\ n + 1 # 0
      BY <1>1
  <2> QED
      BY <2>1, FirstIs
<1>7. /\ a \in 1..n
      /\ Len(Window(c)) = n - a + 1
      /\ \A i \in 1..(n - a + 1) : Window(c)[i] = c[a + i - 1].timestamp
  <2>1. a = First(Len(c))
      BY <1>1, <1>5
  <2>2. Len(Window(c)) = Len(c) - a + 1 /\
            \A i \in 1..(Len(c) - a + 1) : Window(c)[i] = c[a + i - 1].timestamp
      BY <1>5, <2>1, WindowEntries
  <2> QED
      BY <1>1, <1>5, <2>2
<1>8. /\ b \in 1..(n + 1)
      /\ Window(long) \in Seq(Nat)
      /\ Len(Window(long)) = (n + 1) - b + 1
      /\ \A i \in 1..((n + 1) - b + 1) : Window(long)[i] = long[b + i - 1].timestamp
  <2>1. b = First(Len(long))
      BY <1>4, <1>6
  <2>2. /\ Window(long) \in Seq(Nat)
        /\ Len(Window(long)) = Len(long) - b + 1
        /\ \A i \in 1..(Len(long) - b + 1) : Window(long)[i] = long[b + i - 1].timestamp
      BY <1>4, <1>6, <2>1, WindowEntries
  <2> QED
      BY <1>4, <1>6, <2>2
<1>9. PICK d \in {0, 1} : d = b - a
  <2>1. b = a \/ b = a + 1
      BY <1>1, <1>5, <1>6, FirstIs
  <2> QED
      BY <1>5, <2>1
<1>10. Len(Window(long)) = Len(Window(c)) + 1 - d
    BY <1>7, <1>8, <1>9
<1>11. ASSUME NEW i \in 1..(Len(Window(c)) - d)
       PROVE  Window(long)[i] = Window(c)[i + d]
  <2>1. /\ i \in 1..((n + 1) - b + 1) /\ i + d \in 1..(n - a + 1)
        /\ b + i - 1 = a + (i + d) - 1 /\ b + i - 1 \in 1..n
      BY <1>1, <1>7, <1>8, <1>9
  <2> QED
      BY <1>4, <1>7, <1>8, <2>1
<1>12. Window(long)[Len(Window(long))] = x.timestamp
  <2>1. (n + 1) - b + 1 \in 1..((n + 1) - b + 1) /\ b + ((n + 1) - b + 1) - 1 = n + 1
      BY <1>1, <1>8
  <2> QED
      BY <1>4, <1>8, <2>1
<1> QED
    BY <1>3, <1>8, <1>10, <1>11, <1>12 DEF Slides

(* A block later than the median moves it up, and not past its own time.   *)
LEMMA MedianMoves ==
    ASSUME NEW S, NEW c \in Seq(S), c # << >>, \A b \in S : b.timestamp \in Nat,
           NEW x \in S, x.timestamp > medianTimePast(Window(c))
    PROVE  /\ medianTimePast(Window(c)) <= medianTimePast(Window(Append(c, x)))
           /\ medianTimePast(Window(Append(c, x))) <= x.timestamp
PROOF
<1>1. PICK d \in {0, 1} : Slides(Window(c), Window(Append(c, x)), x.timestamp, d)
    BY WindowSlides
<1>2. Window(c) \in Seq(Nat) /\ Window(c) # << >>
    BY WindowOf
<1>3. x.timestamp \in Nat
    OBVIOUS
<1> QED
    BY <1>1, <1>2, <1>3, MedianSlides

-----------------------------------------------------------------------------
(* Difficulty                                                              *)

LEMMA ClampInLimits ==
    ASSUME NEW d \in Int
    PROVE  Clamp(d) \in MIN_DIFFICULTY..MAX_DIFFICULTY
PROOF
BY HeadersAssumption DEF Clamp

(* Clamping brings two difficulties no further apart.                      *)
LEMMA ClampContracts ==
    ASSUME NEW d \in Int, NEW e \in Int, d <= e
    PROVE  Clamp(d) <= Clamp(e) /\ Clamp(e) - Clamp(d) <= e - d
PROOF
BY HeadersAssumption DEF Clamp

(* What one retarget adds.                                                 *)
Shift(actual, expected) ==
    (IF actual <= 0 \/ 2 * actual < expected THEN 1 ELSE 0)
      - (IF actual > 2 * expected THEN 1 ELSE 0)

LEMMA ShiftIsOneBit ==
    ASSUME NEW actual, NEW expected
    PROVE  Shift(actual, expected) \in -1..1
PROOF
BY DEF Shift

LEMMA RetargetedIs ==
    ASSUME NEW d \in Int, NEW actual, NEW expected
    PROVE  Retargeted(d, actual, expected) = Clamp(d + Shift(actual, expected))
PROOF
<1>1. PICK up \in {0, 1} : up = IF actual <= 0 \/ 2 * actual < expected THEN 1 ELSE 0
    OBVIOUS
<1>2. PICK down \in {0, 1} : down = IF actual > 2 * expected THEN 1 ELSE 0
    OBVIOUS
<1>3. d + up - down = d + (up - down)
    OBVIOUS
<1> QED
    BY <1>1, <1>2, <1>3 DEF Retargeted, Shift

(* expectedDifficulty, for the block that follows the k-th of c.           *)
NextDifficulty(c, k) ==
    IF k % DIFFICULTY_ADJUST_INTERVAL # 0 \/ k = DIFFICULTY_ADJUST_INTERVAL
    THEN c[k].difficulty
    ELSE Retargeted(c[k].difficulty,
                    c[k].timestamp - c[k - DIFFICULTY_ADJUST_INTERVAL + 1].timestamp,
                    DIFFICULTY_ADJUST_INTERVAL * TARGET_BLOCK_TIME_MS)

LEMMA ExpectedIsNext ==
    ASSUME NEW c
    PROVE  expectedDifficulty(c) = NextDifficulty(c, Len(c))
PROOF
BY DEF expectedDifficulty, NextDifficulty, Last

Limits == MIN_DIFFICULTY..MAX_DIFFICULTY

LEMMA NextInLimits ==
    ASSUME NEW c, NEW k, c[k].difficulty \in Limits
    PROVE  NextDifficulty(c, k) \in Limits
PROOF
<1>1. c[k].difficulty \in Int
    BY HeadersAssumption DEF Limits
<1> DEFINE actual == c[k].timestamp - c[k - DIFFICULTY_ADJUST_INTERVAL + 1].timestamp
           expected == DIFFICULTY_ADJUST_INTERVAL * TARGET_BLOCK_TIME_MS
<1>2. c[k].difficulty + Shift(actual, expected) \in Int
    BY <1>1, ShiftIsOneBit
<1>3. Retargeted(c[k].difficulty, actual, expected) \in Limits
    BY <1>1, <1>2, RetargetedIs, ClampInLimits DEF Limits
<1> QED
    BY <1>3 DEF NextDifficulty

LEMMA Multiples ==
    ASSUME NEW I \in Nat \ {0}
    PROVE  /\ \A k \in Nat : k % I = 0 => k = (k \div I) * I /\ k \div I \in Nat
           /\ \A k \in Nat : k % I = 0 /\ k # 0 => I <= k
           /\ \A a, b \in Nat : a * I < b * I => a * I + I <= b * I
PROOF
<1>1. \A k \in Nat : k % I = 0 => k = (k \div I) * I /\ k \div I \in Nat
    OBVIOUS
<1>2. \A k \in Nat : k < I => k % I = k
    OBVIOUS
<1>3. ASSUME NEW a \in Nat, NEW b \in Nat, a * I < b * I
      PROVE  a * I + I <= b * I
  <2>1. a < b
    <3> SUFFICES ASSUME b <= a
                 PROVE  FALSE
        OBVIOUS
    <3>1. PICK e \in Nat : a = b + e
        BY b <= a
    <3>2. (b + e) * I = b * I + e * I /\ e * I \in Nat /\ b * I \in Nat
        OBVIOUS
    <3> QED
        BY <1>3, <3>1, <3>2
  <2>2. PICK e \in Nat : b = a + 1 + e
      BY <2>1
  <2>3. (a + 1 + e) * I = a * I + I + e * I /\ e * I \in Nat /\ a * I \in Nat
      OBVIOUS
  <2> QED
      BY <2>2, <2>3
<1> QED
    BY <1>1, <1>2, <1>3

LEMMA NextLooksBack ==
    ASSUME NEW c, NEW e, NEW k \in Nat \ {0}, \A i \in 1..k : e[i] = c[i]
    PROVE  NextDifficulty(e, k) = NextDifficulty(c, k)
PROOF
<1>1. PICK I \in Nat \ {0} : I = DIFFICULTY_ADJUST_INTERVAL
    BY HeadersAssumption
<1>2. k \in 1..k
    OBVIOUS
<1>3. CASE k % I # 0 \/ k = I
    BY <1>1, <1>2, <1>3 DEF NextDifficulty
<1>4. CASE k % I = 0 /\ k # I
  <2>1. I <= k
      BY <1>4, Multiples
  <2>2. k - I + 1 \in 1..k
      BY <2>1
  <2> QED
      BY <1>1, <1>2, <1>4, <2>2 DEF NextDifficulty
<1> QED
    BY <1>3, <1>4

-----------------------------------------------------------------------------
(* Work                                                                    *)

(* A table of the powers of two up to n.                                   *)
Powers(n, g) == g = [d \in 0..n |-> IF d = 0 THEN 1 ELSE 2 * g[d - 1]]

(* One round of totalWork.                                                 *)
Weighed(p, sum, b) == sum + blockWork(b)

Weight == INSTANCE FoldLaws WITH op <- Weighed

LEMMA PowersGrow ==
    ASSUME NEW n \in Nat, NEW g, Powers(n, g)
    PROVE  \E h : Powers(n + 1, h) /\ \A d \in 0..n : h[d] = g[d]
PROOF
<1>1. PICK h : h = [d \in 0..(n + 1) |-> IF d = n + 1 THEN 2 * g[n] ELSE g[d]]
    OBVIOUS
<1>2. \A d \in 0..n : h[d] = g[d]
    BY <1>1
<1>3. ASSUME NEW d \in 0..(n + 1)
      PROVE  h[d] = IF d = 0 THEN 1 ELSE 2 * h[d - 1]
  <2>1. CASE d = n + 1
    <3>1. n \in 0..n /\ d - 1 = n /\ d # 0
        BY <2>1
    <3> QED
        BY <1>1, <1>2, <2>1, <3>1
  <2>2. CASE d # n + 1
    <3>1. d \in 0..n /\ (d # 0 => d - 1 \in 0..n)
        BY <2>2
    <3> QED
        BY <1>2, <3>1 DEF Powers
  <2> QED
      BY <2>1, <2>2
<1>4. h = [d \in 0..(n + 1) |-> IF d = 0 THEN 1 ELSE 2 * h[d - 1]]
    BY <1>1, <1>3
<1> QED
    BY <1>2, <1>4 DEF Powers

LEMMA PowersExist == \A n \in Nat : \E g : Powers(n, g)
PROOF
<1> DEFINE Good == {n \in Nat : \E g : Powers(n, g)}
<1>1. 0 \in Good
  <2>1. [d \in 0..0 |-> 1] = [d \in 0..0 |-> IF d = 0 THEN 1 ELSE 2 * [e \in 0..0 |-> 1][d - 1]]
      OBVIOUS
  <2> QED
      BY <2>1 DEF Powers
<1>2. ASSUME NEW n \in Nat, n \in Good
      PROVE  n + 1 \in Good
    BY <1>2, PowersGrow
<1> HIDE DEF Good
<1>3. Nat \subseteq Good
    BY <1>1, <1>2, Weight!NatSetInduction
<1> QED
    BY <1>3 DEF Good

(* Two tables agree where both are defined.                                *)
LEMMA PowersAgree ==
    ASSUME NEW n \in Nat, NEW k \in Nat, n <= k, NEW g, NEW h, Powers(n, g), Powers(k, h)
    PROVE  \A d \in 0..n : h[d] = g[d]
PROOF
<1> DEFINE Good == {d \in Nat : d <= n => h[d] = g[d]}
<1>1. 0 \in Good
  <2>1. 0 \in 0..n /\ 0 \in 0..k
      OBVIOUS
  <2> QED
      BY <2>1 DEF Powers
<1>2. ASSUME NEW d \in Nat, d \in Good
      PROVE  d + 1 \in Good
  <2> SUFFICES ASSUME d + 1 <= n
               PROVE  h[d + 1] = g[d + 1]
      OBVIOUS
  <2>1. d + 1 \in 0..n /\ d + 1 \in 0..k /\ d + 1 # 0 /\ (d + 1) - 1 = d
      OBVIOUS
  <2>2. h[d + 1] = 2 * h[d] /\ g[d + 1] = 2 * g[d]
      BY <2>1 DEF Powers
  <2> QED
      BY <1>2, <2>2
<1> HIDE DEF Good
<1>3. Nat \subseteq Good
    BY <1>1, <1>2, Weight!NatSetInduction
<1> QED
    BY <1>3 DEF Good

LEMMA PowerOfTwoIs ==
    PowerOfTwo = [d \in Nat |-> IF d = 0 THEN 1 ELSE 2 * PowerOfTwo[d - 1]]
PROOF
<1> DEFINE table(n) == CHOOSE g : Powers(n, g)
<1>0. PICK f : f = [n \in Nat |-> table(n)[n]]
    OBVIOUS
<1>1. \A n \in Nat : Powers(n, table(n))
    BY PowersExist
<1>2. ASSUME NEW d \in Nat
      PROVE  f[d] = IF d = 0 THEN 1 ELSE 2 * f[d - 1]
  <2>0. \A n \in Nat : f[n] = table(n)[n]
      BY <1>0
  <2> HIDE DEF table
  <2>1. Powers(d, table(d)) /\ d \in 0..d
      BY <1>1
  <2>2. CASE d = 0
      BY <2>0, <2>1, <2>2 DEF Powers
  <2>3. CASE d # 0
    <3>1. PICK e \in Nat : e = d - 1
        BY <2>3
    <3>2. Powers(e, table(e)) /\ e <= d /\ e \in 0..e
        BY <1>1, <3>1
    <3>3. table(d)[e] = table(e)[e]
        BY <2>1, <3>2, PowersAgree
    <3>4. table(d)[d] = 2 * table(d)[e]
        BY <2>1, <2>3, <3>1 DEF Powers
    <3> QED
        BY <2>0, <2>3, <3>1, <3>3, <3>4
  <2> QED
      BY <2>2, <2>3
<1> HIDE DEF table
<1>3. f = [d \in Nat |-> IF d = 0 THEN 1 ELSE 2 * f[d - 1]]
    BY <1>0, <1>2
<1> QED
    BY <1>3 DEF PowerOfTwo

LEMMA PowerOfTwoType == \A d \in Nat : PowerOfTwo[d] \in Nat \ {0}
PROOF
<1> DEFINE Good == {d \in Nat : PowerOfTwo[d] \in Nat \ {0}}
<1>1. 0 \in Good
    BY PowerOfTwoIs
<1>2. ASSUME NEW d \in Nat, d \in Good
      PROVE  d + 1 \in Good
  <2>1. d + 1 \in Nat /\ d + 1 # 0 /\ (d + 1) - 1 = d
      OBVIOUS
  <2>2. PowerOfTwo[d + 1] = 2 * PowerOfTwo[d]
      BY <2>1, PowerOfTwoIs
  <2> QED
      BY <1>2, <2>2
<1> HIDE DEF Good
<1>3. Nat \subseteq Good
    BY <1>1, <1>2, Weight!NatSetInduction
<1> QED
    BY <1>3 DEF Good

LEMMA WorkIsFold == \A c : totalWork(c) = Weight!Fold(0, 0, c)
PROOF
BY DEF totalWork, Weighed, Weight!Fold, FoldLeft,
       MapThenFoldSet, Weight!MapThenFoldSet, Max, Weight!Greatest

LEMMA WorkOfNone == totalWork(<< >>) = 0
PROOF
BY WorkIsFold, Weight!FoldEmpty

LEMMA WorkOfAppend ==
    ASSUME NEW S, NEW c \in Seq(S), NEW b \in S
    PROVE  totalWork(Append(c, b)) = totalWork(c) + blockWork(b)
PROOF
BY WorkIsFold, Weight!FoldAppend DEF Weighed

(* Blocks of one difficulty weigh the same.                                *)
LEMMA WorkOfEven ==
    ASSUME NEW S, NEW c \in Seq(S), NEW d \in Nat, \A b \in S : b.difficulty = d
    PROVE  totalWork(c) = Len(c) * PowerOfTwo[d]
PROOF
<1>1. PICK w \in Nat : w = PowerOfTwo[d]
    BY PowerOfTwoType
<1>2. \A b \in S : blockWork(b) = w
    BY <1>1 DEF blockWork
<1> DEFINE Good == {e \in Seq(S) : totalWork(e) = Len(e) * w}
<1>3. << >> \in Good
    BY WorkOfNone
<1>4. ASSUME NEW e \in Seq(S), NEW b \in S, e \in Good
      PROVE  Append(e, b) \in Good
  <2>1. PICK n \in Nat : n = Len(e)
      BY LenProperties
  <2>2. Append(e, b) \in Seq(S) /\ Len(Append(e, b)) = n + 1
      BY <2>1, AppendProperties
  <2>3. totalWork(Append(e, b)) = n * w + w
      BY <1>2, <1>4, <2>1, WorkOfAppend
  <2>4. (n + 1) * w = n * w + w
      OBVIOUS
  <2> QED
      BY <2>2, <2>3, <2>4
<1> HIDE DEF Good
<1>5. Seq(S) \subseteq Good
    BY <1>3, <1>4, Weight!SeqSetInduction
<1> QED
    BY <1>1, <1>5 DEF Good

-----------------------------------------------------------------------------
(* The header of the next block                                            *)

LEMMA LastOf ==
    ASSUME NEW S, NEW c \in Seq(S), c # << >>
    PROVE  Last(c) \in S /\ Last(c) = c[Len(c)]
PROOF
BY LenProperties DEF Last

LEMMA MaxOfThree ==
    ASSUME NEW a \in Int, NEW b \in Int, NEW c \in Int
    PROVE  /\ Max({a, b, c}) \in {a, b, c}
           /\ Max({a, b, c}) >= a /\ Max({a, b, c}) >= b /\ Max({a, b, c}) >= c
PROOF
<1>1. \E x \in {a, b, c} : \A y \in {a, b, c} : x >= y
    OBVIOUS
<1> QED
    BY <1>1 DEF Max

LEMMA CandidateTimeType ==
    ASSUME NEW S, NEW c \in Seq(S), c # << >>, \A b \in S : b.timestamp \in Nat,
           NEW t \in Nat
    PROVE  CandidateTime(c, t) \in Nat
PROOF
<1>1. PICK m \in Nat : m = medianTimePast(Window(c)) + 1
    BY WindowOf
<1>2. PICK l \in Nat : l = Last(c).timestamp + 1
    BY LastOf
<1>3. t \in Int /\ m \in Int /\ l \in Int
    OBVIOUS
<1>4. Max({t, m, l}) \in {t, m, l}
    BY <1>3, MaxOfThree
<1> QED
    BY <1>1, <1>2, <1>4 DEF CandidateTime

LEMMA ExpectedType ==
    ASSUME NEW S, NEW c \in Seq(S), c # << >>, \A b \in S : b.difficulty \in Nat
    PROVE  expectedDifficulty(c) \in Limits \cup {Last(c).difficulty}
PROOF
<1>1. PICK d \in Nat : d = c[Len(c)].difficulty /\ d = Last(c).difficulty
    BY LastOf
<1>2. ASSUME NEW x, NEW y
      PROVE  Retargeted(d, x, y) \in Limits
  <2>1. PICK k \in -1..1 : k = Shift(x, y)
      BY ShiftIsOneBit
  <2>2. Retargeted(d, x, y) = Clamp(d + k)
      BY <2>1, RetargetedIs
  <2>3. d + k \in Int
      BY <2>1
  <2> QED
      BY <2>2, <2>3, ClampInLimits DEF Limits
<1> QED
    BY <1>1, <1>2, ExpectedIsNext DEF NextDifficulty

-----------------------------------------------------------------------------
(* The invariant                                                           *)

HeaderRecords == [timestamp : Nat, difficulty : Limits] \cup {genesisBlock}

(* Every difficulty is the one the blocks before call for, and the median  *)
(* has not overtaken the tip.                                              *)
HeaderInv ==
    /\ chain \in Seq(HeaderRecords) /\ chain # << >>
    /\ chain[1] = genesisBlock
    /\ now \in Nat
    /\ medianTimePast(Window(chain)) <= Last(chain).timestamp
    /\ \A k \in 1..(Len(chain) - 1) : chain[k + 1].difficulty = NextDifficulty(chain, k)

LEMMA RecordFields ==
    \A b \in HeaderRecords : b.timestamp \in Nat /\ b.difficulty \in Limits
PROOF
BY HeadersAssumption DEF HeaderRecords, genesisBlock, Limits

LEMMA HeaderInitInv == HeaderInit => HeaderInv
PROOF
<1> SUFFICES ASSUME HeaderInit
             PROVE  HeaderInv
    OBVIOUS
<1>1. chain = <<genesisBlock>> /\ now = 0
    BY DEF HeaderInit
<1>2. genesisBlock \in HeaderRecords /\ genesisBlock.timestamp = 0
    BY DEF HeaderRecords, genesisBlock
<1>3. chain \in Seq(HeaderRecords) /\ chain # << >> /\ Len(chain) = 1 /\ chain[1] = genesisBlock
    BY <1>1, <1>2
<1>4. medianTimePast(Window(chain)) = 0
  <2>1. IsMedian(Window(chain), medianTimePast(Window(chain)))
      BY <1>3, RecordFields, WindowOf, MedianIsMedian
  <2>2. First(1) = 1
      BY FirstIs
  <2>3. /\ Window(chain) \in Seq(Nat) /\ Len(Window(chain)) = 1
        /\ \A i \in 1..1 : Window(chain)[i] = chain[1 + i - 1].timestamp
    <3>1. PICK first \in Nat : first = First(Len(chain)) /\ first = 1
        BY <1>3, <2>2
    <3>2. /\ Window(chain) \in Seq(Nat) /\ Len(Window(chain)) = Len(chain) - first + 1
          /\ \A i \in 1..(Len(chain) - first + 1) :
                Window(chain)[i] = chain[first + i - 1].timestamp
        BY <1>3, <3>1, RecordFields, WindowEntries
    <3> QED
        BY <1>3, <3>1, <3>2
  <2>4. DOMAIN Window(chain) = 1..1 /\ Window(chain)[1] = 0
      BY <1>2, <1>3, <2>3, LenProperties
  <2> QED
      BY <2>1, <2>4 DEF IsMedian
<1>5. Last(chain).timestamp = 0
    BY <1>2, <1>3, LastOf
<1> QED
    BY <1>1, <1>3, <1>4, <1>5 DEF HeaderInv

LEMMA CandidateTimeIs ==
    ASSUME HeaderInv
    PROVE  /\ CandidateTime(chain, now) \in Nat
           /\ medianTimePast(Window(chain)) \in Nat /\ Last(chain).timestamp \in Nat
           /\ CandidateTime(chain, now) > medianTimePast(Window(chain))
           /\ CandidateTime(chain, now) \in
                  {now, medianTimePast(Window(chain)) + 1, Last(chain).timestamp + 1}
PROOF
<1>1. now \in Nat /\ medianTimePast(Window(chain)) \in Nat /\ Last(chain).timestamp \in Nat
    BY RecordFields, WindowOf, LastOf DEF HeaderInv
<1>2. PICK m \in Nat, l \in Nat :
          m = medianTimePast(Window(chain)) /\ l = Last(chain).timestamp
    BY <1>1
<1>3. CandidateTime(chain, now) = Max({now, m + 1, l + 1})
    BY <1>2 DEF CandidateTime
<1>4. PICK t : t = Max({now, m + 1, l + 1})
    OBVIOUS
<1>5. t \in {now, m + 1, l + 1} /\ t >= m + 1
  <2>1. PICK b \in Int, c \in Int : b = m + 1 /\ c = l + 1
      OBVIOUS
  <2>2. t = Max({now, b, c}) /\ now \in Int
      BY <1>1, <1>4, <2>1
  <2>3. t \in {now, b, c} /\ t >= b
      BY <2>1, <2>2, MaxOfThree
  <2> QED
      BY <2>1, <2>3
<1>6. t \in Nat /\ t > m
    BY <1>1, <1>5
<1> QED
    BY <1>1, <1>2, <1>3, <1>4, <1>5, <1>6

LEMMA ExtendInv ==
    ASSUME HeaderInv, NEW ts \in Nat, Extend(ts)
    PROVE  /\ HeaderInv'
           /\ medianTimePast(Window(chain')) >= medianTimePast(Window(chain))
PROOF
<1>1. /\ chain \in Seq(HeaderRecords) /\ chain # << >> /\ chain[1] = genesisBlock
      /\ now \in Nat
      /\ \A k \in 1..(Len(chain) - 1) : chain[k + 1].difficulty = NextDifficulty(chain, k)
    BY DEF HeaderInv
<1>2. PICK n \in Nat : n = Len(chain) /\ n # 0
    BY <1>1, LenProperties
<1>3. PICK x : x = Header(ts)
    OBVIOUS
<1>4. chain' = Append(chain, x) /\ now' = now /\ ts > medianTimePast(Window(chain))
    BY <1>3 DEF Extend, InTime
<1>5. x.timestamp = ts /\ x.difficulty = NextDifficulty(chain, n)
    BY <1>2, <1>3, ExpectedIsNext DEF Header
<1>6. x \in HeaderRecords
  <2>1. chain[n] \in HeaderRecords
      BY <1>1, <1>2, LenProperties
  <2>2. x.difficulty \in Limits
      BY <1>5, <2>1, RecordFields, NextInLimits
  <2> QED
      BY <1>3, <1>5, <2>2 DEF HeaderRecords, Header
<1>7. /\ chain' \in Seq(HeaderRecords) /\ chain' # << >> /\ Len(chain') = n + 1
      /\ chain'[n + 1] = x /\ \A i \in 1..n : chain'[i] = chain[i]
    BY <1>1, <1>2, <1>4, <1>6, AppendProperties
<1>8. /\ medianTimePast(Window(chain)) <= medianTimePast(Window(chain'))
      /\ medianTimePast(Window(chain')) <= ts
    BY <1>1, <1>4, <1>5, <1>6, RecordFields, MedianMoves
<1>9. Last(chain').timestamp = ts
    BY <1>5, <1>7 DEF Last
<1>10. ASSUME NEW k \in 1..n
       PROVE  chain'[k + 1].difficulty = NextDifficulty(chain', k)
  <2>1. k \in Nat \ {0} /\ \A i \in 1..k : chain'[i] = chain[i]
      BY <1>7
  <2>2. NextDifficulty(chain', k) = NextDifficulty(chain, k)
      BY <2>1, NextLooksBack
  <2>3. CASE k = n
      BY <1>5, <1>7, <2>2, <2>3
  <2>4. CASE k # n
    <3>1. k \in 1..(n - 1) /\ k + 1 \in 1..n
        BY <2>4
    <3> QED
        BY <1>1, <1>2, <1>7, <2>2, <3>1
  <2> QED
      BY <2>3, <2>4
<1>11. medianTimePast(Window(chain)) \in Nat /\ medianTimePast(Window(chain')) \in Nat
    BY <1>1, <1>7, RecordFields, WindowOf
<1>12. chain'[1] = genesisBlock /\ (n + 1) - 1 = n
    BY <1>1, <1>2, <1>7
<1> QED
    BY <1>1, <1>4, <1>7, <1>8, <1>9, <1>10, <1>11, <1>12 DEF HeaderInv

LEMMA HeaderStep ==
    ASSUME HeaderInv, [HeaderNext]_headerVars
    PROVE  /\ HeaderInv'
           /\ medianTimePast(Window(chain')) >= medianTimePast(Window(chain))
PROOF
<1>1. medianTimePast(Window(chain)) \in Nat
    BY RecordFields, WindowOf DEF HeaderInv
<1>2. CASE MineHonestly
    BY <1>2, CandidateTimeIs, ExtendInv DEF MineHonestly
<1>3. CASE MineAtWill
  <2>1. MaxTime + MAX_FUTURE_DRIFT_MS \in Nat
      BY HeadersAssumption, HeaderChainAssumption
  <2>2. PICK ts \in 1..(MaxTime + MAX_FUTURE_DRIFT_MS) : Extend(ts)
      BY <1>3 DEF MineAtWill
  <2> QED
      BY <2>1, <2>2, ExtendInv
<1>4. CASE Tick
    BY <1>1, <1>4 DEF Tick, HeaderInv
<1>5. CASE UNCHANGED headerVars
    BY <1>1, <1>5 DEF headerVars, HeaderInv
<1> QED
    BY <1>2, <1>3, <1>4, <1>5 DEF HeaderNext

LEMMA HeaderInvariant == HeaderSpec => []HeaderInv
PROOF
<1>1. HeaderInit => HeaderInv
    BY HeaderInitInv
<1>2. HeaderInv /\ [HeaderNext]_headerVars => HeaderInv'
    BY HeaderStep
<1> QED
    BY <1>1, <1>2, PTL DEF HeaderSpec

(* The median after the first i blocks.                                    *)
MedianAt(c, i) == medianTimePast(Window(SubSeq(c, 1, i)))

(* No median of the past lies above the one of now.                        *)
PassedInv ==
    /\ \A i \in 1..Len(chain) : MedianAt(chain, i) <= medianTimePast(Window(chain))
    /\ PassedStaysPassed

LEMMA PastIs ==
    ASSUME NEW S, NEW c \in Seq(S), NEW x \in S, NEW i \in 1..Len(c)
    PROVE  /\ SubSeq(c, 1, i) \in Seq(S) /\ SubSeq(c, 1, i) # << >>
           /\ SubSeq(Append(c, x), 1, i) = SubSeq(c, 1, i)
PROOF
<1>1. Len(c) \in Nat /\ \A j \in 1..Len(c) : c[j] \in S
    BY LenProperties, ElementOfSeq
<1>2. PICK long \in Seq(S) : long = Append(c, x)
    BY AppendProperties
<1>3. /\ i \in Int /\ 1 <= i /\ i - 1 + 1 = i
      /\ \A j \in 1..i : j \in 1..Len(c) /\ 1 + j - 1 = j
    BY <1>1
<1>4. /\ SubSeq(c, 1, i) \in Seq(S) /\ Len(SubSeq(c, 1, i)) = i
      /\ \A j \in 1..i : SubSeq(c, 1, i)[j] = c[j]
  <2>1. \A j \in 1..i : c[j] \in S
      BY <1>1, <1>3
  <2> QED
      BY <1>3, <2>1, SubSeqProperties
<1>5. /\ SubSeq(long, 1, i) \in Seq(S) /\ Len(SubSeq(long, 1, i)) = i
      /\ \A j \in 1..i : SubSeq(long, 1, i)[j] = c[j]
  <2>1. \A j \in 1..Len(c) : long[j] = c[j]
      BY <1>2, AppendProperties
  <2>2. \A j \in 1..i : long[j] \in S
      BY <1>1, <1>3, <2>1
  <2>3. /\ SubSeq(long, 1, i) \in Seq(S) /\ Len(SubSeq(long, 1, i)) = i
        /\ \A j \in 1..i : SubSeq(long, 1, i)[j] = long[j]
      BY <1>3, <2>2, SubSeqProperties
  <2> QED
      BY <1>3, <2>1, <2>3
<1>6. SubSeq(long, 1, i) = SubSeq(c, 1, i)
    BY <1>2, <1>3, <1>4, <1>5, SeqEqual
<1>7. SubSeq(c, 1, i) # << >>
    BY <1>3, <1>4
<1> QED
    BY <1>2, <1>4, <1>6, <1>7

LEMMA PassedStep ==
    ASSUME HeaderInv, PassedInv, [HeaderNext]_headerVars
    PROVE  PassedInv'
PROOF
<1>1. chain \in Seq(HeaderRecords) /\ chain # << >>
    BY DEF HeaderInv
<1>2. PICK n \in Nat : n = Len(chain) /\ n # 0
    BY <1>1, LenProperties
<1>3. PICK m \in Nat : m = medianTimePast(Window(chain))
    BY <1>1, RecordFields, WindowOf
<1>4. \A i \in 1..n : MedianAt(chain, i) \in Nat
  <2> TAKE i \in 1..n
  <2>1. SubSeq(chain, 1, i) \in Seq(HeaderRecords) /\ SubSeq(chain, 1, i) # << >>
      BY <1>1, <1>2, PastIs
  <2> QED
      BY <2>1, RecordFields, WindowOf DEF MedianAt
<1>5. CASE UNCHANGED chain
    BY <1>5 DEF PassedInv, PassedStaysPassed, MedianAt
<1>6. CASE \E ts \in Nat : Extend(ts)
  <2>1. PICK ts \in Nat : Extend(ts)
      BY <1>6
  <2>2. PICK x : x = Header(ts)
      OBVIOUS
  <2>3. chain' = Append(chain, x) /\ x.timestamp = ts /\ ts > m
      BY <1>3, <2>1, <2>2 DEF Extend, InTime, Header
  <2>4. HeaderInv' /\ medianTimePast(Window(chain')) >= m
      BY <1>3, <2>1, ExtendInv
  <2>5. chain' \in Seq(HeaderRecords) /\ chain' # << >>
      BY <2>4 DEF HeaderInv
  <2>6. x \in HeaderRecords
    <3>1. chain[n] \in HeaderRecords /\ expectedDifficulty(chain) = NextDifficulty(chain, n)
        BY <1>1, <1>2, LenProperties, ExpectedIsNext
    <3>2. expectedDifficulty(chain) \in Limits
        BY <3>1, RecordFields, NextInLimits
    <3> QED
        BY <2>2, <3>2 DEF Header, HeaderRecords
  <2>7. /\ Len(chain') = n + 1 /\ chain'[n + 1] = x
        /\ \A i \in 1..n : chain'[i] = chain[i]
      BY <1>1, <1>2, <2>3, <2>6, AppendProperties
  <2>8. \A i \in 1..n : MedianAt(chain, i)' = MedianAt(chain, i)
    <3>1. ASSUME NEW i \in 1..n
          PROVE  SubSeq(chain', 1, i) = SubSeq(chain, 1, i)
        BY <1>1, <1>2, <2>3, <2>6, PastIs
    <3> QED
        BY <3>1 DEF MedianAt
  <2>9. PICK after \in Nat : after = medianTimePast(Window(chain')) /\ after >= m
      BY <2>4, <2>5, RecordFields, WindowOf
  <2>10. MedianAt(chain, n + 1)' = after
    <3>1. SubSeq(chain', 1, n + 1) = chain'
        BY <2>5, <2>7, SubSeqFull
    <3> QED
        BY <2>9, <3>1 DEF MedianAt
  <2>11. \A i \in 1..(n + 1) : MedianAt(chain, i)' <= medianTimePast(Window(chain'))
      BY <1>2, <1>3, <1>4, <2>8, <2>9, <2>10 DEF PassedInv
  <2>12. ASSUME NEW i \in 1..(n + 1), NEW j \in (i + 1)..(n + 1)
         PROVE  chain'[j].timestamp > MedianAt(chain, i)'
    <3>1. i \in 1..n /\ MedianAt(chain, i)' = MedianAt(chain, i)
        BY <2>8
    <3>2. CASE j = n + 1
        BY <1>2, <1>3, <1>4, <2>3, <2>7, <3>1, <3>2 DEF PassedInv
    <3>3. CASE j # n + 1
      <4>1. j \in (i + 1)..n /\ j \in 1..n
          BY <3>3
      <4> QED
          BY <1>2, <2>7, <3>1, <4>1 DEF PassedInv, PassedStaysPassed, MedianAt
    <3> QED
        BY <3>2, <3>3
  <2> QED
      BY <2>7, <2>11, <2>12 DEF PassedInv, PassedStaysPassed, MedianAt
<1>7. CASE HeaderNext
  <2>1. MineHonestly => \E ts \in Nat : Extend(ts)
      BY CandidateTimeIs DEF MineHonestly
  <2>2. MineAtWill => \E ts \in Nat : Extend(ts)
      BY HeadersAssumption, HeaderChainAssumption DEF MineAtWill
  <2> QED
      BY <1>5, <1>6, <1>7, <2>1, <2>2 DEF HeaderNext, Tick
<1> QED
    BY <1>5, <1>7 DEF headerVars

(* A deadline that the median has passed is passed for every later block,  *)
(* whatever times miners choose (checkContext): for windows of any length, *)
(* odd or even, full or still filling. It rests on the median never        *)
(* falling, of which block time itself knows nothing.                      *)
THEOREM WhatPassedStaysPassed == HeaderSpec => []PassedStaysPassed
PROOF
<1>1. HeaderInit => PassedInv
  <2> SUFFICES ASSUME HeaderInit
               PROVE  PassedInv
      OBVIOUS
  <2>1. HeaderInv /\ chain = <<genesisBlock>>
      BY HeaderInitInv DEF HeaderInit
  <2>2. chain \in Seq(HeaderRecords) /\ Len(chain) = 1
      BY <2>1 DEF HeaderInv
  <2>3. MedianAt(chain, 1) = medianTimePast(Window(chain))
    <3>1. SubSeq(chain, 1, 1) = chain
        BY <2>2, SubSeqFull
    <3> QED
        BY <3>1 DEF MedianAt
  <2>4. medianTimePast(Window(chain)) \in Nat
      BY <2>1, RecordFields, WindowOf DEF HeaderInv
  <2> QED
      BY <2>2, <2>3, <2>4 DEF PassedInv, PassedStaysPassed
<1>2. HeaderInv /\ PassedInv /\ [HeaderNext]_headerVars => PassedInv'
    BY PassedStep
<1>3. PassedInv => PassedStaysPassed
    BY DEF PassedInv
<1> QED
    BY <1>1, <1>2, <1>3, HeaderInvariant, PTL DEF HeaderSpec

(* A candidate of buildCandidate passes the time rules of checkContext     *)
(* whatever times others chose, unless the tip lies at the edge of the     *)
(* allowed drift.                                                          *)
THEOREM HonestBlocksAlwaysFit == HeaderSpec => []HonestBlockFits
PROOF
<1>1. HeaderInv => HonestBlockFits
  <2> SUFFICES ASSUME HeaderInv, Last(chain).timestamp < now + MAX_FUTURE_DRIFT_MS
               PROVE  InTime(chain, CandidateTime(chain, now), now)
      BY DEF HonestBlockFits
  <2>1. now \in Nat /\ MAX_FUTURE_DRIFT_MS \in Nat
      BY HeadersAssumption DEF HeaderInv
  <2>2. medianTimePast(Window(chain)) <= Last(chain).timestamp
      BY DEF HeaderInv
  <2> QED
      BY <2>1, <2>2, CandidateTimeIs DEF InTime
<1> QED
    BY <1>1, HeaderInvariant, PTL

-----------------------------------------------------------------------------
(* One lie about time                                                      *)

Near(d, e) == d - e \in -2..2

LEMMA NearAfterShift ==
    ASSUME NEW d \in Int, NEW e \in Int, NEW u \in -1..1, NEW v \in -1..1,
           Near(d, e), d = e \/ u = v
    PROVE  Near(Clamp(d + u), Clamp(e + v))
PROOF
<1>1. PICK x \in Int, y \in Int : x = d + u /\ y = e + v
    OBVIOUS
<1>2. x - y \in -2..2
    BY <1>1 DEF Near
<1>3. Clamp(x) \in Int /\ Clamp(y) \in Int
    BY HeadersAssumption, ClampInLimits
<1>4. CASE x <= y
  <2>1. Clamp(x) <= Clamp(y) /\ Clamp(y) - Clamp(x) <= y - x
      BY <1>4, ClampContracts
  <2> QED
      BY <1>1, <1>2, <1>3, <2>1 DEF Near
<1>5. CASE y <= x
  <2>1. Clamp(y) <= Clamp(x) /\ Clamp(x) - Clamp(y) <= x - y
      BY <1>5, ClampContracts
  <2> QED
      BY <1>1, <1>2, <1>3, <2>1 DEF Near
<1> QED
    BY <1>4, <1>5

(* The chain c and what would have become of it: r has the times of c but  *)
(* for block i, and the difficulties of its last blocks are near. They     *)
(* differ only once a retarget has seen block i.                           *)
Twins(r, c, i, k) ==
    /\ \A j \in 1..k : j # i => r[j].timestamp = c[j].timestamp
    /\ Near(r[k].difficulty, c[k].difficulty)
    /\ r[k].difficulty # c[k].difficulty =>
           \E a \in Nat : /\ i <= a * DIFFICULTY_ADJUST_INTERVAL
                          /\ a * DIFFICULTY_ADJUST_INTERVAL < k

LEMMA TwinsGrow ==
    ASSUME NEW c, NEW r, NEW i \in Nat, NEW k \in Nat \ {0}, Twins(r, c, i, k),
           r[k].difficulty \in Limits, c[k].difficulty \in Limits
    PROVE  /\ Near(NextDifficulty(r, k), NextDifficulty(c, k))
           /\ NextDifficulty(r, k) # NextDifficulty(c, k) =>
                  \E a \in Nat : /\ i <= a * DIFFICULTY_ADJUST_INTERVAL
                                 /\ a * DIFFICULTY_ADJUST_INTERVAL < k + 1
PROOF
<1>1. PICK I \in Nat \ {0} : I = DIFFICULTY_ADJUST_INTERVAL
    BY HeadersAssumption
<1>2. PICK d \in Int, e \in Int : d = r[k].difficulty /\ e = c[k].difficulty
    BY HeadersAssumption DEF Limits
<1>3. /\ \A j \in 1..k : j # i => r[j].timestamp = c[j].timestamp
      /\ Near(d, e)
      /\ d # e => \E a \in Nat : i <= a * I /\ a * I < k
    BY <1>1, <1>2 DEF Twins
<1>4. \A a \in Nat : a * I \in Int
    OBVIOUS
<1>5. CASE k % I # 0 \/ k = I
  <2>1. NextDifficulty(r, k) = d /\ NextDifficulty(c, k) = e
      BY <1>1, <1>2, <1>5 DEF NextDifficulty
  <2> QED
      BY <1>1, <1>3, <1>4, <2>1
<1>6. CASE k % I = 0 /\ k # I
  <2>1. PICK s \in 1..k : s = k - I + 1
    <3>1. I <= k
        BY <1>6, Multiples
    <3> QED
        BY <3>1
  <2>2. PICK b \in Nat : k = b * I
      BY <1>6, Multiples
  <2> DEFINE expected == DIFFICULTY_ADJUST_INTERVAL * TARGET_BLOCK_TIME_MS
  <2>3. PICK u \in -1..1, v \in -1..1 :
            /\ u = Shift(r[k].timestamp - r[s].timestamp, expected)
            /\ v = Shift(c[k].timestamp - c[s].timestamp, expected)
      BY ShiftIsOneBit
  <2>4. NextDifficulty(r, k) = Clamp(d + u) /\ NextDifficulty(c, k) = Clamp(e + v)
    <3>1. /\ NextDifficulty(r, k) = Retargeted(d, r[k].timestamp - r[s].timestamp, expected)
          /\ NextDifficulty(c, k) = Retargeted(e, c[k].timestamp - c[s].timestamp, expected)
        BY <1>1, <1>2, <1>6, <2>1 DEF NextDifficulty
    <3> QED
        BY <2>3, <3>1, RetargetedIs
  <2>5. i # k /\ i # s => u = v
      BY <1>3, <2>1, <2>3
  <2>6. CASE d # e
    <3>1. PICK a \in Nat : i <= a * I /\ a * I < k
        BY <1>3, <2>6
    <3>2. a * I + I <= b * I
        BY <2>2, <3>1, Multiples
    <3>3. i # k /\ i # s
        BY <1>4, <2>1, <2>2, <3>1, <3>2
    <3>4. u = v
        BY <2>5, <3>3
    <3>5. a * I < k + 1
        BY <1>4, <3>1
    <3> QED
        BY <1>1, <1>3, <2>4, <3>1, <3>4, <3>5, NearAfterShift
  <2>7. CASE d = e
    <3>1. Near(Clamp(d + u), Clamp(e + v))
        BY <1>3, <2>7, NearAfterShift
    <3>2. Clamp(d + u) # Clamp(e + v) => i <= b * I /\ b * I < k + 1
        BY <2>1, <2>2, <2>5, <2>7
    <3> QED
        BY <1>1, <2>4, <3>1, <3>2
  <2> QED
      BY <2>6, <2>7
<1> QED
    BY <1>5, <1>6

RebuiltFrom(tail) == Growth!Fold(0, <<genesisBlock>>, tail)

LEMMA RebuiltIsFold ==
    ASSUME NEW times
    PROVE  Rebuilt(times) = RebuiltFrom(Tail(times))
PROOF
BY DEF Rebuilt, RebuiltFrom, Grown, Growth!Fold, FoldLeft,
       MapThenFoldSet, Growth!MapThenFoldSet, Max, Growth!Greatest

LEMMA RebuiltFromEmpty == RebuiltFrom(<< >>) = <<genesisBlock>>
PROOF
BY Growth!FoldEmpty DEF RebuiltFrom

LEMMA RebuiltFromAppend ==
    ASSUME NEW tail \in Seq(Nat), NEW ts \in Nat
    PROVE  RebuiltFrom(Append(tail, ts)) =
               Append(RebuiltFrom(tail),
                      [timestamp |-> ts, difficulty |-> expectedDifficulty(RebuiltFrom(tail))])
PROOF
<1>1. RebuiltFrom(Append(tail, ts)) = Grown(0, RebuiltFrom(tail), ts)
    BY Growth!FoldAppend DEF RebuiltFrom
<1> QED
    BY <1>1 DEF Grown

LEMMA RebuiltIsNear ==
    ASSUME HeaderInv, NEW i \in 2..Len(chain), NEW ts \in Nat, NEW times,
           times = [k \in 1..Len(chain) |-> IF k = i THEN ts ELSE chain[k].timestamp]
    PROVE  Near(Last(Rebuilt(times)).difficulty, Last(chain).difficulty)
PROOF
<1>1. PICK n \in Nat : n = Len(chain) /\ n # 0 /\ i \in 2..n
    BY LenProperties DEF HeaderInv
<1>2. /\ \A k \in 1..n : chain[k] \in HeaderRecords
      /\ chain[1] = genesisBlock
      /\ \A k \in 1..(n - 1) : chain[k + 1].difficulty = NextDifficulty(chain, k)
    BY <1>1, LenProperties DEF HeaderInv
<1>3. /\ times \in Seq(Nat) /\ Len(times) = n /\ times # << >>
      /\ \A k \in 1..n : times[k] \in Nat /\ (k # i => times[k] = chain[k].timestamp)
    BY <1>1, <1>2, RecordFields
<1>4. PICK tail : tail = Tail(times)
    OBVIOUS
<1>5. /\ tail \in Seq(Nat) /\ Len(tail) = n - 1
      /\ \A k \in 1..(n - 1) : tail[k] = times[k + 1]
    BY <1>1, <1>3, <1>4
<1> DEFINE R(k) == RebuiltFrom(SubSeq(tail, 1, k))
<1>6. Rebuilt(times) = R(n - 1)
  <2>1. SubSeq(tail, 1, n - 1) = tail
      BY <1>1, <1>5
  <2> QED
      BY <1>4, <2>1, RebuiltIsFold
<1> DEFINE Twin(r, k) == /\ r \in Seq(HeaderRecords) /\ Len(r) = k
                         /\ r[k].timestamp = times[k]
                         /\ Twins(r, chain, i, k)
           Good == {k \in Nat : k < n => Twin(R(k), k + 1)}
<1>7. 0 \in Good
  <2>1. SubSeq(tail, 1, 0) = << >>
      BY <1>5
  <2>2. R(0) = <<genesisBlock>>
      BY <2>1, RebuiltFromEmpty
  <2>3. PICK r : r = <<genesisBlock>>
      OBVIOUS
  <2>4. genesisBlock \in HeaderRecords /\ genesisBlock.difficulty \in Int
      BY HeadersAssumption DEF HeaderRecords, genesisBlock
  <2>5. r \in Seq(HeaderRecords) /\ Len(r) = 1 /\ r[1] = chain[1]
      BY <1>2, <2>3, <2>4
  <2>6. Twins(r, chain, i, 1)
      BY <1>2, <2>4, <2>5 DEF Twins, Near
  <2>7. r[1].timestamp = times[1]
      BY <1>1, <1>3, <2>5
  <2>8. Twin(r, 1) /\ R(0) = r /\ 0 + 1 = 1
      BY <2>2, <2>3, <2>5, <2>6, <2>7
  <2> HIDE DEF Twin, R
  <2> QED
      BY <2>8
<1>8. ASSUME NEW k \in Nat, k \in Good
      PROVE  k + 1 \in Good
  <2> SUFFICES ASSUME k + 1 < n
               PROVE  Twin(R(k + 1), (k + 1) + 1)
      OBVIOUS
  <2>1. PICK p \in Nat : p = k + 1 /\ p # 0 /\ p < n /\ p \in 1..(n - 1) /\ k < n
      BY <1>1
  <2>2. PICK r : r = R(k)
      OBVIOUS
  <2>3. /\ r \in Seq(HeaderRecords) /\ Len(r) = p /\ r[p].timestamp = times[p]
        /\ Twins(r, chain, i, p)
      BY <1>8, <2>1, <2>2
  <2>4. PICK x : x = [timestamp |-> times[p + 1], difficulty |-> NextDifficulty(r, p)]
      OBVIOUS
  <2>5. R(p) = Append(r, x)
    <3>1. SubSeq(tail, 1, p) = Append(SubSeq(tail, 1, k), tail[p])
        BY <1>5, <2>1
    <3>2. SubSeq(tail, 1, k) \in Seq(Nat) /\ tail[p] \in Nat
        BY <1>5, <2>1
    <3>3. R(p) = Append(r, [timestamp |-> tail[p], difficulty |-> expectedDifficulty(r)])
        BY <2>2, <3>1, <3>2, RebuiltFromAppend
    <3>4. tail[p] = times[p + 1]
        BY <1>5, <2>1
    <3> QED
        BY <2>3, <2>4, <3>3, <3>4, ExpectedIsNext
  <2>6. r[p] \in HeaderRecords /\ chain[p] \in HeaderRecords /\ p + 1 \in 1..n
      BY <1>2, <2>1, <2>3, LenProperties
  <2>7. r[p].difficulty \in Limits /\ chain[p].difficulty \in Limits
      BY <2>6, RecordFields
  <2>8. x \in HeaderRecords
      BY <1>3, <2>4, <2>6, <2>7, NextInLimits DEF HeaderRecords
  <2>9. PICK q : q = Append(r, x)
      OBVIOUS
  <2>10. /\ q \in Seq(HeaderRecords) /\ Len(q) = p + 1 /\ q[p + 1] = x
         /\ \A j \in 1..p : q[j] = r[j]
      BY <2>3, <2>8, <2>9, AppendProperties
  <2>11. chain[p + 1].difficulty = NextDifficulty(chain, p)
      BY <1>2, <2>1
  <2>12. Twins(q, chain, i, p + 1)
    <3>1. i \in Nat
        BY <1>1
    <3>2. /\ Near(NextDifficulty(r, p), NextDifficulty(chain, p))
          /\ NextDifficulty(r, p) # NextDifficulty(chain, p) =>
                \E a \in Nat : /\ i <= a * DIFFICULTY_ADJUST_INTERVAL
                               /\ a * DIFFICULTY_ADJUST_INTERVAL < p + 1
        BY <2>1, <2>3, <2>7, <3>1, TwinsGrow
    <3>3. ASSUME NEW j \in 1..(p + 1), j # i
          PROVE  q[j].timestamp = chain[j].timestamp
      <4>1. CASE j = p + 1
          BY <1>3, <2>4, <2>6, <2>10, <3>3, <4>1
      <4>2. CASE j # p + 1
        <5>1. j \in 1..p
            BY <2>1, <4>2
        <5> QED
            BY <2>3, <2>10, <3>3, <5>1 DEF Twins
      <4> QED
          BY <4>1, <4>2
    <3> QED
        BY <2>4, <2>10, <2>11, <3>2, <3>3 DEF Twins
  <2>13. q[p + 1].timestamp = times[p + 1]
      BY <2>4, <2>10
  <2> QED
      BY <2>1, <2>5, <2>9, <2>10, <2>12, <2>13
<1>9. n - 1 \in Good
  <2>1. n - 1 \in Nat
      BY <1>1
  <2> HIDE DEF Good
  <2> QED
      BY <1>7, <1>8, <2>1, Growth!NatSetInduction
<1>10. Twin(R(n - 1), n)
    BY <1>1, <1>9
<1> HIDE DEF R
<1>11. PICK r : r = R(n - 1)
    OBVIOUS
<1>12. r \in Seq(HeaderRecords) /\ Len(r) = n /\ Near(r[n].difficulty, chain[n].difficulty)
    BY <1>10, <1>11 DEF Twins
<1> QED
    BY <1>1, <1>6, <1>11, <1>12 DEF Last

(* A single false block time, at any height and however far in the past,   *)
(* moves the difficulty of the tip by two bits at most, and the difficulty *)
(* never leaves its limits (expectedDifficulty).                           *)
THEOREM OneLieNeverMovesMore == HeaderSpec => []OneLieMovesTwoBits
PROOF
<1>1. HeaderInv => OneLieMovesTwoBits
  <2> SUFFICES ASSUME HeaderInv
               PROVE  OneLieMovesTwoBits
      OBVIOUS
  <2>1. Last(chain).difficulty \in MIN_DIFFICULTY..MAX_DIFFICULTY
      BY RecordFields, LastOf DEF HeaderInv, Limits
  <2>2. MaxTime + MAX_FUTURE_DRIFT_MS \in Nat
      BY HeadersAssumption, HeaderChainAssumption
  <2>3. ASSUME NEW i \in 2..Len(chain), NEW ts \in 1..(MaxTime + MAX_FUTURE_DRIFT_MS),
               NEW times,
               times = [k \in 1..Len(chain) |-> IF k = i THEN ts ELSE chain[k].timestamp]
        PROVE  Last(Rebuilt(times)).difficulty - Last(chain).difficulty \in -2..2
    <3>1. ts \in Nat
        BY <2>2
    <3> QED
        BY <2>3, <3>1, RebuiltIsNear DEF Near
  <2> QED
      BY <2>1, <2>3 DEF OneLieMovesTwoBits
<1> QED
    BY <1>1, HeaderInvariant, PTL
=============================================================================
