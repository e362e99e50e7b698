---------------------------- MODULE StateProofs ----------------------------
(***************************************************************************)
(* For any addresses, amounts and block times: no transaction of any       *)
(* domain makes or loses coin or tokens, and what each domain keeps true   *)
(* of its own tables survives every other domain. The laws of sums come    *)
(* first, then the bank by itself (BankSpec), then the other domains one   *)
(* by one, and last all of them together.                                  *)
(*                                                                         *)
(* EscrowBacked is what makes the bank's part inductive: a refund takes    *)
(* the cost out of bank.pending, and only because pending is the sum of    *)
(* the costs of the open proposals is there enough in it.                  *)
(*                                                                         *)
(* Every handler outside the bank moves coin in one way only: out of       *)
(* accounts, into the treasury of the bank and into or out of pools and    *)
(* company treasuries. Paid says so of a step; its lemma puts the bank's   *)
(* own invariant, BankSound, back together.                                *)
(***************************************************************************)
EXTENDS StateMachine, TLAPS, FunctionTheorems, FiniteSetTheorems,
        NaturalsInduction, WellFoundedInduction

-----------------------------------------------------------------------------
(* The laws of sums that the conservation proofs of the ledger modules     *)
(* rest on. Tables are functions from a finite set to Nat.                 *)

(* Induction on a finite set, for a property given as a set of subsets: a  *)
(* smallest subset outside Good would have a still smaller one inside.     *)
LEMMA SubsetInduction ==
    ASSUME NEW S, IsFiniteSet(S), NEW Good,
           {} \in Good,
           \A T \in SUBSET S, x \in S : T \in Good /\ x \notin T => T \cup {x} \in Good
    PROVE  S \in Good
PROOF
<1> SUFFICES ASSUME S \notin Good
             PROVE  FALSE
    OBVIOUS
<1> DEFINE Bad == {n \in Nat : \E T \in SUBSET S : T \notin Good /\ Cardinality(T) = n}
<1>1. \A T \in SUBSET S : IsFiniteSet(T) /\ Cardinality(T) \in Nat
    BY FS_Subset, FS_CardinalityType
<1>2. Bad # {}
  <2>1. S \in SUBSET S
      OBVIOUS
  <2>2. Cardinality(S) \in Bad
      BY <1>1, <2>1
  <2> QED
      BY <2>2
<1>3. PICK n \in Bad : \A k \in Bad : ~ (<<k, n>> \in OpToRel(<, Nat))
    BY <1>2, NatLessThanWellFounded, WFMin
<1>4. \A k \in Bad : ~ (k < n)
    BY <1>3 DEF OpToRel
<1>5. PICK T \in SUBSET S : T \notin Good /\ Cardinality(T) = n
    OBVIOUS
<1>6. PICK x \in T : TRUE
    BY <1>5
<1>7. Cardinality(T \ {x}) = n - 1 /\ Cardinality(T \ {x}) \in Nat
    BY <1>1, <1>5, <1>6, FS_RemoveElement
<1>8. T \ {x} \in Good
  <2>1. T \ {x} \in SUBSET S
      OBVIOUS
  <2>2. n \in Nat /\ n - 1 < n
      OBVIOUS
  <2> QED
      BY <1>4, <1>7, <2>1, <2>2
<1>9. (T \ {x}) \cup {x} = T
    BY <1>6
<1>10. \A U \in SUBSET S, y \in S : U \in Good /\ y \notin U => U \cup {y} \in Good
    OBVIOUS
<1>11. T \ {x} \in SUBSET S /\ x \in S /\ x \notin T \ {x}
    BY <1>6
<1>12. (T \ {x}) \cup {x} \in Good
    BY <1>8, <1>10, <1>11
<1> QED
    BY <1>5, <1>9, <1>12

-----------------------------------------------------------------------------

LEMMA UnitsAtFinite ==
    ASSUME NEW S, NEW f \in [S -> Nat], NEW x \in S
    PROVE  IsFiniteSet(UnitsAt(f, x)) /\ Cardinality(UnitsAt(f, x)) = f[x]
PROOF
<1>1. f[x] \in Nat
    OBVIOUS
<1>2. IsFiniteSet(1..f[x]) /\ Cardinality(1..f[x]) = f[x]
    BY <1>1, FS_Interval
<1>3. IsFiniteSet({x}) /\ Cardinality({x}) = 1
    BY FS_Singleton
<1>4. IsFiniteSet({x} \X (1..f[x])) /\ Cardinality({x} \X (1..f[x])) = 1 * f[x]
    BY <1>2, <1>3, FS_Product
<1> QED
    BY <1>1, <1>4 DEF UnitsAt

LEMMA UnitsFinite ==
    ASSUME NEW S, IsFiniteSet(S), NEW f \in [S -> Nat]
    PROVE  IsFiniteSet(Units(f))
PROOF
<1> DEFINE R == {UnitsAt(f, x) : x \in S}
           g == [x \in S |-> UnitsAt(f, x)]
<1>1. g \in Surjection(S, R)
    BY DEF Surjection
<1>2. IsFiniteSet(R)
    BY <1>1, FS_Surjection
<1>3. \A T \in R : IsFiniteSet(T)
    BY UnitsAtFinite
<1>4. IsFiniteSet(UNION R)
    BY <1>2, <1>3, FS_UNION
<1>5. Units(f) = UNION R
    BY DEF Units
<1> QED
    BY <1>4, <1>5

LEMMA TotalType ==
    ASSUME NEW S, IsFiniteSet(S), NEW f \in [S -> Nat]
    PROVE  Total(f) \in Nat
PROOF BY UnitsFinite, FS_CardinalityType DEF Total

LEMMA TotalEmpty ==
    ASSUME NEW f, DOMAIN f = {}
    PROVE  Total(f) = 0
PROOF
<1>1. Units(f) = {}
    BY DEF Units
<1> QED
    BY <1>1, FS_EmptySet DEF Total

(* A table split in two by its keys.                                       *)
LEMMA TotalSplit ==
    ASSUME NEW S, IsFiniteSet(S), NEW f \in [S -> Nat], NEW T \in SUBSET S
    PROVE  Total(f) = Total([x \in T |-> f[x]]) + Total([x \in S \ T |-> f[x]])
PROOF
<1> DEFINE g == [x \in T |-> f[x]]
           h == [x \in S \ T |-> f[x]]
<1>1. IsFiniteSet(T) /\ IsFiniteSet(S \ T)
    BY FS_Subset
<1>2. g \in [T -> Nat] /\ h \in [S \ T -> Nat]
    OBVIOUS
<1>3. IsFiniteSet(Units(g)) /\ IsFiniteSet(Units(h))
    BY <1>1, <1>2, UnitsFinite
<1>4. Units(f) = Units(g) \cup Units(h)
    BY DEF Units, UnitsAt
<1>5. Units(g) \cap Units(h) = {}
    BY DEF Units, UnitsAt
<1> HIDE DEF g, h
<1>6. Cardinality(Units(f)) = Cardinality(Units(g)) + Cardinality(Units(h)) - 0
  <2>1. Cardinality(Units(g) \cup Units(h)) = Cardinality(Units(g)) + Cardinality(Units(h))
                                               - Cardinality(Units(g) \cap Units(h))
      BY <1>3, FS_Union
  <2>2. Cardinality(Units(g) \cap Units(h)) = 0
      BY <1>5, FS_EmptySet
  <2> QED
      BY <1>4, <2>1, <2>2
<1>7. Cardinality(Units(g)) \in Nat /\ Cardinality(Units(h)) \in Nat
    BY <1>3, FS_CardinalityType
<1> QED
    BY <1>6, <1>7 DEF Total, g, h

LEMMA TotalOne ==
    ASSUME NEW x, NEW f, DOMAIN f = {x}, f[x] \in Nat
    PROVE  Total(f) = f[x]
PROOF
<1>1. Units(f) = UnitsAt(f, x)
    BY DEF Units, UnitsAt
<1>2. Units(f) = UnitsAt([y \in {x} |-> f[x]], x)
    BY <1>1 DEF UnitsAt
<1> QED
    BY <1>2, UnitsAtFinite DEF Total

(* One entry taken apart from the rest.                                    *)
LEMMA TotalAt ==
    ASSUME NEW S, IsFiniteSet(S), NEW f \in [S -> Nat], NEW x \in S
    PROVE  /\ Total(f) = f[x] + Total([y \in S \ {x} |-> f[y]])
           /\ Total([y \in S \ {x} |-> f[y]]) \in Nat
           /\ f[x] <= Total(f)
PROOF
<1> DEFINE g == [y \in {x} |-> f[y]]
           h == [y \in S \ {x} |-> f[y]]
<1>1. Total(f) = Total(g) + Total(h)
    BY TotalSplit
<1>2. Total(g) = f[x] /\ f[x] \in Nat
    BY TotalOne
<1>3. h \in [S \ {x} -> Nat] /\ IsFiniteSet(S \ {x})
    BY FS_RemoveElement
<1>4. Total(h) \in Nat
    BY <1>3, TotalType
<1> HIDE DEF g, h
<1>5. Total(f) = f[x] + Total(h) /\ f[x] <= Total(f)
    BY <1>1, <1>2, <1>4
<1> QED
    BY <1>4, <1>5 DEF h

(* Changing one entry changes the sum by the difference.                   *)
LEMMA TotalChange ==
    ASSUME NEW S, IsFiniteSet(S), NEW f \in [S -> Nat], NEW e \in [S -> Nat],
           NEW x \in S, \A y \in S : y # x => e[y] = f[y]
    PROVE  Total(e) = Total(f) - f[x] + e[x]
PROOF
<1>1. [y \in S \ {x} |-> e[y]] = [y \in S \ {x} |-> f[y]]
    OBVIOUS
<1>2. Total(e) = e[x] + Total([y \in S \ {x} |-> e[y]])
    BY TotalAt
<1>3. Total(f) = f[x] + Total([y \in S \ {x} |-> f[y]])
      /\ Total([y \in S \ {x} |-> f[y]]) \in Nat
    BY TotalAt
<1>4. f[x] \in Nat /\ e[x] \in Nat
    OBVIOUS
<1> QED
    BY <1>1, <1>2, <1>3, <1>4

LEMMA TotalPlus ==
    ASSUME NEW S, IsFiniteSet(S), NEW f \in [S -> Nat], NEW x \in S, NEW n \in Nat
    PROVE  /\ Plus(f, x, n) \in [S -> Nat]
           /\ Total(Plus(f, x, n)) = Total(f) + n
PROOF
<1> DEFINE e == Plus(f, x, n)
<1>1. f[x] \in Nat /\ Total(f) \in Nat
    BY TotalType
<1>2. e \in [S -> Nat] /\ e[x] = f[x] + n /\ \A y \in S : y # x => e[y] = f[y]
    BY DEF Plus
<1> HIDE DEF e
<1>3. Total(e) = Total(f) - f[x] + e[x]
    BY <1>2, TotalChange
<1>4. Total(e) = Total(f) + n
    BY <1>1, <1>2, <1>3
<1> QED
    BY <1>2, <1>4 DEF e

LEMMA TotalMinus ==
    ASSUME NEW S, IsFiniteSet(S), NEW f \in [S -> Nat], NEW x \in S, NEW n \in Nat,
           n <= f[x]
    PROVE  /\ Minus(f, x, n) \in [S -> Nat]
           /\ Total(Minus(f, x, n)) = Total(f) - n
PROOF
<1> DEFINE e == Minus(f, x, n)
<1>1. f[x] \in Nat /\ Total(f) \in Nat
    BY TotalType
<1>2. e \in [S -> Nat] /\ e[x] = f[x] - n /\ \A y \in S : y # x => e[y] = f[y]
    BY <1>1 DEF Minus
<1> HIDE DEF e
<1>3. Total(e) = Total(f) - f[x] + e[x]
    BY <1>2, TotalChange
<1>4. Total(e) = Total(f) - n
    BY <1>1, <1>2, <1>3
<1> QED
    BY <1>2, <1>4 DEF e

(* A table with one more key.                                              *)
LEMMA TotalExtend ==
    ASSUME NEW S, IsFiniteSet(S), NEW x, x \notin S, NEW U, U = S \cup {x},
           NEW f \in [U -> Nat], NEW g \in [S -> Nat], \A y \in S : f[y] = g[y]
    PROVE  Total(f) = f[x] + Total(g)
PROOF
<1>1. IsFiniteSet(U) /\ x \in U
    BY FS_AddElement
<1>2. [y \in U \ {x} |-> f[y]] = g
  <2>1. U \ {x} = S
      OBVIOUS
  <2>2. g = [y \in S |-> g[y]]
      OBVIOUS
  <2>3. [y \in S |-> f[y]] = [y \in S |-> g[y]]
      OBVIOUS
  <2> QED
      BY <2>1, <2>2, <2>3
<1>3. Total(f) = f[x] + Total([y \in U \ {x} |-> f[y]])
    BY <1>1, TotalAt
<1> QED
    BY <1>2, <1>3

-----------------------------------------------------------------------------

LEMMA TotalZero ==
    ASSUME NEW S, NEW f, DOMAIN f = S, \A x \in S : f[x] = 0
    PROVE  Total(f) = 0
PROOF
<1>1. Units(f) = {}
    BY DEF Units, UnitsAt
<1> QED
    BY <1>1, FS_EmptySet DEF Total

(* The sum of two tables, entry by entry.                                  *)
LEMMA TotalSum ==
    ASSUME NEW S, IsFiniteSet(S), NEW f \in [S -> Nat], NEW g \in [S -> Nat]
    PROVE  Total([x \in S |-> f[x] + g[x]]) = Total(f) + Total(g)
PROOF
<1> DEFINE F(T) == [x \in T |-> f[x]]
           G(T) == [x \in T |-> g[x]]
           H(T) == [x \in T |-> f[x] + g[x]]
           Good == {T \in SUBSET S : Total(H(T)) = Total(F(T)) + Total(G(T))}
<1>1. {} \in Good
  <2>1. Total(F({})) = 0 /\ Total(G({})) = 0 /\ Total(H({})) = 0
      BY TotalEmpty
  <2> QED
      BY <2>1
<1>2. ASSUME NEW T \in SUBSET S, NEW x \in S, T \in Good, x \notin T
      PROVE  T \cup {x} \in Good
  <2> DEFINE U == T \cup {x}
  <2>1. IsFiniteSet(T) /\ U \in SUBSET S
      BY FS_Subset
  <2>2. F(U) \in [U -> Nat] /\ G(U) \in [U -> Nat] /\ H(U) \in [U -> Nat]
      OBVIOUS
  <2>3. F(T) \in [T -> Nat] /\ G(T) \in [T -> Nat] /\ H(T) \in [T -> Nat]
      OBVIOUS
  <2>4. Total(F(T)) \in Nat /\ Total(G(T)) \in Nat /\ Total(H(T)) \in Nat
      BY <2>1, <2>3, TotalType
  <2>5. /\ \A y \in T : F(U)[y] = F(T)[y] /\ G(U)[y] = G(T)[y] /\ H(U)[y] = H(T)[y]
        /\ F(U)[x] = f[x] /\ G(U)[x] = g[x] /\ H(U)[x] = f[x] + g[x]
      OBVIOUS
  <2>6. Total(H(T)) = Total(F(T)) + Total(G(T))
      BY <1>2
  <2>7. f[x] \in Nat /\ g[x] \in Nat
      OBVIOUS
  <2>0. ASSUME NEW u \in [U -> Nat], NEW t \in [T -> Nat], \A y \in T : u[y] = t[y]
        PROVE  Total(u) = u[x] + Total(t)
    <3>1. U = T \cup {x}
        OBVIOUS
    <3> HIDE DEF U
    <3> QED
        BY <1>2, <2>0, <2>1, <3>1, TotalExtend
  <2> HIDE DEF F, G, H
  <2>8. Total(F(U)) = f[x] + Total(F(T))
      BY <2>0, <2>2, <2>3, <2>5
  <2>9. Total(G(U)) = g[x] + Total(G(T))
      BY <2>0, <2>2, <2>3, <2>5
  <2>10. Total(H(U)) = f[x] + g[x] + Total(H(T))
      BY <2>0, <2>2, <2>3, <2>5
  <2>11. Total(H(U)) = Total(F(U)) + Total(G(U))
      BY <2>4, <2>6, <2>7, <2>8, <2>9, <2>10
  <2> QED
      BY <2>1, <2>11
<1>3. S \in Good
  <2> HIDE DEF Good
  <2> QED
      BY <1>1, <1>2, SubsetInduction
<1>4. F(S) = f /\ G(S) = g
    OBVIOUS
<1> QED
    BY <1>3, <1>4

(* Grouping the entries of a table by the owner of each key, and summing   *)
(* the groups, gives the sum of the table.                                 *)
Groups(S, A, f, owner) ==
    [a \in A |-> Total([x \in S |-> IF owner[x] = a THEN f[x] ELSE 0])]

LEMMA TotalByOwner ==
    ASSUME NEW S, IsFiniteSet(S), NEW A, IsFiniteSet(A),
           NEW f \in [S -> Nat], NEW owner \in [S -> A]
    PROVE  Groups(S, A, f, owner) \in [A -> Nat] /\ Total(Groups(S, A, f, owner)) = Total(f)
PROOF
<1> DEFINE F(T) == [x \in T |-> f[x]]
           E(T, a) == [x \in T |-> IF owner[x] = a THEN f[x] ELSE 0]
           G(T) == [a \in A |-> Total(E(T, a))]
           Good == {T \in SUBSET S : Total(G(T)) = Total(F(T))}
<1>0. ASSUME NEW T \in SUBSET S
      PROVE  G(T) \in [A -> Nat]
  <2>1. IsFiniteSet(T)
      BY FS_Subset
  <2>2. ASSUME NEW a \in A PROVE Total(E(T, a)) \in Nat
    <3>1. E(T, a) \in [T -> Nat]
        OBVIOUS
    <3> HIDE DEF E
    <3> QED
        BY <2>1, <3>1, TotalType
  <2> HIDE DEF E
  <2> QED
      BY <2>2
<1>1. {} \in Good
  <2>1. Total(F({})) = 0 /\ \A a \in A : Total(E({}, a)) = 0
      BY TotalEmpty
  <2>2. Total(G({})) = 0
      BY <2>1, TotalZero
  <2> QED
      BY <2>1, <2>2
<1>2. ASSUME NEW T \in SUBSET S, NEW x \in S, T \in Good, x \notin T
      PROVE  T \cup {x} \in Good
  <2> DEFINE U == T \cup {x}
  <2>1. IsFiniteSet(T) /\ U \in SUBSET S
      BY FS_Subset
  <2>0. ASSUME NEW u \in [U -> Nat], NEW t \in [T -> Nat], \A y \in T : u[y] = t[y]
        PROVE  Total(u) = u[x] + Total(t)
    <3>1. U = T \cup {x}
        OBVIOUS
    <3> HIDE DEF U
    <3> QED
        BY <1>2, <2>0, <2>1, <3>1, TotalExtend
  <2>2. /\ F(U) \in [U -> Nat] /\ F(T) \in [T -> Nat] /\ F(U)[x] = f[x] /\ f[x] \in Nat
        /\ \A y \in T : F(U)[y] = F(T)[y]
      OBVIOUS
  <2>3. Total(F(U)) = f[x] + Total(F(T))
    <3> HIDE DEF F
    <3> QED
        BY <2>0, <2>2
  <2>4. ASSUME NEW a \in A
        PROVE  Total(E(U, a)) = (IF owner[x] = a THEN f[x] ELSE 0) + Total(E(T, a))
    <3>1. /\ E(U, a) \in [U -> Nat] /\ E(T, a) \in [T -> Nat]
          /\ \A y \in T : E(U, a)[y] = E(T, a)[y]
          /\ E(U, a)[x] = IF owner[x] = a THEN f[x] ELSE 0
        OBVIOUS
    <3> HIDE DEF E
    <3> QED
        BY <2>0, <3>1
  <2>5. G(T) \in [A -> Nat]
      BY <1>0
  <2>6. G(U) = Plus(G(T), owner[x], f[x])
    <3>1. owner[x] \in A
        OBVIOUS
    <3>2. \A a \in A : G(T)[a] \in Nat /\ G(T)[a] = Total(E(T, a)) /\ G(U)[a] = Total(E(U, a))
        BY <2>5
    <3>3. G(T) \in [A -> Nat] /\ DOMAIN G(U) = A /\ G(U) = [a \in A |-> G(U)[a]]
        BY <2>5
    <3> HIDE DEF E, G
    <3>4. \A a \in A : G(U)[a] = IF owner[x] = a THEN G(T)[a] + f[x] ELSE G(T)[a]
        BY <2>2, <2>4, <3>2
    <3> QED
        BY <3>1, <3>3, <3>4 DEF Plus
  <2>7. Total(G(T)) = Total(F(T))
      BY <1>2
  <2>8. owner[x] \in A
      OBVIOUS
  <2>9. Total(F(T)) \in Nat
    <3>1. F(T) \in [T -> Nat]
        OBVIOUS
    <3> HIDE DEF F
    <3> QED
        BY <2>1, <3>1, TotalType
  <2>10. Total(G(U)) = Total(F(U))
    <3> HIDE DEF F, G
    <3>1. Total(Plus(G(T), owner[x], f[x])) = Total(G(T)) + f[x]
        BY <2>2, <2>5, <2>8, TotalPlus
    <3> QED
        BY <2>2, <2>3, <2>6, <2>7, <2>9, <3>1
  <2> QED
      BY <2>1, <2>10
<1>3. S \in Good
  <2> HIDE DEF Good
  <2> QED
      BY <1>1, <1>2, SubsetInduction
<1>4. F(S) = f
    OBVIOUS
<1>5. G(S) \in [A -> Nat]
    BY <1>0
<1>6. Groups(S, A, f, owner) = G(S)
    BY DEF Groups
<1> QED
    BY <1>3, <1>4, <1>5, <1>6

-----------------------------------------------------------------------------
(* Quotients                                                               *)

LEMMA Quotient ==
    ASSUME NEW a \in Nat, NEW b \in Nat, b > 0
    PROVE  /\ a \div b \in Nat
           /\ b * (a \div b) <= a
PROOF OBVIOUS

(* A part of an amount is no more than the amount.                         *)
LEMMA FeeOfType ==
    ASSUME NEW n \in Nat, NEW bps \in 0..BPS
    PROVE  FeeOf(n, bps) \in 0..n
PROOF
<1>1. bps \in Nat /\ bps <= 10000
    BY DEF BPS
<1>2. (n * bps) \div 10000 <= n /\ (n * bps) \div 10000 \in Nat
    BY <1>1
<1> QED
    BY <1>2 DEF FeeOf, BPS

LEMMA InAfterFeeType ==
    ASSUME NEW n \in Nat, NEW bps \in 0..BPS
    PROVE  InAfterFee(n, bps) \in 0..n
PROOF
<1>1. BPS - bps \in 0..BPS
    BY DEF BPS
<1> QED
    BY <1>1, FeeOfType DEF InAfterFee, FeeOf

(* A swap never empties a reserve and never lowers the product of the two: *)
(* what is given is rounded down, what is taken in counts in full.         *)
LEMMA SwapKeepsProduct ==
    ASSUME NEW n \in Nat, NEW x \in Nat, NEW y \in Nat, NEW bps \in 0..BPS
    PROVE  /\ AmountOut(n, x, y, bps) \in Nat
           /\ AmountOut(n, x, y, bps) > 0 => AmountOut(n, x, y, bps) < y
           /\ AmountOut(n, x, y, bps) <= y
           /\ (x + n) * (y - AmountOut(n, x, y, bps)) >= x * y
PROOF
<1> DEFINE in == InAfterFee(n, bps)
           out == (y * in) \div (x + in)
<1>1. in \in Nat /\ in <= n
    BY InAfterFeeType
<1>2. CASE x > 0 /\ y > 0 /\ in > 0 /\ out < y
  <2>1. AmountOut(n, x, y, bps) = out
      BY <1>2 DEF AmountOut
  <2>2. y * in \in Nat /\ x + in \in Nat /\ x + in > 0
      BY <1>1, <1>2
  <2>3. out \in Nat /\ (x + in) * out <= y * in
      BY <2>2, Quotient
  <2> HIDE DEF out, in
  <2>4. (x + in) * (y - out) = (x + in) * y - (x + in) * out
      BY <1>1, <2>3
  <2>5. (x + in) * y = x * y + y * in
      BY <1>1
  <2>6. (x + in) * (y - out) >= x * y
      BY <1>1, <2>2, <2>3, <2>4, <2>5
  <2>7. (x + n) * (y - out) = (x + in) * (y - out) + (n - in) * (y - out)
      BY <1>1, <2>3
  <2>8. (n - in) * (y - out) >= 0
      BY <1>1, <1>2, <2>3
  <2>9. (x + in) * (y - out) \in Int /\ (n - in) * (y - out) \in Int /\ x * y \in Int
      BY <1>1, <2>3
  <2>10. (x + n) * (y - out) >= x * y
      BY <2>6, <2>7, <2>8, <2>9
  <2> QED
      BY <1>2, <2>1, <2>3, <2>10
<1>3. CASE ~ (x > 0 /\ y > 0 /\ in > 0 /\ out < y)
  <2>1. AmountOut(n, x, y, bps) = 0
      BY <1>3 DEF AmountOut
  <2>2. (x + n) * y = x * y + n * y /\ n * y \in Nat /\ x * y \in Nat
      OBVIOUS
  <2>3. (x + n) * (y - 0) >= x * y
      BY <2>2
  <2> QED
      BY <2>1, <2>3
<1> QED
    BY <1>2, <1>3

-----------------------------------------------------------------------------
(* Tables compared and scaled                                              *)

LEMMA TotalMonotone ==
    ASSUME NEW S, IsFiniteSet(S), NEW f \in [S -> Nat], NEW g \in [S -> Nat],
           \A x \in S : f[x] <= g[x]
    PROVE  Total(f) <= Total(g)
PROOF
<1> DEFINE d == [x \in S |-> g[x] - f[x]]
<1>1. d \in [S -> Nat]
    OBVIOUS
<1>2. g = [x \in S |-> f[x] + d[x]]
    OBVIOUS
<1> HIDE DEF d
<1>3. Total(g) = Total(f) + Total(d)
    BY <1>1, <1>2, TotalSum
<1>4. Total(f) \in Nat /\ Total(d) \in Nat
    BY <1>1, TotalType
<1> QED
    BY <1>3, <1>4

LEMMA TotalScaled ==
    ASSUME NEW S, IsFiniteSet(S), NEW f \in [S -> Nat], NEW k \in Nat
    PROVE  Total([x \in S |-> k * f[x]]) = k * Total(f)
PROOF
<1> DEFINE F(T) == [x \in T |-> f[x]]
           K(T) == [x \in T |-> k * f[x]]
           Good == {T \in SUBSET S : Total(K(T)) = k * Total(F(T))}
<1>1. {} \in Good
  <2>1. Total(F({})) = 0 /\ Total(K({})) = 0
      BY TotalEmpty
  <2> QED
      BY <2>1
<1>2. ASSUME NEW T \in SUBSET S, NEW x \in S, T \in Good, x \notin T
      PROVE  T \cup {x} \in Good
  <2> DEFINE U == T \cup {x}
  <2>1. IsFiniteSet(T) /\ U \in SUBSET S
      BY FS_Subset
  <2>2. F(U) \in [U -> Nat] /\ K(U) \in [U -> Nat]
      OBVIOUS
  <2>3. F(T) \in [T -> Nat] /\ K(T) \in [T -> Nat]
      OBVIOUS
  <2>4. Total(F(T)) \in Nat /\ Total(K(T)) \in Nat
      BY <2>1, <2>3, TotalType
  <2>5. /\ \A y \in T : F(U)[y] = F(T)[y] /\ K(U)[y] = K(T)[y]
        /\ F(U)[x] = f[x] /\ K(U)[x] = k * f[x]
      OBVIOUS
  <2>6. Total(K(T)) = k * Total(F(T))
      BY <1>2
  <2>7. f[x] \in Nat
      OBVIOUS
  <2>8. ASSUME NEW u \in [U -> Nat], NEW t \in [T -> Nat], \A y \in T : u[y] = t[y]
        PROVE  Total(u) = u[x] + Total(t)
    <3>1. U = T \cup {x}
        OBVIOUS
    <3> HIDE DEF U, F, K, Good
    <3> QED
        BY <1>2, <2>1, <2>8, <3>1, TotalExtend
  <2> HIDE DEF F, K
  <2>9. Total(F(U)) = f[x] + Total(F(T))
      BY <2>2, <2>3, <2>5, <2>8
  <2>10. Total(K(U)) = k * f[x] + Total(K(T))
      BY <2>2, <2>3, <2>5, <2>8
  <2>11. Total(K(U)) = k * Total(F(U))
      BY <2>4, <2>6, <2>7, <2>9, <2>10
  <2> QED
      BY <2>1, <2>11
<1>3. S \in Good
  <2> HIDE DEF Good
  <2> QED
      BY <1>1, <1>2, SubsetInduction
<1>4. F(S) = f
    OBVIOUS
<1> QED
    BY <1>3, <1>4

(* Dividing an amount over a table of weights, rounding every part down,   *)
(* never gives more than the amount.                                       *)
LEMMA TotalOfParts ==
    ASSUME NEW S, IsFiniteSet(S), NEW w \in [S -> Nat], NEW n \in Nat, NEW W \in Nat,
           W > 0, Total(w) <= W
    PROVE  /\ [x \in S |-> (n * w[x]) \div W] \in [S -> Nat]
           /\ Total([x \in S |-> (n * w[x]) \div W]) <= n
PROOF
<1> DEFINE p == [x \in S |-> (n * w[x]) \div W]
           Wp == [x \in S |-> W * p[x]]
           nw == [x \in S |-> n * w[x]]
<1>1. \A x \in S : n * w[x] \in Nat
    OBVIOUS
<1>2. p \in [S -> Nat] /\ \A x \in S : W * p[x] <= n * w[x]
    BY <1>1, Quotient
<1>3. Wp \in [S -> Nat] /\ nw \in [S -> Nat] /\ \A x \in S : Wp[x] <= nw[x]
    BY <1>1, <1>2
<1>4. Wp = [x \in S |-> W * p[x]] /\ nw = [x \in S |-> n * w[x]]
    OBVIOUS
<1> HIDE DEF p, Wp, nw
<1>5. Total(Wp) <= Total(nw)
    BY <1>3, TotalMonotone
<1>6. Total(Wp) = W * Total(p) /\ Total(nw) = n * Total(w)
    BY <1>2, <1>4, TotalScaled
<1>7. Total(p) \in Nat /\ Total(w) \in Nat
    BY <1>2, TotalType
<1>8. n * Total(w) <= n * W
    BY <1>7
<1>9. W * Total(p) <= W * n
    BY <1>5, <1>6, <1>7, <1>8
<1>10. Total(p) <= n
    BY <1>7, <1>9
<1> QED
    BY <1>2, <1>10 DEF p

-----------------------------------------------------------------------------
(* The invariant                                                           *)

BankSound == BankTypeOK /\ EscrowBacked

(* What a step puts into circulation is what it records as minted.         *)
SupplyStep == circulatingSupply' - circulatingSupply = Minted' - Minted

BankInv == BankSound /\ SupplyConserved

ContractIds == DOMAIN contracts

CostsOf(status) == [id \in ContractIds |-> IF contracts[id].status = status THEN contracts[id].cost ELSE 0]

-----------------------------------------------------------------------------

LEMMA ConstantTypes ==
    /\ IsFiniteSet(Addr) /\ Genesis \in [Addr -> Nat] /\ BLOCK_REWARD \in Nat
    /\ \A t \in Times : t \in Nat
    /\ \A f \in Fees : f \in Nat
    /\ \A c \in Costs : c \in Nat
    /\ \A d \in Durations : d \in Nat
    /\ CONTRACT_ACCEPT_WINDOW \in Nat
PROOF BY LedgerAssumption, BankAssumption

LEMMA DivNat ==
    ASSUME NEW a \in Nat, NEW b \in Nat, b # 0
    PROVE  a \div b \in Nat
PROOF OBVIOUS

LEMMA MulNat ==
    ASSUME NEW a \in Nat, NEW b \in Nat
    PROVE  a * b \in Nat
PROOF OBVIOUS

(* Interest is a natural number, however block time runs.                  *)
LEMMA InterestType ==
    ASSUME NEW p \in Nat, NEW e \in Int
    PROVE  accruedInterest(p, e) \in Nat
PROOF
<1> DEFINE capped == IF e < MAX_CONTRACT_DURATION THEN e ELSE MAX_CONTRACT_DURATION
<1>1. CASE e <= 0
    BY <1>1 DEF accruedInterest
<1>2. CASE e > 0
  <2>1. capped \in Nat
      BY <1>2, BankAssumption
  <2>2. (p * BANK_INTEREST_APR_BPS) * capped \in Nat
      BY <2>1, BankAssumption, MulNat
  <2>3. BPS * MS_PER_YEAR \in Nat /\ BPS * MS_PER_YEAR # 0
      BY BankAssumption DEF BPS
  <2>4. ((p * BANK_INTEREST_APR_BPS) * capped) \div (BPS * MS_PER_YEAR) \in Nat
      BY <2>2, <2>3, DivNat
  <2> QED
      BY <1>2, <2>4 DEF accruedInterest
<1> QED
    BY <1>1, <1>2

LEMMA HeldType ==
    ASSUME BankTypeOK, NEW status
    PROVE  CostsOf(status) \in [ContractIds -> Nat] /\ Total(CostsOf(status)) \in Nat
           /\ HeldBy(status) = Total(CostsOf(status))
           /\ IsFiniteSet(ContractIds)
PROOF
<1>1. CostsOf(status) \in [ContractIds -> Nat]
    BY DEF BankTypeOK, Contract, CostsOf, ContractIds
<1>2. IsFiniteSet(ContractIds)
    BY DEF BankTypeOK, ContractIds
<1>3. Total(CostsOf(status)) \in Nat
    BY <1>1, <1>2, TotalType
<1> QED
    BY <1>1, <1>2, <1>3 DEF HeldBy, CostsOf, ContractIds

(* What the bank holds covers the cost of any one open contract.           *)
LEMMA EscrowCovers ==
    ASSUME BankSound, NEW id \in ContractIds
    PROVE  /\ contracts[id].cost \in Nat
           /\ contracts[id].status = "proposed" => contracts[id].cost <= bank.pending
           /\ contracts[id].status = "active" => contracts[id].cost <= bank.vault
PROOF
<1>1. contracts[id].cost \in Nat
    BY DEF BankSound, BankTypeOK, Contract, ContractIds
<1>2. \A status : CostsOf(status) \in [ContractIds -> Nat] /\ HeldBy(status) = Total(CostsOf(status))
                  /\ IsFiniteSet(ContractIds)
    BY HeldType DEF BankSound
<1>3. \A status : CostsOf(status)[id] <= Total(CostsOf(status))
    BY <1>2, TotalAt
<1>4. \A status : contracts[id].status = status => CostsOf(status)[id] = contracts[id].cost
    BY DEF CostsOf
<1> QED
    BY <1>1, <1>2, <1>3, <1>4 DEF BankSound, EscrowBacked

(* One contract moves from one status to another and keeps its cost.       *)
LEMMA OneContractMoves ==
    ASSUME BankTypeOK, BankTypeOK', NEW id \in ContractIds, NEW c,
           contracts' = [contracts EXCEPT ![id] = c],
           c.cost = contracts[id].cost
    PROVE  \A status :
             HeldBy(status)' = HeldBy(status)
                 - (IF contracts[id].status = status THEN contracts[id].cost ELSE 0)
                 + (IF c.status = status THEN contracts[id].cost ELSE 0)
PROOF
<1> SUFFICES ASSUME NEW status
             PROVE  HeldBy(status)' = HeldBy(status)
                 - (IF contracts[id].status = status THEN contracts[id].cost ELSE 0)
                 + (IF c.status = status THEN contracts[id].cost ELSE 0)
    OBVIOUS
<1> DEFINE f == CostsOf(status)
           e == [i \in ContractIds |-> IF contracts'[i].status = status THEN contracts'[i].cost ELSE 0]
<1>1. f \in [ContractIds -> Nat] /\ HeldBy(status) = Total(f) /\ IsFiniteSet(ContractIds)
    BY HeldType
<1>2. ContractIds' = ContractIds
    BY DEF ContractIds
<1>3. e \in [ContractIds -> Nat]
    BY <1>2 DEF BankTypeOK, Contract, ContractIds
<1>4. HeldBy(status)' = Total(e)
    BY <1>2 DEF HeldBy, ContractIds
<1>5. \A i \in ContractIds : i # id => e[i] = f[i]
    BY DEF CostsOf, ContractIds
<1>6. /\ f[id] = IF contracts[id].status = status THEN contracts[id].cost ELSE 0
      /\ e[id] = IF c.status = status THEN contracts[id].cost ELSE 0
    BY DEF CostsOf, ContractIds
<1> HIDE DEF e, f
<1>7. Total(e) = Total(f) - f[id] + e[id]
    BY <1>1, <1>3, <1>5, TotalChange
<1> QED
    BY <1>1, <1>4, <1>6, <1>7

(* A new contract adds its own cost and nothing else.                      *)
LEMMA OneContractAppears ==
    ASSUME BankTypeOK, NEW id, id \notin ContractIds, NEW c \in Contract,
           contracts' = With(contracts, id, c)
    PROVE  \A status : HeldBy(status)' = HeldBy(status) + (IF c.status = status THEN c.cost ELSE 0)
PROOF
<1> SUFFICES ASSUME NEW status
             PROVE  HeldBy(status)' = HeldBy(status) + (IF c.status = status THEN c.cost ELSE 0)
    OBVIOUS
<1> DEFINE f == CostsOf(status)
           U == ContractIds \cup {id}
           e == [i \in U |-> IF contracts'[i].status = status THEN contracts'[i].cost ELSE 0]
<1>1. f \in [ContractIds -> Nat] /\ HeldBy(status) = Total(f) /\ IsFiniteSet(ContractIds) /\ Total(f) \in Nat
    BY HeldType
<1>2. DOMAIN contracts' = U
    BY DEF With, ContractIds
<1>3. contracts'[id] = c /\ \A i \in ContractIds : contracts'[i] = contracts[i]
    BY <1>2 DEF With, ContractIds
<1>4. e \in [U -> Nat]
    BY <1>3 DEF BankTypeOK, Contract, ContractIds
<1>5. HeldBy(status)' = Total(e)
    BY <1>2 DEF HeldBy
<1>6. \A i \in ContractIds : e[i] = f[i]
    BY <1>3 DEF CostsOf, ContractIds
<1>7. e[id] = IF c.status = status THEN c.cost ELSE 0
    BY <1>3
<1>8. U = ContractIds \cup {id}
    OBVIOUS
<1> HIDE DEF e, f, U
<1>9. Total(e) = e[id] + Total(f)
  <2>1. IsFiniteSet(ContractIds) /\ id \notin ContractIds
      BY <1>1
  <2>2. f \in [ContractIds -> Nat] /\ e \in [U -> Nat]
      BY <1>1, <1>4
  <2>3. \A g \in [ContractIds -> Nat], h \in [U -> Nat] :
            (\A i \in ContractIds : h[i] = g[i]) => Total(h) = h[id] + Total(g)
      BY ONLY <2>1, <1>8, TotalExtend
  <2> QED
      BY <1>6, <2>2, <2>3
<1>10. c.cost \in Nat
    BY DEF Contract
<1> QED
    BY <1>1, <1>5, <1>7, <1>9, <1>10

-----------------------------------------------------------------------------
(* What every transaction has in common.                                   *)

LEMMA LandedType ==
    ASSUME LedgerTypeOK, block.open, NEW from \in Addr, NEW fee \in Nat, Landed(from, fee)
    PROVE  /\ nonce' \in [Addr -> Nat]
           /\ block' \in [open : BOOLEAN, timestamp : Nat, fees : Nat]
           /\ block'.open /\ block'.fees = block.fees + fee /\ block.fees \in Nat
           /\ height' = height /\ height' \in Nat
           /\ recent' = recent /\ recent' \in Seq(Nat)
PROOF
<1>1. nonce' \in [Addr -> Nat]
    BY DEF LedgerTypeOK, Landed
<1>2. /\ block' \in [open : BOOLEAN, timestamp : Nat, fees : Nat]
      /\ block'.open = block.open
      /\ block'.fees = block.fees + fee /\ block.fees \in Nat
  <2>1. block \in [open : BOOLEAN, timestamp : Nat, fees : Nat]
      BY DEF LedgerTypeOK
  <2>2. block' = [block EXCEPT !.fees = block.fees + fee]
      BY DEF Landed
  <2>3. block.fees + fee \in Nat /\ block.fees \in Nat
      BY <2>1
  <2> QED
      BY <2>1, <2>2, <2>3
<1>3. height' = height /\ height' \in Nat /\ recent' = recent /\ recent' \in Seq(Nat)
    BY DEF LedgerTypeOK, Landed
<1> QED
    BY <1>1, <1>2, <1>3

LEMMA LedgerFields ==
    ASSUME LedgerTypeOK
    PROVE  /\ bank \in [pending : Nat, vault : Nat, treasury : Nat, interestPaid : Nat]
           /\ block.timestamp \in Nat /\ block.fees \in Nat
PROOF
<1>1. bank \in [pending : Nat, vault : Nat, treasury : Nat, interestPaid : Nat]
    BY DEF LedgerTypeOK
<1>2. block \in [open : BOOLEAN, timestamp : Nat, fees : Nat]
    BY DEF LedgerTypeOK
<1> QED
    BY <1>1, <1>2

(* The amounts that circulatingSupply and Minted add up.                   *)
LEMMA SupplyTerms ==
    ASSUME LedgerTypeOK
    PROVE  /\ Total(balance) \in Nat
           /\ bank.pending \in Nat /\ bank.vault \in Nat
           /\ bank.treasury \in Nat /\ bank.interestPaid \in Nat
           /\ block.fees \in Nat
           /\ Total(Genesis) \in Nat /\ BLOCK_REWARD \in Nat
           /\ height \in Nat /\ BLOCK_REWARD * height \in Nat
PROOF
<1>1. balance \in [Addr -> Nat] /\ IsFiniteSet(Addr) /\ Genesis \in [Addr -> Nat]
    BY ConstantTypes DEF LedgerTypeOK
<1>2. Total(balance) \in Nat /\ Total(Genesis) \in Nat
    BY <1>1, TotalType
<1>3. bank.pending \in Nat /\ bank.vault \in Nat /\ bank.treasury \in Nat
      /\ bank.interestPaid \in Nat
    BY DEF LedgerTypeOK
<1>4. block.fees \in Nat /\ height \in Nat
    BY DEF LedgerTypeOK
<1>5. BLOCK_REWARD \in Nat
    BY ConstantTypes
<1> QED
    BY <1>2, <1>3, <1>4, <1>5, MulNat

LEMMA SupplyTypes == LedgerTypeOK => circulatingSupply \in Nat /\ Minted \in Nat
PROOF BY SupplyTerms DEF circulatingSupply, Minted

LEMMA SupplyTypesNext == (LedgerTypeOK => circulatingSupply \in Nat /\ Minted \in Nat)'
PROOF BY SupplyTypes, PTL

(* Paying a fee and a cost out of an account.                              *)
LEMMA PaidType ==
    ASSUME LedgerTypeOK, NEW from \in Addr, NEW n \in Nat, n <= balance[from]
    PROVE  /\ Minus(balance, from, n) \in [Addr -> Nat]
           /\ Total(Minus(balance, from, n)) = Total(balance) - n
           /\ Total(balance) \in Nat
           /\ n <= Total(balance)
PROOF
<1>1. balance \in [Addr -> Nat] /\ IsFiniteSet(Addr)
    BY ConstantTypes DEF LedgerTypeOK
<1>2. balance[from] <= Total(balance) /\ Total(balance) \in Nat /\ balance[from] \in Nat
    BY <1>1, TotalAt, TotalType
<1> QED
    BY <1>1, <1>2, TotalMinus

(* Paying an account an amount.                                            *)
LEMMA CoinPaid ==
    ASSUME NEW f \in [Addr -> Nat], NEW a \in Addr, NEW n \in Nat
    PROVE  Plus(f, a, n) \in [Addr -> Nat] /\ Total(Plus(f, a, n)) = Total(f) + n
PROOF
<1>1. IsFiniteSet(Addr)
    BY ConstantTypes
<1> QED
    BY <1>1, TotalPlus

LEMMA TransferStep ==
    ASSUME BankSound, NEW from \in Addr, NEW to \in Addr, NEW n \in Nat, NEW fee \in Nat,
           Transfer(from, to, n, fee), UNCHANGED contracts
    PROVE  BankSound' /\ SupplyStep
PROOF
<1> DEFINE b == Minus(balance, from, fee + n)
<1>0. BankTypeOK /\ LedgerTypeOK
    BY DEF BankSound, BankTypeOK
<1>1. block.open /\ fee + n <= balance[from] /\ Landed(from, fee) /\ fee + n \in Nat
    BY DEF Transfer, CanPay
<1>2. b \in [Addr -> Nat] /\ Total(b) = Total(balance) - (fee + n) /\ Total(balance) \in Nat
    BY <1>0, <1>1, PaidType
<1>3. balance' = Plus(b, to, n) /\ bank' = bank
    BY DEF Transfer
<1> HIDE DEF b
<1>4. balance' \in [Addr -> Nat] /\ Total(balance') = Total(balance) - fee
  <2>1. IsFiniteSet(Addr)
      BY ConstantTypes
  <2>2. Plus(b, to, n) \in [Addr -> Nat] /\ Total(Plus(b, to, n)) = Total(b) + n
      BY <1>2, <2>1, TotalPlus
  <2> QED
      BY <1>2, <1>3, <2>2
<1>5. BankTypeOK'
    BY <1>0, <1>1, <1>3, <1>4, LandedType DEF BankTypeOK, LedgerTypeOK
<1>6. EscrowBacked'
    BY <1>3 DEF BankSound, EscrowBacked, HeldBy
<1>7. SupplyStep
  <2>1. block'.fees = block.fees + fee /\ height' = height
      BY <1>0, <1>1, LandedType
  <2>2. bank' = bank /\ Total(balance') = Total(balance) - fee
      BY <1>3, <1>4
  <2>3. circulatingSupply' = circulatingSupply /\ Minted' = Minted
      BY <1>0, <2>1, <2>2, SupplyTerms DEF circulatingSupply, Minted
  <2> QED
      BY <1>0, <2>3, SupplyTypes DEF SupplyStep
<1> QED
    BY <1>5, <1>6, <1>7 DEF BankSound

LEMMA CreateStep ==
    ASSUME BankSound, NEW from \in Addr, NEW fee \in Nat, NEW contractee \in Addr,
           NEW cost \in Nat, NEW duration \in Nat,
           CreateContract(from, fee, contractee, cost, duration)
    PROVE  BankSound' /\ SupplyStep
PROOF
<1> DEFINE id == TxId(from)
           c == [contracter |-> from, contractee |-> contractee, cost |-> cost,
                 status |-> "proposed", durationMs |-> duration,
                 acceptDeadline |-> block.timestamp + CONTRACT_ACCEPT_WINDOW,
                 acceptedAt |-> Never, endTime |-> Never, settledAt |-> Never,
                 interest |-> 0]
<1>0. BankTypeOK /\ LedgerTypeOK
    BY DEF BankSound, BankTypeOK
<1>1. block.open /\ fee + cost <= balance[from] /\ Landed(from, fee) /\ fee + cost \in Nat
    BY DEF CreateContract, CanPay
<1>2. balance' \in [Addr -> Nat] /\ Total(balance') = Total(balance) - (fee + cost)
      /\ Total(balance) \in Nat
    BY <1>0, <1>1, PaidType DEF CreateContract
<1>3. id \in Addr \X Nat /\ id \notin ContractIds /\ contracts' = With(contracts, id, c)
    BY <1>0 DEF CreateContract, TxId, ContractIds, LedgerTypeOK
<1>4. c \in Contract
  <2>1. block.timestamp + CONTRACT_ACCEPT_WINDOW \in Nat
      BY <1>0, LedgerFields, ConstantTypes
  <2> QED
      BY <2>1 DEF Contract, Never
<1>5. c.status = "proposed" /\ c.cost = cost
    OBVIOUS
<1>6. bank' = [bank EXCEPT !.pending = @ + cost]
    BY DEF CreateContract
<1> HIDE DEF c, id
<1>7. BankTypeOK'
  <2>1. DOMAIN contracts' = ContractIds \cup {id}
      BY <1>3 DEF With, ContractIds
  <2>2. IsFiniteSet(ContractIds \cup {id})
      BY <1>0, FS_AddElement DEF BankTypeOK, ContractIds
  <2>3. contracts' \in [ContractIds \cup {id} -> Contract]
      BY <1>0, <1>3, <1>4 DEF BankTypeOK, ContractIds, With
  <2>4. bank' \in [pending : Nat, vault : Nat, treasury : Nat, interestPaid : Nat]
      BY <1>0, <1>6, LedgerFields
  <2>5. LedgerTypeOK'
      BY <1>0, <1>1, <1>2, <2>4, LandedType DEF LedgerTypeOK
  <2> QED
      BY <1>0, <1>3, <2>1, <2>2, <2>3, <2>5 DEF BankTypeOK, ContractIds
<1>8. \A status : HeldBy(status)' = HeldBy(status) + (IF c.status = status THEN c.cost ELSE 0)
    BY <1>0, <1>3, <1>4, OneContractAppears
<1>9. HeldBy("proposed")' = HeldBy("proposed") + cost /\ HeldBy("active")' = HeldBy("active") + 0
    BY <1>5, <1>8
<1>10. EscrowBacked'
    BY <1>0, <1>6, <1>9 DEF BankSound, EscrowBacked, BankTypeOK, LedgerTypeOK
<1>11. SupplyStep
  <2>1. block'.fees = block.fees + fee /\ height' = height
      BY <1>0, <1>1, LandedType
  <2>2. /\ bank'.pending = bank.pending + cost /\ bank'.vault = bank.vault
        /\ bank'.treasury = bank.treasury /\ bank'.interestPaid = bank.interestPaid
      BY <1>0, <1>6 DEF LedgerTypeOK
  <2>3. circulatingSupply' = circulatingSupply /\ Minted' = Minted
      BY <1>0, <1>2, <2>1, <2>2, SupplyTerms DEF circulatingSupply, Minted
  <2> QED
      BY <1>0, <2>3, SupplyTypes DEF SupplyStep
<1> QED
    BY <1>7, <1>10, <1>11 DEF BankSound

LEMMA AcceptStep ==
    ASSUME BankSound, NEW from \in Addr, NEW fee \in Nat, NEW id \in ContractIds,
           AcceptContract(from, fee, id)
    PROVE  BankSound' /\ SupplyStep
PROOF
<1> DEFINE c == [contracts[id] EXCEPT !.status = "active", !.acceptedAt = block.timestamp,
                                      !.endTime = block.timestamp + contracts[id].durationMs]
<1>0. BankTypeOK /\ LedgerTypeOK /\ contracts[id] \in Contract
    BY DEF BankSound, BankTypeOK, ContractIds
<1>1. block.open /\ fee <= balance[from] /\ Landed(from, fee)
    BY <1>0 DEF AcceptContract, CanPay, LedgerTypeOK
<1>2. balance' \in [Addr -> Nat] /\ Total(balance') = Total(balance) - fee /\ Total(balance) \in Nat
    BY <1>0, <1>1, PaidType DEF AcceptContract
<1>3. contracts' = [contracts EXCEPT ![id] = c]
    BY DEF AcceptContract
<1>4. c \in Contract /\ c.status = "active" /\ c.cost = contracts[id].cost
  <2>1. block.timestamp \in Nat /\ block.timestamp + contracts[id].durationMs \in Nat
      BY <1>0, LedgerFields DEF Contract
  <2> QED
      BY <1>0, <2>1 DEF Contract
<1>5. contracts[id].status = "proposed"
      /\ bank' = [bank EXCEPT !.pending = @ - contracts[id].cost, !.vault = @ + contracts[id].cost]
    BY DEF AcceptContract
<1> HIDE DEF c
<1>6. contracts[id].cost \in Nat /\ contracts[id].cost <= bank.pending
    BY <1>5, EscrowCovers
<1>7. BankTypeOK'
  <2>0. bank' \in [pending : Nat, vault : Nat, treasury : Nat, interestPaid : Nat]
    <3>1. bank \in [pending : Nat, vault : Nat, treasury : Nat, interestPaid : Nat]
        BY <1>0, LedgerFields
    <3>2. bank.pending - contracts[id].cost \in Nat /\ bank.vault + contracts[id].cost \in Nat
        BY <1>6, <3>1
    <3> QED
        BY ONLY <1>5, <3>1, <3>2
  <2>1. LedgerTypeOK'
      BY <1>0, <1>1, <1>2, <2>0, LandedType DEF LedgerTypeOK
  <2> QED
      BY <1>0, <1>3, <1>4, <2>1 DEF BankTypeOK, ContractIds
<1>8. \A status : HeldBy(status)' = HeldBy(status)
                 - (IF contracts[id].status = status THEN contracts[id].cost ELSE 0)
                 + (IF c.status = status THEN contracts[id].cost ELSE 0)
    BY <1>0, <1>3, <1>4, <1>7, OneContractMoves
<1>9. /\ HeldBy("proposed")' = HeldBy("proposed") - contracts[id].cost + 0
      /\ HeldBy("active")' = HeldBy("active") - 0 + contracts[id].cost
    BY <1>4, <1>5, <1>8
<1>10. EscrowBacked'
    BY <1>0, <1>5, <1>6, <1>9 DEF BankSound, EscrowBacked, LedgerTypeOK
<1>11. SupplyStep
  <2>1. block'.fees = block.fees + fee /\ height' = height
      BY <1>0, <1>1, LandedType
  <2>2. /\ bank'.pending = bank.pending - contracts[id].cost
        /\ bank'.vault = bank.vault + contracts[id].cost
        /\ bank'.treasury = bank.treasury /\ bank'.interestPaid = bank.interestPaid
      BY <1>0, <1>5 DEF LedgerTypeOK
  <2>3. circulatingSupply' = circulatingSupply /\ Minted' = Minted
      BY <1>0, <1>2, <1>6, <2>1, <2>2, SupplyTerms DEF circulatingSupply, Minted
  <2> QED
      BY <1>0, <2>3, SupplyTypes DEF SupplyStep
<1> QED
    BY <1>7, <1>10, <1>11 DEF BankSound

LEMMA RefundStep ==
    ASSUME BankSound, NEW from \in Addr, NEW fee \in Nat, NEW id \in ContractIds,
           NEW status \in {"rejected", "cancelled"}, Refund(from, fee, id, status)
    PROVE  BankSound' /\ SupplyStep
PROOF
<1> DEFINE c == Closed(contracts[id], status, block.timestamp)
           cost == contracts[id].cost
           b == Minus(balance, from, fee)
<1>0. BankTypeOK /\ LedgerTypeOK /\ contracts[id] \in Contract
    BY DEF BankSound, BankTypeOK, ContractIds
<1>1. block.open /\ fee <= balance[from] /\ Landed(from, fee)
    BY <1>0 DEF Refund, CanPay, LedgerTypeOK
<1>2. b \in [Addr -> Nat] /\ Total(b) = Total(balance) - fee /\ Total(balance) \in Nat
    BY <1>0, <1>1, PaidType
<1>3. contracts[id].status = "proposed" /\ contracts' = [contracts EXCEPT ![id] = c]
      /\ bank' = [bank EXCEPT !.pending = @ - cost]
      /\ balance' = Plus(b, contracts[id].contracter, cost)
    BY DEF Refund, Refunded
<1>4. c \in Contract /\ c.status = status /\ c.cost = cost
    BY <1>0, <1>3 DEF Contract, Closed, Earned, LedgerTypeOK
<1>5. cost \in Nat /\ cost <= bank.pending /\ contracts[id].contracter \in Addr
    BY <1>0, <1>3, EscrowCovers DEF Contract
<1> HIDE DEF c, b
<1>6. balance' \in [Addr -> Nat] /\ Total(balance') = Total(balance) - fee + cost
  <2>1. b \in [Addr -> Nat] /\ contracts[id].contracter \in Addr /\ cost \in Nat
      BY <1>2, <1>5
  <2>2. balance' \in [Addr -> Nat] /\ Total(balance') = Total(b) + cost
      BY <1>3, <2>1, CoinPaid
  <2> QED
      BY <1>2, <2>1, <2>2
<1>7. BankTypeOK'
  <2>0. bank' \in [pending : Nat, vault : Nat, treasury : Nat, interestPaid : Nat]
      BY <1>0, <1>3, <1>5, LedgerFields
  <2>1. LedgerTypeOK'
      BY <1>0, <1>1, <1>6, <2>0, LandedType DEF LedgerTypeOK
  <2> QED
      BY <1>0, <1>3, <1>4, <2>1 DEF BankTypeOK, ContractIds
<1>8. \A s : HeldBy(s)' = HeldBy(s) - (IF contracts[id].status = s THEN cost ELSE 0)
                                   + (IF c.status = s THEN cost ELSE 0)
    BY <1>0, <1>3, <1>4, <1>7, OneContractMoves
<1>9. /\ HeldBy("proposed")' = HeldBy("proposed") - cost + 0
      /\ HeldBy("active")' = HeldBy("active") - 0 + 0
    BY <1>3, <1>4, <1>8
<1>10. EscrowBacked'
    BY <1>0, <1>3, <1>5, <1>9 DEF BankSound, EscrowBacked, LedgerTypeOK
<1>11. SupplyStep
  <2>1. block'.fees = block.fees + fee /\ height' = height
      BY <1>0, <1>1, LandedType
  <2>2. /\ bank'.pending = bank.pending - cost /\ bank'.vault = bank.vault
        /\ bank'.treasury = bank.treasury /\ bank'.interestPaid = bank.interestPaid
      BY <1>0, <1>3 DEF LedgerTypeOK
  <2>3. circulatingSupply' = circulatingSupply /\ Minted' = Minted
      BY <1>0, <1>2, <1>5, <1>6, <2>1, <2>2, SupplyTerms DEF circulatingSupply, Minted
  <2> QED
      BY <1>0, <2>3, SupplyTypes DEF SupplyStep
<1> QED
    BY <1>7, <1>10, <1>11 DEF BankSound

(* Interest a contract earns at any time.                                  *)
LEMMA EarnedType ==
    ASSUME NEW c \in Contract, NEW ts \in Nat
    PROVE  Earned(c, ts) \in Nat
PROOF
<1>1. c.cost \in Nat /\ ts - c.acceptedAt \in Int
    BY DEF Contract, Never
<1> QED
    BY <1>1, InterestType DEF Earned

LEMMA ResolveStep ==
    ASSUME BankSound, NEW from \in Addr, NEW fee \in Nat, NEW id \in ContractIds,
           ResolveContract(from, fee, id)
    PROVE  BankSound' /\ SupplyStep
PROOF
<1> DEFINE c == Closed(contracts[id], "settled", block.timestamp)
           cost == contracts[id].cost
           interest == Earned(contracts[id], block.timestamp)
           b == Minus(balance, from, fee)
<1>0. BankTypeOK /\ LedgerTypeOK /\ contracts[id] \in Contract
    BY DEF BankSound, BankTypeOK, ContractIds
<1>1. block.open /\ fee <= balance[from] /\ Landed(from, fee)
    BY <1>0 DEF ResolveContract, CanPay, LedgerTypeOK
<1>2. b \in [Addr -> Nat] /\ Total(b) = Total(balance) - fee /\ Total(balance) \in Nat
    BY <1>0, <1>1, PaidType
<1>3. contracts[id].status = "active" /\ contracts' = [contracts EXCEPT ![id] = c]
      /\ bank' = [bank EXCEPT !.vault = @ - cost, !.treasury = @ + interest,
                              !.interestPaid = @ + interest]
      /\ balance' = Plus(b, contracts[id].contractee, cost)
    BY DEF ResolveContract, Settled
<1>4. interest \in Nat
    BY <1>0, EarnedType DEF LedgerTypeOK
<1>5. c \in Contract /\ c.status = "settled" /\ c.cost = cost
    BY <1>0, <1>4 DEF Contract, Closed, LedgerTypeOK
<1>6. cost \in Nat /\ cost <= bank.vault /\ contracts[id].contractee \in Addr
    BY <1>0, <1>3, EscrowCovers DEF Contract
<1> HIDE DEF c, b, interest
<1>7. balance' \in [Addr -> Nat] /\ Total(balance') = Total(balance) - fee + cost
  <2>1. b \in [Addr -> Nat] /\ contracts[id].contractee \in Addr /\ cost \in Nat
      BY <1>2, <1>6
  <2>2. balance' \in [Addr -> Nat] /\ Total(balance') = Total(b) + cost
      BY <1>3, <2>1, CoinPaid
  <2> QED
      BY <1>2, <2>1, <2>2
<1>8. BankTypeOK'
  <2>0. bank' \in [pending : Nat, vault : Nat, treasury : Nat, interestPaid : Nat]
    <3>1. bank \in [pending : Nat, vault : Nat, treasury : Nat, interestPaid : Nat]
        BY <1>0, LedgerFields
    <3>2. bank.vault - cost \in Nat /\ bank.treasury + interest \in Nat
          /\ bank.interestPaid + interest \in Nat
        BY <1>4, <1>6, <3>1
    <3> QED
        BY ONLY <1>3, <3>1, <3>2
  <2>1. LedgerTypeOK'
      BY <1>0, <1>1, <1>7, <2>0, LandedType DEF LedgerTypeOK
  <2> QED
      BY <1>0, <1>3, <1>5, <2>1 DEF BankTypeOK, ContractIds
<1>9. \A s : HeldBy(s)' = HeldBy(s) - (IF contracts[id].status = s THEN cost ELSE 0)
                                   + (IF c.status = s THEN cost ELSE 0)
    BY <1>0, <1>3, <1>5, <1>8, OneContractMoves
<1>10. /\ HeldBy("proposed")' = HeldBy("proposed") - 0 + 0
       /\ HeldBy("active")' = HeldBy("active") - cost + 0
    BY <1>3, <1>5, <1>9
<1>11. EscrowBacked'
    BY <1>0, <1>3, <1>6, <1>10 DEF BankSound, EscrowBacked, LedgerTypeOK
<1>12. SupplyStep
  <2>1. block'.fees = block.fees + fee /\ height' = height
      BY <1>0, <1>1, LandedType
  <2>2. /\ bank'.pending = bank.pending /\ bank'.vault = bank.vault - cost
        /\ bank'.treasury = bank.treasury + interest
        /\ bank'.interestPaid = bank.interestPaid + interest
      BY <1>0, <1>3 DEF LedgerTypeOK
  <2>3. circulatingSupply' = circulatingSupply + interest /\ Minted' = Minted + interest
      BY <1>0, <1>4, <1>6, <1>7, <2>1, <2>2, SupplyTerms DEF circulatingSupply, Minted
  <2> QED
      BY <1>0, <1>4, <2>3, SupplyTypes DEF SupplyStep
<1> QED
    BY <1>8, <1>11, <1>12 DEF BankSound

-----------------------------------------------------------------------------
(* The sweep at the end of a block.                                        *)

LEMMA OverdueIsOpen ==
    ASSUME NEW c, NEW ts, Overdue(c, ts)
    PROVE  c.status = "proposed" \/ c.status = "active"
PROOF BY DEF Overdue

LEMMA SweepTypes ==
    ASSUME BankTypeOK
    PROVE  /\ IsFiniteSet(ContractIds)
           /\ \A status : SweepOf(status) \in [ContractIds -> Nat]
           /\ SweptCoin \in [ContractIds -> Nat]
           /\ SweptInterest \in [ContractIds -> Nat]
PROOF
<1>1. IsFiniteSet(ContractIds)
    BY DEF BankTypeOK, ContractIds
<1>2. \A id \in ContractIds : contracts[id] \in Contract /\ contracts[id].cost \in Nat
    BY DEF BankTypeOK, Contract, ContractIds
<1>3. \A id \in ContractIds : Earned(contracts[id], block.timestamp) \in Nat
    BY <1>2, EarnedType, LedgerFields DEF BankTypeOK
<1>4. \A status : SweepOf(status) \in [ContractIds -> Nat]
    BY <1>2 DEF SweepOf, Swept, ContractIds
<1>5. SweptCoin \in [ContractIds -> Nat]
    BY <1>2 DEF SweptCoin, ContractIds
<1>6. SweptInterest \in [ContractIds -> Nat]
    BY <1>3 DEF SweptInterest, ContractIds
<1> QED
    BY <1>1, <1>4, <1>5, <1>6

(* All that the sweep pays out comes out of pending and vault.             *)
LEMMA PayoutsTotal ==
    ASSUME BankTypeOK
    PROVE  /\ Payouts \in [Addr -> Nat]
           /\ Total(Payouts) = Total(SweepOf("proposed")) + Total(SweepOf("active"))
PROOF
<1> DEFINE p == SweepOf("proposed")
           v == SweepOf("active")
           owner == [id \in ContractIds |-> Payee(contracts[id])]
<1>1. /\ IsFiniteSet(ContractIds) /\ SweptCoin \in [ContractIds -> Nat]
      /\ p \in [ContractIds -> Nat] /\ v \in [ContractIds -> Nat]
    BY SweepTypes
<1>2. owner \in [ContractIds -> Addr]
    BY DEF BankTypeOK, Contract, Payee, ContractIds
<1>3. Payouts = Groups(ContractIds, Addr, SweptCoin, owner)
    BY DEF Payouts, Groups, ContractIds
<1>4. IsFiniteSet(Addr)
    BY ConstantTypes
<1>5. \A id \in ContractIds : SweptCoin[id] = p[id] + v[id]
  <2>1. \A id \in ContractIds : contracts[id].cost \in Nat
      BY DEF BankTypeOK, Contract, ContractIds
  <2> QED
      BY <2>1, OverdueIsOpen DEF SweptCoin, SweepOf, Swept, ContractIds
<1>6. SweptCoin = [id \in ContractIds |-> p[id] + v[id]]
    BY <1>1, <1>5
<1> HIDE DEF p, v, owner
<1>7. Total(SweptCoin) = Total(p) + Total(v)
    BY <1>1, <1>6, TotalSum
<1>8. Payouts \in [Addr -> Nat] /\ Total(Payouts) = Total(SweptCoin)
    BY <1>1, <1>2, <1>3, <1>4, TotalByOwner
<1> QED
    BY <1>7, <1>8 DEF p, v

(* What is still held after the sweep.                                     *)
LEMMA HeldAfterSweep ==
    ASSUME BankTypeOK, NEW miner, EndBlock(miner), NEW status \in {"proposed", "active"}
    PROVE  /\ HeldBy(status) = Total(SweepOf(status)) + HeldBy(status)'
           /\ HeldBy(status)' \in Nat
           /\ Total(SweepOf(status)) \in Nat
PROOF
<1> DEFINE h == CostsOf(status)
           w == SweepOf(status)
           r == [id \in ContractIds |-> IF contracts'[id].status = status THEN contracts'[id].cost ELSE 0]
<1>1. h \in [ContractIds -> Nat] /\ HeldBy(status) = Total(h) /\ IsFiniteSet(ContractIds)
    BY HeldType
<1>2. w \in [ContractIds -> Nat]
    BY SweepTypes
<1>3. DOMAIN contracts' = ContractIds
    BY DEF EndBlock, ContractIds
<1>4. HeldBy(status)' = Total(r)
    BY <1>3 DEF HeldBy
<1>5. ASSUME NEW id \in ContractIds
      PROVE  r[id] \in Nat /\ h[id] = w[id] + r[id]
  <2> DEFINE c == contracts[id]
  <2>1. c \in Contract /\ c.cost \in Nat
      BY DEF BankTypeOK, Contract, ContractIds
  <2>2. h[id] = (IF c.status = status THEN c.cost ELSE 0)
      BY DEF CostsOf, ContractIds
  <2>3. w[id] = (IF Overdue(c, block.timestamp) /\ c.status = status THEN c.cost ELSE 0)
      BY DEF SweepOf, Swept, ContractIds
  <2>4. CASE Overdue(c, block.timestamp)
    <3>1. contracts'[id] = Closed(c, IF c.status = "proposed" THEN "expired" ELSE "settled",
                                  block.timestamp)
        BY <2>4 DEF EndBlock, ContractIds
    <3>2. contracts'[id].status \in {"expired", "settled"}
        BY <2>1, <3>1 DEF Closed, Contract
    <3>3. r[id] = 0
        BY <3>2
    <3> QED
        BY <2>1, <2>2, <2>3, <2>4, <3>3
  <2>5. CASE ~ Overdue(c, block.timestamp)
    <3>1. contracts'[id] = c
        BY <2>5 DEF EndBlock, ContractIds
    <3>2. r[id] = h[id] /\ w[id] = 0
        BY <2>2, <2>3, <2>5, <3>1
    <3> QED
        BY <2>1, <2>2, <3>2
  <2> QED
      BY <2>4, <2>5
<1>6. r \in [ContractIds -> Nat] /\ h = [id \in ContractIds |-> w[id] + r[id]]
    BY <1>1, <1>5
<1> HIDE DEF h, w, r
<1>7. Total(h) = Total(w) + Total(r)
    BY <1>1, <1>2, <1>6, TotalSum
<1>8. Total(w) \in Nat /\ Total(r) \in Nat
    BY <1>1, <1>2, <1>6, TotalType
<1> QED
    BY <1>1, <1>4, <1>7, <1>8 DEF w

LEMMA PushType ==
    ASSUME NEW w \in Seq(Nat), NEW ts \in Nat
    PROVE  Push(w, ts) \in Seq(Nat)
PROOF
<1>1. CASE Len(w) < MEDIAN_TIME_BLOCKS
    BY <1>1 DEF Push
<1>2. CASE ~ (Len(w) < MEDIAN_TIME_BLOCKS)
  <2>1. w # << >>
      BY <1>2, LedgerAssumption
  <2>2. Tail(w) \in Seq(Nat)
      BY <2>1
  <2> QED
      BY <1>2, <2>2 DEF Push
<1> QED
    BY <1>1, <1>2

LEMMA EndBlockStep ==
    ASSUME BankSound, NEW miner \in Addr, EndBlock(miner)
    PROVE  BankSound' /\ SupplyStep
PROOF
<1> DEFINE p == Total(SweepOf("proposed"))
           v == Total(SweepOf("active"))
           interest == Total(SweptInterest)
           paid == [a \in Addr |-> balance[a] + Payouts[a]]
           coinbase == BLOCK_REWARD + block.fees
<1>0. BankTypeOK /\ LedgerTypeOK
    BY DEF BankSound, BankTypeOK
<1>1. /\ HeldBy("proposed") = p + HeldBy("proposed")' /\ HeldBy("proposed")' \in Nat /\ p \in Nat
      /\ HeldBy("active") = v + HeldBy("active")' /\ HeldBy("active")' \in Nat /\ v \in Nat
    BY <1>0, HeldAfterSweep
<1>2. interest \in Nat
    BY <1>0, SweepTypes, TotalType
<1>3. coinbase \in Nat
    BY <1>0, SupplyTerms
<1>4. IsFiniteSet(Addr) /\ balance \in [Addr -> Nat] /\ Payouts \in [Addr -> Nat]
      /\ Total(Payouts) = p + v
    BY <1>0, ConstantTypes, PayoutsTotal DEF LedgerTypeOK
<1>5. paid \in [Addr -> Nat] /\ Total(paid) = Total(balance) + (p + v)
    BY ONLY <1>4, TotalSum
<1>6. bank' = [pending |-> bank.pending - p, vault |-> bank.vault - v,
               treasury |-> bank.treasury + interest,
               interestPaid |-> bank.interestPaid + interest]
    BY DEF EndBlock, CloseBlock
<1>7. height' = height + 1 /\ block' = NoBlock /\ nonce' = nonce
      /\ recent' = Push(recent, block.timestamp)
    BY DEF EndBlock, CloseBlock
<1>8. balance' = Plus(paid, miner, coinbase)
  <2>1. balance' = [a \in Addr |-> balance[a] + Payouts[a]
                        + IF a = miner THEN BLOCK_REWARD + block.fees ELSE 0]
      BY DEF EndBlock, CloseBlock
  <2>2. \A a \in Addr : balance[a] \in Nat /\ Payouts[a] \in Nat
      BY <1>4
  <2>3. \A a \in Addr : balance'[a] = IF a = miner THEN paid[a] + coinbase ELSE paid[a]
      BY <1>3, <2>1, <2>2
  <2>4. balance' = [a \in Addr |-> balance'[a]]
      BY <2>1
  <2> HIDE DEF paid, coinbase
  <2> QED
      BY <1>5, <2>3, <2>4 DEF Plus
<1> HIDE DEF p, v, interest, paid, coinbase
<1>9. balance' \in [Addr -> Nat] /\ Total(balance') = Total(balance) + (p + v) + coinbase
  <2>1. Plus(paid, miner, coinbase) \in [Addr -> Nat]
        /\ Total(Plus(paid, miner, coinbase)) = Total(paid) + coinbase
    <3>1. IsFiniteSet(Addr) /\ paid \in [Addr -> Nat] /\ coinbase \in Nat
        BY <1>3, <1>4, <1>5
    <3> QED
        BY <3>1, TotalPlus
  <2> QED
      BY <1>5, <1>8, <2>1
<1>10. bank.pending = HeldBy("proposed") /\ bank.vault = HeldBy("active")
    BY DEF BankSound, EscrowBacked
<1>11. /\ bank'.pending = HeldBy("proposed")' /\ bank'.vault = HeldBy("active")'
       /\ bank'.treasury = bank.treasury + interest
       /\ bank'.interestPaid = bank.interestPaid + interest
    BY <1>1, <1>6, <1>10
<1>12. EscrowBacked'
    BY <1>11 DEF EscrowBacked
<1>13. BankTypeOK'
  <2>1. bank' \in [pending : Nat, vault : Nat, treasury : Nat, interestPaid : Nat]
    <3>1. bank.treasury + interest \in Nat /\ bank.interestPaid + interest \in Nat
        BY <1>0, <1>2, SupplyTerms
    <3>2. bank.pending - p \in Nat /\ bank.vault - v \in Nat
        BY <1>1, <1>10
    <3> QED
        BY <1>6, <3>1, <3>2
  <2>2. recent' \in Seq(Nat)
      BY <1>0, <1>7, PushType, LedgerFields DEF LedgerTypeOK
  <2>3. NoBlock \in [open : BOOLEAN, timestamp : Nat, fees : Nat]
      BY DEF NoBlock
  <2>4. LedgerTypeOK'
    <3>1. block' = NoBlock /\ nonce' \in [Addr -> Nat] /\ height' \in Nat
        BY <1>0, <1>7 DEF LedgerTypeOK
    <3> QED
        BY <1>9, <2>1, <2>2, <2>3, <3>1 DEF LedgerTypeOK
  <2>5. DOMAIN contracts' = DOMAIN contracts
      BY DEF EndBlock
  <2>6. ASSUME NEW id \in DOMAIN contracts
        PROVE  contracts'[id] \in Contract
    <3>1. contracts[id] \in Contract /\ block.timestamp \in Nat
        BY <1>0, LedgerFields DEF BankTypeOK
    <3>2. Earned(contracts[id], block.timestamp) \in Nat
        BY <3>1, EarnedType
    <3>3. \A s \in {"expired", "settled"} : Closed(contracts[id], s, block.timestamp) \in Contract
        BY <3>1, <3>2 DEF Closed, Contract
    <3> QED
        BY <3>1, <3>3 DEF EndBlock
  <2>7. contracts' \in [DOMAIN contracts' -> Contract]
      BY <2>5, <2>6 DEF EndBlock
  <2> QED
      BY <1>0, <2>4, <2>5, <2>7 DEF BankTypeOK
<1>14. SupplyStep
  <2>1. block'.fees = 0
      BY <1>7 DEF NoBlock
  <2>2. BLOCK_REWARD * (height + 1) = BLOCK_REWARD * height + BLOCK_REWARD
      BY <1>0, SupplyTerms
  <2>3. Minted' = Minted + interest + BLOCK_REWARD
      BY <1>0, <1>2, <1>7, <1>11, <2>2, SupplyTerms DEF Minted
  <2>4. circulatingSupply' = circulatingSupply + interest + BLOCK_REWARD
      BY <1>0, <1>1, <1>2, <1>9, <1>10, <1>11, <2>1, SupplyTerms DEF circulatingSupply, coinbase
  <2> QED
      BY <1>0, <1>2, <2>3, <2>4, SupplyTypes, ConstantTypes DEF SupplyStep
<1> QED
    BY <1>12, <1>13, <1>14 DEF BankSound

-----------------------------------------------------------------------------
(* The steps put together.                                                 *)

LEMMA BeginBlockStep ==
    ASSUME BankSound, NEW ts \in Times, BeginBlock(ts), UNCHANGED contracts
    PROVE  BankSound' /\ SupplyStep
PROOF
<1>0. BankTypeOK /\ LedgerTypeOK /\ ts \in Nat
    BY ConstantTypes DEF BankSound, BankTypeOK
<1>1. /\ UNCHANGED <<balance, nonce, bank, height, recent, contracts>>
      /\ block' = [open |-> TRUE, timestamp |-> ts, fees |-> 0]
    BY DEF BeginBlock
<1>2. block = NoBlock
    BY <1>0 DEF BeginBlock, LedgerTypeOK
<1>3. block'.fees = block.fees
    BY <1>1, <1>2 DEF NoBlock
<1>4. BankTypeOK'
    BY <1>0, <1>1 DEF BankTypeOK, LedgerTypeOK
<1>5. EscrowBacked'
    BY <1>1 DEF BankSound, EscrowBacked, HeldBy
<1>6. SupplyStep
  <2>1. circulatingSupply' = circulatingSupply /\ Minted' = Minted
      BY <1>1, <1>3 DEF circulatingSupply, Minted
  <2> QED
      BY <1>0, <2>1, SupplyTypes DEF SupplyStep
<1> QED
    BY <1>4, <1>5, <1>6 DEF BankSound

LEMMA ContractTxStep ==
    ASSUME BankSound, NEW from \in Addr, NEW fee \in Nat, ContractTx(from, fee)
    PROVE  BankSound' /\ SupplyStep
PROOF
<1>1. CASE \E to \in Addr, cost \in Costs, d \in Durations :
               CreateContract(from, fee, to, cost, d)
    BY <1>1, CreateStep, ConstantTypes
<1>2. CASE \E id \in DOMAIN contracts :
               \/ AcceptContract(from, fee, id)
               \/ RejectContract(from, fee, id)
               \/ CancelContract(from, fee, id)
               \/ ResolveContract(from, fee, id)
  <2>1. PICK id \in ContractIds :
               \/ AcceptContract(from, fee, id)
               \/ RejectContract(from, fee, id)
               \/ CancelContract(from, fee, id)
               \/ ResolveContract(from, fee, id)
      BY <1>2 DEF ContractIds
  <2>2. CASE AcceptContract(from, fee, id)
      BY <2>2, AcceptStep
  <2>3. CASE RejectContract(from, fee, id)
    <3>1. Refund(from, fee, id, "rejected")
        BY <2>3 DEF RejectContract
    <3> QED
        BY <3>1, RefundStep
  <2>4. CASE CancelContract(from, fee, id)
    <3>1. Refund(from, fee, id, "cancelled")
        BY <2>4 DEF CancelContract
    <3> QED
        BY <3>1, RefundStep
  <2>5. CASE ResolveContract(from, fee, id)
      BY <2>5, ResolveStep
  <2> QED
      BY <2>1, <2>2, <2>3, <2>4, <2>5
<1> QED
    BY <1>1, <1>2 DEF ContractTx

LEMMA BankInitSound == BankInit => BankSound /\ circulatingSupply = Minted
PROOF
<1> SUFFICES ASSUME BankInit
             PROVE  BankSound /\ circulatingSupply = Minted
    OBVIOUS
<1>1. /\ balance = Genesis /\ nonce = [a \in Addr |-> 0] /\ height = 0
      /\ recent = <<0>> /\ block = NoBlock /\ DOMAIN contracts = {}
      /\ bank = [pending |-> 0, vault |-> 0, treasury |-> 0, interestPaid |-> 0]
    BY DEF BankInit, LedgerInit, emptyBank
<1>2. IsFiniteSet({})
    BY FS_EmptySet
<1>3. contracts \in [DOMAIN contracts -> Contract]
    BY <1>1 DEF BankInit
<1>4. LedgerTypeOK
    BY <1>1, ConstantTypes DEF LedgerTypeOK, NoBlock
<1>5. BankTypeOK
    BY <1>1, <1>2, <1>3, <1>4 DEF BankTypeOK
<1>6. \A status : HeldBy(status) = 0
    BY <1>1, TotalEmpty DEF HeldBy
<1>7. EscrowBacked
    BY <1>1, <1>6 DEF EscrowBacked
<1>8. circulatingSupply = Minted
  <2>1. Total(Genesis) \in Nat /\ BLOCK_REWARD * 0 = 0
      BY <1>4, SupplyTerms
  <2> QED
      BY <1>1, <2>1 DEF circulatingSupply, Minted, NoBlock
<1> QED
    BY <1>5, <1>7, <1>8 DEF BankSound

LEMMA BankStutterSound ==
    ASSUME BankSound, UNCHANGED bankVars
    PROVE  BankSound' /\ SupplyStep
PROOF
<1>1. BankSound'
    BY DEF BankSound, BankTypeOK, LedgerTypeOK, EscrowBacked, HeldBy, bankVars, ledgerVars
<1>2. circulatingSupply' = circulatingSupply /\ Minted' = Minted
    BY DEF circulatingSupply, Minted, bankVars, ledgerVars
<1>3. circulatingSupply \in Nat /\ Minted \in Nat
    BY SupplyTypes DEF BankSound, BankTypeOK
<1> QED
    BY <1>1, <1>2, <1>3 DEF SupplyStep

LEMMA BankStepSound ==
    ASSUME BankSound, [BankNext]_bankVars
    PROVE  BankSound' /\ SupplyStep
PROOF
<1>1. CASE \E ts \in Times : BeginBlock(ts) /\ UNCHANGED contracts
    BY <1>1, BeginBlockStep
<1>2. CASE \E from \in Addr, fee \in Fees : ContractTx(from, fee)
    BY <1>2, ContractTxStep, ConstantTypes
<1>3. CASE \E from, to \in Addr, fee \in Fees, n \in Costs :
               Transfer(from, to, n, fee) /\ UNCHANGED contracts
    BY <1>3, TransferStep, ConstantTypes
<1>4. CASE \E miner \in Addr : EndBlock(miner)
    BY <1>4, EndBlockStep
<1>5. CASE UNCHANGED bankVars
    BY <1>5, BankStutterSound
<1> QED
    BY <1>1, <1>2, <1>3, <1>4, <1>5 DEF BankNext

LEMMA BankStepInv ==
    ASSUME BankInv, [BankNext]_bankVars
    PROVE  BankInv'
PROOF
<1>1. BankSound' /\ SupplyStep
    BY BankStepSound DEF BankInv
<1>2. circulatingSupply \in Nat /\ Minted \in Nat
    BY SupplyTypes DEF BankInv, BankSound, BankTypeOK
<1>3. circulatingSupply' \in Nat /\ Minted' \in Nat
    BY <1>1, SupplyTypesNext DEF BankSound, BankTypeOK
<1> QED
    BY <1>1, <1>2, <1>3 DEF BankInv, SupplyConserved, SupplyStep

LEMMA BankInvariant == BankSpec => []BankInv
PROOF
<1>0. BankInit => BankInv
    BY BankInitSound DEF BankInv, SupplyConserved
<1>1. BankInv /\ [BankNext]_bankVars => BankInv'
    BY BankStepInv
<1> QED
    BY <1>0, <1>1, PTL DEF BankSpec

(* The bank's state keeps its type; in particular pending and vault, which *)
(* the code decrements without a check, never become negative.             *)
THEOREM BankTypeCorrect == BankSpec => []BankTypeOK
PROOF
<1>1. BankInv => BankTypeOK
    BY DEF BankInv, BankSound
<1> QED
    BY BankInvariant, <1>1, PTL

(* An accepted contract is always payable, and a proposal always           *)
(* refundable: the bank holds exactly the costs of the open contracts.     *)
THEOREM EscrowAlwaysBacked == BankSpec => []EscrowBacked
PROOF
<1>1. BankInv => EscrowBacked
    BY DEF BankInv, BankSound
<1> QED
    BY BankInvariant, <1>1, PTL

(* The supply invariant of the test suite, for every genesis, reward,      *)
(* interest rate and history of blocks.                                    *)
THEOREM SupplyAlwaysConserved == BankSpec => []SupplyConserved
PROOF
<1>1. BankInv => SupplyConserved
    BY DEF BankInv, BankSound
<1> QED
    BY BankInvariant, <1>1, PTL

-----------------------------------------------------------------------------
(* The life of one contract.                                               *)

LEMMA ClosedStaysClosed ==
    ASSUME BankInv, [BankNext]_bankVars, NEW id \in DOMAIN contracts
    PROVE  /\ id \in DOMAIN contracts'
           /\ ~ IsOpen(contracts[id]) => contracts'[id] = contracts[id]
PROOF
<1> USE DEF IsOpen
<1>1. CASE \E ts \in Times : BeginBlock(ts) /\ UNCHANGED contracts
    BY <1>1
<1>2. CASE \E from \in Addr, fee \in Fees : ContractTx(from, fee)
  <2>1. PICK from \in Addr, fee \in Fees : ContractTx(from, fee)
      BY <1>2
  <2>2. CASE \E to \in Addr, cost \in Costs, d \in Durations :
                 CreateContract(from, fee, to, cost, d)
      BY <2>2 DEF CreateContract, With
  <2>3. CASE \E i \in DOMAIN contracts :
                 \/ AcceptContract(from, fee, i)
                 \/ RejectContract(from, fee, i)
                 \/ CancelContract(from, fee, i)
                 \/ ResolveContract(from, fee, i)
    <3>1. PICK i \in DOMAIN contracts :
                 \/ AcceptContract(from, fee, i)
                 \/ RejectContract(from, fee, i)
                 \/ CancelContract(from, fee, i)
                 \/ ResolveContract(from, fee, i)
        BY <2>3
    <3>2. IsOpen(contracts[i])
        BY <3>1 DEF AcceptContract, RejectContract, CancelContract, ResolveContract, Refund
    <3>3. \E c : contracts' = [contracts EXCEPT ![i] = c]
        BY <3>1 DEF AcceptContract, RejectContract, CancelContract, ResolveContract, Refund
    <3> QED
        BY <3>2, <3>3
  <2> QED
      BY <2>1, <2>2, <2>3 DEF ContractTx
<1>3. CASE \E from, to \in Addr, fee \in Fees, n \in Costs :
               Transfer(from, to, n, fee) /\ UNCHANGED contracts
    BY <1>3
<1>4. CASE \E miner \in Addr : EndBlock(miner)
    BY <1>4, OverdueIsOpen DEF EndBlock
<1>5. CASE UNCHANGED bankVars
    BY <1>5 DEF bankVars
<1> QED
    BY <1>1, <1>2, <1>3, <1>4, <1>5 DEF BankNext

(* A contract that was paid or refunded is never touched again: neither a  *)
(* late answer nor the sweep releases its coin a second time.              *)
THEOREM ContractsCloseForGood == BankSpec => ClosedForGood
PROOF
<1>1. BankInv /\ [BankNext]_bankVars =>
        [\A id \in DOMAIN contracts :
            /\ id \in DOMAIN contracts'
            /\ ~ IsOpen(contracts[id]) => contracts'[id] = contracts[id]]_bankVars
    BY ClosedStaysClosed
<1> QED
    BY BankInvariant, <1>1, PTL DEF BankSpec, ClosedForGood

-----------------------------------------------------------------------------
(* The audit of the interest: a contract that is still open has earned     *)
(* nothing yet, so that closing it adds what it earned exactly once.       *)

Audit ==
    /\ InterestAudited
    /\ \A id \in DOMAIN contracts : IsOpen(contracts[id]) => contracts[id].interest = 0

InterestTable == [id \in ContractIds |-> contracts[id].interest]

LEMMA InterestTableType ==
    BankTypeOK => /\ InterestTable \in [ContractIds -> Nat]
                  /\ IsFiniteSet(ContractIds)
                  /\ Total(InterestTable) \in Nat
PROOF
<1> SUFFICES ASSUME BankTypeOK
             PROVE  /\ InterestTable \in [ContractIds -> Nat]
                    /\ IsFiniteSet(ContractIds)
                    /\ Total(InterestTable) \in Nat
    OBVIOUS
<1>1. InterestTable \in [ContractIds -> Nat] /\ IsFiniteSet(ContractIds)
    BY DEF BankTypeOK, Contract, InterestTable, ContractIds
<1> QED
    BY <1>1, TotalType

LEMMA InterestTableTypeNext ==
    (BankTypeOK => /\ InterestTable \in [ContractIds -> Nat]
                   /\ IsFiniteSet(ContractIds)
                   /\ Total(InterestTable) \in Nat)'
PROOF BY InterestTableType, PTL

(* One contract changes, and the bank records what it earned.              *)
LEMMA AuditOneMoves ==
    ASSUME BankTypeOK, BankTypeOK', Audit, NEW id \in ContractIds, NEW c, NEW n \in Nat,
           contracts' = [contracts EXCEPT ![id] = c], IsOpen(contracts[id]),
           c.interest = n, IsOpen(c) => n = 0,
           bank'.interestPaid = bank.interestPaid + n
    PROVE  Audit'
PROOF
<1>1. /\ InterestTable \in [ContractIds -> Nat] /\ IsFiniteSet(ContractIds)
      /\ Total(InterestTable) \in Nat
    BY InterestTableType
<1>2. InterestTable' \in [ContractIds -> Nat] /\ ContractIds' = ContractIds
    BY InterestTableTypeNext DEF ContractIds
<1>3. /\ InterestTable[id] = 0 /\ InterestTable'[id] = n
      /\ \A i \in ContractIds : i # id => InterestTable'[i] = InterestTable[i]
    BY <1>2 DEF Audit, InterestTable, ContractIds
<1>4. Total(InterestTable') = Total(InterestTable) - 0 + n
    BY <1>1, <1>2, <1>3, TotalChange
<1>5. InterestAudited'
    BY <1>1, <1>4 DEF Audit, InterestAudited, InterestTable, ContractIds
<1> QED
    BY <1>5 DEF Audit, ContractIds

LEMMA AuditOneAppears ==
    ASSUME BankTypeOK, BankTypeOK', Audit, NEW id, id \notin ContractIds, NEW c,
           contracts' = With(contracts, id, c), c.interest = 0,
           bank'.interestPaid = bank.interestPaid
    PROVE  Audit'
PROOF
<1> DEFINE U == ContractIds \cup {id}
           e == InterestTable'
<1>1. /\ InterestTable \in [ContractIds -> Nat] /\ IsFiniteSet(ContractIds)
      /\ Total(InterestTable) \in Nat
    BY InterestTableType
<1>2. ContractIds' = U /\ e \in [U -> Nat]
    BY InterestTableTypeNext DEF ContractIds, With
<1>3. e[id] = 0 /\ \A i \in ContractIds : e[i] = InterestTable[i]
    BY <1>2 DEF InterestTable, ContractIds, With
<1>4. U = ContractIds \cup {id}
    OBVIOUS
<1> HIDE DEF e, U
<1>5. Total(e) = e[id] + Total(InterestTable)
  <2>1. \A g \in [ContractIds -> Nat], h \in [U -> Nat] :
            (\A i \in ContractIds : h[i] = g[i]) => Total(h) = h[id] + Total(g)
    <3>1. IsFiniteSet(ContractIds) /\ id \notin ContractIds
        BY <1>1
    <3> QED
        BY ONLY <3>1, <1>4, TotalExtend
  <2> QED
      BY <1>1, <1>2, <1>3, <2>1
<1>6. InterestAudited'
    BY <1>1, <1>3, <1>5 DEF Audit, InterestAudited, InterestTable, ContractIds, e
<1> QED
    BY <1>6 DEF Audit, ContractIds, With

LEMMA AuditContractTx ==
    ASSUME BankSound, BankTypeOK', Audit, NEW from \in Addr, NEW fee \in Nat,
           ContractTx(from, fee)
    PROVE  Audit'
PROOF
<1>0. BankTypeOK /\ LedgerTypeOK /\ bank.interestPaid \in Nat
      /\ bank \in [pending : Nat, vault : Nat, treasury : Nat, interestPaid : Nat]
    BY SupplyTerms, LedgerFields DEF BankSound, BankTypeOK
<1>1. ASSUME NEW to \in Addr, NEW cost \in Costs, NEW d \in Durations,
             CreateContract(from, fee, to, cost, d)
      PROVE  Audit'
  <2>1. bank'.interestPaid = bank.interestPaid
      BY <1>0, <1>1 DEF CreateContract
  <2>2. \E c : contracts' = With(contracts, TxId(from), c) /\ c.interest = 0
      BY <1>1 DEF CreateContract
  <2>3. TxId(from) \notin ContractIds
      BY <1>1 DEF CreateContract, ContractIds
  <2> QED
      BY <1>0, <2>1, <2>2, <2>3, AuditOneAppears
<1>2. ASSUME NEW id \in ContractIds
      PROVE  /\ AcceptContract(from, fee, id) => Audit'
             /\ \A status \in {"rejected", "cancelled"} : Refund(from, fee, id, status) => Audit'
             /\ ResolveContract(from, fee, id) => Audit'
  <2>0. contracts[id] \in Contract
      BY <1>0 DEF BankTypeOK, ContractIds
  <2>1. ASSUME AcceptContract(from, fee, id)
        PROVE  Audit'
    <3> DEFINE c == [contracts[id] EXCEPT !.status = "active", !.acceptedAt = block.timestamp,
                                !.endTime = block.timestamp + contracts[id].durationMs]
    <3>0. PICK n \in Nat : n = 0
        OBVIOUS
    <3>1. contracts' = [contracts EXCEPT ![id] = c] /\ IsOpen(contracts[id])
          /\ bank'.interestPaid = bank.interestPaid + n
        BY <1>0, <2>1, <3>0 DEF AcceptContract, IsOpen
    <3>2. contracts[id].interest = n
        BY <3>0, <3>1 DEF Audit, ContractIds
    <3>3. c.interest = n
        BY <2>0, <3>2 DEF Contract
    <3> HIDE DEF c
    <3> QED
        BY <1>0, <3>0, <3>1, <3>3, AuditOneMoves
  <2>2. ASSUME NEW status \in {"rejected", "cancelled"}, Refund(from, fee, id, status)
        PROVE  Audit'
    <3> DEFINE c == Closed(contracts[id], status, block.timestamp)
    <3>0. PICK n \in Nat : n = 0
        OBVIOUS
    <3>1. contracts' = [contracts EXCEPT ![id] = c] /\ contracts[id].status = "proposed"
          /\ IsOpen(contracts[id]) /\ bank'.interestPaid = bank.interestPaid + n
        BY <1>0, <2>2, <3>0 DEF Refund, Refunded, IsOpen
    <3>2. c.interest = n
        BY <2>0, <3>0, <3>1 DEF Closed, Earned, Contract
    <3> HIDE DEF c
    <3> QED
        BY <1>0, <3>0, <3>1, <3>2, AuditOneMoves
  <2>3. ASSUME ResolveContract(from, fee, id)
        PROVE  Audit'
    <3> DEFINE n == Earned(contracts[id], block.timestamp)
               c == Closed(contracts[id], "settled", block.timestamp)
    <3>1. n \in Nat
        BY <1>0, <2>0, EarnedType, LedgerFields
    <3>2. contracts' = [contracts EXCEPT ![id] = c] /\ IsOpen(contracts[id])
          /\ bank'.interestPaid = bank.interestPaid + n
        BY <1>0, <2>3 DEF ResolveContract, Settled, IsOpen
    <3>3. c.interest = n /\ ~ IsOpen(c)
        BY <2>0 DEF Closed, Contract, IsOpen
    <3> HIDE DEF c, n
    <3> QED
        BY <1>0, <3>1, <3>2, <3>3, AuditOneMoves
  <2> QED
      BY <2>1, <2>2, <2>3
<1> QED
    BY <1>1, <1>2 DEF ContractTx, RejectContract, CancelContract, ContractIds

LEMMA AuditEndBlock ==
    ASSUME BankSound, BankTypeOK', Audit, NEW miner \in Addr, EndBlock(miner)
    PROVE  Audit'
PROOF
<1>0. BankTypeOK /\ LedgerTypeOK /\ bank.interestPaid \in Nat
    BY SupplyTerms DEF BankSound, BankTypeOK
<1>1. /\ InterestTable \in [ContractIds -> Nat] /\ IsFiniteSet(ContractIds)
      /\ SweptInterest \in [ContractIds -> Nat]
    BY <1>0, InterestTableType, SweepTypes
<1>2. InterestTable' \in [ContractIds -> Nat] /\ ContractIds' = ContractIds
    BY InterestTableTypeNext DEF ContractIds, EndBlock
<1>3. ASSUME NEW id \in ContractIds
      PROVE  /\ InterestTable'[id] = InterestTable[id] + SweptInterest[id]
             /\ IsOpen(contracts'[id]) => contracts'[id].interest = 0
  <2>1. contracts[id] \in Contract
      BY <1>0 DEF BankTypeOK, ContractIds
  <2>2. InterestTable'[id] = contracts'[id].interest /\ InterestTable[id] = contracts[id].interest
      BY <1>2 DEF InterestTable
  <2>3. InterestTable[id] \in Nat /\ SweptInterest[id] \in Nat
      BY <1>1
  <2>4. CASE Overdue(contracts[id], block.timestamp)
    <3>1. contracts'[id].interest = Earned(contracts[id], block.timestamp)
          /\ ~ IsOpen(contracts'[id])
        BY <2>1, <2>4 DEF EndBlock, Closed, Contract, IsOpen, ContractIds
    <3>2. contracts[id].interest = 0
        BY <2>4, OverdueIsOpen DEF Audit, IsOpen, ContractIds
    <3>3. SweptInterest[id] = Earned(contracts[id], block.timestamp)
        BY <2>4 DEF SweptInterest, ContractIds
    <3> QED
        BY <2>2, <2>3, <3>1, <3>2, <3>3
  <2>5. CASE ~ Overdue(contracts[id], block.timestamp)
    <3>1. contracts'[id] = contracts[id] /\ SweptInterest[id] = 0
        BY <2>5 DEF EndBlock, SweptInterest, ContractIds
    <3> QED
        BY <2>2, <2>3, <3>1 DEF Audit, ContractIds
  <2> QED
      BY <2>4, <2>5
<1>4. InterestTable' = [id \in ContractIds |-> InterestTable[id] + SweptInterest[id]]
    BY <1>2, <1>3
<1>5. Total(InterestTable') = Total(InterestTable) + Total(SweptInterest)
    BY <1>1, <1>4, TotalSum
<1>6. bank'.interestPaid = bank.interestPaid + Total(SweptInterest)
    BY DEF EndBlock, CloseBlock
<1>7. InterestAudited'
    BY <1>5, <1>6 DEF Audit, InterestAudited, InterestTable, ContractIds
<1> QED
    BY <1>2, <1>3, <1>7 DEF Audit, ContractIds

LEMMA AuditStep ==
    ASSUME BankSound, Audit, [BankNext]_bankVars
    PROVE  Audit'
PROOF
<1>0. BankTypeOK'
    BY BankStepSound DEF BankSound
<1>1. CASE \E from \in Addr, fee \in Fees : ContractTx(from, fee)
    BY <1>0, <1>1, AuditContractTx, ConstantTypes
<1>2. CASE \E miner \in Addr : EndBlock(miner)
    BY <1>0, <1>2, AuditEndBlock
<1>3. CASE UNCHANGED <<contracts, bank>>
    BY <1>3 DEF Audit, InterestAudited
<1> QED
    BY <1>1, <1>2, <1>3 DEF BankNext, BeginBlock, Transfer, bankVars, ledgerVars

(* What the bank says it has minted as interest is the sum of what its     *)
(* contracts say they earned, whichever of them were resolved early, swept *)
(* or refunded.                                                            *)
THEOREM InterestAlwaysAudited == BankSpec => []InterestAudited
PROOF
<1>1. BankInit => Audit
    BY TotalEmpty DEF BankInit, LedgerInit, emptyBank, Audit, InterestAudited
<1>2. BankInv /\ Audit /\ [BankNext]_bankVars => Audit'
    BY AuditStep DEF BankInv
<1>3. Audit => InterestAudited
    BY DEF Audit
<1> QED
    BY BankInvariant, <1>1, <1>2, <1>3, PTL DEF BankSpec

-----------------------------------------------------------------------------
(* The sweep leaves nothing behind.                                        *)

LEMMA PushLast ==
    ASSUME NEW w \in Seq(Nat), NEW ts \in Nat
    PROVE  Push(w, ts)[Len(Push(w, ts))] = ts
PROOF
<1> DEFINE front == IF Len(w) < MEDIAN_TIME_BLOCKS THEN w ELSE Tail(w)
<1>1. front \in Seq(Nat)
    BY LedgerAssumption
<1>2. Push(w, ts) = Append(front, ts)
    BY DEF Push
<1> HIDE DEF front
<1> QED
    BY <1>1, <1>2

LEMMA ContractTxLands ==
    ASSUME NEW from, NEW fee, ContractTx(from, fee)
    PROVE  block.open /\ Landed(from, fee)
PROOF
<1>1. CASE \E to \in Addr, cost \in Costs, d \in Durations :
               CreateContract(from, fee, to, cost, d)
    BY <1>1 DEF CreateContract, CanPay
<1>2. ASSUME NEW id \in DOMAIN contracts
      PROVE  /\ AcceptContract(from, fee, id) => block.open /\ Landed(from, fee)
             /\ RejectContract(from, fee, id) => block.open /\ Landed(from, fee)
             /\ CancelContract(from, fee, id) => block.open /\ Landed(from, fee)
             /\ ResolveContract(from, fee, id) => block.open /\ Landed(from, fee)
    BY DEF AcceptContract, RejectContract, CancelContract, ResolveContract, Refund, CanPay
<1> QED
    BY <1>1, <1>2 DEF ContractTx

LEMMA NothingOverdueStep ==
    ASSUME BankSound, NothingOverdue, [BankNext]_bankVars
    PROVE  NothingOverdue'
PROOF
<1>0. LedgerTypeOK /\ recent \in Seq(Nat) /\ block.timestamp \in Nat
    BY LedgerFields DEF BankSound, BankTypeOK, LedgerTypeOK
<1>1. CASE \E miner \in Addr : EndBlock(miner)
  <2>1. recent'[Len(recent')] = block.timestamp
      BY <1>0, <1>1, PushLast DEF EndBlock, CloseBlock
  <2>2. ASSUME NEW id \in DOMAIN contracts
        PROVE  /\ contracts'[id].status = "proposed" =>
                      block.timestamp < contracts'[id].acceptDeadline
               /\ contracts'[id].status = "active" =>
                      block.timestamp < contracts'[id].endTime
    <3>1. contracts[id] \in Contract
        BY DEF BankSound, BankTypeOK
    <3>2. CASE Overdue(contracts[id], block.timestamp)
        BY <1>1, <3>1, <3>2 DEF EndBlock, Closed, Contract
    <3>3. CASE ~ Overdue(contracts[id], block.timestamp)
      <4>1. contracts'[id] = contracts[id]
          BY <1>1, <3>3 DEF EndBlock
      <4>2. contracts[id].acceptDeadline \in Int /\ contracts[id].endTime \in Int
          BY <3>1 DEF Contract, Never
      <4> QED
          BY <1>0, <3>3, <4>1, <4>2 DEF Overdue
    <3> QED
        BY <3>2, <3>3
  <2>3. DOMAIN contracts' = DOMAIN contracts
      BY <1>1 DEF EndBlock
  <2> QED
      BY <2>1, <2>2, <2>3 DEF NothingOverdue
<1>2. CASE \E from \in Addr, fee \in Fees : ContractTx(from, fee)
  <2>1. block'.open
      BY <1>0, <1>2, ContractTxLands, LandedType, ConstantTypes
  <2> QED
      BY <2>1 DEF NothingOverdue
<1>3. CASE \E from, to \in Addr, fee \in Fees, n \in Costs :
               Transfer(from, to, n, fee) /\ UNCHANGED contracts
  <2>1. block.open /\ \E fee \in Fees : block' = [block EXCEPT !.fees = block.fees + fee]
      BY <1>3 DEF Transfer, CanPay, Landed
  <2>2. block'.open
      BY <1>0, <2>1 DEF LedgerTypeOK
  <2> QED
      BY <2>2 DEF NothingOverdue
<1>4. CASE \E ts \in Times : BeginBlock(ts)
    BY <1>4 DEF BeginBlock, NothingOverdue
<1>5. CASE UNCHANGED bankVars
    BY <1>5 DEF NothingOverdue, bankVars, ledgerVars
<1> QED
    BY <1>1, <1>2, <1>3, <1>4, <1>5 DEF BankNext

(* Between blocks no contract is past a deadline by the time of the last   *)
(* block, for every order of block times the median rule lets through.     *)
THEOREM NothingIsEverOverdue == BankSpec => []NothingOverdue
PROOF
<1>1. BankInit => NothingOverdue
    BY DEF BankInit, NothingOverdue
<1>2. BankInv /\ NothingOverdue /\ [BankNext]_bankVars => NothingOverdue'
    BY NothingOverdueStep DEF BankInv
<1> QED
    BY BankInvariant, <1>1, <1>2, PTL DEF BankSpec

-----------------------------------------------------------------------------
(* Whose coin the bank holds.                                              *)

OwedIn(c, a) == IF IsOpen(c) /\ Payee(c) = a THEN c.cost ELSE 0

Owed(a) == [id \in ContractIds |-> OwedIn(contracts[id], a)]

LEMMA OwedInType ==
    ASSUME NEW c \in Contract, NEW a
    PROVE  OwedIn(c, a) \in Nat
PROOF BY DEF OwedIn, Contract

LEMMA OwedType ==
    BankTypeOK => /\ IsFiniteSet(ContractIds)
                  /\ \A a \in Addr : /\ Owed(a) \in [ContractIds -> Nat]
                                     /\ Total(Owed(a)) \in Nat
                                     /\ Claim(a) = balance[a] + Total(Owed(a))
                                     /\ balance[a] \in Nat
PROOF
<1> SUFFICES ASSUME BankTypeOK
             PROVE  /\ IsFiniteSet(ContractIds)
                    /\ \A a \in Addr : /\ Owed(a) \in [ContractIds -> Nat]
                                       /\ Total(Owed(a)) \in Nat
                                       /\ Claim(a) = balance[a] + Total(Owed(a))
                                       /\ balance[a] \in Nat
    OBVIOUS
<1>1. IsFiniteSet(ContractIds) /\ \A id \in ContractIds : contracts[id] \in Contract
    BY DEF BankTypeOK, ContractIds
<1>2. \A a \in Addr : Owed(a) \in [ContractIds -> Nat]
    BY <1>1, OwedInType DEF Owed
<1>3. \A a \in Addr : Total(Owed(a)) \in Nat
    BY <1>1, <1>2, TotalType
<1>4. \A a \in Addr : Claim(a) = balance[a] + Total(Owed(a))
    BY DEF Claim, Owed, OwedIn, ContractIds
<1>5. \A a \in Addr : balance[a] \in Nat
    BY DEF BankTypeOK, LedgerTypeOK
<1> QED
    BY <1>1, <1>2, <1>3, <1>4, <1>5

LEMMA OwedTypeNext ==
    (BankTypeOK => /\ IsFiniteSet(ContractIds)
                   /\ \A a \in Addr : /\ Owed(a) \in [ContractIds -> Nat]
                                      /\ Total(Owed(a)) \in Nat
                                      /\ Claim(a) = balance[a] + Total(Owed(a))
                                      /\ balance[a] \in Nat)'
PROOF BY OwedType, PTL

(* One contract changes.                                                   *)
LEMMA OwedOneMoves ==
    ASSUME BankTypeOK, BankTypeOK', NEW id \in ContractIds, NEW c,
           contracts' = [contracts EXCEPT ![id] = c], NEW a \in Addr
    PROVE  /\ Claim(a)' - balance'[a] =
                  Claim(a) - balance[a] - OwedIn(contracts[id], a) + OwedIn(c, a)
           /\ OwedIn(c, a) \in Nat /\ OwedIn(contracts[id], a) \in Nat
PROOF
<1> DEFINE f == Owed(a)
           e == Owed(a)'
<1>1. /\ f \in [ContractIds -> Nat] /\ IsFiniteSet(ContractIds) /\ Total(f) \in Nat
      /\ Claim(a) = balance[a] + Total(f) /\ balance[a] \in Nat
    BY OwedType
<1>2. ContractIds' = ContractIds
    BY DEF ContractIds
<1>3. /\ e \in [ContractIds -> Nat] /\ Total(e) \in Nat
      /\ Claim(a)' = balance'[a] + Total(e) /\ balance'[a] \in Nat
    BY <1>2, OwedTypeNext
<1>4. /\ f[id] = OwedIn(contracts[id], a) /\ e[id] = OwedIn(c, a)
      /\ \A i \in ContractIds : i # id => e[i] = f[i]
    BY <1>2 DEF Owed, ContractIds
<1>5. f[id] \in Nat /\ e[id] \in Nat
    BY <1>1, <1>3
<1> HIDE DEF e, f
<1>6. Total(e) = Total(f) - f[id] + e[id]
    BY <1>1, <1>3, <1>4, TotalChange
<1> QED
    BY <1>1, <1>3, <1>4, <1>5, <1>6

LEMMA OwedOneAppears ==
    ASSUME BankTypeOK, BankTypeOK', NEW id, id \notin ContractIds, NEW c,
           contracts' = With(contracts, id, c), NEW a \in Addr, OwedIn(c, a) = 0
    PROVE  Claim(a)' - balance'[a] = Claim(a) - balance[a]
PROOF
<1> DEFINE f == Owed(a)
           e == Owed(a)'
           U == ContractIds \cup {id}
<1>1. /\ f \in [ContractIds -> Nat] /\ IsFiniteSet(ContractIds) /\ Total(f) \in Nat
      /\ Claim(a) = balance[a] + Total(f) /\ balance[a] \in Nat
    BY OwedType
<1>2. ContractIds' = U
    BY DEF ContractIds, With
<1>3. /\ e \in [U -> Nat] /\ Total(e) \in Nat
      /\ Claim(a)' = balance'[a] + Total(e) /\ balance'[a] \in Nat
    BY <1>2, OwedTypeNext
<1>4. e[id] = 0 /\ \A i \in ContractIds : e[i] = f[i]
    BY <1>2 DEF Owed, ContractIds, With
<1>5. U = ContractIds \cup {id}
    OBVIOUS
<1> HIDE DEF e, f, U
<1>6. Total(e) = e[id] + Total(f)
  <2>1. \A g \in [ContractIds -> Nat], h \in [U -> Nat] :
            (\A i \in ContractIds : h[i] = g[i]) => Total(h) = h[id] + Total(g)
    <3>1. IsFiniteSet(ContractIds) /\ id \notin ContractIds
        BY <1>1
    <3> QED
        BY ONLY <3>1, <1>5, TotalExtend
  <2> QED
      BY <1>1, <1>3, <1>4, <2>1
<1> QED
    BY <1>1, <1>3, <1>4, <1>6

(* Why an address may own less after a step.                               *)
MayOwnLess(a) ==
    \/ Claim(a)' >= Claim(a)
    \/ nonce'[a] # nonce[a]
    \/ \E id \in DOMAIN contracts :
          /\ contracts[id].contracter = a
          /\ contracts[id].status = "proposed" /\ contracts'[id].status = "active"
          /\ Claim(a)' = Claim(a) - contracts[id].cost

LEMMA SignerChangesNonce ==
    ASSUME LedgerTypeOK, NEW from \in Addr, NEW fee, Landed(from, fee)
    PROVE  nonce'[from] # nonce[from]
PROOF BY DEF LedgerTypeOK, Landed

LEMMA ContractTxSigned ==
    ASSUME BankSound, BankTypeOK', NEW from \in Addr, NEW fee \in Nat,
           ContractTx(from, fee), NEW a \in Addr
    PROVE  MayOwnLess(a)
PROOF
<1>0. /\ BankTypeOK /\ LedgerTypeOK /\ balance \in [Addr -> Nat]
      /\ Claim(a) \in Nat /\ Claim(a)' \in Nat /\ balance[a] \in Nat /\ balance'[a] \in Nat
  <2>1. BankTypeOK /\ LedgerTypeOK /\ balance \in [Addr -> Nat]
      BY DEF BankSound, BankTypeOK, LedgerTypeOK
  <2>2. Claim(a) \in Nat /\ balance[a] \in Nat
      BY <2>1, OwedType
  <2>3. Claim(a)' \in Nat /\ balance'[a] \in Nat
      BY OwedTypeNext
  <2> QED
      BY <2>1, <2>2, <2>3
<1>1. CASE a = from
    BY <1>0, <1>1, ContractTxLands, SignerChangesNonce DEF MayOwnLess
<1>2. CASE a # from
  <2>1. ASSUME NEW to \in Addr, NEW cost \in Costs, NEW d \in Durations,
               CreateContract(from, fee, to, cost, d)
        PROVE  MayOwnLess(a)
    <3>1. PICK c : /\ contracts' = With(contracts, TxId(from), c)
                   /\ c.contracter = from /\ c.status = "proposed"
        BY <2>1 DEF CreateContract
    <3>2. OwedIn(c, a) = 0
        BY <1>2, <3>1 DEF OwedIn, Payee
    <3>3. TxId(from) \notin ContractIds
        BY <2>1 DEF CreateContract, ContractIds
    <3>4. Claim(a)' - balance'[a] = Claim(a) - balance[a]
        BY <1>0, <3>1, <3>2, <3>3, OwedOneAppears
    <3>5. balance'[a] = balance[a]
        BY <1>0, <1>2, <2>1 DEF CreateContract, Minus
    <3> QED
        BY <1>0, <3>4, <3>5 DEF MayOwnLess
  <2>2. ASSUME NEW id \in ContractIds, AcceptContract(from, fee, id)
        PROVE  MayOwnLess(a)
    <3> DEFINE c == [contracts[id] EXCEPT !.status = "active", !.acceptedAt = block.timestamp,
                                !.endTime = block.timestamp + contracts[id].durationMs]
    <3>1. contracts[id] \in Contract /\ contracts[id].cost \in Nat
        BY <1>0 DEF BankTypeOK, ContractIds, Contract
    <3>2. /\ contracts' = [contracts EXCEPT ![id] = c]
          /\ contracts[id].status = "proposed" /\ contracts[id].contractee = from
        BY <2>2 DEF AcceptContract
    <3>3. c.status = "active" /\ c.contractee = from
        BY <3>1, <3>2 DEF Contract
    <3>4. OwedIn(c, a) = 0
        BY <1>2, <3>3 DEF OwedIn, Payee
    <3>5. OwedIn(contracts[id], a) =
              IF contracts[id].contracter = a THEN contracts[id].cost ELSE 0
        BY <3>2 DEF OwedIn, Payee, IsOpen
    <3>6. balance'[a] = balance[a]
        BY <1>0, <1>2, <2>2 DEF AcceptContract, Minus
    <3>7. contracts'[id].status = "active"
        BY <1>0, <3>2, <3>3 DEF BankTypeOK, ContractIds
    <3> HIDE DEF c
    <3>8. Claim(a)' - balance'[a] =
              Claim(a) - balance[a] - OwedIn(contracts[id], a) + OwedIn(c, a)
        BY <1>0, <3>2, OwedOneMoves
    <3>9. Claim(a)' = Claim(a) - OwedIn(contracts[id], a)
        BY <1>0, <3>1, <3>4, <3>5, <3>6, <3>8
    <3> QED
        BY <1>0, <3>1, <3>2, <3>5, <3>7, <3>9 DEF MayOwnLess, ContractIds
  <2>3. ASSUME NEW id \in ContractIds, NEW status \in {"rejected", "cancelled"},
               Refund(from, fee, id, status)
        PROVE  MayOwnLess(a)
    <3> DEFINE c == Closed(contracts[id], status, block.timestamp)
    <3>1. contracts[id] \in Contract /\ contracts[id].cost \in Nat /\ contracts[id].contracter \in Addr
        BY <1>0 DEF BankTypeOK, ContractIds, Contract
    <3>2. /\ contracts' = [contracts EXCEPT ![id] = c] /\ contracts[id].status = "proposed"
          /\ balance' = Plus(Minus(balance, from, fee), contracts[id].contracter, contracts[id].cost)
        BY <2>3 DEF Refund
    <3>3. OwedIn(c, a) = 0
        BY <3>1 DEF OwedIn, IsOpen, Closed, Contract
    <3>4. OwedIn(contracts[id], a) =
              IF contracts[id].contracter = a THEN contracts[id].cost ELSE 0
        BY <3>2 DEF OwedIn, Payee, IsOpen
    <3>5. balance'[a] =
              balance[a] + (IF contracts[id].contracter = a THEN contracts[id].cost ELSE 0)
        BY <1>0, <1>2, <3>1, <3>2 DEF Plus, Minus
    <3> HIDE DEF c
    <3>6. Claim(a)' - balance'[a] =
              Claim(a) - balance[a] - OwedIn(contracts[id], a) + OwedIn(c, a)
        BY <1>0, <3>2, OwedOneMoves
    <3> QED
        BY <1>0, <3>1, <3>3, <3>4, <3>5, <3>6 DEF MayOwnLess
  <2>4. ASSUME NEW id \in ContractIds, ResolveContract(from, fee, id)
        PROVE  MayOwnLess(a)
    <3> DEFINE c == Closed(contracts[id], "settled", block.timestamp)
    <3>1. contracts[id] \in Contract /\ contracts[id].cost \in Nat /\ contracts[id].contractee \in Addr
        BY <1>0 DEF BankTypeOK, ContractIds, Contract
    <3>2. /\ contracts' = [contracts EXCEPT ![id] = c] /\ contracts[id].status = "active"
          /\ balance' = Plus(Minus(balance, from, fee), contracts[id].contractee, contracts[id].cost)
        BY <2>4 DEF ResolveContract
    <3>3. OwedIn(c, a) = 0
        BY <3>1 DEF OwedIn, IsOpen, Closed, Contract
    <3>4. OwedIn(contracts[id], a) =
              IF contracts[id].contractee = a THEN contracts[id].cost ELSE 0
        BY <3>2 DEF OwedIn, Payee, IsOpen
    <3>5. balance'[a] =
              balance[a] + (IF contracts[id].contractee = a THEN contracts[id].cost ELSE 0)
        BY <1>0, <1>2, <3>1, <3>2 DEF Plus, Minus
    <3> HIDE DEF c
    <3>6. Claim(a)' - balance'[a] =
              Claim(a) - balance[a] - OwedIn(contracts[id], a) + OwedIn(c, a)
        BY <1>0, <3>2, OwedOneMoves
    <3> QED
        BY <1>0, <3>1, <3>3, <3>4, <3>5, <3>6 DEF MayOwnLess
  <2> QED
      BY <2>1, <2>2, <2>3, <2>4 DEF ContractTx, RejectContract, CancelContract, ContractIds
<1> QED
    BY <1>1, <1>2

(* The sweep pays everybody exactly what they were owed.                   *)
LEMMA EndBlockPaysClaims ==
    ASSUME BankSound, BankTypeOK', NEW miner \in Addr, EndBlock(miner), NEW a \in Addr
    PROVE  MayOwnLess(a)
PROOF
<1> DEFINE f == Owed(a)
           e == Owed(a)'
           w == [id \in ContractIds |-> IF Payee(contracts[id]) = a THEN SweptCoin[id] ELSE 0]
<1>0. BankTypeOK /\ LedgerTypeOK
    BY DEF BankSound, BankTypeOK
<1>1. /\ f \in [ContractIds -> Nat] /\ IsFiniteSet(ContractIds)
      /\ Claim(a) = balance[a] + Total(f) /\ balance[a] \in Nat
    BY <1>0, OwedType
<1>2. ContractIds' = ContractIds
    BY DEF EndBlock, ContractIds
<1>3. e \in [ContractIds -> Nat] /\ Claim(a)' = balance'[a] + Total(e)
    BY <1>2, OwedTypeNext
<1>4. SweptCoin \in [ContractIds -> Nat]
    BY <1>0, SweepTypes
<1>5. w \in [ContractIds -> Nat]
    BY <1>4
<1>6. Payouts[a] = Total(w)
    BY DEF Payouts, ContractIds
<1>7. ASSUME NEW id \in ContractIds
      PROVE  f[id] = w[id] + e[id]
  <2>1. contracts[id] \in Contract /\ contracts[id].cost \in Nat
      BY <1>0 DEF BankTypeOK, ContractIds, Contract
  <2>2. f[id] = OwedIn(contracts[id], a) /\ e[id] = OwedIn(contracts'[id], a)
      BY <1>2 DEF Owed
  <2>3. CASE Overdue(contracts[id], block.timestamp)
    <3>1. OwedIn(contracts'[id], a) = 0
        BY <2>1, <2>3 DEF EndBlock, Closed, Contract, OwedIn, IsOpen, ContractIds
    <3>2. OwedIn(contracts[id], a) = w[id]
        BY <2>3, OverdueIsOpen DEF OwedIn, IsOpen, SweptCoin, ContractIds
    <3> QED
        BY <1>5, <2>2, <3>1, <3>2
  <2>4. CASE ~ Overdue(contracts[id], block.timestamp)
    <3>1. contracts'[id] = contracts[id]
        BY <2>4 DEF EndBlock, ContractIds
    <3>2. w[id] = 0
        BY <2>4 DEF SweptCoin, ContractIds
    <3> QED
        BY <1>1, <2>2, <3>1, <3>2
  <2> QED
      BY <2>3, <2>4
<1>8. f = [id \in ContractIds |-> w[id] + e[id]]
    BY <1>1, <1>7
<1> HIDE DEF e, f, w
<1>9. Total(f) = Total(w) + Total(e) /\ Total(w) \in Nat /\ Total(e) \in Nat
    BY <1>1, <1>3, <1>5, <1>8, TotalSum, TotalType
<1>10. BLOCK_REWARD + block.fees \in Nat
    BY <1>0, SupplyTerms
<1>11. balance'[a] = balance[a] + Payouts[a] + IF a = miner THEN BLOCK_REWARD + block.fees ELSE 0
    BY DEF EndBlock, CloseBlock
<1>12. Claim(a)' >= Claim(a)
    BY <1>1, <1>3, <1>6, <1>9, <1>10, <1>11
<1> QED
    BY <1>12 DEF MayOwnLess

LEMMA SignersPayStep ==
    ASSUME BankSound, [BankNext]_bankVars, NEW a \in Addr
    PROVE  MayOwnLess(a)
PROOF
<1>0. BankTypeOK /\ LedgerTypeOK /\ BankTypeOK' /\ balance \in [Addr -> Nat]
    BY BankStepSound DEF BankSound, BankTypeOK, LedgerTypeOK
<1>1. Claim(a) \in Nat /\ balance[a] \in Nat
    BY <1>0, OwedType
<1>2. CASE \E from \in Addr, fee \in Fees : ContractTx(from, fee)
    BY <1>0, <1>2, ContractTxSigned, ConstantTypes
<1>3. CASE \E miner \in Addr : EndBlock(miner)
    BY <1>0, <1>3, EndBlockPaysClaims
<1>4. ASSUME NEW from \in Addr, NEW to \in Addr, NEW fee \in Fees, NEW n \in Costs,
             Transfer(from, to, n, fee), UNCHANGED contracts
      PROVE  MayOwnLess(a)
  <2>1. CASE a = from
      BY <1>0, <1>4, <2>1, SignerChangesNonce DEF Transfer, MayOwnLess
  <2>2. CASE a # from
    <3>1. n \in Nat /\ fee \in Nat /\ balance' = Plus(Minus(balance, from, fee + n), to, n)
        BY <1>4, ConstantTypes DEF Transfer
    <3>2. balance'[a] >= balance[a] /\ balance'[a] \in Nat
        BY <1>0, <1>1, <2>2, <3>1 DEF Plus, Minus
    <3>3. Claim(a) = balance[a] + Total(Owed(a)) /\ Total(Owed(a)) \in Nat
        BY <1>0, OwedType
    <3>4. Claim(a)' = balance'[a] + Total(Owed(a))
        BY <1>4 DEF Claim, Owed, OwedIn, ContractIds
    <3> QED
        BY <1>1, <3>2, <3>3, <3>4 DEF MayOwnLess
  <2> QED
      BY <2>1, <2>2
<1>5. CASE UNCHANGED <<balance, contracts>>
  <2>1. Claim(a)' = Claim(a)
      BY <1>5 DEF Claim
  <2> QED
      BY <1>1, <2>1 DEF MayOwnLess
<1> QED
    BY <1>2, <1>3, <1>4, <1>5 DEF BankNext, BeginBlock, bankVars, ledgerVars

(* Whoever owns less after a step, escrow counted, has signed it, or its   *)
(* proposal was accepted: neither another's transaction nor the sweep      *)
(* takes anything from anybody.                                            *)
THEOREM OnlySignersEverPay == BankSpec => OnlySignersPay
PROOF
<1>1. BankInv /\ [BankNext]_bankVars =>
        [\A a \in Addr :
            \/ Claim(a)' >= Claim(a)
            \/ nonce'[a] # nonce[a]
            \/ \E id \in DOMAIN contracts :
                  /\ contracts[id].contracter = a
                  /\ contracts[id].status = "proposed" /\ contracts'[id].status = "active"
                  /\ Claim(a)' = Claim(a) - contracts[id].cost]_bankVars
    BY SignersPayStep DEF BankInv, MayOwnLess
<1> QED
    BY BankInvariant, <1>1, PTL DEF BankSpec, OnlySignersPay

-----------------------------------------------------------------------------
(* Tables of holders                                                       *)

(* Tables that record a positive count for some addresses.                 *)
Counts == UNION {[A -> Nat \ {0}] : A \in SUBSET Addr}

LEMMA CountsType ==
    \A t : t \in Counts <=> DOMAIN t \subseteq Addr /\ t \in [DOMAIN t -> Nat \ {0}]
PROOF BY DEF Counts

LEMMA EmptyCounts == << >> \in Counts /\ DOMAIN << >> = {}
PROOF
<1>1. << >> \in [{} -> Nat \ {0}] /\ DOMAIN << >> = {}
    OBVIOUS
<1> QED
    BY <1>1 DEF Counts

-----------------------------------------------------------------------------
(* Land                                                                    *)

Server == [owner : Addr, chunkCount : Nat, owners : Counts]

Chunk == [owner : Addr, forSale : BOOLEAN, price : Nat]

LandShape ==
    /\ DOMAIN servers \subseteq ServerIds
    /\ servers \in [DOMAIN servers -> Server]
    /\ IsFiniteSet(DOMAIN chunks)
    /\ DOMAIN chunks \subseteq (DOMAIN servers) \X Places
    /\ chunks \in [DOMAIN chunks -> Chunk]

On(serverId) == {key \in DOMAIN chunks : key[1] = serverId}

(* TalliesMatchDeeds, said of the holdings of every address.               *)
Tallied(serverId) ==
    /\ servers[serverId].chunkCount = Cardinality(On(serverId))
    /\ \A a \in Addr :
          /\ Holding(servers[serverId].owners, a) = Cardinality(Owned(serverId, a))
          /\ Holding(servers[serverId].owners, a) <= MAX_CHUNKS_PER_OWNER

LandInv == LandShape /\ \A s \in DOMAIN servers : Tallied(s)

LEMMA HoldingType ==
    ASSUME NEW owners \in Counts, NEW a
    PROVE  /\ Holding(owners, a) \in Nat
           /\ Holding(owners, a) # 0 <=> a \in DOMAIN owners
PROOF BY CountsType DEF Holding

LEMMA OwnedFinite ==
    ASSUME LandShape, NEW s, NEW a
    PROVE  /\ IsFiniteSet(Owned(s, a)) /\ Cardinality(Owned(s, a)) \in Nat
           /\ Cardinality(Owned(s, a)) = 0 <=> Owned(s, a) = {}
           /\ IsFiniteSet(On(s)) /\ Cardinality(On(s)) \in Nat
PROOF
<1>1. Owned(s, a) \in SUBSET DOMAIN chunks /\ On(s) \in SUBSET DOMAIN chunks
    BY DEF Owned, On
<1>2. IsFiniteSet(Owned(s, a)) /\ IsFiniteSet(On(s))
    BY <1>1, FS_Subset DEF LandShape
<1> QED
    BY <1>2, FS_CardinalityType, FS_EmptySet

LEMMA LandInvImplies == LandInv => LandTypeOK /\ TalliesMatchDeeds
PROOF
<1> SUFFICES ASSUME LandInv
             PROVE  LandTypeOK /\ TalliesMatchDeeds
    OBVIOUS
<1>1. LandTypeOK
    BY CountsType DEF LandInv, LandShape, LandTypeOK, Server, Chunk
<1>2. ASSUME NEW s \in DOMAIN servers
      PROVE  /\ servers[s].chunkCount = Cardinality({key \in DOMAIN chunks : key[1] = s})
             /\ DOMAIN servers[s].owners = {a \in Addr : Owned(s, a) # {}}
             /\ \A a \in DOMAIN servers[s].owners :
                   /\ servers[s].owners[a] = Cardinality(Owned(s, a))
                   /\ servers[s].owners[a] <= MAX_CHUNKS_PER_OWNER
  <2>1. Tallied(s) /\ servers[s].owners \in Counts /\ DOMAIN servers[s].owners \subseteq Addr
      BY CountsType DEF LandInv, LandShape, Server
  <2>2. \A a \in Addr : a \in DOMAIN servers[s].owners <=> Owned(s, a) # {}
      BY <2>1, HoldingType, OwnedFinite DEF LandInv, Tallied
  <2>3. \A a \in DOMAIN servers[s].owners : servers[s].owners[a] = Holding(servers[s].owners, a)
      BY DEF Holding
  <2> QED
      BY <2>1, <2>2, <2>3 DEF Tallied, On
<1> QED
    BY <1>1, <1>2 DEF TalliesMatchDeeds

(* addHolding adds to the one address and to no other.                     *)
LEMMA addHoldingAdds ==
    ASSUME NEW owners \in Counts, NEW a \in Addr, NEW delta \in Int,
           Holding(owners, a) + delta >= 0
    PROVE  /\ addHolding(owners, a, delta) \in Counts
           /\ Holding(addHolding(owners, a, delta), a) = Holding(owners, a) + delta
           /\ \A b \in Addr : b # a =>
                 Holding(addHolding(owners, a, delta), b) = Holding(owners, b)
PROOF
<1> DEFINE next == Holding(owners, a) + delta
           new == addHolding(owners, a, delta)
<1>1. next \in Nat
    BY HoldingType
<1>2. CASE next = 0
  <2>1. new = Without(owners, a)
      BY <1>2 DEF addHolding
  <2>2. DOMAIN new = DOMAIN owners \ {a} /\ \A b \in DOMAIN new : new[b] = owners[b]
      BY <2>1 DEF Without
  <2>3. new \in [DOMAIN new -> Nat \ {0}] /\ DOMAIN new \subseteq Addr
      BY <2>1, <2>2, CountsType DEF Without
  <2> QED
      BY <1>2, <2>2, <2>3, CountsType DEF Holding
<1>3. CASE next > 0
  <2>1. new = With(owners, a, next)
      BY <1>1, <1>3 DEF addHolding
  <2>2. /\ DOMAIN new = DOMAIN owners \cup {a} /\ new[a] = next
        /\ \A b \in DOMAIN owners : b # a => new[b] = owners[b]
      BY <2>1 DEF With
  <2>3. new \in [DOMAIN new -> Nat \ {0}] /\ DOMAIN new \subseteq Addr
      BY <1>1, <1>3, <2>1, <2>2, CountsType DEF With
  <2> QED
      BY <2>2, <2>3, CountsType DEF Holding
<1> QED
    BY <1>1, <1>2, <1>3

(* A chunk that goes from one address to another changes two tallies.      *)
LEMMA MovedMoves ==
    ASSUME NEW owners \in Counts, NEW old \in Addr, NEW new \in Addr, old # new,
           Holding(owners, old) > 0
    PROVE  /\ Moved(owners, old, new) \in Counts
           /\ Holding(Moved(owners, old, new), old) = Holding(owners, old) - 1
           /\ Holding(Moved(owners, old, new), new) = Holding(owners, new) + 1
           /\ \A b \in Addr \ {old, new} :
                 Holding(Moved(owners, old, new), b) = Holding(owners, b)
PROOF
<1> DEFINE without == addHolding(owners, old, -1)
<1>1. Holding(owners, old) + -1 >= 0 /\ Holding(owners, new) \in Nat
    BY HoldingType
<1>2. /\ without \in Counts
      /\ Holding(without, old) = Holding(owners, old) + -1
      /\ \A b \in Addr : b # old => Holding(without, b) = Holding(owners, b)
    BY <1>1, addHoldingAdds
<1>3. Moved(owners, old, new) = addHolding(without, new, 1)
    BY DEF Moved
<1> HIDE DEF without
<1>4. Holding(without, new) + 1 >= 0
    BY <1>1, <1>2
<1>5. /\ Moved(owners, old, new) \in Counts
      /\ Holding(Moved(owners, old, new), new) = Holding(without, new) + 1
      /\ \A b \in Addr : b # new =>
            Holding(Moved(owners, old, new), b) = Holding(without, b)
    BY <1>2, <1>3, <1>4, addHoldingAdds
<1>6. Holding(owners, old) + -1 = Holding(owners, old) - 1
    BY HoldingType
<1> QED
    BY <1>2, <1>5, <1>6

LEMMA RegisterServerLand ==
    ASSUME LandInv, NEW from \in Addr, NEW fee, NEW s \in ServerIds, RegisterServer(from, fee, s)
    PROVE  LandInv'
PROOF
<1> DEFINE row == [owner |-> from, chunkCount |-> 0, owners |-> << >>]
<1>1. s \notin DOMAIN servers /\ servers' = With(servers, s, row) /\ chunks' = chunks
    BY DEF RegisterServer
<1>2. row \in Server
    BY EmptyCounts DEF Server
<1>3. DOMAIN servers' = DOMAIN servers \cup {s} /\ servers'[s] = row
      /\ \A t \in DOMAIN servers : servers'[t] = servers[t]
    BY <1>1 DEF With
<1>4. LandShape'
    BY <1>1, <1>2, <1>3 DEF LandInv, LandShape, With
<1>5. \A t, a : Owned(t, a)' = Owned(t, a) /\ On(t)' = On(t)
    BY <1>1 DEF Owned, On
<1>6. \A t \in DOMAIN servers : Tallied(t)'
    BY <1>3, <1>5 DEF LandInv, Tallied
<1>7. Tallied(s)'
  <2>1. \A a : On(s) = {} /\ Owned(s, a) = {}
      BY <1>1 DEF LandInv, LandShape, On, Owned
  <2>2. Cardinality({}) = 0
      BY FS_EmptySet
  <2>3. \A a : Holding(<< >>, a) = 0
      BY EmptyCounts DEF Holding
  <2>4. 0 <= MAX_CHUNKS_PER_OWNER
      BY LandAssumption
  <2>5. servers'[s].chunkCount = 0 /\ servers'[s].owners = << >>
      BY <1>3
  <2>6. \A a : On(s)' = {} /\ Owned(s, a)' = {}
      BY <1>5, <2>1
  <2> QED
      BY <2>2, <2>3, <2>4, <2>5, <2>6 DEF Tallied
<1> QED
    BY <1>3, <1>4, <1>6, <1>7 DEF LandInv

LEMMA ClaimChunkLand ==
    ASSUME LandInv, NEW from \in Addr, NEW fee, NEW s \in DOMAIN servers, NEW place \in Places,
           ClaimChunk(from, fee, s, place)
    PROVE  LandInv'
PROOF
<1> DEFINE key == <<s, place>>
           row == [owner |-> from, forSale |-> FALSE, price |-> 0]
           owners == servers[s].owners
           next == addHolding(owners, from, 1)
<1>1. /\ key \notin DOMAIN chunks /\ Holding(owners, from) < MAX_CHUNKS_PER_OWNER
      /\ servers' = [servers EXCEPT ![s].owners = next, ![s].chunkCount = @ + 1]
      /\ chunks' = With(chunks, key, row)
    BY DEF ClaimChunk, chunkKey, HasRoom
<1>2. LandShape /\ servers[s] \in Server /\ owners \in Counts /\ Tallied(s)
    BY DEF LandInv, LandShape, Server
<1>3. /\ next \in Counts
      /\ Holding(next, from) = Holding(owners, from) + 1
      /\ \A b \in Addr : b # from => Holding(next, b) = Holding(owners, b)
    BY <1>2, HoldingType, addHoldingAdds
<1> HIDE DEF next
<1>4. /\ DOMAIN servers' = DOMAIN servers
      /\ \A t \in DOMAIN servers : t # s => servers'[t] = servers[t]
      /\ servers'[s] = [servers[s] EXCEPT !.owners = next, !.chunkCount = @ + 1]
    BY <1>1
<1>5. servers'[s] \in Server /\ servers'[s].owners = next
      /\ servers'[s].chunkCount = servers[s].chunkCount + 1
  <2>1. servers[s] \in [owner : Addr, chunkCount : Nat, owners : Counts]
        /\ servers[s].chunkCount + 1 \in Nat
      BY <1>2 DEF Server
  <2> QED
      BY <1>3, <1>4, <2>1 DEF Server
<1>6. /\ DOMAIN chunks' = DOMAIN chunks \cup {key} /\ chunks'[key] = row /\ key[1] = s
      /\ \A k \in DOMAIN chunks : chunks'[k] = chunks[k]
    BY <1>1 DEF With
<1>7. LandShape'
  <2>1. IsFiniteSet(DOMAIN chunks')
    <3>1. IsFiniteSet(DOMAIN chunks)
        BY <1>2 DEF LandShape
    <3>2. DOMAIN chunks' = DOMAIN chunks \cup {key}
        BY <1>6
    <3> QED
        BY <3>1, <3>2, FS_AddElement
  <2>2. chunks' \in [DOMAIN chunks' -> Chunk]
      BY <1>1, <1>2, <1>6 DEF LandShape, Chunk, With
  <2>3. servers' \in [DOMAIN servers' -> Server]
      BY <1>1, <1>2, <1>4, <1>5 DEF LandShape
  <2> QED
      BY <1>2, <1>4, <1>6, <2>1, <2>2, <2>3 DEF LandShape
<1> HIDE DEF key, row, owners
<1>8. /\ \A t, a : t # s \/ a # from => Owned(t, a)' = Owned(t, a)
      /\ Owned(s, from)' = Owned(s, from) \cup {key}
      /\ \A t : t # s => On(t)' = On(t)
      /\ On(s)' = On(s) \cup {key}
    BY <1>6 DEF Owned, On, row
<1>9. key \notin Owned(s, from) /\ key \notin On(s)
    BY <1>1 DEF Owned, On
<1>10. /\ Cardinality(Owned(s, from)') = Cardinality(Owned(s, from)) + 1
       /\ Cardinality(On(s)') = Cardinality(On(s)) + 1
    BY <1>2, <1>8, <1>9, OwnedFinite, FS_AddElement
<1>11. \A t \in DOMAIN servers : t # s => Tallied(t)'
    BY <1>4, <1>8 DEF LandInv, Tallied
<1>12. Tallied(s)'
  <2>1. Holding(owners, from) \in Nat /\ MAX_CHUNKS_PER_OWNER \in Nat
      BY <1>2, HoldingType, LandAssumption
  <2> QED
      BY <1>1, <1>2, <1>3, <1>5, <1>8, <1>10, <2>1 DEF Tallied, owners
<1> QED
    BY <1>4, <1>7, <1>11, <1>12 DEF LandInv

LEMMA moveChunkLand ==
    ASSUME LandInv, NEW key \in DOMAIN chunks, NEW to \in Addr, chunks[key].owner # to,
           moveChunk(key, to)
    PROVE  LandInv'
PROOF
<1>0. PICK old \in Addr : old = chunks[key].owner
    BY DEF LandInv, LandShape, Chunk
<1> DEFINE s == key[1]
           owners == servers[s].owners
           next == Moved(owners, old, to)
<1>1. LandShape /\ s \in DOMAIN servers /\ servers[s] \in Server /\ owners \in Counts
      /\ Tallied(s) /\ chunks[key] \in Chunk /\ old # to
    BY <1>0 DEF LandInv, LandShape, Server, Chunk
<1>2. /\ Holding(owners, to) < MAX_CHUNKS_PER_OWNER
      /\ servers' = [servers EXCEPT ![s].owners = next]
      /\ chunks' = [chunks EXCEPT ![key] = Deed(@, to)]
    BY <1>0 DEF moveChunk, HasRoom
<1>3. key \in Owned(s, old) /\ key \notin Owned(s, to)
    BY <1>0 DEF Owned
<1>4. Holding(owners, old) > 0 /\ Holding(owners, to) \in Nat /\ Holding(owners, old) \in Nat
    BY <1>1, <1>3, OwnedFinite, HoldingType DEF Tallied
<1>5. /\ next \in Counts
      /\ Holding(next, old) = Holding(owners, old) - 1
      /\ Holding(next, to) = Holding(owners, to) + 1
      /\ \A b \in Addr \ {old, to} : Holding(next, b) = Holding(owners, b)
    BY <1>1, <1>4, MovedMoves
<1> HIDE DEF next
<1>6. /\ DOMAIN servers' = DOMAIN servers
      /\ \A t \in DOMAIN servers : t # s => servers'[t] = servers[t]
      /\ servers'[s] = [servers[s] EXCEPT !.owners = next]
    BY <1>1, <1>2
<1>7. servers'[s] \in Server /\ servers'[s].owners = next
      /\ servers'[s].chunkCount = servers[s].chunkCount
    BY <1>1, <1>5, <1>6 DEF Server
<1>8. /\ DOMAIN chunks' = DOMAIN chunks
      /\ chunks'[key].owner = to /\ chunks'[key] \in Chunk
      /\ \A k \in DOMAIN chunks : k # key => chunks'[k] = chunks[k]
    BY <1>1, <1>2 DEF Deed, Chunk
<1>9. LandShape'
  <2>1. servers' \in [DOMAIN servers' -> Server]
      BY <1>1, <1>2, <1>6, <1>7 DEF LandShape
  <2>2. chunks' \in [DOMAIN chunks' -> Chunk]
      BY <1>1, <1>2, <1>8 DEF LandShape
  <2> QED
      BY <1>1, <1>6, <1>8, <2>1, <2>2 DEF LandShape
<1> HIDE DEF owners
<1>10. /\ \A t : On(t)' = On(t)
       /\ \A t, a : t # s \/ a \notin {old, to} => Owned(t, a)' = Owned(t, a)
       /\ Owned(s, old)' = Owned(s, old) \ {key}
       /\ Owned(s, to)' = Owned(s, to) \cup {key}
  <2>1. \A t : On(t)' = On(t)
      BY <1>8 DEF On
  <2>2. \A t, a : Owned(t, a)' = {k \in DOMAIN chunks : k[1] = t /\ chunks'[k].owner = a}
      BY <1>8 DEF Owned
  <2>3. ASSUME NEW t, NEW a, t # s \/ a \notin {old, to}
        PROVE  Owned(t, a)' = Owned(t, a)
      BY <1>0, <1>8, <2>2, <2>3 DEF Owned
  <2>4. Owned(s, old)' = Owned(s, old) \ {key}
      BY <1>0, <1>1, <1>8, <2>2 DEF Owned
  <2>5. Owned(s, to)' = Owned(s, to) \cup {key}
      BY <1>0, <1>1, <1>8, <2>2 DEF Owned
  <2> QED
      BY <2>1, <2>3, <2>4, <2>5
<1>11. /\ Cardinality(Owned(s, old)') = Cardinality(Owned(s, old)) - 1
       /\ Cardinality(Owned(s, to)') = Cardinality(Owned(s, to)) + 1
  <2>1. IsFiniteSet(Owned(s, old)) /\ IsFiniteSet(Owned(s, to))
      BY <1>1, OwnedFinite
  <2>2. Cardinality(Owned(s, old) \ {key}) = Cardinality(Owned(s, old)) - 1
      BY <1>3, <2>1, FS_RemoveElement
  <2>3. Cardinality(Owned(s, to) \cup {key}) = Cardinality(Owned(s, to)) + 1
      BY <1>3, <2>1, FS_AddElement
  <2> QED
      BY <1>10, <2>2, <2>3
<1>12. \A t \in DOMAIN servers : t # s => Tallied(t)'
    BY <1>6, <1>10 DEF LandInv, Tallied
<1>13. Tallied(s)'
  <2>1. MAX_CHUNKS_PER_OWNER \in Nat
      BY LandAssumption
  <2>2. \A a \in Addr : /\ Holding(next, a) = Cardinality(Owned(s, a)')
                        /\ Holding(next, a) <= MAX_CHUNKS_PER_OWNER
    <3>1. \A a \in Addr : /\ Holding(owners, a) = Cardinality(Owned(s, a))
                           /\ Holding(owners, a) <= MAX_CHUNKS_PER_OWNER
                           /\ Holding(owners, a) \in Nat
        BY <1>1, HoldingType DEF Tallied, owners
    <3> TAKE a \in Addr
    <3>2. CASE a = old
        BY <1>1, <1>4, <1>5, <1>11, <2>1, <3>1, <3>2
    <3>3. CASE a = to
        BY <1>2, <1>4, <1>5, <1>11, <2>1, <3>1, <3>3
    <3>4. CASE a \notin {old, to}
        BY <1>5, <1>10, <3>1, <3>4
    <3> QED
        BY <3>2, <3>3, <3>4
  <2> QED
      BY <1>1, <1>7, <1>10, <2>2 DEF Tallied
<1> QED
    BY <1>6, <1>9, <1>12, <1>13 DEF LandInv

LEMMA SetChunkSaleLand ==
    ASSUME LandInv, NEW from, NEW fee, NEW key \in DOMAIN chunks, NEW price \in Nat,
           SetChunkSale(from, fee, key, price)
    PROVE  LandInv'
PROOF
<1>1. /\ servers' = servers
      /\ chunks' = [chunks EXCEPT ![key].forSale = price > 0, ![key].price = price]
    BY DEF SetChunkSale
<1>2. chunks[key] \in Chunk /\ (price > 0) \in BOOLEAN
    BY DEF LandInv, LandShape
<1>3. /\ DOMAIN chunks' = DOMAIN chunks
      /\ chunks'[key] \in Chunk /\ chunks'[key].owner = chunks[key].owner
      /\ \A k \in DOMAIN chunks : k # key => chunks'[k] = chunks[k]
    BY <1>1, <1>2 DEF Chunk
<1>4. LandShape'
    BY <1>1, <1>3 DEF LandInv, LandShape
<1>5. \A t, a : Owned(t, a)' = Owned(t, a) /\ On(t)' = On(t)
    BY <1>3 DEF Owned, On
<1> QED
    BY <1>1, <1>4, <1>5 DEF LandInv, Tallied

LEMMA LandTxInv ==
    ASSUME LandInv, NEW from \in Addr, NEW fee, LandTx(from, fee)
    PROVE  LandInv' /\ DOMAIN servers \subseteq DOMAIN servers'
PROOF
<1>1. CASE \E s \in ServerIds : RegisterServer(from, fee, s)
    BY <1>1, RegisterServerLand DEF RegisterServer, With
<1>2. CASE \E s \in DOMAIN servers, place \in Places : ClaimChunk(from, fee, s, place)
    BY <1>2, ClaimChunkLand DEF ClaimChunk
<1>3. ASSUME NEW key \in DOMAIN chunks
      PROVE  /\ \A price \in SalePrices : SetChunkSale(from, fee, key, price) =>
                    LandInv' /\ DOMAIN servers \subseteq DOMAIN servers'
             /\ \A maxPrice \in SalePrices : BuyChunk(from, fee, key, maxPrice) =>
                    LandInv' /\ DOMAIN servers \subseteq DOMAIN servers'
             /\ \A to \in Addr : TransferChunk(from, fee, key, to) =>
                    LandInv' /\ DOMAIN servers \subseteq DOMAIN servers'
  <2>1. ASSUME NEW price \in SalePrices, SetChunkSale(from, fee, key, price)
        PROVE  LandInv' /\ DOMAIN servers \subseteq DOMAIN servers'
      BY <2>1, SetChunkSaleLand, LandAssumption DEF SetChunkSale
  <2>2. ASSUME NEW maxPrice, BuyChunk(from, fee, key, maxPrice)
        PROVE  LandInv' /\ DOMAIN servers \subseteq DOMAIN servers'
      BY <2>2, moveChunkLand DEF BuyChunk, moveChunk
  <2>3. ASSUME NEW to \in Addr, TransferChunk(from, fee, key, to)
        PROVE  LandInv' /\ DOMAIN servers \subseteq DOMAIN servers'
      BY <2>3, moveChunkLand DEF TransferChunk, moveChunk
  <2> QED
      BY <2>1, <2>2, <2>3
<1> QED
    BY <1>1, <1>2, <1>3 DEF LandTx

(* A deed changes hands by a sale or by the signature of its owner.        *)
LEMMA LandTxDeeds ==
    ASSUME LandInv, LedgerTypeOK, NEW from \in Addr, NEW fee \in Nat, LandTx(from, fee),
           NEW key \in DOMAIN chunks
    PROVE  LET old == chunks[key]
               new == chunks'[key]
           IN  /\ key \in DOMAIN chunks'
               /\ new.owner # old.owner =>
                     /\ ~ new.forSale
                     /\ \/ nonce'[old.owner] > nonce[old.owner]
                        \/ /\ old.forSale
                           /\ nonce'[new.owner] > nonce[new.owner]
                           /\ balance'[old.owner] =
                                 balance[old.owner] + old.price - FeeOf(old.price, LAND_FEE_BPS)
PROOF
<1> DEFINE old == chunks[key]
           new == chunks'[key]
<1>0. /\ nonce \in [Addr -> Nat] /\ balance \in [Addr -> Nat]
      /\ \A k \in DOMAIN chunks : chunks[k] \in Chunk /\ chunks[k].owner \in Addr
                                  /\ chunks[k].price \in Nat
    BY DEF LedgerTypeOK, LandInv, LandShape, Chunk
<1>1. CASE \E s \in ServerIds : RegisterServer(from, fee, s)
    BY <1>1 DEF RegisterServer
<1>2. CASE \E s \in DOMAIN servers, place \in Places : ClaimChunk(from, fee, s, place)
    BY <1>2 DEF ClaimChunk, With
<1>3. ASSUME NEW k \in DOMAIN chunks, NEW price \in SalePrices, SetChunkSale(from, fee, k, price)
      PROVE  key \in DOMAIN chunks' /\ new.owner = old.owner
    BY <1>0, <1>3 DEF SetChunkSale, Chunk
<1>4. ASSUME NEW k \in DOMAIN chunks, NEW maxPrice \in SalePrices, BuyChunk(from, fee, k, maxPrice)
      PROVE  /\ key \in DOMAIN chunks'
             /\ new.owner # old.owner =>
                   /\ ~ new.forSale
                   /\ old.forSale
                   /\ nonce'[new.owner] > nonce[new.owner]
                   /\ balance'[old.owner] =
                         balance[old.owner] + old.price - FeeOf(old.price, LAND_FEE_BPS)
  <2> DEFINE cut == FeeOf(chunks[k].price, LAND_FEE_BPS)
  <2>1. /\ chunks' = [chunks EXCEPT ![k] = Deed(@, from)]
        /\ chunks[k].forSale /\ chunks[k].owner # from
        /\ balance' = Plus(Minus(balance, from, fee + chunks[k].price), chunks[k].owner,
                           chunks[k].price - cut)
        /\ nonce' = [nonce EXCEPT ![from] = @ + 1]
      BY <1>4 DEF BuyChunk, moveChunk, Landed
  <2>2. cut \in Int
      BY <1>0, FeeOfType, LandAssumption
  <2> HIDE DEF cut
  <2>3. key \in DOMAIN chunks' /\ (key # k => new = old)
      BY <2>1
  <2>4. chunks'[k].owner = from /\ ~ chunks'[k].forSale
      BY <1>0, <2>1 DEF Deed, Chunk
  <2>5. nonce'[from] > nonce[from]
      BY <1>0, <2>1
  <2>6. balance'[chunks[k].owner] = balance[chunks[k].owner] + chunks[k].price - cut
      BY <1>0, <2>1, <2>2 DEF Plus, Minus
  <2> QED
      BY <2>1, <2>3, <2>4, <2>5, <2>6 DEF cut
<1>5. ASSUME NEW k \in DOMAIN chunks, NEW to \in Addr, TransferChunk(from, fee, k, to)
      PROVE  /\ key \in DOMAIN chunks'
             /\ new.owner # old.owner => ~ new.forSale /\ nonce'[old.owner] > nonce[old.owner]
  <2>1. /\ chunks' = [chunks EXCEPT ![k] = Deed(@, to)] /\ chunks[k].owner = from
        /\ nonce' = [nonce EXCEPT ![from] = @ + 1]
      BY <1>5 DEF TransferChunk, moveChunk, PayFee, PayBank, Landed
  <2>2. ~ chunks'[k].forSale
      BY <1>0, <2>1 DEF Deed, Chunk
  <2> QED
      BY <1>0, <2>1, <2>2
<1> QED
    BY <1>1, <1>2, <1>3, <1>4, <1>5 DEF LandTx

-----------------------------------------------------------------------------
(* The market. Custody and listings name each other: a listing can be      *)
(* delivered because its items name it, and items that name a listing      *)
(* cannot be withdrawn.                                                    *)

MarketInv ==
    /\ MarketTypeOK
    /\ \A id \in DOMAIN listings : listings[id].inventoryId \in DOMAIN inventories
    /\ SalesCanDeliver
    /\ UuidsAgree

LEMMA NoneIsNoId == None \notin Ids /\ None \notin Uuids
PROOF BY MarketAssumption DEF Ids

LEMMA TxIdType ==
    ASSUME LedgerTypeOK, NEW from \in Addr
    PROVE  TxId(from) \in Ids
PROOF BY DEF LedgerTypeOK, TxId, Ids

LEMMA SaleFeeType ==
    ASSUME NEW listing, listing.price \in Nat
    PROVE  SaleFee(listing) \in 0..listing.price
PROOF BY FeeOfType, MarketAssumption DEF SaleFee

(* Items nobody has listed are named by no open listing.                   *)
LEMMA FreeIsUnlisted ==
    ASSUME MarketInv, NEW from, NEW id, Free(from, id), NEW l \in DOMAIN listings,
           listings[l].inventoryId = id
    PROVE  listings[l].status # "open"
PROOF
<1>1. l \in Ids /\ l # None
    BY NoneIsNoId DEF MarketInv, MarketTypeOK
<1> QED
    BY <1>1 DEF MarketInv, SalesCanDeliver, Free

LEMMA RegisterUuidMarket ==
    ASSUME MarketInv, NEW from \in Addr, NEW fee, NEW u \in Uuids, RegisterUuid(from, fee, u)
    PROVE  MarketInv'
PROOF
<1>1. /\ uuids' = With(uuids, u, from) /\ accountUuid' = [accountUuid EXCEPT ![from] = u]
      /\ inventories' = inventories /\ listings' = listings
      /\ (u \in DOMAIN uuids => uuids[u] = from)
      /\ accountUuid[from] \in {None, u}
    BY DEF RegisterUuid, MayBind
<1>2. /\ DOMAIN uuids' = DOMAIN uuids \cup {u} /\ uuids'[u] = from
      /\ \A v \in DOMAIN uuids : v # u => uuids'[v] = uuids[v]
    BY <1>1 DEF With
<1>3. MarketTypeOK'
  <2>1. uuids' \in [DOMAIN uuids' -> Addr]
      BY <1>1, <1>2 DEF MarketInv, MarketTypeOK, With
  <2> QED
      BY <1>1, <1>2, <2>1 DEF MarketInv, MarketTypeOK
<1>4. SalesCanDeliver'
    BY <1>1 DEF MarketInv, SalesCanDeliver
<1>5. ASSUME NEW a \in Addr, NEW v \in Uuids
      PROVE  accountUuid'[a] = v <=> (v \in DOMAIN uuids' /\ uuids'[v] = a)
  <2>1. /\ accountUuid'[from] = u /\ \A b \in Addr : b # from => accountUuid'[b] = accountUuid[b]
      BY <1>1 DEF MarketInv, MarketTypeOK
  <2>2. accountUuid[a] = v <=> (v \in DOMAIN uuids /\ uuids[v] = a)
      BY DEF MarketInv, UuidsAgree
  <2>3. v # None
      BY NoneIsNoId
  <2> QED
      BY <1>1, <1>2, <2>1, <2>2, <2>3
<1>6. UuidsAgree'
    BY <1>5 DEF UuidsAgree
<1> QED
    BY <1>1, <1>3, <1>4, <1>6 DEF MarketInv

LEMMA DepositMarket ==
    ASSUME MarketInv, LedgerTypeOK, NEW from \in Addr, NEW fee, NEW u \in Uuids,
           DepositInventory(from, fee, u)
    PROVE  MarketInv'
PROOF
<1> DEFINE id == TxId(from)
           inv == [owner |-> from, uuid |-> u, listingId |-> None,
                   acquiredVia |-> None, claimed |-> FALSE]
<1>1. /\ id \notin DOMAIN inventories /\ inventories' = With(inventories, id, inv)
      /\ uuids' = uuids /\ accountUuid' = accountUuid /\ listings' = listings
    BY DEF DepositInventory
<1>2. id \in Ids /\ inv \in Inventory /\ inv.listingId = None
    BY TxIdType DEF Inventory
<1> HIDE DEF id, inv
<1>3. /\ DOMAIN inventories' = DOMAIN inventories \cup {id} /\ inventories'[id] = inv
      /\ \A i \in DOMAIN inventories : inventories'[i] = inventories[i]
    BY <1>1 DEF With
<1>4. MarketTypeOK'
  <2>1. inventories' \in [DOMAIN inventories' -> Inventory]
      BY <1>1, <1>2, <1>3 DEF MarketInv, MarketTypeOK, With
  <2> QED
      BY <1>1, <1>2, <1>3, <2>1 DEF MarketInv, MarketTypeOK
<1>5. SalesCanDeliver'
    BY <1>1, <1>2, <1>3 DEF MarketInv, SalesCanDeliver
<1>6. UuidsAgree'
    BY <1>1 DEF MarketInv, UuidsAgree
<1> QED
    BY <1>1, <1>3, <1>4, <1>5, <1>6 DEF MarketInv

(* The custody record of id changes and the listing that was there stays.  *)
LEMMA WithdrawMarket ==
    ASSUME MarketInv, NEW from \in Addr, NEW fee, NEW id \in DOMAIN inventories,
           WithdrawInventory(from, fee, id)
    PROVE  MarketInv'
PROOF
<1>1. /\ Free(from, id) /\ inventories' = [inventories EXCEPT ![id].claimed = TRUE]
      /\ uuids' = uuids /\ accountUuid' = accountUuid /\ listings' = listings
    BY DEF WithdrawInventory
<1>2. inventories[id] \in Inventory
    BY DEF MarketInv, MarketTypeOK
<1>3. /\ DOMAIN inventories' = DOMAIN inventories
      /\ inventories'[id] \in Inventory /\ inventories'[id].listingId = inventories[id].listingId
      /\ \A i \in DOMAIN inventories : i # id => inventories'[i] = inventories[i]
    BY <1>1, <1>2 DEF Inventory
<1>4. MarketTypeOK'
    BY <1>1, <1>3 DEF MarketInv, MarketTypeOK
<1>5. SalesCanDeliver'
    BY <1>1, <1>3, FreeIsUnlisted DEF MarketInv, SalesCanDeliver
<1>6. UuidsAgree'
    BY <1>1 DEF MarketInv, UuidsAgree
<1> QED
    BY <1>1, <1>3, <1>4, <1>5, <1>6 DEF MarketInv

LEMMA ListItemMarket ==
    ASSUME MarketInv, LedgerTypeOK, NEW from \in Addr, NEW fee, NEW id \in DOMAIN inventories,
           NEW price \in Prices, NEW symbol \in Symbols \cup {NATIVE},
           ListItem(from, fee, id, price, symbol)
    PROVE  MarketInv'
PROOF
<1> DEFINE l == TxId(from)
           row == [seller |-> from, inventoryId |-> id, price |-> price, symbol |-> symbol,
                   status |-> "open", buyer |-> None, fee |-> 0]
<1>1. /\ l \notin DOMAIN listings /\ Free(from, id)
      /\ listings' = With(listings, l, row)
      /\ inventories' = [inventories EXCEPT ![id].listingId = l]
      /\ uuids' = uuids /\ accountUuid' = accountUuid
    BY DEF ListItem
<1>2. l \in Ids /\ id \in Ids /\ inventories[id] \in Inventory
    BY TxIdType DEF MarketInv, MarketTypeOK
<1>3. /\ row \in Listing /\ row.inventoryId = id /\ row.status = "open" /\ row.seller = from
    BY <1>2, MarketAssumption DEF Listing
<1> HIDE DEF l, row
<1>4. /\ DOMAIN listings' = DOMAIN listings \cup {l} /\ listings'[l] = row
      /\ \A k \in DOMAIN listings : listings'[k] = listings[k]
    BY <1>1 DEF With
<1>5. /\ DOMAIN inventories' = DOMAIN inventories
      /\ inventories'[id] \in Inventory /\ inventories'[id].listingId = l
      /\ inventories'[id].owner = inventories[id].owner
      /\ inventories'[id].claimed = inventories[id].claimed
      /\ \A i \in DOMAIN inventories : i # id => inventories'[i] = inventories[i]
    BY <1>1, <1>2 DEF Inventory
<1>6. MarketTypeOK'
  <2>1. listings' \in [DOMAIN listings' -> Listing]
      BY <1>1, <1>3, <1>4 DEF MarketInv, MarketTypeOK, With
  <2>2. inventories' \in [DOMAIN inventories' -> Inventory]
      BY <1>1, <1>5 DEF MarketInv, MarketTypeOK
  <2> QED
      BY <1>1, <1>2, <1>4, <1>5, <2>1, <2>2 DEF MarketInv, MarketTypeOK
<1>7. SalesCanDeliver'
  <2>1. ASSUME NEW k \in DOMAIN listings'
        PROVE  LET inv == inventories'[listings'[k].inventoryId]
               IN  IF listings'[k].status = "open"
                   THEN inv.listingId = k /\ ~ inv.claimed /\ inv.owner = listings'[k].seller
                   ELSE inv.listingId # k
    <3>1. CASE k = l
        BY <1>1, <1>3, <1>4, <1>5, <3>1 DEF Free
    <3>2. CASE k # l /\ listings[k].inventoryId = id
        BY <1>1, <1>4, <1>5, <3>2, FreeIsUnlisted
    <3>3. CASE k # l /\ listings[k].inventoryId # id
        BY <1>4, <1>5, <3>3 DEF MarketInv, SalesCanDeliver
    <3> QED
        BY <3>1, <3>2, <3>3
  <2>2. \A i \in DOMAIN inventories' :
            inventories'[i].listingId \in DOMAIN listings' \cup {None}
      BY <1>4, <1>5 DEF MarketInv, SalesCanDeliver
  <2> QED
      BY <2>1, <2>2 DEF SalesCanDeliver
<1>8. UuidsAgree'
    BY <1>1 DEF MarketInv, UuidsAgree
<1> QED
    BY <1>3, <1>4, <1>5, <1>6, <1>7, <1>8 DEF MarketInv

(* A listing closes, and its items name no listing any more.               *)
LEMMA ListingCloses ==
    ASSUME MarketInv, NEW id \in DOMAIN listings, listings[id].status = "open",
           NEW inv \in Inventory, inv.listingId = None,
           NEW row \in Listing, row.status # "open",
           row.inventoryId = listings[id].inventoryId,
           listings' = [listings EXCEPT ![id] = row],
           inventories' = [inventories EXCEPT ![listings[id].inventoryId] = inv],
           uuids' = uuids, accountUuid' = accountUuid
    PROVE  MarketInv'
PROOF
<1> DEFINE i == listings[id].inventoryId
<1>1. i \in DOMAIN inventories /\ id \in Ids /\ id # None /\ inventories[i].listingId = id
    BY NoneIsNoId DEF MarketInv, MarketTypeOK, SalesCanDeliver
<1>2. /\ DOMAIN listings' = DOMAIN listings /\ listings'[id] = row
      /\ \A k \in DOMAIN listings : k # id => listings'[k] = listings[k]
    OBVIOUS
<1>3. /\ DOMAIN inventories' = DOMAIN inventories /\ inventories'[i] = inv
      /\ \A k \in DOMAIN inventories : k # i => inventories'[k] = inventories[k]
    BY <1>1
<1>4. MarketTypeOK'
    BY <1>2, <1>3 DEF MarketInv, MarketTypeOK
<1>5. \A k \in DOMAIN listings' : listings'[k].inventoryId \in DOMAIN inventories'
    BY <1>1, <1>2, <1>3 DEF MarketInv
<1>6. SalesCanDeliver'
  <2>1. ASSUME NEW k \in DOMAIN listings
        PROVE  LET v == inventories'[listings'[k].inventoryId]
               IN  IF listings'[k].status = "open"
                   THEN v.listingId = k /\ ~ v.claimed /\ v.owner = listings'[k].seller
                   ELSE v.listingId # k
    <3>1. CASE k = id
        BY <1>1, <1>2, <1>3, <3>1
    <3>2. CASE k # id /\ listings[k].inventoryId = i
      <4>1. listings[k].status # "open"
          BY <1>1, <3>2 DEF MarketInv, SalesCanDeliver
      <4>2. k # None
          BY NoneIsNoId DEF MarketInv, MarketTypeOK
      <4> QED
          BY <1>2, <1>3, <3>2, <4>1, <4>2
    <3>3. CASE k # id /\ listings[k].inventoryId # i
        BY <1>2, <1>3, <3>3 DEF MarketInv, SalesCanDeliver
    <3> QED
        BY <3>1, <3>2, <3>3
  <2>2. \A k \in DOMAIN inventories' :
            inventories'[k].listingId \in DOMAIN listings' \cup {None}
      BY <1>2, <1>3 DEF MarketInv, SalesCanDeliver
  <2> QED
      BY <1>2, <2>1, <2>2 DEF SalesCanDeliver
<1>7. UuidsAgree'
    BY DEF MarketInv, UuidsAgree
<1> QED
    BY <1>4, <1>5, <1>6, <1>7 DEF MarketInv

LEMMA CancelListingMarket ==
    ASSUME MarketInv, NEW from \in Addr, NEW fee, NEW id \in DOMAIN listings,
           CancelListing(from, fee, id)
    PROVE  MarketInv'
PROOF
<1> DEFINE i == listings[id].inventoryId
           inv == [inventories[i] EXCEPT !.listingId = None]
           row == [listings[id] EXCEPT !.status = "cancelled"]
<1>1. listings[id] \in Listing /\ i \in DOMAIN inventories /\ inventories[i] \in Inventory
    BY DEF MarketInv, MarketTypeOK
<1>2. /\ listings[id].status = "open" /\ uuids' = uuids /\ accountUuid' = accountUuid
      /\ listings' = [listings EXCEPT ![id] = row]
      /\ inventories' = [inventories EXCEPT ![i] = inv]
    BY DEF CancelListing
<1>3. inv \in Inventory /\ inv.listingId = None
    BY <1>1 DEF Inventory
<1>4. row \in Listing /\ row.status # "open" /\ row.inventoryId = i
    BY <1>1 DEF Listing
<1> HIDE DEF inv, row
<1> QED
    BY <1>2, <1>3, <1>4, ListingCloses

LEMMA BuyListingMarket ==
    ASSUME MarketInv, NEW from \in Addr, NEW fee, NEW id \in DOMAIN listings,
           BuyListing(from, fee, id)
    PROVE  MarketInv'
PROOF
<1> DEFINE i == listings[id].inventoryId
           inv == Delivered(inventories[i], from, id)
           row == [listings[id] EXCEPT !.status = "sold", !.buyer = from,
                                       !.fee = SaleFee(listings[id])]
<1>1. listings[id] \in Listing /\ id \in Ids /\ i \in DOMAIN inventories
      /\ inventories[i] \in Inventory
    BY DEF MarketInv, MarketTypeOK
<1>2. /\ listings[id].status = "open" /\ uuids' = uuids /\ accountUuid' = accountUuid
      /\ listings' = [listings EXCEPT ![id] = row]
      /\ inventories' = [inventories EXCEPT ![i] = inv]
    BY DEF BuyListing
<1>3. inv \in Inventory /\ inv.listingId = None
    BY <1>1 DEF Inventory, Delivered
<1>4. row \in Listing /\ row.status # "open" /\ row.inventoryId = i
  <2>1. SaleFee(listings[id]) \in Nat
      BY <1>1, SaleFeeType DEF Listing
  <2> QED
      BY <1>1, <2>1 DEF Listing
<1> HIDE DEF inv, row
<1> QED
    BY <1>2, <1>3, <1>4, ListingCloses

LEMMA MarketTxInv ==
    ASSUME MarketInv, LedgerTypeOK, NEW from \in Addr, NEW fee, MarketTx(from, fee)
    PROVE  MarketInv'
PROOF
    BY RegisterUuidMarket, DepositMarket, WithdrawMarket, ListItemMarket,
       CancelListingMarket, BuyListingMarket
    DEF MarketTx

(* Items change hands by a sale only, and collected items never again.     *)
LEMMA MarketTxItems ==
    ASSUME MarketInv, LedgerTypeOK, CurrenciesTypeOK, NEW from \in Addr, NEW fee \in Nat,
           MarketTx(from, fee), NEW id \in DOMAIN inventories
    PROVE  LET inv  == inventories[id]
               sale == listings[inv.listingId]
           IN  /\ inv.claimed => inventories'[id] = inv
               /\ inventories'[id].owner # inv.owner =>
                     /\ inv.listingId # None
                     /\ nonce'[inventories'[id].owner] = nonce[inventories'[id].owner] + 1
                     /\ Held(balance', tokens', inv.owner, sale.symbol) =
                           Held(balance, tokens, inv.owner, sale.symbol) + sale.price
                               - FeeOf(sale.price, MARKET_FEE_BPS)
PROOF
<1> DEFINE inv == inventories[id]
           new == inventories'[id]
<1>0. inv \in Inventory /\ DOMAIN inventories \subseteq Ids
    BY DEF MarketInv, MarketTypeOK
<1>1. CASE \E u \in Uuids : RegisterUuid(from, fee, u)
    BY <1>1 DEF RegisterUuid
<1>2. CASE \E u \in Uuids : DepositInventory(from, fee, u)
    BY <1>2 DEF DepositInventory, With
<1>3. ASSUME NEW k \in DOMAIN inventories, WithdrawInventory(from, fee, k)
      PROVE  (inv.claimed => new = inv) /\ new.owner = inv.owner
    BY <1>0, <1>3 DEF WithdrawInventory, Free, Inventory
<1>4. ASSUME NEW k \in DOMAIN inventories, NEW price, NEW s, ListItem(from, fee, k, price, s)
      PROVE  (inv.claimed => new = inv) /\ new.owner = inv.owner
    BY <1>0, <1>4 DEF ListItem, Free, Inventory
<1>5. ASSUME NEW l \in DOMAIN listings, CancelListing(from, fee, l)
      PROVE  (inv.claimed => new = inv) /\ new.owner = inv.owner
  <2>1. /\ inventories' = [inventories EXCEPT ![listings[l].inventoryId].listingId = None]
        /\ ~ inventories[listings[l].inventoryId].claimed
      BY <1>5 DEF CancelListing, MarketInv, SalesCanDeliver
  <2> QED
      BY <1>0, <2>1 DEF Inventory
<1>6. ASSUME NEW l \in DOMAIN listings, BuyListing(from, fee, l)
      PROVE  /\ inv.claimed => new = inv
             /\ new.owner # inv.owner =>
                   /\ inv.listingId # None
                   /\ nonce'[new.owner] = nonce[new.owner] + 1
                   /\ Held(balance', tokens', inv.owner, listings[inv.listingId].symbol) =
                         Held(balance, tokens, inv.owner, listings[inv.listingId].symbol)
                             + listings[inv.listingId].price
                             - FeeOf(listings[inv.listingId].price, MARKET_FEE_BPS)
  <2> DEFINE sale == listings[l]
             cut == SaleFee(sale)
  <2>1. /\ inventories' = [inventories EXCEPT ![sale.inventoryId] = Delivered(@, from, l)]
        /\ sale.status = "open" /\ ~ inventories[sale.inventoryId].claimed
        /\ sale.seller # from
        /\ nonce' = [nonce EXCEPT ![from] = @ + 1]
      BY <1>6 DEF BuyListing, Landed
  <2>2. CASE id # sale.inventoryId
      BY <2>1, <2>2
  <2>3. CASE id = sale.inventoryId
    <3>1. inv.listingId = l /\ inv.owner = sale.seller /\ l # None
        BY <2>1, <2>3, NoneIsNoId DEF MarketInv, SalesCanDeliver, MarketTypeOK
    <3>2. new.owner = from
        BY <1>0, <2>1, <2>3 DEF Delivered, Inventory
    <3>3. nonce'[from] = nonce[from] + 1
        BY <2>1 DEF LedgerTypeOK
    <3>4. sale.price \in Nat /\ sale.seller \in Addr /\ sale.symbol \in Symbols \cup {NATIVE}
        BY DEF MarketInv, MarketTypeOK, Listing
    <3>5. cut \in Nat /\ cut = FeeOf(sale.price, MARKET_FEE_BPS)
        BY <3>4, SaleFeeType DEF SaleFee
    <3> HIDE DEF cut
    <3>6. Held(balance', tokens', sale.seller, sale.symbol) =
              Held(balance, tokens, sale.seller, sale.symbol) + sale.price - cut
      <4>1. Pay(from, fee, sale.seller, sale.symbol, sale.price, cut)
          BY <1>6 DEF BuyListing, cut
      <4>2. CASE sale.symbol = NATIVE
        <5>1. balance' = Plus(Minus(balance, from, fee + sale.price), sale.seller, sale.price - cut)
            BY <4>1, <4>2 DEF Pay
        <5>2. balance \in [Addr -> Nat]
            BY DEF LedgerTypeOK
        <5>3. balance'[sale.seller] = balance[sale.seller] + (sale.price - cut)
            BY <2>1, <3>4, <5>1, <5>2 DEF Plus, Minus
        <5>4. balance[sale.seller] \in Nat
            BY <3>4, <5>2
        <5> QED
            BY <3>4, <3>5, <4>2, <5>3, <5>4 DEF Held
      <4>3. CASE sale.symbol # NATIVE
        <5>1. tokens' = [tokens EXCEPT ![sale.symbol] =
                             Plus(Minus(@, from, sale.price), sale.seller, sale.price - cut)]
            BY <4>1, <4>3 DEF Pay
        <5>2. tokens \in [Symbols -> [Addr -> Nat]] /\ sale.symbol \in Symbols
            BY <3>4, <4>3 DEF CurrenciesTypeOK
        <5>3. tokens'[sale.symbol] =
                  Plus(Minus(tokens[sale.symbol], from, sale.price), sale.seller, sale.price - cut)
              /\ tokens[sale.symbol] \in [Addr -> Nat]
            BY <5>1, <5>2
        <5>4. tokens'[sale.symbol][sale.seller] =
                  tokens[sale.symbol][sale.seller] + (sale.price - cut)
            BY <2>1, <3>4, <5>3 DEF Plus, Minus
        <5>5. tokens[sale.symbol][sale.seller] \in Nat
            BY <3>4, <5>3
        <5> QED
            BY <3>4, <3>5, <4>3, <5>4, <5>5 DEF Held
      <4> QED
          BY <4>2, <4>3
    <3> QED
        BY <2>1, <2>3, <3>1, <3>2, <3>3, <3>5, <3>6
  <2> QED
      BY <2>2, <2>3
<1> QED
    BY <1>1, <1>2, <1>3, <1>4, <1>5, <1>6 DEF MarketTx

-----------------------------------------------------------------------------
(* Votes                                                                   *)

Ballots == UNION {[A -> {"yes", "no"}] : A \in SUBSET Addr}

Vote ==
    [serverId : ServerIds \cup {None}, yes : Nat, no : Nat, voters : Ballots,
     endTime : Nat, running : BOOLEAN, result : {None, "passed", "rejected", "tied"}]

VotesInv ==
    /\ DOMAIN votes \subseteq Ids
    /\ votes \in [DOMAIN votes -> Vote]
    /\ \A id \in DOMAIN votes : votes[id].serverId \in DOMAIN servers \cup {None}
    /\ VotesAreCounted

LEMMA BallotsType ==
    \A b : b \in Ballots <=> DOMAIN b \subseteq Addr /\ b \in [DOMAIN b -> {"yes", "no"}]
PROOF BY DEF Ballots

LEMMA VotesInvImplies == VotesInv => GovernanceTypeOK /\ VotesAreCounted
PROOF BY BallotsType DEF VotesInv, GovernanceTypeOK, Vote, Ids

(* What VotesAreCounted says of one vote.                                  *)
Counted(vote) ==
    /\ vote.yes = Cardinality(Casting(vote, "yes"))
    /\ vote.no = Cardinality(Casting(vote, "no"))
    /\ vote.result = IF vote.running THEN None ELSE Outcome(vote)

LEMMA CountedVotes == VotesAreCounted <=> \A id \in DOMAIN votes : Counted(votes[id])
PROOF BY DEF VotesAreCounted, Counted

LEMMA CastingFinite ==
    ASSUME NEW vote, vote.voters \in Ballots, NEW choice
    PROVE  IsFiniteSet(Casting(vote, choice)) /\ Cardinality(Casting(vote, choice)) \in Nat
PROOF
<1>1. Casting(vote, choice) \in SUBSET Addr
    BY BallotsType DEF Casting
<1>2. IsFiniteSet(Casting(vote, choice))
    BY <1>1, ConstantTypes, FS_Subset
<1> QED
    BY <1>2, FS_CardinalityType

LEMMA CreateVoteInv ==
    ASSUME VotesInv, LedgerTypeOK, LandInv, NEW from \in Addr, NEW fee,
           NEW s \in DOMAIN servers \cup {None}, NEW d \in VoteDurations,
           CreateVote(from, fee, s, d), DOMAIN servers \subseteq DOMAIN servers'
    PROVE  VotesInv'
PROOF
<1> DEFINE id == TxId(from)
           row == [serverId |-> s, yes |-> 0, no |-> 0, voters |-> << >>,
                   endTime |-> block.timestamp + d, running |-> TRUE, result |-> None]
<1>1. votes' = With(votes, id, row) /\ id \in Ids
    BY TxIdType DEF CreateVote
<1>2. << >> \in Ballots /\ DOMAIN << >> = {}
  <2>1. << >> \in [{} -> {"yes", "no"}] /\ DOMAIN << >> = {}
      OBVIOUS
  <2> QED
      BY <2>1 DEF Ballots
<1>3. block.timestamp + d \in Nat
    BY LedgerFields, GovernanceAssumption
<1>4. row \in Vote
  <2>1. s \in ServerIds \cup {None}
      BY DEF LandInv, LandShape
  <2> QED
      BY <1>2, <1>3, <2>1 DEF Vote
<1>5. Counted(row)
  <2>1. Casting(row, "yes") = {} /\ Casting(row, "no") = {}
      BY <1>2 DEF Casting
  <2>2. Cardinality({}) = 0
      BY FS_EmptySet
  <2> QED
      BY <2>1, <2>2 DEF Counted
<1>6. row.serverId = s
    OBVIOUS
<1> HIDE DEF id, row
<1>7. /\ DOMAIN votes' = DOMAIN votes \cup {id} /\ votes'[id] = row
      /\ \A k \in DOMAIN votes : k # id => votes'[k] = votes[k]
    BY <1>1 DEF With
<1>8. votes' \in [DOMAIN votes' -> Vote]
    BY <1>1, <1>4, <1>7 DEF VotesInv, With
<1>9. \A k \in DOMAIN votes' : votes'[k].serverId \in DOMAIN servers' \cup {None}
    BY <1>6, <1>7 DEF VotesInv
<1>10. \A k \in DOMAIN votes' : Counted(votes'[k])
    BY <1>5, <1>7, CountedVotes DEF VotesInv
<1>11. VotesAreCounted'
    BY <1>10 DEF VotesAreCounted, Counted
<1> QED
    BY <1>1, <1>7, <1>8, <1>9, <1>11 DEF VotesInv

(* The vote once from has cast its ballot.                                 *)
Cast(vote, from, choice) ==
    [vote EXCEPT !.voters = With(@, from, choice),
                 !.yes = @ + IF choice = "yes" THEN 1 ELSE 0,
                 !.no  = @ + IF choice = "no" THEN 1 ELSE 0]

(* One more ballot is counted on the side it was cast for and on no other. *)
LEMMA BallotCounted ==
    ASSUME NEW vote \in Vote, Counted(vote), NEW from \in Addr, MayVote(vote, from),
           NEW choice \in {"yes", "no"}
    PROVE  /\ Cast(vote, from, choice) \in Vote
           /\ Counted(Cast(vote, from, choice))
           /\ Cast(vote, from, choice).serverId = vote.serverId
PROOF
<1> DEFINE cast == Cast(vote, from, choice)
           ballots == With(vote.voters, from, choice)
<1>1. /\ vote.running /\ from \notin DOMAIN vote.voters /\ vote.voters \in Ballots
      /\ vote.yes \in Nat /\ vote.no \in Nat
    BY DEF MayVote, Vote
<1>2. /\ DOMAIN ballots = DOMAIN vote.voters \cup {from} /\ ballots[from] = choice
      /\ \A a \in DOMAIN vote.voters : ballots[a] = vote.voters[a]
    BY <1>1 DEF With
<1>3. ballots \in Ballots
  <2>1. DOMAIN ballots \subseteq Addr
      BY <1>1, <1>2, BallotsType
  <2>2. \A a \in DOMAIN ballots : ballots[a] \in {"yes", "no"}
      BY <1>1, <1>2, BallotsType
  <2>3. ballots \in [DOMAIN ballots -> {"yes", "no"}]
      BY <1>2, <2>2 DEF With
  <2> HIDE DEF ballots
  <2> QED
      BY <2>1, <2>3, BallotsType
<1> HIDE DEF ballots
<1>4. /\ cast.voters = ballots
      /\ cast.yes = vote.yes + IF choice = "yes" THEN 1 ELSE 0
      /\ cast.no = vote.no + IF choice = "no" THEN 1 ELSE 0
      /\ cast.running = vote.running /\ cast.result = vote.result
      /\ cast.serverId = vote.serverId
    BY DEF Vote, ballots, Cast
<1>5. cast \in Vote
  <2>1. cast.yes \in Nat /\ cast.no \in Nat
      BY <1>1, <1>4
  <2>2. cast = [vote EXCEPT !.voters = ballots, !.yes = cast.yes, !.no = cast.no]
      BY <1>4 DEF Vote, ballots, Cast
  <2> HIDE DEF cast
  <2>3. cast = [serverId |-> vote.serverId, yes |-> cast.yes, no |-> cast.no,
                voters |-> ballots, endTime |-> vote.endTime,
                running |-> vote.running, result |-> vote.result]
      BY <2>2 DEF Vote
  <2>4. /\ vote.serverId \in ServerIds \cup {None} /\ vote.endTime \in Nat
        /\ vote.running \in BOOLEAN /\ vote.result \in {None, "passed", "rejected", "tied"}
      BY DEF Vote
  <2> QED
      BY <1>3, <2>1, <2>3, <2>4 DEF Vote
<1> HIDE DEF cast
<1>6. ASSUME NEW side \in {"yes", "no"}
      PROVE  Cardinality(Casting(cast, side)) =
                 Cardinality(Casting(vote, side)) + IF choice = side THEN 1 ELSE 0
  <2>1. IsFiniteSet(Casting(vote, side)) /\ Cardinality(Casting(vote, side)) \in Nat
      BY <1>1, CastingFinite
  <2>2. CASE choice = side
    <3>1. Casting(cast, side) = Casting(vote, side) \cup {from}
        BY <1>2, <1>4, <2>2 DEF Casting
    <3>2. from \notin Casting(vote, side)
        BY <1>1 DEF Casting
    <3> QED
        BY <2>1, <2>2, <3>1, <3>2, FS_AddElement
  <2>3. CASE choice # side
    <3>1. Casting(cast, side) = Casting(vote, side)
        BY <1>1, <1>2, <1>4, <2>3 DEF Casting
    <3> QED
        BY <2>1, <2>3, <3>1
  <2> QED
      BY <2>2, <2>3
<1>7. Counted(cast)
    BY <1>1, <1>4, <1>6 DEF Counted
<1> QED
    BY <1>4, <1>5, <1>7 DEF cast

LEMMA CastVoteInv ==
    ASSUME VotesInv, NEW from \in Addr, NEW fee, NEW id \in DOMAIN votes,
           NEW choice \in {"yes", "no"}, CastVote(from, fee, id, choice),
           DOMAIN servers \subseteq DOMAIN servers'
    PROVE  VotesInv'
PROOF
<1> DEFINE vote == votes[id]
           cast == Cast(vote, from, choice)
<1>1. MayVote(vote, from) /\ votes' = [votes EXCEPT ![id] = cast]
    BY DEF CastVote, Cast
<1>2. vote \in Vote /\ Counted(vote)
    BY CountedVotes DEF VotesInv
<1>3. cast \in Vote /\ Counted(cast) /\ cast.serverId = vote.serverId
    BY <1>1, <1>2, BallotCounted
<1> HIDE DEF cast
<1>4. /\ DOMAIN votes' = DOMAIN votes /\ votes'[id] = cast
      /\ \A k \in DOMAIN votes : k # id => votes'[k] = votes[k]
    BY <1>1
<1>5. votes' \in [DOMAIN votes' -> Vote]
    BY <1>1, <1>3, <1>4 DEF VotesInv
<1>6. \A k \in DOMAIN votes' : votes'[k].serverId \in DOMAIN servers' \cup {None}
    BY <1>3, <1>4 DEF VotesInv
<1>7. \A k \in DOMAIN votes' : Counted(votes'[k])
    BY <1>3, <1>4, CountedVotes DEF VotesInv
<1>8. VotesAreCounted'
    BY <1>7 DEF VotesAreCounted, Counted
<1> QED
    BY <1>4, <1>5, <1>6, <1>8 DEF VotesInv

LEMMA GovernanceTxInv ==
    ASSUME VotesInv, LedgerTypeOK, LandInv, NEW from \in Addr, NEW fee,
           GovernanceTx(from, fee), DOMAIN servers \subseteq DOMAIN servers'
    PROVE  VotesInv'
PROOF BY CreateVoteInv, CastVoteInv DEF GovernanceTx

LEMMA SweepInv ==
    ASSUME VotesInv, NEW ts, votes' = VotesSwept(ts), DOMAIN servers \subseteq DOMAIN servers'
    PROVE  VotesInv'
PROOF
<1>1. DOMAIN votes' = DOMAIN votes
    BY DEF VotesSwept
<1>2. ASSUME NEW id \in DOMAIN votes
      PROVE  votes'[id] \in Vote /\ Counted(votes'[id]) /\ votes'[id].serverId = votes[id].serverId
  <2>1. votes[id] \in Vote /\ Counted(votes[id])
      BY CountedVotes DEF VotesInv
  <2>2. CASE votes[id].running /\ ts >= votes[id].endTime
    <3> DEFINE old == votes[id]
               new == [old EXCEPT !.running = FALSE, !.result = Outcome(old)]
    <3>1. votes'[id] = new
        BY <2>2 DEF VotesSwept
    <3>2. Outcome(old) \in {"passed", "rejected", "tied"}
        BY DEF Outcome
    <3> HIDE DEF old
    <3>3. old \in Vote /\ Counted(old)
        BY <2>1 DEF old
    <3>4. /\ new.yes = old.yes /\ new.no = old.no /\ new.voters = old.voters
          /\ new.running = FALSE /\ new.result = Outcome(old) /\ new.serverId = old.serverId
        BY <3>3 DEF Vote
    <3>5. new \in Vote
        BY <3>2, <3>3 DEF Vote
    <3>6. Counted(new)
      <4>1. \A choice : Casting(new, choice) = Casting(old, choice)
          BY <3>4 DEF Casting
      <4>2. Outcome(new) = Outcome(old)
          BY <3>4 DEF Outcome
      <4> HIDE DEF new
      <4> QED
          BY <3>3, <3>4, <4>1, <4>2 DEF Counted
    <3> QED
        BY <3>1, <3>4, <3>5, <3>6 DEF old
  <2>3. CASE ~ (votes[id].running /\ ts >= votes[id].endTime)
      BY <2>1, <2>3 DEF VotesSwept
  <2> QED
      BY <2>2, <2>3
<1>3. votes' \in [DOMAIN votes' -> Vote]
    BY <1>1, <1>2 DEF VotesSwept
<1>4. \A id \in DOMAIN votes' : votes'[id].serverId \in DOMAIN servers' \cup {None}
    BY <1>1, <1>2 DEF VotesInv
<1>5. VotesAreCounted'
    BY <1>1, <1>2 DEF VotesAreCounted, Counted
<1> QED
    BY <1>1, <1>3, <1>4, <1>5 DEF VotesInv

(* VotesAreFinal, said of one step and one vote.                           *)
FinalStep(id) ==
    /\ ~ votes[id].running => votes'[id] = votes[id]
    /\ \A a \in DOMAIN votes'[id].voters :
          IF a \in DOMAIN votes[id].voters
          THEN votes'[id].voters[a] = votes[id].voters[a]
          ELSE nonce'[a] = nonce[a] + 1

LEMMA GovernanceTxFinal ==
    ASSUME VotesInv, LedgerTypeOK, NEW from \in Addr, NEW fee, GovernanceTx(from, fee),
           NEW id \in DOMAIN votes
    PROVE  FinalStep(id)
PROOF
<1>1. CASE \E s \in DOMAIN servers \cup {None}, d \in VoteDurations : CreateVote(from, fee, s, d)
  <2>1. votes'[id] = votes[id]
      BY <1>1 DEF CreateVote, With
  <2> QED
      BY <2>1 DEF FinalStep
<1>2. ASSUME NEW k \in DOMAIN votes, NEW choice \in {"yes", "no"}, CastVote(from, fee, k, choice)
      PROVE  FinalStep(id)
  <2>1. CASE k # id
    <3>1. votes'[id] = votes[id]
        BY <1>2, <2>1 DEF CastVote
    <3> QED
        BY <3>1 DEF FinalStep
  <2>2. CASE k = id
    <3>1. votes[id] \in Vote /\ MayVote(votes[id], from)
        BY <1>2, <2>2 DEF CastVote, VotesInv
    <3>2. votes'[id].voters = With(votes[id].voters, from, choice)
        BY <1>2, <2>2, <3>1 DEF CastVote, Vote
    <3>3. nonce'[from] = nonce[from] + 1
        BY <1>2 DEF CastVote, PayFee, PayBank, Landed, LedgerTypeOK
    <3> QED
        BY <3>1, <3>2, <3>3 DEF FinalStep, MayVote, With
  <2> QED
      BY <2>1, <2>2
<1> QED
    BY <1>1, <1>2 DEF GovernanceTx

LEMMA SweepFinal ==
    ASSUME VotesInv, NEW ts, votes' = VotesSwept(ts), NEW id \in DOMAIN votes
    PROVE  FinalStep(id)
PROOF
<1>1. votes[id] \in Vote
    BY DEF VotesInv
<1>2. /\ ~ votes[id].running => votes'[id] = votes[id]
      /\ votes'[id].voters = votes[id].voters
    BY <1>1 DEF VotesSwept, Vote
<1> QED
    BY <1>2 DEF FinalStep

-----------------------------------------------------------------------------
(* The table of shareholders                                               *)

Company ==
    [ceo : Addr, serverId : ServerIds \cup {None}, totalShares : Nat,
     reserveNative : Nat, reserveShares : Nat, treasury : Nat,
     treasuryRaised : Nat, dividendsPaid : Nat, holders : Counts, holderCount : Nat]

(* The table of one company, and what it has paid out of what it raised.   *)
Seated(company) ==
    /\ company.holderCount = Cardinality(DOMAIN company.holders)
    /\ company.holderCount <= MAX_COMPANY_HOLDERS

Solvent(company) ==
    /\ Total(company.holders) = outstandingShares(company)
    /\ company.dividendsPaid + company.treasury <= company.treasuryRaised

StocksInv ==
    /\ DOMAIN companies \subseteq Symbols
    /\ companies \in [DOMAIN companies -> Company]
    /\ DOMAIN companies \cap DOMAIN currencies = {}
    /\ \A s \in DOMAIN companies :
          /\ companies[s].serverId \in DOMAIN servers \cup {None}
          /\ Seated(companies[s]) /\ Solvent(companies[s])

LEMMA StocksConstants ==
    /\ COMPANY_TREASURY_BPS \in 0..BPS /\ FOUNDER_SHARE_BPS \in 0..BPS
    /\ MAX_COMPANY_HOLDERS \in Nat /\ MAX_COMPANY_HOLDERS > 0
    /\ \A n \in ShareCounts : n \in Nat
PROOF BY StocksAssumption

(* The table over all addresses: nobody else has any.                      *)
Padded(table) == [a \in Addr |-> Holding(table, a)]

LEMMA PaddedTotal ==
    ASSUME NEW table \in Counts
    PROVE  /\ IsFiniteSet(DOMAIN table)
           /\ Padded(table) \in [Addr -> Nat]
           /\ Total(Padded(table)) = Total(table) /\ Total(table) \in Nat
PROOF
<1>1. /\ IsFiniteSet(Addr) /\ DOMAIN table \in SUBSET Addr
      /\ table \in [DOMAIN table -> Nat]
    BY ConstantTypes, CountsType
<1>2. IsFiniteSet(DOMAIN table) /\ Total(table) \in Nat
    BY <1>1, FS_Subset, TotalType
<1>3. Padded(table) \in [Addr -> Nat]
    BY HoldingType DEF Padded
<1>4. Total(Padded(table)) = Total([a \in DOMAIN table |-> Padded(table)[a]])
                                + Total([a \in Addr \ DOMAIN table |-> Padded(table)[a]])
    BY <1>1, <1>3, TotalSplit
<1>5. [a \in DOMAIN table |-> Padded(table)[a]] = table
    BY <1>1 DEF Padded, Holding
<1>6. Total([a \in Addr \ DOMAIN table |-> Padded(table)[a]]) = 0
  <2>1. PICK e : e = [a \in Addr \ DOMAIN table |-> Padded(table)[a]]
      OBVIOUS
  <2>2. DOMAIN e = Addr \ DOMAIN table /\ \A a \in Addr \ DOMAIN table : e[a] = 0
      BY <2>1 DEF Padded, Holding
  <2> QED
      BY <2>1, <2>2, TotalZero
<1> QED
    BY <1>2, <1>3, <1>4, <1>5, <1>6

(* What a credit or a debit does to the sum of a table and to its size.    *)
LEMMA addHoldingTotal ==
    ASSUME NEW table \in Counts, NEW a \in Addr, NEW delta \in Int, delta # 0,
           Holding(table, a) + delta >= 0, NEW new, new = addHolding(table, a, delta)
    PROVE  /\ new \in Counts
           /\ Total(new) = Total(table) + delta
           /\ Cardinality(DOMAIN table) \in Nat
           /\ Cardinality(DOMAIN new) =
                 Cardinality(DOMAIN table)
                     + (IF Holding(table, a) = 0 THEN 1 ELSE 0)
                     - (IF Holding(table, a) + delta = 0 THEN 1 ELSE 0)
PROOF
<1>1. /\ new \in Counts /\ Holding(new, a) = Holding(table, a) + delta
      /\ \A b \in Addr : b # a => Holding(new, b) = Holding(table, b)
    BY addHoldingAdds
<1>2. /\ Padded(table) \in [Addr -> Nat] /\ Total(Padded(table)) = Total(table)
      /\ Padded(new) \in [Addr -> Nat] /\ Total(Padded(new)) = Total(new)
      /\ Total(table) \in Nat /\ IsFiniteSet(DOMAIN table) /\ IsFiniteSet(DOMAIN new)
    BY <1>1, PaddedTotal
<1>3. /\ Padded(new)[a] = Padded(table)[a] + delta /\ Padded(table)[a] \in Nat
      /\ \A b \in Addr : b # a => Padded(new)[b] = Padded(table)[b]
    BY <1>1, <1>2 DEF Padded
<1>4. Total(Padded(new)) = Total(Padded(table)) - Padded(table)[a] + Padded(new)[a]
    BY <1>2, <1>3, ConstantTypes, TotalChange
<1>5. Total(new) = Total(table) + delta
    BY <1>2, <1>3, <1>4
<1>6. /\ DOMAIN table \subseteq Addr /\ DOMAIN new \subseteq Addr
      /\ \A b \in Addr : b \in DOMAIN table <=> Holding(table, b) # 0
      /\ \A b \in Addr : b \in DOMAIN new <=> Holding(new, b) # 0
      /\ Holding(table, a) \in Nat
    BY <1>1, CountsType, HoldingType
<1>7. Cardinality(DOMAIN table) \in Nat /\ Cardinality(DOMAIN new) \in Nat
    BY <1>2, FS_CardinalityType
<1>8. CASE Holding(table, a) = 0
  <2>1. Holding(table, a) + delta # 0
      BY <1>8
  <2>2. DOMAIN new = DOMAIN table \cup {a} /\ a \notin DOMAIN table
      BY <1>1, <1>6, <1>8, <2>1
  <2>3. Cardinality(DOMAIN new) = Cardinality(DOMAIN table) + 1
      BY <1>2, <2>2, FS_AddElement
  <2> QED
      BY <1>1, <1>5, <1>7, <1>8, <2>1, <2>3
<1>9. CASE Holding(table, a) # 0 /\ Holding(table, a) + delta = 0
  <2>1. DOMAIN new = DOMAIN table \ {a} /\ a \in DOMAIN table
      BY <1>1, <1>6, <1>9
  <2>2. Cardinality(DOMAIN new) = Cardinality(DOMAIN table) - 1
      BY <1>2, <2>1, FS_RemoveElement
  <2> QED
      BY <1>1, <1>5, <1>7, <1>9, <2>2
<1>10. CASE Holding(table, a) # 0 /\ Holding(table, a) + delta # 0
  <2>1. DOMAIN new = DOMAIN table
      BY <1>1, <1>6, <1>10
  <2> QED
      BY <1>1, <1>5, <1>7, <1>10, <2>1
<1> QED
    BY <1>8, <1>9, <1>10

(* A company with another table of shareholders.                           *)
Reseated(company, table, count) ==
    [company EXCEPT !.holders = table, !.holderCount = count]

LEMMA ReseatedType ==
    ASSUME NEW company \in Company, NEW table \in Counts, NEW count \in Nat
    PROVE  /\ Reseated(company, table, count) \in Company
           /\ Reseated(company, table, count).holders = table
           /\ Reseated(company, table, count).holderCount = count
PROOF BY DEF Reseated, Company

LEMMA Credited ==
    ASSUME NEW company \in Company, Seated(company), NEW a \in Addr, NEW n \in Nat,
           HasSeat(company, a, n)
    PROVE  \E table \in Counts, count \in Nat :
              /\ creditShares(company, a, n) = Reseated(company, table, count)
              /\ Total(table) = Total(company.holders) + n
              /\ Seated(Reseated(company, table, count))
PROOF
<1>1. PICK old \in Counts : old = company.holders
    BY DEF Company
<1>2. /\ sharesOf(company, a) = Holding(old, a) /\ Holding(old, a) \in Nat
      /\ company.holderCount = Cardinality(DOMAIN old) /\ company.holderCount \in Nat
      /\ company.holderCount <= MAX_COMPANY_HOLDERS /\ Total(old) \in Nat
    BY <1>1, HoldingType, PaddedTotal DEF sharesOf, Holding, Seated, Company
<1>3. CASE n = 0
  <2>1. creditShares(company, a, n) = company
      BY <1>3 DEF creditShares
  <2>2. company = Reseated(company, old, company.holderCount)
      BY <1>1 DEF Reseated, Company
  <2> QED
      BY <1>1, <1>2, <1>3, <2>1, <2>2
<1>4. CASE n > 0
  <2>1. PICK new, count : /\ new = addHolding(old, a, n)
                          /\ count = IF sharesOf(company, a) = 0
                                     THEN company.holderCount + 1 ELSE company.holderCount
      OBVIOUS
  <2>2. creditShares(company, a, n) = Reseated(company, new, count)
    <3>1. ~ (Holding(old, a) + n <= 0) /\ n # 0
        BY <1>2, <1>4
    <3>2. new = With(old, a, sharesOf(company, a) + n)
        BY <1>2, <2>1, <3>1 DEF addHolding
    <3> QED
        BY <1>1, <2>1, <3>1, <3>2 DEF creditShares, Reseated
  <2>3. Holding(old, a) + n >= 0 /\ Holding(old, a) + n # 0 /\ n # 0 /\ n \in Int
      BY <1>2, <1>4
  <2>4. /\ new \in Counts /\ Total(new) = Total(old) + n
        /\ Cardinality(DOMAIN new) =
              Cardinality(DOMAIN old) + (IF Holding(old, a) = 0 THEN 1 ELSE 0)
                  - (IF Holding(old, a) + n = 0 THEN 1 ELSE 0)
      BY <2>1, <2>3, addHoldingTotal
  <2>5. count \in Nat /\ count = Cardinality(DOMAIN new) /\ count <= MAX_COMPANY_HOLDERS
      BY <1>2, <1>4, <2>1, <2>3, <2>4, StocksConstants DEF HasSeat
  <2>6. Seated(Reseated(company, new, count))
      BY <2>4, <2>5, ReseatedType DEF Seated
  <2> QED
      BY <1>1, <2>2, <2>4, <2>5, <2>6
<1> QED
    BY <1>3, <1>4

LEMMA Debited ==
    ASSUME NEW company \in Company, Seated(company), NEW a \in Addr, NEW n \in Nat, n > 0,
           sharesOf(company, a) >= n
    PROVE  \E table \in Counts, count \in Nat :
              /\ debitShares(company, a, n) = Reseated(company, table, count)
              /\ Total(table) = Total(company.holders) - n
              /\ Seated(Reseated(company, table, count))
PROOF
<1>1. PICK old \in Counts : old = company.holders
    BY DEF Company
<1>2. /\ sharesOf(company, a) = Holding(old, a) /\ Holding(old, a) \in Nat
      /\ company.holderCount = Cardinality(DOMAIN old) /\ company.holderCount \in Nat
      /\ company.holderCount <= MAX_COMPANY_HOLDERS /\ Total(old) \in Nat
    BY <1>1, HoldingType, PaddedTotal DEF sharesOf, Holding, Seated, Company
<1>3. PICK new, count, delta :
          /\ delta = 0 - n /\ new = addHolding(old, a, delta)
          /\ count = IF sharesOf(company, a) - n = 0
                     THEN company.holderCount - 1 ELSE company.holderCount
    OBVIOUS
<1>4. /\ Holding(old, a) + delta >= 0 /\ Holding(old, a) # 0 /\ delta # 0 /\ delta \in Int
      /\ Holding(old, a) + delta = sharesOf(company, a) - n
    BY <1>2, <1>3
<1>5. debitShares(company, a, n) = Reseated(company, new, count)
  <2>1. new = IF sharesOf(company, a) - n = 0 THEN Without(old, a)
              ELSE With(old, a, sharesOf(company, a) - n)
      BY <1>2, <1>3, <1>4 DEF addHolding
  <2>2. company = [company EXCEPT !.holderCount = company.holderCount]
      BY DEF Company
  <2>3. Reseated(company, new, company.holderCount) = [company EXCEPT !.holders = new]
      BY DEF Reseated, Company
  <2> QED
      BY <1>1, <1>3, <2>1, <2>3 DEF debitShares, Reseated
<1>6. /\ new \in Counts /\ Total(new) = Total(old) + delta
      /\ Cardinality(DOMAIN new) =
            Cardinality(DOMAIN old) + (IF Holding(old, a) = 0 THEN 1 ELSE 0)
                - (IF Holding(old, a) + delta = 0 THEN 1 ELSE 0)
    BY <1>3, <1>4, addHoldingTotal
<1>7. IsFiniteSet(DOMAIN new) /\ Cardinality(DOMAIN new) \in Nat
    BY <1>6, PaddedTotal, FS_CardinalityType
<1>8. count \in Nat /\ count = Cardinality(DOMAIN new) /\ count <= MAX_COMPANY_HOLDERS
    BY <1>2, <1>3, <1>4, <1>6, <1>7, StocksConstants
<1>9. Seated(Reseated(company, new, count))
    BY <1>6, <1>8, ReseatedType DEF Seated
<1>10. Total(new) = Total(company.holders) - n
    BY <1>1, <1>2, <1>3, <1>6
<1> QED
    BY <1>5, <1>6, <1>8, <1>9, <1>10

(* Every dividend is covered: rounding every cut down, the cuts of all     *)
(* holders together are no more than what was declared.                    *)
LEMMA DividendCovered ==
    ASSUME NEW company \in Company, Total(company.holders) = outstandingShares(company),
           outstandingShares(company) > 0, NEW n \in Nat
    PROVE  /\ [a \in Addr |-> Cut(company, n, a)] \in [Addr -> Nat]
           /\ Total([a \in Addr |-> Cut(company, n, a)]) = Distributed(company, n)
           /\ Distributed(company, n) \in Nat
           /\ Distributed(company, n) <= n
PROOF
<1>1. PICK w, W, cuts : /\ w = Padded(company.holders) /\ W = outstandingShares(company)
                        /\ cuts = [a \in Addr |-> Cut(company, n, a)]
    OBVIOUS
<1>2. company.holders \in Counts
    BY DEF Company
<1>3. /\ w \in [Addr -> Nat] /\ Total(w) = W /\ W \in Nat /\ W > 0
      /\ IsFiniteSet(Addr) /\ DOMAIN company.holders \in SUBSET Addr
    BY <1>1, <1>2, PaddedTotal, CountsType, ConstantTypes
<1>4. cuts = [a \in Addr |-> (n * w[a]) \div W]
    BY <1>1 DEF Cut, Padded, Holding, sharesOf
<1>5. cuts \in [Addr -> Nat] /\ Total(cuts) <= n
  <2>1. Total(w) <= W
      BY <1>3
  <2> QED
      BY <1>3, <1>4, <2>1, TotalOfParts
<1>6. PICK T : T = DOMAIN company.holders
    OBVIOUS
<1>7. Total(cuts) = Total([a \in T |-> cuts[a]]) + Total([a \in Addr \ T |-> cuts[a]])
    BY <1>3, <1>5, <1>6, TotalSplit
<1>8. Distributed(company, n) = Total([a \in T |-> cuts[a]])
  <2>1. [a \in T |-> cuts[a]] = [a \in T |-> Cut(company, n, a)]
      BY <1>1, <1>3, <1>6
  <2> QED
      BY <1>6, <2>1 DEF Distributed
<1>9. Total([a \in Addr \ T |-> cuts[a]]) = 0
  <2>1. \A a \in Addr \ T : w[a] = 0
      BY <1>1, <1>6 DEF Padded, Holding
  <2>2. (n * 0) \div W = 0
      BY <1>3
  <2>3. \A a \in Addr \ T : cuts[a] = 0
      BY <1>4, <2>1, <2>2
  <2>4. PICK e : e = [a \in Addr \ T |-> cuts[a]]
      OBVIOUS
  <2>5. DOMAIN e = Addr \ T /\ \A a \in Addr \ T : e[a] = 0
      BY <2>3, <2>4
  <2> QED
      BY <2>4, <2>5, TotalZero
<1>10. Total(cuts) \in Nat
    BY <1>3, <1>5, TotalType
<1>11. Total([a \in T |-> cuts[a]]) = Total(cuts)
  <2>1. IsFiniteSet(T) /\ [a \in T |-> cuts[a]] \in [T -> Nat]
      BY <1>3, <1>5, <1>6, FS_Subset
  <2>2. Total([a \in T |-> cuts[a]]) \in Nat
      BY <2>1, TotalType
  <2> QED
      BY <1>7, <1>9, <2>2
<1> QED
    BY <1>1, <1>5, <1>8, <1>10, <1>11

LEMMA StocksInvImplies ==
    StocksInv => StocksTypeOK /\ ShareTableExact /\ TreasuryPaysWhatItRaised
PROOF
<1> SUFFICES ASSUME StocksInv
             PROVE  StocksTypeOK /\ ShareTableExact /\ TreasuryPaysWhatItRaised
    OBVIOUS
<1>1. StocksTypeOK
  <2>1. ASSUME NEW s \in DOMAIN companies
        PROVE  /\ companies[s].ceo \in Addr
               /\ companies[s].serverId \in DOMAIN servers \cup {None}
               /\ \A field \in AmountFields : companies[s][field] \in Nat
               /\ DOMAIN companies[s].holders \subseteq Addr
               /\ \A a \in DOMAIN companies[s].holders : companies[s].holders[a] \in Nat \ {0}
    <3>1. companies[s] \in Company /\ companies[s].serverId \in DOMAIN servers \cup {None}
        BY DEF StocksInv
    <3>2. companies[s].holders \in Counts
        BY <3>1 DEF Company
    <3>3. \A field \in AmountFields : companies[s][field] \in Nat
        BY <3>1 DEF Company, AmountFields
    <3> QED
        BY <3>1, <3>2, <3>3, CountsType DEF Company
  <2> QED
      BY <2>1 DEF StocksInv, StocksTypeOK
<1>2. ShareTableExact
    BY DEF StocksInv, ShareTableExact, Seated, Solvent
<1>3. TreasuryPaysWhatItRaised
  <2>1. ASSUME NEW s \in DOMAIN companies, outstandingShares(companies[s]) > 0
        PROVE  Distributed(companies[s], companies[s].treasury) <= companies[s].treasury
    <3>1. companies[s] \in Company /\ companies[s].treasury \in Nat
        BY DEF StocksInv, Company
    <3>2. Total(companies[s].holders) = outstandingShares(companies[s])
        BY DEF StocksInv, Solvent
    <3> QED
        BY <2>1, <3>1, <3>2, DividendCovered
  <2> QED
      BY <2>1 DEF StocksInv, Solvent, TreasuryPaysWhatItRaised
<1> QED
    BY <1>1, <1>2, <1>3

-----------------------------------------------------------------------------
(* All domains together                                                    *)

(* Out of accounts go the fee, cut for the bank's treasury and parked for  *)
(* pools and companies; parked is negative when they pay out.              *)
Paid(fee, cut, parked) ==
    /\ balance' \in [Addr -> Nat]
    /\ Total(balance') = Total(balance) - fee - cut - parked
    /\ bank' = creditTreasury(bank, cut)

LEMMA PaidStep ==
    ASSUME BankSound, block.open, NEW from \in Addr, NEW fee \in Nat, Landed(from, fee),
           NEW cut \in Nat, NEW parked \in Int, Paid(fee, cut, parked), UNCHANGED contracts
    PROVE  /\ BankSound'
           /\ circulatingSupply' = circulatingSupply - parked
           /\ Minted' = Minted
PROOF
<1>0. BankTypeOK /\ LedgerTypeOK
    BY DEF BankSound, BankTypeOK
<1>1. bank' \in [pending : Nat, vault : Nat, treasury : Nat, interestPaid : Nat]
      /\ bank'.pending = bank.pending /\ bank'.vault = bank.vault
      /\ bank'.treasury = bank.treasury + cut /\ bank'.interestPaid = bank.interestPaid
  <2>1. bank \in [pending : Nat, vault : Nat, treasury : Nat, interestPaid : Nat]
      BY <1>0, LedgerFields
  <2>2. bank' = [bank EXCEPT !.treasury = bank.treasury + cut]
      BY DEF Paid, creditTreasury
  <2>3. bank.treasury + cut \in Nat
      BY <2>1
  <2> QED
      BY <2>1, <2>2, <2>3
<1>2. BankTypeOK'
  <2>1. LedgerTypeOK'
      BY <1>0, <1>1, LandedType DEF Paid, LedgerTypeOK
  <2> QED
      BY <1>0, <2>1 DEF BankTypeOK
<1>3. EscrowBacked'
    BY <1>1 DEF BankSound, EscrowBacked, HeldBy
<1>4. block'.fees = block.fees + fee /\ height' = height
    BY <1>0, LandedType
<1>5. circulatingSupply' = circulatingSupply - parked
  <2>1. Total(balance') = Total(balance) - fee - cut - parked
      BY DEF Paid
  <2>2. /\ Total(balance) \in Nat /\ bank.pending \in Nat /\ bank.vault \in Nat
        /\ bank.treasury \in Nat /\ block.fees \in Nat
      BY <1>0, SupplyTerms
  <2> QED
      BY ONLY <1>1, <1>4, <2>1, <2>2, fee \in Nat, cut \in Nat, parked \in Int
      DEF circulatingSupply
<1>6. Minted' = Minted
    BY <1>1, <1>4 DEF Minted
<1> QED
    BY <1>2, <1>3, <1>5, <1>6 DEF BankSound

LEMMA NothingForTheBank ==
    ASSUME LedgerTypeOK, bank' = bank
    PROVE  bank' = creditTreasury(bank, 0)
PROOF
<1>1. bank \in [pending : Nat, vault : Nat, treasury : Nat, interestPaid : Nat]
    BY LedgerFields
<1>2. bank.treasury + 0 = bank.treasury
    BY <1>1
<1> QED
    BY <1>1, <1>2 DEF creditTreasury

(* An account pays a sum and another, or none, receives a part of it.      *)
LEMMA SpentPaid ==
    ASSUME LedgerTypeOK, NEW from \in Addr, NEW fee \in Nat, NEW cost \in Nat, NEW cut \in Nat,
           CanPay(from, fee, cost), bank' = creditTreasury(bank, cut), NEW b,
           b = Minus(balance, from, fee + cost)
    PROVE  /\ block.open
           /\ balance' = b => Paid(fee, cut, cost - cut)
           /\ \A to \in Addr, gain \in Nat :
                 balance' = Plus(b, to, gain) => Paid(fee, cut, cost - gain - cut)
PROOF
<1>1. block.open /\ fee + cost \in Nat /\ fee + cost <= balance[from]
    BY DEF CanPay, LedgerTypeOK
<1>2. b \in [Addr -> Nat] /\ Total(b) = Total(balance) - (fee + cost) /\ Total(balance) \in Nat
    BY <1>1, PaidType
<1>3. balance' = b => Paid(fee, cut, cost - cut)
    BY <1>2 DEF Paid
<1>4. ASSUME NEW to \in Addr, NEW gain \in Nat, balance' = Plus(b, to, gain)
      PROVE  Paid(fee, cut, cost - gain - cut)
  <2>1. balance' \in [Addr -> Nat] /\ Total(balance') = Total(b) + gain
      BY <1>2, <1>4, CoinPaid
  <2> QED
      BY <1>2, <2>1 DEF Paid
<1> QED
    BY <1>1, <1>3, <1>4

LEMMA PayBankPaid ==
    ASSUME LedgerTypeOK, NEW from \in Addr, NEW fee \in Nat, NEW price \in Nat,
           PayBank(from, fee, price)
    PROVE  block.open /\ Landed(from, fee) /\ Paid(fee, price, 0)
PROOF
<1>1. block.open /\ Paid(fee, price, price - price)
    BY SpentPaid DEF PayBank
<1>2. price - price = 0
    OBVIOUS
<1> QED
    BY <1>1, <1>2 DEF PayBank

LEMMA PayFeePaid ==
    ASSUME LedgerTypeOK, NEW from \in Addr, NEW fee \in Nat, PayFee(from, fee)
    PROVE  block.open /\ Landed(from, fee) /\ Paid(fee, 0, 0)
PROOF BY PayBankPaid DEF PayFee

-----------------------------------------------------------------------------
(* Tokens                                                                  *)

LEMMA CurrencyConstants ==
    /\ IsFiniteSet(Symbols) /\ NATIVE \notin Symbols
    /\ \A n \in Supplies \cup Liquidities \cup TradeSizes : n \in Nat /\ n > 0
    /\ CREATOR_SUPPLY_BPS \in 0..BPS /\ SWAP_FEE_BPS \in 0..BPS
PROOF BY CurrenciesAssumption

LEMMA CoinTaken ==
    ASSUME NEW f \in [Addr -> Nat], NEW a \in Addr, NEW n \in Nat, n <= f[a]
    PROVE  Minus(f, a, n) \in [Addr -> Nat] /\ Total(Minus(f, a, n)) = Total(f) - n
PROOF
<1>1. IsFiniteSet(Addr)
    BY ConstantTypes
<1> QED
    BY <1>1, TotalMinus

LEMMA TokenTypes ==
    ASSUME CurrenciesTypeOK, NEW s \in Symbols
    PROVE  /\ tokens[s] \in [Addr -> Nat] /\ Total(tokens[s]) \in Nat
           /\ treasuryTokens[s] \in Nat
           /\ s \in DOMAIN currencies =>
                 /\ currencies[s] \in Currency
                 /\ currencies[s].totalSupply \in Nat
                 /\ currencies[s].reserveNative \in Nat /\ currencies[s].reserveToken \in Nat
PROOF
<1>1. tokens[s] \in [Addr -> Nat] /\ treasuryTokens[s] \in Nat
    BY DEF CurrenciesTypeOK
<1>2. Total(tokens[s]) \in Nat
    BY <1>1, ConstantTypes, TotalType
<1> QED
    BY <1>1, <1>2 DEF CurrenciesTypeOK, Currency

(* TokensConserved, said of one token.                                     *)
Issued(s) ==
    IF s \in DOMAIN currencies
    THEN currencies[s].totalSupply - currencies[s].reserveToken ELSE 0

LEMMA ConservedTokens ==
    TokensConserved <=> \A s \in Symbols : Total(tokens[s]) + treasuryTokens[s] = Issued(s)
PROOF BY DEF TokensConserved, Issued

(* A step that changes the tokens and the pool of one symbol only.         *)
LEMMA OneTokenChanges ==
    ASSUME CurrenciesTypeOK, TokensConserved, NEW s \in Symbols, NEW f \in [Addr -> Nat],
           tokens' = [tokens EXCEPT ![s] = f],
           treasuryTokens' \in [Symbols -> Nat],
           \A t \in Symbols : t # s => treasuryTokens'[t] = treasuryTokens[t] /\ Issued(t)' = Issued(t),
           Total(f) + treasuryTokens'[s] = Issued(s)',
           DOMAIN currencies' \subseteq Symbols, currencies' \in [DOMAIN currencies' -> Currency]
    PROVE  CurrenciesTypeOK' /\ TokensConserved'
PROOF
<1>1. /\ tokens' \in [Symbols -> [Addr -> Nat]] /\ tokens'[s] = f
      /\ \A t \in Symbols : t # s => tokens'[t] = tokens[t]
    BY DEF CurrenciesTypeOK
<1>2. CurrenciesTypeOK'
    BY <1>1 DEF CurrenciesTypeOK
<1>3. ASSUME NEW t \in Symbols
      PROVE  Total(tokens'[t]) + treasuryTokens'[t] = Issued(t)'
  <2>1. CASE t = s
      BY <1>1, <2>1
  <2>2. CASE t # s
      BY <1>1, <2>2, ConservedTokens
  <2> QED
      BY <2>1, <2>2
<1>4. TokensConserved'
    BY <1>3 DEF TokensConserved, Issued
<1> QED
    BY <1>2, <1>4

(* The native coin in the pools of tokens.                                 *)
CurrencyCoin == [s \in DOMAIN currencies |-> currencies[s].reserveNative]

LEMMA CurrencyCoinType ==
    ASSUME CurrenciesTypeOK
    PROVE  /\ IsFiniteSet(DOMAIN currencies)
           /\ CurrencyCoin \in [DOMAIN currencies -> Nat]
           /\ Total(CurrencyCoin) \in Nat
PROOF
<1>1. IsFiniteSet(DOMAIN currencies)
    BY CurrencyConstants, FS_Subset DEF CurrenciesTypeOK
<1>2. CurrencyCoin \in [DOMAIN currencies -> Nat]
    BY DEF CurrenciesTypeOK, Currency, CurrencyCoin
<1> QED
    BY <1>1, <1>2, TotalType

LEMMA OnePoolChanges ==
    ASSUME CurrenciesTypeOK, NEW s \in DOMAIN currencies, NEW pool \in Currency,
           currencies' = [currencies EXCEPT ![s] = pool]
    PROVE  /\ DOMAIN currencies' = DOMAIN currencies
           /\ currencies' \in [DOMAIN currencies' -> Currency]
           /\ \A t \in Symbols : t # s => Issued(t)' = Issued(t)
           /\ Issued(s)' = pool.totalSupply - pool.reserveToken
           /\ Total(CurrencyCoin') =
                 Total(CurrencyCoin) - currencies[s].reserveNative + pool.reserveNative
PROOF
<1>1. /\ DOMAIN currencies' = DOMAIN currencies
      /\ currencies' \in [DOMAIN currencies' -> Currency]
      /\ currencies'[s] = pool
      /\ \A t \in DOMAIN currencies : t # s => currencies'[t] = currencies[t]
    BY DEF CurrenciesTypeOK
<1>2. (\A t \in Symbols : t # s => Issued(t)' = Issued(t))
      /\ Issued(s)' = pool.totalSupply - pool.reserveToken
    BY <1>1 DEF Issued
<1>3. PICK D, f, e : D = DOMAIN currencies /\ f = CurrencyCoin /\ e = CurrencyCoin'
    OBVIOUS
<1>4. IsFiniteSet(D) /\ f \in [D -> Nat] /\ s \in D
    BY <1>3, CurrencyCoinType
<1>5. e \in [D -> Nat] /\ e[s] = pool.reserveNative /\ f[s] = currencies[s].reserveNative
      /\ \A t \in D : t # s => e[t] = f[t]
    BY <1>1, <1>3 DEF CurrencyCoin, Currency
<1>6. Total(e) = Total(f) - f[s] + e[s]
    BY <1>4, <1>5, TotalChange
<1> QED
    BY <1>1, <1>2, <1>3, <1>5, <1>6

LEMMA OnePoolAppears ==
    ASSUME CurrenciesTypeOK, NEW s \in Symbols, s \notin DOMAIN currencies, NEW pool \in Currency,
           currencies' = With(currencies, s, pool)
    PROVE  /\ DOMAIN currencies' = DOMAIN currencies \cup {s}
           /\ currencies' \in [DOMAIN currencies' -> Currency]
           /\ \A t \in Symbols : t # s => Issued(t)' = Issued(t)
           /\ Issued(s)' = pool.totalSupply - pool.reserveToken
           /\ Total(CurrencyCoin') = Total(CurrencyCoin) + pool.reserveNative
PROOF
<1>1. /\ DOMAIN currencies' = DOMAIN currencies \cup {s}
      /\ currencies'[s] = pool
      /\ \A t \in DOMAIN currencies : currencies'[t] = currencies[t]
    BY DEF With
<1>2. currencies' \in [DOMAIN currencies' -> Currency]
    BY <1>1 DEF CurrenciesTypeOK, With
<1>3. (\A t \in Symbols : t # s => Issued(t)' = Issued(t))
      /\ Issued(s)' = pool.totalSupply - pool.reserveToken
    BY <1>1 DEF Issued
<1>4. PICK D, U, f, e : /\ D = DOMAIN currencies /\ U = DOMAIN currencies'
                        /\ f = CurrencyCoin /\ e = CurrencyCoin'
    OBVIOUS
<1>5. IsFiniteSet(D) /\ f \in [D -> Nat] /\ s \notin D /\ U = D \cup {s} /\ Total(f) \in Nat
    BY <1>1, <1>4, CurrencyCoinType
<1>6. e \in [U -> Nat] /\ e[s] = pool.reserveNative /\ \A t \in D : e[t] = f[t]
    BY <1>1, <1>2, <1>4 DEF CurrencyCoin, Currency
<1>7. Total(e) = e[s] + Total(f)
  <2>1. \A g \in [D -> Nat], h \in [U -> Nat] :
            (\A t \in D : h[t] = g[t]) => Total(h) = h[s] + Total(g)
      BY ONLY <1>5, TotalExtend
  <2> QED
      BY <1>5, <1>6, <2>1
<1>8. pool.reserveNative \in Nat
    BY DEF Currency
<1> QED
    BY <1>1, <1>2, <1>3, <1>4, <1>5, <1>6, <1>7, <1>8

(* What a step of the tokens leaves true, and the coin it parks in pools.  *)
TokenStep(parked) ==
    /\ CurrenciesTypeOK'
    /\ TokensConserved'
    /\ Total(CurrencyCoin') = Total(CurrencyCoin) + parked

LEMMA CreateCurrencyStep ==
    ASSUME LedgerTypeOK, CurrenciesTypeOK, TokensConserved, NEW from \in Addr, NEW fee \in Nat,
           NEW s \in Symbols, NEW supply \in Supplies, NEW l \in Liquidities,
           CreateCurrency(from, fee, s, supply, l)
    PROVE  block.open /\ Landed(from, fee) /\ Paid(fee, 0, l) /\ TokenStep(l)
PROOF
<1> DEFINE share == FeeOf(supply, CREATOR_SUPPLY_BPS)
           pool == [owner |-> from, totalSupply |-> supply,
                    reserveNative |-> l, reserveToken |-> supply - share]
<1>1. supply \in Nat /\ l \in Nat
    BY CurrencyConstants
<1>2. share \in Nat /\ share <= supply
    BY <1>1, CurrencyConstants, FeeOfType
<1>3. /\ CanPay(from, fee, l) /\ s \notin DOMAIN currencies
      /\ balance' = Minus(balance, from, fee + l)
      /\ currencies' = With(currencies, s, pool)
      /\ tokens' = [tokens EXCEPT ![s] = Plus(@, from, share)]
      /\ Landed(from, fee) /\ bank' = bank /\ treasuryTokens' = treasuryTokens
    BY DEF CreateCurrency
<1>4. pool \in Currency /\ pool.totalSupply - pool.reserveToken = share /\ pool.reserveNative = l
  <2> HIDE DEF share
  <2> QED
      BY <1>1, <1>2 DEF Currency
<1> HIDE DEF pool, share
<1>5. block.open /\ Paid(fee, 0, l)
  <2>1. bank' = creditTreasury(bank, 0) /\ l - 0 = l
      BY <1>1, <1>3, NothingForTheBank
  <2> QED
      BY <1>1, <1>3, <2>1, SpentPaid
<1>6. /\ DOMAIN currencies' = DOMAIN currencies \cup {s}
      /\ currencies' \in [DOMAIN currencies' -> Currency]
      /\ \A t \in Symbols : t # s => Issued(t)' = Issued(t)
      /\ Issued(s)' = share
      /\ Total(CurrencyCoin') = Total(CurrencyCoin) + l
    BY <1>3, <1>4, OnePoolAppears
<1>7. Issued(s) = 0 /\ Total(tokens[s]) + treasuryTokens[s] = 0
    BY <1>3, ConservedTokens DEF Issued
<1>8. PICK f : f = Plus(tokens[s], from, share)
    OBVIOUS
<1>9. f \in [Addr -> Nat] /\ Total(f) + treasuryTokens[s] = share
  <2>1. f \in [Addr -> Nat] /\ Total(f) = Total(tokens[s]) + share
      BY <1>2, <1>8, TokenTypes, CoinPaid
  <2> QED
      BY <1>2, <1>7, <2>1, TokenTypes
<1>10. /\ tokens' = [tokens EXCEPT ![s] = f] /\ DOMAIN currencies' \subseteq Symbols
       /\ treasuryTokens' \in [Symbols -> Nat]
    BY <1>3, <1>6, <1>8 DEF CurrenciesTypeOK
<1>11. CurrenciesTypeOK' /\ TokensConserved'
    BY <1>3, <1>6, <1>9, <1>10, OneTokenChanges
<1> QED
    BY <1>3, <1>5, <1>6, <1>11 DEF TokenStep

(* The product of the reserves of every pool, as PoolsKeepTheirProduct     *)
(* compares it before and after a step.                                    *)
ProductKept(s) ==
    currencies'[s].reserveNative * currencies'[s].reserveToken >=
        currencies[s].reserveNative * currencies[s].reserveToken

LEMMA BuyStep ==
    ASSUME LedgerTypeOK, CurrenciesTypeOK, TokensConserved, NEW from \in Addr, NEW fee \in Nat,
           NEW s \in DOMAIN currencies, NEW n \in TradeSizes, NEW minOut, Buy(from, fee, s, n, minOut)
    PROVE  block.open /\ Landed(from, fee) /\ Paid(fee, 0, n) /\ TokenStep(n) /\ ProductKept(s)
PROOF
<1> DEFINE old == currencies[s]
           out == Bought(old, n)
           pool == Purchased(old, n, out)
<1>1. n \in Nat /\ s \in Symbols
    BY CurrencyConstants DEF CurrenciesTypeOK
<1>2. /\ old \in Currency /\ old.totalSupply \in Nat
      /\ old.reserveNative \in Nat /\ old.reserveToken \in Nat
    BY <1>1, TokenTypes
<1>3. /\ CanPay(from, fee, n) /\ out > 0
      /\ balance' = Minus(balance, from, fee + n)
      /\ currencies' = [currencies EXCEPT ![s] = pool]
      /\ tokens' = [tokens EXCEPT ![s] = Plus(@, from, out)]
      /\ Landed(from, fee) /\ bank' = bank /\ treasuryTokens' = treasuryTokens
    BY DEF Buy
<1>4. /\ out \in Nat /\ out <= old.reserveToken
      /\ (old.reserveNative + n) * (old.reserveToken - out) >= old.reserveNative * old.reserveToken
    BY <1>1, <1>2, CurrencyConstants, SwapKeepsProduct DEF Bought
<1> HIDE DEF out
<1>5. /\ pool \in Currency /\ pool.totalSupply = old.totalSupply
      /\ pool.reserveNative = old.reserveNative + n /\ pool.reserveToken = old.reserveToken - out
  <2>1. old.reserveNative + n \in Nat /\ old.reserveToken - out \in Nat
      BY <1>1, <1>2, <1>4
  <2> HIDE DEF old
  <2> QED
      BY <1>2, <2>1 DEF Purchased, Currency
<1> HIDE DEF pool
<1>6. block.open /\ Paid(fee, 0, n)
  <2>1. bank' = creditTreasury(bank, 0) /\ n - 0 = n
      BY <1>1, <1>3, NothingForTheBank
  <2> QED
      BY <1>1, <1>3, <2>1, SpentPaid
<1>7. /\ DOMAIN currencies' = DOMAIN currencies
      /\ currencies' \in [DOMAIN currencies' -> Currency]
      /\ \A t \in Symbols : t # s => Issued(t)' = Issued(t)
      /\ Issued(s)' = pool.totalSupply - pool.reserveToken
      /\ Total(CurrencyCoin') = Total(CurrencyCoin) - old.reserveNative + pool.reserveNative
    BY <1>3, <1>5, OnePoolChanges
<1>8. Total(tokens[s]) + treasuryTokens[s] = old.totalSupply - old.reserveToken
    BY <1>1, ConservedTokens DEF Issued
<1>9. PICK f : f = Plus(tokens[s], from, out)
    OBVIOUS
<1>10. f \in [Addr -> Nat] /\ Total(f) + treasuryTokens[s] = Issued(s)'
  <2>1. f \in [Addr -> Nat] /\ Total(f) = Total(tokens[s]) + out
      BY <1>1, <1>4, <1>9, TokenTypes, CoinPaid
  <2>2. Total(tokens[s]) \in Nat /\ treasuryTokens[s] \in Nat /\ out \in Nat
      BY <1>1, <1>4, TokenTypes
  <2>3. Issued(s)' = old.totalSupply - (old.reserveToken - out)
      BY <1>5, <1>7
  <2> QED
      BY <1>2, <1>8, <2>1, <2>2, <2>3
<1>11. /\ tokens' = [tokens EXCEPT ![s] = f] /\ DOMAIN currencies' \subseteq Symbols
       /\ treasuryTokens' \in [Symbols -> Nat]
    BY <1>3, <1>7, <1>9 DEF CurrenciesTypeOK
<1>12. CurrenciesTypeOK' /\ TokensConserved'
    BY <1>1, <1>3, <1>7, <1>10, <1>11, OneTokenChanges
<1>13. Total(CurrencyCoin') = Total(CurrencyCoin) + n
    BY <1>1, <1>2, <1>5, <1>7, CurrencyCoinType
<1>14. ProductKept(s)
    BY <1>3, <1>4, <1>5 DEF ProductKept
<1> QED
    BY <1>3, <1>6, <1>12, <1>13, <1>14 DEF TokenStep

LEMMA SellStep ==
    ASSUME LedgerTypeOK, CurrenciesTypeOK, TokensConserved, NEW from \in Addr, NEW fee \in Nat,
           NEW s \in DOMAIN currencies, NEW n \in TradeSizes, NEW minOut, Sell(from, fee, s, n, minOut)
    PROVE  /\ block.open /\ Landed(from, fee) /\ ProductKept(s)
           /\ \E parked \in Int : Paid(fee, 0, parked) /\ TokenStep(parked)
PROOF
<1> DEFINE old == currencies[s]
           out == Sold(old, n)
           pool == Returned(old, n, out)
<1>1. n \in Nat /\ s \in Symbols
    BY CurrencyConstants DEF CurrenciesTypeOK
<1>2. /\ old \in Currency /\ old.totalSupply \in Nat
      /\ old.reserveNative \in Nat /\ old.reserveToken \in Nat
    BY <1>1, TokenTypes
<1>3. /\ CanPay(from, fee, 0) /\ tokens[s][from] >= n
      /\ balance' = Plus(Minus(balance, from, fee), from, out)
      /\ currencies' = [currencies EXCEPT ![s] = pool]
      /\ tokens' = [tokens EXCEPT ![s] = Minus(@, from, n)]
      /\ Landed(from, fee) /\ bank' = bank /\ treasuryTokens' = treasuryTokens
    BY DEF Sell
<1>4. /\ out \in Nat /\ out <= old.reserveNative
      /\ (old.reserveToken + n) * (old.reserveNative - out) >= old.reserveToken * old.reserveNative
    BY <1>1, <1>2, CurrencyConstants, SwapKeepsProduct DEF Sold
<1> HIDE DEF out
<1>5. /\ pool \in Currency /\ pool.totalSupply = old.totalSupply
      /\ pool.reserveNative = old.reserveNative - out /\ pool.reserveToken = old.reserveToken + n
  <2>1. old.reserveNative - out \in Nat /\ old.reserveToken + n \in Nat
      BY <1>1, <1>2, <1>4
  <2> HIDE DEF old
  <2> QED
      BY <1>2, <2>1 DEF Returned, Currency
<1> HIDE DEF pool
<1>6. block.open /\ Paid(fee, 0, 0 - out)
  <2>1. bank' = creditTreasury(bank, 0) /\ 0 - out - 0 = 0 - out /\ fee + 0 = fee
      BY <1>3, <1>4, NothingForTheBank
  <2> QED
      BY <1>3, <1>4, <2>1, SpentPaid
<1>7. /\ DOMAIN currencies' = DOMAIN currencies
      /\ currencies' \in [DOMAIN currencies' -> Currency]
      /\ \A t \in Symbols : t # s => Issued(t)' = Issued(t)
      /\ Issued(s)' = pool.totalSupply - pool.reserveToken
      /\ Total(CurrencyCoin') = Total(CurrencyCoin) - old.reserveNative + pool.reserveNative
    BY <1>3, <1>5, OnePoolChanges
<1>8. Total(tokens[s]) + treasuryTokens[s] = old.totalSupply - old.reserveToken
    BY <1>1, ConservedTokens DEF Issued
<1>9. PICK f : f = Minus(tokens[s], from, n)
    OBVIOUS
<1>10. f \in [Addr -> Nat] /\ Total(f) + treasuryTokens[s] = Issued(s)'
  <2>1. f \in [Addr -> Nat] /\ Total(f) = Total(tokens[s]) - n
      BY <1>1, <1>3, <1>9, TokenTypes, CoinTaken
  <2>2. Total(tokens[s]) \in Nat /\ treasuryTokens[s] \in Nat
      BY <1>1, TokenTypes
  <2> QED
      BY <1>1, <1>2, <1>5, <1>7, <1>8, <2>1, <2>2
<1>11. /\ tokens' = [tokens EXCEPT ![s] = f] /\ DOMAIN currencies' \subseteq Symbols
       /\ treasuryTokens' \in [Symbols -> Nat]
    BY <1>3, <1>7, <1>9 DEF CurrenciesTypeOK
<1>12. CurrenciesTypeOK' /\ TokensConserved'
    BY <1>1, <1>3, <1>7, <1>10, <1>11, OneTokenChanges
<1>13. Total(CurrencyCoin') = Total(CurrencyCoin) + (0 - out) /\ 0 - out \in Int
    BY <1>2, <1>4, <1>5, <1>7, CurrencyCoinType
<1>14. ProductKept(s)
  <2>1. /\ (old.reserveNative - out) * (old.reserveToken + n) =
               (old.reserveToken + n) * (old.reserveNative - out)
        /\ old.reserveNative * old.reserveToken = old.reserveToken * old.reserveNative
      BY <1>1, <1>2, <1>4
  <2> QED
      BY <1>3, <1>4, <1>5, <2>1 DEF ProductKept
<1> QED
    BY <1>3, <1>6, <1>12, <1>13, <1>14 DEF TokenStep

(* A payment in any asset: coin and tokens change hands, the bank keeps    *)
(* its cut of either, and no pool is touched.                              *)
LEMMA PayStep ==
    ASSUME LedgerTypeOK, CurrenciesTypeOK, TokensConserved, NEW from \in Addr, NEW fee \in Nat,
           NEW to \in Addr, NEW symbol \in Symbols \cup {NATIVE}, NEW amount \in Nat,
           NEW cut \in Nat, cut <= amount, Pay(from, fee, to, symbol, amount, cut),
           currencies' = currencies
    PROVE  /\ block.open
           /\ CurrenciesTypeOK' /\ TokensConserved'
           /\ \E c \in Nat : Paid(fee, c, 0)
PROOF
<1>1. CASE symbol = NATIVE
  <2>1. /\ CanPay(from, fee, amount) /\ bank' = creditTreasury(bank, cut)
        /\ balance' = Plus(Minus(balance, from, fee + amount), to, amount - cut)
        /\ tokens' = tokens /\ treasuryTokens' = treasuryTokens
      BY <1>1 DEF Pay
  <2>2. amount - cut \in Nat /\ amount - (amount - cut) - cut = 0
      OBVIOUS
  <2>3. block.open /\ Paid(fee, cut, 0)
      BY <2>1, <2>2, SpentPaid
  <2>4. CurrenciesTypeOK' /\ TokensConserved'
      BY <2>1 DEF CurrenciesTypeOK, TokensConserved
  <2> QED
      BY <2>3, <2>4
<1>2. CASE symbol # NATIVE
  <2>1. /\ CanPay(from, fee, 0) /\ tokens[symbol][from] >= amount /\ bank' = bank
        /\ balance' = Minus(balance, from, fee)
        /\ tokens' = [tokens EXCEPT ![symbol] = Plus(Minus(@, from, amount), to, amount - cut)]
        /\ treasuryTokens' = Plus(treasuryTokens, symbol, cut)
      BY <1>2 DEF Pay
  <2>2. symbol \in Symbols /\ amount - cut \in Nat
      BY <1>2
  <2>3. block.open /\ Paid(fee, 0, 0)
    <3>1. bank' = creditTreasury(bank, 0) /\ 0 - 0 = 0 /\ fee + 0 = fee
        BY <2>1, NothingForTheBank
    <3> QED
        BY <2>1, <3>1, SpentPaid
  <2>4. PICK f : f = Plus(Minus(tokens[symbol], from, amount), to, amount - cut)
      OBVIOUS
  <2>5. f \in [Addr -> Nat] /\ Total(f) = Total(tokens[symbol]) - cut
    <3>1. PICK g : g = Minus(tokens[symbol], from, amount)
        OBVIOUS
    <3>2. g \in [Addr -> Nat] /\ Total(g) = Total(tokens[symbol]) - amount
        BY <2>1, <2>2, <3>1, TokenTypes, CoinTaken
    <3>3. f \in [Addr -> Nat] /\ Total(f) = Total(g) + (amount - cut)
        BY <2>2, <2>4, <3>1, <3>2, CoinPaid
    <3>4. Total(tokens[symbol]) \in Nat
        BY <2>2, TokenTypes
    <3> QED
        BY <3>2, <3>3, <3>4
  <2>6. /\ treasuryTokens' \in [Symbols -> Nat]
        /\ treasuryTokens'[symbol] = treasuryTokens[symbol] + cut
        /\ \A t \in Symbols : t # symbol => treasuryTokens'[t] = treasuryTokens[t]
    <3>1. treasuryTokens \in [Symbols -> Nat]
        BY DEF CurrenciesTypeOK
    <3> QED
        BY <2>1, <2>2, <3>1 DEF Plus
  <2>7. \A t : Issued(t)' = Issued(t)
      BY DEF Issued
  <2>8. Total(f) + treasuryTokens'[symbol] = Issued(symbol)'
    <3>1. Total(tokens[symbol]) + treasuryTokens[symbol] = Issued(symbol)
        BY <2>2, ConservedTokens
    <3>2. Total(tokens[symbol]) \in Nat /\ treasuryTokens[symbol] \in Nat
        BY <2>2, TokenTypes
    <3> QED
        BY <2>5, <2>6, <2>7, <3>1, <3>2
  <2>9. tokens' = [tokens EXCEPT ![symbol] = f]
      BY <2>1, <2>4
  <2>10. DOMAIN currencies' \subseteq Symbols /\ currencies' \in [DOMAIN currencies' -> Currency]
      BY DEF CurrenciesTypeOK
  <2>11. CurrenciesTypeOK' /\ TokensConserved'
      BY <2>2, <2>5, <2>6, <2>7, <2>8, <2>9, <2>10, OneTokenChanges
  <2> QED
      BY <2>3, <2>11
<1> QED
    BY <1>1, <1>2

LEMMA CurrencyTxStep ==
    ASSUME LedgerTypeOK, CurrenciesTypeOK, TokensConserved, NEW from \in Addr, NEW fee \in Nat,
           CurrencyTx(from, fee)
    PROVE  /\ block.open /\ Landed(from, fee)
           /\ \E cut \in Nat, parked \in Int : Paid(fee, cut, parked) /\ TokenStep(parked)
           /\ \A s \in DOMAIN currencies : ProductKept(s)
           /\ DOMAIN currencies' \cap DOMAIN companies \subseteq
                  DOMAIN currencies \cap DOMAIN companies
PROOF
<1>0. \A t \in DOMAIN currencies : currencies[t].reserveNative * currencies[t].reserveToken \in Nat
    BY MulNat DEF CurrenciesTypeOK, Currency
<1>1. ASSUME NEW s \in Symbols, NEW supply \in Supplies, NEW l \in Liquidities,
             CreateCurrency(from, fee, s, supply, l)
      PROVE  /\ block.open /\ Landed(from, fee)
             /\ \E cut \in Nat, parked \in Int : Paid(fee, cut, parked) /\ TokenStep(parked)
             /\ \A t \in DOMAIN currencies : ProductKept(t)
             /\ DOMAIN currencies' \cap DOMAIN companies \subseteq
                    DOMAIN currencies \cap DOMAIN companies
  <2>1. block.open /\ Landed(from, fee) /\ Paid(fee, 0, l) /\ TokenStep(l) /\ l \in Int
      BY <1>1, CreateCurrencyStep, CurrencyConstants
  <2>2. /\ s \notin DOMAIN currencies /\ s \notin DOMAIN companies
        /\ DOMAIN currencies' = DOMAIN currencies \cup {s}
        /\ \A t \in DOMAIN currencies : currencies'[t] = currencies[t]
      BY <1>1 DEF CreateCurrency, With
  <2>3. \A t \in DOMAIN currencies : ProductKept(t)
      BY <1>0, <2>2 DEF ProductKept
  <2> QED
      BY <2>1, <2>2, <2>3
<1>2. ASSUME NEW s \in DOMAIN currencies, NEW n \in TradeSizes, NEW minOut,
             Buy(from, fee, s, n, minOut) \/ Sell(from, fee, s, n, minOut)
      PROVE  /\ block.open /\ Landed(from, fee)
             /\ \E cut \in Nat, parked \in Int : Paid(fee, cut, parked) /\ TokenStep(parked)
             /\ \A t \in DOMAIN currencies : ProductKept(t)
             /\ DOMAIN currencies' = DOMAIN currencies
  <2>1. n \in Int
      BY CurrencyConstants
  <2>2. /\ block.open /\ Landed(from, fee) /\ ProductKept(s)
        /\ \E parked \in Int : Paid(fee, 0, parked) /\ TokenStep(parked)
      BY <1>2, <2>1, BuyStep, SellStep
  <2>3. /\ DOMAIN currencies' = DOMAIN currencies
        /\ \A t \in DOMAIN currencies : t # s => currencies'[t] = currencies[t]
      BY <1>2 DEF Buy, Sell
  <2>4. \A t \in DOMAIN currencies : ProductKept(t)
      BY <1>0, <2>2, <2>3 DEF ProductKept
  <2> QED
      BY <2>2, <2>3, <2>4
<1>3. ASSUME NEW to \in Addr, NEW s \in Symbols \cup {NATIVE}, NEW n \in TradeSizes,
             TransferAsset(from, fee, to, s, n)
      PROVE  /\ block.open /\ Landed(from, fee)
             /\ \E cut \in Nat, parked \in Int : Paid(fee, cut, parked) /\ TokenStep(parked)
             /\ \A t \in DOMAIN currencies : ProductKept(t)
             /\ DOMAIN currencies' = DOMAIN currencies
  <2>1. n \in Nat /\ 0 <= n
      BY CurrencyConstants
  <2>2. Pay(from, fee, to, s, n, 0) /\ Landed(from, fee) /\ currencies' = currencies
      BY <1>3 DEF TransferAsset
  <2>3. /\ block.open /\ CurrenciesTypeOK' /\ TokensConserved'
        /\ \E c \in Nat : Paid(fee, c, 0)
      BY <2>1, <2>2, PayStep
  <2>4. Total(CurrencyCoin') = Total(CurrencyCoin) + 0
      BY <2>2, CurrencyCoinType DEF CurrencyCoin
  <2>5. \A t \in DOMAIN currencies : ProductKept(t)
      BY <1>0, <2>2 DEF ProductKept
  <2> QED
      BY <2>2, <2>3, <2>4, <2>5 DEF TokenStep
<1> QED
    BY <1>1, <1>2, <1>3 DEF CurrencyTx

(* The market moves coin and tokens by payments only.                      *)
LEMMA MarketTxStep ==
    ASSUME LedgerTypeOK, CurrenciesTypeOK, TokensConserved, MarketInv,
           NEW from \in Addr, NEW fee \in Nat, MarketTx(from, fee)
    PROVE  /\ block.open /\ Landed(from, fee)
           /\ \E cut \in Nat : Paid(fee, cut, 0)
           /\ CurrenciesTypeOK' /\ TokensConserved' /\ currencies' = currencies
PROOF
<1>1. ASSUME PayFee(from, fee), UNCHANGED tokenVars
      PROVE  /\ block.open /\ Landed(from, fee)
             /\ \E cut \in Nat : Paid(fee, cut, 0)
             /\ CurrenciesTypeOK' /\ TokensConserved' /\ currencies' = currencies
  <2>1. CurrenciesTypeOK' /\ TokensConserved' /\ currencies' = currencies
      BY <1>1 DEF tokenVars, CurrenciesTypeOK, TokensConserved
  <2> QED
      BY <1>1, <2>1, PayFeePaid
<1>2. ASSUME NEW id \in DOMAIN listings, BuyListing(from, fee, id)
      PROVE  /\ block.open /\ Landed(from, fee)
             /\ \E cut \in Nat : Paid(fee, cut, 0)
             /\ CurrenciesTypeOK' /\ TokensConserved' /\ currencies' = currencies
  <2>1. listings[id] \in Listing
      BY DEF MarketInv, MarketTypeOK
  <2>2. PICK sale : sale = listings[id]
      OBVIOUS
  <2>3. /\ sale.seller \in Addr /\ sale.price \in Nat /\ sale.symbol \in Symbols \cup {NATIVE}
        /\ SaleFee(sale) \in Nat /\ SaleFee(sale) <= sale.price
      BY <2>1, <2>2, SaleFeeType DEF Listing
  <2>4. /\ Pay(from, fee, sale.seller, sale.symbol, sale.price, SaleFee(sale))
        /\ Landed(from, fee) /\ currencies' = currencies
      BY <1>2, <2>2 DEF BuyListing
  <2> QED
      BY <2>3, <2>4, PayStep
<1> QED
    BY <1>1, <1>2 DEF MarketTx, RegisterUuid, DepositInventory, WithdrawInventory, ListItem,
       CancelListing

(* Land is paid for with fees, registry prices and, between owners, coin.  *)
LEMMA LandTxStep ==
    ASSUME LedgerTypeOK, LandInv, NEW from \in Addr, NEW fee \in Nat, LandTx(from, fee)
    PROVE  /\ block.open /\ Landed(from, fee)
           /\ \E cut \in Nat : Paid(fee, cut, 0)
PROOF
<1>0. SERVER_REGISTRATION_PRICE \in Nat /\ CHUNK_CLAIM_PRICE \in Nat /\ LAND_FEE_BPS \in 0..BPS
    BY LandAssumption
<1>1. ASSUME NEW price \in Nat, PayBank(from, fee, price)
      PROVE  block.open /\ Landed(from, fee) /\ \E cut \in Nat : Paid(fee, cut, 0)
    BY <1>1, PayBankPaid
<1>2. ASSUME PayFee(from, fee)
      PROVE  block.open /\ Landed(from, fee) /\ \E cut \in Nat : Paid(fee, cut, 0)
    BY <1>2, PayFeePaid
<1>3. ASSUME NEW key \in DOMAIN chunks, NEW maxPrice, BuyChunk(from, fee, key, maxPrice)
      PROVE  block.open /\ Landed(from, fee) /\ \E cut \in Nat : Paid(fee, cut, 0)
  <2>1. PICK owner, price, cut : /\ owner = chunks[key].owner /\ price = chunks[key].price
                                 /\ cut = FeeOf(price, LAND_FEE_BPS)
      OBVIOUS
  <2>2. owner \in Addr /\ price \in Nat
      BY <2>1 DEF LandInv, LandShape, Chunk
  <2>3. cut \in Nat /\ cut <= price
      BY <1>0, <2>1, <2>2, FeeOfType
  <2>4. /\ CanPay(from, fee, price) /\ bank' = creditTreasury(bank, cut)
        /\ balance' = Plus(Minus(balance, from, fee + price), owner, price - cut)
        /\ Landed(from, fee)
      BY <1>3, <2>1 DEF BuyChunk
  <2>5. price - cut \in Nat /\ price - (price - cut) - cut = 0
      BY <2>2, <2>3
  <2>6. block.open /\ Paid(fee, cut, 0)
      BY <2>2, <2>3, <2>4, <2>5, SpentPaid
  <2> QED
      BY <2>3, <2>4, <2>6
<1> QED
    BY <1>0, <1>1, <1>2, <1>3 DEF LandTx, RegisterServer, ClaimChunk, SetChunkSale, TransferChunk

LEMMA GovernanceTxStep ==
    ASSUME LedgerTypeOK, NEW from \in Addr, NEW fee \in Nat, GovernanceTx(from, fee)
    PROVE  block.open /\ Landed(from, fee) /\ Paid(fee, 0, 0)
PROOF BY PayFeePaid DEF GovernanceTx, CreateVote, CastVote

-----------------------------------------------------------------------------
(* Companies                                                               *)

(* The native coin in the pools and treasuries of companies.               *)
CompanyCoin ==
    [s \in DOMAIN companies |-> companies[s].reserveNative + companies[s].treasury]

LEMMA CompanyCoinType ==
    ASSUME StocksInv
    PROVE  /\ IsFiniteSet(DOMAIN companies)
           /\ CompanyCoin \in [DOMAIN companies -> Nat]
           /\ Total(CompanyCoin) \in Nat
PROOF
<1>1. IsFiniteSet(DOMAIN companies)
    BY CurrencyConstants, FS_Subset DEF StocksInv
<1>2. \A s \in DOMAIN companies : companies[s].reserveNative \in Nat /\ companies[s].treasury \in Nat
    BY DEF StocksInv, Company
<1>3. CompanyCoin \in [DOMAIN companies -> Nat]
    BY <1>2 DEF CompanyCoin
<1> QED
    BY <1>1, <1>3, TotalType

(* What a step of the companies leaves true, and the coin it parks in them. *)
StocksStep(parked) ==
    /\ StocksInv'
    /\ Total(CompanyCoin') = Total(CompanyCoin) + parked

LEMMA CompanyTypes ==
    ASSUME NEW c \in Company
    PROVE  /\ c.ceo \in Addr /\ c.totalShares \in Nat /\ c.reserveNative \in Nat
           /\ c.reserveShares \in Nat /\ c.treasury \in Nat /\ c.treasuryRaised \in Nat
           /\ c.dividendsPaid \in Nat /\ c.holders \in Counts /\ c.holderCount \in Nat
           /\ c.serverId \in ServerIds \cup {None} /\ Total(c.holders) \in Nat
PROOF BY PaddedTotal DEF Company

LEMMA OneCompanyChanges ==
    ASSUME StocksInv, NEW s \in DOMAIN companies, NEW c \in Company, Seated(c), Solvent(c),
           c.serverId = companies[s].serverId, NEW parked \in Int,
           c.reserveNative + c.treasury =
               companies[s].reserveNative + companies[s].treasury + parked,
           companies' = [companies EXCEPT ![s] = c], currencies' = currencies, servers' = servers
    PROVE  StocksStep(parked)
PROOF
<1>1. /\ DOMAIN companies' = DOMAIN companies /\ companies'[s] = c
      /\ companies' \in [DOMAIN companies' -> Company]
      /\ \A t \in DOMAIN companies : t # s => companies'[t] = companies[t]
    BY DEF StocksInv
<1>2. \A t \in DOMAIN companies' :
          /\ companies'[t].serverId \in DOMAIN servers' \cup {None}
          /\ Seated(companies'[t]) /\ Solvent(companies'[t])
    BY <1>1 DEF StocksInv
<1>3. StocksInv'
    BY <1>1, <1>2 DEF StocksInv, Seated, Solvent, outstandingShares
<1>4. PICK D, f, e : D = DOMAIN companies /\ f = CompanyCoin /\ e = CompanyCoin'
    OBVIOUS
<1>5. /\ IsFiniteSet(D) /\ f \in [D -> Nat] /\ Total(f) \in Nat /\ s \in D
      /\ f[s] = companies[s].reserveNative + companies[s].treasury /\ f[s] \in Nat
    BY <1>4, CompanyCoinType DEF CompanyCoin
<1>6. /\ e = [t \in D |-> companies'[t].reserveNative + companies'[t].treasury]
      /\ \A t \in D : t # s => e[t] = f[t]
      /\ e[s] = f[s] + parked
    BY <1>1, <1>4, <1>5 DEF CompanyCoin
<1>7. e[s] \in Nat
    BY <1>1, <1>5, <1>6, CompanyTypes
<1>8. e \in [D -> Nat]
    BY <1>5, <1>6, <1>7
<1>9. Total(e) = Total(f) - f[s] + e[s]
    BY <1>5, <1>6, <1>8, TotalChange
<1>10. Total(e) = Total(f) + parked
    BY <1>5, <1>6, <1>9
<1> QED
    BY <1>3, <1>4, <1>10 DEF StocksStep

LEMMA OneCompanyAppears ==
    ASSUME StocksInv, NEW s \in Symbols, s \notin DOMAIN companies, s \notin DOMAIN currencies,
           NEW c \in Company, Seated(c), Solvent(c), c.serverId \in DOMAIN servers \cup {None},
           companies' = With(companies, s, c), currencies' = currencies, servers' = servers
    PROVE  StocksStep(c.reserveNative + c.treasury)
PROOF
<1>1. /\ DOMAIN companies' = DOMAIN companies \cup {s} /\ companies'[s] = c
      /\ \A t \in DOMAIN companies : companies'[t] = companies[t]
    BY DEF With
<1>2. companies' \in [DOMAIN companies' -> Company]
    BY <1>1 DEF StocksInv, With
<1>3. \A t \in DOMAIN companies' :
          /\ companies'[t].serverId \in DOMAIN servers' \cup {None}
          /\ Seated(companies'[t]) /\ Solvent(companies'[t])
    BY <1>1 DEF StocksInv
<1>4. StocksInv'
    BY <1>1, <1>2, <1>3 DEF StocksInv, Seated, Solvent, outstandingShares
<1>5. PICK D, U, f, e : /\ D = DOMAIN companies /\ U = DOMAIN companies'
                        /\ f = CompanyCoin /\ e = CompanyCoin'
    OBVIOUS
<1>6. IsFiniteSet(D) /\ f \in [D -> Nat] /\ s \notin D /\ U = D \cup {s} /\ Total(f) \in Nat
    BY <1>1, <1>5, CompanyCoinType
<1>7. /\ e = [t \in U |-> companies'[t].reserveNative + companies'[t].treasury]
      /\ e[s] = c.reserveNative + c.treasury /\ \A t \in D : e[t] = f[t]
    BY <1>1, <1>5 DEF CompanyCoin
<1>8. e \in [U -> Nat]
  <2>1. \A t \in U : companies'[t].reserveNative \in Nat /\ companies'[t].treasury \in Nat
      BY <1>2, <1>5, CompanyTypes
  <2> QED
      BY <1>7, <2>1
<1>9. Total(e) = e[s] + Total(f)
  <2>1. \A g \in [D -> Nat], h \in [U -> Nat] :
            (\A t \in D : h[t] = g[t]) => Total(h) = h[s] + Total(g)
      BY ONLY <1>6, TotalExtend
  <2> QED
      BY <1>6, <1>7, <1>8, <2>1
<1>10. c.reserveNative + c.treasury \in Nat
    BY CompanyTypes
<1> QED
    BY <1>4, <1>5, <1>6, <1>7, <1>9, <1>10 DEF StocksStep

LEMMA ReseatedKeeps ==
    ASSUME NEW c \in Company, NEW table \in Counts, NEW count \in Nat,
           NEW new, new = Reseated(c, table, count)
    PROVE  /\ new \in Company /\ new.holders = table /\ new.holderCount = count
           /\ new.ceo = c.ceo /\ new.serverId = c.serverId /\ new.totalShares = c.totalShares
           /\ new.reserveNative = c.reserveNative /\ new.reserveShares = c.reserveShares
           /\ new.treasury = c.treasury /\ new.treasuryRaised = c.treasuryRaised
           /\ new.dividendsPaid = c.dividendsPaid
PROOF BY DEF Reseated, Company

LEMMA CreateCompanyStep ==
    ASSUME LedgerTypeOK, StocksInv, LandInv, NEW from \in Addr, NEW fee \in Nat, NEW s \in Symbols,
           NEW server \in DOMAIN servers \cup {None}, NEW total \in ShareCounts,
           NEW l \in Liquidities, CreateCompany(from, fee, s, server, total, l),
           currencies' = currencies, servers' = servers
    PROVE  block.open /\ Landed(from, fee) /\ Paid(fee, 0, l) /\ StocksStep(l) /\ l \in Int
PROOF
<1> DEFINE founder == FeeOf(total, FOUNDER_SHARE_BPS)
           c == [ceo |-> from, serverId |-> server, totalShares |-> total,
                 reserveNative |-> l, reserveShares |-> total - founder,
                 treasury |-> 0, treasuryRaised |-> 0, dividendsPaid |-> 0,
                 holders |-> << >>, holderCount |-> 0]
<1>1. total \in Nat /\ l \in Nat
    BY StocksConstants, CurrencyConstants
<1>2. founder \in Nat /\ founder <= total
    BY <1>1, StocksConstants, FeeOfType
<1>3. /\ s \notin DOMAIN currencies /\ s \notin DOMAIN companies /\ CanPay(from, fee, l)
      /\ balance' = Minus(balance, from, fee + l) /\ Landed(from, fee) /\ bank' = bank
      /\ companies' = With(companies, s, creditShares(c, from, founder))
    BY DEF CreateCompany
<1>4. c \in Company /\ c.serverId = server /\ c.reserveNative = l /\ c.treasury = 0
      /\ c.totalShares = total /\ c.reserveShares = total - founder
      /\ c.dividendsPaid = 0 /\ c.treasuryRaised = 0 /\ c.holders = << >> /\ c.holderCount = 0
  <2>1. server \in ServerIds \cup {None}
      BY DEF LandInv, LandShape
  <2>2. << >> \in Counts
      BY EmptyCounts
  <2> HIDE DEF founder
  <2> QED
      BY <1>1, <1>2, <2>1, <2>2 DEF Company
<1> HIDE DEF founder, c
<1>5. Seated(c) /\ Total(c.holders) = 0 /\ HasSeat(c, from, founder)
  <2>1. DOMAIN c.holders = {} /\ Cardinality({}) = 0
      BY <1>4, EmptyCounts, FS_EmptySet
  <2>2. Total(c.holders) = 0
      BY <2>1, TotalEmpty
  <2> QED
      BY <1>4, <2>1, <2>2, StocksConstants DEF Seated, HasSeat
<1>6. PICK table \in Counts, count \in Nat :
          /\ creditShares(c, from, founder) = Reseated(c, table, count)
          /\ Total(table) = Total(c.holders) + founder
          /\ Seated(Reseated(c, table, count))
    BY <1>2, <1>4, <1>5, Credited
<1>7. PICK new : new = Reseated(c, table, count)
    OBVIOUS
<1>8. /\ new \in Company /\ Seated(new) /\ new.serverId = server
      /\ new.reserveNative = l /\ new.treasury = 0
    BY <1>4, <1>6, <1>7, ReseatedKeeps
<1>9. Solvent(new)
  <2>1. /\ new.holders = table /\ new.totalShares = total /\ new.reserveShares = total - founder
        /\ new.dividendsPaid = 0 /\ new.treasuryRaised = 0
      BY <1>4, <1>7, ReseatedKeeps
  <2>2. Total(table) = founder
      BY <1>2, <1>5, <1>6
  <2> QED
      BY <1>1, <1>2, <1>8, <2>1, <2>2 DEF Solvent, outstandingShares
<1>10. StocksStep(l)
  <2>1. new.reserveNative + new.treasury = l
      BY <1>1, <1>8
  <2> QED
      BY <1>3, <1>6, <1>7, <1>8, <1>9, <2>1, OneCompanyAppears
<1>11. block.open /\ Paid(fee, 0, l)
  <2>1. bank' = creditTreasury(bank, 0) /\ l - 0 = l
      BY <1>1, <1>3, NothingForTheBank
  <2> QED
      BY <1>1, <1>3, <2>1, SpentPaid
<1> QED
    BY <1>1, <1>3, <1>10, <1>11

LEMMA BuySharesStep ==
    ASSUME LedgerTypeOK, StocksInv, NEW from \in Addr, NEW fee \in Nat, NEW s \in DOMAIN companies,
           NEW n \in TradeSizes, NEW minOut, BuyShares(from, fee, s, n, minOut),
           currencies' = currencies, servers' = servers
    PROVE  block.open /\ Landed(from, fee) /\ Paid(fee, 0, n) /\ StocksStep(n) /\ n \in Int
PROOF
<1> DEFINE c == companies[s]
           raised == FeeOf(n, COMPANY_TREASURY_BPS)
           in == n - raised
           out == AmountOut(in, c.reserveNative, c.reserveShares, SWAP_FEE_BPS)
           paid == [c EXCEPT !.reserveNative = @ + in, !.reserveShares = @ - out,
                             !.treasury = @ + raised, !.treasuryRaised = @ + raised]
<1>1. /\ c = companies[s] /\ raised = FeeOf(n, COMPANY_TREASURY_BPS) /\ in = n - raised
      /\ out = AmountOut(in, c.reserveNative, c.reserveShares, SWAP_FEE_BPS)
    OBVIOUS
<1>2. paid = [c EXCEPT !.reserveNative = @ + in, !.reserveShares = @ - out,
                       !.treasury = @ + raised, !.treasuryRaised = @ + raised]
    OBVIOUS
<1>3. /\ CanPay(from, fee, n) /\ balance' = Minus(balance, from, fee + n) /\ bank' = bank
      /\ HasSeat(c, from, out) /\ Landed(from, fee)
      /\ companies' = [companies EXCEPT ![s] = creditShares(paid, from, out)]
    BY DEF BuyShares
<1> HIDE DEF c, raised, in, out, paid
<1>4. c \in Company /\ Seated(c) /\ Solvent(c)
    BY <1>1 DEF StocksInv
<1>5. n \in Nat /\ raised \in Nat /\ raised <= n /\ in \in Nat /\ in + raised = n
  <2>1. n \in Nat
      BY CurrencyConstants
  <2>2. raised \in 0..n
      BY <1>1, <2>1, StocksConstants, FeeOfType
  <2> QED
      BY <1>1, <2>1, <2>2
<1>6. out \in Nat /\ out <= c.reserveShares
    BY <1>1, <1>4, <1>5, CompanyTypes, CurrencyConstants, SwapKeepsProduct
<1>7. /\ paid \in Company /\ paid.holders = c.holders /\ paid.holderCount = c.holderCount
      /\ paid.reserveNative = c.reserveNative + in /\ paid.reserveShares = c.reserveShares - out
      /\ paid.treasury = c.treasury + raised /\ paid.treasuryRaised = c.treasuryRaised + raised
      /\ paid.dividendsPaid = c.dividendsPaid /\ paid.serverId = c.serverId
      /\ paid.totalShares = c.totalShares
  <2>1. /\ c.reserveNative + in \in Nat /\ c.reserveShares - out \in Nat
        /\ c.treasury + raised \in Nat /\ c.treasuryRaised + raised \in Nat
      BY <1>4, <1>5, <1>6, CompanyTypes
  <2> QED
      BY <1>2, <1>4, <2>1 DEF Company
<1>8. Seated(paid) /\ HasSeat(paid, from, out)
    BY <1>3, <1>4, <1>7 DEF Seated, HasSeat, sharesOf
<1>9. PICK table \in Counts, count \in Nat :
          /\ creditShares(paid, from, out) = Reseated(paid, table, count)
          /\ Total(table) = Total(paid.holders) + out
          /\ Seated(Reseated(paid, table, count))
    BY <1>6, <1>7, <1>8, Credited
<1>10. PICK new : new = Reseated(paid, table, count)
    OBVIOUS
<1>11. /\ new \in Company /\ Seated(new) /\ new.serverId = c.serverId
       /\ new.holders = table /\ new.totalShares = c.totalShares
       /\ new.reserveNative = c.reserveNative + in /\ new.reserveShares = c.reserveShares - out
       /\ new.treasury = c.treasury + raised /\ new.treasuryRaised = c.treasuryRaised + raised
       /\ new.dividendsPaid = c.dividendsPaid
    BY <1>7, <1>9, <1>10, ReseatedKeeps
<1>12. Solvent(new)
    BY <1>4, <1>5, <1>6, <1>7, <1>9, <1>11, CompanyTypes DEF Solvent, outstandingShares
<1>13. StocksStep(n)
  <2>1. new.reserveNative + new.treasury = c.reserveNative + c.treasury + n
    <3>1. c.reserveNative \in Nat /\ c.treasury \in Nat
        BY <1>4, CompanyTypes
    <3>2. new.reserveNative = c.reserveNative + in /\ new.treasury = c.treasury + raised
        BY <1>11
    <3> QED
        BY ONLY <1>5, <3>1, <3>2
  <2>2. companies' = [companies EXCEPT ![s] = new] /\ n \in Int
      BY <1>3, <1>5, <1>9, <1>10
  <2> QED
      BY <1>1, <1>11, <1>12, <2>1, <2>2, OneCompanyChanges
<1>14. block.open /\ Paid(fee, 0, n)
  <2>1. bank' = creditTreasury(bank, 0) /\ n - 0 = n
      BY <1>3, <1>5, NothingForTheBank
  <2> QED
      BY <1>3, <1>5, <2>1, SpentPaid
<1> QED
    BY <1>3, <1>5, <1>13, <1>14

LEMMA SellSharesStep ==
    ASSUME LedgerTypeOK, StocksInv, NEW from \in Addr, NEW fee \in Nat, NEW s \in DOMAIN companies,
           NEW n \in TradeSizes, NEW minOut, SellShares(from, fee, s, n, minOut),
           currencies' = currencies, servers' = servers
    PROVE  /\ block.open /\ Landed(from, fee)
           /\ \E parked \in Int : Paid(fee, 0, parked) /\ StocksStep(parked)
PROOF
<1> DEFINE c == companies[s]
           out == AmountOut(n, c.reserveShares, c.reserveNative, SWAP_FEE_BPS)
<1>1. c = companies[s] /\ out = AmountOut(n, c.reserveShares, c.reserveNative, SWAP_FEE_BPS)
    OBVIOUS
<1>2. /\ CanPay(from, fee, 0) /\ balance' = Plus(Minus(balance, from, fee), from, out)
      /\ sharesOf(c, from) >= n /\ Landed(from, fee) /\ bank' = bank
      /\ companies' = [companies EXCEPT ![s] =
             [debitShares(c, from, n) EXCEPT !.reserveShares = @ + n, !.reserveNative = @ - out]]
    BY DEF SellShares
<1> HIDE DEF c, out
<1>3. c \in Company /\ Seated(c) /\ Solvent(c)
    BY <1>1 DEF StocksInv
<1>4. n \in Nat /\ n > 0
    BY CurrencyConstants
<1>5. out \in Nat /\ out <= c.reserveNative
    BY <1>1, <1>3, <1>4, CompanyTypes, CurrencyConstants, SwapKeepsProduct
<1>6. PICK table \in Counts, count \in Nat :
          /\ debitShares(c, from, n) = Reseated(c, table, count)
          /\ Total(table) = Total(c.holders) - n
          /\ Seated(Reseated(c, table, count))
    BY <1>2, <1>3, <1>4, Debited
<1>7. PICK d, new : /\ d = Reseated(c, table, count)
                    /\ new = [d EXCEPT !.reserveShares = @ + n, !.reserveNative = @ - out]
    OBVIOUS
<1>8. /\ d \in Company /\ d.holders = table /\ d.holderCount = count
      /\ d.serverId = c.serverId /\ d.totalShares = c.totalShares
      /\ d.reserveNative = c.reserveNative /\ d.reserveShares = c.reserveShares
      /\ d.treasury = c.treasury /\ d.treasuryRaised = c.treasuryRaised
      /\ d.dividendsPaid = c.dividendsPaid
    BY <1>3, <1>7, ReseatedKeeps
<1>9. /\ new \in Company /\ new.holders = table /\ new.holderCount = d.holderCount
      /\ new.serverId = c.serverId /\ new.totalShares = c.totalShares
      /\ new.reserveNative = c.reserveNative - out /\ new.reserveShares = c.reserveShares + n
      /\ new.treasury = c.treasury /\ new.treasuryRaised = c.treasuryRaised
      /\ new.dividendsPaid = c.dividendsPaid
  <2>1. d.reserveShares + n \in Nat /\ d.reserveNative - out \in Nat
      BY <1>3, <1>4, <1>5, <1>8, CompanyTypes
  <2> QED
      BY <1>7, <1>8, <2>1 DEF Company
<1>10. Seated(new)
    BY <1>6, <1>7, <1>8, <1>9 DEF Seated
<1>11. Solvent(new)
    BY <1>3, <1>4, <1>6, <1>9, CompanyTypes DEF Solvent, outstandingShares
<1>12. StocksStep(0 - out)
  <2>1. new.reserveNative + new.treasury = c.reserveNative + c.treasury + (0 - out)
      BY <1>3, <1>5, <1>9, CompanyTypes
  <2>2. companies' = [companies EXCEPT ![s] = new] /\ 0 - out \in Int
      BY <1>2, <1>5, <1>6, <1>7
  <2> QED
      BY <1>1, <1>9, <1>10, <1>11, <2>1, <2>2, OneCompanyChanges
<1>13. block.open /\ Paid(fee, 0, 0 - out) /\ 0 - out \in Int
  <2>1. bank' = creditTreasury(bank, 0) /\ 0 - out - 0 = 0 - out /\ fee + 0 = fee
      BY <1>2, <1>5, NothingForTheBank
  <2> QED
      BY <1>2, <1>5, <2>1, SpentPaid
<1> QED
    BY <1>2, <1>12, <1>13

LEMMA TransferSharesStep ==
    ASSUME LedgerTypeOK, StocksInv, NEW from \in Addr, NEW fee \in Nat, NEW s \in DOMAIN companies,
           NEW to \in Addr, NEW n \in TradeSizes, TransferShares(from, fee, s, to, n),
           currencies' = currencies, servers' = servers
    PROVE  block.open /\ Landed(from, fee) /\ Paid(fee, 0, 0) /\ StocksStep(0)
PROOF
<1> DEFINE c == companies[s]
           d == debitShares(c, from, n)
<1>1. /\ sharesOf(c, from) >= n /\ PayFee(from, fee) /\ HasSeat(d, to, n)
      /\ companies' = [companies EXCEPT ![s] = creditShares(d, to, n)]
    BY DEF TransferShares
<1>2. c = companies[s] /\ d = debitShares(c, from, n)
    OBVIOUS
<1> HIDE DEF c, d
<1>3. c \in Company /\ Seated(c) /\ Solvent(c)
    BY <1>2 DEF StocksInv
<1>4. n \in Nat /\ n > 0
    BY CurrencyConstants
<1>5. PICK table \in Counts, count \in Nat :
          /\ d = Reseated(c, table, count)
          /\ Total(table) = Total(c.holders) - n
          /\ Seated(Reseated(c, table, count))
    BY <1>1, <1>2, <1>3, <1>4, Debited
<1>6. /\ d \in Company /\ d.holders = table /\ Seated(d)
      /\ d.serverId = c.serverId /\ d.totalShares = c.totalShares
      /\ d.reserveNative = c.reserveNative /\ d.reserveShares = c.reserveShares
      /\ d.treasury = c.treasury /\ d.treasuryRaised = c.treasuryRaised
      /\ d.dividendsPaid = c.dividendsPaid
    BY <1>3, <1>5, ReseatedKeeps
<1>7. PICK table2 \in Counts, count2 \in Nat :
          /\ creditShares(d, to, n) = Reseated(d, table2, count2)
          /\ Total(table2) = Total(d.holders) + n
          /\ Seated(Reseated(d, table2, count2))
    BY <1>1, <1>4, <1>6, Credited
<1>8. PICK new : new = Reseated(d, table2, count2)
    OBVIOUS
<1>9. /\ new \in Company /\ new.holders = table2 /\ Seated(new)
      /\ new.serverId = c.serverId /\ new.totalShares = c.totalShares
      /\ new.reserveNative = c.reserveNative /\ new.reserveShares = c.reserveShares
      /\ new.treasury = c.treasury /\ new.treasuryRaised = c.treasuryRaised
      /\ new.dividendsPaid = c.dividendsPaid
    BY <1>6, <1>7, <1>8, ReseatedKeeps
<1>10. Solvent(new)
    BY <1>3, <1>4, <1>5, <1>6, <1>7, <1>9, CompanyTypes DEF Solvent, outstandingShares
<1>11. StocksStep(0)
  <2>1. new.reserveNative + new.treasury = c.reserveNative + c.treasury + 0
      BY <1>3, <1>9, CompanyTypes
  <2>2. companies' = [companies EXCEPT ![s] = new]
      BY <1>1, <1>7, <1>8
  <2>3. PICK zero \in Int : zero = 0
      OBVIOUS
  <2>4. StocksStep(zero)
      BY <1>2, <1>9, <1>10, <2>1, <2>2, <2>3, OneCompanyChanges
  <2> QED
      BY <2>3, <2>4
<1> QED
    BY <1>1, <1>11, PayFeePaid

LEMMA CompanyPayoutStep ==
    ASSUME LedgerTypeOK, StocksInv, NEW from \in Addr, NEW fee \in Nat, NEW s \in DOMAIN companies,
           NEW to \in Addr, NEW n \in TradeSizes, CompanyPayout(from, fee, s, to, n),
           currencies' = currencies, servers' = servers
    PROVE  /\ block.open /\ Landed(from, fee)
           /\ \E parked \in Int : Paid(fee, 0, parked) /\ StocksStep(parked)
PROOF
<1> DEFINE c == companies[s]
           new == [c EXCEPT !.treasury = c.treasury - n]
<1>0. c = companies[s] /\ new = [c EXCEPT !.treasury = c.treasury - n]
    OBVIOUS
<1>1. /\ c.treasury >= n /\ CanPay(from, fee, 0) /\ bank' = bank /\ Landed(from, fee)
      /\ balance' = Plus(Minus(balance, from, fee), to, n)
      /\ companies' = [companies EXCEPT ![s] = new]
    BY DEF CompanyPayout
<1> HIDE DEF c, new
<1>2. c \in Company /\ Seated(c) /\ Solvent(c)
    BY <1>0 DEF StocksInv
<1>3. n \in Nat
    BY CurrencyConstants
<1>4. /\ new \in Company /\ new.holders = c.holders /\ new.holderCount = c.holderCount
      /\ new.serverId = c.serverId /\ new.totalShares = c.totalShares
      /\ new.reserveNative = c.reserveNative /\ new.reserveShares = c.reserveShares
      /\ new.treasury = c.treasury - n /\ new.treasuryRaised = c.treasuryRaised
      /\ new.dividendsPaid = c.dividendsPaid
  <2>1. c.treasury - n \in Nat
      BY <1>1, <1>2, <1>3, CompanyTypes
  <2> QED
      BY <1>0, <1>2, <2>1 DEF Company
<1>5. Seated(new) /\ Solvent(new)
    BY <1>2, <1>3, <1>4, CompanyTypes DEF Seated, Solvent, outstandingShares
<1>6. StocksStep(0 - n) /\ 0 - n \in Int
  <2>1. new.reserveNative + new.treasury = c.reserveNative + c.treasury + (0 - n) /\ 0 - n \in Int
      BY <1>2, <1>3, <1>4, CompanyTypes
  <2> QED
      BY <1>0, <1>1, <1>4, <1>5, <2>1, OneCompanyChanges
<1>7. block.open /\ Paid(fee, 0, 0 - n)
  <2>1. bank' = creditTreasury(bank, 0) /\ 0 - n - 0 = 0 - n /\ fee + 0 = fee
      BY <1>1, <1>3, NothingForTheBank
  <2> QED
      BY <1>1, <1>3, <2>1, SpentPaid
<1> QED
    BY <1>1, <1>6, <1>7

(* The dividend leaves the treasury as it reaches the accounts: the sum of *)
(* all cuts is what is recorded as distributed.                            *)
LEMMA PayDividendStep ==
    ASSUME LedgerTypeOK, StocksInv, NEW from \in Addr, NEW fee \in Nat, NEW s \in DOMAIN companies,
           NEW n \in TradeSizes, PayDividend(from, fee, s, n),
           currencies' = currencies, servers' = servers
    PROVE  /\ block.open /\ Landed(from, fee)
           /\ \E parked \in Int : Paid(fee, 0, parked) /\ StocksStep(parked)
PROOF
<1> DEFINE c == companies[s]
           paid == Distributed(c, n)
           new == [c EXCEPT !.treasury = c.treasury - paid,
                            !.dividendsPaid = c.dividendsPaid + paid]
           cuts == [a \in Addr |-> Cut(c, n, a)]
           b == Minus(balance, from, fee)
<1>0. /\ c = companies[s] /\ paid = Distributed(c, n) /\ cuts = [a \in Addr |-> Cut(c, n, a)]
      /\ new = [c EXCEPT !.treasury = c.treasury - paid, !.dividendsPaid = c.dividendsPaid + paid]
      /\ b = Minus(balance, from, fee)
    OBVIOUS
<1>1. /\ c.treasury >= n /\ outstandingShares(c) > 0 /\ CanPay(from, fee, 0)
      /\ bank' = bank /\ Landed(from, fee)
      /\ balance' = [a \in Addr |-> b[a] + Cut(c, n, a)]
    BY DEF PayDividend
<1>2. companies' = [companies EXCEPT ![s] = new]
    BY DEF PayDividend
<1> HIDE DEF c, new, paid, cuts, b
<1>3. c \in Company /\ Seated(c) /\ Solvent(c)
    BY <1>0 DEF StocksInv
<1>4. n \in Nat
    BY CurrencyConstants
<1>5. /\ cuts \in [Addr -> Nat] /\ Total(cuts) = paid /\ paid \in Nat /\ paid <= n
    BY <1>0, <1>1, <1>3, <1>4, DividendCovered DEF Solvent
<1>6. /\ new \in Company /\ new.holders = c.holders /\ new.holderCount = c.holderCount
      /\ new.serverId = c.serverId /\ new.totalShares = c.totalShares
      /\ new.reserveNative = c.reserveNative /\ new.reserveShares = c.reserveShares
      /\ new.treasury = c.treasury - paid /\ new.treasuryRaised = c.treasuryRaised
      /\ new.dividendsPaid = c.dividendsPaid + paid
  <2>1. c.treasury - paid \in Nat /\ c.dividendsPaid + paid \in Nat
      BY <1>1, <1>3, <1>4, <1>5, CompanyTypes
  <2> QED
      BY <1>0, <1>3, <2>1 DEF Company
<1>7. Seated(new) /\ Solvent(new)
    BY <1>3, <1>5, <1>6, CompanyTypes DEF Seated, Solvent, outstandingShares
<1>8. StocksStep(0 - paid) /\ 0 - paid \in Int
  <2>1. /\ new.reserveNative + new.treasury = c.reserveNative + c.treasury + (0 - paid)
        /\ 0 - paid \in Int
      BY <1>3, <1>5, <1>6, CompanyTypes
  <2> QED
      BY <1>0, <1>2, <1>6, <1>7, <2>1, OneCompanyChanges
<1>9. block.open /\ b \in [Addr -> Nat] /\ Total(b) = Total(balance) - fee /\ Total(balance) \in Nat
  <2>1. block.open /\ fee <= balance[from]
      BY <1>1 DEF CanPay, LedgerTypeOK
  <2> QED
      BY <1>0, <2>1, PaidType
<1>10. Paid(fee, 0, 0 - paid)
  <2>1. balance' = [a \in Addr |-> b[a] + cuts[a]]
      BY <1>0, <1>1
  <2>2. balance' \in [Addr -> Nat]
      BY <1>5, <1>9, <2>1
  <2>3. Total([a \in Addr |-> b[a] + cuts[a]]) = Total(b) + Total(cuts)
      BY <1>5, <1>9, ConstantTypes, TotalSum
  <2>4. Total(balance') = Total(balance) - fee - 0 - (0 - paid)
      BY <1>5, <1>9, <2>1, <2>3
  <2> QED
      BY <1>1, <2>2, <2>4, NothingForTheBank DEF Paid
<1> QED
    BY <1>1, <1>8, <1>9, <1>10

LEMMA StocksTxStep ==
    ASSUME LedgerTypeOK, StocksInv, LandInv, NEW from \in Addr, NEW fee \in Nat,
           StocksTx(from, fee), currencies' = currencies, servers' = servers
    PROVE  /\ block.open /\ Landed(from, fee)
           /\ \E parked \in Int : Paid(fee, 0, parked) /\ StocksStep(parked)
PROOF
<1>1. CASE \E s \in Symbols, server \in DOMAIN servers \cup {None},
              total \in ShareCounts, l \in Liquidities :
              CreateCompany(from, fee, s, server, total, l)
    BY <1>1, CreateCompanyStep
<1>2. ASSUME NEW s \in DOMAIN companies, NEW n \in TradeSizes, NEW minOut \in MinOuts,
             BuyShares(from, fee, s, n, minOut) \/ SellShares(from, fee, s, n, minOut)
      PROVE  /\ block.open /\ Landed(from, fee)
             /\ \E parked \in Int : Paid(fee, 0, parked) /\ StocksStep(parked)
    BY <1>2, BuySharesStep, SellSharesStep
<1>3. ASSUME NEW s \in DOMAIN companies, NEW n \in TradeSizes, NEW to \in Addr,
             TransferShares(from, fee, s, to, n) \/ CompanyPayout(from, fee, s, to, n)
      PROVE  /\ block.open /\ Landed(from, fee)
             /\ \E parked \in Int : Paid(fee, 0, parked) /\ StocksStep(parked)
    BY <1>3, TransferSharesStep, CompanyPayoutStep
<1>4. ASSUME NEW s \in DOMAIN companies, NEW n \in TradeSizes, PayDividend(from, fee, s, n)
      PROVE  /\ block.open /\ Landed(from, fee)
             /\ \E parked \in Int : Paid(fee, 0, parked) /\ StocksStep(parked)
    BY <1>4, PayDividendStep
<1> QED
    BY <1>1, <1>2, <1>3, <1>4 DEF StocksTx

-----------------------------------------------------------------------------
(* The domains put together.                                               *)

StateInv ==
    /\ BankSound
    /\ CoinConserved
    /\ CurrenciesTypeOK
    /\ TokensConserved
    /\ MarketInv
    /\ LandInv
    /\ StocksInv
    /\ VotesInv

(* A table nobody touched keeps what is true of it, provided the tables it *)
(* refers to only grow.                                                    *)
LEMMA TokensStay ==
    ASSUME CurrenciesTypeOK, TokensConserved, UNCHANGED tokenVars
    PROVE  CurrenciesTypeOK' /\ TokensConserved' /\ Total(CurrencyCoin') = Total(CurrencyCoin)
PROOF BY DEF CurrenciesTypeOK, TokensConserved, CurrencyCoin, tokenVars

LEMMA MarketStays ==
    ASSUME MarketInv, UNCHANGED marketVars
    PROVE  MarketInv'
PROOF BY DEF MarketInv, MarketTypeOK, SalesCanDeliver, UuidsAgree, marketVars

LEMMA LandStays ==
    ASSUME LandInv, UNCHANGED landVars
    PROVE  LandInv'
PROOF
<1>1. servers' = servers /\ chunks' = chunks
    BY DEF landVars
<1>2. LandShape'
    BY <1>1 DEF LandInv, LandShape
<1>3. ASSUME NEW s \in DOMAIN servers
      PROVE  Tallied(s)'
  <2>1. Tallied(s)
      BY <1>3 DEF LandInv
  <2>2. On(s)' = On(s) /\ \A a \in Addr : Owned(s, a)' = Owned(s, a)
      BY <1>1 DEF On, Owned
  <2> QED
      BY <1>1, <2>1, <2>2 DEF Tallied
<1> QED
    BY <1>1, <1>2, <1>3 DEF LandInv

LEMMA StocksStay ==
    ASSUME StocksInv, companies' = companies, DOMAIN servers \subseteq DOMAIN servers',
           DOMAIN currencies' \cap DOMAIN companies \subseteq
               DOMAIN currencies \cap DOMAIN companies
    PROVE  StocksInv' /\ Total(CompanyCoin') = Total(CompanyCoin)
PROOF
<1>1. StocksInv'
    BY DEF StocksInv, Seated, Solvent, outstandingShares
<1>2. CompanyCoin' = CompanyCoin
    BY DEF CompanyCoin
<1> QED
    BY <1>1, <1>2

LEMMA VotesStay ==
    ASSUME VotesInv, votes' = votes, DOMAIN servers \subseteq DOMAIN servers'
    PROVE  VotesInv'
PROOF BY DEF VotesInv, VotesAreCounted, Casting, Outcome

LEMMA ParkedCoinIs == ParkedCoin = Total(CurrencyCoin) + Total(CompanyCoin)
PROOF BY DEF ParkedCoin, CurrencyCoin, CompanyCoin

LEMMA ParkedCoinIsNext == (ParkedCoin = Total(CurrencyCoin) + Total(CompanyCoin))'
PROOF BY ParkedCoinIs, PTL

LEMMA ParkedTypes ==
    StateInv => /\ circulatingSupply \in Nat /\ Minted \in Nat
                /\ Total(CurrencyCoin) \in Nat /\ Total(CompanyCoin) \in Nat
PROOF BY SupplyTypes, CurrencyCoinType, CompanyCoinType DEF StateInv, BankSound, BankTypeOK

LEMMA StateInitInv == StateInit => StateInv
PROOF
<1> SUFFICES ASSUME StateInit
             PROVE  StateInv
    OBVIOUS
<1>0. /\ BankSound /\ circulatingSupply = Minted
      /\ circulatingSupply \in Nat /\ Minted \in Nat
    BY BankInitSound, SupplyTypes DEF StateInit, BankSound, BankTypeOK
<1>1. /\ DOMAIN currencies = {} /\ DOMAIN companies = {} /\ DOMAIN votes = {}
      /\ DOMAIN servers = {} /\ DOMAIN chunks = {} /\ DOMAIN uuids = {}
      /\ DOMAIN inventories = {} /\ DOMAIN listings = {}
      /\ currencies = << >> /\ companies = << >> /\ votes = << >> /\ servers = << >>
      /\ chunks = << >> /\ uuids = << >> /\ inventories = << >> /\ listings = << >>
    BY DEF StateInit, CurrenciesInit, MarketInit, LandInit, StocksInit, GovernanceInit
<1>2. CurrenciesTypeOK
    BY <1>1 DEF CurrenciesTypeOK, StateInit, CurrenciesInit
<1>3. TokensConserved
  <2>1. PICK none : none = [a \in Addr |-> 0]
      OBVIOUS
  <2>2. Total(none) = 0
      BY <2>1, ConstantTypes, TotalZero
  <2>3. \A s \in Symbols : tokens[s] = none /\ treasuryTokens[s] = 0
      BY <2>1 DEF StateInit, CurrenciesInit
  <2>4. \A s \in Symbols : Issued(s) = 0
      BY <1>1 DEF Issued
  <2> QED
      BY <2>2, <2>3, <2>4, ConservedTokens
<1>4. MarketInv
  <2>1. MarketTypeOK
      BY <1>1 DEF MarketTypeOK, StateInit, MarketInit
  <2>2. accountUuid = [a \in Addr |-> None]
      BY DEF StateInit, MarketInit
  <2> QED
      BY <1>1, <2>1, <2>2, NoneIsNoId DEF MarketInv, SalesCanDeliver, UuidsAgree
<1>5. LandInv
    BY <1>1, FS_EmptySet DEF LandInv, LandShape
<1>6. StocksInv
    BY <1>1 DEF StocksInv
<1>7. VotesInv
    BY <1>1 DEF VotesInv, VotesAreCounted
<1>8. CoinConserved
  <2>1. DOMAIN CurrencyCoin = {} /\ DOMAIN CompanyCoin = {}
      BY <1>1 DEF CurrencyCoin, CompanyCoin
  <2>2. Total(CurrencyCoin) = 0 /\ Total(CompanyCoin) = 0
      BY <2>1, TotalEmpty
  <2> QED
      BY <1>0, <2>2, ParkedCoinIs DEF CoinConserved
<1> QED
    BY <1>0, <1>2, <1>3, <1>4, <1>5, <1>6, <1>7, <1>8 DEF StateInv

(* A step that pays as every domain but the bank does, and parks in the    *)
(* pools and treasuries what it took for them.                             *)
LEMMA CoinStep ==
    ASSUME StateInv, block.open, NEW from \in Addr, NEW fee \in Nat, Landed(from, fee),
           NEW cut \in Nat, NEW parked \in Int, Paid(fee, cut, parked), UNCHANGED contracts,
           Total(CurrencyCoin') + Total(CompanyCoin') =
               Total(CurrencyCoin) + Total(CompanyCoin) + parked
    PROVE  BankSound' /\ CoinConserved'
PROOF
<1>1. BankSound' /\ circulatingSupply' = circulatingSupply - parked /\ Minted' = Minted
    BY PaidStep DEF StateInv
<1>2. circulatingSupply + (Total(CurrencyCoin) + Total(CompanyCoin)) = Minted
    BY ParkedCoinIs DEF StateInv, CoinConserved
<1>3. ParkedCoin' = Total(CurrencyCoin') + Total(CompanyCoin')
    BY ParkedCoinIsNext
<1>4. circulatingSupply' + ParkedCoin' = Minted'
    BY <1>1, <1>2, <1>3, ParkedTypes
<1> QED
    BY <1>1, <1>4 DEF CoinConserved

(* A step of the bank: coin moves between accounts and the bank, and what  *)
(* is minted reaches an account, the treasury or the fees of the block.    *)
LEMMA BankOnlyStep ==
    ASSUME StateInv, BankSound', SupplyStep, UNCHANGED <<tokenVars, companies>>
    PROVE  CoinConserved'
PROOF
<1>1. Total(CurrencyCoin') = Total(CurrencyCoin) /\ Total(CompanyCoin') = Total(CompanyCoin)
    BY DEF CurrencyCoin, CompanyCoin, tokenVars
<1>2. circulatingSupply + (Total(CurrencyCoin) + Total(CompanyCoin)) = Minted
    BY ParkedCoinIs DEF StateInv, CoinConserved
<1>3. ParkedCoin' = Total(CurrencyCoin') + Total(CompanyCoin')
    BY ParkedCoinIsNext
<1>4. circulatingSupply' \in Nat /\ Minted' \in Nat
    BY SupplyTypesNext DEF BankSound, BankTypeOK
<1>5. circulatingSupply' + ParkedCoin' = Minted'
    BY <1>1, <1>2, <1>3, <1>4, ParkedTypes DEF SupplyStep
<1> QED
    BY <1>5 DEF CoinConserved

LEMMA ContractTxState ==
    ASSUME StateInv, NEW from \in Addr, NEW fee \in Nat, ContractTx(from, fee),
           UNCHANGED <<tokenVars, companies, marketVars, landVars, votes>>
    PROVE  StateInv'
PROOF
<1>1. BankSound' /\ SupplyStep
    BY ContractTxStep DEF StateInv
<1>2. CoinConserved'
    BY <1>1, BankOnlyStep
<1>3. CurrenciesTypeOK' /\ TokensConserved' /\ MarketInv' /\ LandInv'
    BY TokensStay, MarketStays, LandStays DEF StateInv
<1>4. StocksInv' /\ VotesInv'
    BY StocksStay, VotesStay DEF StateInv, tokenVars, landVars
<1> QED
    BY <1>1, <1>2, <1>3, <1>4 DEF StateInv

LEMMA CurrencyTxState ==
    ASSUME StateInv, NEW from \in Addr, NEW fee \in Nat, CurrencyTx(from, fee),
           UNCHANGED <<contracts, companies, marketVars, landVars, votes>>
    PROVE  StateInv'
PROOF
<1>0. LedgerTypeOK /\ CurrenciesTypeOK /\ TokensConserved
    BY DEF StateInv, BankSound, BankTypeOK
<1>1. /\ block.open /\ Landed(from, fee)
      /\ DOMAIN currencies' \cap DOMAIN companies \subseteq
             DOMAIN currencies \cap DOMAIN companies
    BY <1>0, CurrencyTxStep
<1>2. PICK cut \in Nat, parked \in Int : Paid(fee, cut, parked) /\ TokenStep(parked)
    BY <1>0, CurrencyTxStep
<1>3. StocksInv' /\ VotesInv' /\ Total(CompanyCoin') = Total(CompanyCoin)
    BY <1>1, StocksStay, VotesStay DEF StateInv, landVars
<1>4. BankSound' /\ CoinConserved'
  <2>1. Total(CurrencyCoin') + Total(CompanyCoin') =
            Total(CurrencyCoin) + Total(CompanyCoin) + parked
      BY <1>2, <1>3, ParkedTypes DEF TokenStep
  <2> QED
      BY <1>1, <1>2, <2>1, CoinStep
<1>5. MarketInv' /\ LandInv'
    BY MarketStays, LandStays DEF StateInv
<1> QED
    BY <1>2, <1>3, <1>4, <1>5 DEF StateInv, TokenStep

LEMMA MarketTxState ==
    ASSUME StateInv, NEW from \in Addr, NEW fee \in Nat, MarketTx(from, fee),
           UNCHANGED <<contracts, companies, landVars, votes>>
    PROVE  StateInv'
PROOF
<1>0. LedgerTypeOK /\ CurrenciesTypeOK /\ TokensConserved /\ MarketInv
    BY DEF StateInv, BankSound, BankTypeOK
<1>1. /\ block.open /\ Landed(from, fee)
      /\ CurrenciesTypeOK' /\ TokensConserved' /\ currencies' = currencies
    BY <1>0, MarketTxStep
<1>2. PICK cut \in Nat : Paid(fee, cut, 0)
    BY <1>0, MarketTxStep
<1>3. StocksInv' /\ VotesInv' /\ Total(CompanyCoin') = Total(CompanyCoin)
    BY <1>1, StocksStay, VotesStay DEF StateInv, landVars
<1>4. BankSound' /\ CoinConserved'
  <2>1. PICK parked \in Int : parked = 0
      OBVIOUS
  <2>2. Total(CurrencyCoin') + Total(CompanyCoin') =
            Total(CurrencyCoin) + Total(CompanyCoin) + parked
      BY <1>1, <1>3, <2>1, ParkedTypes DEF CurrencyCoin
  <2> QED
      BY <1>1, <1>2, <2>1, <2>2, CoinStep
<1>5. MarketInv' /\ LandInv'
    BY <1>0, MarketTxInv, LandStays DEF StateInv
<1> QED
    BY <1>1, <1>3, <1>4, <1>5 DEF StateInv

LEMMA LandTxState ==
    ASSUME StateInv, NEW from \in Addr, NEW fee \in Nat, LandTx(from, fee),
           UNCHANGED <<contracts, tokenVars, companies, marketVars, votes>>
    PROVE  StateInv'
PROOF
<1>0. LedgerTypeOK /\ LandInv
    BY DEF StateInv, BankSound, BankTypeOK
<1>1. block.open /\ Landed(from, fee) /\ LandInv' /\ DOMAIN servers \subseteq DOMAIN servers'
    BY <1>0, LandTxStep, LandTxInv
<1>2. PICK cut \in Nat : Paid(fee, cut, 0)
    BY <1>0, LandTxStep
<1>3. /\ CurrenciesTypeOK' /\ TokensConserved' /\ MarketInv'
      /\ Total(CurrencyCoin') = Total(CurrencyCoin)
    BY TokensStay, MarketStays DEF StateInv
<1>4. StocksInv' /\ VotesInv' /\ Total(CompanyCoin') = Total(CompanyCoin)
    BY <1>1, StocksStay, VotesStay DEF StateInv, tokenVars
<1>5. BankSound' /\ CoinConserved'
  <2>1. PICK parked \in Int : parked = 0
      OBVIOUS
  <2>2. Total(CurrencyCoin') + Total(CompanyCoin') =
            Total(CurrencyCoin) + Total(CompanyCoin) + parked
      BY <1>3, <1>4, <2>1, ParkedTypes
  <2> QED
      BY <1>1, <1>2, <2>1, <2>2, CoinStep
<1> QED
    BY <1>1, <1>3, <1>4, <1>5 DEF StateInv

LEMMA StocksTxState ==
    ASSUME StateInv, NEW from \in Addr, NEW fee \in Nat, StocksTx(from, fee),
           UNCHANGED <<contracts, tokenVars, marketVars, landVars, votes>>
    PROVE  StateInv'
PROOF
<1>0. LedgerTypeOK /\ LandInv /\ StocksInv /\ currencies' = currencies /\ servers' = servers
    BY DEF StateInv, BankSound, BankTypeOK, tokenVars, landVars
<1>1. block.open /\ Landed(from, fee)
    BY <1>0, StocksTxStep
<1>2. PICK parked \in Int : Paid(fee, 0, parked) /\ StocksStep(parked)
    BY <1>0, StocksTxStep
<1>3. /\ CurrenciesTypeOK' /\ TokensConserved' /\ MarketInv' /\ LandInv' /\ VotesInv'
      /\ Total(CurrencyCoin') = Total(CurrencyCoin)
    BY <1>0, TokensStay, MarketStays, LandStays, VotesStay DEF StateInv
<1>4. BankSound' /\ CoinConserved'
  <2>1. Total(CurrencyCoin') + Total(CompanyCoin') =
            Total(CurrencyCoin) + Total(CompanyCoin) + parked
      BY <1>2, <1>3, ParkedTypes DEF StocksStep
  <2>2. PICK cut \in Nat : cut = 0
      OBVIOUS
  <2> QED
      BY <1>1, <1>2, <2>1, <2>2, CoinStep
<1> QED
    BY <1>2, <1>3, <1>4 DEF StateInv, StocksStep

LEMMA GovernanceTxState ==
    ASSUME StateInv, NEW from \in Addr, NEW fee \in Nat, GovernanceTx(from, fee),
           UNCHANGED <<contracts, tokenVars, companies, marketVars, landVars>>
    PROVE  StateInv'
PROOF
<1>0. /\ LedgerTypeOK /\ LandInv /\ VotesInv
      /\ currencies' = currencies /\ companies' = companies /\ servers' = servers
    BY DEF StateInv, BankSound, BankTypeOK, tokenVars, landVars
<1>1. block.open /\ Landed(from, fee) /\ Paid(fee, 0, 0) /\ VotesInv'
    BY <1>0, GovernanceTxStep, GovernanceTxInv
<1>2. /\ CurrenciesTypeOK' /\ TokensConserved' /\ MarketInv' /\ LandInv' /\ StocksInv'
      /\ Total(CurrencyCoin') = Total(CurrencyCoin) /\ Total(CompanyCoin') = Total(CompanyCoin)
    BY <1>0, TokensStay, MarketStays, LandStays, StocksStay DEF StateInv
<1>3. BankSound' /\ CoinConserved'
  <2>1. PICK parked \in Int, cut \in Nat : parked = 0 /\ cut = 0
      OBVIOUS
  <2>2. Total(CurrencyCoin') + Total(CompanyCoin') =
            Total(CurrencyCoin) + Total(CompanyCoin) + parked
      BY <1>2, <2>1, ParkedTypes
  <2> QED
      BY <1>1, <2>1, <2>2, CoinStep
<1> QED
    BY <1>1, <1>2, <1>3 DEF StateInv

LEMMA ApplyTransactionState ==
    ASSUME StateInv, NEW from \in Addr, NEW fee \in Nat, ApplyTransaction(from, fee)
    PROVE  StateInv'
PROOF BY ContractTxState, CurrencyTxState, MarketTxState, LandTxState, StocksTxState,
         GovernanceTxState DEF ApplyTransaction

(* The bank alone moves at the two ends of a block; votes are swept too.   *)
LEMMA StartBlockState ==
    ASSUME StateInv, NEW ts \in Times, StartBlock(ts)
    PROVE  StateInv'
PROOF
<1>1. BankSound' /\ SupplyStep
    BY BeginBlockStep DEF StateInv, StartBlock
<1>2. CoinConserved'
    BY <1>1, BankOnlyStep DEF StartBlock
<1>3. CurrenciesTypeOK' /\ TokensConserved' /\ MarketInv' /\ LandInv'
    BY TokensStay, MarketStays, LandStays DEF StateInv, StartBlock
<1>4. StocksInv' /\ VotesInv'
    BY StocksStay, VotesStay DEF StateInv, StartBlock, tokenVars, landVars
<1> QED
    BY <1>1, <1>2, <1>3, <1>4 DEF StateInv

LEMMA FinishBlockState ==
    ASSUME StateInv, NEW miner \in Addr, FinishBlock(miner)
    PROVE  StateInv'
PROOF
<1>1. BankSound' /\ SupplyStep
    BY EndBlockStep DEF StateInv, FinishBlock
<1>2. CoinConserved'
    BY <1>1, BankOnlyStep DEF FinishBlock
<1>3. CurrenciesTypeOK' /\ TokensConserved' /\ MarketInv' /\ LandInv'
    BY TokensStay, MarketStays, LandStays DEF StateInv, FinishBlock
<1>4. StocksInv'
    BY StocksStay DEF StateInv, FinishBlock, tokenVars, landVars
<1>5. VotesInv'
    BY SweepInv DEF StateInv, FinishBlock, landVars
<1> QED
    BY <1>1, <1>2, <1>3, <1>4, <1>5 DEF StateInv

LEMMA StateStutter ==
    ASSUME StateInv, UNCHANGED stateVars
    PROVE  StateInv'
PROOF
<1>1. UNCHANGED <<bankVars, tokenVars, companies, marketVars, landVars, votes>>
    BY DEF stateVars, bankVars
<1>2. BankSound' /\ SupplyStep
    BY <1>1, BankStutterSound DEF StateInv
<1>3. CoinConserved'
    BY <1>1, <1>2, BankOnlyStep
<1>4. CurrenciesTypeOK' /\ TokensConserved' /\ MarketInv' /\ LandInv'
    BY <1>1, TokensStay, MarketStays, LandStays DEF StateInv
<1>5. StocksInv' /\ VotesInv'
    BY <1>1, StocksStay, VotesStay DEF StateInv, tokenVars, landVars
<1> QED
    BY <1>2, <1>3, <1>4, <1>5 DEF StateInv

LEMMA StateStepInv ==
    ASSUME StateInv, [StateNext]_stateVars
    PROVE  StateInv'
PROOF
<1>1. CASE \E ts \in Times : StartBlock(ts)
    BY <1>1, StartBlockState
<1>2. CASE \E from \in Addr, fee \in Fees : ApplyTransaction(from, fee)
    BY <1>2, ApplyTransactionState, ConstantTypes
<1>3. CASE \E miner \in Addr : FinishBlock(miner)
    BY <1>3, FinishBlockState
<1>4. CASE UNCHANGED stateVars
    BY <1>4, StateStutter
<1> QED
    BY <1>1, <1>2, <1>3, <1>4 DEF StateNext

LEMMA StateInvariant == StateSpec => []StateInv
PROOF
<1>0. StateInit => StateInv
    BY StateInitInv
<1>1. StateInv /\ [StateNext]_stateVars => StateInv'
    BY StateStepInv
<1> QED
    BY <1>0, <1>1, PTL DEF StateSpec

-----------------------------------------------------------------------------
(* Theorems                                                                *)

(* The tables of every domain keep their shape, whatever transactions are  *)
(* applied in whatever order (applyTransaction, applyBlock in state.js).   *)
THEOREM StateTypeCorrect == StateSpec => []StateTypeOK
PROOF
<1>1. StateInv => StateTypeOK
    BY CurrencyConstants, LandInvImplies, StocksInvImplies, VotesInvImplies
    DEF StateInv, StateTypeOK, BankSound, MarketInv
<1> QED
    BY StateInvariant, <1>1, PTL

(* What circulatingSupply of state.js counts, and the fees of the open     *)
(* block: coin in accounts, bank, pools and treasuries is genesis plus     *)
(* what was minted, whatever the transactions of all domains have done.    *)
THEOREM CoinAlwaysConserved == StateSpec => []CoinConserved
PROOF
<1>1. StateInv => CoinConserved
    BY DEF StateInv
<1> QED
    BY StateInvariant, <1>1, PTL

(* Creation, trades, transfers (CREATE_CURRENCY, BUY, SELL, TRANSFER of    *)
(* state.js) and sales (BUY_LISTING of market.js) neither make nor lose a  *)
(* token of any currency.                                                  *)
THEOREM TokensAlwaysConserved == StateSpec => []TokensConserved
PROOF
<1>1. StateInv => TokensConserved
    BY DEF StateInv
<1> QED
    BY StateInvariant, <1>1, PTL

(* An open listing can be delivered: its items are in custody, name it and *)
(* are the seller's (the handlers of market.js).                           *)
THEOREM SalesCanAlwaysDeliver == StateSpec => []SalesCanDeliver
PROOF
<1>1. StateInv => SalesCanDeliver
    BY DEF StateInv, MarketInv
<1> QED
    BY StateInvariant, <1>1, PTL

(* The tallies kept beside the tables (uuid registry, chunkCount and       *)
(* owners of a server, holderCount and holders of a company) stay exact.   *)
THEOREM TablesAlwaysAgree == StateSpec => []TablesAgree
PROOF
<1>1. StateInv => TablesAgree
    BY LandInvImplies, StocksInvImplies DEF StateInv, MarketInv, TablesAgree
<1> QED
    BY StateInvariant, <1>1, PTL

(* A company never pays out more than it raised, and the shares of a       *)
(* dividend, each rounded down, fit in the treasury they are taken from    *)
(* (PAY_DIVIDEND and COMPANY_PAYOUT of stocks.js).                         *)
THEOREM TreasuryAlwaysPaysWhatItRaised == StateSpec => []TreasuryPaysWhatItRaised
PROOF
<1>1. StateInv => TreasuryPaysWhatItRaised
    BY StocksInvImplies DEF StateInv
<1> QED
    BY StateInvariant, <1>1, PTL

(* The counts of a vote are those of its register of voters, and its       *)
(* result is theirs (CAST_VOTE and processExpirations of state.js).        *)
THEOREM VotesAlwaysCounted == StateSpec => []VotesAreCounted
PROOF
<1>1. StateInv => VotesAreCounted
    BY DEF StateInv, VotesInv
<1> QED
    BY StateInvariant, <1>1, PTL

(* The bank's escrow covers its contracts also among the other domains,    *)
(* which credit the same bank (creditTreasury of bank.js).                 *)
THEOREM EscrowBackedAmongDomains == StateSpec => []EscrowBacked
PROOF
<1>1. StateInv => EscrowBacked
    BY DEF StateInv, BankSound
<1> QED
    BY StateInvariant, <1>1, PTL

LEMMA PoolsStep ==
    ASSUME StateInv, [StateNext]_stateVars, NEW s \in DOMAIN currencies
    PROVE  currencies' = currencies \/ ProductKept(s)
PROOF
<1>0. LedgerTypeOK /\ CurrenciesTypeOK /\ TokensConserved /\ MarketInv
    BY DEF StateInv, BankSound, BankTypeOK
<1>1. ASSUME NEW from \in Addr, NEW fee \in Fees, ApplyTransaction(from, fee)
      PROVE  currencies' = currencies \/ ProductKept(s)
  <2>0. fee \in Nat
      BY ConstantTypes
  <2>1. CASE CurrencyTx(from, fee)
      BY <1>0, <2>0, <2>1, CurrencyTxStep
  <2>2. CASE MarketTx(from, fee)
      BY <1>0, <2>0, <2>2, MarketTxStep
  <2>3. CASE UNCHANGED tokenVars
      BY <2>3 DEF tokenVars
  <2> QED
      BY <1>1, <2>1, <2>2, <2>3 DEF ApplyTransaction
<1> QED
    BY <1>1 DEF StateNext, StartBlock, FinishBlock, stateVars, tokenVars

(* No trade takes value out of a pool (swapOutput of ledger.js, rounding   *)
(* included): the product of its reserves never falls.                     *)
THEOREM PoolsAlwaysKeepTheirProduct == StateSpec => PoolsKeepTheirProduct
PROOF
<1>1. StateInv /\ [StateNext]_stateVars =>
          [\A s \in DOMAIN currencies :
              currencies'[s].reserveNative * currencies'[s].reserveToken >=
                  currencies[s].reserveNative * currencies[s].reserveToken]_tokenVars
  <2> SUFFICES ASSUME StateInv, [StateNext]_stateVars, NEW s \in DOMAIN currencies
               PROVE  currencies'[s].reserveNative * currencies'[s].reserveToken >=
                          currencies[s].reserveNative * currencies[s].reserveToken
      OBVIOUS
  <2>1. currencies[s].reserveNative * currencies[s].reserveToken \in Nat
    <3>1. currencies[s].reserveNative \in Nat /\ currencies[s].reserveToken \in Nat
        BY DEF StateInv, CurrenciesTypeOK, Currency
    <3> QED
        BY <3>1, MulNat
  <2>2. CASE currencies' = currencies
      BY <2>1, <2>2
  <2> QED
      BY <2>2, PoolsStep DEF ProductKept
<1> QED
    BY StateInvariant, <1>1, PTL DEF StateSpec, PoolsKeepTheirProduct

LEMMA GoodsStep ==
    ASSUME StateInv, [StateNext]_stateVars
    PROVE  /\ UNCHANGED marketVars \/ \E from \in Addr, fee \in Nat : MarketTx(from, fee)
           /\ UNCHANGED landVars \/ \E from \in Addr, fee \in Nat : LandTx(from, fee)
           /\ \/ UNCHANGED votes
              \/ \E from \in Addr, fee \in Nat : GovernanceTx(from, fee)
              \/ \E ts \in Nat : votes' = VotesSwept(ts)
PROOF
<1>1. ASSUME NEW from \in Addr, NEW fee \in Fees, ApplyTransaction(from, fee)
      PROVE  /\ UNCHANGED marketVars \/ MarketTx(from, fee)
             /\ UNCHANGED landVars \/ LandTx(from, fee)
             /\ UNCHANGED votes \/ GovernanceTx(from, fee)
    BY <1>1 DEF ApplyTransaction
<1>2. CASE \E from \in Addr, fee \in Fees : ApplyTransaction(from, fee)
    BY <1>1, <1>2, ConstantTypes
<1>3. CASE \E miner \in Addr : FinishBlock(miner)
  <2>1. block.timestamp \in Nat
      BY LedgerFields DEF StateInv, BankSound, BankTypeOK
  <2> QED
      BY <1>3, <2>1 DEF FinishBlock
<1>4. CASE UNCHANGED stateVars \/ \E ts \in Times : StartBlock(ts)
    BY <1>4 DEF stateVars, StartBlock
<1> QED
    BY <1>2, <1>3, <1>4 DEF StateNext

(* Items and deeds leave their owner by the owner's signature, or for the  *)
(* price asked, paid in full less the market's cut, to a buyer who has     *)
(* signed (BUY_LISTING and WITHDRAW_INVENTORY of market.js, BUY_CHUNK and  *)
(* TRANSFER_CHUNK of land.js).                                             *)
THEOREM GoodsAlwaysMoveBySaleOrGift == StateSpec => GoodsMoveBySaleOrGift
PROOF
<1>0. StateInv => LedgerTypeOK /\ CurrenciesTypeOK /\ MarketInv /\ LandInv
    BY DEF StateInv, BankSound, BankTypeOK
<1>1. StateInv /\ [StateNext]_stateVars =>
          [\A id \in DOMAIN inventories :
              LET inv  == inventories[id]
                  sale == listings[inv.listingId]
              IN  /\ inv.claimed => inventories'[id] = inv
                  /\ inventories'[id].owner # inv.owner =>
                        /\ inv.listingId # None
                        /\ nonce'[inventories'[id].owner] = nonce[inventories'[id].owner] + 1
                        /\ Held(balance', tokens', inv.owner, sale.symbol) =
                              Held(balance, tokens, inv.owner, sale.symbol) + sale.price
                                  - FeeOf(sale.price, MARKET_FEE_BPS)]_marketVars
    BY <1>0, GoodsStep, MarketTxItems
<1>2. StateInv /\ [StateNext]_stateVars =>
          [\A key \in DOMAIN chunks :
              LET old == chunks[key]
                  new == chunks'[key]
              IN  /\ key \in DOMAIN chunks'
                  /\ new.owner # old.owner =>
                        /\ ~ new.forSale
                        /\ \/ nonce'[old.owner] > nonce[old.owner]
                           \/ /\ old.forSale
                              /\ nonce'[new.owner] > nonce[new.owner]
                              /\ balance'[old.owner] =
                                    balance[old.owner] + old.price
                                        - FeeOf(old.price, LAND_FEE_BPS)]_landVars
    BY <1>0, GoodsStep, LandTxDeeds
<1> QED
    BY StateInvariant, <1>1, <1>2, PTL
    DEF StateSpec, GoodsMoveBySaleOrGift, ItemsMoveBySale, DeedsMoveBySaleOrGift

(* A choice is cast once, by its voter's signature, and stands; a result   *)
(* stands whatever is applied later (CAST_VOTE, processExpirations).       *)
THEOREM VotesAreAlwaysFinal == StateSpec => VotesAreFinal
PROOF
<1>1. StateInv /\ [StateNext]_stateVars =>
          [\A id \in DOMAIN votes :
              LET old == votes[id]
                  new == votes'[id]
              IN  /\ ~ old.running => new = old
                  /\ \A a \in DOMAIN new.voters :
                        IF a \in DOMAIN old.voters
                        THEN new.voters[a] = old.voters[a]
                        ELSE nonce'[a] = nonce[a] + 1]_votes
  <2> SUFFICES ASSUME StateInv, [StateNext]_stateVars, ~ UNCHANGED votes,
                      NEW id \in DOMAIN votes
               PROVE  FinalStep(id)
      BY DEF FinalStep
  <2>1. LedgerTypeOK /\ VotesInv
      BY DEF StateInv, BankSound, BankTypeOK
  <2> QED
      BY <2>1, GoodsStep, GovernanceTxFinal, SweepFinal
<1> QED
    BY StateInvariant, <1>1, PTL DEF StateSpec, VotesAreFinal
=============================================================================
