------------------------------- MODULE Amounts -------------------------------
(***************************************************************************)
(* The integer arithmetic every ledger handler is built from               *)
(* (core/ledger.js): how much coin a set of accounts, escrows or pools     *)
(* holds together, basis-point fees and the constant-product price.        *)
(*                                                                         *)
(* Total is defined without recursion, as the number of coins, so that     *)
(* the laws of sums in StateProofs can be proved for every finite table.  *)
(***************************************************************************)
EXTENDS Integers, FiniteSets

(* One element for every coin that table f records under key x.            *)
UnitsAt(f, x) == {x} \X (1..f[x])

Units(f) == UNION {UnitsAt(f, x) : x \in DOMAIN f}

(* The sum of a table of amounts: Object.values(table).reduce((a, b) => a + b). *)
Total(f) == Cardinality(Units(f))

(* The table f with amount n added to, or taken from, the entry of key x.  *)
Plus(f, x, n) == [f EXCEPT ![x] = @ + n]

Minus(f, x, n) == [f EXCEPT ![x] = @ - n]

-----------------------------------------------------------------------------

BPS == 10000

(* feeOf: the part of an amount that bps basis points stand for, rounded down. *)
FeeOf(amount, bps) == (amount * bps) \div BPS

(* What is left of an input after the swap fee, rounded down. *)
InAfterFee(amountIn, feeBps) == (amountIn * (BPS - feeBps)) \div BPS

(* amountOut: the output of a constant-product swap; a result of 0 stands    *)
(* for every way the function throws (an empty pool, a trade that is too     *)
(* small, one that gives nothing, one that would drain the reserve).         *)
AmountOut(amountIn, reserveIn, reserveOut, feeBps) ==
    LET in  == InAfterFee(amountIn, feeBps)
        out == (reserveOut * in) \div (reserveIn + in)
    IN  IF reserveIn > 0 /\ reserveOut > 0 /\ in > 0 /\ out < reserveOut
        THEN out
        ELSE 0
=============================================================================
