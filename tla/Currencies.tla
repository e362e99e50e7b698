----------------------------- MODULE Currencies -----------------------------
(***************************************************************************)
(* Tokens and the pools they trade against (core/state.js CREATE_CURRENCY, *)
(* BUY, SELL and TRANSFER of a token; the token and asset primitives and   *)
(* the constant-product curve of core/ledger.js).                          *)
(***************************************************************************)
EXTENDS Ledger

CONSTANTS
    NATIVE,                  \* the ticker of the native coin
    Symbols,                 \* the tickers tokens may take
    Supplies,                \* the total supplies currencies are created with
    Liquidities,             \* the native coin their pools are seeded with
    TradeSizes,              \* the amounts traded and transferred
    MinOuts,                 \* the slippage bounds traders set
    CREATOR_SUPPLY_BPS,
    SWAP_FEE_BPS

ASSUME CurrenciesAssumption ==
    /\ IsFiniteSet(Symbols) /\ NATIVE \notin Symbols
    /\ Supplies \cup Liquidities \cup TradeSizes \subseteq Nat \ {0}
    /\ MinOuts \subseteq Nat
    /\ {CREATOR_SUPPLY_BPS, SWAP_FEE_BPS} \subseteq 0..BPS

VARIABLES
    tokens,          \* [Symbols -> [Addr -> Nat]]: account.tokens
    treasuryTokens,  \* [Symbols -> Nat]: bank.tokens, the fees held in tokens
    currencies,      \* symbol -> currency and its pool
    companies        \* symbol -> company (Stocks): tokens and stock share tickers

tokenVars == <<tokens, treasuryTokens, currencies>>

-----------------------------------------------------------------------------
(* Assets: native coin or a token                                          *)

Exists(symbol) == symbol = NATIVE \/ symbol \in DOMAIN currencies

(* A payment of amount by from in any asset, of which the bank takes cut   *)
(* and to the rest, on top of the fee for the miner.                       *)
Pay(from, fee, to, symbol, amount, cut) ==
    IF symbol = NATIVE
    THEN /\ CanPay(from, fee, amount)
         /\ balance' = Plus(Minus(balance, from, fee + amount), to, amount - cut)
         /\ Fits(balance'[to])
         /\ bank' = creditTreasury(bank, cut)
         /\ Fits(bank'.treasury)
         /\ UNCHANGED <<tokens, treasuryTokens>>
    ELSE /\ CanPay(from, fee, 0)
         /\ tokens[symbol][from] >= amount
         /\ balance' = Minus(balance, from, fee)
         /\ tokens' = [tokens EXCEPT ![symbol] = Plus(Minus(@, from, amount), to, amount - cut)]
         /\ Fits(tokens'[symbol][to])
         /\ treasuryTokens' = Plus(treasuryTokens, symbol, cut)
         /\ Fits(treasuryTokens'[symbol])
         /\ UNCHANGED bank

-----------------------------------------------------------------------------
(* Transactions                                                            *)

CreateCurrency(from, fee, symbol, supply, liquidity) ==
    LET creatorShare == FeeOf(supply, CREATOR_SUPPLY_BPS)
    IN  /\ CanPay(from, fee, liquidity)
        /\ symbol \notin DOMAIN currencies \cup DOMAIN companies
        /\ supply > creatorShare
        /\ balance' = Minus(balance, from, fee + liquidity)
        /\ currencies' = With(currencies, symbol,
               [owner |-> from, totalSupply |-> supply,
                reserveNative |-> liquidity, reserveToken |-> supply - creatorShare])
        /\ tokens' = [tokens EXCEPT ![symbol] = Plus(@, from, creatorShare)]
        /\ Landed(from, fee)
        /\ UNCHANGED <<bank, treasuryTokens>>

(* Mutant of Bought: the whole reserve is quoted, not what it becomes.     *)
BoughtAtSpot(pool, amountIn) ==
    LET out == (pool.reserveToken * amountIn) \div pool.reserveNative
    IN  IF out < pool.reserveToken THEN out ELSE 0

(* What a purchase, or a sale, takes out of the pool; 0 when it throws.    *)
Bought(pool, amountIn) ==
    AmountOut(amountIn, pool.reserveNative, pool.reserveToken, SWAP_FEE_BPS)

Sold(pool, amountIn) ==
    AmountOut(amountIn, pool.reserveToken, pool.reserveNative, SWAP_FEE_BPS)

(* The pool after a purchase.                                              *)
Purchased(pool, amountIn, out) ==
    [pool EXCEPT !.reserveNative = @ + amountIn, !.reserveToken = @ - out]

Buy(from, fee, symbol, amountIn, minOut) ==
    LET out == Bought(currencies[symbol], amountIn)
    IN  /\ CanPay(from, fee, amountIn)
        /\ out > 0 /\ out >= minOut
        /\ balance' = Minus(balance, from, fee + amountIn)
        /\ currencies' = [currencies EXCEPT ![symbol] = Purchased(@, amountIn, out)]
        /\ Fits(currencies'[symbol].reserveNative)
        /\ tokens' = [tokens EXCEPT ![symbol] = Plus(@, from, out)]
        /\ Fits(tokens'[symbol][from])
        /\ Landed(from, fee)
        /\ UNCHANGED <<bank, treasuryTokens>>

(* Mutant of Returned: the coin is paid out and stays in the pool.         *)
ReturnedKeepingCoin(pool, amountIn, out) == [pool EXCEPT !.reserveToken = @ + amountIn]

(* Mutant of Returned: what is sold does not reach the pool.               *)
ReturnedWithoutTokens(pool, amountIn, out) == [pool EXCEPT !.reserveNative = @ - out]

(* The pool after a sale.                                                  *)
Returned(pool, amountIn, out) ==
    [pool EXCEPT !.reserveToken = @ + amountIn, !.reserveNative = @ - out]

Sell(from, fee, symbol, amountIn, minOut) ==
    LET out == Sold(currencies[symbol], amountIn)
    IN  /\ CanPay(from, fee, 0)
        /\ tokens[symbol][from] >= amountIn
        /\ out > 0 /\ out >= minOut
        /\ balance' = Plus(Minus(balance, from, fee), from, out)
        /\ Fits(balance'[from])
        /\ currencies' = [currencies EXCEPT ![symbol] = Returned(@, amountIn, out)]
        /\ Fits(currencies'[symbol].reserveToken)
        /\ tokens' = [tokens EXCEPT ![symbol] = Minus(@, from, amountIn)]
        /\ Landed(from, fee)
        /\ UNCHANGED <<bank, treasuryTokens>>

(* TRANSFER, of native coin or of a token.                                 *)
TransferAsset(from, fee, to, symbol, amount) ==
    /\ to # from
    /\ Exists(symbol)
    /\ Pay(from, fee, to, symbol, amount, 0)
    /\ Landed(from, fee)
    /\ UNCHANGED currencies

-----------------------------------------------------------------------------

CurrenciesInit ==
    /\ tokens = [s \in Symbols |-> [a \in Addr |-> 0]]
    /\ treasuryTokens = [s \in Symbols |-> 0]
    /\ currencies = << >>

CurrencyTx(from, fee) ==
    \/ \E s \in Symbols, supply \in Supplies, l \in Liquidities :
          CreateCurrency(from, fee, s, supply, l)
    \/ \E s \in DOMAIN currencies, n \in TradeSizes, minOut \in MinOuts :
          \/ Buy(from, fee, s, n, minOut)
          \/ Sell(from, fee, s, n, minOut)
    \/ \E to \in Addr, s \in Symbols \cup {NATIVE}, n \in TradeSizes :
          TransferAsset(from, fee, to, s, n)

-----------------------------------------------------------------------------
(* Properties                                                              *)

Currency == [owner : Addr, totalSupply : Nat, reserveNative : Nat, reserveToken : Nat]

CurrenciesTypeOK ==
    /\ tokens \in [Symbols -> [Addr -> Nat]]
    /\ treasuryTokens \in [Symbols -> Nat]
    /\ DOMAIN currencies \subseteq Symbols
    /\ currencies \in [DOMAIN currencies -> Currency]

(* Every token is somewhere: what accounts, the bank and the pool hold of  *)
(* a currency is its supply, through trades, transfers and fees; and none  *)
(* circulates before its currency exists.                                  *)
TokensConserved ==
    \A s \in Symbols :
        Total(tokens[s]) + treasuryTokens[s] =
            IF s \in DOMAIN currencies
            THEN currencies[s].totalSupply - currencies[s].reserveToken ELSE 0

(* No sequence of trades takes value out of a pool: the product of its     *)
(* reserves never decreases, whoever trades, in whatever order. So neither *)
(* reserve is ever drained, and rounding never works for the trader.       *)
PoolsKeepTheirProduct ==
    [][\A s \in DOMAIN currencies :
          currencies'[s].reserveNative * currencies'[s].reserveToken >=
              currencies[s].reserveNative * currencies[s].reserveToken]_tokenVars
=============================================================================
