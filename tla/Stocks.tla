------------------------------- MODULE Stocks -------------------------------
(***************************************************************************)
(* Companies, their stock and their treasuries (core/stocks.js). Shares    *)
(* trade against a constant-product pool as tokens do, but a part of every *)
(* purchase goes to the treasury, which the ceo pays out or shares out.    *)
(***************************************************************************)
EXTENDS Currencies, Land

CONSTANTS
    ShareCounts,                \* the share counts companies are founded with
    COMPANY_TREASURY_BPS,
    FOUNDER_SHARE_BPS,
    MAX_COMPANY_HOLDERS

ASSUME StocksAssumption ==
    /\ ShareCounts \subseteq Nat \ {0}
    /\ {COMPANY_TREASURY_BPS, FOUNDER_SHARE_BPS} \subseteq 0..BPS
    /\ MAX_COMPANY_HOLDERS \in Nat \ {0}

-----------------------------------------------------------------------------
(* The table of shareholders                                               *)

sharesOf(company, a) == IF a \in DOMAIN company.holders THEN company.holders[a] ELSE 0

(* creditShares throws when a new holder finds the table full.             *)
HasSeat(company, a, amount) ==
    amount > 0 /\ sharesOf(company, a) = 0 => company.holderCount < MAX_COMPANY_HOLDERS

creditShares(company, a, amount) ==
    IF amount = 0 THEN company
    ELSE [company EXCEPT
             !.holders = With(@, a, sharesOf(company, a) + amount),
             !.holderCount = IF sharesOf(company, a) = 0 THEN @ + 1 ELSE @]

(* Mutant of debitShares: a holder who sold everything is still counted.   *)
debitSharesKeepingCount(company, a, amount) ==
    LET left == sharesOf(company, a) - amount
    IN  [company EXCEPT !.holders = IF left = 0 THEN Without(@, a) ELSE With(@, a, left)]

debitShares(company, a, amount) ==
    LET left == sharesOf(company, a) - amount
    IN  IF left = 0
        THEN [company EXCEPT !.holders = Without(@, a), !.holderCount = @ - 1]
        ELSE [company EXCEPT !.holders = With(@, a, left)]

outstandingShares(company) == company.totalShares - company.reserveShares

-----------------------------------------------------------------------------
(* Transactions                                                            *)

CreateCompany(from, fee, symbol, serverId, total, liquidity) ==
    LET founderShares == FeeOf(total, FOUNDER_SHARE_BPS)
        company == [ceo |-> from, serverId |-> serverId, totalShares |-> total,
                    reserveNative |-> liquidity, reserveShares |-> total - founderShares,
                    treasury |-> 0, treasuryRaised |-> 0, dividendsPaid |-> 0,
                    holders |-> << >>, holderCount |-> 0]
    IN  /\ symbol \notin DOMAIN currencies \cup DOMAIN companies
        /\ total > founderShares
        /\ CanPay(from, fee, liquidity)
        /\ balance' = Minus(balance, from, fee + liquidity)
        /\ companies' = With(companies, symbol, creditShares(company, from, founderShares))
        /\ Landed(from, fee)
        /\ UNCHANGED bank

BuyShares(from, fee, symbol, amountIn, minOut) ==
    LET company    == companies[symbol]
        toTreasury == FeeOf(amountIn, COMPANY_TREASURY_BPS)
        toPool     == amountIn - toTreasury
        out        == AmountOut(toPool, company.reserveNative, company.reserveShares, SWAP_FEE_BPS)
        paid       == [company EXCEPT !.reserveNative = @ + toPool, !.reserveShares = @ - out,
                                      !.treasury = @ + toTreasury, !.treasuryRaised = @ + toTreasury]
    IN  /\ out > 0 /\ out >= minOut
        /\ CanPay(from, fee, amountIn)
        /\ balance' = Minus(balance, from, fee + amountIn)
        /\ HasSeat(company, from, out)
        /\ Fits(paid.reserveNative) /\ Fits(paid.treasuryRaised)
        /\ companies' = [companies EXCEPT ![symbol] = creditShares(paid, from, out)]
        /\ Landed(from, fee)
        /\ UNCHANGED bank

SellShares(from, fee, symbol, amountIn, minOut) ==
    LET company == companies[symbol]
        out     == AmountOut(amountIn, company.reserveShares, company.reserveNative, SWAP_FEE_BPS)
    IN  /\ out > 0 /\ out >= minOut
        /\ CanPay(from, fee, 0)
        /\ sharesOf(company, from) >= amountIn
        /\ balance' = Plus(Minus(balance, from, fee), from, out)
        /\ Fits(balance'[from])
        /\ companies' = [companies EXCEPT ![symbol] =
               [debitShares(company, from, amountIn) EXCEPT !.reserveShares = @ + amountIn,
                                                            !.reserveNative = @ - out]]
        /\ Landed(from, fee)
        /\ UNCHANGED bank

TransferShares(from, fee, symbol, to, amount) ==
    LET debited == debitShares(companies[symbol], from, amount)
    IN  /\ to # from
        /\ sharesOf(companies[symbol], from) >= amount
        /\ PayFee(from, fee)
        /\ HasSeat(debited, to, amount)
        /\ companies' = [companies EXCEPT ![symbol] = creditShares(debited, to, amount)]

(* The ceo spends amount of the treasury.                                  *)
CompanyPayout(from, fee, symbol, to, amount) ==
    /\ companies[symbol].ceo = from
    /\ companies[symbol].treasury >= amount
    /\ CanPay(from, fee, 0)
    /\ balance' = Plus(Minus(balance, from, fee), to, amount)
    /\ Fits(balance'[to])
    /\ companies' = [companies EXCEPT ![symbol].treasury = @ - amount]
    /\ Landed(from, fee)
    /\ UNCHANGED bank

(* Mutant of Cut: the parts are rounded up.                                *)
CutRoundedUp(company, amount, a) ==
    (amount * sharesOf(company, a) + outstandingShares(company) - 1)
        \div outstandingShares(company)

(* A holder's part of a dividend, rounded down.                            *)
Cut(company, amount, a) == (amount * sharesOf(company, a)) \div outstandingShares(company)

(* What all holders receive; the dust stays in the treasury.               *)
Distributed(company, amount) ==
    Total([a \in DOMAIN company.holders |-> Cut(company, amount, a)])

PayDividend(from, fee, symbol, amount) ==
    LET company == companies[symbol]
    IN  /\ company.ceo = from
        /\ company.treasury >= amount
        /\ outstandingShares(company) > 0
        /\ CanPay(from, fee, 0)
        /\ balance' = [a \in Addr |-> Minus(balance, from, fee)[a] + Cut(company, amount, a)]
        /\ AllFit(balance')
        /\ companies' = [companies EXCEPT
               ![symbol].treasury = @ - Distributed(company, amount),
               ![symbol].dividendsPaid = @ + Distributed(company, amount)]
        /\ Fits(companies'[symbol].dividendsPaid)
        /\ Landed(from, fee)
        /\ UNCHANGED bank

-----------------------------------------------------------------------------

StocksInit == companies = << >>

StocksTx(from, fee) ==
    \/ \E s \in Symbols, server \in DOMAIN servers \cup {None},
          total \in ShareCounts, l \in Liquidities :
          CreateCompany(from, fee, s, server, total, l)
    \/ \E s \in DOMAIN companies, n \in TradeSizes :
          \/ \E minOut \in MinOuts :
                \/ BuyShares(from, fee, s, n, minOut)
                \/ SellShares(from, fee, s, n, minOut)
          \/ \E to \in Addr :
                \/ TransferShares(from, fee, s, to, n)
                \/ CompanyPayout(from, fee, s, to, n)
          \/ PayDividend(from, fee, s, n)

-----------------------------------------------------------------------------
(* Properties                                                              *)

AmountFields == {"totalShares", "reserveNative", "reserveShares", "treasury",
            "treasuryRaised", "dividendsPaid", "holderCount"}

StocksTypeOK ==
    /\ DOMAIN companies \subseteq Symbols
    /\ \A s \in DOMAIN companies :
          /\ companies[s].ceo \in Addr
          /\ companies[s].serverId \in DOMAIN servers \cup {None}
          /\ \A field \in AmountFields : companies[s][field] \in Nat
          /\ DOMAIN companies[s].holders \subseteq Addr
          /\ \A a \in DOMAIN companies[s].holders : companies[s].holders[a] \in Nat \ {0}

(* The one table of shares is complete and bounded: every share is with a  *)
(* holder or in the pool, the count of holders is that of the table (it is *)
(* walked in full by every dividend) and no symbol is also a token.        *)
ShareTableExact ==
    /\ DOMAIN companies \cap DOMAIN currencies = {}
    /\ \A s \in DOMAIN companies :
          /\ Total(companies[s].holders) = outstandingShares(companies[s])
          /\ companies[s].holderCount = Cardinality(DOMAIN companies[s].holders)
          /\ companies[s].holderCount <= MAX_COMPANY_HOLDERS

(* "The total paid can never exceed what was declared": a dividend of the  *)
(* whole treasury, the largest that can be declared, pays the holders no   *)
(* more than it holds; so over the life of a company what it pays out and  *)
(* what it has left are never more than it raised from investors.          *)
TreasuryPaysWhatItRaised ==
    \A s \in DOMAIN companies :
        LET company == companies[s]
        IN  /\ company.dividendsPaid + company.treasury <= company.treasuryRaised
            /\ outstandingShares(company) > 0 =>
                  Distributed(company, company.treasury) <= company.treasury
=============================================================================
