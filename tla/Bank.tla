-------------------------------- MODULE Bank --------------------------------
(***************************************************************************)
(* The bank and the contracts it holds coin for (core/bank.js).            *)
(*                                                                         *)
(*     proposed --accept--> active --resolve / expire--> settled           *)
(*        +--reject / cancel / expire--> refunded                          *)
(*                                                                         *)
(* The cost of a contract leaves its contracter when it is proposed; it is *)
(* held as bank.pending until the contractee accepts, as bank.vault after. *)
(***************************************************************************)
EXTENDS Ledger

CONSTANTS
    Costs,                      \* the costs contracts are proposed with
    Durations,                  \* their durationMs
    CONTRACT_ACCEPT_WINDOW,
    MAX_CONTRACT_DURATION,
    BANK_INTEREST_APR_BPS,
    MS_PER_YEAR,
    Horizon                     \* bound: no deadline lies beyond this time

ASSUME BankAssumption ==
    /\ Costs \subseteq Nat \ {0}
    /\ Durations \subseteq Nat
    /\ CONTRACT_ACCEPT_WINDOW \in Nat
    /\ MAX_CONTRACT_DURATION \in Nat
    /\ BANK_INTEREST_APR_BPS \in Nat
    /\ MS_PER_YEAR \in Nat \ {0}
    /\ Horizon \in Nat

VARIABLE contracts      \* contract id -> contract, ids being transaction ids

bankVars == <<ledgerVars, contracts>>

-----------------------------------------------------------------------------

Never == -1             \* a time that has not come: null in the code

Contract ==
    [contracter : Addr, contractee : Addr, cost : Nat,
     status : {"proposed", "active", "settled", "rejected", "cancelled", "expired"},
     durationMs : Nat, acceptDeadline : Nat,
     acceptedAt : Nat \cup {Never}, endTime : Nat \cup {Never},
     settledAt : Nat \cup {Never}, interest : Nat]

accruedInterest(principal, elapsed) ==
    LET capped == IF elapsed < MAX_CONTRACT_DURATION THEN elapsed ELSE MAX_CONTRACT_DURATION
    IN  IF elapsed <= 0 THEN 0
        ELSE (principal * BANK_INTEREST_APR_BPS * capped) \div (BPS * MS_PER_YEAR)

(* The interest a contract has earned the bank when it closes at time ts.  *)
Earned(c, ts) ==
    IF c.status = "active" THEN accruedInterest(c.cost, ts - c.acceptedAt) ELSE 0

(* Mutant of Closed: the contract does not keep what it earned.             *)
ClosedWithoutInterest(c, status, ts) == [c EXCEPT !.status = status, !.settledAt = ts]

(* refundContract and settleContract, on the contract itself.              *)
Closed(c, status, ts) ==
    [c EXCEPT !.status = status, !.settledAt = ts, !.interest = Earned(c, ts)]

(* Mutant of Settled: the principal is paid out and stays in the vault.     *)
SettledKeepingVault(b, cost, interest) ==
    [b EXCEPT !.treasury = @ + interest, !.interestPaid = @ + interest]

(* Mutant of Settled: interest reaches the treasury without being recorded. *)
SettledOffTheRecord(b, cost, interest) ==
    [b EXCEPT !.vault = @ - cost, !.treasury = @ + interest]

(* settleContract, on the bank: the principal leaves the vault and the     *)
(* interest is minted to the treasury.                                     *)
Settled(b, cost, interest) ==
    [b EXCEPT !.vault = @ - cost, !.treasury = @ + interest, !.interestPaid = @ + interest]

(* Mutant of Refunded: a proposal is refunded out of the vault.             *)
RefundedFromVault(b, cost) == [b EXCEPT !.vault = @ - cost]

(* refundContract, on the bank. *)
Refunded(b, cost) == [b EXCEPT !.pending = @ - cost]

-----------------------------------------------------------------------------
(* Transactions. Each takes the sender and the fee it pays.                *)

CreateContract(from, fee, contractee, cost, duration) ==
    LET ts == block.timestamp
        id == TxId(from)
    IN  /\ CanPay(from, fee, cost)
        /\ id \notin DOMAIN contracts
        /\ contractee # from
        /\ ts + CONTRACT_ACCEPT_WINDOW + duration <= Horizon
        /\ balance' = Minus(balance, from, fee + cost)
        /\ bank' = [bank EXCEPT !.pending = @ + cost]
        /\ Fits(bank'.pending)
        /\ contracts' = With(contracts, id,
               [contracter |-> from, contractee |-> contractee, cost |-> cost,
                status |-> "proposed", durationMs |-> duration,
                acceptDeadline |-> ts + CONTRACT_ACCEPT_WINDOW,
                acceptedAt |-> Never, endTime |-> Never, settledAt |-> Never,
                interest |-> 0])
        /\ Landed(from, fee)

AcceptContract(from, fee, id) ==
    LET c == contracts[id]
    IN  /\ CanPay(from, fee, 0)
        /\ c.status = "proposed"
        /\ c.contractee = from
        /\ block.timestamp < c.acceptDeadline
        /\ balance' = Minus(balance, from, fee)
        /\ bank' = [bank EXCEPT !.pending = @ - c.cost, !.vault = @ + c.cost]
        /\ Fits(bank'.vault)
        /\ contracts' = [contracts EXCEPT ![id] =
               [c EXCEPT !.status = "active", !.acceptedAt = block.timestamp,
                         !.endTime = block.timestamp + c.durationMs]]
        /\ Landed(from, fee)

(* refundContract, as the handlers of one transaction reach it.            *)
Refund(from, fee, id, status) ==
    LET c == contracts[id]
    IN  /\ CanPay(from, fee, 0)
        /\ c.status = "proposed"
        /\ balance' = Plus(Minus(balance, from, fee), c.contracter, c.cost)
        /\ Fits(balance'[c.contracter])
        /\ bank' = Refunded(bank, c.cost)
        /\ contracts' = [contracts EXCEPT ![id] = Closed(c, status, block.timestamp)]
        /\ Landed(from, fee)

RejectContract(from, fee, id) ==
    /\ contracts[id].contractee = from
    /\ Refund(from, fee, id, "rejected")

CancelContract(from, fee, id) ==
    /\ contracts[id].contracter = from
    /\ Refund(from, fee, id, "cancelled")

ResolveContract(from, fee, id) ==
    LET c == contracts[id]
        interest == Earned(c, block.timestamp)
    IN  /\ CanPay(from, fee, 0)
        /\ c.status = "active"
        /\ c.contracter = from
        /\ balance' = Plus(Minus(balance, from, fee), c.contractee, c.cost)
        /\ Fits(balance'[c.contractee])
        /\ bank' = Settled(bank, c.cost, interest)
        /\ AllFit(bank')
        /\ contracts' = [contracts EXCEPT ![id] = Closed(c, "settled", block.timestamp)]
        /\ Landed(from, fee)

-----------------------------------------------------------------------------
(* processExpirations, at the end of every block.                          *)

(* Mutant of Overdue: a deadline that is reached exactly has not passed.     *)
OverdueStrictly(c, ts) ==
    \/ c.status = "proposed" /\ ts > c.acceptDeadline
    \/ c.status = "active" /\ ts > c.endTime

(* Mutant of Overdue: the status of the contract is not looked at.          *)
OverdueAnyStatus(c, ts) == ts >= c.acceptDeadline

(* Mutant of Overdue: a proposal waits for its answer without limit.        *)
OverdueActive(c, ts) == c.status = "active" /\ ts >= c.endTime

Overdue(c, ts) ==
    \/ c.status = "proposed" /\ ts >= c.acceptDeadline
    \/ c.status = "active" /\ ts >= c.endTime

(* Who the coin of a contract belongs to when its time runs out.           *)
Payee(c) == IF c.status = "proposed" THEN c.contracter ELSE c.contractee

(* The part of a contract's cost that the sweep at ts moves, by status.    *)
Swept(c, ts, status) == IF Overdue(c, ts) /\ c.status = status THEN c.cost ELSE 0

SweepOf(status) ==
    [id \in DOMAIN contracts |-> Swept(contracts[id], block.timestamp, status)]

SweptCoin ==
    [id \in DOMAIN contracts |->
        IF Overdue(contracts[id], block.timestamp) THEN contracts[id].cost ELSE 0]

SweptInterest ==
    [id \in DOMAIN contracts |->
        IF Overdue(contracts[id], block.timestamp)
        THEN Earned(contracts[id], block.timestamp) ELSE 0]

(* Mutant of Payouts: time running out always pays the contracter.          *)
PayoutsToContracter ==
    [a \in Addr |-> Total([id \in DOMAIN contracts |->
                        IF contracts[id].contracter = a THEN SweptCoin[id] ELSE 0])]

Payouts ==
    [a \in Addr |-> Total([id \in DOMAIN contracts |->
                        IF Payee(contracts[id]) = a THEN SweptCoin[id] ELSE 0])]

EndBlock(miner) ==
    LET ts       == block.timestamp
        interest == Total(SweptInterest)
    IN  /\ CloseBlock(miner, Payouts,
               [pending      |-> bank.pending - Total(SweepOf("proposed")),
                vault        |-> bank.vault - Total(SweepOf("active")),
                treasury     |-> bank.treasury + interest,
                interestPaid |-> bank.interestPaid + interest])
        /\ contracts' = [id \in DOMAIN contracts |->
               LET c == contracts[id]
               IN  IF Overdue(c, ts)
                   THEN Closed(c, IF c.status = "proposed" THEN "expired" ELSE "settled", ts)
                   ELSE c]

-----------------------------------------------------------------------------

BankInit == LedgerInit /\ contracts = << >>

ContractTx(from, fee) ==
    \/ \E to \in Addr, cost \in Costs, d \in Durations : CreateContract(from, fee, to, cost, d)
    \/ \E id \in DOMAIN contracts :
          \/ AcceptContract(from, fee, id)
          \/ RejectContract(from, fee, id)
          \/ CancelContract(from, fee, id)
          \/ ResolveContract(from, fee, id)

BankNext ==
    \/ \E ts \in Times : BeginBlock(ts) /\ UNCHANGED contracts
    \/ \E from \in Addr, fee \in Fees : ContractTx(from, fee)
    \/ \E from, to \in Addr, fee \in Fees, n \in Costs :
          Transfer(from, to, n, fee) /\ UNCHANGED contracts
    \/ \E miner \in Addr : EndBlock(miner)

BankSpec == BankInit /\ [][BankNext]_bankVars

(* Miners keep making blocks: every miner's loop starts the next search as *)
(* soon as the last one ends. Nobody is obliged to send a transaction.     *)
BlocksKeepComing ==
    WF_bankVars(\/ \E ts \in Times : BeginBlock(ts) /\ UNCHANGED contracts
                \/ \E miner \in Addr : EndBlock(miner))

FairBankSpec == BankSpec /\ BlocksKeepComing

-----------------------------------------------------------------------------
(* Properties                                                              *)

BankTypeOK ==
    /\ LedgerTypeOK
    /\ DOMAIN contracts \subseteq Addr \X Nat
    /\ IsFiniteSet(DOMAIN contracts)
    /\ contracts \in [DOMAIN contracts -> Contract]

HeldBy(status) ==
    Total([id \in DOMAIN contracts |->
              IF contracts[id].status = status THEN contracts[id].cost ELSE 0])

(* "An accepted contract is always payable": the bank's pending and vault  *)
(* are exactly the costs of the proposed and of the active contracts, so   *)
(* the escrow of one contract never pays for another, however proposals,   *)
(* acceptances, early settlements and the sweep interleave.                *)
EscrowBacked ==
    /\ bank.pending = HeldBy("proposed")
    /\ bank.vault = HeldBy("active")

(* Coin is neither lost nor made: what circulates is genesis plus block    *)
(* rewards plus the interest the bank has recorded (the supply invariant   *)
(* of the tests), in every state a block passes through.                   *)
SupplyConserved == circulatingSupply = Minted

(* bank.interestPaid is the sum of what each contract says it earned.      *)
InterestAudited ==
    bank.interestPaid = Total([id \in DOMAIN contracts |-> contracts[id].interest])

(* The sweep leaves nothing behind: between blocks no contract is past a   *)
(* deadline by the time of the last block, also when block time has gone   *)
(* back since the contract was made.                                       *)
NothingOverdue ==
    ~ block.open =>
        \A id \in DOMAIN contracts :
            /\ contracts[id].status = "proposed" =>
                    recent[Len(recent)] < contracts[id].acceptDeadline
            /\ contracts[id].status = "active" =>
                    recent[Len(recent)] < contracts[id].endTime

(* A contract that has been closed, paid or refunded is never touched      *)
(* again, and no contract disappears: its coin leaves the bank once.       *)
IsOpen(c) == c.status \in {"proposed", "active"}

ClosedForGood ==
    [][\A id \in DOMAIN contracts :
          /\ id \in DOMAIN contracts'
          /\ ~ IsOpen(contracts[id]) => contracts'[id] = contracts[id]]_bankVars

(* What an address owns, counting the proposals it can still get back and  *)
(* the accepted contracts that will pay it.                                *)
Claim(a) ==
    balance[a] + Total([id \in DOMAIN contracts |->
                    IF IsOpen(contracts[id]) /\ Payee(contracts[id]) = a
                    THEN contracts[id].cost ELSE 0])

(* Nobody becomes poorer by what others or the clock do: an address that   *)
(* owns less after a step has signed it, or its proposal was accepted and  *)
(* it owes exactly that cost.                                              *)
OnlySignersPay ==
    [][\A a \in Addr :
          \/ Claim(a)' >= Claim(a)
          \/ nonce'[a] # nonce[a]
          \/ \E id \in DOMAIN contracts :
                /\ contracts[id].contracter = a
                /\ contracts[id].status = "proposed" /\ contracts'[id].status = "active"
                /\ Claim(a)' = Claim(a) - contracts[id].cost]_bankVars

(* No escrow is locked forever: every contract is refunded or settled as   *)
(* long as blocks keep coming, even if neither party ever acts again.      *)
EveryContractCloses ==
    \A id \in Addr \X (0..(MaxNonce - 1)) :
        id \in DOMAIN contracts ~> (id \in DOMAIN contracts /\ ~ IsOpen(contracts[id]))
=============================================================================
