---------------------------- MODULE StateMachine ----------------------------
(***************************************************************************)
(* The whole replicated state (core/state.js): one dispatch table over the *)
(* bank, tokens, the market, land, stocks and votes, and the end of a      *)
(* block, which closes votes and contracts that have run out.              *)
(***************************************************************************)
EXTENDS Bank, Market, Stocks, Governance

stateVars == <<ledgerVars, contracts, tokenVars, companies, marketVars, landVars, votes>>

(* emptyState and the allocation of genesis.                               *)
StateInit ==
    /\ BankInit
    /\ CurrenciesInit
    /\ MarketInit
    /\ LandInit
    /\ StocksInit
    /\ GovernanceInit

(* The dispatch table of applyTransaction: a handler touches the tables of *)
(* its own domain, and the accounts and the bank through the ledger.       *)
ApplyTransaction(from, fee) ==
    \/ /\ ContractTx(from, fee)
       /\ UNCHANGED <<tokenVars, companies, marketVars, landVars, votes>>
    \/ /\ CurrencyTx(from, fee)
       /\ UNCHANGED <<contracts, companies, marketVars, landVars, votes>>
    \/ /\ MarketTx(from, fee)
       /\ UNCHANGED <<contracts, companies, landVars, votes>>
    \/ /\ LandTx(from, fee)
       /\ UNCHANGED <<contracts, tokenVars, companies, marketVars, votes>>
    \/ /\ StocksTx(from, fee)
       /\ UNCHANGED <<contracts, tokenVars, marketVars, landVars, votes>>
    \/ /\ GovernanceTx(from, fee)
       /\ UNCHANGED <<contracts, tokenVars, companies, marketVars, landVars>>

(* The end of applyBlock: the coinbase, then processExpirations.           *)
FinishBlock(miner) ==
    /\ EndBlock(miner)
    /\ votes' = VotesSwept(block.timestamp)
    /\ UNCHANGED <<tokenVars, companies, marketVars, landVars>>

StartBlock(ts) ==
    /\ BeginBlock(ts)
    /\ UNCHANGED <<contracts, tokenVars, companies, marketVars, landVars, votes>>

StateNext ==
    \/ \E ts \in Times : StartBlock(ts)
    \/ \E from \in Addr, fee \in Fees : ApplyTransaction(from, fee)
    \/ \E miner \in Addr : FinishBlock(miner)

StateSpec == StateInit /\ [][StateNext]_stateVars

-----------------------------------------------------------------------------
(* Properties                                                              *)

StateTypeOK ==
    /\ BankTypeOK
    /\ CurrenciesTypeOK
    /\ MarketTypeOK
    /\ LandTypeOK
    /\ StocksTypeOK
    /\ GovernanceTypeOK

(* Native coin wherever it is parked besides accounts and the bank: in the *)
(* pools of currencies and companies and in the treasuries of companies.   *)
ParkedCoin ==
    Total([s \in DOMAIN currencies |-> currencies[s].reserveNative]) +
    Total([s \in DOMAIN companies |-> companies[s].reserveNative + companies[s].treasury])

(* "A bug in any of them would show up as supply quietly appearing or      *)
(* vanishing": whatever the transactions of all domains do, the coin in    *)
(* accounts, bank, pools and treasuries is genesis plus what was minted.   *)
CoinConserved == circulatingSupply + ParkedCoin = Minted

(* What the state keeps twice tells one story: the uuid registry, the land *)
(* tallies of a server, the holder table of a company.                     *)
TablesAgree ==
    /\ UuidsAgree
    /\ TalliesMatchDeeds
    /\ ShareTableExact

(* Neither items nor land leave their owner but by the owner's signature   *)
(* or for the price the owner asked.                                       *)
GoodsMoveBySaleOrGift ==
    /\ ItemsMoveBySale
    /\ DeedsMoveBySaleOrGift
=============================================================================
