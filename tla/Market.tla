------------------------------- MODULE Market -------------------------------
(***************************************************************************)
(* Item custody, the marketplace (core/market.js) and the registry of      *)
(* players' uuids (core/state.js REGISTER_UUID).                           *)
(*                                                                         *)
(*     DEPOSIT --> held --LIST--> listed --BUY--> held by the buyer        *)
(*                   |              +--CANCEL--> held by the seller        *)
(*                   +--WITHDRAW--> claimed, for good                      *)
(***************************************************************************)
EXTENDS Currencies

CONSTANTS
    Uuids,              \* the players' ids on the game servers
    Prices,             \* the prices listings ask
    MARKET_FEE_BPS

ASSUME MarketAssumption ==
    /\ None \notin Uuids \cup (Addr \X Nat)
    /\ Prices \subseteq Nat \ {0}
    /\ MARKET_FEE_BPS \in 0..BPS

VARIABLES
    uuids,          \* uuid -> the address it is registered to
    accountUuid,    \* [Addr -> uuid or None]: account.uuid
    inventories,    \* transaction id of the deposit -> items in custody
    listings        \* transaction id -> listing

marketVars == <<uuids, accountUuid, inventories, listings>>

-----------------------------------------------------------------------------

(* Mutant of MayBind: a uuid may be taken over by another address.         *)
MayTakeOver(from, uuid) == accountUuid[from] \in {None, uuid}

MayBind(from, uuid) ==
    /\ uuid \in DOMAIN uuids => uuids[uuid] = from
    /\ accountUuid[from] \in {None, uuid}

RegisterUuid(from, fee, uuid) ==
    /\ MayBind(from, uuid)
    /\ PayFee(from, fee)
    /\ uuids' = With(uuids, uuid, from)
    /\ accountUuid' = [accountUuid EXCEPT ![from] = uuid]
    /\ UNCHANGED <<inventories, listings, tokenVars>>

DepositInventory(from, fee, uuid) ==
    LET id == TxId(from)
    IN  /\ id \notin DOMAIN inventories
        /\ uuid \in DOMAIN uuids => uuids[uuid] = from
        /\ PayFee(from, fee)
        /\ inventories' = With(inventories, id,
               [owner |-> from, uuid |-> uuid, listingId |-> None,
                acquiredVia |-> None, claimed |-> FALSE])
        /\ UNCHANGED <<uuids, accountUuid, listings, tokenVars>>

(* What only the owner may do, and only once the items are neither listed  *)
(* nor back in the world.                                                  *)
Free(from, id) ==
    /\ inventories[id].owner = from
    /\ ~ inventories[id].claimed
    /\ inventories[id].listingId = None

(* Mutant of WithdrawInventory: a listing does not stand in the way.       *)
WithdrawListed(from, fee, id) ==
    /\ inventories[id].owner = from
    /\ ~ inventories[id].claimed
    /\ PayFee(from, fee)
    /\ inventories' = [inventories EXCEPT ![id].claimed = TRUE]
    /\ UNCHANGED <<uuids, accountUuid, listings, tokenVars>>

WithdrawInventory(from, fee, id) ==
    /\ Free(from, id)
    /\ PayFee(from, fee)
    /\ inventories' = [inventories EXCEPT ![id].claimed = TRUE]
    /\ UNCHANGED <<uuids, accountUuid, listings, tokenVars>>

ListItem(from, fee, id, price, symbol) ==
    LET listing == TxId(from)
    IN  /\ listing \notin DOMAIN listings
        /\ Free(from, id)
        /\ Exists(symbol)
        /\ PayFee(from, fee)
        /\ listings' = With(listings, listing,
               [seller |-> from, inventoryId |-> id, price |-> price, symbol |-> symbol,
                status |-> "open", buyer |-> None, fee |-> 0])
        /\ inventories' = [inventories EXCEPT ![id].listingId = listing]
        /\ UNCHANGED <<uuids, accountUuid, tokenVars>>

CancelListing(from, fee, id) ==
    /\ listings[id].status = "open"
    /\ listings[id].seller = from
    /\ PayFee(from, fee)
    /\ listings' = [listings EXCEPT ![id].status = "cancelled"]
    /\ inventories' = [inventories EXCEPT ![listings[id].inventoryId].listingId = None]
    /\ UNCHANGED <<uuids, accountUuid, tokenVars>>

(* The custody record once it has been sold through listing id.            *)
Delivered(inv, buyer, id) ==
    [inv EXCEPT !.owner = buyer, !.acquiredVia = id, !.listingId = None]

(* Mutant of SaleFee: the bank's cut is not withheld from the seller.      *)
SaleFeeOfNothing(listing) == 0

SaleFee(listing) == FeeOf(listing.price, MARKET_FEE_BPS)

BuyListing(from, fee, id) ==
    LET listing == listings[id]
    IN  /\ listing.status = "open"
        /\ listing.seller # from
        /\ ~ inventories[listing.inventoryId].claimed
        /\ Pay(from, fee, listing.seller, listing.symbol, listing.price, SaleFee(listing))
        /\ Landed(from, fee)
        /\ listings' = [listings EXCEPT ![id] =
               [@ EXCEPT !.status = "sold", !.buyer = from, !.fee = SaleFee(listing)]]
        /\ inventories' = [inventories EXCEPT ![listing.inventoryId] = Delivered(@, from, id)]
        /\ UNCHANGED <<uuids, accountUuid, currencies>>

-----------------------------------------------------------------------------

MarketInit ==
    /\ uuids = << >>
    /\ accountUuid = [a \in Addr |-> None]
    /\ inventories = << >>
    /\ listings = << >>

MarketTx(from, fee) ==
    \/ \E u \in Uuids : RegisterUuid(from, fee, u) \/ DepositInventory(from, fee, u)
    \/ \E id \in DOMAIN inventories :
          \/ WithdrawInventory(from, fee, id)
          \/ \E price \in Prices, s \in Symbols \cup {NATIVE} : ListItem(from, fee, id, price, s)
    \/ \E id \in DOMAIN listings : CancelListing(from, fee, id) \/ BuyListing(from, fee, id)

-----------------------------------------------------------------------------
(* Properties                                                              *)

Ids == Addr \X Nat

Inventory ==
    [owner : Addr, uuid : Uuids, listingId : Ids \cup {None},
     acquiredVia : Ids \cup {None}, claimed : BOOLEAN]

Listing ==
    [seller : Addr, inventoryId : Ids, price : Nat, symbol : Symbols \cup {NATIVE},
     status : {"open", "cancelled", "sold"}, buyer : Addr \cup {None}, fee : Nat]

MarketTypeOK ==
    /\ DOMAIN uuids \subseteq Uuids /\ uuids \in [DOMAIN uuids -> Addr]
    /\ accountUuid \in [Addr -> Uuids \cup {None}]
    /\ DOMAIN inventories \subseteq Ids /\ inventories \in [DOMAIN inventories -> Inventory]
    /\ DOMAIN listings \subseteq Ids /\ listings \in [DOMAIN listings -> Listing]

(* "A seller cannot withdraw what they have listed, and a sale cannot fail *)
(* to deliver": an open listing is the one listing its items name, they    *)
(* are still in custody and the seller's, and no closed listing is named.  *)
SalesCanDeliver ==
    /\ \A id \in DOMAIN listings :
          LET inv == inventories[listings[id].inventoryId]
          IN  IF listings[id].status = "open"
              THEN inv.listingId = id /\ ~ inv.claimed /\ inv.owner = listings[id].seller
              ELSE inv.listingId # id
    /\ \A id \in DOMAIN inventories :
          inventories[id].listingId \in DOMAIN listings \cup {None}

(* The registry by uuid and the uuid on the account never disagree: one    *)
(* player per address and one address per player.                          *)
UuidsAgree ==
    \A a \in Addr, u \in Uuids : accountUuid[a] = u <=> (u \in DOMAIN uuids /\ uuids[u] = a)

Held(coin, token, who, symbol) == IF symbol = NATIVE THEN coin[who] ELSE token[symbol][who]

(* Items change hands only by a sale its buyer has signed, in which the    *)
(* seller receives the price it asked less the market's cut; and items     *)
(* that were collected are out of the chain's hands for good.              *)
ItemsMoveBySale ==
    [][\A id \in DOMAIN inventories :
          LET inv  == inventories[id]
              sale == listings[inv.listingId]
          IN  /\ inv.claimed => inventories'[id] = inv
              /\ inventories'[id].owner # inv.owner =>
                    /\ inv.listingId # None
                    /\ nonce'[inventories'[id].owner] = nonce[inventories'[id].owner] + 1
                    /\ Held(balance', tokens', inv.owner, sale.symbol) =
                          Held(balance, tokens, inv.owner, sale.symbol) + sale.price
                              - FeeOf(sale.price, MARKET_FEE_BPS)]_marketVars
=============================================================================
