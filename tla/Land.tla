-------------------------------- MODULE Land --------------------------------
(***************************************************************************)
(* Servers and land (core/land.js). A chunk is claimed from the protocol   *)
(* once and changes hands by sale or transfer after that; its server keeps *)
(* a running tally of how many chunks each address holds.                  *)
(***************************************************************************)
EXTENDS Ledger

CONSTANTS
    ServerIds,
    Places,                     \* dimension and coordinates of a chunk
    SalePrices,                 \* the prices owners ask and buyers bear
    SERVER_REGISTRATION_PRICE,
    CHUNK_CLAIM_PRICE,
    MAX_CHUNKS_PER_OWNER,
    LAND_FEE_BPS

ASSUME LandAssumption ==
    /\ SalePrices \subseteq Nat
    /\ SERVER_REGISTRATION_PRICE \in Nat
    /\ CHUNK_CLAIM_PRICE \in Nat
    /\ MAX_CHUNKS_PER_OWNER \in Nat
    /\ LAND_FEE_BPS \in 0..BPS

VARIABLES
    servers,    \* server id -> its owner, chunkCount and owners (the tally)
    chunks      \* chunkKey -> chunk

landVars == <<servers, chunks>>

-----------------------------------------------------------------------------

chunkKey(serverId, place) == <<serverId, place>>

Holding(owners, a) == IF a \in DOMAIN owners THEN owners[a] ELSE 0

(* addHolding: the tally once a holds delta more; nobody is kept with 0.   *)
addHolding(owners, a, delta) ==
    LET next == Holding(owners, a) + delta
    IN  IF next <= 0 THEN Without(owners, a) ELSE With(owners, a, next)

(* addHolding refuses what would exceed the limit.                         *)
HasRoom(owners, a) == Holding(owners, a) < MAX_CHUNKS_PER_OWNER

(* Mutant of Moved: the tally of the old owner keeps the chunk.            *)
MovedKeepingTally(owners, old, new) == addHolding(owners, new, 1)

(* The tally once a chunk has gone from old to new.                        *)
Moved(owners, old, new) == addHolding(addHolding(owners, old, -1), new, 1)

(* Mutant of Deed: the chunk stays on sale when it changes hands.          *)
DeedStillForSale(chunk, to) == [chunk EXCEPT !.owner = to]

Deed(chunk, to) == [chunk EXCEPT !.owner = to, !.forSale = FALSE, !.price = 0]

moveChunk(key, to) ==
    LET owner == chunks[key].owner
    IN  /\ HasRoom(servers[key[1]].owners, to)
        /\ servers' = [servers EXCEPT ![key[1]].owners = Moved(@, owner, to)]
        /\ chunks' = [chunks EXCEPT ![key] = Deed(@, to)]

-----------------------------------------------------------------------------

RegisterServer(from, fee, serverId) ==
    /\ serverId \notin DOMAIN servers
    /\ PayBank(from, fee, SERVER_REGISTRATION_PRICE)
    /\ servers' = With(servers, serverId, [owner |-> from, chunkCount |-> 0, owners |-> << >>])
    /\ UNCHANGED chunks

ClaimChunk(from, fee, serverId, place) ==
    LET key == chunkKey(serverId, place)
    IN  /\ key \notin DOMAIN chunks
        /\ HasRoom(servers[serverId].owners, from)
        /\ PayBank(from, fee, CHUNK_CLAIM_PRICE)
        /\ servers' = [servers EXCEPT ![serverId].owners = addHolding(@, from, 1),
                                      ![serverId].chunkCount = @ + 1]
        /\ chunks' = With(chunks, key, [owner |-> from, forSale |-> FALSE, price |-> 0])

SetChunkSale(from, fee, key, price) ==
    /\ chunks[key].owner = from
    /\ PayFee(from, fee)
    /\ chunks' = [chunks EXCEPT ![key].forSale = price > 0, ![key].price = price]
    /\ UNCHANGED servers

(* The buyer names the most it will pay: the price may have been raised by *)
(* an earlier transaction of the same block.                               *)
BuyChunk(from, fee, key, maxPrice) ==
    LET chunk == chunks[key]
        cut   == FeeOf(chunk.price, LAND_FEE_BPS)
    IN  /\ chunk.forSale
        /\ chunk.owner # from
        /\ chunk.price <= maxPrice
        /\ CanPay(from, fee, chunk.price)
        /\ balance' = Plus(Minus(balance, from, fee + chunk.price), chunk.owner, chunk.price - cut)
        /\ Fits(balance'[chunk.owner])
        /\ bank' = creditTreasury(bank, cut)
        /\ Fits(bank'.treasury)
        /\ moveChunk(key, from)
        /\ Landed(from, fee)

TransferChunk(from, fee, key, to) ==
    /\ to # from
    /\ chunks[key].owner = from
    /\ PayFee(from, fee)
    /\ moveChunk(key, to)

-----------------------------------------------------------------------------

LandInit == servers = << >> /\ chunks = << >>

LandTx(from, fee) ==
    \/ \E s \in ServerIds : RegisterServer(from, fee, s)
    \/ \E s \in DOMAIN servers, place \in Places : ClaimChunk(from, fee, s, place)
    \/ \E key \in DOMAIN chunks :
          \/ \E price \in SalePrices : SetChunkSale(from, fee, key, price)
          \/ \E maxPrice \in SalePrices \ {0} : BuyChunk(from, fee, key, maxPrice)
          \/ \E to \in Addr : TransferChunk(from, fee, key, to)

-----------------------------------------------------------------------------
(* Properties                                                              *)

LandTypeOK ==
    /\ DOMAIN servers \subseteq ServerIds
    /\ \A s \in DOMAIN servers :
          /\ servers[s].owner \in Addr /\ servers[s].chunkCount \in Nat
          /\ DOMAIN servers[s].owners \subseteq Addr
    /\ DOMAIN chunks \subseteq (DOMAIN servers) \X Places
    /\ chunks \in [DOMAIN chunks -> [owner : Addr, forSale : BOOLEAN, price : Nat]]

Owned(serverId, a) == {key \in DOMAIN chunks : key[1] = serverId /\ chunks[key].owner = a}

(* The running tally is what a scan of all chunks would find, through      *)
(* claims, sales and transfers: nobody is listed with nothing, nobody is   *)
(* above the limit, and the count of the server is the chunks on it.       *)
TalliesMatchDeeds ==
    \A s \in DOMAIN servers :
        /\ servers[s].chunkCount = Cardinality({key \in DOMAIN chunks : key[1] = s})
        /\ DOMAIN servers[s].owners = {a \in Addr : Owned(s, a) # {}}
        /\ \A a \in DOMAIN servers[s].owners :
              /\ servers[s].owners[a] = Cardinality(Owned(s, a))
              /\ servers[s].owners[a] <= MAX_CHUNKS_PER_OWNER

(* Land is lost only by one's own signature or for the price one asked,    *)
(* less the registry's cut, and it is never on sale in its new hands, so   *)
(* an old price cannot be met by a later buyer. Deeds never disappear.     *)
DeedsMoveBySaleOrGift ==
    [][\A key \in DOMAIN chunks :
          LET old == chunks[key]
              new == chunks'[key]
          IN  /\ key \in DOMAIN chunks'
              /\ new.owner # old.owner =>
                    /\ ~ new.forSale
                    /\ \/ nonce'[old.owner] > nonce[old.owner]
                       \/ /\ old.forSale
                          /\ nonce'[new.owner] > nonce[new.owner]
                          /\ balance'[old.owner] =
                                balance[old.owner] + old.price - FeeOf(old.price, LAND_FEE_BPS)
             ]_landVars
=============================================================================
