------------------------------- MODULE Relay --------------------------------
(***************************************************************************)
(* A payment's way from a client to the chain: client.js picks its nonce,  *)
(* signs and posts it to one node; POST /tx/submit puts it into that       *)
(* node's mempool and broadcasts it; NEW_TX and relayMempool carry it from *)
(* node to node over the connections of Gossip; the mining loops put it    *)
(* into blocks, which Gossip spreads.                                      *)
(*                                                                         *)
(* The account state of a node is what a replay of its chain gives (Node   *)
(* checks that it is), and the clock stands still: expiry is in Node.      *)
(***************************************************************************)
EXTENDS Gossip, Inclusion

CONSTANTS
    Home,                \* the node the client talks to
    Client,              \* the client's address
    Payments,            \* what the client sends, in this order: [to, amount, fee]
    OVERLAP,             \* how many sends of the client may be under way at once
    Planted,             \* [Nodes -> pool]: what others have submitted before
    FAULTS               \* bound: connections and answers lost, cache entries expired

ASSUME RelayAssumption ==
    /\ Home \in Nodes
    /\ Nodes \subseteq Addr /\ Client \in Addr \ Nodes
    /\ Payments \in Seq([to : Addr \ {Client}, amount : Nat, fee : Nat])
    /\ OVERLAP \in Nat \ {0} /\ FAULTS \in Nat
    /\ Planted \in [Nodes -> [txs : Seq(SignedTxs), strikes : {<< >>}]]
    /\ \A n \in Nodes :
          /\ IsInjective(Planted[n].txs) /\ Len(Planted[n].txs) <= MAX_MEMPOOL_TXS
          /\ \A a \in Addr : Cardinality(PendingFor(Planted[n], a)) <= RUN_AHEAD

VARIABLES
    pool,       \* [Nodes -> pool]: chain.mempool of each node
    seenTx,     \* [Nodes -> set of transactions]: this.seen, its tx keys
    search,     \* [Nodes -> <<chain, body>>]: the search of mineOnce, or << >>
    sends,      \* the client's sends, in order: [stage, tx]
    localNonce, \* client.localNonce, 0 for null
    faults      \* how much has gone wrong

clientVars == <<sends, localNonce>>
poolVars == <<pool, seenTx, search>>
relayVars == <<chain, open, shaken, net, seen, pool, seenTx, search, sends, localNonce, faults>>

Now == 0

accounts(c) ==
    FoldLeft(LAMBDA state, block : applyBlock(state, block).state, genesisState, Tail(c))

accountsOf(n) == accounts(chain[n])

NewTx(tx) == [type |-> "NEW_TX", tx |-> tx]

(* relayMempool: everything pooled, in the order of the Map.               *)
relayMempool(n) == [i \in DOMAIN pool[n].txs |-> NewTx(pool[n].txs[i])]

-----------------------------------------------------------------------------
(* Nodes                                                                   *)

(* What a step of Gossip that changes the chain of n does to its pool.     *)
PoolFollows(n) ==
    LET state == accounts(chain'[n])
    IN  pool' = IF chain'[n] = chain[n] THEN pool
                ELSE IF Front(chain'[n]) = chain[n]
                THEN [pool EXCEPT ![n] = PoolAfterBlock(@, Last(chain'[n]), state, Now)]
                ELSE [pool EXCEPT ![n] = PoolAfterReorg(@, chain[n], chain'[n], state, Now)]

(* mineOnce: the body of the candidate is fixed when the search starts.    *)
Tried(n) == Trial(accountsOf(n), pool[n], Len(chain[n]))

CanSearch(n) ==
    /\ n \in Miners
    /\ search[n] = << >>
    /\ Tried(n).accepted = << >> => height(chain[n]) < MaxHeight

Search(n) ==
    /\ CanSearch(n)
    /\ search' = [search EXCEPT ![n] = <<chain[n], Tried(n).accepted>>]
    /\ pool' = [pool EXCEPT ![n] = Tried(n).pool]
    /\ UNCHANGED <<gossipVars, seenTx, clientVars>>

(* The last slice: it notices another tip, or finds the proof of work and  *)
(* hands the block to addBlock, which refuses a body that does not apply.  *)
Slice(n) ==
    /\ search[n] # << >>
    /\ search' = [search EXCEPT ![n] = << >>]
    /\ IF search[n][1] = chain[n] /\ ApplyAll(accountsOf(n), search[n][2]).ok
       THEN \E clock \in Clocks : Mine(n, clock, search[n][2]) /\ PoolFollows(n)
       ELSE UNCHANGED <<gossipVars, pool>>
    /\ UNCHANGED <<seenTx, clientVars>>

(* NEW_TX: marked as seen before anything is known of it; what the mempool *)
(* takes goes on to all but the sender.                                    *)
HandleTx(n, m, tx) ==
    LET welcome == tx \notin seenTx[n] /\ Acceptable(pool[n], tx, accountsOf(n), Now)
    IN  /\ seenTx' = [seenTx EXCEPT ![n] = @ \cup {tx}]
        /\ IF welcome
           THEN /\ pool' = [pool EXCEPT ![n] = add(@, tx, accountsOf(n), Now)]
                /\ net' = Sent(Taken(m, n), Broadcast(n, PeersOf(n) \ {m}, NewTx(tx)))
           ELSE /\ net' = Taken(m, n)
                /\ UNCHANGED pool
        /\ UNCHANGED <<chain, open, shaken, seen, search, clientVars>>

(* handleMessage, for the next message of m.                               *)
Handle(m, n) ==
    /\ net[<<m, n>>] # << >>
    /\ LET msg == Head(net[<<m, n>>])
       IN  \/ msg.type = "NEW_TX" /\ HandleTx(n, m, msg.tx)
           \/ /\ msg.type # "NEW_TX"
              /\ Deliver(m, n, relayMempool(n))
              /\ PoolFollows(n)
              /\ UNCHANGED <<seenTx, search, clientVars>>

(* pruneSeen: the entry of a transaction expires.                          *)
ForgetTx(n, tx) ==
    /\ tx \in seenTx[n]
    /\ seenTx' = [seenTx EXCEPT ![n] = @ \ {tx}]
    /\ UNCHANGED <<gossipVars, pool, search, clientVars>>

-----------------------------------------------------------------------------
(* The client                                                              *)

UnderWay == {k \in DOMAIN sends : sends[k].stage \notin {"done", "adrift", "failed"}}

(* send, up to the answer of GET /account/:address/nonce.                  *)
AskNonce ==
    LET payment == Payments[Len(sends) + 1]
    IN  /\ Len(sends) < Len(Payments)
        /\ Cardinality(UnderWay) < OVERLAP
        /\ sends' = Append(sends,
               [stage |-> "asked",
                tx    |-> [from |-> Client, to |-> payment.to, amount |-> payment.amount,
                           fee |-> payment.fee, timestamp |-> 0, size |-> 1,
                           nonce |-> accountsOf(Home).nonce[Client]]])
        /\ UNCHANGED <<gossipVars, poolVars, localNonce>>

(* Mutant of nextNonce: the node's answer is taken as it is.               *)
nextNonceOfNode(nonce) == nonce

nextNonce(nonce) == Max({nonce, localNonce})

(* The answer arrives: the nonce is chosen and the payment signed.         *)
Sign(k) ==
    /\ sends[k].stage = "asked"
    /\ localNonce' = nextNonce(sends[k].tx.nonce)
    /\ sends' = [sends EXCEPT ![k].stage = "signed", ![k].tx.nonce = localNonce']
    /\ UNCHANGED <<gossipVars, poolVars>>

(* Mutant of Submit: the mempool has it and nobody is told.                *)
SubmitQuietly(k) ==
    LET tx == sends[k].tx
        ok == Acceptable(pool[Home], tx, accountsOf(Home), Now)
    IN  /\ sends[k].stage = "signed"
        /\ sends' = [sends EXCEPT ![k].stage = IF ok THEN "accepted" ELSE "refused"]
        /\ pool' = [pool EXCEPT ![Home] = add(@, tx, accountsOf(Home), Now)]
        /\ UNCHANGED <<gossipVars, seenTx, search, localNonce>>

(* POST /tx/submit at the node.                                            *)
Submit(k) ==
    LET tx == sends[k].tx
        ok == Acceptable(pool[Home], tx, accountsOf(Home), Now)
    IN  /\ sends[k].stage \in {"signed", "adrift"}
        /\ sends' = [sends EXCEPT ![k].stage = IF @ = "adrift" THEN "failed"
                                               ELSE IF ok THEN "accepted" ELSE "refused"]
        /\ pool' = [pool EXCEPT ![Home] = add(@, tx, accountsOf(Home), Now)]
        /\ IF ok
           THEN /\ seenTx' = [seenTx EXCEPT ![Home] = @ \cup {tx}]
                /\ net' = Sent(net, Broadcast(Home, PeersOf(Home), NewTx(tx)))
           ELSE UNCHANGED <<seenTx, net>>
        /\ UNCHANGED <<chain, open, shaken, seen, search, localNonce>>

(* The answer arrives: send returns, or throws what the node refused.      *)
Return(k) ==
    /\ sends[k].stage \in {"accepted", "refused"}
    /\ IF sends[k].stage = "accepted"
       THEN /\ sends' = [sends EXCEPT ![k].stage = "done"]
            /\ localNonce' = sends[k].tx.nonce + 1
       ELSE /\ sends' = [sends EXCEPT ![k].stage = "failed"]
            /\ UNCHANGED localNonce
    /\ UNCHANGED <<gossipVars, poolVars>>

(* The connection breaks and fetch throws; a request that was on its way   *)
(* may still reach the node, also after the client's next one.             *)
LoseAnswer(k) ==
    /\ k \in UnderWay
    /\ sends' = [sends EXCEPT ![k].stage = IF @ = "signed" THEN "adrift" ELSE "failed"]
    /\ UNCHANGED <<gossipVars, poolVars, localNonce>>

-----------------------------------------------------------------------------

RelayInit ==
    /\ GossipInit
    /\ pool = Planted
    /\ seenTx = [n \in Nodes |-> UNION {Pooled(Planted[m]) : m \in Nodes}]
    /\ search = [n \in Nodes |-> << >>]
    /\ sends = << >>
    /\ localNonce = 0
    /\ faults = 0

(* What may go wrong.                                                      *)
Fault ==
    \/ /\ \/ LoseConnection
          \/ \E n \in Nodes : \E c \in seen[n] : Forget(n, c)
       /\ UNCHANGED <<poolVars, clientVars>>
    \/ \E n \in Nodes : \E tx \in seenTx[n] : ForgetTx(n, tx)
    \/ \E k \in DOMAIN sends : LoseAnswer(k)

Redial == Reconnect /\ UNCHANGED <<poolVars, clientVars>>

ClientStep ==
    \/ AskNonce
    \/ \E k \in DOMAIN sends : Sign(k) \/ Submit(k) \/ Return(k)

RelayNext ==
    \/ faults < FAULTS /\ faults' = faults + 1 /\ Fault
    \/ /\ UNCHANGED faults
       /\ \/ Redial
          \/ ClientStep
          \/ \E n \in Nodes : Search(n) \/ Slice(n)
          \/ \E m, n \in Nodes : Handle(m, n)

RelaySpec == RelayInit /\ [][RelayNext]_relayVars

(* A node has a connection to make, a message to read or a block to mine.  *)
Busy ==
    \/ open # Links
    \/ net # NoMail
    \/ \E n \in Miners : search[n] # << >> \/ CanSearch(n)

(* The redial timer fires, sockets deliver, the mining loops search again  *)
(* and again: while nodes have something to do, some node does something.  *)
(* The client owes nobody a step. This is weak fairness of what the nodes  *)
(* do, written out with the condition under which they can do something,   *)
(* since TLC is slow to find that out.                                     *)
FairRelaySpec ==
    /\ RelaySpec
    /\ []<>~Busy \/ []<><<UNCHANGED <<clientVars, faults>>>>_relayVars

-----------------------------------------------------------------------------
(* Properties                                                              *)

(* A sender's pooled transaction and all the nonces before it.             *)
Runnable(n, nonce) ==
    \A k \in accountsOf(n).nonce[Client]..nonce :
        \E tx \in PendingFor(pool[n], Client) : tx.nonce = k

Settled(nonce) == \A n \in Nodes : accountsOf(n).nonce[Client] > nonce

Nonces == 0..(Len(Payments) - 1)

(* "A transaction submitted to a non-mining node gets mined": what a node  *)
(* has accepted is in the end on every chain, itself or a rival of its     *)
(* nonce, whatever is lost on the way.                                     *)
SubmittedIsSettled ==
    \A k \in Nonces :
        (accountsOf(Home).nonce[Client] <= k /\ Runnable(Home, k)) ~> Settled(k)

(* "Consecutive sends track the nonce locally": two sends that were        *)
(* acknowledged never compete for one nonce.                               *)
AcknowledgedOnce ==
    \A i, j \in DOMAIN sends :
        i # j /\ sends[i].stage = "done" /\ sends[j].stage = "done" =>
            sends[i].tx.nonce # sends[j].tx.nonce

(* When nothing is on its way, a transaction that one node holds and its   *)
(* neighbour could mine next is in the neighbour's pool too.               *)
QuietPoolsAgree ==
    Quiet => \A n, m \in Nodes : \A tx \in Pooled(pool[n]) :
        CanApply(accountsOf(m), tx) => tx \in Pooled(pool[m])

(* tx is pooled at n, or n's chain has used its nonce.                     *)
Held(n, tx) == tx \in Pooled(pool[n]) \/ tx.nonce < accountsOf(n).nonce[tx.from]

(* What a step refuses or evicts although its nonce is still free.         *)
TurnedAway ==
    UNION {{tx \in Pooled(pool[n]) \cup (seenTx'[n] \ seenTx[n]) : ~ Held(n, tx)'} :
           n \in Nodes}

(* A payment that the client's node took no node on the way to the miner   *)
(* turns away or evicts while its nonce is free there, although a pool, a  *)
(* sender's share of it and the balance have just the room the payments    *)
(* take, a rival of a payment may be on its way too, and the nodes differ  *)
(* in what they have seen mined.                                           *)
PaymentsStay == [][\A tx \in TurnedAway : tx.from # Client]_relayVars
=============================================================================
