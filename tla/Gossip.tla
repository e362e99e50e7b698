------------------------------- MODULE Gossip -------------------------------
(***************************************************************************)
(* How blocks spread (net/p2p.js): nodes that mine, connections that come  *)
(* and go, the handshake, block announcements, tip and chain queries and   *)
(* the cache of announcements already seen. A connection delivers in order *)
(* and loses what is in flight when it closes.                             *)
(*                                                                         *)
(* A node's Blockchain is reduced to its blocks: chains here come from     *)
(* honest miners, so addBlock asks for the tip as parent and replaceChain  *)
(* for more work (Node has the rest). A block is known by the chain that   *)
(* ends in it. Blocks are empty here; Relay gives Mine and HandleHello the *)
(* transactions as parameters.                                             *)
(***************************************************************************)
EXTENDS Headers

CONSTANTS
    Nodes,
    Links,               \* the pairs of nodes that know each other's address
    Miners,              \* the nodes whose mining loop runs
    Clocks,              \* the readings miners' clocks may show
    MaxHeight            \* bound: how far empty blocks carry a chain

ASSUME GossipAssumption ==
    /\ IsFiniteSet(Nodes)
    /\ Links \subseteq {{n, m} : n, m \in Nodes}
    /\ \A l \in Links : Cardinality(l) = 2
    /\ Miners \subseteq Nodes
    /\ Clocks \subseteq Nat
    /\ MaxHeight \in Nat

VARIABLES
    chain,      \* [Nodes -> chain]: chain.blocks of each node
    open,       \* the links that are connected
    shaken,     \* <<n, m>>: n has handled m's HELLO (peer.handshaken)
    net,        \* [Nodes \X Nodes -> Seq(message)]: sent by n, not yet handled by m
    seen        \* [Nodes -> set of blocks]: this.seen, its block keys

gossipVars == <<chain, open, shaken, net, seen>>

-----------------------------------------------------------------------------
(* Messages                                                                *)

Ask(type) == [type |-> type, chain |-> << >>]

Tell(type, c) == [type |-> type, chain |-> c]

NoMail == [p \in Nodes \X Nodes |-> << >>]

Mail(n, m, messages) == [NoMail EXCEPT ![<<n, m>>] = messages]

To(n, m, msg) == Mail(n, m, <<msg>>)

(* broadcast: one copy to every peer of n that has shaken hands.           *)
Broadcast(n, peers, msg) ==
    [p \in Nodes \X Nodes |-> IF p[1] = n /\ p[2] \in peers THEN <<msg>> ELSE << >>]

PeersOf(n) == {m \in Nodes : <<n, m>> \in shaken}

(* The network once the messages of out have been sent.                    *)
Sent(before, out) == [p \in Nodes \X Nodes |-> before[p] \o out[p]]

(* The network once n has taken the next message of m.                     *)
Taken(m, n) == [net EXCEPT ![<<m, n>>] = Tail(@)]

-----------------------------------------------------------------------------
(* Connections                                                             *)

(* setupPeer at both ends: each greets the other.                          *)
Connect(n, m) ==
    /\ {n, m} \in Links \ open
    /\ open' = open \cup {{n, m}}
    /\ net' = [net EXCEPT ![<<n, m>>] = <<Ask("HELLO")>>, ![<<m, n>>] = <<Ask("HELLO")>>]
    /\ UNCHANGED <<chain, shaken, seen>>

(* Mutant of Disconnect: the peer record stays behind.                     *)
DisconnectHalf(n, m) ==
    /\ {n, m} \in open
    /\ open' = open \ {{n, m}}
    /\ net' = [net EXCEPT ![<<n, m>>] = << >>, ![<<m, n>>] = << >>]
    /\ UNCHANGED <<chain, shaken, seen>>

Disconnect(n, m) ==
    /\ {n, m} \in open
    /\ open' = open \ {{n, m}}
    /\ shaken' = shaken \ {<<n, m>>, <<m, n>>}
    /\ net' = [net EXCEPT ![<<n, m>>] = << >>, ![<<m, n>>] = << >>]
    /\ UNCHANGED <<chain, seen>>

(* pruneSeen: the entry of a block expires.                                *)
Forget(n, c) ==
    /\ seen' = [seen EXCEPT ![n] = @ \ {c}]
    /\ UNCHANGED <<chain, open, shaken, net>>

-----------------------------------------------------------------------------
(* Blocks                                                                  *)

(* mineOnce and the broadcast its "block" event triggers.                  *)
Mine(n, clock, body) ==
    LET c == Append(chain[n], [timestamp  |-> CandidateTime(chain[n], clock),
                               difficulty |-> expectedDifficulty(chain[n]),
                               miner      |-> n,
                               txs        |-> body])
    IN  /\ n \in Miners
        /\ body = << >> => height(chain[n]) < MaxHeight
        /\ chain' = [chain EXCEPT ![n] = c]
        /\ seen' = [seen EXCEPT ![n] = @ \cup {c}]
        /\ net' = Sent(net, Broadcast(n, PeersOf(n), Tell("NEW_BLOCK", c)))
        /\ UNCHANGED <<open, shaken>>

(* Mutant of considerBlock: an announcement seen before is dropped also    *)
(* when it is the answer to a tip query.                                   *)
considerBlockOnce(n, m, c, gossip) ==
    IF IsPrefix(c, chain[n]) \/ c \in seen[n]
    THEN net' = Taken(m, n) /\ UNCHANGED <<chain, seen>>
    ELSE /\ seen' = [seen EXCEPT ![n] = @ \cup {c}]
         /\ IF Front(c) = chain[n]
            THEN /\ chain' = [chain EXCEPT ![n] = c]
                 /\ net' = Sent(Taken(m, n), Broadcast(n, PeersOf(n), Tell("NEW_BLOCK", c)))
            ELSE /\ net' = IF height(c) > height(chain[n])
                           THEN Sent(Taken(m, n), To(n, m, Ask("QUERY_CHAIN")))
                           ELSE Taken(m, n)
                 /\ UNCHANGED chain

(* considerBlock: a block already held, or announced before, is ignored; a *)
(* block on the tip is added, which announces it to every peer; a higher   *)
(* one makes the node ask for the whole chain.                             *)
considerBlock(n, m, c, gossip) ==
    IF IsPrefix(c, chain[n]) \/ (gossip /\ c \in seen[n])
    THEN net' = Taken(m, n) /\ UNCHANGED <<chain, seen>>
    ELSE IF Front(c) = chain[n]
    THEN /\ chain' = [chain EXCEPT ![n] = c]
         /\ seen' = [seen EXCEPT ![n] = @ \cup {c}]
         /\ net' = Sent(Taken(m, n), Broadcast(n, PeersOf(n), Tell("NEW_BLOCK", c)))
    ELSE /\ seen' = IF gossip THEN [seen EXCEPT ![n] = @ \cup {c}] ELSE seen
         /\ net' = IF height(c) > height(chain[n])
                   THEN Sent(Taken(m, n), To(n, m, Ask("QUERY_CHAIN")))
                   ELSE Taken(m, n)
         /\ UNCHANGED chain

(* Mutants of HandleHello: the tip is not asked for; the mempool is not    *)
(* relayed.                                                                *)
HandleHelloOnly(n, m, mempool) ==
    /\ shaken' = shaken \cup {<<n, m>>}
    /\ net' = Sent(Taken(m, n), Mail(n, m, mempool))
    /\ UNCHANGED <<chain, open, seen>>

HandleHelloAlone(n, m, mempool) ==
    /\ shaken' = shaken \cup {<<n, m>>}
    /\ net' = Sent(Taken(m, n), To(n, m, Ask("QUERY_TIP")))
    /\ UNCHANGED <<chain, open, seen>>

(* The answer to a greeting ends with what relayMempool sends.             *)
HandleHello(n, m, mempool) ==
    /\ shaken' = shaken \cup {<<n, m>>}
    /\ net' = Sent(Taken(m, n), Mail(n, m, <<Ask("QUERY_TIP")>> \o mempool))
    /\ UNCHANGED <<chain, open, seen>>

HandleQueryTip(n, m) ==
    /\ net' = Sent(Taken(m, n), To(n, m, Tell("TIP", chain[n])))
    /\ UNCHANGED <<chain, open, shaken, seen>>

HandleBlock(n, m, msg) ==
    /\ considerBlock(n, m, msg.chain, msg.type = "NEW_BLOCK")
    /\ UNCHANGED <<open, shaken>>

HandleQueryChain(n, m) ==
    /\ net' = Sent(Taken(m, n), To(n, m, Tell("CHAIN", chain[n])))
    /\ UNCHANGED <<chain, open, shaken, seen>>

(* Mutant of HandleChain: what is adopted is not announced.                *)
HandleChainSilently(n, m, c) ==
    /\ IF totalWork(c) > totalWork(chain[n])
       THEN chain' = [chain EXCEPT ![n] = c]
       ELSE UNCHANGED chain
    /\ net' = Taken(m, n)
    /\ UNCHANGED <<open, shaken, seen>>

(* CHAIN: replaceChain; a reorg announces the new tip to every peer, and   *)
(* the handler announces it once more to all but the sender.               *)
HandleChain(n, m, c) ==
    LET block == Tell("NEW_BLOCK", c)
    IN  /\ IF totalWork(c) > totalWork(chain[n])
           THEN /\ chain' = [chain EXCEPT ![n] = c]
                /\ seen' = [seen EXCEPT ![n] = @ \cup {c}]
                /\ net' = Sent(Sent(Taken(m, n), Broadcast(n, PeersOf(n), block)),
                               Broadcast(n, PeersOf(n) \ {m}, block))
           ELSE net' = Taken(m, n) /\ UNCHANGED <<chain, seen>>
        /\ UNCHANGED <<open, shaken>>

(* handleMessage, for the next message of m.                               *)
Deliver(m, n, mempool) ==
    /\ net[<<m, n>>] # << >>
    /\ LET msg == Head(net[<<m, n>>])
       IN  \/ msg.type = "HELLO" /\ HandleHello(n, m, mempool)
           \/ msg.type = "QUERY_TIP" /\ HandleQueryTip(n, m)
           \/ msg.type \in {"TIP", "NEW_BLOCK"} /\ HandleBlock(n, m, msg)
           \/ msg.type = "QUERY_CHAIN" /\ HandleQueryChain(n, m)
           \/ msg.type = "CHAIN" /\ HandleChain(n, m, msg.chain)

-----------------------------------------------------------------------------

GossipInit ==
    /\ chain = [n \in Nodes |-> <<genesisBlock>>]
    /\ open = {}
    /\ shaken = {}
    /\ net = NoMail
    /\ seen = [n \in Nodes |-> {}]

Reconnect == \E n, m \in Nodes : Connect(n, m)

LoseConnection == \E n, m \in Nodes : Disconnect(n, m)

GossipNext ==
    \/ Reconnect
    \/ LoseConnection
    \/ \E n \in Nodes, c \in UNION {seen[m] : m \in Nodes} : Forget(n, c)
    \/ \E n \in Nodes, clock \in Clocks : Mine(n, clock, << >>)
    \/ \E m, n \in Nodes : Deliver(m, n, << >>)

GossipSpec == GossipInit /\ [][GossipNext]_gossipVars

(* The same when connections, once made, and cache entries stay.           *)
CalmNext ==
    /\ GossipNext
    /\ open' # {} /\ open \subseteq open'
    /\ \A n \in Nodes : seen[n] \subseteq seen'[n]

CalmGossipSpec == GossipInit /\ [][CalmNext]_gossipVars

(* Sockets deliver, and the redial timer (every PEER_RETRY_MS) reconnects. *)
FairGossipSpec ==
    /\ GossipSpec
    /\ WF_gossipVars(Reconnect)
    /\ \A m, n \in Nodes : WF_gossipVars(Deliver(m, n, << >>))

-----------------------------------------------------------------------------
(* Properties                                                              *)

GossipTypeOK ==
    /\ \A n \in Nodes : Head(chain[n]) = genesisBlock
    /\ open \subseteq Links
    /\ \A p \in shaken : {p[1], p[2]} \in open
    /\ \A p \in Nodes \X Nodes : net[p] # << >> => {p[1], p[2]} \in open

(* Nothing is on its way and nobody waits for anything.                    *)
Quiet ==
    /\ open = Links
    /\ \A l \in Links : \A n, m \in l : n # m => <<n, m>> \in shaken
    /\ net = NoMail

(* "Consensus is most-cumulative-work", "chain selection compares total    *)
(* work, not length": when the network has gone quiet, no node is left on  *)
(* a chain with less work than a neighbour's, whatever was mined at the    *)
(* same time, lost with a connection or suppressed as already seen.        *)
QuietNodesAgree ==
    Quiet => \A n, m \in Nodes : totalWork(chain[n]) = totalWork(chain[m])

(* A node never waits in vain: once connections stay up, all nodes end up  *)
(* with the same work, also those that were cut off while others mined.    *)
WorkConverges ==
    (<>[][~ LoseConnection]_gossipVars) =>
        <>[](\A n, m \in Nodes : totalWork(chain[n]) = totalWork(chain[m]))
=============================================================================
