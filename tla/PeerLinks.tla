----------------------------- MODULE PeerLinks ------------------------------
(***************************************************************************)
(* How nodes find each other (net/p2p.js): dialling, accepting, the        *)
(* handshake, duplicate connections, peer gossip, redials and heartbeats.  *)
(* Gossip has what travels over the connections that come of it.           *)
(*                                                                         *)
(* A connection <<n, m, i>> is dialled by n, has a socket at each end and  *)
(* delivers in order. A path may go dead without either end being told,    *)
(* and a node may crash and come back under a new node id. A node has one  *)
(* address, the node itself.                                               *)
(***************************************************************************)
EXTENDS Integers, FiniteSets, Sequences, SequencesExt

CONSTANTS
    Nodes,
    Conns,        \* the connections <<dialer, target, i>>
    Bootstrap,    \* [Nodes -> set of nodes]: the --peers of each
    MAX_PEERS,
    Networks      \* bound: which nodes a network has, and how many paths fail and nodes crash

ASSUME LinksAssumption ==
    /\ IsFiniteSet(Conns)
    /\ \A k \in Conns : k[1] \in Nodes /\ k[2] \in Nodes \ {k[1]} /\ k[3] \in Nat
    /\ \A n \in Nodes : Bootstrap[n] \subseteq Nodes \ {n}
    /\ MAX_PEERS \in Nat
    /\ \A w \in Networks : w.hosts \subseteq Nodes /\ w.faults \in Nat

VARIABLES
    up,         \* the nodes that run
    known,      \* [Nodes -> set of nodes]: knownAddresses
    dialing,    \* [Nodes -> set of nodes]
    peers,      \* [Nodes -> set of connections]: the records of this.peers
    shaken,     \* [Nodes -> set of connections]: records that are handshaken, dropped ones too
    silent,     \* [Nodes -> set of connections]: records no longer alive
    sock,       \* [Nodes -> [Conns -> state of that node's socket]]
    wire,       \* [Nodes -> [Conns -> Seq(message)]]: on its way to the node
    path,       \* [Conns -> "fine", "cut", "orphan" (an end has crashed) or "lost" (both)]
    hosts,      \* the nodes of this network
    faults      \* how many faults are still to come

nodeVars == <<known, dialing, peers, shaken, silent>>
linkVars == <<up, known, dialing, peers, shaken, silent, sock, wire, path, hosts,
              faults>>

Other(n, k) == IF k[1] = n THEN k[2] ELSE k[1]

Ends(k) == {k[1], k[2]}

Of(n) == {k \in Conns : n \in Ends(k)}

(* Nothing gets through on it.                                             *)
Dead(k) == path[k] \in {"cut", "lost"}

(* An end has crashed: the record at the other is of an earlier node id.   *)
Old(k) == path[k] \in {"orphan", "lost"}

(* Nothing is left of it at either end: the name can be used again.        *)
Free(k) == \A n \in Ends(k) : sock[n][k] = "none" /\ wire[n][k] = << >>

Say(type) == [type |-> type, addresses |-> {}]

-----------------------------------------------------------------------------
(* Sockets                                                                 *)

(* What is sent into a cut path, or to an end that is gone, is lost.       *)
Reaches(n, k) == path[k] = "fine" /\ sock[Other(n, k)][k] # "none"

(* wire after n has sent msgs on k, when the messages of w are on the way. *)
Post(w, n, k, msgs) ==
    IF Reaches(n, k)
    THEN [w EXCEPT ![Other(n, k)][k] = @ \o msgs]
    ELSE w

(* send: only on an open socket.                                           *)
SendOn(w, n, k, msgs) == IF sock[n][k] = "open" THEN Post(w, n, k, msgs) ELSE w

(* wire after n has taken the next message of k.                           *)
Taken(n, k) == [wire EXCEPT ![n][k] = Tail(@)]

(* isConnectedTo: a dialled peer has the address dialled, any other the    *)
(* one its HELLO gave.                                                     *)
isConnectedTo(n, m) == \E k \in peers[n] : Other(n, k) = m /\ (k[1] = n \/ k \in shaken[n])

(* connect, for each of the addresses: the connections n now dials. One is *)
(* dialled only when a name is free, which bounds how many there are.      *)
Dials(n, addresses) ==
    IF Cardinality(peers[n]) >= MAX_PEERS THEN {}
    ELSE {k \in Conns :
            /\ k[1] = n
            /\ k[2] \in addresses \ dialing[n]
            /\ ~ isConnectedTo(n, k[2])
            /\ Free(k)
            /\ \A j \in Conns : j[1] = n /\ j[2] = k[2] /\ Free(j) => k[3] <= j[3]}

(* dialing and the sockets once n dials the connections of new.            *)
Dial(n, new) ==
    /\ dialing' = [dialing EXCEPT ![n] = @ \cup {k[2] : k \in new}]
    /\ sock' = [sock EXCEPT ![n] = [k \in Conns |-> IF k \in new THEN "connecting" ELSE @[k]]]

(* The "close" event of n's socket: the record goes, and the address is no *)
(* longer being dialled, even if another connection to it now is.          *)
Closed(n, k) ==
    /\ sock' = [sock EXCEPT ![n][k] = "none"]
    /\ peers' = [peers EXCEPT ![n] = @ \ {k}]
    /\ shaken' = [shaken EXCEPT ![n] = @ \ {k}]
    /\ silent' = [silent EXCEPT ![n] = @ \ {k}]
    /\ dialing' = IF k[1] = n THEN [dialing EXCEPT ![n] = @ \ {k[2]}] ELSE dialing
    /\ path' = IF sock[Other(n, k)][k] = "none" THEN [path EXCEPT ![k] = "fine"] ELSE path

(* Mutant of drop: the record is dropped, the socket is not closed.        *)
dropRecord(n, k, w) ==
    /\ peers' = [peers EXCEPT ![n] = @ \ {k}]
    /\ wire' = w
    /\ UNCHANGED sock

(* drop: the record goes at once; the socket waits for the other end.      *)
drop(n, k, w) ==
    /\ peers' = [peers EXCEPT ![n] = @ \ {k}]
    /\ IF sock[n][k] = "open"
       THEN /\ sock' = [sock EXCEPT ![n][k] = "closing"]
            /\ wire' = Post(w, n, k, <<Say("CLOSE")>>)
       ELSE UNCHANGED sock /\ wire' = w

-----------------------------------------------------------------------------
(* Dialling                                                                *)

Redial(n) ==
    LET new == Dials(n, known[n])
    IN  /\ n \in up
        /\ new # {}
        /\ Dial(n, new)
        /\ UNCHANGED <<up, known, peers, shaken, silent, wire, path, hosts, faults>>

(* The server's "connection" event: setupPeer greets, unless there are     *)
(* enough peers already.                                                   *)
Accept(k) ==
    LET n == k[2]
        full == Cardinality(peers[n]) >= MAX_PEERS
    IN  /\ n \in up
        /\ path[k] = "fine"
        /\ sock[k[1]][k] = "connecting"
        /\ sock[n][k] = "none"
        /\ sock' = [sock EXCEPT ![n][k] = IF full THEN "refused" ELSE "open"]
        /\ peers' = IF full THEN peers ELSE [peers EXCEPT ![n] = @ \cup {k}]
        /\ wire' = Post(wire, n, k, <<Say(IF full THEN "CLOSE" ELSE "HELLO")>>)
        /\ UNCHANGED <<up, known, dialing, shaken, silent, path, hosts, faults>>

(* The dialer's "open" event: it comes after the server's, and looks at    *)
(* neither the limit nor the peers there are.                              *)
Open(k) ==
    LET n == k[1]
    IN  /\ sock[n][k] = "connecting"
        /\ sock[k[2]][k] # "none"
        /\ path[k] = "fine"
        /\ sock' = [sock EXCEPT ![n][k] = "open"]
        /\ dialing' = [dialing EXCEPT ![n] = @ \ {k[2]}]
        /\ peers' = [peers EXCEPT ![n] = @ \cup {k}]
        /\ wire' = Post(wire, n, k, <<Say("HELLO")>>)
        /\ UNCHANGED <<up, known, shaken, silent, path, hosts, faults>>

(* Mutant of DialFails: the address stays among those being dialled.       *)
DialFailsQuietly(k) ==
    /\ sock[k[1]][k] = "connecting"
    /\ k[2] \notin up \/ path[k] # "fine"
    /\ sock' = [sock EXCEPT ![k[1]][k] = "none"]
    /\ wire' = [wire EXCEPT ![k[1]][k] = << >>]
    /\ path' = IF sock[k[2]][k] = "none" THEN [path EXCEPT ![k] = "fine"] ELSE path
    /\ UNCHANGED <<up, known, dialing, peers, shaken, silent, hosts, faults>>

(* "error" and "close": "a peer being down is normal".                     *)
DialFails(k) ==
    /\ sock[k[1]][k] = "connecting"
    /\ k[2] \notin up \/ path[k] # "fine"
    /\ Closed(k[1], k)
    /\ wire' = [wire EXCEPT ![k[1]][k] = << >>]
    /\ UNCHANGED <<up, known, hosts, faults>>

-----------------------------------------------------------------------------
(* Messages                                                                *)

(* Another record of n is of the same node id.                             *)
Duplicate(n, k) ==
    \E o \in (peers[n] \cap shaken[n]) \ {k} :
        /\ Other(n, o) = Other(n, k)
        /\ Old(o) = Old(k)

(* Mutant of HandleHello: duplicates are not looked for.                   *)
HandleHelloAlways(n, k) ==
    /\ shaken' = [shaken EXCEPT ![n] = @ \cup {k}]
    /\ known' = [known EXCEPT ![n] = @ \cup {Other(n, k)}]
    /\ wire' = SendOn(Taken(n, k), n, k, <<Say("QUERY_PEERS")>>)
    /\ UNCHANGED <<up, dialing, peers, silent, sock, path, hosts, faults>>

(* Mutant of HandleHello: the address it gives is not kept.                *)
HandleHelloOnly(n, k) ==
    /\ IF Duplicate(n, k)
       THEN drop(n, k, Taken(n, k)) /\ UNCHANGED shaken
       ELSE /\ shaken' = [shaken EXCEPT ![n] = @ \cup {k}]
            /\ wire' = SendOn(Taken(n, k), n, k, <<Say("QUERY_PEERS")>>)
            /\ UNCHANGED <<peers, sock>>
    /\ UNCHANGED <<up, known, dialing, silent, path, hosts, faults>>

HandleHello(n, k) ==
    /\ IF Duplicate(n, k)
       THEN drop(n, k, Taken(n, k)) /\ UNCHANGED <<known, shaken>>
       ELSE /\ shaken' = [shaken EXCEPT ![n] = @ \cup {k}]
            /\ known' = [known EXCEPT ![n] = @ \cup {Other(n, k)}]
            /\ wire' = SendOn(Taken(n, k), n, k, <<Say("QUERY_PEERS")>>)
            /\ UNCHANGED <<peers, sock>>
    /\ UNCHANGED <<up, dialing, silent, path, hosts, faults>>

HandleQueryPeers(n, k) ==
    /\ wire' = SendOn(Taken(n, k), n, k, <<[type |-> "PEERS", addresses |-> known[n]]>>)
    /\ UNCHANGED <<up, nodeVars, sock, path, hosts, faults>>

HandlePeers(n, k, addresses) ==
    /\ known' = [known EXCEPT ![n] = @ \cup (addresses \ {n})]
    /\ Dial(n, Dials(n, addresses \ {n}))
    /\ wire' = Taken(n, k)
    /\ UNCHANGED <<up, peers, shaken, silent, path, hosts, faults>>

(* A close frame: it is answered, if it is not itself the answer.          *)
HandleClose(n, k) ==
    /\ Closed(n, k)
    /\ LET w == [wire EXCEPT ![n][k] = << >>]
       IN  wire' = IF sock[n][k] = "open" THEN Post(w, n, k, <<Say("CLOSE")>>) ELSE w
    /\ UNCHANGED <<up, known, hosts, faults>>

(* handleRaw, for the next message of k: also on a socket that is closing, *)
(* whose record has been dropped. A connection refused has no listener.    *)
Receive(n, k) ==
    /\ sock[n][k] \notin {"none", "connecting"}
    /\ wire[n][k] # << >>
    /\ LET msg == Head(wire[n][k])
       IN  IF msg.type = "CLOSE" THEN HandleClose(n, k)
           ELSE IF sock[n][k] = "refused"
           THEN wire' = Taken(n, k) /\ UNCHANGED <<up, nodeVars, sock, path, hosts, faults>>
           ELSE IF msg.type = "HELLO" THEN HandleHello(n, k)
           ELSE IF k \notin shaken[n]
           THEN drop(n, k, Taken(n, k))
                /\ UNCHANGED <<up, known, dialing, shaken, silent, path, hosts, faults>>
           ELSE \/ msg.type = "QUERY_PEERS" /\ HandleQueryPeers(n, k)
                \/ msg.type = "PEERS" /\ HandlePeers(n, k, msg.addresses)

-----------------------------------------------------------------------------
(* Silence                                                                 *)

(* The 10 s of setupPeer are over: only a cut path is that slow.           *)
HandshakeTimeout(n, k) ==
    /\ k \in peers[n] \ shaken[n]
    /\ Dead(k)
    /\ drop(n, k, wire)
    /\ UNCHANGED <<up, known, dialing, shaken, silent, path, hosts, faults>>

(* heartbeat, as far as it goes for one record: a peer that has not        *)
(* answered the last ping is dropped. A path that is fine answers in time. *)
Heartbeat(n, k) ==
    /\ k \in peers[n]
    /\ Dead(k)
    /\ IF k \in silent[n]
       THEN drop(n, k, wire) /\ UNCHANGED silent
       ELSE silent' = [silent EXCEPT ![n] = @ \cup {k}] /\ UNCHANGED <<peers, sock, wire>>
    /\ UNCHANGED <<up, known, dialing, shaken, path, hosts, faults>>

(* The close handshake of a socket gets no answer.                         *)
GiveUp(n, k) ==
    /\ sock[n][k] \in {"closing", "refused"}
    /\ Dead(k)
    /\ Closed(n, k)
    /\ UNCHANGED <<up, known, wire, hosts, faults>>

-----------------------------------------------------------------------------
(* Faults                                                                  *)

(* The path of a connection goes dead: nobody is told.                     *)
Cut(k) ==
    /\ faults > 0
    /\ faults' = faults - 1
    /\ ~ Dead(k)
    /\ ~ Free(k)
    /\ path' = [path EXCEPT ![k] = IF Old(k) THEN "lost" ELSE "cut"]
    /\ wire' = [n \in Nodes |-> [wire[n] EXCEPT ![k] = << >>]]
    /\ UNCHANGED <<up, nodeVars, sock, hosts>>

(* A node dies: its sockets close behind what they have sent.              *)
Crash(n) ==
    /\ faults > 0
    /\ faults' = faults - 1
    /\ n \in up
    /\ up' = up \ {n}
    /\ known' = [known EXCEPT ![n] = {}]
    /\ dialing' = [dialing EXCEPT ![n] = {}]
    /\ peers' = [peers EXCEPT ![n] = {}]
    /\ shaken' = [shaken EXCEPT ![n] = {}]
    /\ silent' = [silent EXCEPT ![n] = {}]
    /\ sock' = [sock EXCEPT ![n] = [k \in Conns |-> "none"]]
    /\ wire' = [m \in Nodes |-> [k \in Conns |->
                  IF m = n THEN << >>
                  ELSE IF sock[n][k] # "none" /\ Reaches(n, k)
                  THEN Append(wire[m][k], Say("CLOSE"))
                  ELSE wire[m][k]]]
    /\ path' = [k \in Conns |->
                  IF n \notin Ends(k) THEN path[k]
                  ELSE IF sock[Other(n, k)][k] = "none" THEN "fine"
                  ELSE IF Dead(k) THEN "lost" ELSE "orphan"]
    /\ UNCHANGED hosts

(* start, when no other node of the process's address runs.                *)
Start(n) ==
    /\ n \in hosts \ up
    /\ up' = up \cup {n}
    /\ known' = [known EXCEPT ![n] = Bootstrap[n]]
    /\ Dial(n, Dials(n, Bootstrap[n]))
    /\ UNCHANGED <<peers, shaken, silent, wire, path, hosts, faults>>

-----------------------------------------------------------------------------

LinksInit ==
    /\ up = {}
    /\ known = [n \in Nodes |-> {}] /\ dialing = [n \in Nodes |-> {}]
    /\ peers = [n \in Nodes |-> {}] /\ shaken = [n \in Nodes |-> {}]
    /\ silent = [n \in Nodes |-> {}]
    /\ sock = [n \in Nodes |-> [k \in Conns |-> "none"]]
    /\ wire = [n \in Nodes |-> [k \in Conns |-> << >>]]
    /\ path = [k \in Conns |-> "fine"]
    /\ \E w \in Networks : hosts = w.hosts /\ faults = w.faults

LinksNext ==
    \/ \E n \in Nodes : Start(n) \/ Redial(n) \/ Crash(n)
    \/ \E k \in Conns : Accept(k) \/ Open(k) \/ DialFails(k) \/ Cut(k)
    \/ \E n \in Nodes : \E k \in Of(n) :
          Receive(n, k) \/ HandshakeTimeout(n, k) \/ Heartbeat(n, k) \/ GiveUp(n, k)

LinksSpec == LinksInit /\ [][LinksNext]_linkVars

(* Sockets deliver, timers fire, a node that is down is started (again).   *)
FairLinksSpec ==
    /\ LinksSpec
    /\ \A n \in Nodes : WF_linkVars(Start(n)) /\ WF_linkVars(Redial(n))
    /\ \A k \in Conns : WF_linkVars(Accept(k)) /\ WF_linkVars(Open(k)) /\ WF_linkVars(DialFails(k))
    /\ \A n \in Nodes : \A k \in Of(n) :
          WF_linkVars(Receive(n, k)) /\ WF_linkVars(Heartbeat(n, k)) /\ WF_linkVars(GiveUp(n, k))

-----------------------------------------------------------------------------
(* Properties                                                              *)

Peers(n) == peers[n] \cap shaken[n]

(* Both ends count k among their peers.                                    *)
Linked(n, m) == \E k \in Peers(n) \cap Peers(m) : Ends(k) = {n, m}

(* Nobody dials, greets, asks or closes, and every path works.             *)
Calm ==
    \A k \in Conns :
        /\ path[k] = "fine"
        /\ \A n \in Ends(k) : wire[n][k] = << >> /\ sock[n][k] \in {"none", "open"}

(* "Detect and drop ... duplicate connections to the same peer": whatever  *)
(* was dialled from both sides at once, dropped, cut or left behind by a   *)
(* crash, when nothing is under way the two ends of every connection agree *)
(* that it is there, and there is one between two nodes at most.           *)
QuietLinksAgree ==
    Calm => \A k \in Conns :
        \/ Free(k)
        \/ /\ \A n \in Ends(k) : k \in Peers(n)
           /\ \A j \in Conns \ {k} : Ends(j) = Ends(k) => Free(j)

(* Two connections of the same two nodes are both being set up: either end *)
(* may take the other one for the duplicate, and then both are dropped.    *)
Crossed ==
    \E j, k \in Conns :
        /\ j # k /\ Ends(j) = Ends(k)
        /\ \A c \in {j, k} : ~ Free(c) /\ \E n \in Ends(c) : c \notin Peers(n)

(* "The rest find each other through peer gossip": each node is linked to  *)
(* each other in the end, although most only know the bootstrap node, if   *)
(* faults are over and two nodes do not go on dialling each other at once. *)
MeshForms ==
    <>[](~ Crossed) => <>[](\A n, m \in hosts : n # m => Linked(n, m))
=============================================================================
