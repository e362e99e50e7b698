-------------------------- MODULE PeerLinksProofs --------------------------
(***************************************************************************)
(* When nobody dials, greets or closes, the two ends of every connection   *)
(* agree that it is there, and no two nodes have two: for any nodes,       *)
(* limits and numbers of failures.                                         *)
(*                                                                         *)
(* All but duplicates is about one connection at a time: ConnOK says how   *)
(* its two sockets, the messages on their way and its path fit together.   *)
(* A step touches one connection, and those it dials.                      *)
(***************************************************************************)
EXTENDS PeerLinks, TLAPS, SequenceTheorems

States == {"none", "connecting", "open", "closing", "refused"}

Types == {"HELLO", "QUERY_PEERS", "PEERS", "CLOSE"}

Messages == [type : Types, addresses : SUBSET Nodes]

Wires == [Nodes -> [Conns -> Seq(Messages)]]

LinksTyped ==
    /\ up \subseteq Nodes
    /\ known \in [Nodes -> SUBSET Nodes]
    /\ dialing \in [Nodes -> SUBSET Nodes]
    /\ peers \in [Nodes -> SUBSET Conns]
    /\ shaken \in [Nodes -> SUBSET Conns]
    /\ silent \in [Nodes -> SUBSET Conns]
    /\ sock \in [Nodes -> [Conns -> States]]
    /\ wire \in Wires
    /\ path \in [Conns -> {"fine", "cut", "orphan", "lost"}]

Closes(n, k) == \E x \in ToSet(wire[n][k]) : x.type = "CLOSE"

(* One end of a connection: its socket, its record and what it gets.       *)
EndOK(n, k) ==
    /\ sock[n][k] # "none" => n \in up
    /\ sock[n][k] = "none" => wire[n][k] = << >>
    /\ sock[n][k] = "connecting" => n = k[1]
    /\ k \in peers[n] <=> sock[n][k] = "open"
    /\ k \in shaken[n] => sock[n][k] \in {"open", "closing"}
    /\ Dead(k) => wire[n][k] = << >>

(* While the path is fine an open socket has another one at the other end, *)
(* which is being greeted, closes, or has been taken notice of; a dialer   *)
(* has sent nothing; and whoever says CLOSE is closing.                    *)
Facing(n, m, k) ==
    path[k] = "fine" =>
        /\ sock[n][k] = "open" => sock[m][k] # "none"
        /\ sock[n][k] = "open" /\ k \notin shaken[n] /\ sock[m][k] # "connecting" =>
              wire[n][k] # << >>
        /\ sock[n][k] = "connecting" =>
              wire[m][k] = << >> /\ (sock[m][k] = "none" <=> wire[n][k] = << >>)
        /\ Closes(m, k) => sock[n][k] \in {"closing", "refused", "none"}

ConnOK(k) ==
    /\ \A n \in Nodes : n \notin Ends(k) => sock[n][k] = "none"
    /\ \A n \in Ends(k) : EndOK(n, k) /\ Facing(n, Other(n, k), k)
    /\ Old(k) => \E n \in Ends(k) : sock[n][k] = "none"

(* Of two connections of the same two nodes that n counts among its peers, *)
(* one has been left behind by a crash.                                    *)
OneEach ==
    \A j, k \in Conns : \A n \in Ends(k) :
        j # k /\ Ends(j) = Ends(k) /\ j \in Peers(n) /\ k \in Peers(n) =>
            Old(j) \/ Old(k)

LinksInv == LinksTyped /\ (\A k \in Conns : ConnOK(k)) /\ OneEach

USE DEF Dead, Old

-----------------------------------------------------------------------------
(* Ends and wires                                                          *)

LEMMA ConnEnds ==
    ASSUME NEW k \in Conns, NEW n \in Ends(k)
    PROVE  /\ n \in Nodes /\ Other(n, k) \in Nodes /\ Other(n, k) # n
           /\ Ends(k) = {n, Other(n, k)} /\ Other(Other(n, k), k) = n
           /\ n = k[1] <=> Other(n, k) = k[2]
           /\ Ends(k) = {k[1], k[2]} /\ k[1] # k[2]
PROOF
BY LinksAssumption DEF Ends, Other

LEMMA AppendedSet ==
    ASSUME NEW M, NEW s \in Seq(M), NEW x \in M
    PROVE  /\ s \o <<x>> \in Seq(M) /\ s \o <<x>> # << >>
           /\ ToSet(s \o <<x>>) = ToSet(s) \cup {x}
PROOF
<1>1. PICK t : t = Append(s, x)
    OBVIOUS
<1>2. s \o <<x>> = t
    BY <1>1
<1>3. PICK j \in Nat : j = Len(s)
    BY LenProperties
<1>4. /\ t \in Seq(M) /\ Len(t) = j + 1 /\ t # << >>
      /\ \A i \in 1..j : t[i] = s[i]
      /\ t[j + 1] = x
    BY <1>1, <1>3, AppendProperties
<1>5. DOMAIN s = 1..j /\ DOMAIN t = 1..(j + 1)
    BY <1>3, <1>4, LenProperties
<1>6. \A i \in 1..(j + 1) : i \in 1..j \/ i = j + 1
    OBVIOUS
<1>7. \A i \in 1..j : i \in 1..(j + 1)
    OBVIOUS
<1>8. j + 1 \in 1..(j + 1)
    OBVIOUS
<1>9. ToSet(t) \subseteq ToSet(s) \cup {x}
    BY <1>4, <1>5, <1>6 DEF ToSet
<1>10. ToSet(s) \cup {x} \subseteq ToSet(t)
    BY <1>4, <1>5, <1>7, <1>8 DEF ToSet
<1> QED
    BY <1>2, <1>4, <1>9, <1>10

LEMMA TailSubset ==
    ASSUME NEW M, NEW s \in Seq(M), s # << >>
    PROVE  /\ Head(s) \in M /\ Tail(s) \in Seq(M)
           /\ Head(s) \in ToSet(s) /\ ToSet(Tail(s)) \subseteq ToSet(s)
PROOF
<1>1. PICK t : t = Tail(s)
    OBVIOUS
<1>2. PICK j \in Nat : j = Len(s) /\ j > 0
    BY LenProperties, EmptySeq
<1>3. /\ t \in Seq(M) /\ Head(s) \in M /\ Len(t) = j - 1
      /\ \A i \in 1..(j - 1) : t[i] = s[i + 1]
    BY <1>1, <1>2, HeadTailProperties
<1>4. DOMAIN s = 1..j /\ DOMAIN t = 1..(j - 1)
    BY <1>2, <1>3, LenProperties
<1>5. \A i \in 1..(j - 1) : i + 1 \in 1..j
    BY <1>2
<1>6. ToSet(t) \subseteq ToSet(s)
    BY <1>3, <1>4, <1>5 DEF ToSet
<1>7. Head(s) = s[1] /\ 1 \in 1..j
    BY <1>2
<1> QED
    BY <1>1, <1>3, <1>4, <1>6, <1>7 DEF ToSet

(* after is before with x put at the end of what m gets on k.              *)
Gets(before, after, m, k, x) ==
    /\ after \in Wires
    /\ \A y \in Nodes, j \in Conns :
          y # m \/ j # k => after[y][j] = before[y][j]
    /\ after[m][k] # << >>
    /\ ToSet(after[m][k]) = ToSet(before[m][k]) \cup {x}

LEMMA PostIs ==
    ASSUME NEW before \in Wires, NEW k \in Conns, NEW n \in Ends(k),
           NEW x \in Messages, NEW after, after = Post(before, n, k, <<x>>)
    PROVE  /\ Reaches(n, k) => Gets(before, after, Other(n, k), k, x)
           /\ ~ Reaches(n, k) => after = before
PROOF
<1>1. ~ Reaches(n, k) => after = before
    BY DEF Post
<1>2. PICK m \in Nodes : m = Other(n, k)
    BY ConnEnds
<1>3. ASSUME Reaches(n, k)
      PROVE  Gets(before, after, m, k, x)
  <2>1. PICK s \in Seq(Messages) : s = before[m][k]
      BY DEF Wires
  <2>2. PICK t : t = s \o <<x>>
      OBVIOUS
  <2>3. t \in Seq(Messages) /\ t # << >> /\ ToSet(t) = ToSet(s) \cup {x}
      BY <2>2, AppendedSet
  <2>4. after = [before EXCEPT ![m][k] = t]
      BY <1>2, <1>3, <2>1, <2>2 DEF Post, Wires
  <2>5. PICK M : M = Seq(Messages)
      OBVIOUS
  <2>6. Wires = [Nodes -> [Conns -> M]] /\ before \in [Nodes -> [Conns -> M]] /\ t \in M
      BY <2>3, <2>5 DEF Wires
  <2>7. PICK row : row = [before[m] EXCEPT ![k] = t]
      OBVIOUS
  <2>8. row \in [Conns -> M] /\ row[k] = t /\ \A j \in Conns : j # k => row[j] = before[m][j]
      BY <2>6, <2>7
  <2>9. after = [before EXCEPT ![m] = row]
      BY <2>4, <2>7
  <2>10. /\ after \in [Nodes -> [Conns -> M]]
         /\ after[m] = row /\ \A y \in Nodes : y # m => after[y] = before[y]
      BY <2>6, <2>8, <2>9
  <2>11. \A y \in Nodes, j \in Conns : y # m \/ j # k => after[y][j] = before[y][j]
      BY <2>8, <2>10
  <2> QED
      BY <2>1, <2>3, <2>6, <2>8, <2>10, <2>11 DEF Gets
<1> QED
    BY <1>1, <1>2, <1>3

LEMMA TakenIs ==
    ASSUME wire \in Wires, NEW k \in Conns, NEW n \in Nodes, wire[n][k] # << >>
    PROVE  /\ Taken(n, k) \in Wires
           /\ \A y \in Nodes, j \in Conns :
                 y # n \/ j # k => Taken(n, k)[y][j] = wire[y][j]
           /\ ToSet(Taken(n, k)[n][k]) \subseteq ToSet(wire[n][k])
           /\ Head(wire[n][k]) \in Messages /\ Head(wire[n][k]) \in ToSet(wire[n][k])
PROOF
<1>1. PICK s \in Seq(Messages) : s = wire[n][k]
    BY DEF Wires
<1>2. PICK t : t = Tail(s)
    OBVIOUS
<1>3. t \in Seq(Messages) /\ ToSet(t) \subseteq ToSet(s)
      /\ Head(s) \in Messages /\ Head(s) \in ToSet(s)
    BY <1>1, <1>2, TailSubset
<1>4. Taken(n, k) = [wire EXCEPT ![n][k] = t]
    BY <1>1, <1>2 DEF Taken, Wires
<1>5. PICK M : M = Seq(Messages)
    OBVIOUS
<1>6. Wires = [Nodes -> [Conns -> M]] /\ wire \in [Nodes -> [Conns -> M]] /\ t \in M
    BY <1>3, <1>5 DEF Wires
<1>7. PICK row : row = [wire[n] EXCEPT ![k] = t]
    OBVIOUS
<1>8. row \in [Conns -> M] /\ row[k] = t /\ \A j \in Conns : j # k => row[j] = wire[n][j]
    BY <1>6, <1>7
<1>9. Taken(n, k) = [wire EXCEPT ![n] = row]
    BY <1>4, <1>7
<1>10. /\ Taken(n, k) \in [Nodes -> [Conns -> M]]
       /\ Taken(n, k)[n] = row /\ \A y \in Nodes : y # n => Taken(n, k)[y] = wire[y]
    BY <1>6, <1>8, <1>9
<1>11. \A y \in Nodes, j \in Conns : y # n \/ j # k => Taken(n, k)[y][j] = wire[y][j]
    BY <1>8, <1>10
<1> QED
    BY <1>1, <1>3, <1>6, <1>8, <1>10, <1>11

LEMMA SayType == \A type \in Types : Say(type) \in Messages /\ Say(type).type = type
PROOF
BY DEF Say, Messages

-----------------------------------------------------------------------------
(* What a step does to one connection                                      *)

(* Nothing.                                                                *)
Same(k) ==
    /\ path'[k] = path[k]
    /\ \A n \in Nodes : sock'[n][k] = sock[n][k]
    /\ \A n \in Ends(k) : /\ wire'[n][k] = wire[n][k]
                          /\ k \in peers'[n] <=> k \in peers[n]
                          /\ k \in shaken'[n] <=> k \in shaken[n]

LEMMA SameOK ==
    ASSUME NEW k \in Conns, ConnOK(k), Same(k),
           \A n \in Ends(k) : sock[n][k] # "none" /\ n \in up => n \in up'
    PROVE  ConnOK(k)'
PROOF
<1>1. \A n \in Ends(k) : n \in Nodes /\ Other(n, k) \in Ends(k) /\ Other(n, k) \in Nodes
    BY ConnEnds
<1>2. ASSUME NEW n \in Ends(k)
      PROVE  EndOK(n, k)' /\ Facing(n, Other(n, k), k)'
  <2>1. PICK m \in Ends(k) : m = Other(n, k) /\ m \in Nodes /\ n \in Nodes
      BY <1>1
  <2>2. EndOK(n, k) /\ Facing(n, m, k)
      BY <2>1 DEF ConnOK
  <2>3. EndOK(n, k)'
      BY <2>1, <2>2 DEF EndOK, Same
  <2>4. Facing(n, m, k)'
      BY <2>1, <2>2 DEF Facing, Same, Closes
  <2> QED
      BY <2>1, <2>3, <2>4
<1> QED
    BY <1>1, <1>2 DEF ConnOK, Same

(* Away from n and its other end m nothing changes; of m's end only what   *)
(* is on its way to it may, by x being sent on a path that works.          *)
AtEnd(n, m, k, x) ==
    /\ \A y \in Nodes : y # n => sock'[y][k] = sock[y][k]
    /\ k \in peers'[m] <=> k \in peers[m]
    /\ k \in shaken'[m] <=> k \in shaken[m]
    /\ \/ wire'[m][k] = wire[m][k]
       \/ /\ path[k] = "fine" /\ sock[m][k] # "none"
          /\ wire'[m][k] # << >>
          /\ ToSet(wire'[m][k]) = ToSet(wire[m][k]) \cup {x}

(* From the two ends to the connection.                                    *)
LEMMA TwoEnds ==
    ASSUME NEW k \in Conns, NEW n \in Ends(k), NEW m, m = Other(n, k),
           ConnOK(k), \A y \in Nodes : y # n => sock'[y][k] = sock[y][k],
           EndOK(n, k)', EndOK(m, k)', Facing(n, m, k)', Facing(m, n, k)',
           Old(k)' => sock'[n][k] = "none" \/ sock'[m][k] = "none"
    PROVE  ConnOK(k)'
PROOF
<1>1. /\ n \in Nodes /\ m \in Nodes /\ Ends(k) = {n, m} /\ Other(m, k) = n
      /\ Other(n, k) = m
    BY ConnEnds
<1>2. \A y \in Nodes : y \notin Ends(k) => sock'[y][k] = "none"
    BY <1>1 DEF ConnOK
<1>3. \A y \in Ends(k) : EndOK(y, k)' /\ Facing(y, Other(y, k), k)'
    BY <1>1
<1> QED
    BY <1>1, <1>2, <1>3 DEF ConnOK

(* n's socket closes for good.                                             *)
LEMMA ClosedOK ==
    ASSUME NEW k \in Conns, NEW n \in Ends(k), NEW m, m = Other(n, k), ConnOK(k),
           NEW x, AtEnd(n, m, k, x), up \subseteq up',
           sock'[n][k] = "none", wire'[n][k] = << >>,
           k \notin peers'[n], k \notin shaken'[n],
           path'[k] = IF sock[m][k] = "none" THEN "fine" ELSE path[k],
           path[k] = "fine" => sock[m][k] \notin {"open", "connecting"}
    PROVE  ConnOK(k)'
PROOF
<1>1. /\ n \in Nodes /\ m \in Nodes /\ m # n /\ m \in Ends(k) /\ Other(m, k) = n
    BY ConnEnds
<1>2. /\ EndOK(n, k) /\ EndOK(m, k) /\ Facing(n, m, k) /\ Facing(m, n, k)
    BY <1>1 DEF ConnOK
<1>3. sock'[m][k] = sock[m][k] /\ \A y \in Nodes : y # n => sock'[y][k] = sock[y][k]
    BY <1>1 DEF AtEnd
<1>4. EndOK(n, k)'
    BY DEF EndOK
<1>5. EndOK(m, k)'
    BY <1>2, <1>3 DEF EndOK, AtEnd
<1>6. Facing(n, m, k)'
    BY DEF Facing
<1>7. ToSet(wire'[n][k]) = {}
    BY DEF ToSet
<1>8. Facing(m, n, k)'
    BY <1>2, <1>3, <1>7 DEF Facing, Closes
<1> QED
    BY <1>3, <1>4, <1>5, <1>6, <1>8, TwoEnds

(* n's open socket is told to close, whatever it took before.              *)
LEMMA DroppedOK ==
    ASSUME NEW k \in Conns, NEW n \in Ends(k), NEW m, m = Other(n, k), ConnOK(k),
           NEW x, AtEnd(n, m, k, x), up \subseteq up', path'[k] = path[k],
           sock[n][k] = "open", sock'[n][k] = "closing",
           wire'[n][k] = wire[n][k] \/ (wire[n][k] # << >> /\ ~ Dead(k)),
           ToSet(wire'[n][k]) \subseteq ToSet(wire[n][k]),
           k \notin peers'[n], k \in shaken'[n] <=> k \in shaken[n],
           path[k] = "fine" /\ sock[m][k] # "none" => wire'[m][k] # << >>
    PROVE  ConnOK(k)'
PROOF
<1>1. /\ n \in Nodes /\ m \in Nodes /\ m # n /\ m \in Ends(k) /\ Other(m, k) = n
      /\ Ends(k) = {n, m}
    BY ConnEnds
<1>2. /\ EndOK(n, k) /\ EndOK(m, k) /\ Facing(n, m, k) /\ Facing(m, n, k)
    BY <1>1 DEF ConnOK
<1>3. sock'[m][k] = sock[m][k] /\ \A y \in Nodes : y # n => sock'[y][k] = sock[y][k]
    BY <1>1 DEF AtEnd
<1>4. EndOK(n, k)'
    BY <1>2 DEF EndOK
<1>5. EndOK(m, k)'
    BY <1>2, <1>3 DEF EndOK, AtEnd
<1>6. Facing(n, m, k)'
    BY DEF Facing
<1>7. Closes(n, k)' => Closes(n, k)
    BY DEF Closes
<1>8. Facing(m, n, k)'
    BY <1>2, <1>3, <1>7 DEF Facing, AtEnd
<1>9. Old(k) => sock[m][k] = "none"
    BY <1>1 DEF ConnOK
<1> QED
    BY <1>3, <1>4, <1>5, <1>6, <1>8, <1>9, TwoEnds

(* n takes a message and perhaps answers it.                               *)
LEMMA TakenOK ==
    ASSUME NEW k \in Conns, NEW n \in Ends(k), NEW m, m = Other(n, k), ConnOK(k),
           NEW x, AtEnd(n, m, k, x), x.type # "CLOSE", up \subseteq up',
           path'[k] = path[k], sock'[n][k] = sock[n][k],
           sock[n][k] \notin {"none", "connecting"}, wire[n][k] # << >>,
           ToSet(wire'[n][k]) \subseteq ToSet(wire[n][k]),
           k \in peers'[n] <=> k \in peers[n],
           k \in shaken'[n] => sock[n][k] \in {"open", "closing"},
           sock[n][k] = "open" => k \in shaken'[n]
    PROVE  ConnOK(k)'
PROOF
<1>1. /\ n \in Nodes /\ m \in Nodes /\ m # n /\ m \in Ends(k) /\ Other(m, k) = n
      /\ Ends(k) = {n, m}
    BY ConnEnds
<1>2. /\ EndOK(n, k) /\ EndOK(m, k) /\ Facing(n, m, k) /\ Facing(m, n, k)
    BY <1>1 DEF ConnOK
<1>3. sock'[m][k] = sock[m][k] /\ \A y \in Nodes : y # n => sock'[y][k] = sock[y][k]
    BY <1>1 DEF AtEnd
<1>4. EndOK(n, k)'
    BY <1>2 DEF EndOK
<1>5. EndOK(m, k)'
    BY <1>2, <1>3 DEF EndOK, AtEnd
<1>6. Closes(n, k)' => Closes(n, k)
    BY DEF Closes
<1>7. Closes(m, k)' => Closes(m, k)
    BY DEF Closes, AtEnd
<1>8. Facing(n, m, k)'
    BY <1>2, <1>3, <1>7 DEF Facing
<1>9. Facing(m, n, k)'
    BY <1>2, <1>3, <1>6 DEF Facing, AtEnd
<1>10. Old(k) => sock[n][k] = "none" \/ sock[m][k] = "none"
    BY <1>1 DEF ConnOK
<1> QED
    BY <1>3, <1>4, <1>5, <1>8, <1>9, <1>10, TwoEnds

(* n dials on a name that is free.                                         *)
LEMMA DialedOK ==
    ASSUME NEW k \in Conns, NEW n \in Ends(k), NEW m, m = Other(n, k), ConnOK(k),
           n = k[1], Free(k), n \in up', sock'[n][k] = "connecting",
           \A y \in Nodes : y # n => sock'[y][k] = sock[y][k],
           path'[k] = path[k],
           \A y \in Ends(k) : /\ wire'[y][k] = wire[y][k]
                              /\ k \in peers'[y] <=> k \in peers[y]
                              /\ k \in shaken'[y] <=> k \in shaken[y]
    PROVE  ConnOK(k)'
PROOF
<1>1. /\ n \in Nodes /\ m \in Nodes /\ m # n /\ m \in Ends(k) /\ Other(m, k) = n
      /\ Ends(k) = {n, m}
    BY ConnEnds
<1>2. /\ EndOK(n, k) /\ EndOK(m, k) /\ Facing(n, m, k) /\ Facing(m, n, k)
    BY <1>1 DEF ConnOK
<1>3. /\ sock[n][k] = "none" /\ sock[m][k] = "none"
      /\ wire[n][k] = << >> /\ wire[m][k] = << >>
    BY <1>1 DEF Free
<1>4. /\ sock'[m][k] = "none" /\ wire'[n][k] = << >> /\ wire'[m][k] = << >>
    BY <1>1, <1>3
<1>5. EndOK(n, k)' /\ EndOK(m, k)'
    BY <1>1, <1>2, <1>3, <1>4 DEF EndOK
<1>6. ToSet(<< >>) = {}
    BY DEF ToSet
<1>7. Facing(n, m, k)' /\ Facing(m, n, k)'
    BY <1>4, <1>6 DEF Facing, Closes
<1> QED
    BY <1>4, <1>5, <1>7, TwoEnds

-----------------------------------------------------------------------------
(* What an action does to all connections                                  *)

AllOK == \A k \in Conns : ConnOK(k)

(* w is what is on the way, or n has taken something of k.                 *)
Before(w, n, k) ==
    /\ w \in Wires
    /\ \A y \in Nodes, j \in Conns : y # n \/ j # k => w[y][j] = wire[y][j]
    /\ ToSet(w[n][k]) \subseteq ToSet(wire[n][k])
    /\ w = wire \/ wire[n][k] # << >>

(* No peer is won, and what a crash left behind stays so.                  *)
NoNewPeer ==
    \A k \in Conns : \A n \in Ends(k) :
        k \in Peers(n)' => k \in Peers(n) /\ (Old(k) => Old(k)')

LEMMA NoNewPeerOneEach ==
    ASSUME OneEach, NoNewPeer
    PROVE  OneEach'
PROOF
<1> SUFFICES ASSUME NEW j \in Conns, NEW k \in Conns, NEW n \in Ends(k),
                    j # k, Ends(j) = Ends(k), j \in Peers(n)', k \in Peers(n)'
             PROVE  Old(j)' \/ Old(k)'
    BY DEF OneEach
<1>1. /\ j \in Peers(n) /\ k \in Peers(n)
      /\ Old(k) => Old(k)'
      /\ Old(j) => Old(j)'
    BY DEF NoNewPeer
<1> QED
    BY <1>1 DEF OneEach

(* One connection is touched, and it is as it should be.                   *)
LEMMA OneTouched ==
    ASSUME AllOK, NEW k \in Conns, ConnOK(k)', up \subseteq up',
           \A j \in Conns : j # k => Same(j)
    PROVE  AllOK'
PROOF
BY SameOK DEF AllOK

(* Messages sent by n on k, as its other end sees it.                      *)
LEMMA SentOn ==
    ASSUME NEW k \in Conns, NEW n \in Ends(k), NEW m, m = Other(n, k),
           NEW w, Before(w, n, k), NEW x \in Messages,
           NEW after, after = Post(w, n, k, <<x>>)
    PROVE  /\ after \in Wires
           /\ \A y \in Nodes, j \in Conns : j # k => after[y][j] = wire[y][j]
           /\ after[n][k] = w[n][k]
           /\ Reaches(n, k) => /\ path[k] = "fine" /\ sock[m][k] # "none"
                               /\ after[m][k] # << >>
                               /\ ToSet(after[m][k]) = ToSet(wire[m][k]) \cup {x}
           /\ ~ Reaches(n, k) => after = w
PROOF
<1>1. m \in Nodes /\ n \in Nodes /\ m # n
    BY ConnEnds
<1>2. w \in Wires
    BY DEF Before
<1>3. /\ Reaches(n, k) => Gets(w, after, m, k, x)
      /\ ~ Reaches(n, k) => after = w
    BY <1>2, PostIs
<1> QED
    BY <1>1, <1>3 DEF Before, Gets, Reaches

(* The records of n that an action which closes k leaves.                  *)
LEMMA WithoutOne ==
    ASSUME NEW table \in [Nodes -> SUBSET Conns], NEW n \in Nodes, NEW k \in Conns,
           NEW after, after = [table EXCEPT ![n] = @ \ {k}]
    PROVE  /\ after \in [Nodes -> SUBSET Conns]
           /\ k \notin after[n]
           /\ \A y \in Nodes : after[y] \subseteq table[y]
           /\ \A y \in Nodes, j \in Conns : y # n \/ j # k => (j \in after[y] <=> j \in table[y])
PROOF
<1>1. PICK rest : rest = table[n] \ {k}
    OBVIOUS
<1>2. after = [table EXCEPT ![n] = rest] /\ rest \in SUBSET Conns
    BY <1>1
<1>3. after[n] = rest /\ \A y \in Nodes : y # n => after[y] = table[y]
    BY <1>2
<1> QED
    BY <1>1, <1>2, <1>3

LEMMA WithOne ==
    ASSUME NEW table \in [Nodes -> SUBSET Conns], NEW n \in Nodes, NEW k \in Conns,
           NEW after, after = [table EXCEPT ![n] = @ \cup {k}]
    PROVE  /\ after \in [Nodes -> SUBSET Conns]
           /\ k \in after[n]
           /\ \A y \in Nodes, j \in Conns : y # n \/ j # k => (j \in after[y] <=> j \in table[y])
PROOF
<1>1. PICK more : more = table[n] \cup {k}
    OBVIOUS
<1>2. after = [table EXCEPT ![n] = more] /\ more \in SUBSET Conns
    BY <1>1
<1>3. after[n] = more /\ \A y \in Nodes : y # n => after[y] = table[y]
    BY <1>2
<1> QED
    BY <1>1, <1>2, <1>3

LEMMA DropDone ==
    ASSUME LinksTyped, AllOK, NEW k \in Conns, NEW n \in Ends(k),
           NEW w, Before(w, n, k), drop(n, k, w),
           sock[n][k] = "open" \/ wire[n][k] # << >>,
           sock[n][k] \notin {"none", "connecting"},
           UNCHANGED <<up, shaken, path>>
    PROVE  /\ AllOK' /\ NoNewPeer
           /\ sock' \in [Nodes -> [Conns -> States]] /\ wire' \in Wires
           /\ peers' \in [Nodes -> SUBSET Conns]
PROOF
<1>1. PICK m \in Nodes : m = Other(n, k) /\ m # n /\ n \in Nodes
    BY ConnEnds
<1>2. /\ peers \in [Nodes -> SUBSET Conns] /\ peers' = [peers EXCEPT ![n] = @ \ {k}]
      /\ sock \in [Nodes -> [Conns -> States]]
    BY DEF LinksTyped, drop
<1>3. /\ peers' \in [Nodes -> SUBSET Conns]
      /\ \A y \in Nodes : peers'[y] \subseteq peers[y]
      /\ \A y \in Nodes, j \in Conns : y # n \/ j # k => (j \in peers'[y] <=> j \in peers[y])
      /\ k \notin peers'[n]
    BY <1>1, <1>2, WithoutOne
<1>4. \A j \in Conns : \A y \in Ends(j) : y \in Nodes
    BY ConnEnds
<1>5. ConnOK(k) /\ EndOK(n, k)
    BY DEF AllOK, ConnOK
<1>6. NoNewPeer
    BY <1>3, <1>4 DEF NoNewPeer, Peers
<1>7. CASE sock[n][k] = "open"
  <2>1. PICK x : x = Say("CLOSE")
      OBVIOUS
  <2>2. x \in Messages
      BY <2>1, SayType DEF Types
  <2>3. PICK after : after = Post(w, n, k, <<x>>)
      OBVIOUS
  <2>4. sock' = [sock EXCEPT ![n][k] = "closing"] /\ wire' = after
      BY <1>7, <2>1, <2>3 DEF drop
  <2>5. /\ after \in Wires
        /\ \A y \in Nodes, j \in Conns : j # k => after[y][j] = wire[y][j]
        /\ after[n][k] = w[n][k]
        /\ Reaches(n, k) => /\ path[k] = "fine" /\ sock[m][k] # "none"
                            /\ after[m][k] # << >>
                            /\ ToSet(after[m][k]) = ToSet(wire[m][k]) \cup {x}
        /\ ~ Reaches(n, k) => after = w
      BY <1>1, <2>2, <2>3, SentOn
  <2>6. /\ sock' \in [Nodes -> [Conns -> States]]
        /\ sock'[n][k] = "closing"
        /\ \A y \in Nodes, j \in Conns : y # n \/ j # k => sock'[y][j] = sock[y][j]
      BY <1>1, <1>2, <2>4 DEF States
  <2>7. w[m][k] = wire[m][k] /\ ToSet(w[n][k]) \subseteq ToSet(wire[n][k])
        /\ (w[n][k] = wire[n][k] \/ wire[n][k] # << >>)
      BY <1>1 DEF Before
  <2>8. AtEnd(n, m, k, x)
      BY <1>1, <1>3, <2>4, <2>5, <2>6, <2>7 DEF AtEnd
  <2>9. path[k] = "fine" /\ sock[m][k] # "none" => wire'[m][k] # << >>
      BY <1>1, <2>4, <2>5 DEF Reaches
  <2>10. wire'[n][k] = wire[n][k] \/ (wire[n][k] # << >> /\ ~ Dead(k))
      BY <1>5, <2>4, <2>5, <2>7 DEF EndOK
  <2>11. ConnOK(k)'
      BY <1>1, <1>3, <1>5, <1>7, <2>4, <2>5, <2>6, <2>7, <2>8, <2>9, <2>10, DroppedOK
  <2>12. \A j \in Conns : j # k => Same(j)
      BY <1>3, <1>4, <2>4, <2>5, <2>6 DEF Same
  <2>13. AllOK'
      BY <2>11, <2>12, OneTouched
  <2> QED
      BY <1>3, <1>6, <2>4, <2>5, <2>6, <2>13
<1>8. CASE sock[n][k] # "open"
  <2>1. sock' = sock /\ wire' = w
      BY <1>8 DEF drop
  <2>2. k \notin peers[n] /\ (k \in shaken[n] => sock[n][k] \in {"open", "closing"})
      BY <1>5, <1>8 DEF EndOK
  <2>3. PICK x : x = Say("HELLO") /\ x.type # "CLOSE"
      BY SayType DEF Types
  <2>4. /\ w \in Wires /\ ToSet(w[n][k]) \subseteq ToSet(wire[n][k])
        /\ \A y \in Nodes, j \in Conns : y # n \/ j # k => w[y][j] = wire[y][j]
      BY DEF Before
  <2>5. AtEnd(n, m, k, x)
      BY <1>1, <1>3, <2>1, <2>4 DEF AtEnd
  <2>6. ConnOK(k)'
      BY <1>1, <1>3, <1>5, <1>8, <2>1, <2>2, <2>3, <2>4, <2>5, TakenOK
  <2>7. \A j \in Conns : j # k => Same(j)
      BY <1>3, <1>4, <2>1, <2>4 DEF Same
  <2>8. AllOK'
      BY <2>6, <2>7, OneTouched
  <2> QED
      BY <1>2, <1>3, <1>6, <2>1, <2>4, <2>8
<1> QED
    BY <1>7, <1>8

(* n hears no more of k, and m perhaps x.                                  *)
LastWord(n, m, k, x) ==
    /\ wire' \in Wires
    /\ \A y \in Nodes, j \in Conns : j # k => wire'[y][j] = wire[y][j]
    /\ wire'[n][k] = << >>
    /\ \/ wire'[m][k] = wire[m][k]
       \/ /\ path[k] = "fine" /\ sock[m][k] # "none" /\ wire'[m][k] # << >>
          /\ ToSet(wire'[m][k]) = ToSet(wire[m][k]) \cup {x}

LEMMA ClosedDone ==
    ASSUME LinksTyped, AllOK, NEW k \in Conns, NEW n \in Ends(k), NEW m, m = Other(n, k),
           Closed(n, k), sock[n][k] # "none", UNCHANGED <<up, known>>,
           NEW x, LastWord(n, m, k, x),
           path[k] = "fine" => sock[m][k] \notin {"open", "connecting"}
    PROVE  LinksTyped' /\ AllOK' /\ NoNewPeer
PROOF
<1>0. /\ wire' \in Wires
      /\ \A y \in Nodes, j \in Conns : j # k => wire'[y][j] = wire[y][j]
      /\ wire'[n][k] = << >>
      /\ \/ wire'[m][k] = wire[m][k]
         \/ /\ path[k] = "fine" /\ sock[m][k] # "none" /\ wire'[m][k] # << >>
            /\ ToSet(wire'[m][k]) = ToSet(wire[m][k]) \cup {x}
    BY DEF LastWord
<1>1. n \in Nodes /\ m \in Nodes /\ m # n /\ Ends(k) = {n, m}
    BY ConnEnds
<1>2. /\ peers \in [Nodes -> SUBSET Conns] /\ shaken \in [Nodes -> SUBSET Conns]
      /\ silent \in [Nodes -> SUBSET Conns] /\ sock \in [Nodes -> [Conns -> States]]
      /\ dialing \in [Nodes -> SUBSET Nodes]
      /\ path \in [Conns -> {"fine", "cut", "orphan", "lost"}]
    BY DEF LinksTyped
<1>3. /\ peers' \in [Nodes -> SUBSET Conns] /\ k \notin peers'[n]
      /\ \A y \in Nodes : peers'[y] \subseteq peers[y]
      /\ \A y \in Nodes, j \in Conns : y # n \/ j # k => (j \in peers'[y] <=> j \in peers[y])
    BY <1>1, <1>2, WithoutOne DEF Closed
<1>4. /\ shaken' \in [Nodes -> SUBSET Conns] /\ k \notin shaken'[n]
      /\ \A y \in Nodes : shaken'[y] \subseteq shaken[y]
      /\ \A y \in Nodes, j \in Conns : y # n \/ j # k => (j \in shaken'[y] <=> j \in shaken[y])
    BY <1>1, <1>2, WithoutOne DEF Closed
<1>5. silent' \in [Nodes -> SUBSET Conns]
    BY <1>1, <1>2, WithoutOne DEF Closed
<1>6. /\ sock' \in [Nodes -> [Conns -> States]] /\ sock'[n][k] = "none"
      /\ \A y \in Nodes, j \in Conns : y # n \/ j # k => sock'[y][j] = sock[y][j]
    BY <1>1, <1>2 DEF Closed, States
<1>7. /\ path' \in [Conns -> {"fine", "cut", "orphan", "lost"}]
      /\ path'[k] = IF sock[m][k] = "none" THEN "fine" ELSE path[k]
      /\ \A j \in Conns : j # k => path'[j] = path[j]
    BY <1>1, <1>2 DEF Closed
<1>8. dialing' \in [Nodes -> SUBSET Nodes]
    BY <1>1, <1>2 DEF Closed
<1>9. LinksTyped'
    BY <1>0, <1>3, <1>4, <1>5, <1>6, <1>7, <1>8 DEF LinksTyped
<1>10. \A j \in Conns : \A y \in Ends(j) : y \in Nodes
    BY ConnEnds
<1>11. \A j \in Conns : j # k => Same(j)
    BY <1>0, <1>3, <1>4, <1>6, <1>7, <1>10 DEF Same
<1>12. ConnOK(k) /\ EndOK(m, k)
    BY <1>1 DEF AllOK, ConnOK
<1>13. AtEnd(n, m, k, x)
    BY <1>0, <1>1, <1>3, <1>4, <1>6 DEF AtEnd
<1>14. ConnOK(k)'
    BY <1>0, <1>3, <1>4, <1>6, <1>7, <1>12, <1>13, ClosedOK
<1>15. AllOK'
    BY <1>11, <1>14, OneTouched
<1>16. ASSUME NEW j \in Conns, NEW y \in Ends(j), j \in Peers(y)'
       PROVE  j \in Peers(y) /\ (Old(j) => Old(j)')
  <2>1. y \in Nodes
      BY <1>10
  <2>2. j \in Peers(y)
      BY <1>3, <1>4, <1>16, <2>1 DEF Peers
  <2>3. j = k => y = m /\ sock[m][k] = "open"
      BY <1>1, <1>3, <1>12, <1>16, <2>2 DEF Peers, EndOK
  <2> QED
      BY <1>7, <2>2, <2>3
<1> QED
    BY <1>9, <1>15, <1>16 DEF NoNewPeer

-----------------------------------------------------------------------------
(* The actions on one connection                                           *)

(* A conjunct of the invariant at a time.                                  *)
LEMMA Parts ==
    ASSUME LinksInv
    PROVE  /\ LinksTyped /\ AllOK /\ OneEach
           /\ \A k \in Conns : ConnOK(k)
           /\ \A k \in Conns : \A n \in Ends(k) :
                 EndOK(n, k) /\ Facing(n, Other(n, k), k) /\ EndOK(Other(n, k), k)
                 /\ Facing(Other(n, k), n, k)
PROOF
<1>1. \A k \in Conns : \A n \in Ends(k) : Other(n, k) \in Ends(k) /\ Other(Other(n, k), k) = n
    BY ConnEnds
<1> QED
    BY <1>1 DEF LinksInv, AllOK, ConnOK

LEMMA DialFailsOK ==
    ASSUME LinksInv, NEW k \in Conns, DialFails(k)
    PROVE  LinksInv'
PROOF
<1>1. PICK n \in Ends(k), m \in Ends(k) :
          n = k[1] /\ m = k[2] /\ m = Other(n, k) /\ n \in Nodes /\ m \in Nodes /\ m # n
  <2>1. k[1] \in Ends(k) /\ k[2] \in Ends(k)
      BY DEF Ends
  <2> QED
      BY <2>1, ConnEnds
<1>2. LinksTyped /\ AllOK /\ OneEach /\ EndOK(n, k) /\ EndOK(m, k)
    BY <1>1, Parts
<1>3. /\ sock[n][k] = "connecting" /\ Closed(n, k)
      /\ m \notin up \/ path[k] # "fine"
      /\ wire' = [wire EXCEPT ![n][k] = << >>] /\ UNCHANGED <<up, known>>
    BY <1>1 DEF DialFails
<1>4. path[k] = "fine" => sock[m][k] \notin {"open", "connecting"}
    BY <1>1, <1>2, <1>3 DEF EndOK
<1>5. << >> \in Seq(Messages)
    BY EmptySeq
<1>6. /\ wire' \in Wires /\ wire'[n][k] = << >>
      /\ \A y \in Nodes, j \in Conns : y # n \/ j # k => wire'[y][j] = wire[y][j]
    BY <1>1, <1>2, <1>3, <1>5 DEF LinksTyped, Wires
<1>7. /\ \A y \in Nodes, j \in Conns : j # k => wire'[y][j] = wire[y][j]
      /\ wire'[m][k] = wire[m][k]
    BY <1>1, <1>6
<1>8. /\ m = Other(n, k) /\ sock[n][k] # "none" /\ Closed(n, k) /\ UNCHANGED <<up, known>>
      /\ LinksTyped /\ AllOK
    BY <1>1, <1>2, <1>3
<1>9. PICK x : LastWord(n, m, k, x)
    BY <1>6, <1>7 DEF LastWord
<1>10. LinksTyped' /\ AllOK' /\ NoNewPeer
    BY <1>4, <1>8, <1>9, ClosedDone
<1> QED
    BY <1>2, <1>10, NoNewPeerOneEach DEF LinksInv, AllOK

LEMMA HandleCloseOK ==
    ASSUME LinksInv, NEW k \in Conns, NEW n \in Ends(k), HandleClose(n, k),
           sock[n][k] \notin {"none", "connecting"}, wire[n][k] # << >>,
           Head(wire[n][k]).type = "CLOSE"
    PROVE  LinksInv'
PROOF
<1>1. PICK m \in Ends(k) :
          m = Other(n, k) /\ n \in Nodes /\ m \in Nodes /\ m # n /\ Other(m, k) = n
    BY ConnEnds
<1>2. LinksTyped /\ AllOK /\ OneEach /\ EndOK(m, k) /\ Facing(m, n, k)
    BY <1>1, Parts
<1>3. PICK w : w = [wire EXCEPT ![n][k] = << >>]
    OBVIOUS
<1>4. << >> \in Seq(Messages) /\ ToSet(<< >>) = {}
    BY EmptySeq DEF ToSet
<1>5. /\ w \in Wires /\ w[n][k] = << >>
      /\ \A y \in Nodes, j \in Conns : y # n \/ j # k => w[y][j] = wire[y][j]
    BY <1>1, <1>2, <1>3, <1>4 DEF LinksTyped, Wires
<1>6. PICK x \in Messages : x = Say("CLOSE")
    BY SayType DEF Types
<1>7. /\ Closed(n, k) /\ UNCHANGED <<up, known>>
      /\ wire' = IF sock[n][k] = "open" THEN Post(w, n, k, <<x>>) ELSE w
    BY <1>3, <1>6 DEF HandleClose
<1>8. Before(w, n, k)
    BY <1>4, <1>5 DEF Before
<1>9. PICK sent : sent = Post(w, n, k, <<x>>)
    OBVIOUS
<1>10. /\ sent \in Wires
       /\ \A y \in Nodes, j \in Conns : j # k => sent[y][j] = wire[y][j]
       /\ sent[n][k] = w[n][k]
       /\ Reaches(n, k) => /\ path[k] = "fine" /\ sock[m][k] # "none"
                           /\ sent[m][k] # << >>
                           /\ ToSet(sent[m][k]) = ToSet(wire[m][k]) \cup {x}
       /\ ~ Reaches(n, k) => sent = w
    BY <1>1, <1>8, <1>9, SentOn
<1>11. path[k] = "fine" => sock[m][k] \notin {"open", "connecting"}
  <2>1. Head(wire[n][k]) \in ToSet(wire[n][k])
      BY <1>1, <1>2, TakenIs DEF LinksTyped
  <2>2. Closes(n, k)
      BY <2>1 DEF Closes
  <2> QED
      BY <1>2, <2>2 DEF Facing
<1>12. /\ wire' \in Wires /\ wire'[n][k] = << >>
       /\ \A y \in Nodes, j \in Conns : j # k => wire'[y][j] = wire[y][j]
       /\ \/ wire'[m][k] = wire[m][k]
          \/ /\ path[k] = "fine" /\ sock[m][k] # "none" /\ wire'[m][k] # << >>
             /\ ToSet(wire'[m][k]) = ToSet(wire[m][k]) \cup {x}
    BY <1>1, <1>5, <1>7, <1>9, <1>10
<1>13. LastWord(n, m, k, x)
    BY <1>12 DEF LastWord
<1>14. sock[n][k] # "none" /\ m = Other(n, k)
    BY <1>1
<1>15. LinksTyped' /\ AllOK' /\ NoNewPeer
    BY <1>2, <1>7, <1>11, <1>13, <1>14, ClosedDone
<1> QED
    BY <1>2, <1>15, NoNewPeerOneEach DEF LinksInv, AllOK

LEMMA GiveUpOK ==
    ASSUME LinksInv, NEW k \in Conns, NEW n \in Ends(k), GiveUp(n, k)
    PROVE  LinksInv'
PROOF
<1>1. LinksTyped /\ AllOK /\ OneEach /\ EndOK(n, k) /\ n \in Nodes
    BY Parts, ConnEnds
<1>2. /\ sock[n][k] # "none" /\ Dead(k) /\ Closed(n, k)
      /\ wire' = wire /\ UNCHANGED <<up, known>>
    BY DEF GiveUp
<1>3. PICK m, x : m = Other(n, k) /\ x = Say("CLOSE")
    OBVIOUS
<1>4. LastWord(n, m, k, x)
    BY <1>1, <1>2 DEF LinksTyped, EndOK, LastWord
<1>5. path[k] # "fine"
    BY <1>2
<1>6. LinksTyped' /\ AllOK' /\ NoNewPeer
    BY <1>1, <1>2, <1>3, <1>4, <1>5, ClosedDone
<1> QED
    BY <1>1, <1>6, NoNewPeerOneEach DEF LinksInv, AllOK

(* drop, at the end of an action.                                          *)
LEMMA DropOK ==
    ASSUME LinksInv, NEW k \in Conns, NEW n \in Ends(k),
           NEW w, Before(w, n, k), drop(n, k, w),
           sock[n][k] = "open" \/ wire[n][k] # << >>,
           sock[n][k] \notin {"none", "connecting"},
           UNCHANGED <<up, known, dialing, shaken, silent, path>>
    PROVE  LinksInv'
PROOF
<1>1. LinksTyped /\ AllOK /\ OneEach
    BY Parts
<1>2. /\ AllOK' /\ NoNewPeer
      /\ sock' \in [Nodes -> [Conns -> States]] /\ wire' \in Wires
      /\ peers' \in [Nodes -> SUBSET Conns]
    BY <1>1, DropDone
<1> QED
    BY <1>1, <1>2, NoNewPeerOneEach DEF LinksInv, AllOK, LinksTyped

LEMMA WireBefore ==
    ASSUME LinksInv, NEW k \in Conns, NEW n \in Ends(k)
    PROVE  /\ Before(wire, n, k)
           /\ wire[n][k] # << >> =>
                 Before(Taken(n, k), n, k) /\ Head(wire[n][k]) \in Messages
PROOF
<1>1. wire \in Wires /\ n \in Nodes
    BY Parts, ConnEnds DEF LinksTyped
<1> QED
    BY <1>1, TakenIs DEF Before

LEMMA HandshakeTimeoutOK ==
    ASSUME LinksInv, NEW k \in Conns, NEW n \in Ends(k), HandshakeTimeout(n, k)
    PROVE  LinksInv'
PROOF
<1>1. sock[n][k] = "open"
    BY Parts DEF HandshakeTimeout, EndOK
<1> QED
    BY <1>1, DropOK, WireBefore DEF HandshakeTimeout

LEMMA HeartbeatOK ==
    ASSUME LinksInv, NEW k \in Conns, NEW n \in Ends(k), Heartbeat(n, k)
    PROVE  LinksInv'
PROOF
<1>1. sock[n][k] = "open"
    BY Parts DEF Heartbeat, EndOK
<1>2. CASE k \in silent[n]
    BY <1>1, <1>2, DropOK, WireBefore DEF Heartbeat
<1>3. CASE k \notin silent[n]
  <2>1. silent' = [silent EXCEPT ![n] = @ \cup {k}]
        /\ UNCHANGED <<up, known, dialing, peers, shaken, sock, wire, path>>
      BY <1>3 DEF Heartbeat
  <2>2. LinksTyped /\ AllOK /\ OneEach /\ n \in Nodes
      BY Parts, ConnEnds
  <2>3. silent' \in [Nodes -> SUBSET Conns]
      BY <2>1, <2>2, WithOne DEF LinksTyped
  <2>4. \A j \in Conns : Same(j)
      BY <2>1 DEF Same
  <2>5. AllOK'
      BY <2>1, <2>2, <2>4, SameOK DEF AllOK
  <2>6. NoNewPeer
      BY <2>1 DEF NoNewPeer, Peers
  <2> QED
      BY <2>1, <2>2, <2>3, <2>5, <2>6, NoNewPeerOneEach DEF LinksInv, AllOK, LinksTyped
<1> QED
    BY <1>2, <1>3

LEMMA AcceptOK ==
    ASSUME LinksInv, NEW k \in Conns, Accept(k)
    PROVE  LinksInv'
PROOF
<1>1. PICK n \in Ends(k), m \in Ends(k) :
          n = k[2] /\ m = k[1] /\ m = Other(n, k) /\ n \in Nodes /\ m \in Nodes /\ m # n
          /\ Other(m, k) = n
  <2>1. k[1] \in Ends(k) /\ k[2] \in Ends(k)
      BY DEF Ends
  <2> QED
      BY <2>1, ConnEnds
<1>2. LinksTyped /\ AllOK /\ OneEach /\ ConnOK(k)
      /\ EndOK(n, k) /\ EndOK(m, k) /\ Facing(m, n, k)
    BY <1>1, Parts
<1>3. PICK full \in BOOLEAN : full <=> Cardinality(peers[n]) >= MAX_PEERS
    OBVIOUS
<1>4. PICK type \in {"CLOSE", "HELLO"} : type = IF full THEN "CLOSE" ELSE "HELLO"
    OBVIOUS
<1>5. PICK x \in Messages : x = Say(type) /\ x.type = type
    BY SayType DEF Types
<1>6. PICK sent : sent = Post(wire, n, k, <<x>>)
    OBVIOUS
<1>7. /\ n \in up /\ path[k] = "fine" /\ sock[m][k] = "connecting" /\ sock[n][k] = "none"
      /\ sock' = [sock EXCEPT ![n][k] = IF full THEN "refused" ELSE "open"]
      /\ peers' = IF full THEN peers ELSE [peers EXCEPT ![n] = @ \cup {k}]
      /\ wire' = sent
      /\ UNCHANGED <<up, known, dialing, shaken, silent, path>>
    BY <1>1, <1>3, <1>4, <1>5, <1>6 DEF Accept
<1>8. Before(wire, n, k)
    BY WireBefore
<1>9. Reaches(n, k)
    BY <1>1, <1>7 DEF Reaches
<1>10. /\ sent \in Wires
       /\ \A y \in Nodes, j \in Conns : j # k => sent[y][j] = wire[y][j]
       /\ sent[n][k] = wire[n][k]
       /\ sent[m][k] # << >> /\ ToSet(sent[m][k]) = ToSet(wire[m][k]) \cup {x}
    BY <1>1, <1>6, <1>8, <1>9, SentOn
<1>11. /\ sock' \in [Nodes -> [Conns -> States]]
       /\ sock'[n][k] = IF full THEN "refused" ELSE "open"
       /\ \A y \in Nodes, j \in Conns : y # n \/ j # k => sock'[y][j] = sock[y][j]
    BY <1>1, <1>2, <1>7 DEF LinksTyped, States
<1>12. /\ peers' \in [Nodes -> SUBSET Conns]
       /\ \A y \in Nodes, j \in Conns : y # n \/ j # k => (j \in peers'[y] <=> j \in peers[y])
       /\ full => (k \in peers'[n] <=> k \in peers[n])
       /\ ~ full => k \in peers'[n]
    BY <1>1, <1>2, <1>7, WithOne DEF LinksTyped
<1>13. LinksTyped'
    BY <1>2, <1>7, <1>10, <1>11, <1>12 DEF LinksTyped
<1>14. k \notin shaken[n] /\ k \notin peers[n] /\ wire[n][k] = << >> /\ wire[m][k] = << >>
    BY <1>2, <1>7 DEF EndOK, Facing
<1>15. ToSet(<< >>) = {}
    BY DEF ToSet
<1>16. ~ Closes(n, k)' /\ (Closes(m, k)' => full)
    BY <1>4, <1>5, <1>7, <1>10, <1>14, <1>15 DEF Closes
<1>17. EndOK(n, k)' /\ EndOK(m, k)'
    BY <1>1, <1>2, <1>7, <1>10, <1>11, <1>12, <1>14 DEF EndOK
<1>18. Facing(n, m, k)'
    BY <1>1, <1>7, <1>11, <1>16 DEF Facing
<1>19. Facing(m, n, k)'
    BY <1>1, <1>7, <1>10, <1>11, <1>14, <1>16 DEF Facing
<1>20. m = Other(n, k) /\ ~ Old(k)'
    BY <1>1, <1>7
<1>21. \A y \in Nodes : y # n => sock'[y][k] = sock[y][k]
    BY <1>11
<1>22. ConnOK(k)'
    BY <1>2, <1>17, <1>18, <1>19, <1>20, <1>21, TwoEnds
<1>23. \A j \in Conns : \A y \in Ends(j) : y \in Nodes
    BY ConnEnds
<1>24. \A j \in Conns : j # k => Same(j)
    BY <1>7, <1>10, <1>11, <1>12, <1>23 DEF Same
<1>25. AllOK'
    BY <1>2, <1>7, <1>22, <1>24, OneTouched
<1>26. NoNewPeer
    BY <1>7, <1>12, <1>14, <1>23 DEF NoNewPeer, Peers
<1> QED
    BY <1>2, <1>13, <1>25, <1>26, NoNewPeerOneEach DEF LinksInv, AllOK

LEMMA OpenOK ==
    ASSUME LinksInv, NEW k \in Conns, Open(k)
    PROVE  LinksInv'
PROOF
<1>1. PICK n \in Ends(k), m \in Ends(k) :
          n = k[1] /\ m = k[2] /\ m = Other(n, k) /\ n \in Nodes /\ m \in Nodes /\ m # n
          /\ Other(m, k) = n
  <2>1. k[1] \in Ends(k) /\ k[2] \in Ends(k)
      BY DEF Ends
  <2> QED
      BY <2>1, ConnEnds
<1>2. LinksTyped /\ AllOK /\ OneEach /\ ConnOK(k)
      /\ EndOK(n, k) /\ EndOK(m, k) /\ Facing(n, m, k) /\ Facing(m, n, k)
    BY <1>1, Parts
<1>3. PICK x \in Messages : x = Say("HELLO") /\ x.type = "HELLO"
    BY SayType DEF Types
<1>4. PICK sent : sent = Post(wire, n, k, <<x>>)
    OBVIOUS
<1>5. /\ path[k] = "fine" /\ sock[n][k] = "connecting" /\ sock[m][k] # "none"
      /\ sock' = [sock EXCEPT ![n][k] = "open"]
      /\ peers' = [peers EXCEPT ![n] = @ \cup {k}]
      /\ dialing' = [dialing EXCEPT ![n] = @ \ {m}]
      /\ wire' = sent
      /\ UNCHANGED <<up, known, shaken, silent, path>>
    BY <1>1, <1>3, <1>4 DEF Open
<1>6. Before(wire, n, k)
    BY WireBefore
<1>7. Reaches(n, k) /\ m = Other(n, k)
    BY <1>1, <1>5 DEF Reaches
<1>8. /\ sent \in Wires
      /\ \A y \in Nodes, j \in Conns : j # k => sent[y][j] = wire[y][j]
      /\ sent[n][k] = wire[n][k]
      /\ sent[m][k] # << >> /\ ToSet(sent[m][k]) = ToSet(wire[m][k]) \cup {x}
    BY <1>4, <1>6, <1>7, SentOn
<1>9. /\ sock' \in [Nodes -> [Conns -> States]] /\ sock'[n][k] = "open"
      /\ \A y \in Nodes, j \in Conns : y # n \/ j # k => sock'[y][j] = sock[y][j]
    BY <1>1, <1>2, <1>5 DEF LinksTyped, States
<1>10. /\ peers' \in [Nodes -> SUBSET Conns] /\ k \in peers'[n]
       /\ \A y \in Nodes, j \in Conns : y # n \/ j # k => (j \in peers'[y] <=> j \in peers[y])
    BY <1>1, <1>2, <1>5, WithOne DEF LinksTyped
<1>11. dialing' \in [Nodes -> SUBSET Nodes]
    BY <1>1, <1>2, <1>5 DEF LinksTyped
<1>12. LinksTyped'
    BY <1>2, <1>5, <1>8, <1>9, <1>10, <1>11 DEF LinksTyped
<1>13. k \notin shaken[n] /\ wire[m][k] = << >> /\ wire[n][k] # << >> /\ n \in up
       /\ sock[m][k] # "connecting"
    BY <1>1, <1>2, <1>5 DEF EndOK, Facing
<1>14. ToSet(<< >>) = {}
    BY DEF ToSet
<1>15. ~ Closes(m, k)' /\ (Closes(n, k)' => Closes(n, k))
    BY <1>3, <1>5, <1>8, <1>13, <1>14 DEF Closes
<1>16. EndOK(n, k)' /\ EndOK(m, k)'
    BY <1>1, <1>2, <1>5, <1>8, <1>9, <1>10, <1>13 DEF EndOK
<1>17. Facing(n, m, k)'
    BY <1>1, <1>5, <1>8, <1>9, <1>13, <1>15 DEF Facing
<1>18. Facing(m, n, k)'
    BY <1>1, <1>2, <1>5, <1>8, <1>9, <1>13, <1>15 DEF Facing
<1>19. m = Other(n, k) /\ ~ Old(k)'
    BY <1>1, <1>5
<1>20. \A y \in Nodes : y # n => sock'[y][k] = sock[y][k]
    BY <1>9
<1>21. ConnOK(k)'
    BY <1>2, <1>16, <1>17, <1>18, <1>19, <1>20, TwoEnds
<1>22. \A j \in Conns : \A y \in Ends(j) : y \in Nodes
    BY ConnEnds
<1>23. \A j \in Conns : j # k => Same(j)
    BY <1>5, <1>8, <1>9, <1>10, <1>22 DEF Same
<1>24. AllOK'
    BY <1>2, <1>5, <1>21, <1>23, OneTouched
<1>25. NoNewPeer
    BY <1>5, <1>10, <1>13, <1>22 DEF NoNewPeer, Peers
<1> QED
    BY <1>2, <1>12, <1>24, <1>25, NoNewPeerOneEach DEF LinksInv, AllOK

LEMMA CutOK ==
    ASSUME LinksInv, NEW k \in Conns, Cut(k)
    PROVE  LinksInv'
PROOF
<1>1. PICK n \in Ends(k), m \in Ends(k) :
          m = Other(n, k) /\ n \in Nodes /\ m \in Nodes /\ m # n /\ Other(m, k) = n
  <2>1. k[1] \in Ends(k)
      BY DEF Ends
  <2>2. Other(k[1], k) \in Ends(k)
      BY <2>1, ConnEnds
  <2> QED
      BY <2>1, <2>2, ConnEnds
<1>2. LinksTyped /\ AllOK /\ OneEach /\ ConnOK(k) /\ EndOK(n, k) /\ EndOK(m, k)
    BY <1>1, Parts
<1>3. /\ path' = [path EXCEPT ![k] = IF Old(k) THEN "lost" ELSE "cut"]
      /\ wire' = [y \in Nodes |-> [wire[y] EXCEPT ![k] = << >>]]
      /\ UNCHANGED <<up, known, dialing, peers, shaken, silent, sock>>
    BY DEF Cut, nodeVars
<1>4. << >> \in Seq(Messages)
    BY EmptySeq
<1>5. /\ wire' \in Wires
      /\ \A y \in Nodes : wire'[y][k] = << >>
      /\ \A y \in Nodes, j \in Conns : j # k => wire'[y][j] = wire[y][j]
  <2> SUFFICES ASSUME NEW y \in Nodes
               PROVE  /\ wire'[y] \in [Conns -> Seq(Messages)] /\ wire'[y][k] = << >>
                      /\ \A j \in Conns : j # k => wire'[y][j] = wire[y][j]
      BY <1>3 DEF Wires
  <2>1. wire'[y] = [wire[y] EXCEPT ![k] = << >>]
      BY <1>3
  <2>2. wire[y] \in [Conns -> Seq(Messages)]
      BY <1>2 DEF LinksTyped, Wires
  <2> QED
      BY <1>4, <2>1, <2>2
<1>6. /\ path' \in [Conns -> {"fine", "cut", "orphan", "lost"}]
      /\ path'[k] # "fine" /\ Old(k)' = Old(k)
      /\ \A j \in Conns : j # k => path'[j] = path[j]
    BY <1>2, <1>3 DEF LinksTyped
<1>7. LinksTyped'
    BY <1>2, <1>3, <1>5, <1>6 DEF LinksTyped
<1>8. EndOK(n, k)' /\ EndOK(m, k)'
    BY <1>1, <1>2, <1>3, <1>5 DEF EndOK
<1>9. Facing(n, m, k)' /\ Facing(m, n, k)'
    BY <1>6 DEF Facing
<1>10. m = Other(n, k) /\ \A y \in Nodes : y # n => sock'[y][k] = sock[y][k]
    BY <1>1, <1>3
<1>11. ConnOK(k)'
  <2>1. Old(k) => sock[n][k] = "none" \/ sock[m][k] = "none"
      BY <1>1, <1>2, ConnEnds DEF ConnOK
  <2> QED
      BY <1>2, <1>3, <1>6, <1>8, <1>9, <1>10, <2>1, TwoEnds
<1>12. \A j \in Conns : \A y \in Ends(j) : y \in Nodes
    BY ConnEnds
<1>13. \A j \in Conns : j # k => Same(j)
    BY <1>3, <1>5, <1>6, <1>12 DEF Same
<1>14. AllOK'
    BY <1>2, <1>3, <1>11, <1>13, OneTouched
<1>15. NoNewPeer
    BY <1>3, <1>6 DEF NoNewPeer, Peers
<1> QED
    BY <1>2, <1>7, <1>14, <1>15, NoNewPeerOneEach DEF LinksInv, AllOK

(* A crash leaves orphans behind, and a CLOSE where it can.                *)
LEMMA CrashOK ==
    ASSUME LinksInv, NEW n \in Nodes, Crash(n)
    PROVE  LinksInv'
PROOF
<1>1. LinksTyped /\ AllOK /\ OneEach
    BY Parts
<1>2. PICK x \in Messages : x = Say("CLOSE")
    BY SayType DEF Types
<1>3. /\ up' = up \ {n}
      /\ known' = [known EXCEPT ![n] = {}] /\ dialing' = [dialing EXCEPT ![n] = {}]
      /\ peers' = [peers EXCEPT ![n] = {}] /\ shaken' = [shaken EXCEPT ![n] = {}]
      /\ silent' = [silent EXCEPT ![n] = {}]
      /\ sock' = [sock EXCEPT ![n] = [k \in Conns |-> "none"]]
    BY DEF Crash
<1>4. wire' = [m \in Nodes |-> [k \in Conns |->
                 IF m = n THEN << >>
                 ELSE IF sock[n][k] # "none" /\ Reaches(n, k)
                 THEN Append(wire[m][k], x)
                 ELSE wire[m][k]]]
    BY <1>2 DEF Crash
<1>5. path' = [k \in Conns |->
                 IF n \notin Ends(k) THEN path[k]
                 ELSE IF sock[Other(n, k)][k] = "none" THEN "fine"
                 ELSE IF Dead(k) THEN "lost" ELSE "orphan"]
    BY DEF Crash
<1>6. wire' \in Wires
  <2> SUFFICES ASSUME NEW y \in Nodes, NEW k \in Conns
               PROVE  wire'[y][k] \in Seq(Messages)
      BY <1>4 DEF Wires
  <2>1. PICK s \in Seq(Messages) : s = wire[y][k]
      BY <1>1 DEF LinksTyped, Wires
  <2>2. Append(s, x) \in Seq(Messages)
      BY AppendProperties
  <2>3. << >> \in Seq(Messages)
      BY EmptySeq
  <2>4. wire'[y][k] \in {<< >>, Append(s, x), s}
      BY <1>4, <2>1
  <2> QED
      BY <2>1, <2>2, <2>3, <2>4
<1>7. /\ \A k \in Conns : wire'[n][k] = << >>
      /\ \A y \in Nodes, k \in Conns :
            y # n /\ ~ (sock[n][k] # "none" /\ Reaches(n, k)) => wire'[y][k] = wire[y][k]
    BY <1>4
<1>8. /\ sock' \in [Nodes -> [Conns -> States]]
      /\ \A k \in Conns : sock'[n][k] = "none"
      /\ \A y \in Nodes, k \in Conns : y # n => sock'[y][k] = sock[y][k]
  <2>1. PICK none : none = [k \in Conns |-> "none"]
      OBVIOUS
  <2>2. none \in [Conns -> States] /\ \A k \in Conns : none[k] = "none"
      BY <2>1 DEF States
  <2>3. sock' = [sock EXCEPT ![n] = none]
      BY <1>3, <2>1
  <2> QED
      BY <1>1, <2>2, <2>3 DEF LinksTyped
<1>9. /\ peers' \in [Nodes -> SUBSET Conns] /\ peers'[n] = {}
      /\ \A y \in Nodes : y # n => peers'[y] = peers[y]
    BY <1>1, <1>3 DEF LinksTyped
<1>10. /\ shaken' \in [Nodes -> SUBSET Conns] /\ shaken'[n] = {}
       /\ \A y \in Nodes : y # n => shaken'[y] = shaken[y]
    BY <1>1, <1>3 DEF LinksTyped
<1>11. silent' \in [Nodes -> SUBSET Conns] /\ known' \in [Nodes -> SUBSET Nodes]
       /\ dialing' \in [Nodes -> SUBSET Nodes] /\ up' \subseteq Nodes
    BY <1>1, <1>3 DEF LinksTyped
<1>12. path' \in [Conns -> {"fine", "cut", "orphan", "lost"}]
  <2> SUFFICES ASSUME NEW k \in Conns
               PROVE  path'[k] \in {"fine", "cut", "orphan", "lost"}
      BY <1>5
  <2>1. path[k] \in {"fine", "cut", "orphan", "lost"}
      BY <1>1 DEF LinksTyped
  <2> QED
      BY <1>5, <2>1
<1>13. LinksTyped'
    BY <1>6, <1>8, <1>9, <1>10, <1>11, <1>12 DEF LinksTyped
<1>14. \A k \in Conns : \A y \in Ends(k) : y \in Nodes
    BY ConnEnds
<1>15. ASSUME NEW k \in Conns, n \notin Ends(k)
       PROVE  ConnOK(k)'
  <2>1. ConnOK(k) /\ sock[n][k] = "none"
      BY <1>1, <1>15 DEF AllOK, ConnOK
  <2>2. \A y \in Ends(k) : y # n /\ y \in Nodes
      BY <1>14, <1>15
  <2>3. path'[k] = path[k]
      BY <1>5, <1>15
  <2>4. \A y \in Ends(k) : /\ wire'[y][k] = wire[y][k]
                           /\ k \in peers'[y] <=> k \in peers[y]
                           /\ k \in shaken'[y] <=> k \in shaken[y]
      BY <1>7, <1>9, <1>10, <2>1, <2>2
  <2>5. \A y \in Nodes : sock'[y][k] = sock[y][k]
      BY <1>8, <2>1
  <2>6. Same(k)
      BY <2>3, <2>4, <2>5 DEF Same
  <2>7. \A y \in Ends(k) : y \in up => y \in up'
      BY <1>3, <2>2
  <2> QED
      BY <2>1, <2>6, <2>7, SameOK
<1>16. ASSUME NEW k \in Conns, n \in Ends(k)
       PROVE  ConnOK(k)'
  <2>1. PICK m \in Ends(k) : m = Other(n, k) /\ m \in Nodes /\ m # n
      BY <1>16, ConnEnds
  <2>2. ConnOK(k) /\ EndOK(n, k) /\ EndOK(m, k)
      BY <1>1, <1>16, <2>1 DEF AllOK, ConnOK
  <2>3. sock[m][k] = "none" \/ path[k] # "fine" => wire'[m][k] = wire[m][k]
      BY <1>7, <2>1 DEF Reaches
  <2>4. /\ sock[m][k] = "none" => path'[k] = "fine"
        /\ sock[m][k] # "none" => path'[k] # "fine" /\ (Dead(k)' => Dead(k))
      BY <1>5, <1>16, <2>1
  <2>5. sock'[n][k] = "none" /\ wire'[n][k] = << >> /\ sock'[m][k] = sock[m][k]
        /\ k \notin peers'[n] /\ k \notin shaken'[n]
        /\ peers'[m] = peers[m] /\ shaken'[m] = shaken[m]
      BY <1>7, <1>8, <1>9, <1>10, <2>1
  <2>6. EndOK(n, k)'
      BY <2>5 DEF EndOK
  <2>7. EndOK(m, k)'
      BY <1>3, <2>1, <2>2, <2>3, <2>4, <2>5 DEF EndOK
  <2>8. Facing(n, m, k)'
      BY <2>5 DEF Facing
  <2>9. ~ Closes(n, k)'
      BY <2>5 DEF Closes, ToSet
  <2>10. Facing(m, n, k)'
      BY <2>4, <2>5, <2>9 DEF Facing
  <2>11. \A y \in Nodes : y # n => sock'[y][k] = sock[y][k]
      BY <1>8
  <2> QED
      BY <1>16, <2>1, <2>2, <2>5, <2>6, <2>7, <2>8, <2>10, <2>11, TwoEnds
<1>17. AllOK'
    BY <1>15, <1>16 DEF AllOK
<1>18. ASSUME NEW k \in Conns, NEW y \in Ends(k), k \in Peers(y)'
       PROVE  k \in Peers(y) /\ (Old(k) => Old(k)')
  <2>1. y \in Nodes /\ y # n /\ k \in Peers(y)
      BY <1>9, <1>10, <1>14, <1>18 DEF Peers
  <2>2. sock[y][k] # "none"
      BY <1>1, <2>1 DEF AllOK, ConnOK, EndOK, Peers
  <2>3. n \in Ends(k) => y = Other(n, k)
      BY <2>1, ConnEnds
  <2> QED
      BY <1>5, <2>1, <2>2, <2>3
<1> QED
    BY <1>1, <1>13, <1>17, <1>18, NoNewPeerOneEach DEF LinksInv, AllOK, NoNewPeer

-----------------------------------------------------------------------------
(* Dialling                                                                *)

LEMMA DialsFree ==
    ASSUME NEW n \in Nodes, NEW addresses \in SUBSET Nodes,
           NEW new, new = Dials(n, addresses)
    PROVE  new \subseteq Conns /\ \A k \in new : k[1] = n /\ Free(k)
PROOF
BY DEF Dials

(* What n dials is connecting, and the rest as it was.                     *)
LEMMA DialDone ==
    ASSUME LinksTyped, AllOK, NEW n \in Nodes, NEW new \in SUBSET Conns,
           \A k \in new : k[1] = n /\ Free(k),
           Dial(n, new), n \in up', up \subseteq up', UNCHANGED <<peers, shaken, path>>
    PROVE  /\ sock' \in [Nodes -> [Conns -> States]]
           /\ dialing' \in [Nodes -> SUBSET Nodes]
           /\ \A k \in Conns : k \notin new => \A y \in Nodes : sock'[y][k] = sock[y][k]
           /\ \A k \in Conns :
                  (\A y \in Ends(k) : wire'[y][k] = wire[y][k]) => ConnOK(k)'
           /\ NoNewPeer
PROOF
<1>1. PICK socks : socks = [k \in Conns |-> IF k \in new THEN "connecting" ELSE sock[n][k]]
    OBVIOUS
<1>2. socks \in [Conns -> States]
    BY <1>1 DEF LinksTyped, States
<1>3. sock' = [sock EXCEPT ![n] = socks]
    BY <1>1 DEF Dial, LinksTyped
<1>4. /\ sock' \in [Nodes -> [Conns -> States]] /\ sock'[n] = socks
      /\ \A y \in Nodes : y # n => sock'[y] = sock[y]
    BY <1>2, <1>3 DEF LinksTyped
<1>5. \A k \in Conns : k \notin new => \A y \in Nodes : sock'[y][k] = sock[y][k]
    BY <1>1, <1>4
<1>6. dialing' \in [Nodes -> SUBSET Nodes]
  <2>1. PICK more : more = dialing[n] \cup {k[2] : k \in new}
      OBVIOUS
  <2>2. more \in SUBSET Nodes
      BY <2>1, LinksAssumption DEF LinksTyped
  <2>3. dialing' = [dialing EXCEPT ![n] = more]
      BY <2>1 DEF Dial, LinksTyped
  <2> QED
      BY <2>2, <2>3 DEF LinksTyped
<1>7. ASSUME NEW k \in Conns, \A y \in Ends(k) : wire'[y][k] = wire[y][k]
      PROVE  ConnOK(k)'
  <2>1. ConnOK(k) /\ \A y \in Ends(k) : y \in Nodes
      BY ConnEnds DEF AllOK
  <2>2. CASE k \in new
    <3>1. k[1] = n /\ Free(k) /\ n \in Ends(k)
        BY <2>2 DEF Ends
    <3>2. PICK m : m = Other(n, k)
        OBVIOUS
    <3>3. sock'[n][k] = "connecting" /\ \A y \in Nodes : y # n => sock'[y][k] = sock[y][k]
        BY <1>1, <1>4, <2>2
    <3> QED
        BY <1>7, <2>1, <3>1, <3>2, <3>3, DialedOK
  <2>3. CASE k \notin new
    <3>1. Same(k)
        BY <1>5, <1>7, <2>3 DEF Same
    <3> QED
        BY <2>1, <3>1, SameOK
  <2> QED
      BY <2>2, <2>3
<1>8. NoNewPeer
    BY DEF NoNewPeer, Peers
<1> QED
    BY <1>4, <1>5, <1>6, <1>7, <1>8

LEMMA RedialOK ==
    ASSUME LinksInv, NEW n \in Nodes, Redial(n)
    PROVE  LinksInv'
PROOF
<1>1. LinksTyped /\ AllOK /\ OneEach
    BY Parts
<1>2. PICK new : new = Dials(n, known[n])
    OBVIOUS
<1>3. /\ n \in up /\ Dial(n, new)
      /\ UNCHANGED <<up, known, peers, shaken, silent, wire, path>>
    BY <1>2 DEF Redial
<1>4. new \in SUBSET Conns /\ \A k \in new : k[1] = n /\ Free(k)
    BY <1>1, <1>2, DialsFree DEF LinksTyped
<1>5. /\ sock' \in [Nodes -> [Conns -> States]] /\ dialing' \in [Nodes -> SUBSET Nodes]
      /\ \A k \in Conns :
             (\A y \in Ends(k) : wire'[y][k] = wire[y][k]) => ConnOK(k)'
      /\ NoNewPeer
    BY <1>1, <1>3, <1>4, DialDone
<1>6. AllOK'
    BY <1>3, <1>5 DEF AllOK
<1> QED
    BY <1>1, <1>3, <1>5, <1>6, NoNewPeerOneEach DEF LinksInv, AllOK, LinksTyped

LEMMA StartOK ==
    ASSUME LinksInv, NEW n \in Nodes, Start(n)
    PROVE  LinksInv'
PROOF
<1>1. LinksTyped /\ AllOK /\ OneEach
    BY Parts
<1>2. PICK new : new = Dials(n, Bootstrap[n])
    OBVIOUS
<1>3. /\ up' = up \cup {n} /\ known' = [known EXCEPT ![n] = Bootstrap[n]] /\ Dial(n, new)
      /\ UNCHANGED <<peers, shaken, silent, wire, path>>
    BY <1>2 DEF Start
<1>4. Bootstrap[n] \in SUBSET Nodes
    BY LinksAssumption
<1>5. new \in SUBSET Conns /\ \A k \in new : k[1] = n /\ Free(k)
    BY <1>2, <1>4, DialsFree
<1>6. n \in up' /\ up \subseteq up'
    BY <1>3
<1>7. /\ sock' \in [Nodes -> [Conns -> States]] /\ dialing' \in [Nodes -> SUBSET Nodes]
      /\ \A k \in Conns :
             (\A y \in Ends(k) : wire'[y][k] = wire[y][k]) => ConnOK(k)'
      /\ NoNewPeer
    BY <1>1, <1>3, <1>5, <1>6, DialDone
<1>8. AllOK'
    BY <1>3, <1>7 DEF AllOK
<1>9. LinksTyped'
    BY <1>1, <1>3, <1>4, <1>7 DEF LinksTyped
<1> QED
    BY <1>1, <1>7, <1>8, <1>9, NoNewPeerOneEach DEF LinksInv, AllOK

-----------------------------------------------------------------------------
(* What is received                                                        *)

(* n has taken a message, and has perhaps said x.                          *)
LEMMA AnsweredDone ==
    ASSUME LinksInv, NEW k \in Conns, NEW n \in Ends(k),
           sock[n][k] \notin {"none", "connecting"}, wire[n][k] # << >>,
           NEW x \in Messages, x.type # "CLOSE",
           wire' = Taken(n, k) \/ wire' = SendOn(Taken(n, k), n, k, <<x>>),
           UNCHANGED <<up, peers, sock, path>>,
           \A y \in Nodes, j \in Conns : y # n \/ j # k => (j \in shaken'[y] <=> j \in shaken[y]),
           k \in shaken'[n] => sock[n][k] \in {"open", "closing"},
           sock[n][k] = "open" => k \in shaken'[n]
    PROVE  AllOK' /\ wire' \in Wires
PROOF
<1>1. PICK m \in Ends(k) : m = Other(n, k) /\ m \in Nodes /\ n \in Nodes /\ m # n
    BY ConnEnds
<1>2. LinksTyped /\ AllOK /\ ConnOK(k)
    BY Parts
<1>3. PICK w : w = Taken(n, k)
    OBVIOUS
<1>4. PICK sent : sent = Post(w, n, k, <<x>>)
    OBVIOUS
<1>5. Before(w, n, k)
    BY <1>3, WireBefore
<1>6. /\ sent \in Wires
      /\ \A y \in Nodes, j \in Conns : j # k => sent[y][j] = wire[y][j]
      /\ sent[n][k] = w[n][k]
      /\ Reaches(n, k) => /\ path[k] = "fine" /\ sock[m][k] # "none"
                          /\ sent[m][k] # << >>
                          /\ ToSet(sent[m][k]) = ToSet(wire[m][k]) \cup {x}
      /\ ~ Reaches(n, k) => sent = w
    BY <1>1, <1>4, <1>5, SentOn
<1>7. /\ w \in Wires
      /\ \A y \in Nodes, j \in Conns : y # n \/ j # k => w[y][j] = wire[y][j]
      /\ ToSet(w[n][k]) \subseteq ToSet(wire[n][k])
    BY <1>5 DEF Before
<1>8. wire' \in {w, sent}
    BY <1>3, <1>4 DEF SendOn
<1>9. /\ wire' \in Wires
      /\ \A y \in Nodes, j \in Conns : j # k => wire'[y][j] = wire[y][j]
      /\ ToSet(wire'[n][k]) \subseteq ToSet(wire[n][k])
      /\ \/ wire'[m][k] = wire[m][k]
         \/ /\ path[k] = "fine" /\ sock[m][k] # "none" /\ wire'[m][k] # << >>
            /\ ToSet(wire'[m][k]) = ToSet(wire[m][k]) \cup {x}
  <2>1. CASE wire' = w
      BY <1>1, <1>7, <2>1
  <2>2. CASE wire' = sent /\ Reaches(n, k)
      BY <1>1, <1>6, <1>7, <2>2
  <2>3. CASE wire' = sent /\ ~ Reaches(n, k)
      BY <1>1, <1>6, <1>7, <2>3
  <2> QED
      BY <1>8, <2>1, <2>2, <2>3
<1>10. AtEnd(n, m, k, x)
    BY <1>1, <1>9 DEF AtEnd
<1>11. ConnOK(k)'
    BY <1>1, <1>2, <1>9, <1>10, TakenOK
<1>12. \A j \in Conns : \A y \in Ends(j) : y \in Nodes
    BY ConnEnds
<1>13. \A j \in Conns : j # k => Same(j)
    BY <1>9, <1>12 DEF Same
<1> QED
    BY <1>2, <1>9, <1>11, <1>13, OneTouched

(* One that is refused hears nothing; QUERY_PEERS is answered.             *)
LEMMA HeardOK ==
    ASSUME LinksInv, NEW k \in Conns, NEW n \in Ends(k),
           sock[n][k] \notin {"none", "connecting"}, wire[n][k] # << >>,
           NEW x \in Messages, x.type # "CLOSE",
           wire' = Taken(n, k) \/ wire' = SendOn(Taken(n, k), n, k, <<x>>),
           UNCHANGED <<up, nodeVars, sock, path>>,
           sock[n][k] = "open" => k \in shaken[n]
    PROVE  LinksInv'
PROOF
<1>1. LinksTyped /\ OneEach /\ EndOK(n, k)
    BY Parts
<1>2. UNCHANGED <<up, known, dialing, peers, shaken, silent, sock, path>>
    BY DEF nodeVars
<1>3. k \in shaken[n] => sock[n][k] \in {"open", "closing"}
    BY <1>1 DEF EndOK
<1>4. AllOK' /\ wire' \in Wires
    BY <1>2, <1>3, AnsweredDone
<1>5. NoNewPeer
    BY <1>2 DEF NoNewPeer, Peers
<1> QED
    BY <1>1, <1>2, <1>4, <1>5, NoNewPeerOneEach DEF LinksInv, AllOK, LinksTyped

(* The one greeting that makes a peer: of two that would be of the same    *)
(* node, Duplicate sees the other one, unless one of the two is an orphan. *)
LEMMA HandleHelloOK ==
    ASSUME LinksInv, NEW k \in Conns, NEW n \in Ends(k), HandleHello(n, k),
           sock[n][k] \notin {"none", "connecting", "refused"}, wire[n][k] # << >>
    PROVE  LinksInv'
PROOF
<1>1. LinksTyped /\ OneEach /\ EndOK(n, k)
    BY Parts
<1>2. n \in Nodes /\ Other(n, k) \in Nodes
    BY ConnEnds
<1>3. CASE Duplicate(n, k)
  <2>1. /\ drop(n, k, Taken(n, k))
        /\ UNCHANGED <<up, known, dialing, shaken, silent, path>>
      BY <1>3 DEF HandleHello
  <2>2. Before(Taken(n, k), n, k)
      BY WireBefore
  <2> QED
      BY <2>1, <2>2, DropOK
<1>4. CASE ~ Duplicate(n, k)
  <2>1. PICK x \in Messages : x = Say("QUERY_PEERS") /\ x.type # "CLOSE"
      BY SayType DEF Types
  <2>2. /\ shaken' = [shaken EXCEPT ![n] = @ \cup {k}]
        /\ known' = [known EXCEPT ![n] = @ \cup {Other(n, k)}]
        /\ wire' = SendOn(Taken(n, k), n, k, <<x>>)
        /\ UNCHANGED <<up, dialing, peers, silent, sock, path>>
      BY <1>4, <2>1 DEF HandleHello
  <2>3. /\ shaken' \in [Nodes -> SUBSET Conns] /\ k \in shaken'[n]
        /\ \A y \in Nodes, j \in Conns : y # n \/ j # k => (j \in shaken'[y] <=> j \in shaken[y])
      BY <1>1, <1>2, <2>2, WithOne DEF LinksTyped
  <2>4. known' \in [Nodes -> SUBSET Nodes]
      BY <1>1, <1>2, <2>2 DEF LinksTyped
  <2>5. sock[n][k] \in {"open", "closing"}
      BY <1>1, <1>2 DEF LinksTyped, States
  <2>6. AllOK' /\ wire' \in Wires
      BY <2>1, <2>2, <2>3, <2>5, AnsweredDone
  <2>7. ASSUME NEW i \in Conns, NEW j \in Conns, NEW y \in Ends(i),
               i # j, Ends(i) = Ends(j), i \in Peers(y)', j \in Peers(y)'
        PROVE  Old(i) \/ Old(j)
    <3>1. /\ y \in Nodes /\ Ends(i) = {y, Other(y, i)} /\ Other(y, i) # y
          /\ y \in Ends(j) /\ Ends(j) = {y, Other(y, j)} /\ Other(y, j) # y
        BY <2>7, ConnEnds
    <3>2. Other(y, i) = Other(y, j)
        BY <2>7, <3>1
    <3>3. CASE y # n \/ (i # k /\ j # k)
      <4>1. i \in Peers(y) /\ j \in Peers(y)
          BY <2>2, <2>3, <2>7, <3>1, <3>3 DEF Peers
      <4> QED
          BY <1>1, <2>7, <4>1 DEF OneEach
    <3>4. CASE y = n /\ i = k
      <4>1. j \in (peers[n] \cap shaken[n]) \ {k}
          BY <1>2, <2>2, <2>3, <2>7, <3>4 DEF Peers
      <4> QED
          BY <1>4, <3>2, <3>4, <4>1 DEF Duplicate
    <3>5. CASE y = n /\ j = k
      <4>1. i \in (peers[n] \cap shaken[n]) \ {k}
          BY <1>2, <2>2, <2>3, <2>7, <3>5 DEF Peers
      <4> QED
          BY <1>4, <3>2, <3>5, <4>1 DEF Duplicate
    <3> QED
        BY <3>3, <3>4, <3>5
  <2>8. OneEach'
      BY <2>2, <2>7 DEF OneEach
  <2> QED
      BY <1>1, <2>2, <2>3, <2>4, <2>6, <2>8 DEF LinksInv, AllOK, LinksTyped
<1> QED
    BY <1>3, <1>4

LEMMA HandlePeersOK ==
    ASSUME LinksInv, NEW k \in Conns, NEW n \in Ends(k), NEW addresses \in SUBSET Nodes,
           HandlePeers(n, k, addresses), k \in shaken[n],
           sock[n][k] \notin {"none", "connecting"}, wire[n][k] # << >>
    PROVE  LinksInv'
PROOF
<1>1. LinksTyped /\ AllOK /\ OneEach /\ EndOK(n, k) /\ ConnOK(k)
    BY Parts
<1>2. PICK m \in Ends(k) : m = Other(n, k) /\ m \in Nodes /\ n \in Nodes /\ m # n
    BY ConnEnds
<1>3. PICK others \in SUBSET Nodes : others = addresses \ {n}
    OBVIOUS
<1>4. PICK new : new = Dials(n, others)
    OBVIOUS
<1>5. PICK w : w = Taken(n, k)
    OBVIOUS
<1>6. /\ known' = [known EXCEPT ![n] = @ \cup others]
      /\ Dial(n, new) /\ wire' = w
      /\ UNCHANGED <<up, peers, shaken, silent, path>>
    BY <1>3, <1>4, <1>5 DEF HandlePeers
<1>7. new \in SUBSET Conns /\ \A j \in new : j[1] = n /\ Free(j)
    BY <1>2, <1>4, DialsFree
<1>8. n \in up
    BY <1>1 DEF EndOK
<1>9. /\ sock' \in [Nodes -> [Conns -> States]] /\ dialing' \in [Nodes -> SUBSET Nodes]
      /\ \A j \in Conns : j \notin new => \A y \in Nodes : sock'[y][j] = sock[y][j]
      /\ \A j \in Conns :
             (\A y \in Ends(j) : wire'[y][j] = wire[y][j]) => ConnOK(j)'
      /\ NoNewPeer
    BY <1>1, <1>2, <1>6, <1>7, <1>8, DialDone
<1>10. Before(w, n, k)
    BY <1>5, WireBefore
<1>11. /\ w \in Wires
       /\ \A y \in Nodes, j \in Conns : y # n \/ j # k => w[y][j] = wire[y][j]
       /\ ToSet(w[n][k]) \subseteq ToSet(wire[n][k])
    BY <1>10 DEF Before
<1>12. known' \in [Nodes -> SUBSET Nodes]
    BY <1>1, <1>2, <1>3, <1>6 DEF LinksTyped
<1>13. LinksTyped'
    BY <1>1, <1>6, <1>9, <1>11, <1>12 DEF LinksTyped
<1>14. \A j \in Conns : \A y \in Ends(j) : y \in Nodes
    BY ConnEnds
<1>15. \A j \in Conns : j # k => ConnOK(j)'
    BY <1>6, <1>9, <1>11, <1>14
<1>16. \A y \in Nodes : sock'[y][k] = sock[y][k]
    BY <1>7, <1>9 DEF Free
<1>17. PICK x : x = Say("HELLO") /\ x.type # "CLOSE"
    BY SayType DEF Types
<1>18. AtEnd(n, m, k, x)
    BY <1>2, <1>6, <1>11, <1>16 DEF AtEnd
<1>19. k \in shaken[n] => sock[n][k] \in {"open", "closing"}
    BY <1>1 DEF EndOK
<1>20. ConnOK(k)'
    BY <1>1, <1>2, <1>6, <1>11, <1>16, <1>17, <1>18, <1>19, TakenOK
<1> QED
    BY <1>1, <1>9, <1>13, <1>15, <1>20, NoNewPeerOneEach DEF LinksInv

LEMMA ReceiveOK ==
    ASSUME LinksInv, NEW k \in Conns, NEW n \in Ends(k), Receive(n, k)
    PROVE  LinksInv'
PROOF
<1>1. PICK msg : msg = Head(wire[n][k])
    OBVIOUS
<1>2. sock[n][k] \notin {"none", "connecting"} /\ wire[n][k] # << >>
    BY DEF Receive
<1>3. msg \in Messages
    BY <1>1, <1>2, WireBefore
<1>4. LinksTyped /\ EndOK(n, k) /\ n \in Nodes
    BY Parts, ConnEnds
<1>5. CASE msg.type = "CLOSE"
    BY <1>1, <1>2, <1>5, HandleCloseOK DEF Receive
<1>6. CASE msg.type # "CLOSE" /\ sock[n][k] = "refused"
  <2>1. wire' = Taken(n, k) /\ UNCHANGED <<up, nodeVars, sock, path>>
      BY <1>1, <1>6 DEF Receive
  <2> QED
      BY <1>2, <1>3, <1>6, <2>1, HeardOK
<1>7. CASE msg.type = "HELLO" /\ sock[n][k] # "refused"
  <2>1. HandleHello(n, k)
      BY <1>1, <1>7 DEF Receive
  <2> QED
      BY <1>2, <1>7, <2>1, HandleHelloOK
<1>8. CASE msg.type \notin {"CLOSE", "HELLO"} /\ sock[n][k] # "refused" /\ k \notin shaken[n]
  <2>1. /\ drop(n, k, Taken(n, k))
        /\ UNCHANGED <<up, known, dialing, shaken, silent, path>>
      BY <1>1, <1>8 DEF Receive
  <2>2. Before(Taken(n, k), n, k)
      BY <1>2, WireBefore
  <2> QED
      BY <1>2, <2>1, <2>2, DropOK
<1>9. CASE msg.type \notin {"CLOSE", "HELLO"} /\ sock[n][k] # "refused" /\ k \in shaken[n]
  <2>1. \/ HandleQueryPeers(n, k)
        \/ msg.type = "PEERS" /\ HandlePeers(n, k, msg.addresses)
      BY <1>1, <1>9 DEF Receive
  <2>2. CASE HandleQueryPeers(n, k)
    <3>1. PICK x : x = [type |-> "PEERS", addresses |-> known[n]]
        OBVIOUS
    <3>2. x \in Messages /\ x.type # "CLOSE"
        BY <1>4, <3>1 DEF Messages, Types, LinksTyped
    <3>3. wire' = SendOn(Taken(n, k), n, k, <<x>>) /\ UNCHANGED <<up, nodeVars, sock, path>>
        BY <2>2, <3>1 DEF HandleQueryPeers
    <3> QED
        BY <1>2, <1>9, <3>2, <3>3, HeardOK
  <2>3. CASE HandlePeers(n, k, msg.addresses)
    <3>1. PICK addresses \in SUBSET Nodes : addresses = msg.addresses
        BY <1>3 DEF Messages
    <3> QED
        BY <1>2, <1>9, <2>3, <3>1, HandlePeersOK
  <2> QED
      BY <2>1, <2>2, <2>3
<1> QED
    BY <1>5, <1>6, <1>7, <1>8, <1>9

-----------------------------------------------------------------------------

LEMMA LinksInvStart == LinksInit => LinksInv
PROOF
<1> SUFFICES ASSUME LinksInit
             PROVE  LinksInv
    OBVIOUS
<1>1. << >> \in Seq(Messages) /\ ToSet(<< >>) = {}
    BY EmptySeq DEF ToSet
<1>2. LinksTyped
  <2>1. wire \in Wires
      BY <1>1 DEF LinksInit, Wires
  <2> QED
      BY <2>1 DEF LinksInit, LinksTyped, States
<1>3. ASSUME NEW k \in Conns
      PROVE  ConnOK(k)
  <2>1. path[k] = "fine"
        /\ \A n \in Nodes : /\ sock[n][k] = "none" /\ wire[n][k] = << >>
                            /\ k \notin peers[n] /\ k \notin shaken[n]
      BY DEF LinksInit
  <2>2. \A n \in Ends(k) : n \in Nodes /\ Other(n, k) \in Nodes
      BY ConnEnds
  <2>3. ASSUME NEW n \in Ends(k)
        PROVE  EndOK(n, k) /\ Facing(n, Other(n, k), k)
      BY <1>1, <2>1, <2>2 DEF EndOK, Facing, Closes
  <2> QED
      BY <2>1, <2>2, <2>3 DEF ConnOK
<1>4. OneEach
  <2>1. \A k \in Conns : \A n \in Ends(k) : n \in Nodes
      BY ConnEnds
  <2> QED
      BY <2>1 DEF OneEach, Peers, LinksInit
<1> QED
    BY <1>2, <1>3, <1>4 DEF LinksInv

LEMMA LinksInvStep == LinksInv /\ [LinksNext]_linkVars => LinksInv'
PROOF
<1> SUFFICES ASSUME LinksInv, [LinksNext]_linkVars
             PROVE  LinksInv'
    OBVIOUS
<1>1. ASSUME NEW n \in Nodes, Start(n) \/ Redial(n) \/ Crash(n)
      PROVE  LinksInv'
    BY <1>1, StartOK, RedialOK, CrashOK
<1>2. ASSUME NEW k \in Conns, Accept(k) \/ Open(k) \/ DialFails(k) \/ Cut(k)
      PROVE  LinksInv'
    BY <1>2, AcceptOK, OpenOK, DialFailsOK, CutOK
<1>3. ASSUME NEW n \in Nodes, NEW k \in Of(n),
             Receive(n, k) \/ HandshakeTimeout(n, k) \/ Heartbeat(n, k) \/ GiveUp(n, k)
      PROVE  LinksInv'
  <2>1. k \in Conns /\ n \in Ends(k)
      BY DEF Of
  <2> QED
      BY <1>3, <2>1, ReceiveOK, HandshakeTimeoutOK, HeartbeatOK, GiveUpOK
<1>4. ASSUME UNCHANGED linkVars
      PROVE  LinksInv'
  <2>1. LinksTyped /\ AllOK /\ OneEach
      BY Parts
  <2>2. UNCHANGED <<up, known, dialing, peers, shaken, silent, sock, wire, path>>
      BY <1>4 DEF linkVars
  <2>3. \A k \in Conns : Same(k)
      BY <2>2 DEF Same
  <2>4. AllOK'
      BY <2>1, <2>2, <2>3, SameOK DEF AllOK
  <2>5. NoNewPeer
      BY <2>2 DEF NoNewPeer, Peers
  <2> QED
      BY <2>1, <2>2, <2>4, <2>5, NoNewPeerOneEach DEF LinksInv, AllOK, LinksTyped
<1> QED
    BY <1>1, <1>2, <1>3, <1>4 DEF LinksNext

(* Whatever is dialled, accepted, dropped, cut or left behind by a crash,  *)
(* in any order (net/p2p.js), every connection's two sockets, records,     *)
(* messages on their way and path fit together, and no node counts two     *)
(* connections to one node unless a crash has left one of them behind.     *)
THEOREM EndsFitTogether == LinksSpec => []LinksInv
PROOF
BY LinksInvStart, LinksInvStep, PTL DEF LinksSpec

(* A connection that is there and calm is a peer of both its ends.         *)
LEMMA CalmIsLinked ==
    ASSUME LinksInv, Calm, NEW k \in Conns, ~ Free(k)
    PROVE  \A n \in Ends(k) : k \in Peers(n)
PROOF
<1>1. path[k] = "fine"
      /\ \A n \in Ends(k) : wire[n][k] = << >> /\ sock[n][k] \in {"none", "open"}
    BY DEF Calm
<1>2. PICK n \in Ends(k) : sock[n][k] = "open"
    BY <1>1 DEF Free
<1>3. PICK m \in Ends(k) : m = Other(n, k) /\ Ends(k) = {n, m}
    BY ConnEnds
<1>4. EndOK(n, k) /\ EndOK(m, k) /\ Facing(n, m, k) /\ Facing(m, n, k)
    BY <1>3, Parts
<1>5. sock[m][k] = "open"
    BY <1>1, <1>2, <1>4 DEF Facing
<1>6. k \in shaken[n] /\ k \in shaken[m]
    BY <1>1, <1>2, <1>4, <1>5 DEF Facing
<1>7. k \in peers[n] /\ k \in peers[m]
    BY <1>2, <1>4, <1>5 DEF EndOK
<1> QED
    BY <1>3, <1>6, <1>7 DEF Peers

(* "Detect and drop ... duplicate connections to the same peer": when      *)
(* nothing is under way, the two ends of every connection agree that it is *)
(* there, and there is one between two nodes at most (net/p2p.js), for any *)
(* nodes, connections, MAX_PEERS and number of crashes and dead paths.     *)
THEOREM LinksAgree == LinksSpec => []QuietLinksAgree
PROOF
<1>1. LinksInv => QuietLinksAgree
  <2> SUFFICES ASSUME LinksInv, Calm, NEW k \in Conns, ~ Free(k)
               PROVE  /\ \A n \in Ends(k) : k \in Peers(n)
                      /\ \A j \in Conns \ {k} : Ends(j) = Ends(k) => Free(j)
      BY DEF QuietLinksAgree
  <2>1. \A n \in Ends(k) : k \in Peers(n)
      BY CalmIsLinked
  <2>2. ASSUME NEW j \in Conns, j # k, Ends(j) = Ends(k), ~ Free(j)
        PROVE  FALSE
    <3>1. \A n \in Ends(j) : j \in Peers(n)
        BY <2>2, CalmIsLinked
    <3>2. k[1] \in Ends(j) /\ k[1] \in Ends(k)
        BY <2>2 DEF Ends
    <3>3. path[j] = "fine" /\ path[k] = "fine"
        BY DEF Calm
    <3> QED
        BY <2>1, <2>2, <3>1, <3>2, <3>3, Parts DEF OneEach
  <2> QED
      BY <2>1, <2>2
<1> QED
    BY <1>1, EndsFitTogether, PTL
=============================================================================
