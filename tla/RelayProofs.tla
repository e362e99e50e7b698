---------------------------- MODULE RelayProofs -----------------------------
(***************************************************************************)
(* When a network that mines, connects and disconnects as it pleases has   *)
(* gone quiet, its nodes agree. For any nodes, links and block times: the  *)
(* types, then what a node that lacks a block may count on to get it       *)
(* (Coming), and that no step of anybody takes this away.                  *)
(*                                                                         *)
(* The lemmas about single steps leave open what bodies blocks have        *)
(* (Bodies) and which other messages share the connections (Notes): the    *)
(* first theorems are about Gossip alone, with empty blocks, and the rest  *)
(* about Relay, where clients pay and blocks have bodies: agreement again, *)
(* the nonces of a client, what is mined anywhere, and where a payment is  *)
(* until it is mined.                                                      *)
(***************************************************************************)
EXTENDS Relay, InclusionProofs

-----------------------------------------------------------------------------
(* Types                                                                   *)

Blocks(Bodies) ==
    [timestamp : Nat, difficulty : MIN_DIFFICULTY..MAX_DIFFICULTY,
     miner : Nodes \cup {"none"}, txs : Bodies]

Chains(Bodies) == {c \in Seq(Blocks(Bodies)) : c # << >> /\ Head(c) = genesisBlock}

Asking  == {"HELLO", "QUERY_TIP", "QUERY_CHAIN"}
Telling == {"TIP", "NEW_BLOCK", "CHAIN"}

Questions == [type : Asking, chain : {<< >>}]

Answers(Bodies) == [type : Telling, chain : Chains(Bodies)]

Messages(Bodies, Notes) == Questions \cup Answers(Bodies) \cup Notes

(* What Bodies and Notes may be.                                           *)
Carried(Bodies, Notes) ==
    /\ << >> \in Bodies
    /\ \A x \in Notes : x.type \notin Asking \cup Telling

GossipTyped(Bodies, Notes) ==
    /\ chain \in [Nodes -> Chains(Bodies)]
    /\ seen \in [Nodes -> SUBSET Chains(Bodies)]
    /\ net \in [Nodes \X Nodes -> Seq(Messages(Bodies, Notes))]
    /\ open \subseteq Links
    /\ shaken \subseteq Nodes \X Nodes
    /\ \A p \in shaken : {p[1], p[2]} \in open
    /\ \A p \in Nodes \X Nodes : net[p] # << >> => {p[1], p[2]} \in open

(* The ends of a link are two.                                             *)
LEMMA LinkEnds ==
    ASSUME NEW n, NEW m, {n, m} \in Links
    PROVE  n \in Nodes /\ m \in Nodes /\ n # m
PROOF
<1>1. \A l \in Links : \E a, b \in Nodes : l = {a, b}
    BY GossipAssumption
<1>2. n \in Nodes /\ m \in Nodes
    BY <1>1
<1>3. Cardinality({n, m}) = 2
    BY GossipAssumption
<1>4. n = m => Cardinality({n, m}) = 1
    BY FS_Singleton
<1> QED
    BY <1>2, <1>3, <1>4

LEMMA GenesisChain ==
    ASSUME NEW Bodies, << >> \in Bodies
    PROVE  <<genesisBlock>> \in Chains(Bodies)
PROOF
<1>1. genesisBlock \in Blocks(Bodies)
    BY HeadersAssumption DEF genesisBlock, Blocks
<1>2. PICK b \in Blocks(Bodies) : b = genesisBlock
    BY <1>1
<1>3. <<b>> \in Seq(Blocks(Bodies)) /\ <<b>> # << >> /\ Head(<<b>>) = b
    OBVIOUS
<1> QED
    BY <1>2, <1>3 DEF Chains

LEMMA ChainParts ==
    ASSUME NEW Bodies, NEW c \in Chains(Bodies)
    PROVE  /\ c \in Seq(Blocks(Bodies)) /\ c # << >> /\ Head(c) = genesisBlock
           /\ Len(c) \in Nat /\ Len(c) > 0
           /\ Last(c) \in Blocks(Bodies)
PROOF
<1>1. c \in Seq(Blocks(Bodies)) /\ c # << >> /\ Head(c) = genesisBlock
    BY DEF Chains
<1>2. Len(c) \in Nat /\ Len(c) > 0
    BY <1>1, LenProperties, EmptySeq
<1> QED
    BY <1>1, <1>2, ElementOfSeq DEF Last

(* What Mine appends keeps a chain a chain.                                *)
LEMMA MinedChain ==
    ASSUME NEW Bodies, NEW c \in Chains(Bodies), NEW clock \in Clocks,
           NEW n \in Nodes, NEW body \in Bodies,
           NEW b, b = [timestamp |-> CandidateTime(c, clock),
                       difficulty |-> expectedDifficulty(c), miner |-> n, txs |-> body]
    PROVE  Append(c, b) \in Chains(Bodies) /\ Len(Append(c, b)) = Len(c) + 1
PROOF
<1>1. /\ c \in Seq(Blocks(Bodies)) /\ c # << >> /\ Head(c) = genesisBlock
      /\ Last(c) \in Blocks(Bodies)
    BY ChainParts
<1>2. \A x \in Blocks(Bodies) : /\ x.timestamp \in Nat
                                /\ x.difficulty \in MIN_DIFFICULTY..MAX_DIFFICULTY
                                /\ x.difficulty \in Nat
    BY HeadersAssumption DEF Blocks
<1>3. clock \in Nat
    BY GossipAssumption
<1>4. Heads!CandidateTime(c, clock) \in Nat
    BY <1>1, <1>2, <1>3, Heads!CandidateTimeType, HeadsAssumed
<1>5. Heads!expectedDifficulty(c) \in Heads!Limits \cup {Heads!Last(c).difficulty}
    BY <1>1, <1>2, Heads!ExpectedType, HeadsAssumed
<1>6. expectedDifficulty(c) \in MIN_DIFFICULTY..MAX_DIFFICULTY
    BY <1>1, <1>2, <1>5, SameHeaderRules DEF Heads!Limits
<1>7. b \in Blocks(Bodies)
    BY <1>4, <1>6, SameHeaderRules DEF Blocks
<1>8. /\ Append(c, b) \in Seq(Blocks(Bodies)) /\ Len(Append(c, b)) = Len(c) + 1
      /\ Append(c, b) # << >>
    BY <1>1, <1>7, AppendProperties
<1>9. Head(Append(c, b)) = Head(c)
  <2>1. PICK k \in Nat : k = Len(c) /\ k > 0
      BY ChainParts
  <2>2. Append(c, b)[1] = c[1]
      BY <1>1, <1>7, <2>1, AppendProperties
  <2> QED
      BY <1>1, <1>8, <2>2
<1> QED
    BY <1>1, <1>8, <1>9 DEF Chains

-----------------------------------------------------------------------------
(* Queues                                                                  *)

Pairs == Nodes \X Nodes

Queues(M) == [Pairs -> Seq(M)]

(* What is on its way stays on its way, in the same order.                 *)
Extends(before, after) ==
    \A p \in Pairs :
        /\ ToSet(before[p]) \subseteq ToSet(after[p])
        /\ before[p] # << >> => after[p] # << >> /\ Head(after[p]) = Head(before[p])

LEMMA ConcatSets ==
    ASSUME NEW M, NEW s \in Seq(M), NEW t \in Seq(M)
    PROVE  /\ s \o t \in Seq(M)
           /\ ToSet(s \o t) = ToSet(s) \cup ToSet(t)
           /\ s \o t # << >> <=> s # << >> \/ t # << >>
           /\ s # << >> => Head(s \o t) = Head(s)
PROOF
<1>1. PICK j \in Nat, k \in Nat : j = Len(s) /\ k = Len(t)
    BY LenProperties
<1>2. DOMAIN s = 1..j /\ DOMAIN t = 1..k
    BY <1>1, LenProperties
<1>3. PICK u : u = s \o t
    OBVIOUS
<1>3a. /\ u \in Seq(M) /\ Len(u) = j + k
       /\ \A i \in 1..(j + k) : u[i] = IF i <= j THEN s[i] ELSE t[i - j]
    BY <1>1, <1>3, ConcatProperties
<1>4. DOMAIN u = 1..(j + k)
    BY <1>3a, LenProperties
<1>5. ToSet(u) \subseteq ToSet(s) \cup ToSet(t)
  <2> SUFFICES ASSUME NEW i \in 1..(j + k)
               PROVE  u[i] \in ToSet(s) \cup ToSet(t)
      BY <1>4 DEF ToSet
  <2>1. CASE i <= j
      BY <1>2, <1>3a, <2>1, i \in 1..j DEF ToSet
  <2>2. CASE i > j
    <3>1. i - j \in 1..k
        BY <2>2
    <3> QED
        BY <1>2, <1>3a, <2>2, <3>1 DEF ToSet
  <2> QED
      BY <2>1, <2>2
<1>6. ToSet(s) \subseteq ToSet(u)
  <2> SUFFICES ASSUME NEW i \in 1..j
               PROVE  s[i] \in ToSet(u)
      BY <1>2 DEF ToSet
  <2>1. i \in 1..(j + k) /\ i <= j
      OBVIOUS
  <2> QED
      BY <1>3a, <1>4, <2>1 DEF ToSet
<1>7. ToSet(t) \subseteq ToSet(u)
  <2> SUFFICES ASSUME NEW i \in 1..k
               PROVE  t[i] \in ToSet(u)
      BY <1>2 DEF ToSet
  <2>1. j + i \in 1..(j + k) /\ ~ (j + i <= j) /\ (j + i) - j = i
      OBVIOUS
  <2> QED
      BY <1>3a, <1>4, <2>1 DEF ToSet
<1>8. u # << >> <=> s # << >> \/ t # << >>
    BY <1>3, ConcatEqualIffEmpty
<1>9. ASSUME s # << >>
      PROVE  Head(u) = Head(s)
  <2>1. j > 0 /\ u # << >>
      BY <1>1, <1>8, <1>9, EmptySeq
  <2>2. u[1] = s[1]
      BY <1>3a, <2>1
  <2> QED
      BY <1>3a, <1>9, <2>1, <2>2
<1> QED
    BY <1>3, <1>3a, <1>5, <1>6, <1>7, <1>8, <1>9

LEMMA TailSet ==
    ASSUME NEW M, NEW s \in Seq(M), s # << >>
    PROVE  /\ Head(s) \in M /\ Tail(s) \in Seq(M)
           /\ ToSet(s) = {Head(s)} \cup ToSet(Tail(s))
PROOF
<1>1. PICK h \in M, t \in Seq(M) : h = Head(s) /\ t = Tail(s)
    BY HeadTailProperties
<1>2. s = <<h>> \o t
    BY <1>1
<1>3. PICK one : one = <<h>>
    OBVIOUS
<1>4. one \in Seq(M) /\ ToSet(one) = {h}
    BY <1>3 DEF ToSet
<1>5. ToSet(one \o t) = ToSet(one) \cup ToSet(t)
    BY <1>4, ConcatSets
<1> QED
    BY <1>1, <1>2, <1>3, <1>4, <1>5

LEMMA SentIs ==
    ASSUME NEW M, NEW before \in Queues(M), NEW out \in Queues(M),
           NEW after, after = Sent(before, out)
    PROVE  /\ after \in Queues(M)
           /\ Extends(before, after)
           /\ \A p \in Pairs : /\ ToSet(after[p]) = ToSet(before[p]) \cup ToSet(out[p])
                               /\ after[p] # << >> <=> before[p] # << >> \/ out[p] # << >>
PROOF
<1>2. after = [p \in Pairs |-> before[p] \o out[p]]
    BY DEF Sent, Pairs
<1>3. ASSUME NEW p \in Pairs
      PROVE  /\ after[p] \in Seq(M)
             /\ ToSet(after[p]) = ToSet(before[p]) \cup ToSet(out[p])
             /\ after[p] # << >> <=> before[p] # << >> \/ out[p] # << >>
             /\ before[p] # << >> => Head(after[p]) = Head(before[p])
  <2>1. PICK s \in Seq(M), t \in Seq(M) : s = before[p] /\ t = out[p]
      BY DEF Queues
  <2>2. after[p] = s \o t
      BY <1>2, <2>1
  <2>3. /\ s \o t \in Seq(M)
        /\ ToSet(s \o t) = ToSet(s) \cup ToSet(t)
        /\ s \o t # << >> <=> s # << >> \/ t # << >>
        /\ s # << >> => Head(s \o t) = Head(s)
      BY ConcatSets
  <2> QED
      BY <2>1, <2>2, <2>3
<1>4. after \in Queues(M)
    BY <1>2, <1>3 DEF Queues
<1> QED
    BY <1>3, <1>4 DEF Extends

LEMMA TakenIs ==
    ASSUME NEW M, net \in Queues(M), NEW m \in Nodes, NEW n \in Nodes,
           net[<<m, n>>] # << >>
    PROVE  /\ Taken(m, n) \in Queues(M)
           /\ \A p \in Pairs : p # <<m, n>> => Taken(m, n)[p] = net[p]
           /\ Head(net[<<m, n>>]) \in M
           /\ ToSet(net[<<m, n>>]) = {Head(net[<<m, n>>])} \cup ToSet(Taken(m, n)[<<m, n>>])
PROOF
<1>1. PICK q \in Pairs : q = <<m, n>>
    BY DEF Pairs
<1>2. PICK s \in Seq(M) : s = net[q]
    BY <1>1 DEF Queues
<1>3. PICK t \in Seq(M) : t = Tail(s)
    BY <1>1, <1>2, TailSet
<1>4. Taken(m, n) = [net EXCEPT ![q] = t]
    BY <1>1, <1>2, <1>3 DEF Taken
<1>5. Head(s) \in M /\ ToSet(s) = {Head(s)} \cup ToSet(t)
    BY <1>1, <1>2, <1>3, TailSet
<1> QED
    BY <1>1, <1>2, <1>4, <1>5 DEF Queues

LEMMA MailIs ==
    ASSUME NEW M, NEW n \in Nodes, NEW m \in Nodes, NEW messages \in Seq(M)
    PROVE  /\ Mail(n, m, messages) \in Queues(M)
           /\ Mail(n, m, messages)[<<n, m>>] = messages
           /\ \A p \in Pairs : p # <<n, m>> => Mail(n, m, messages)[p] = << >>
PROOF
<1>1. PICK q \in Pairs : q = <<n, m>>
    BY DEF Pairs
<1>2. NoMail = [p \in Pairs |-> << >>]
    BY DEF NoMail, Pairs
<1>3. Mail(n, m, messages) = [NoMail EXCEPT ![q] = messages]
    BY <1>1 DEF Mail
<1>4. << >> \in Seq(M)
    BY EmptySeq
<1> QED
    BY <1>1, <1>2, <1>3, <1>4 DEF Queues

LEMMA BroadcastIs ==
    ASSUME NEW M, NEW n \in Nodes, NEW peers, NEW msg \in M,
           NEW out, out = Broadcast(n, peers, msg)
    PROVE  /\ out \in Queues(M)
           /\ \A p \in Pairs : out[p] = IF p[1] = n /\ p[2] \in peers THEN <<msg>> ELSE << >>
           /\ \A p \in Pairs : ToSet(out[p]) \subseteq {msg}
           /\ \A m \in Nodes \cap peers : msg \in ToSet(out[<<n, m>>])
PROOF
<1>2. out = [p \in Pairs |-> IF p[1] = n /\ p[2] \in peers THEN <<msg>> ELSE << >>]
    BY DEF Broadcast, Pairs
<1>3. << >> \in Seq(M) /\ <<msg>> \in Seq(M)
    BY EmptySeq
<1>4. ToSet(<<msg>>) = {msg} /\ ToSet(<< >>) = {}
    BY DEF ToSet
<1>5. \A m \in Nodes \cap peers : <<n, m>> \in Pairs /\ out[<<n, m>>] = <<msg>>
    BY <1>2 DEF Pairs
<1>6. \A p \in Pairs : out[p] = <<msg>> \/ out[p] = << >>
    BY <1>2
<1>7. out \in Queues(M)
    BY <1>2, <1>3 DEF Queues
<1> QED
    BY <1>2, <1>4, <1>5, <1>6, <1>7

-----------------------------------------------------------------------------
(* Every step keeps the types                                              *)

(* Messages travel on open connections only.                               *)
NetTyped(queues, Bodies, Notes) ==
    /\ queues \in Queues(Messages(Bodies, Notes))
    /\ \A p \in Pairs : queues[p] # << >> => {p[1], p[2]} \in open

LEMMA TypedNet ==
    ASSUME NEW Bodies, NEW Notes, GossipTyped(Bodies, Notes)
    PROVE  NetTyped(net, Bodies, Notes)
PROOF
BY DEF GossipTyped, NetTyped, Pairs, Queues

LEMMA TakenTyped ==
    ASSUME NEW Bodies, NEW Notes, NetTyped(net, Bodies, Notes),
           NEW m \in Nodes, NEW n \in Nodes, net[<<m, n>>] # << >>
    PROVE  /\ NetTyped(Taken(m, n), Bodies, Notes)
           /\ Head(net[<<m, n>>]) \in Messages(Bodies, Notes)
           /\ {n, m} \in open
PROOF
<1>1. PICK M : M = Messages(Bodies, Notes)
    OBVIOUS
<1>2. net \in Queues(M) /\ \A p \in Pairs : net[p] # << >> => {p[1], p[2]} \in open
    BY <1>1 DEF NetTyped
<1>3. PICK q \in Pairs : q = <<m, n>> /\ q[1] = m /\ q[2] = n
    BY DEF Pairs
<1>4. {n, m} \in open
    BY <1>2, <1>3
<1>5. Taken(m, n) \in Queues(M) /\ Head(net[<<m, n>>]) \in M
      /\ \A p \in Pairs : p # <<m, n>> => Taken(m, n)[p] = net[p]
    BY <1>2, TakenIs
<1>6. ASSUME NEW p \in Pairs, Taken(m, n)[p] # << >>
      PROVE  {p[1], p[2]} \in open
    BY <1>2, <1>3, <1>4, <1>5, <1>6
<1> QED
    BY <1>1, <1>4, <1>5, <1>6 DEF NetTyped

(* Sending a few messages to one node, and one message to every peer.      *)
LEMMA Mailed ==
    ASSUME NEW Bodies, NEW Notes, NEW before, NetTyped(before, Bodies, Notes),
           NEW n \in Nodes, NEW m \in Nodes, {n, m} \in open,
           NEW messages \in Seq(Messages(Bodies, Notes)),
           NEW after, after = Sent(before, Mail(n, m, messages))
    PROVE  /\ NetTyped(after, Bodies, Notes) /\ Extends(before, after)
           /\ ToSet(after[<<n, m>>]) = ToSet(before[<<n, m>>]) \cup ToSet(messages)
           /\ \A p \in Pairs : p # <<n, m>> => ToSet(after[p]) = ToSet(before[p])
PROOF
<1>1. PICK M : M = Messages(Bodies, Notes)
    OBVIOUS
<1>2. before \in Queues(M)
    BY <1>1 DEF NetTyped
<1>3. PICK out \in Queues(M) :
          /\ out = Mail(n, m, messages) /\ out[<<n, m>>] = messages
          /\ \A p \in Pairs : p # <<n, m>> => out[p] = << >>
    BY <1>1, MailIs
<1>4. after = Sent(before, out)
    BY <1>3
<1>5. /\ after \in Queues(M) /\ Extends(before, after)
      /\ \A p \in Pairs : /\ ToSet(after[p]) = ToSet(before[p]) \cup ToSet(out[p])
                          /\ (after[p] # << >> <=> before[p] # << >> \/ out[p] # << >>)
    BY <1>2, <1>3, <1>4, SentIs
<1>6. <<n, m>> \in Pairs /\ <<n, m>>[1] = n /\ <<n, m>>[2] = m
    BY DEF Pairs
<1>7. ToSet(<< >>) = {}
    BY DEF ToSet
<1>8. \A p \in Pairs : after[p] # << >> => {p[1], p[2]} \in open
    BY <1>3, <1>5, <1>6 DEF NetTyped
<1> QED
    BY <1>1, <1>3, <1>5, <1>6, <1>7, <1>8 DEF NetTyped

(* The peers of n have all been sent msg, and nothing else was sent.       *)
Reached(n, peers, msg, before, after) ==
    /\ Extends(before, after)
    /\ \A m \in peers : msg \in ToSet(after[<<n, m>>])
    /\ \A p \in Pairs : p[1] # n => ToSet(after[p]) = ToSet(before[p])
    /\ \A p \in Pairs : ToSet(after[p]) \subseteq ToSet(before[p]) \cup {msg}

LEMMA Announced ==
    ASSUME NEW Bodies, NEW Notes, GossipTyped(Bodies, Notes),
           NEW before, NetTyped(before, Bodies, Notes),
           NEW n \in Nodes, NEW peers, peers \subseteq PeersOf(n),
           NEW msg \in Messages(Bodies, Notes),
           NEW after, after = Sent(before, Broadcast(n, peers, msg))
    PROVE  NetTyped(after, Bodies, Notes) /\ Reached(n, peers, msg, before, after)
PROOF
<1>1. PICK M : M = Messages(Bodies, Notes)
    OBVIOUS
<1>2. before \in Queues(M)
    BY <1>1 DEF NetTyped
<1>0. PICK out : out = Broadcast(n, peers, msg)
    OBVIOUS
<1>0a. msg \in M
    BY <1>1
<1>3. /\ out \in Queues(M)
      /\ \A p \in Pairs : out[p] = IF p[1] = n /\ p[2] \in peers THEN <<msg>> ELSE << >>
      /\ \A p \in Pairs : ToSet(out[p]) \subseteq {msg}
      /\ \A m \in Nodes \cap peers : msg \in ToSet(out[<<n, m>>])
    BY <1>0, <1>0a, BroadcastIs
<1>4. after = Sent(before, out)
    BY <1>0
<1>5. /\ after \in Queues(M) /\ Extends(before, after)
      /\ \A p \in Pairs : /\ ToSet(after[p]) = ToSet(before[p]) \cup ToSet(out[p])
                          /\ (after[p] # << >> <=> before[p] # << >> \/ out[p] # << >>)
    BY <1>2, <1>3, <1>4, SentIs
<1>6. \A m \in peers : m \in Nodes /\ {n, m} \in open /\ <<n, m>> \in Pairs
    BY DEF PeersOf, GossipTyped, Pairs
<1>7. ToSet(<< >>) = {}
    BY DEF ToSet
<1>8. \A p \in Pairs : after[p] # << >> => {p[1], p[2]} \in open
    BY <1>3, <1>5, <1>6 DEF NetTyped
<1>9. \A m \in peers : msg \in ToSet(after[<<n, m>>])
    BY <1>3, <1>5, <1>6
<1> QED
    BY <1>1, <1>3, <1>5, <1>7, <1>8, <1>9 DEF NetTyped, Reached

LEMMA QuestionTypes ==
    ASSUME NEW Bodies, NEW Notes, NEW type \in Asking
    PROVE  Ask(type) \in Messages(Bodies, Notes)
PROOF
BY DEF Ask, Messages, Questions

LEMMA AnswerTypes ==
    ASSUME NEW Bodies, NEW Notes, NEW type \in Telling, NEW c \in Chains(Bodies)
    PROVE  Tell(type, c) \in Messages(Bodies, Notes)
PROOF
BY DEF Tell, Messages, Answers

(* A message is told from the others by its type.                          *)
LEMMA MessageKinds ==
    ASSUME NEW Bodies, NEW Notes, Carried(Bodies, Notes),
           NEW msg \in Messages(Bodies, Notes)
    PROVE  /\ msg.type \in Asking => msg.chain = << >>
           /\ msg.type \in Telling => msg.chain \in Chains(Bodies)
PROOF
<1>1. Asking \cap Telling = {}
    BY DEF Asking, Telling
<1> QED
    BY <1>1 DEF Messages, Questions, Answers, Carried

LEMMA InitTyped ==
    ASSUME NEW Bodies, NEW Notes, Carried(Bodies, Notes), GossipInit
    PROVE  GossipTyped(Bodies, Notes)
PROOF
<1>1. <<genesisBlock>> \in Chains(Bodies)
    BY GenesisChain DEF Carried
<1>2. chain \in [Nodes -> Chains(Bodies)]
    BY <1>1 DEF GossipInit
<1>3. net \in Queues(Messages(Bodies, Notes)) /\ \A p \in Pairs : net[p] = << >>
    BY EmptySeq DEF GossipInit, NoMail, Queues, Pairs
<1> QED
    BY <1>2, <1>3 DEF GossipInit, GossipTyped, Queues, Pairs

(* The two directions of a link.                                           *)
LEMMA BothWays ==
    ASSUME NEW n \in Nodes, NEW m \in Nodes, NEW p \in Pairs, {p[1], p[2]} = {n, m}
    PROVE  p = <<n, m>> \/ p = <<m, n>>
PROOF
<1>1. p = <<p[1], p[2]>>
    BY DEF Pairs
<1>2. (p[1] = n /\ p[2] = m) \/ (p[1] = m /\ p[2] = n)
    OBVIOUS
<1> QED
    BY <1>1, <1>2

LEMMA ConnectTyped ==
    ASSUME NEW Bodies, NEW Notes, GossipTyped(Bodies, Notes),
           NEW n \in Nodes, NEW m \in Nodes, Connect(n, m)
    PROVE  GossipTyped(Bodies, Notes)'
PROOF
<1>1. PICK hello : hello = <<Ask("HELLO")>>
    OBVIOUS
<1>2. hello \in Seq(Messages(Bodies, Notes))
    BY <1>1, QuestionTypes DEF Asking
<1>3. net \in [Pairs -> Seq(Messages(Bodies, Notes))]
    BY DEF GossipTyped, Pairs
<1>4. net' = [net EXCEPT ![<<n, m>>] = hello, ![<<m, n>>] = hello]
    BY <1>1 DEF Connect
<1>5. net' \in [Pairs -> Seq(Messages(Bodies, Notes))]
    BY <1>2, <1>3, <1>4
<1>6. ASSUME NEW p \in Pairs, net'[p] # << >>
      PROVE  {p[1], p[2]} \in open'
  <2>1. CASE p = <<n, m>> \/ p = <<m, n>>
    <3>1. {p[1], p[2]} = {n, m}
        BY <2>1
    <3> QED
        BY <3>1 DEF Connect
  <2>2. CASE ~ (p = <<n, m>> \/ p = <<m, n>>)
    <3>1. net'[p] = net[p]
        BY <1>3, <1>4, <2>2
    <3> QED
        BY <1>6, <3>1 DEF Connect, GossipTyped, Pairs
  <2> QED
      BY <2>1, <2>2
<1> QED
    BY <1>5, <1>6 DEF Connect, GossipTyped, Pairs

LEMMA DisconnectTyped ==
    ASSUME NEW Bodies, NEW Notes, GossipTyped(Bodies, Notes),
           NEW n \in Nodes, NEW m \in Nodes, Disconnect(n, m)
    PROVE  GossipTyped(Bodies, Notes)'
PROOF
<1>1. PICK none : none = << >>
    OBVIOUS
<1>2. none \in Seq(Messages(Bodies, Notes))
    BY <1>1, EmptySeq
<1>3. net \in [Pairs -> Seq(Messages(Bodies, Notes))]
    BY DEF GossipTyped, Pairs
<1>4. net' = [net EXCEPT ![<<n, m>>] = none, ![<<m, n>>] = none]
    BY <1>1 DEF Disconnect
<1>5. net' \in [Pairs -> Seq(Messages(Bodies, Notes))]
    BY <1>2, <1>3, <1>4
<1>6. <<n, m>> \in Pairs /\ <<m, n>> \in Pairs
    BY DEF Pairs
<1>7. net'[<<n, m>>] = << >> /\ net'[<<m, n>>] = << >>
    BY <1>1, <1>3, <1>4, <1>6
<1>8. ASSUME NEW p \in Pairs, {p[1], p[2]} \in open, p # <<n, m>>, p # <<m, n>>
      PROVE  {p[1], p[2]} \in open'
    BY <1>8, BothWays DEF Disconnect
<1>9. \A p \in Pairs : net'[p] # << >> => {p[1], p[2]} \in open'
  <2> SUFFICES ASSUME NEW p \in Pairs, net'[p] # << >>
               PROVE  {p[1], p[2]} \in open'
      OBVIOUS
  <2>1. p # <<n, m>> /\ p # <<m, n>>
      BY <1>7
  <2>2. net'[p] = net[p]
      BY <1>3, <1>4, <2>1
  <2> QED
      BY <1>8, <2>1, <2>2 DEF GossipTyped, Pairs
<1>10. \A p \in shaken' : p \in Pairs /\ {p[1], p[2]} \in open'
    BY <1>8 DEF Disconnect, GossipTyped, Pairs
<1> QED
    BY <1>5, <1>9, <1>10 DEF Disconnect, GossipTyped, Pairs

LEMMA ForgetTyped ==
    ASSUME NEW Bodies, NEW Notes, GossipTyped(Bodies, Notes),
           NEW n \in Nodes, NEW c, Forget(n, c)
    PROVE  GossipTyped(Bodies, Notes)'
PROOF
<1>1. seen' \in [Nodes -> SUBSET Chains(Bodies)]
    BY DEF Forget, GossipTyped
<1> QED
    BY <1>1 DEF Forget, GossipTyped

(* A step that leaves connections alone and sends what is typed.           *)
LEMMA SentTyped ==
    ASSUME NEW Bodies, NEW Notes, GossipTyped(Bodies, Notes),
           NEW n \in Nodes, NEW c \in Chains(Bodies), NEW after,
           NetTyped(after, Bodies, Notes), net' = after, open' = open,
           chain' = chain \/ chain' = [chain EXCEPT ![n] = c],
           seen' = seen \/ seen' = [seen EXCEPT ![n] = @ \cup {c}],
           shaken' \subseteq Pairs, \A p \in shaken' : {p[1], p[2]} \in open
    PROVE  GossipTyped(Bodies, Notes)'
PROOF
<1>1. chain' \in [Nodes -> Chains(Bodies)]
    BY DEF GossipTyped
<1>2. seen' \in [Nodes -> SUBSET Chains(Bodies)]
    BY DEF GossipTyped
<1>3. /\ net' \in [Pairs -> Seq(Messages(Bodies, Notes))]
      /\ \A p \in Pairs : net'[p] # << >> => {p[1], p[2]} \in open'
    BY DEF NetTyped, Queues
<1> QED
    BY <1>1, <1>2, <1>3 DEF GossipTyped, Pairs

-----------------------------------------------------------------------------
(* What a node that mines or handles a message says                        *)

(* n speaks, and nobody else: of chains it tells only its own, and of a    *)
(* new one to all its peers.                                               *)
Speaks(n, before) ==
    /\ Extends(before, net')
    /\ \A p \in Pairs : \A x \in ToSet(net'[p]) :
          x \in ToSet(before[p]) \/ (p[1] = n /\ (x.type \in Telling => x.chain = chain'[n]))
    /\ open' = open
    /\ \A x \in Nodes : x # n => chain'[x] = chain[x]
    /\ chain'[n] # chain[n] =>
          \A x \in PeersOf(n) : Tell("NEW_BLOCK", chain'[n]) \in ToSet(net'[<<n, x>>])

LEMMA SilentSpeaks ==
    ASSUME NEW n \in Nodes, NEW before,
           net' = before, open' = open, chain' = chain
    PROVE  Speaks(n, before)
PROOF
BY DEF Speaks, Extends

LEMMA MailSpeaks ==
    ASSUME NEW Bodies, NEW Notes, Carried(Bodies, Notes), GossipTyped(Bodies, Notes),
           NEW before, NetTyped(before, Bodies, Notes),
           NEW n \in Nodes, NEW m \in Nodes, {n, m} \in open,
           NEW messages \in Seq(Messages(Bodies, Notes)),
           \A x \in ToSet(messages) : x.type \in Telling => x.chain = chain[n],
           net' = Sent(before, Mail(n, m, messages)),
           open' = open, chain' = chain
    PROVE  /\ Speaks(n, before) /\ NetTyped(net', Bodies, Notes)
           /\ ToSet(messages) \subseteq ToSet(net'[<<n, m>>])
PROOF
<1>1. PICK after : after = net'
    OBVIOUS
<1>2. /\ NetTyped(after, Bodies, Notes) /\ Extends(before, after)
      /\ ToSet(after[<<n, m>>]) = ToSet(before[<<n, m>>]) \cup ToSet(messages)
      /\ \A p \in Pairs : p # <<n, m>> => ToSet(after[p]) = ToSet(before[p])
    BY <1>1, Mailed
<1>3. ASSUME NEW p \in Pairs, NEW x \in ToSet(after[p]), x \notin ToSet(before[p])
      PROVE  p[1] = n /\ (x.type \in Telling => x.chain = chain'[n])
    BY <1>2, <1>3
<1> QED
    BY <1>1, <1>2, <1>3 DEF Speaks

LEMMA AnnouncementSpeaks ==
    ASSUME NEW Bodies, NEW Notes, Carried(Bodies, Notes), GossipTyped(Bodies, Notes),
           NEW before, NetTyped(before, Bodies, Notes),
           NEW n \in Nodes, NEW c \in Chains(Bodies),
           net' = Sent(before, Broadcast(n, PeersOf(n), Tell("NEW_BLOCK", c))),
           open' = open, chain' = [chain EXCEPT ![n] = c]
    PROVE  Speaks(n, before) /\ NetTyped(net', Bodies, Notes) /\ chain'[n] = c
PROOF
<1>1. PICK after : after = net'
    OBVIOUS
<1>2. PICK msg : msg = Tell("NEW_BLOCK", c)
    OBVIOUS
<1>3. msg \in Messages(Bodies, Notes) /\ msg.chain = c
    BY <1>2, AnswerTypes DEF Telling, Tell
<1>4. NetTyped(after, Bodies, Notes) /\ Reached(n, PeersOf(n), msg, before, after)
    BY <1>1, <1>2, <1>3, Announced
<1>5. chain'[n] = c /\ \A x \in Nodes : x # n => chain'[x] = chain[x]
    BY DEF GossipTyped
<1>6. ASSUME NEW p \in Pairs, NEW x \in ToSet(after[p]), x \notin ToSet(before[p])
      PROVE  p[1] = n /\ (x.type \in Telling => x.chain = chain'[n])
    BY <1>3, <1>4, <1>5, <1>6 DEF Reached
<1> QED
    BY <1>1, <1>2, <1>4, <1>5, <1>6 DEF Speaks, Reached

LEMMA MineDone ==
    ASSUME NEW Bodies, NEW Notes, Carried(Bodies, Notes), GossipTyped(Bodies, Notes),
           NEW n \in Nodes, NEW clock \in Clocks, NEW body \in Bodies,
           Mine(n, clock, body)
    PROVE  /\ GossipTyped(Bodies, Notes)'
           /\ Speaks(n, net) /\ shaken' = shaken
           /\ Len(chain'[n]) = Len(chain[n]) + 1
           /\ seen' = [seen EXCEPT ![n] = @ \cup {chain'[n]}]
PROOF
<1>1. PICK b : b = [timestamp |-> CandidateTime(chain[n], clock),
                    difficulty |-> expectedDifficulty(chain[n]), miner |-> n, txs |-> body]
    OBVIOUS
<1>2. PICK c : c = Append(chain[n], b)
    OBVIOUS
<1>3. chain[n] \in Chains(Bodies)
    BY DEF GossipTyped
<1>4. c \in Chains(Bodies) /\ Len(c) = Len(chain[n]) + 1
    BY <1>1, <1>2, <1>3, MinedChain
<1>5. /\ chain' = [chain EXCEPT ![n] = c]
      /\ seen' = [seen EXCEPT ![n] = @ \cup {c}]
      /\ net' = Sent(net, Broadcast(n, PeersOf(n), Tell("NEW_BLOCK", c)))
      /\ open' = open /\ shaken' = shaken
    BY <1>1, <1>2 DEF Mine
<1>6. NetTyped(net, Bodies, Notes)
    BY TypedNet
<1>7. Speaks(n, net) /\ NetTyped(net', Bodies, Notes) /\ chain'[n] = c
    BY <1>4, <1>5, <1>6, AnnouncementSpeaks
<1>8. shaken \subseteq Pairs /\ \A p \in shaken : {p[1], p[2]} \in open
    BY DEF GossipTyped, Pairs
<1>9. GossipTyped(Bodies, Notes)'
    BY <1>4, <1>5, <1>7, <1>8, SentTyped
<1> QED
    BY <1>4, <1>5, <1>7, <1>9

LEMMA HelloDone ==
    ASSUME NEW Bodies, NEW Notes, Carried(Bodies, Notes), GossipTyped(Bodies, Notes),
           NEW m \in Nodes, NEW n \in Nodes, net[<<m, n>>] # << >>,
           NEW mempool \in Seq(Notes), HandleHello(n, m, mempool)
    PROVE  /\ GossipTyped(Bodies, Notes)'
           /\ Speaks(n, Taken(m, n)) /\ shaken' = shaken \cup {<<n, m>>}
           /\ chain' = chain /\ seen' = seen
           /\ Ask("QUERY_TIP") \in ToSet(net'[<<n, m>>])
PROOF
<1>1. PICK query : query = Ask("QUERY_TIP")
    OBVIOUS
<1>2. query \in Messages(Bodies, Notes) /\ query.type \notin Telling
    BY <1>1, QuestionTypes DEF Asking, Telling, Ask
<1>3. mempool \in Seq(Messages(Bodies, Notes))
    BY SeqMonotonic DEF Messages
<1>4. \A x \in ToSet(mempool) : x.type \notin Telling
    BY LenProperties DEF ToSet, Carried
<1>5. <<query>> \in Seq(Messages(Bodies, Notes)) /\ ToSet(<<query>>) = {query}
    BY <1>2 DEF ToSet
<1>6. PICK messages : messages = <<query>> \o mempool
    OBVIOUS
<1>7. messages \in Seq(Messages(Bodies, Notes))
      /\ ToSet(messages) = {query} \cup ToSet(mempool)
  <2>1. PICK M : M = Messages(Bodies, Notes)
      OBVIOUS
  <2>2. PICK q \in Seq(M) : q = <<query>>
      BY <1>5, <2>1
  <2>3. mempool \in Seq(M)
      BY <1>3, <2>1
  <2>4. q \o mempool \in Seq(M) /\ ToSet(q \o mempool) = ToSet(q) \cup ToSet(mempool)
      BY <2>3, ConcatSets
  <2> QED
      BY <1>5, <1>6, <2>1, <2>2, <2>4
<1>8. /\ NetTyped(Taken(m, n), Bodies, Notes) /\ {n, m} \in open
    BY TypedNet, TakenTyped
<1>9. /\ net' = Sent(Taken(m, n), Mail(n, m, messages))
      /\ chain' = chain /\ open' = open /\ seen' = seen /\ shaken' = shaken \cup {<<n, m>>}
    BY <1>1, <1>6 DEF HandleHello
<1>10. /\ Speaks(n, Taken(m, n)) /\ NetTyped(net', Bodies, Notes)
       /\ ToSet(messages) \subseteq ToSet(net'[<<n, m>>])
    BY <1>2, <1>4, <1>7, <1>8, <1>9, MailSpeaks
<1>11. shaken' \subseteq Pairs /\ \A p \in shaken' : {p[1], p[2]} \in open
  <2>1. shaken \subseteq Pairs /\ \A p \in shaken : {p[1], p[2]} \in open
      BY DEF GossipTyped, Pairs
  <2>2. PICK q : q = <<n, m>>
      OBVIOUS
  <2>3. q \in Pairs /\ {q[1], q[2]} \in open
      BY <1>8, <2>2 DEF Pairs
  <2> QED
      BY <1>9, <2>1, <2>2, <2>3
<1>12. GossipTyped(Bodies, Notes)'
    BY <1>9, <1>10, <1>11, SentTyped, GenesisChain DEF Carried
<1> QED
    BY <1>1, <1>7, <1>9, <1>10, <1>12

(* The answers to the two queries.                                         *)
LEMMA AnswerDone ==
    ASSUME NEW Bodies, NEW Notes, Carried(Bodies, Notes), GossipTyped(Bodies, Notes),
           NEW m \in Nodes, NEW n \in Nodes, net[<<m, n>>] # << >>,
           NEW type \in Telling, net' = Sent(Taken(m, n), To(n, m, Tell(type, chain[n]))),
           UNCHANGED <<chain, open, shaken, seen>>
    PROVE  /\ GossipTyped(Bodies, Notes)'
           /\ Speaks(n, Taken(m, n))
           /\ Tell(type, chain[n]) \in ToSet(net'[<<n, m>>])
PROOF
<1>1. PICK msg : msg = Tell(type, chain[n])
    OBVIOUS
<1>2. msg \in Messages(Bodies, Notes) /\ msg.chain = chain[n]
    BY <1>1, AnswerTypes DEF GossipTyped, Tell
<1>3. <<msg>> \in Seq(Messages(Bodies, Notes)) /\ ToSet(<<msg>>) = {msg}
    BY <1>2 DEF ToSet
<1>4. NetTyped(Taken(m, n), Bodies, Notes) /\ {n, m} \in open
    BY TypedNet, TakenTyped
<1>5. net' = Sent(Taken(m, n), Mail(n, m, <<msg>>))
    BY <1>1 DEF To
<1>6. /\ Speaks(n, Taken(m, n)) /\ NetTyped(net', Bodies, Notes)
      /\ ToSet(<<msg>>) \subseteq ToSet(net'[<<n, m>>])
    BY <1>2, <1>3, <1>4, <1>5, MailSpeaks
<1>7. shaken' \subseteq Pairs /\ \A p \in shaken' : {p[1], p[2]} \in open
    BY DEF GossipTyped, Pairs
<1>8. GossipTyped(Bodies, Notes)'
    BY <1>6, <1>7, SentTyped, GenesisChain DEF Carried
<1> QED
    BY <1>1, <1>3, <1>6, <1>8

(* TIP and NEW_BLOCK: the block is in the chain, or it was announced       *)
(* before, or it becomes the tip, or the node is as high, or it asks.      *)
LEMMA BlockDone ==
    ASSUME NEW Bodies, NEW Notes, Carried(Bodies, Notes), GossipTyped(Bodies, Notes),
           NEW m \in Nodes, NEW n \in Nodes, net[<<m, n>>] # << >>,
           NEW c \in Chains(Bodies), NEW gossip \in BOOLEAN,
           considerBlock(n, m, c, gossip), UNCHANGED <<open, shaken>>
    PROVE  /\ GossipTyped(Bodies, Notes)'
           /\ Speaks(n, Taken(m, n))
           /\ Len(chain'[n]) >= Len(chain[n])
           /\ \/ Len(chain'[n]) >= Len(c)
              \/ Ask("QUERY_CHAIN") \in ToSet(net'[<<n, m>>])
              \/ gossip /\ c \in seen[n] /\ seen' = seen
           /\ seen' = seen \/ seen' = [seen EXCEPT ![n] = @ \cup {c}]
PROOF
<1>1. NetTyped(Taken(m, n), Bodies, Notes) /\ {n, m} \in open
    BY TypedNet, TakenTyped
<1>2. shaken' \subseteq Pairs /\ \A p \in shaken' : {p[1], p[2]} \in open
    BY DEF GossipTyped, Pairs
<1>3. PICK own \in Chains(Bodies) : own = chain[n]
    BY DEF GossipTyped
<1>4. Len(own) \in Nat /\ Len(c) \in Nat /\ c \in Seq(Blocks(Bodies)) /\ c # << >>
    BY ChainParts
<1>5. CASE IsPrefix(c, own) \/ (gossip /\ c \in seen[n])
  <2>1. net' = Taken(m, n) /\ chain' = chain /\ seen' = seen
      BY <1>3, <1>5 DEF considerBlock
  <2>2. Speaks(n, Taken(m, n))
      BY <2>1, SilentSpeaks
  <2>3. GossipTyped(Bodies, Notes)'
      BY <1>1, <1>2, <2>1, SentTyped
  <2>4. IsPrefix(c, own) => Len(own) >= Len(c)
      BY <1>4 DEF IsPrefix
  <2> QED
      BY <1>3, <1>4, <1>5, <2>1, <2>2, <2>3, <2>4
<1>6. CASE ~ (IsPrefix(c, own) \/ (gossip /\ c \in seen[n])) /\ Front(c) = own
  <2>1. /\ chain' = [chain EXCEPT ![n] = c] /\ seen' = [seen EXCEPT ![n] = @ \cup {c}]
        /\ net' = Sent(Taken(m, n), Broadcast(n, PeersOf(n), Tell("NEW_BLOCK", c)))
      BY <1>3, <1>6 DEF considerBlock
  <2>2. Speaks(n, Taken(m, n)) /\ NetTyped(net', Bodies, Notes) /\ chain'[n] = c
      BY <1>1, <2>1, AnnouncementSpeaks
  <2>3. GossipTyped(Bodies, Notes)'
      BY <1>2, <2>1, <2>2, SentTyped
  <2>4. Len(c) = Len(own) + 1
    <3>1. PICK k \in Nat : k = Len(c) /\ k > 0
        BY ChainParts
    <3>2. Front(c) = SubSeq(c, 1, k - 1)
        BY <3>1 DEF Front
    <3>3. \A i \in 1..(k - 1) : c[i] \in Blocks(Bodies)
        BY <1>4, <3>1, ElementOfSeq
    <3>4. Len(Front(c)) = k - 1
        BY <3>1, <3>2, <3>3, SubSeqProperties
    <3> QED
        BY <1>6, <3>1, <3>4
  <2> QED
      BY <1>3, <1>4, <2>1, <2>2, <2>3, <2>4
<1>7. CASE ~ (IsPrefix(c, own) \/ (gossip /\ c \in seen[n])) /\ Front(c) # own
  <2>1. /\ chain' = chain
        /\ seen' = seen \/ seen' = [seen EXCEPT ![n] = @ \cup {c}]
        /\ net' = IF height(c) > height(own)
                  THEN Sent(Taken(m, n), To(n, m, Ask("QUERY_CHAIN")))
                  ELSE Taken(m, n)
      BY <1>3, <1>7 DEF considerBlock
  <2>2. height(c) > height(own) <=> Len(c) > Len(own)
      BY <1>4 DEF height
  <2>3. CASE Len(c) > Len(own)
    <3>1. PICK query : query = Ask("QUERY_CHAIN")
        OBVIOUS
    <3>2. query \in Messages(Bodies, Notes) /\ query.type \notin Telling
        BY <3>1, QuestionTypes DEF Asking, Telling, Ask
    <3>3. <<query>> \in Seq(Messages(Bodies, Notes)) /\ ToSet(<<query>>) = {query}
        BY <3>2 DEF ToSet
    <3>4. net' = Sent(Taken(m, n), Mail(n, m, <<query>>))
        BY <2>1, <2>2, <2>3, <3>1 DEF To
    <3>5. /\ Speaks(n, Taken(m, n)) /\ NetTyped(net', Bodies, Notes)
          /\ ToSet(<<query>>) \subseteq ToSet(net'[<<n, m>>])
        BY <1>1, <2>1, <3>2, <3>3, <3>4, MailSpeaks
    <3>6. GossipTyped(Bodies, Notes)'
        BY <1>2, <2>1, <3>5, SentTyped
    <3>7. Ask("QUERY_CHAIN") \in ToSet(net'[<<n, m>>])
        BY <3>1, <3>3, <3>5
    <3>8. Len(chain'[n]) >= Len(chain[n])
        BY <1>3, <1>4, <2>1
    <3> QED
        BY <2>1, <3>5, <3>6, <3>7, <3>8
  <2>4. CASE ~ (Len(c) > Len(own))
    <3>1. net' = Taken(m, n)
        BY <2>1, <2>2, <2>4
    <3>2. Speaks(n, Taken(m, n))
        BY <2>1, <3>1, SilentSpeaks
    <3>3. GossipTyped(Bodies, Notes)'
        BY <1>1, <1>2, <2>1, <3>1, SentTyped
    <3> QED
        BY <1>3, <1>4, <2>1, <2>4, <3>2, <3>3
  <2> QED
      BY <2>3, <2>4
<1> QED
    BY <1>5, <1>6, <1>7

LEMMA ChainDone ==
    ASSUME NEW Bodies, NEW Notes, Carried(Bodies, Notes), GossipTyped(Bodies, Notes),
           NEW m \in Nodes, NEW n \in Nodes, net[<<m, n>>] # << >>,
           NEW c \in Chains(Bodies), HandleChain(n, m, c)
    PROVE  /\ GossipTyped(Bodies, Notes)'
           /\ Speaks(n, Taken(m, n)) /\ shaken' = shaken
           /\ IF totalWork(c) > totalWork(chain[n])
              THEN chain'[n] = c /\ seen' = [seen EXCEPT ![n] = @ \cup {c}]
              ELSE chain' = chain /\ seen' = seen
PROOF
<1>1. NetTyped(Taken(m, n), Bodies, Notes)
    BY TypedNet, TakenTyped
<1>2. shaken' = shaken /\ open' = open
    BY DEF HandleChain
<1>3. shaken' \subseteq Pairs /\ \A p \in shaken' : {p[1], p[2]} \in open
    BY <1>2 DEF GossipTyped, Pairs
<1>4. CASE totalWork(c) > totalWork(chain[n])
  <2>1. PICK msg : msg = Tell("NEW_BLOCK", c)
      OBVIOUS
  <2>2. msg \in Messages(Bodies, Notes) /\ msg.chain = c
      BY <2>1, AnswerTypes DEF Telling, Tell
  <2>3. PICK once : once = Sent(Taken(m, n), Broadcast(n, PeersOf(n), msg))
      OBVIOUS
  <2>4. PICK twice, others : twice = Sent(once, Broadcast(n, others, msg))
                             /\ others = PeersOf(n) \ {m}
      OBVIOUS
  <2>5. /\ chain' = [chain EXCEPT ![n] = c] /\ seen' = [seen EXCEPT ![n] = @ \cup {c}]
        /\ net' = twice
      BY <1>4, <2>1, <2>3, <2>4 DEF HandleChain
  <2>6. NetTyped(once, Bodies, Notes) /\ Reached(n, PeersOf(n), msg, Taken(m, n), once)
    <3>1. PICK peers : peers = PeersOf(n) /\ peers \subseteq PeersOf(n)
        OBVIOUS
    <3> QED
        BY <1>1, <2>2, <2>3, <3>1, Announced
  <2>7. NetTyped(twice, Bodies, Notes) /\ Reached(n, others, msg, once, twice)
    <3>1. others \subseteq PeersOf(n)
        BY <2>4
    <3> QED
        BY <2>2, <2>4, <2>6, <3>1, Announced
  <2>8. Extends(Taken(m, n), twice)
      BY <2>6, <2>7 DEF Extends, Reached
  <2>9. \A x \in PeersOf(n) : msg \in ToSet(twice[<<n, x>>])
    <3>1. \A x \in PeersOf(n) : <<n, x>> \in Pairs
        BY DEF PeersOf, Pairs
    <3> QED
        BY <2>6, <2>7, <3>1 DEF Extends, Reached
  <2>10. chain'[n] = c /\ \A x \in Nodes : x # n => chain'[x] = chain[x]
      BY <2>5 DEF GossipTyped
  <2>11. ASSUME NEW p \in Pairs, NEW x \in ToSet(twice[p]), x \notin ToSet(Taken(m, n)[p])
         PROVE  p[1] = n /\ (x.type \in Telling => x.chain = chain'[n])
      BY <2>2, <2>6, <2>7, <2>10, <2>11 DEF Reached
  <2>12. Speaks(n, Taken(m, n))
      BY <1>2, <2>1, <2>5, <2>8, <2>9, <2>10, <2>11 DEF Speaks
  <2>13. GossipTyped(Bodies, Notes)'
      BY <1>2, <1>3, <2>5, <2>7, SentTyped
  <2> QED
      BY <1>2, <1>4, <2>5, <2>10, <2>12, <2>13
<1>5. CASE ~ (totalWork(c) > totalWork(chain[n]))
  <2>1. net' = Taken(m, n) /\ chain' = chain /\ seen' = seen
      BY <1>5 DEF HandleChain
  <2>2. Speaks(n, Taken(m, n))
      BY <1>2, <2>1, SilentSpeaks
  <2>3. GossipTyped(Bodies, Notes)'
      BY <1>1, <1>2, <1>3, <2>1, SentTyped
  <2> QED
      BY <1>2, <1>5, <2>1, <2>2, <2>3
<1> QED
    BY <1>4, <1>5

-----------------------------------------------------------------------------
(* One message handled, and the types for good                             *)

(* What handling the message x of m does to n, whatever the difficulties.  *)
Answered(m, n, x) ==
    /\ Speaks(n, Taken(m, n))
    /\ x.type = "HELLO" =>
          /\ shaken' = shaken \cup {<<n, m>>} /\ chain' = chain /\ seen' = seen
          /\ Ask("QUERY_TIP") \in ToSet(net'[<<n, m>>])
    /\ x.type # "HELLO" => shaken' = shaken
    /\ x.type = "QUERY_TIP" =>
          /\ chain' = chain /\ seen' = seen
          /\ Tell("TIP", chain[n]) \in ToSet(net'[<<n, m>>])
    /\ x.type = "QUERY_CHAIN" =>
          /\ chain' = chain /\ seen' = seen
          /\ Tell("CHAIN", chain[n]) \in ToSet(net'[<<n, m>>])
    /\ x.type \in {"TIP", "NEW_BLOCK"} =>
          /\ Len(chain'[n]) >= Len(chain[n])
          /\ \/ Len(chain'[n]) >= Len(x.chain)
             \/ Ask("QUERY_CHAIN") \in ToSet(net'[<<n, m>>])
             \/ x.type = "NEW_BLOCK" /\ x.chain \in seen[n] /\ seen' = seen
          /\ seen' = seen \/ seen' = [seen EXCEPT ![n] = @ \cup {x.chain}]
    /\ x.type = "CHAIN" =>
          IF totalWork(x.chain) > totalWork(chain[n])
          THEN chain'[n] = x.chain /\ seen' = [seen EXCEPT ![n] = @ \cup {x.chain}]
          ELSE chain' = chain /\ seen' = seen

LEMMA DeliverDone ==
    ASSUME NEW Bodies, NEW Notes, Carried(Bodies, Notes), GossipTyped(Bodies, Notes),
           NEW m \in Nodes, NEW n \in Nodes, NEW mempool \in Seq(Notes),
           Deliver(m, n, mempool),
           NEW x, x = Head(net[<<m, n>>])
    PROVE  /\ GossipTyped(Bodies, Notes)' /\ Answered(m, n, x)
           /\ x \in Messages(Bodies, Notes) /\ x.type \in Asking \cup Telling
PROOF
<1>1. net[<<m, n>>] # << >>
    BY DEF Deliver
<1>2. x \in Messages(Bodies, Notes)
    BY <1>1, TypedNet, TakenTyped
<1>3. x.type \in Telling => x.chain \in Chains(Bodies)
    BY <1>2, MessageKinds
<1>4. CASE x.type = "HELLO" /\ HandleHello(n, m, mempool)
  <2>1. /\ GossipTyped(Bodies, Notes)'
        /\ Speaks(n, Taken(m, n)) /\ shaken' = shaken \cup {<<n, m>>}
        /\ chain' = chain /\ seen' = seen
        /\ Ask("QUERY_TIP") \in ToSet(net'[<<n, m>>])
      BY <1>1, <1>4, HelloDone
  <2> QED
      BY <1>2, <1>4, <2>1 DEF Answered, Asking
<1>5. CASE x.type = "QUERY_TIP" /\ HandleQueryTip(n, m)
  <2>1. /\ net' = Sent(Taken(m, n), To(n, m, Tell("TIP", chain[n])))
        /\ UNCHANGED <<chain, open, shaken, seen>>
      BY <1>5 DEF HandleQueryTip
  <2>2. /\ GossipTyped(Bodies, Notes)' /\ Speaks(n, Taken(m, n))
        /\ Tell("TIP", chain[n]) \in ToSet(net'[<<n, m>>])
      BY <1>1, <2>1, AnswerDone DEF Telling
  <2> QED
      BY <1>2, <1>5, <2>1, <2>2 DEF Answered, Asking
<1>6. CASE x.type \in {"TIP", "NEW_BLOCK"} /\ HandleBlock(n, m, x)
  <2>1. PICK gossip \in BOOLEAN : gossip = (x.type = "NEW_BLOCK")
      OBVIOUS
  <2>2. PICK c \in Chains(Bodies) : c = x.chain
      BY <1>3, <1>6 DEF Telling
  <2>3. considerBlock(n, m, c, gossip) /\ UNCHANGED <<open, shaken>>
      BY <1>6, <2>1, <2>2 DEF HandleBlock
  <2>4. /\ GossipTyped(Bodies, Notes)'
        /\ Speaks(n, Taken(m, n))
        /\ Len(chain'[n]) >= Len(chain[n])
        /\ \/ Len(chain'[n]) >= Len(c)
           \/ Ask("QUERY_CHAIN") \in ToSet(net'[<<n, m>>])
           \/ gossip /\ c \in seen[n] /\ seen' = seen
        /\ seen' = seen \/ seen' = [seen EXCEPT ![n] = @ \cup {c}]
      BY <1>1, <2>3, BlockDone
  <2> QED
      BY <1>2, <1>6, <2>1, <2>2, <2>3, <2>4 DEF Answered, Telling
<1>7. CASE x.type = "QUERY_CHAIN" /\ HandleQueryChain(n, m)
  <2>1. /\ net' = Sent(Taken(m, n), To(n, m, Tell("CHAIN", chain[n])))
        /\ UNCHANGED <<chain, open, shaken, seen>>
      BY <1>7 DEF HandleQueryChain
  <2>2. /\ GossipTyped(Bodies, Notes)' /\ Speaks(n, Taken(m, n))
        /\ Tell("CHAIN", chain[n]) \in ToSet(net'[<<n, m>>])
      BY <1>1, <2>1, AnswerDone DEF Telling
  <2> QED
      BY <1>2, <1>7, <2>1, <2>2 DEF Answered, Asking
<1>8. CASE x.type = "CHAIN" /\ HandleChain(n, m, x.chain)
  <2>1. PICK c \in Chains(Bodies) : c = x.chain
      BY <1>3, <1>8 DEF Telling
  <2>2. /\ GossipTyped(Bodies, Notes)'
        /\ Speaks(n, Taken(m, n)) /\ shaken' = shaken
        /\ IF totalWork(c) > totalWork(chain[n])
           THEN chain'[n] = c /\ seen' = [seen EXCEPT ![n] = @ \cup {c}]
           ELSE chain' = chain /\ seen' = seen
      BY <1>1, <1>8, <2>1, ChainDone
  <2> QED
      BY <1>2, <1>8, <2>1, <2>2 DEF Answered, Telling
<1> QED
    BY <1>4, <1>5, <1>6, <1>7, <1>8 DEF Deliver

(* What every step of GossipSpec keeps: blocks are empty, and no other     *)
(* messages travel.                                                        *)
Typed == GossipTyped({<< >>}, {})

LEMMA NothingElse == Carried({<< >>}, {}) /\ << >> \in Seq({})
PROOF
BY DEF Carried

LEMMA TypedStep ==
    ASSUME Typed, [GossipNext]_gossipVars
    PROVE  Typed'
PROOF
<1>1. GossipTyped({<< >>}, {})
    BY DEF Typed
<1>2. ASSUME NEW n \in Nodes, NEW m \in Nodes, Connect(n, m)
      PROVE  Typed'
    BY <1>1, <1>2, ConnectTyped DEF Typed
<1>3. ASSUME NEW n \in Nodes, NEW m \in Nodes, Disconnect(n, m)
      PROVE  Typed'
    BY <1>1, <1>3, DisconnectTyped DEF Typed
<1>4. ASSUME NEW n \in Nodes, NEW c, Forget(n, c)
      PROVE  Typed'
    BY <1>1, <1>4, ForgetTyped DEF Typed
<1>5. ASSUME NEW n \in Nodes, NEW clock \in Clocks, Mine(n, clock, << >>)
      PROVE  Typed'
    BY <1>1, <1>5, MineDone, NothingElse DEF Typed
<1>6. ASSUME NEW n \in Nodes, NEW m \in Nodes, Deliver(m, n, << >>)
      PROVE  Typed'
    BY <1>1, <1>6, DeliverDone, NothingElse DEF Typed
<1>7. CASE UNCHANGED gossipVars
    BY <1>1, <1>7 DEF gossipVars, Typed, GossipTyped
<1> QED
    BY <1>2, <1>3, <1>4, <1>5, <1>6, <1>7 DEF GossipNext, Reconnect, LoseConnection

(* The types are kept by every step.                                       *)
THEOREM GossipTypes == GossipSpec => []Typed
PROOF
<1>1. GossipInit => Typed
    BY InitTyped, NothingElse DEF Typed
<1>2. Typed /\ [GossipNext]_gossipVars => Typed'
    BY TypedStep
<1> QED
    BY <1>1, <1>2, PTL DEF GossipSpec

(* Chains start with the genesis block, a handshake or a message belongs   *)
(* to a connection that is open, and connections follow the known          *)
(* addresses: what p2p.js keeps per peer goes when the peer goes.          *)
THEOREM GossipTypeCorrect == GossipSpec => []GossipTypeOK
PROOF
<1>1. Typed => GossipTypeOK
    BY DEF Typed, GossipTyped, Chains, GossipTypeOK
<1> QED
    BY <1>1, GossipTypes, PTL

-----------------------------------------------------------------------------
(* When all blocks have one difficulty, work is length                     *)

OneDifficulty == MIN_DIFFICULTY = MAX_DIFFICULTY

LEMMA WorkIsLength ==
    ASSUME OneDifficulty, NEW Bodies, NEW c \in Chains(Bodies), NEW e \in Chains(Bodies)
    PROVE  /\ totalWork(c) > totalWork(e) <=> Len(c) > Len(e)
           /\ Len(c) = Len(e) => totalWork(c) = totalWork(e)
PROOF
<1>1. MIN_DIFFICULTY \in Nat /\ \A b \in Blocks(Bodies) : b.difficulty = MIN_DIFFICULTY
    BY HeadersAssumption DEF OneDifficulty, Blocks
<1>2. PICK w : w = Heads!PowerOfTwo[MIN_DIFFICULTY]
    OBVIOUS
<1>2a. w \in Nat /\ w > 0
    BY <1>1, <1>2, Heads!PowerOfTwoType, HeadsAssumed
<1>3. c \in Seq(Blocks(Bodies)) /\ e \in Seq(Blocks(Bodies))
    BY ChainParts
<1>4. Heads!totalWork(c) = Len(c) * Heads!PowerOfTwo[MIN_DIFFICULTY]
    BY <1>1, <1>3, Heads!WorkOfEven, HeadsAssumed
<1>5. Heads!totalWork(e) = Len(e) * Heads!PowerOfTwo[MIN_DIFFICULTY]
    BY <1>1, <1>3, Heads!WorkOfEven, HeadsAssumed
<1>6. PICK j \in Nat, k \in Nat : j = Len(c) /\ k = Len(e)
    BY ChainParts
<1>7. totalWork(c) = j * w /\ totalWork(e) = k * w
    BY <1>2, <1>4, <1>5, <1>6, SameWork
<1>8. j > k => j * w > k * w
  <2> SUFFICES ASSUME j > k PROVE j * w > k * w
      OBVIOUS
  <2>1. PICK i \in Nat : i > 0 /\ j = k + i
      <3>1. j - k \in Nat /\ j - k > 0 /\ j = k + (j - k)
          OBVIOUS
      <3> QED
          BY <3>1
  <2>2. j * w = k * w + i * w
      BY <1>2a, <2>1
  <2>3. i * w > 0
      BY <1>2a, <2>1
  <2>4. k * w \in Nat /\ i * w \in Nat
      BY <1>2a
  <2> QED
      BY <2>2, <2>3, <2>4
<1>9. ~ (j > k) => ~ (j * w > k * w)
  <2> SUFFICES ASSUME ~ (j > k) PROVE ~ (j * w > k * w)
      OBVIOUS
  <2>1. PICK i \in Nat : k = j + i
      <3>1. k - j \in Nat /\ k = j + (k - j)
          OBVIOUS
      <3> QED
          BY <3>1
  <2>2. k * w = j * w + i * w
      BY <1>2a, <2>1
  <2>4. j * w \in Nat /\ i * w \in Nat
      BY <1>2a
  <2> QED
      BY <2>2, <2>4
<1> QED
    BY <1>6, <1>7, <1>8, <1>9

(* What a step of one node may do to the others' expectations: lengths     *)
(* only grow, connections stay, and of what is on its way only the message *)
(* x of m is gone (nothing, when n mines).                                 *)
Progress(m, n, x) ==
    /\ \A y \in Nodes : Len(chain'[y]) >= Len(chain[y])
    /\ open' = open
    /\ \A p \in Pairs : \A y \in ToSet(net[p]) :
          y \in ToSet(net'[p]) \/ (p = <<m, n>> /\ y = x)

LEMMA LengthTypes ==
    ASSUME NEW Bodies, NEW Notes, GossipTyped(Bodies, Notes), NEW n \in Nodes
    PROVE  chain[n] \in Chains(Bodies) /\ Len(chain[n]) \in Nat
PROOF
<1>1. chain[n] \in Chains(Bodies)
    BY DEF GossipTyped
<1> QED
    BY <1>1, ChainParts

LEMMA DeliverProgress ==
    ASSUME OneDifficulty, NEW Bodies, NEW Notes, Carried(Bodies, Notes),
           GossipTyped(Bodies, Notes), GossipTyped(Bodies, Notes)',
           NEW m \in Nodes, NEW n \in Nodes, net[<<m, n>>] # << >>,
           NEW x \in Messages(Bodies, Notes), x = Head(net[<<m, n>>]),
           x.type \in Asking \cup Telling, Answered(m, n, x)
    PROVE  Progress(m, n, x)
PROOF
<1>1. PICK M : M = Messages(Bodies, Notes)
    OBVIOUS
<1>2. net \in Queues(M)
    BY <1>1, TypedNet DEF NetTyped
<1>3. /\ \A p \in Pairs : p # <<m, n>> => Taken(m, n)[p] = net[p]
      /\ ToSet(net[<<m, n>>]) = {x} \cup ToSet(Taken(m, n)[<<m, n>>])
    BY <1>2, TakenIs
<1>4. Speaks(n, Taken(m, n))
    BY DEF Answered
<1>5. ASSUME NEW p \in Pairs, NEW y \in ToSet(net[p])
      PROVE  y \in ToSet(net'[p]) \/ (p = <<m, n>> /\ y = x)
    BY <1>3, <1>4, <1>5 DEF Speaks, Extends
<1>6. \A y \in Nodes : Len(chain[y]) \in Nat /\ chain[y] \in Chains(Bodies)
    BY LengthTypes
<1>7. Len(chain'[n]) >= Len(chain[n])
  <2>1. CASE x.type \in {"HELLO", "QUERY_TIP", "QUERY_CHAIN"}
      BY <1>6, <2>1 DEF Answered
  <2>2. CASE x.type \in {"TIP", "NEW_BLOCK"}
      BY <2>2 DEF Answered
  <2>3. CASE x.type = "CHAIN"
    <3>1. x.chain \in Chains(Bodies)
        BY <2>3, MessageKinds DEF Telling
    <3>2. totalWork(x.chain) > totalWork(chain[n]) => Len(x.chain) > Len(chain[n])
        BY <1>6, <3>1, WorkIsLength
    <3>3. Len(x.chain) \in Nat
        BY <3>1, ChainParts
    <3> QED
        BY <1>6, <2>3, <3>2, <3>3 DEF Answered
  <2> QED
      BY <2>1, <2>2, <2>3 DEF Asking, Telling
<1>8. \A y \in Nodes : Len(chain'[y]) >= Len(chain[y])
  <2>1. \A y \in Nodes : y # n => chain'[y] = chain[y]
      BY <1>4 DEF Speaks
  <2> QED
      BY <1>6, <1>7, <2>1
<1>9. open' = open
    BY <1>4 DEF Speaks
<1> QED
    BY <1>5, <1>8, <1>9 DEF Progress

-----------------------------------------------------------------------------
(* What a node may count on                                                *)

Has(n, m, type) == \E x \in ToSet(net[<<n, m>>]) : x.type = type

Tells(n, m, types, k) ==
    \E x \in ToSet(net[<<n, m>>]) : x.type \in types /\ Len(x.chain) >= k

(* n has answered m with the chain it has.                                 *)
TellsOwn(n, m) ==
    \E x \in ToSet(net[<<n, m>>]) : x.type \in {"TIP", "CHAIN"} /\ x.chain = chain[n]

(* p is yet to answer m with a chain of k blocks: greeting, question and   *)
(* answer, in the order they follow each other.                            *)
Pending(p, m, k) ==
    \/ Has(p, m, "HELLO")
    \/ Has(m, p, "QUERY_TIP")
    \/ Tells(p, m, {"TIP", "CHAIN"}, k)
    \/ Has(m, p, "QUERY_CHAIN")

(* m has k blocks, or a neighbour has them and will yet be asked: on       *)
(* connecting, or by what is already on its way.                           *)
Coming(m, k) ==
    \/ Len(chain[m]) >= k
    \/ \E p \in Nodes : /\ {p, m} \in Links /\ Len(chain[p]) >= k
                        /\ {p, m} \notin open \/ Pending(p, m, k)

(* Nobody tells of more blocks than it still has.                          *)
ToldIsHeld ==
    \A p \in Pairs : \A x \in ToSet(net[p]) :
        x.type \in Telling => Len(x.chain) <= Len(chain[p[1]])

(* Until n has handled m's greeting it is the next message from m, and if  *)
(* m has handled n's, m's question for the tip is behind it.               *)
Greeted ==
    \A n, m \in Nodes : {n, m} \in open /\ <<n, m>> \notin shaken =>
        /\ net[<<m, n>>] # << >> /\ Head(net[<<m, n>>]).type = "HELLO"
        /\ <<m, n>> \in shaken => Has(m, n, "QUERY_TIP")

(* A block is put down as seen only when as many blocks are held or come.  *)
SeenComes == \A m \in Nodes : \A c \in seen[m] : Coming(m, Len(c))

(* What n has, m has, or it is announced to m, or it comes.                *)
TipComes ==
    \A n, m \in Nodes : {n, m} \in open =>
        \/ Tells(n, m, {"NEW_BLOCK"}, Len(chain[n]))
        \/ Coming(m, Len(chain[n]))

(* What is sent in place of the message x that n took from m.              *)
Replaced(m, n, x) ==
    /\ x.type = "HELLO" => Has(n, m, "QUERY_TIP")'
    /\ x.type = "QUERY_TIP" => TellsOwn(n, m)'
    /\ x.type = "QUERY_CHAIN" => TellsOwn(n, m)'
    /\ x.type \in Telling =>
          \/ Len(chain'[n]) >= Len(x.chain)
          \/ Has(n, m, "QUERY_CHAIN")'
          \/ x.type = "NEW_BLOCK" /\ x.chain \in seen[n] /\ seen' = seen

LEMMA DeliverReplaced ==
    ASSUME OneDifficulty, NEW Bodies, NEW Notes, Carried(Bodies, Notes),
           GossipTyped(Bodies, Notes), GossipTyped(Bodies, Notes)',
           NEW m \in Nodes, NEW n \in Nodes,
           NEW x \in Messages(Bodies, Notes), x.type \in Asking \cup Telling,
           Answered(m, n, x)
    PROVE  Replaced(m, n, x)
PROOF
<1>1. \A y \in Nodes : Len(chain[y]) \in Nat /\ chain[y] \in Chains(Bodies)
    BY LengthTypes
<1>2. \A type : Ask(type).type = type
    BY DEF Ask
<1>3. \A type, c : Tell(type, c).type = type /\ Tell(type, c).chain = c
    BY DEF Tell
<1>4. x.type = "HELLO" => Has(n, m, "QUERY_TIP")'
    BY <1>2 DEF Answered, Has
<1>5. x.type = "QUERY_TIP" => TellsOwn(n, m)'
    BY <1>3 DEF Answered, TellsOwn
<1>6. x.type = "QUERY_CHAIN" => TellsOwn(n, m)'
    BY <1>3 DEF Answered, TellsOwn
<1>7. ASSUME x.type \in {"TIP", "NEW_BLOCK"}
      PROVE  \/ Len(chain'[n]) >= Len(x.chain)
             \/ Has(n, m, "QUERY_CHAIN")'
             \/ x.type = "NEW_BLOCK" /\ x.chain \in seen[n] /\ seen' = seen
    BY <1>2, <1>7 DEF Answered, Has
<1>8. ASSUME x.type = "CHAIN"
      PROVE  Len(chain'[n]) >= Len(x.chain)
  <2>1. x.chain \in Chains(Bodies) /\ Len(x.chain) \in Nat
      BY <1>8, MessageKinds, ChainParts DEF Telling
  <2>2. ~ (totalWork(x.chain) > totalWork(chain[n])) => ~ (Len(x.chain) > Len(chain[n]))
      BY <1>1, <2>1, WorkIsLength
  <2> QED
      BY <1>1, <1>8, <2>1, <2>2 DEF Answered
<1> QED
    BY <1>4, <1>5, <1>6, <1>7, <1>8 DEF Replaced, Telling

(* What a node counts on, it can still count on after a step of any other. *)
LEMMA ComingKept ==
    ASSUME NEW Bodies, NEW Notes, Carried(Bodies, Notes),
           GossipTyped(Bodies, Notes), GossipTyped(Bodies, Notes)',
           NEW m \in Nodes, NEW n \in Nodes, NEW x,
           Progress(m, n, x), Replaced(m, n, x),
           x.type \in Telling => x.chain \in Chains(Bodies),
           NEW q \in Nodes, NEW k \in Nat, Coming(q, k)
    PROVE  Coming(q, k)'
PROOF
<1>1. \A y \in Nodes : Len(chain[y]) \in Nat /\ Len(chain'[y]) \in Nat
                       /\ Len(chain'[y]) >= Len(chain[y])
  <2>1. \A y \in Nodes : Len(chain[y]) \in Nat
      BY LengthTypes
  <2>2. ASSUME NEW y \in Nodes
        PROVE  Len(chain'[y]) \in Nat
    <3>1. chain'[y] \in Chains(Bodies)
        BY DEF GossipTyped
    <3> QED
        BY <3>1, ChainParts
  <2> QED
      BY <2>1, <2>2 DEF Progress
<1>2. CASE Len(chain[q]) >= k
    BY <1>1, <1>2 DEF Coming
<1>3. ASSUME NEW p \in Nodes, {p, q} \in Links, Len(chain[p]) >= k,
             {p, q} \notin open \/ Pending(p, q, k)
      PROVE  Coming(q, k)'
  <2>1. Len(chain'[p]) >= k
      BY <1>1, <1>3
  <2>2. CASE {p, q} \notin open
      BY <1>3, <2>1, <2>2 DEF Coming, Progress
  <2>3. CASE Pending(p, q, k)
    <3>1. <<p, q>> \in Pairs /\ <<q, p>> \in Pairs
        BY DEF Pairs
    <3>2. CASE Has(p, q, "HELLO")
      <4>1. Has(p, q, "HELLO")' \/ Has(q, p, "QUERY_TIP")'
          BY <3>1, <3>2 DEF Has, Progress, Replaced
      <4> QED
          BY <1>3, <2>1, <4>1 DEF Coming, Pending
    <3>3. CASE Has(q, p, "QUERY_TIP")
      <4>1. Has(q, p, "QUERY_TIP")' \/ TellsOwn(p, q)'
          BY <3>1, <3>3 DEF Has, Progress, Replaced
      <4> QED
          BY <1>3, <2>1, <4>1 DEF Coming, Pending, Tells, TellsOwn
    <3>4. CASE Has(q, p, "QUERY_CHAIN")
      <4>1. Has(q, p, "QUERY_CHAIN")' \/ TellsOwn(p, q)'
          BY <3>1, <3>4 DEF Has, Progress, Replaced
      <4> QED
          BY <1>3, <2>1, <4>1 DEF Coming, Pending, Tells, TellsOwn
    <3>5. CASE Tells(p, q, {"TIP", "CHAIN"}, k)
      <4>1. PICK y \in ToSet(net[<<p, q>>]) : y.type \in {"TIP", "CHAIN"} /\ Len(y.chain) >= k
          BY <3>5 DEF Tells
      <4>2. CASE y \in ToSet(net'[<<p, q>>])
          BY <1>3, <2>1, <4>1, <4>2 DEF Coming, Pending, Tells
      <4>3. CASE <<p, q>> = <<m, n>> /\ y = x
        <5>1. x.type \in Telling /\ x.type # "NEW_BLOCK" /\ Len(x.chain) >= k
              /\ p = m /\ q = n
            BY <4>1, <4>3 DEF Telling
        <5>2. Len(x.chain) \in Nat
            BY <5>1, ChainParts
        <5>3. Len(chain'[q]) >= k \/ Has(q, p, "QUERY_CHAIN")'
            BY <1>1, <5>1, <5>2 DEF Replaced
        <5> QED
            BY <1>3, <2>1, <5>3 DEF Coming, Pending
      <4> QED
          BY <3>1, <4>2, <4>3 DEF Progress
    <3> QED
        BY <2>3, <3>2, <3>3, <3>4, <3>5 DEF Pending
  <2> QED
      BY <1>3, <2>2, <2>3
<1> QED
    BY <1>2, <1>3 DEF Coming

-----------------------------------------------------------------------------
(* A step of one node                                                      *)

(* What a step of n, which may take the message x of m, leaves to the      *)
(* others. When n mines nothing is taken, and m and x do not matter.       *)
Moved(m, n, x) ==
    /\ Progress(m, n, x) /\ Replaced(m, n, x)
    /\ \A p \in Pairs : \A y \in ToSet(net'[p]) :
          \/ y \in ToSet(net[p])
          \/ p[1] = n /\ (y.type \in Telling => y.chain = chain'[n])
    /\ \A p \in Pairs : p # <<m, n>> /\ net[p] # << >> =>
          net'[p] # << >> /\ Head(net'[p]) = Head(net[p])
    /\ \A y \in Nodes : y # n => chain'[y] = chain[y]
    /\ chain'[n] # chain[n] =>
          /\ shaken' = shaken
          /\ \A y \in PeersOf(n) : Tell("NEW_BLOCK", chain'[n]) \in ToSet(net'[<<n, y>>])
    /\ shaken' = shaken \/ (shaken' = shaken \cup {<<n, m>>} /\ Has(n, m, "QUERY_TIP")')
    /\ m # n => x = Head(net[<<m, n>>]) /\ x \in ToSet(net[<<m, n>>])
                /\ (x.type = "HELLO" => <<n, m>> \in shaken')
    /\ \A y \in Nodes : \A c \in seen'[y] :
          \/ c \in seen[y]
          \/ y = n /\ Len(chain'[n]) >= Len(c)
          \/ /\ y = n /\ m # n /\ c = x.chain /\ x.type \in Telling
             /\ Has(n, m, "QUERY_CHAIN")'

LEMMA NextLengths ==
    ASSUME NEW Bodies, NEW Notes, GossipTyped(Bodies, Notes)', NEW n \in Nodes
    PROVE  chain'[n] \in Chains(Bodies) /\ Len(chain'[n]) \in Nat
PROOF
<1>1. chain'[n] \in Chains(Bodies)
    BY DEF GossipTyped
<1> QED
    BY <1>1, ChainParts

LEMMA MineMoves ==
    ASSUME NEW Bodies, NEW Notes, Carried(Bodies, Notes), GossipTyped(Bodies, Notes),
           NEW n \in Nodes, NEW clock \in Clocks, NEW body \in Bodies,
           Mine(n, clock, body), NEW x, x.type \notin Asking \cup Telling
    PROVE  GossipTyped(Bodies, Notes)' /\ Moved(n, n, x)
PROOF
<1>1. /\ GossipTyped(Bodies, Notes)'
      /\ Speaks(n, net) /\ shaken' = shaken
      /\ Len(chain'[n]) = Len(chain[n]) + 1
      /\ seen' = [seen EXCEPT ![n] = @ \cup {chain'[n]}]
    BY MineDone
<1>2. \A y \in Nodes : Len(chain[y]) \in Nat /\ Len(chain'[y]) \in Nat
    BY <1>1, LengthTypes, NextLengths
<1>3. Progress(n, n, x)
  <2>1. \A y \in Nodes : Len(chain'[y]) >= Len(chain[y])
    <3>1. \A y \in Nodes : y # n => chain'[y] = chain[y]
        BY <1>1 DEF Speaks
    <3> QED
        BY <1>1, <1>2, <3>1
  <2>2. \A p \in Pairs : ToSet(net[p]) \subseteq ToSet(net'[p])
      BY <1>1 DEF Speaks, Extends
  <2>3. open' = open
      BY <1>1 DEF Speaks
  <2> QED
      BY <2>1, <2>2, <2>3 DEF Progress
<1>4. Replaced(n, n, x)
    BY DEF Replaced, Asking, Telling
<1>5. \A y \in Nodes : \A c \in seen'[y] :
          c \in seen[y] \/ (y = n /\ Len(chain'[n]) >= Len(c))
    BY <1>1, <1>2 DEF GossipTyped
<1>6. \A p \in Pairs : net[p] # << >> => net'[p] # << >> /\ Head(net'[p]) = Head(net[p])
    BY <1>1 DEF Speaks, Extends
<1> QED
    BY <1>1, <1>3, <1>4, <1>5, <1>6 DEF Moved, Speaks

LEMMA DeliverMoves ==
    ASSUME OneDifficulty, NEW Bodies, NEW Notes, Carried(Bodies, Notes),
           GossipTyped(Bodies, Notes),
           NEW m \in Nodes, NEW n \in Nodes, NEW mempool \in Seq(Notes),
           Deliver(m, n, mempool),
           NEW x, x = Head(net[<<m, n>>])
    PROVE  /\ GossipTyped(Bodies, Notes)' /\ Moved(m, n, x) /\ m # n
           /\ x.type \in Telling => x.chain \in Chains(Bodies)
PROOF
<1>1. /\ GossipTyped(Bodies, Notes)' /\ Answered(m, n, x)
      /\ x \in Messages(Bodies, Notes) /\ x.type \in Asking \cup Telling
    BY DeliverDone
<1>2. net[<<m, n>>] # << >>
    BY DEF Deliver
<1>3. Progress(m, n, x) /\ Replaced(m, n, x)
    BY <1>1, <1>2, DeliverProgress, DeliverReplaced
<1>4. PICK M : M = Messages(Bodies, Notes)
    OBVIOUS
<1>5. net \in Queues(M)
    BY <1>4, TypedNet DEF NetTyped
<1>6. PICK before : before = Taken(m, n)
    OBVIOUS
<1>7. /\ \A p \in Pairs : p # <<m, n>> => before[p] = net[p]
      /\ ToSet(net[<<m, n>>]) = {x} \cup ToSet(before[<<m, n>>])
    BY <1>2, <1>5, <1>6, TakenIs
<1>8. Speaks(n, before)
    BY <1>1, <1>6 DEF Answered
<1>9. m # n
  <2>1. {n, m} \in open
      BY <1>2, TypedNet, TakenTyped
  <2> QED
      BY <2>1, LinkEnds DEF GossipTyped
<1>10. ASSUME NEW p \in Pairs, NEW y \in ToSet(net'[p])
       PROVE  \/ y \in ToSet(net[p])
              \/ p[1] = n /\ (y.type \in Telling => y.chain = chain'[n])
    BY <1>7, <1>8, <1>10 DEF Speaks
<1>11. ASSUME NEW p \in Pairs, p # <<m, n>>, net[p] # << >>
       PROVE  net'[p] # << >> /\ Head(net'[p]) = Head(net[p])
    BY <1>7, <1>8, <1>11 DEF Speaks, Extends
<1>12. x.type = "HELLO" => /\ shaken' = shaken \cup {<<n, m>>} /\ chain' = chain
                           /\ Has(n, m, "QUERY_TIP")'
  <2>1. Ask("QUERY_TIP").type = "QUERY_TIP"
      BY DEF Ask
  <2> QED
      BY <1>1, <2>1 DEF Answered, Has
<1>13. x.type # "HELLO" => shaken' = shaken
    BY <1>1 DEF Answered
<1>14. x.type \in Telling => x.chain \in Chains(Bodies)
    BY <1>1, MessageKinds
<1>15. ASSUME NEW y \in Nodes, NEW c \in seen'[y], c \notin seen[y]
       PROVE  /\ y = n
              /\ \/ Len(chain'[n]) >= Len(c)
                 \/ c = x.chain /\ x.type \in Telling /\ Has(n, m, "QUERY_CHAIN")'
  <2>1. seen' = [seen EXCEPT ![n] = @ \cup {x.chain}] /\ x.type \in Telling
      BY <1>1, <1>15 DEF Answered, Asking, Telling
  <2>2. y = n /\ c = x.chain
      BY <1>15, <2>1 DEF GossipTyped
  <2>3. x.chain \notin seen[n]
      BY <1>15, <2>2
  <2> QED
      BY <1>3, <2>1, <2>2, <2>3 DEF Replaced
<1>16. x \in ToSet(net[<<m, n>>])
    BY <1>7
<1>17. /\ \A y \in Nodes : y # n => chain'[y] = chain[y]
       /\ chain'[n] # chain[n] =>
          /\ shaken' = shaken
          /\ \A y \in PeersOf(n) : Tell("NEW_BLOCK", chain'[n]) \in ToSet(net'[<<n, y>>])
    BY <1>8, <1>12, <1>13 DEF Speaks
<1>18. shaken' = shaken \/ (shaken' = shaken \cup {<<n, m>>} /\ Has(n, m, "QUERY_TIP")')
    BY <1>12, <1>13
<1>19. x.type = "HELLO" => <<n, m>> \in shaken'
    BY <1>12
<1> QED
    BY <1>1, <1>3, <1>9, <1>10, <1>11, <1>14, <1>15, <1>16, <1>17, <1>18, <1>19 DEF Moved

(* The lengths that are told are lengths.                                  *)
LEMMA ToldTypes ==
    ASSUME NEW Bodies, NEW Notes, Carried(Bodies, Notes), GossipTyped(Bodies, Notes),
           NEW p \in Pairs, NEW y \in ToSet(net[p]), y.type \in Telling
    PROVE  y.chain \in Chains(Bodies) /\ Len(y.chain) \in Nat
PROOF
<1>1. PICK M : M = Messages(Bodies, Notes)
    OBVIOUS
<1>2. PICK s \in Seq(M) : s = net[p]
    BY <1>1, TypedNet DEF NetTyped, Queues
<1>3. y \in M
    BY <1>2, LenProperties, ElementOfSeq DEF ToSet
<1> QED
    BY <1>1, <1>3, MessageKinds, ChainParts

(* Each part of what a node may count on survives a step of one node.      *)
LEMMA ToldKept ==
    ASSUME NEW Bodies, NEW Notes, Carried(Bodies, Notes),
           GossipTyped(Bodies, Notes), GossipTyped(Bodies, Notes)',
           NEW m \in Nodes, NEW n \in Nodes, NEW x, Moved(m, n, x), ToldIsHeld
    PROVE  ToldIsHeld'
PROOF
<1> SUFFICES ASSUME NEW p \in Pairs, NEW y \in ToSet(net'[p]), y.type \in Telling
             PROVE  Len(y.chain) <= Len(chain'[p[1]])
    BY DEF ToldIsHeld
<1>1. PICK a \in Nodes : a = p[1]
    BY DEF Pairs
<1>2. Len(chain[a]) \in Nat /\ Len(chain'[a]) \in Nat /\ Len(chain'[a]) >= Len(chain[a])
    BY LengthTypes, NextLengths DEF Moved, Progress
<1>3. CASE y \in ToSet(net[p])
  <2>1. Len(y.chain) <= Len(chain[a])
      BY <1>1, <1>3 DEF ToldIsHeld
  <2>2. Len(y.chain) \in Nat
      BY <1>3, ToldTypes
  <2> QED
      BY <1>1, <1>2, <2>1, <2>2
<1>4. CASE p[1] = n /\ y.chain = chain'[n]
    BY <1>1, <1>2, <1>4
<1> QED
    BY <1>3, <1>4 DEF Moved

LEMMA GreetedKept ==
    ASSUME NEW Bodies, NEW Notes, GossipTyped(Bodies, Notes),
           NEW m \in Nodes, NEW n \in Nodes, NEW x, Moved(m, n, x), Greeted
    PROVE  Greeted'
PROOF
<1> SUFFICES ASSUME NEW a \in Nodes, NEW b \in Nodes,
                    {a, b} \in open', <<a, b>> \notin shaken'
             PROVE  /\ net'[<<b, a>>] # << >> /\ Head(net'[<<b, a>>]).type = "HELLO"
                    /\ <<b, a>> \in shaken' => Has(b, a, "QUERY_TIP")'
    BY DEF Greeted
<1>1. {a, b} \in open /\ <<a, b>> \notin shaken /\ a # b
    BY LinkEnds DEF Moved, Progress, GossipTyped
<1>2. /\ net[<<b, a>>] # << >> /\ Head(net[<<b, a>>]).type = "HELLO"
      /\ <<b, a>> \in shaken => Has(b, a, "QUERY_TIP")
    BY <1>1 DEF Greeted
<1>3. <<b, a>> # <<m, n>>
    BY <1>1, <1>2 DEF Moved
<1>4. <<b, a>> \in Pairs
    BY DEF Pairs
<1>5. net'[<<b, a>>] # << >> /\ Head(net'[<<b, a>>]).type = "HELLO"
    BY <1>2, <1>3, <1>4 DEF Moved
<1>6. <<b, a>> \in shaken => Has(b, a, "QUERY_TIP")'
    BY <1>2, <1>3, <1>4 DEF Moved, Progress, Has
<1>7. <<b, a>> \notin shaken /\ <<b, a>> \in shaken' => Has(b, a, "QUERY_TIP")'
  <2> SUFFICES ASSUME <<b, a>> \notin shaken, <<b, a>> \in shaken'
               PROVE  Has(b, a, "QUERY_TIP")'
      OBVIOUS
  <2>1. <<b, a>> = <<n, m>> /\ Has(n, m, "QUERY_TIP")'
      BY DEF Moved
  <2>2. b = n /\ a = m
      BY <2>1
  <2> QED
      BY <2>1, <2>2
<1> QED
    BY <1>5, <1>6, <1>7

LEMMA SeenKept ==
    ASSUME NEW Bodies, NEW Notes, Carried(Bodies, Notes),
           GossipTyped(Bodies, Notes), GossipTyped(Bodies, Notes)',
           NEW m \in Nodes, NEW n \in Nodes, NEW x, Moved(m, n, x),
           x.type \in Telling => x.chain \in Chains(Bodies),
           m # n => {n, m} \in open,
           ToldIsHeld, SeenComes
    PROVE  SeenComes'
PROOF
<1> SUFFICES ASSUME NEW q \in Nodes, NEW c \in seen'[q]
             PROVE  Coming(q, Len(c))'
    BY DEF SeenComes
<1>1. PICK k \in Nat : k = Len(c)
  <2>1. c \in Chains(Bodies)
      BY DEF GossipTyped
  <2> QED
      BY <2>1, ChainParts
<1>2. CASE c \in seen[q]
  <2>1. Coming(q, k)
      BY <1>1, <1>2 DEF SeenComes
  <2>2. Progress(m, n, x) /\ Replaced(m, n, x)
      BY DEF Moved
  <2>3. Coming(q, k)'
      BY <2>1, <2>2, ComingKept
  <2> QED
      BY <1>1, <2>3
<1>3. CASE q = n /\ Len(chain'[n]) >= Len(c)
    BY <1>3 DEF Coming
<1>4. CASE q = n /\ m # n /\ c = x.chain /\ x.type \in Telling /\ Has(n, m, "QUERY_CHAIN")'
  <2>1. x \in ToSet(net[<<m, n>>]) /\ <<m, n>> \in Pairs /\ <<m, n>>[1] = m
      BY <1>4 DEF Moved, Pairs
  <2>2. Len(c) <= Len(chain[m])
      BY <1>4, <2>1 DEF ToldIsHeld
  <2>3. Len(chain[m]) \in Nat /\ Len(chain'[m]) \in Nat /\ Len(chain'[m]) >= Len(chain[m])
      BY LengthTypes, NextLengths DEF Moved, Progress
  <2>4. Len(chain'[m]) >= Len(c)
      BY <1>1, <2>2, <2>3
  <2>5. {m, n} \in Links
      BY <1>4 DEF GossipTyped
  <2>6. Pending(m, n, Len(c))'
      BY <1>4 DEF Pending
  <2> QED
      BY <1>4, <2>4, <2>5, <2>6 DEF Coming
<1> QED
    BY <1>2, <1>3, <1>4 DEF Moved

LEMMA ComingLess ==
    ASSUME NEW Bodies, NEW Notes, Carried(Bodies, Notes), GossipTyped(Bodies, Notes),
           NEW q \in Nodes, NEW j \in Nat, NEW k \in Nat, k <= j, Coming(q, j)
    PROVE  Coming(q, k)
PROOF
<1>1. \A y \in Nodes : Len(chain[y]) \in Nat
    BY LengthTypes
<1>2. CASE Len(chain[q]) >= j
    BY <1>1, <1>2 DEF Coming
<1>3. ASSUME NEW p \in Nodes, {p, q} \in Links, Len(chain[p]) >= j,
             {p, q} \notin open \/ Pending(p, q, j)
      PROVE  Coming(q, k)
  <2>1. Len(chain[p]) >= k
      BY <1>1, <1>3
  <2>2. <<p, q>> \in Pairs
      BY DEF Pairs
  <2>3. \A y \in ToSet(net[<<p, q>>]) : y.type \in Telling => Len(y.chain) \in Nat
      BY <2>2, ToldTypes
  <2>4. Tells(p, q, {"TIP", "CHAIN"}, j) => Tells(p, q, {"TIP", "CHAIN"}, k)
      BY <2>3 DEF Tells, Telling
  <2>5. {p, q} \notin open \/ Pending(p, q, k)
      BY <1>3, <2>4 DEF Pending
  <2> QED
      BY <1>3, <2>1, <2>5 DEF Coming
<1> QED
    BY <1>2, <1>3 DEF Coming

LEMMA TipKept ==
    ASSUME NEW Bodies, NEW Notes, Carried(Bodies, Notes),
           GossipTyped(Bodies, Notes), GossipTyped(Bodies, Notes)',
           NEW m \in Nodes, NEW n \in Nodes, NEW x, Moved(m, n, x),
           x.type \in Telling => x.chain \in Chains(Bodies),
           ToldIsHeld, SeenComes, TipComes, Greeted'
    PROVE  TipComes'
PROOF
<1>1. Progress(m, n, x) /\ Replaced(m, n, x)
    BY DEF Moved
<1>2. \A y \in Nodes : /\ Len(chain[y]) \in Nat /\ Len(chain'[y]) \in Nat
                       /\ Len(chain'[y]) >= Len(chain[y])
    BY <1>1, LengthTypes, NextLengths DEF Progress
<1> SUFFICES ASSUME NEW a \in Nodes, NEW b \in Nodes, {a, b} \in open'
             PROVE  \/ Tells(a, b, {"NEW_BLOCK"}, Len(chain[a]))'
                    \/ Coming(b, Len(chain[a]))'
    BY DEF TipComes
<1>3. {a, b} \in open /\ {a, b} \in Links /\ {b, a} = {a, b}
    BY <1>1 DEF Progress, GossipTyped
<1>4. CASE chain'[a] = chain[a]
  <2>1. PICK k \in Nat : k = Len(chain[a])
      BY <1>2
  <2>2. Coming(b, k) => Coming(b, k)'
      BY <1>1, ComingKept
  <2>3. ASSUME Tells(a, b, {"NEW_BLOCK"}, k)
        PROVE  Tells(a, b, {"NEW_BLOCK"}, k)' \/ Coming(b, k)'
    <3>1. <<a, b>> \in Pairs /\ <<a, b>>[1] = a
        BY DEF Pairs
    <3>2. PICK y \in ToSet(net[<<a, b>>]) : y.type \in {"NEW_BLOCK"} /\ Len(y.chain) >= k
        BY <2>3 DEF Tells
    <3>3. PICK j \in Nat : j = Len(y.chain)
        BY <3>1, <3>2, ToldTypes DEF Telling
    <3>4. CASE y \in ToSet(net'[<<a, b>>])
        BY <3>2, <3>4 DEF Tells
    <3>5. CASE <<a, b>> = <<m, n>> /\ y = x
      <4>1. a = m /\ b = n /\ x.type = "NEW_BLOCK" /\ x.type \in Telling
          BY <3>2, <3>5 DEF Telling
      <4>2. CASE Len(chain'[b]) >= j
          BY <1>2, <3>2, <3>3, <4>2 DEF Coming
      <4>3. CASE Has(b, a, "QUERY_CHAIN")'
        <5>1. Len(chain'[a]) >= k
            BY <1>4, <2>1, <1>2
        <5>2. Pending(a, b, k)'
            BY <4>3 DEF Pending
        <5> QED
            BY <1>3, <5>1, <5>2 DEF Coming
      <4>4. CASE x.chain \in seen[n]
        <5>1. Coming(b, j)
            BY <3>3, <3>5, <4>1, <4>4 DEF SeenComes
        <5>2. Coming(b, k)
            BY <3>2, <3>3, <5>1, ComingLess
        <5> QED
            BY <2>2, <5>2
      <4> QED
          BY <1>1, <3>3, <3>5, <4>1, <4>2, <4>3, <4>4 DEF Replaced
    <3> QED
        BY <1>1, <3>1, <3>4, <3>5 DEF Progress
  <2>4. Tells(a, b, {"NEW_BLOCK"}, k) \/ Coming(b, k)
      BY <1>3, <2>1 DEF TipComes
  <2> QED
      BY <1>4, <2>1, <2>2, <2>3, <2>4
<1>5. CASE chain'[a] # chain[a]
  <2>1. a = n /\ shaken' = shaken
      BY <1>5 DEF Moved
  <2>2. CASE <<a, b>> \in shaken
    <3>1. b \in PeersOf(n)
        BY <2>1, <2>2 DEF PeersOf
    <3>2. Tell("NEW_BLOCK", chain'[a]) \in ToSet(net'[<<a, b>>])
        BY <1>5, <2>1, <3>1 DEF Moved
    <3> QED
        BY <1>2, <3>2 DEF Tells, Tell
  <2>3. CASE <<a, b>> \notin shaken
    <3>0. PICK k \in Nat : k = Len(chain'[a])
        BY <1>2
    <3>1. Pending(a, b, k)'
      <4>1. <<b, a>> \in shaken' => Has(b, a, "QUERY_TIP")'
          BY <2>1, <2>3 DEF Greeted
      <4>2. <<b, a>> \notin shaken' => Has(a, b, "HELLO")'
        <5> SUFFICES ASSUME <<b, a>> \notin shaken'
                     PROVE  Has(a, b, "HELLO")'
            OBVIOUS
        <5>1. net'[<<a, b>>] # << >> /\ Head(net'[<<a, b>>]).type = "HELLO"
            BY <1>3 DEF Greeted
        <5>2. PICK M : M = Messages(Bodies, Notes)
            OBVIOUS
        <5>3. <<a, b>> \in Pairs
            BY DEF Pairs
        <5>4. PICK s \in Seq(M) : s = net'[<<a, b>>]
            BY <5>2, <5>3 DEF GossipTyped, Pairs
        <5>5. Head(s) \in ToSet(s)
            BY <5>1, <5>4, TailSet
        <5> QED
            BY <5>1, <5>4, <5>5 DEF Has
      <4> QED
          BY <4>1, <4>2 DEF Pending
    <3>2. Len(chain'[a]) >= k
        BY <3>0
    <3>3. Coming(b, k)'
        BY <1>3, <3>1, <3>2 DEF Coming
    <3> QED
        BY <3>0, <3>3
  <2> QED
      BY <2>2, <2>3
<1> QED
    BY <1>4, <1>5

-----------------------------------------------------------------------------
(* Connections that come and go                                            *)

(* A connection is closed, or new and greeted over, or as before.          *)
Rewired ==
    /\ chain' = chain
    /\ \A y \in Nodes : \A c \in seen'[y] : c \in seen[y]
    /\ \A p, q \in Nodes :
          \/ {p, q} \notin open'
          \/ /\ {p, q} \notin open /\ <<p, q>> \notin shaken'
             /\ net'[<<p, q>>] = <<Ask("HELLO")>>
          \/ /\ {p, q} \in open /\ (<<p, q>> \in shaken' <=> <<p, q>> \in shaken)
             /\ net'[<<p, q>>] = net[<<p, q>>]

LEMMA ConnectRewires ==
    ASSUME NEW Bodies, NEW Notes, GossipTyped(Bodies, Notes),
           NEW n \in Nodes, NEW m \in Nodes, Connect(n, m)
    PROVE  Rewired
PROOF
<1>1. PICK hello : hello = <<Ask("HELLO")>>
    OBVIOUS
<1>2. net \in [Pairs -> Seq(Messages(Bodies, Notes))]
    BY DEF GossipTyped, Pairs
<1>3. net' = [net EXCEPT ![<<n, m>>] = hello, ![<<m, n>>] = hello]
    BY <1>1 DEF Connect
<1>4. ASSUME NEW p \in Nodes, NEW q \in Nodes, {p, q} \in open'
      PROVE  \/ /\ {p, q} \notin open /\ <<p, q>> \notin shaken'
                /\ net'[<<p, q>>] = hello
             \/ /\ {p, q} \in open /\ (<<p, q>> \in shaken' <=> <<p, q>> \in shaken)
                /\ net'[<<p, q>>] = net[<<p, q>>]
  <2>0. <<p, q>> \in Pairs /\ <<p, q>>[1] = p /\ <<p, q>>[2] = q
      BY DEF Pairs
  <2>0a. PICK r : r = <<p, q>>
      OBVIOUS
  <2>1. r \in Pairs /\ r = <<p, q>> /\ r[1] = p /\ r[2] = q
      BY <2>0, <2>0a
  <2>2. shaken' = shaken
      BY DEF Connect
  <2>3. CASE {p, q} = {n, m}
    <3>1. {p, q} \notin open
        BY <2>3 DEF Connect
    <3>2. r \notin shaken
        BY <2>1, <3>1 DEF GossipTyped
    <3>3. r = <<n, m>> \/ r = <<m, n>>
        BY <2>1, <2>3, BothWays
    <3>4. net'[r] = hello
        BY <1>2, <1>3, <2>1, <3>3
    <3> QED
        BY <2>1, <2>2, <3>1, <3>2, <3>4
  <2>4. CASE {p, q} # {n, m}
    <3>1. {p, q} \in open
        BY <1>4, <2>4 DEF Connect
    <3>2. r # <<n, m>> /\ r # <<m, n>>
        BY <2>1, <2>4
    <3>3. net'[r] = net[r]
        BY <1>2, <1>3, <2>1, <3>2
    <3> QED
        BY <2>1, <2>2, <3>1, <3>3
  <2> QED
      BY <2>3, <2>4
<1>5. chain' = chain /\ seen' = seen
    BY DEF Connect
<1> QED
    BY <1>1, <1>4, <1>5 DEF Rewired

LEMMA DisconnectRewires ==
    ASSUME NEW Bodies, NEW Notes, GossipTyped(Bodies, Notes),
           NEW n \in Nodes, NEW m \in Nodes, Disconnect(n, m)
    PROVE  Rewired
PROOF
<1>1. PICK none : none = << >>
    OBVIOUS
<1>2. net \in [Pairs -> Seq(Messages(Bodies, Notes))]
    BY DEF GossipTyped, Pairs
<1>3. net' = [net EXCEPT ![<<n, m>>] = none, ![<<m, n>>] = none]
    BY <1>1 DEF Disconnect
<1>4. ASSUME NEW p \in Nodes, NEW q \in Nodes, {p, q} \in open'
      PROVE  /\ {p, q} \in open /\ (<<p, q>> \in shaken' <=> <<p, q>> \in shaken)
             /\ net'[<<p, q>>] = net[<<p, q>>]
  <2>0. <<p, q>> \in Pairs /\ <<p, q>>[1] = p /\ <<p, q>>[2] = q
      BY DEF Pairs
  <2>0a. PICK r : r = <<p, q>>
      OBVIOUS
  <2>1. r \in Pairs /\ r = <<p, q>> /\ r[1] = p /\ r[2] = q
      BY <2>0, <2>0a
  <2>2. {p, q} \in open /\ {p, q} # {n, m}
      BY <1>4 DEF Disconnect
  <2>3. r # <<n, m>> /\ r # <<m, n>>
      BY <2>1, <2>2
  <2>4. net'[r] = net[r]
      BY <1>2, <1>3, <2>1, <2>3
  <2>5. shaken' = shaken \ {<<n, m>>, <<m, n>>}
      BY DEF Disconnect
  <2>6. r \in shaken' <=> r \in shaken
      BY <2>3, <2>5
  <2> QED
      BY <2>1, <2>2, <2>4, <2>6
<1>5. chain' = chain /\ seen' = seen
    BY DEF Disconnect
<1> QED
    BY <1>4, <1>5 DEF Rewired

LEMMA RewiredComing ==
    ASSUME Rewired, NEW q \in Nodes, NEW k, Coming(q, k)
    PROVE  Coming(q, k)'
PROOF
<1>1. CASE Len(chain[q]) >= k
    BY <1>1 DEF Coming, Rewired
<1>2. ASSUME NEW p \in Nodes, {p, q} \in Links, Len(chain[p]) >= k,
             {p, q} \notin open \/ Pending(p, q, k)
      PROVE  Coming(q, k)'
  <2>1. Len(chain'[p]) >= k
      BY <1>2 DEF Rewired
  <2>2. {q, p} = {p, q}
      OBVIOUS
  <2>3. CASE {p, q} \notin open'
      BY <1>2, <2>1, <2>3 DEF Coming
  <2>4. CASE {p, q} \in open' /\ {p, q} \notin open
    <3>1. net'[<<p, q>>] = <<Ask("HELLO")>>
        BY <2>4 DEF Rewired
    <3>2. PICK hello : hello = Ask("HELLO")
        OBVIOUS
    <3>3. hello \in ToSet(<<hello>>) /\ hello.type = "HELLO"
        BY <3>2 DEF ToSet, Ask
    <3>4. Has(p, q, "HELLO")'
        BY <3>1, <3>2, <3>3 DEF Has
    <3>5. Pending(p, q, k)'
        BY <3>4 DEF Pending
    <3> QED
        BY <1>2, <2>1, <3>5 DEF Coming
  <2>5. CASE {p, q} \in open' /\ {p, q} \in open
    <3>1. net'[<<p, q>>] = net[<<p, q>>] /\ net'[<<q, p>>] = net[<<q, p>>]
        BY <2>2, <2>5 DEF Rewired
    <3>2. Pending(p, q, k)'
        BY <1>2, <2>5, <3>1 DEF Pending, Has, Tells
    <3> QED
        BY <1>2, <2>1, <3>2 DEF Coming
  <2> QED
      BY <2>3, <2>4, <2>5
<1> QED
    BY <1>1, <1>2 DEF Coming

LEMMA RewiredKeeps ==
    ASSUME NEW Bodies, NEW Notes, GossipTyped(Bodies, Notes), GossipTyped(Bodies, Notes)',
           Rewired, ToldIsHeld, Greeted, SeenComes, TipComes
    PROVE  ToldIsHeld' /\ Greeted' /\ SeenComes' /\ TipComes'
PROOF
<1>1. PICK hello : hello = Ask("HELLO")
    OBVIOUS
<1>2. /\ <<hello>> # << >> /\ Head(<<hello>>) = hello
      /\ ToSet(<<hello>>) = {hello} /\ hello.type = "HELLO" /\ hello.type \notin Telling
    BY <1>1 DEF ToSet, Ask, Telling
<1>3. \A p, q \in Nodes :
          \/ {p, q} \notin open'
          \/ {p, q} \notin open /\ <<p, q>> \notin shaken' /\ net'[<<p, q>>] = <<hello>>
          \/ /\ {p, q} \in open /\ (<<p, q>> \in shaken' <=> <<p, q>> \in shaken)
             /\ net'[<<p, q>>] = net[<<p, q>>]
    BY <1>1 DEF Rewired
<1>4. \A p, q \in Nodes : {q, p} = {p, q}
    OBVIOUS
<1>5. ToldIsHeld'
  <2> SUFFICES ASSUME NEW r \in Pairs, NEW y \in ToSet(net'[r]), y.type \in Telling
               PROVE  Len(y.chain) <= Len(chain'[r[1]])
      BY DEF ToldIsHeld
  <2>1. PICK p \in Nodes, q \in Nodes : r = <<p, q>> /\ r[1] = p /\ r[2] = q
      BY DEF Pairs
  <2>2. net'[r] # << >>
      BY DEF ToSet
  <2>3. {p, q} \in open'
      BY <2>1, <2>2 DEF GossipTyped, Pairs
  <2>4. net'[r] = net[r]
      BY <1>2, <1>3, <2>1, <2>3
  <2> QED
      BY <2>1, <2>4 DEF ToldIsHeld, Rewired
<1>6. Greeted'
  <2> SUFFICES ASSUME NEW n \in Nodes, NEW m \in Nodes,
                      {n, m} \in open', <<n, m>> \notin shaken'
               PROVE  /\ net'[<<m, n>>] # << >> /\ Head(net'[<<m, n>>]).type = "HELLO"
                      /\ <<m, n>> \in shaken' => Has(m, n, "QUERY_TIP")'
      BY DEF Greeted
  <2>1. {m, n} = {n, m}
      OBVIOUS
  <2>2. CASE {n, m} \notin open
      BY <1>2, <1>3, <2>1, <2>2
  <2>3. CASE {n, m} \in open
    <3>1. <<n, m>> \notin shaken /\ net'[<<m, n>>] = net[<<m, n>>]
          /\ (<<m, n>> \in shaken' <=> <<m, n>> \in shaken)
        BY <1>3, <2>1, <2>3
    <3> QED
        BY <2>3, <3>1 DEF Greeted, Has
  <2> QED
      BY <2>2, <2>3
<1>7. SeenComes'
    BY RewiredComing DEF SeenComes, Rewired
<1>8. TipComes'
  <2> SUFFICES ASSUME NEW n \in Nodes, NEW m \in Nodes, {n, m} \in open'
               PROVE  \/ Tells(n, m, {"NEW_BLOCK"}, Len(chain[n]))'
                      \/ Coming(m, Len(chain[n]))'
      BY DEF TipComes
  <2>1. PICK k : k = Len(chain[n]) /\ k = Len(chain'[n])
      BY DEF Rewired
  <2>1a. k \in Nat
      BY <2>1, LengthTypes
  <2>2. CASE {n, m} \notin open
    <3>1. Has(n, m, "HELLO")'
        BY <1>2, <1>3, <2>2 DEF Has
    <3>2. Pending(n, m, k)'
        BY <3>1 DEF Pending
    <3>3. {n, m} \in Links
        BY DEF GossipTyped
    <3>4. Len(chain'[n]) >= k
        BY <2>1, <2>1a
    <3>5. Coming(m, k)'
        BY <3>2, <3>3, <3>4 DEF Coming
    <3> QED
        BY <2>1, <3>5
  <2>3. CASE {n, m} \in open
    <3>1. net'[<<n, m>>] = net[<<n, m>>]
        BY <1>3, <2>3
    <3>2. Tells(n, m, {"NEW_BLOCK"}, k) \/ Coming(m, k)
        BY <2>1, <2>3 DEF TipComes
    <3>3. Tells(n, m, {"NEW_BLOCK"}, k)' \/ Coming(m, k)'
        BY <3>1, <3>2, RewiredComing DEF Tells
    <3> QED
        BY <2>1, <3>3
  <2> QED
      BY <2>2, <2>3
<1> QED
    BY <1>5, <1>6, <1>7, <1>8

-----------------------------------------------------------------------------
(* The invariant, and what it says of a quiet network                      *)

Expectations == ToldIsHeld /\ Greeted /\ SeenComes /\ TipComes

GossipInv == Typed /\ Expectations

LEMMA InitExpectations == GossipInit => Expectations
PROOF
<1> SUFFICES ASSUME GossipInit
             PROVE  Expectations
    OBVIOUS
<1>1. \A p \in Pairs : net[p] = << >>
    BY DEF GossipInit, NoMail, Pairs
<1>2. ToldIsHeld
    BY <1>1 DEF ToldIsHeld, ToSet
<1> QED
    BY <1>2 DEF GossipInit, Expectations, Greeted, SeenComes, TipComes

LEMMA MovedKeeps ==
    ASSUME NEW Bodies, NEW Notes, Carried(Bodies, Notes),
           GossipTyped(Bodies, Notes), GossipTyped(Bodies, Notes)',
           NEW m \in Nodes, NEW n \in Nodes, NEW x, Moved(m, n, x),
           x.type \in Telling => x.chain \in Chains(Bodies),
           m # n => {n, m} \in open, Expectations
    PROVE  Expectations'
PROOF
<1>1. ToldIsHeld /\ Greeted /\ SeenComes /\ TipComes
    BY DEF Expectations
<1>2. ToldIsHeld'
    BY <1>1, ToldKept
<1>3. Greeted'
    BY <1>1, GreetedKept
<1>4. SeenComes'
    BY <1>1, SeenKept
<1>5. TipComes'
    BY <1>1, <1>3, TipKept
<1> QED
    BY <1>2, <1>3, <1>4, <1>5 DEF Expectations

LEMMA ExpectationsStep ==
    ASSUME OneDifficulty, GossipInv, [GossipNext]_gossipVars
    PROVE  GossipInv'
PROOF
<1>1. /\ GossipTyped({<< >>}, {}) /\ GossipTyped({<< >>}, {})'
      /\ ToldIsHeld /\ Greeted /\ SeenComes /\ TipComes
    BY TypedStep DEF GossipInv, Typed, Expectations
<1>2. ASSUME Rewired
      PROVE  Expectations'
    BY <1>1, <1>2, RewiredKeeps DEF Expectations
<1>3. ASSUME NEW n \in Nodes, NEW m \in Nodes, Connect(n, m)
      PROVE  Expectations'
    BY <1>1, <1>2, <1>3, ConnectRewires
<1>4. ASSUME NEW n \in Nodes, NEW m \in Nodes, Disconnect(n, m)
      PROVE  Expectations'
    BY <1>1, <1>2, <1>4, DisconnectRewires
<1>5. ASSUME chain' = chain, open' = open, shaken' = shaken, net' = net,
             \A y \in Nodes : seen'[y] \subseteq seen[y]
      PROVE  Expectations'
    BY <1>2, <1>5 DEF Rewired
<1>6. ASSUME NEW n \in Nodes, NEW c, Forget(n, c)
      PROVE  Expectations'
    BY <1>1, <1>5, <1>6 DEF Forget, GossipTyped
<1>7. ASSUME NEW n \in Nodes, NEW clock \in Clocks, Mine(n, clock, << >>)
      PROVE  Expectations'
  <2>1. PICK x : x = [type |-> "NONE"]
      OBVIOUS
  <2>2. x.type \notin Asking \cup Telling
      BY <2>1 DEF Asking, Telling
  <2>3. Moved(n, n, x)
      BY <1>1, <1>7, <2>2, MineMoves, NothingElse
  <2> QED
      BY <1>1, <2>2, <2>3, MovedKeeps, NothingElse DEF Expectations
<1>8. ASSUME NEW n \in Nodes, NEW m \in Nodes, Deliver(m, n, << >>)
      PROVE  Expectations'
  <2>1. PICK x : x = Head(net[<<m, n>>])
      OBVIOUS
  <2>2. /\ Moved(m, n, x)
        /\ x.type \in Telling => x.chain \in Chains({<< >>})
      BY <1>1, <1>8, <2>1, DeliverMoves, NothingElse
  <2>3. {n, m} \in open
      BY <1>1, <1>8, TypedNet, TakenTyped DEF Deliver
  <2> QED
      BY <1>1, <2>2, <2>3, MovedKeeps, NothingElse DEF Expectations
<1>9. ASSUME UNCHANGED gossipVars
      PROVE  Expectations'
    BY <1>5, <1>9 DEF gossipVars
<1>10. Expectations'
    BY <1>3, <1>4, <1>6, <1>7, <1>8, <1>9 DEF GossipNext, Reconnect, LoseConnection
<1> QED
    BY <1>1, <1>10 DEF GossipInv, Typed

(* When all blocks have one difficulty, every block that a node has and    *)
(* its neighbour has not is announced, asked for or about to be, or the    *)
(* connection is down and the next greeting will bring it; an announcement *)
(* seen before is dropped only where that is so, and what is told is held. *)
THEOREM NothingIsForgotten ==
    ASSUME OneDifficulty
    PROVE  GossipSpec => []GossipInv
PROOF
<1>1. GossipInit => GossipInv
    BY InitTyped, NothingElse, InitExpectations DEF GossipInv, Typed
<1>2. GossipInv /\ [GossipNext]_gossipVars => GossipInv'
    BY ExpectationsStep
<1> QED
    BY <1>1, <1>2, PTL DEF GossipSpec

LEMMA QuietNeighbours ==
    ASSUME Expectations, Quiet, NEW n \in Nodes, NEW m \in Nodes, {n, m} \in Links
    PROVE  Len(chain[m]) >= Len(chain[n])
PROOF
<1>1. \A p \in Pairs : net[p] = << >>
    BY DEF Quiet, NoMail, Pairs
<1>2. \A p \in Pairs : ToSet(net[p]) = {}
    BY <1>1 DEF ToSet
<1>3. \A p, q \in Nodes : \A k, type, types :
          ~ Has(p, q, type) /\ ~ Tells(p, q, types, k)
    BY <1>2 DEF Has, Tells, Pairs
<1>4. \A p, q \in Nodes : \A k : ~ Pending(p, q, k)
    BY <1>3 DEF Pending
<1>5. Coming(m, Len(chain[n]))
    BY <1>3 DEF Expectations, TipComes, Quiet
<1> QED
    BY <1>4, <1>5 DEF Coming, Quiet

(* Every node is reached from every other one along known addresses.       *)
Connected ==
    \A S \in SUBSET Nodes :
        S # {} /\ (\A l \in Links : l \cap S # {} => l \subseteq S) => S = Nodes

LEMMA QuietLengths ==
    ASSUME Connected, NEW Bodies, NEW Notes, GossipTyped(Bodies, Notes), Expectations, Quiet,
           NEW n \in Nodes, NEW m \in Nodes
    PROVE  Len(chain[n]) = Len(chain[m])
PROOF
<1>1. \A a \in Nodes : Len(chain[a]) \in Nat
    BY LengthTypes
<1> DEFINE S == {a \in Nodes : Len(chain[a]) = Len(chain[n])}
<1>2. ASSUME NEW l \in Links, l \cap S # {}
      PROVE  l \subseteq S
  <2>1. PICK a \in Nodes, b \in Nodes : l = {a, b}
      BY GossipAssumption
  <2>2. {a, b} \in Links /\ {b, a} \in Links
      BY <2>1
  <2>3. Len(chain[a]) >= Len(chain[b]) /\ Len(chain[b]) >= Len(chain[a])
      BY <2>2, QuietNeighbours
  <2>4. Len(chain[a]) = Len(chain[b])
      BY <1>1, <2>3
  <2> QED
      BY <1>2, <2>1, <2>4
<1>3. S = Nodes
    BY <1>2 DEF Connected
<1> QED
    BY <1>3

LEMMA QuietWork ==
    ASSUME OneDifficulty, Connected, NEW Bodies, NEW Notes,
           GossipTyped(Bodies, Notes), Expectations
    PROVE  QuietNodesAgree
PROOF
<1>1. ASSUME Quiet, NEW n \in Nodes, NEW m \in Nodes
      PROVE  totalWork(chain[n]) = totalWork(chain[m])
  <2>1. \A a \in Nodes : chain[a] \in Chains(Bodies)
      BY LengthTypes
  <2>2. Len(chain[n]) = Len(chain[m])
      BY <1>1, QuietLengths
  <2> QED
      BY <2>1, <2>2, WorkIsLength
<1> QED
    BY <1>1 DEF QuietNodesAgree

(* When the network has gone quiet all nodes are on chains of equal work,  *)
(* if they can reach each other and all blocks have one difficulty.        *)
(* Without that a longer chain may have less work, and p2p.js, which       *)
(* compares heights before it asks, leaves the node with the other one.    *)
THEOREM QuietAgreement ==
    ASSUME OneDifficulty, Connected
    PROVE  GossipSpec => []QuietNodesAgree
PROOF
<1>1. GossipInv => QuietNodesAgree
    BY QuietWork DEF GossipInv, Typed
<1> QED
    BY <1>1, NothingIsForgotten, PTL

-----------------------------------------------------------------------------
(* Transactions on the same connections: the types of RelaySpec            *)

(* The bodies blocks have in Relay, and the messages it adds.              *)
TxBodies == Seq(SignedTxs)

TxNotes == [type : {"NEW_TX"}, tx : SignedTxs]

LEMMA TxCarried == Carried(TxBodies, TxNotes)
PROOF
<1>1. << >> \in TxBodies
    BY DEF TxBodies
<1>2. \A x \in TxNotes : x.type \notin Asking \cup Telling
    BY DEF TxNotes, Asking, Telling
<1> QED
    BY <1>1, <1>2 DEF Carried

LEMMA NoteTypes ==
    ASSUME NEW tx \in SignedTxs
    PROVE  /\ NewTx(tx) \in TxNotes /\ NewTx(tx) \in Messages(TxBodies, TxNotes)
           /\ NewTx(tx).type \notin Asking \cup Telling /\ NewTx(tx).tx = tx
PROOF
<1>1. NewTx(tx) \in TxNotes /\ NewTx(tx).tx = tx
    BY DEF NewTx, TxNotes
<1> QED
    BY <1>1, TxCarried DEF Carried, Messages

(* What a message that carries a transaction carries.                      *)
LEMMA NoteIs ==
    ASSUME NEW x \in Messages(TxBodies, TxNotes), x.type = "NEW_TX"
    PROVE  x.tx \in SignedTxs /\ x.type \notin Asking \cup Telling
PROOF
<1>1. x \notin Questions
    BY DEF Questions, Asking
<1>2. x \notin Answers(TxBodies)
    BY DEF Answers, Telling
<1>3. x \in TxNotes
    BY <1>1, <1>2 DEF Messages
<1> QED
    BY <1>3 DEF TxNotes, Asking, Telling

LEMMA ChainsAreChains == \A c \in Chains(TxBodies) : c \in ChainSet /\ Head(c) = genesisBlock
PROOF
<1>1. MIN_DIFFICULTY..MAX_DIFFICULTY \subseteq Nat
    BY HeadersAssumption
<1>2. Blocks(TxBodies) \subseteq BlockSet
    BY <1>1, RelayAssumption DEF Blocks, BlockSet, TxBodies
<1> QED
    BY <1>2 DEF Chains, ChainSet

(* The account state of a chain, block by block.                           *)
Extended(p, state, b) == applyBlock(state, b).state

Accounts == INSTANCE FoldLaws WITH op <- Extended

LEMMA AccountsIsFold == \A c : accounts(c) = Accounts!Fold(0, genesisState, Tail(c))
PROOF
BY DEF accounts, Extended, Accounts!Fold, FoldLeft,
       MapThenFoldSet, Accounts!MapThenFoldSet, Max, Accounts!Greatest

LEMMA AccountsAlone == accounts(<<genesisBlock>>) = genesisState
PROOF
<1>1. Tail(<<genesisBlock>>) = << >>
    OBVIOUS
<1> QED
    BY <1>1, AccountsIsFold, Accounts!FoldEmpty

LEMMA AccountsAppend ==
    ASSUME NEW c \in ChainSet, NEW b \in BlockSet
    PROVE  accounts(Append(c, b)) = applyBlock(accounts(c), b).state
PROOF
<1>1. PICK s \in Seq(BlockSet) : s = Tail(c)
    BY HeadOfAppend
<1>2. Tail(Append(c, b)) = Append(s, b)
    BY <1>1, HeadOfAppend
<1>3. Accounts!Fold(0, genesisState, Append(s, b))
          = Extended(0, Accounts!Fold(0, genesisState, s), b)
    BY Accounts!FoldAppend
<1>4. Accounts!Fold(0, genesisState, s) = accounts(c)
    BY <1>1, AccountsIsFold
<1> QED
    BY <1>2, <1>3, <1>4, AccountsIsFold DEF Extended

LEMMA AccountsType == \A c \in ChainSet : accounts(c) \in TypeOfState
PROOF
<1> DEFINE Good == {s \in Seq(BlockSet) : Accounts!Fold(0, genesisState, s) \in TypeOfState}
<1>1. << >> \in Good
    BY Accounts!FoldEmpty, GenesisStateType, EmptySeq
<1>2. ASSUME NEW s \in Seq(BlockSet), NEW b \in BlockSet, s \in Good
      PROVE  Append(s, b) \in Good
  <2>1. PICK state \in TypeOfState : state = Accounts!Fold(0, genesisState, s)
      BY <1>2
  <2>2. Accounts!Fold(0, genesisState, Append(s, b)) = applyBlock(state, b).state
      BY <2>1, Accounts!FoldAppend DEF Extended
  <2>3. applyBlock(state, b).state \in TypeOfState
      BY ApplyBlockIs DEF Outcome
  <2> QED
      BY <2>2, <2>3, AppendProperties
<1> HIDE DEF Good
<1>3. Seq(BlockSet) \subseteq Good
    BY <1>1, <1>2, Accounts!SeqSetInduction
<1>4. ASSUME NEW c \in ChainSet
      PROVE  accounts(c) \in TypeOfState
  <2>1. Tail(c) \in Seq(BlockSet)
      BY DEF ChainSet
  <2> QED
      BY <1>3, <2>1, AccountsIsFold DEF Good
<1> QED
    BY <1>4

LEMMA AccountsOfType ==
    ASSUME GossipTyped(TxBodies, TxNotes), NEW n \in Nodes
    PROVE  chain[n] \in Chains(TxBodies) /\ chain[n] \in ChainSet /\ accountsOf(n) \in TypeOfState
PROOF
<1>1. chain[n] \in Chains(TxBodies)
    BY DEF GossipTyped
<1> QED
    BY <1>1, ChainsAreChains, AccountsType DEF accountsOf

PoolsFit == pool = [n \in Nodes |-> pool[n]] /\ \A n \in Nodes : PoolFit(pool[n])

Searches == {<< >>} \cup (Chains(TxBodies) \X TxBodies)

Stages == {"asked", "signed", "adrift", "accepted", "refused", "done", "failed"}

Sends == [stage : Stages, tx : SignedTxs]

ClientTyped == sends \in Seq(Sends) /\ localNonce \in Nat

RelayTyped ==
    /\ GossipTyped(TxBodies, TxNotes)
    /\ PoolsFit
    /\ seenTx \in [Nodes -> SUBSET SignedTxs]
    /\ search \in [Nodes -> Searches]
    /\ ClientTyped

(* A step that changes the pool of one node.                               *)
LEMMA OnePool ==
    ASSUME PoolsFit, NEW n \in Nodes, NEW q, PoolFit(q), pool' = [pool EXCEPT ![n] = q]
    PROVE  PoolsFit' /\ pool'[n] = q /\ \A y \in Nodes : y # n => pool'[y] = pool[y]
PROOF
<1>1. PICK f : f = pool
    OBVIOUS
<1>2. f = [y \in Nodes |-> f[y]]
    BY <1>1 DEF PoolsFit
<1>3. pool' = [f EXCEPT ![n] = q]
    BY <1>1
<1>4. pool' = [y \in Nodes |-> IF y = n THEN q ELSE f[y]]
    BY <1>2, <1>3
<1>5. pool'[n] = q /\ \A y \in Nodes : y # n => pool'[y] = f[y]
    BY <1>4
<1>6. pool' = [y \in Nodes |-> pool'[y]]
    BY <1>4
<1> QED
    BY <1>1, <1>5, <1>6 DEF PoolsFit

LEMMA RelayMessages ==
    ASSUME RelayTyped, NEW n \in Nodes
    PROVE  relayMempool(n) \in Seq(TxNotes)
PROOF
<1>1. PICK s \in Seq(SignedTxs) : s = pool[n].txs
    BY DEF RelayTyped, PoolsFit, PoolFit
<1>2. relayMempool(n) = [i \in DOMAIN s |-> NewTx(s[i])]
    BY <1>1 DEF relayMempool
<1>3. \A i \in DOMAIN s : NewTx(s[i]) \in TxNotes
    BY NoteTypes
<1>4. PICK k \in Nat : DOMAIN s = 1..k
    BY LenProperties
<1> QED
    BY <1>2, <1>3, <1>4, IsASeq

(* What a pool is after its node's chain has changed.                      *)
LEMMA PoolFollowsIs ==
    ASSUME RelayTyped, GossipTyped(TxBodies, TxNotes)', NEW n \in Nodes, PoolFollows(n)
    PROVE  /\ PoolsFit' /\ \A y \in Nodes : y # n => pool'[y] = pool[y]
           /\ chain'[n] = chain[n] => pool'[n] = pool[n]
           /\ chain'[n] # chain[n] =>
                 \A tx \in Pooled(pool'[n]) : ~ Outdated(tx, accounts(chain'[n]), Now)
PROOF
<1>1. PICK old \in ChainSet : old = chain[n]
    BY AccountsOfType DEF RelayTyped
<1>2. PICK new \in Chains(TxBodies) : new = chain'[n]
    BY DEF GossipTyped
<1>3. PoolsFit /\ PoolFit(pool[n])
    BY DEF RelayTyped, PoolsFit
<1>4. CASE new = old
    BY <1>1, <1>2, <1>3, <1>4 DEF PoolFollows, PoolsFit
<1>5. ASSUME new # old, NEW q, PoolFit(q), pool' = [pool EXCEPT ![n] = q],
             \A tx \in Pooled(q) : ~ Outdated(tx, accounts(new), Now)
      PROVE  /\ PoolsFit' /\ \A y \in Nodes : y # n => pool'[y] = pool[y]
             /\ \A tx \in Pooled(pool'[n]) : ~ Outdated(tx, accounts(new), Now)
  <2>1. PoolsFit' /\ pool'[n] = q /\ \A y \in Nodes : y # n => pool'[y] = pool[y]
      BY <1>3, <1>5, OnePool
  <2> QED
      BY <1>5, <2>1
<1>6. CASE new # old /\ Front(new) = old
  <2>1. PICK q : q = PoolAfterBlock(pool[n], Last(new), accounts(new), Now)
      OBVIOUS
  <2>2. pool' = [pool EXCEPT ![n] = q]
      BY <1>1, <1>2, <1>6, <2>1 DEF PoolFollows
  <2>3. PoolFit(q) /\ \A tx \in Pooled(q) : ~ Outdated(tx, accounts(new), Now)
      BY <1>3, <2>1, FitAfterBlock
  <2> QED
      BY <1>1, <1>2, <1>5, <1>6, <2>2, <2>3
<1>7. CASE new # old /\ Front(new) # old
  <2>1. PICK q : q = PoolAfterReorg(pool[n], old, new, accounts(new), Now)
      OBVIOUS
  <2>2. pool' = [pool EXCEPT ![n] = q]
      BY <1>1, <1>2, <1>7, <2>1 DEF PoolFollows
  <2>3. old \in Seq(BlockSet)
      BY DEF ChainSet
  <2>4. PoolFit(q) /\ \A tx \in Pooled(q) : ~ Outdated(tx, accounts(new), Now)
      BY <1>3, <2>1, <2>3, FitAfterReorg
  <2> QED
      BY <1>1, <1>2, <1>5, <1>7, <2>2, <2>4
<1> QED
    BY <1>1, <1>2, <1>4, <1>6, <1>7

LEMMA TxSent ==
    ASSUME GossipTyped(TxBodies, TxNotes), NEW before, NetTyped(before, TxBodies, TxNotes),
           NEW n \in Nodes, NEW peers, peers \subseteq PeersOf(n), NEW tx \in SignedTxs,
           net' = before \/ net' = Sent(before, Broadcast(n, peers, NewTx(tx))),
           UNCHANGED <<chain, open, shaken, seen>>
    PROVE  GossipTyped(TxBodies, TxNotes)' /\ Speaks(n, before)
PROOF
<1>1. PICK msg \in Messages(TxBodies, TxNotes) : msg = NewTx(tx) /\ msg.type \notin Telling
    BY NoteTypes
<1>2. PICK after : after = net'
    OBVIOUS
<1>3. CASE after = before
  <2>1. Speaks(n, before)
      BY <1>2, <1>3, SilentSpeaks
  <2>2. NetTyped(after, TxBodies, TxNotes)
      BY <1>3
  <2> QED
      BY <1>2, <2>1, <2>2 DEF GossipTyped, NetTyped, Queues, Pairs
<1>4. CASE after = Sent(before, Broadcast(n, peers, msg))
  <2>1. NetTyped(after, TxBodies, TxNotes) /\ Reached(n, peers, msg, before, after)
      BY <1>4, Announced
  <2>2. \A p \in Pairs : \A x \in ToSet(after[p]) :
            x \in ToSet(before[p]) \/ (p[1] = n /\ x.type \notin Telling)
      BY <1>1, <2>1 DEF Reached
  <2>3. Speaks(n, before)
      BY <1>2, <2>1, <2>2 DEF Speaks, Reached
  <2> QED
      BY <1>2, <2>1, <2>3 DEF GossipTyped, NetTyped, Queues, Pairs
<1> QED
    BY <1>1, <1>2, <1>3, <1>4

(* The parts a step may leave alone.                                       *)
LEMMA RelaySame ==
    ASSUME RelayTyped, GossipTyped(TxBodies, TxNotes)', PoolsFit',
           seenTx' \in [Nodes -> SUBSET SignedTxs], search' \in [Nodes -> Searches],
           ClientTyped'
    PROVE  RelayTyped'
PROOF
BY DEF RelayTyped

LEMMA GossipSame ==
    ASSUME GossipTyped(TxBodies, TxNotes), UNCHANGED gossipVars
    PROVE  GossipTyped(TxBodies, TxNotes)'
PROOF
BY DEF gossipVars, GossipTyped

LEMMA PoolsSame ==
    ASSUME PoolsFit, pool' = pool
    PROVE  PoolsFit'
PROOF
BY DEF PoolsFit

LEMMA ClientSame ==
    ASSUME ClientTyped, UNCHANGED clientVars
    PROVE  ClientTyped'
PROOF
BY DEF ClientTyped, clientVars

(* The search fixes a body that applies; its trial only shrinks the pool.  *)
LEMMA SearchTyped ==
    ASSUME RelayTyped, NEW n \in Nodes, Search(n)
    PROVE  /\ RelayTyped'
           /\ Pooled(pool'[n]) \subseteq Pooled(pool[n])
           /\ \A y \in Nodes : y # n => pool'[y] = pool[y]
           /\ search' = [search EXCEPT ![n] = <<chain[n], Tried(n).accepted>>]
           /\ ApplyAll(accountsOf(n), Tried(n).accepted).ok
PROOF
<1>1. PICK s \in TypeOfState : s = accountsOf(n)
    BY AccountsOfType DEF RelayTyped
<1>2. PoolsFit /\ PoolFit(pool[n])
    BY DEF RelayTyped, PoolsFit
<1>3. PICK t : t = Tried(n)
    OBVIOUS
<1>4. /\ t.accepted \in TxBodies /\ ApplyAll(s, t.accepted).ok
      /\ PoolFit(t.pool) /\ Pooled(t.pool) \subseteq Pooled(pool[n])
    BY <1>1, <1>2, <1>3, TrialIs DEF Tried, TxBodies
<1>5. /\ search' = [search EXCEPT ![n] = <<chain[n], t.accepted>>]
      /\ pool' = [pool EXCEPT ![n] = t.pool]
      /\ UNCHANGED <<gossipVars, seenTx, clientVars>>
    BY <1>3 DEF Search
<1>6. PoolsFit' /\ pool'[n] = t.pool /\ \A y \in Nodes : y # n => pool'[y] = pool[y]
    BY <1>2, <1>4, <1>5, OnePool
<1>7. search' \in [Nodes -> Searches]
  <2>1. PICK c \in Chains(TxBodies) : c = chain[n]
      BY AccountsOfType DEF RelayTyped
  <2>2. PICK found : found = <<c, t.accepted>>
      OBVIOUS
  <2>3. found \in Searches
      BY <1>4, <2>2 DEF Searches
  <2>4. search' = [search EXCEPT ![n] = found]
      BY <1>5, <2>1, <2>2
  <2> QED
      BY <2>3, <2>4 DEF RelayTyped
<1>8. RelayTyped'
    BY <1>5, <1>6, <1>7, RelaySame, GossipSame, ClientSame DEF RelayTyped
<1> QED
    BY <1>1, <1>3, <1>4, <1>5, <1>6, <1>8

LEMMA SearchIs ==
    ASSUME RelayTyped, NEW n \in Nodes, search[n] # << >>
    PROVE  search[n][1] \in Chains(TxBodies) /\ search[n][2] \in TxBodies
PROOF
BY DEF RelayTyped, Searches

LEMMA SliceTyped ==
    ASSUME RelayTyped, NEW n \in Nodes, Slice(n)
    PROVE  RelayTyped'
PROOF
<1>1. PICK body \in TxBodies : body = search[n][2]
    BY SearchIs DEF Slice
<1>2. search' = [search EXCEPT ![n] = << >>] /\ UNCHANGED <<seenTx, clientVars>>
    BY DEF Slice
<1>3. search' \in [Nodes -> Searches]
    BY <1>2 DEF RelayTyped, Searches
<1>4. ASSUME NEW clock \in Clocks, Mine(n, clock, body), PoolFollows(n)
      PROVE  RelayTyped'
  <2>1. GossipTyped(TxBodies, TxNotes)'
      BY <1>4, MineDone, TxCarried DEF RelayTyped
  <2>2. PoolsFit'
      BY <1>4, <2>1, PoolFollowsIs
  <2> QED
      BY <1>2, <1>3, <2>1, <2>2, RelaySame, ClientSame DEF RelayTyped
<1>5. CASE UNCHANGED <<gossipVars, pool>>
    BY <1>2, <1>3, <1>5, RelaySame, GossipSame, PoolsSame, ClientSame DEF RelayTyped
<1> QED
    BY <1>1, <1>4, <1>5 DEF Slice

(* What handling a transaction does to its node.                           *)
LEMMA HandleTxDone ==
    ASSUME RelayTyped, NEW m \in Nodes, NEW n \in Nodes, net[<<m, n>>] # << >>,
           NEW tx \in SignedTxs, HandleTx(n, m, tx)
    PROVE  /\ RelayTyped' /\ Speaks(n, Taken(m, n))
           /\ UNCHANGED <<chain, open, shaken, seen, search, clientVars>>
           /\ \A y \in Nodes : y # n => pool'[y] = pool[y]
           /\ \/ pool' = pool
              \/ /\ Pooled(pool'[n]) = Pooled(pool[n]) \cup {tx}
                 /\ Acceptable(pool[n], tx, accountsOf(n), Now)
PROOF
<1>1. PICK welcome \in BOOLEAN :
          welcome <=> tx \notin seenTx[n] /\ Acceptable(pool[n], tx, accountsOf(n), Now)
    OBVIOUS
<1>2. /\ seenTx' = [seenTx EXCEPT ![n] = @ \cup {tx}]
      /\ UNCHANGED <<chain, open, shaken, seen, search, clientVars>>
    BY DEF HandleTx
<1>3. welcome => /\ pool' = [pool EXCEPT ![n] = add(pool[n], tx, accountsOf(n), Now)]
                 /\ net' = Sent(Taken(m, n), Broadcast(n, PeersOf(n) \ {m}, NewTx(tx)))
    BY <1>1 DEF HandleTx
<1>4. ~ welcome => net' = Taken(m, n) /\ pool' = pool
    BY <1>1 DEF HandleTx
<1>5. PICK before : before = Taken(m, n)
    OBVIOUS
<1>6. NetTyped(before, TxBodies, TxNotes)
    BY <1>5, TypedNet, TakenTyped DEF RelayTyped
<1>7. PICK peers \in SUBSET PeersOf(n) : peers = PeersOf(n) \ {m}
    OBVIOUS
<1>8. net' = before \/ net' = Sent(before, Broadcast(n, peers, NewTx(tx)))
    BY <1>3, <1>4, <1>5, <1>7
<1>9. GossipTyped(TxBodies, TxNotes)' /\ Speaks(n, before)
    BY <1>2, <1>6, <1>8, TxSent DEF RelayTyped
<1>10. PICK q : q = add(pool[n], tx, accountsOf(n), Now)
    OBVIOUS
<1>11. /\ PoolFit(q)
       /\ welcome => Pooled(q) = Pooled(pool[n]) \cup {tx}
    BY <1>1, <1>10, FitAdd DEF RelayTyped, PoolsFit
<1>12. /\ PoolsFit' /\ \A y \in Nodes : y # n => pool'[y] = pool[y]
       /\ pool' = pool \/ (welcome /\ pool'[n] = q)
  <2>1. PoolsFit
      BY DEF RelayTyped
  <2>2. CASE welcome
      BY <1>3, <1>10, <1>11, <2>1, <2>2, OnePool
  <2>3. CASE ~ welcome
      BY <1>4, <2>1, <2>3, PoolsSame
  <2> QED
      BY <2>2, <2>3
<1>13. seenTx' \in [Nodes -> SUBSET SignedTxs]
    BY <1>2 DEF RelayTyped
<1>14. RelayTyped'
    BY <1>2, <1>9, <1>12, <1>13, RelaySame, ClientSame DEF RelayTyped
<1> QED
    BY <1>1, <1>2, <1>5, <1>9, <1>11, <1>12, <1>14

(* The two kinds of message: transactions, and the rest.                   *)
LEMMA HandleIs ==
    ASSUME RelayTyped, NEW m \in Nodes, NEW n \in Nodes, Handle(m, n),
           NEW x, x = Head(net[<<m, n>>])
    PROVE  /\ net[<<m, n>>] # << >>
           /\ \/ x.type = "NEW_TX" /\ x.tx \in SignedTxs /\ HandleTx(n, m, x.tx)
              \/ /\ x.type \in Asking \cup Telling
                 /\ Deliver(m, n, relayMempool(n)) /\ PoolFollows(n)
                 /\ GossipTyped(TxBodies, TxNotes)'
                 /\ UNCHANGED <<seenTx, search, clientVars>>
PROOF
<1>1. net[<<m, n>>] # << >>
    BY DEF Handle
<1>2. GossipTyped(TxBodies, TxNotes)
    BY DEF RelayTyped
<1>3. x \in Messages(TxBodies, TxNotes)
    BY <1>1, <1>2, TypedNet, TakenTyped
<1>4. CASE x.type = "NEW_TX" /\ HandleTx(n, m, x.tx)
    BY <1>1, <1>3, <1>4, NoteIs
<1>5. CASE /\ Deliver(m, n, relayMempool(n)) /\ PoolFollows(n)
           /\ UNCHANGED <<seenTx, search, clientVars>>
  <2>1. GossipTyped(TxBodies, TxNotes)' /\ x.type \in Asking \cup Telling
      BY <1>2, <1>5, DeliverDone, RelayMessages, TxCarried
  <2> QED
      BY <1>1, <1>5, <2>1
<1> QED
    BY <1>4, <1>5 DEF Handle

LEMMA HandleTyped ==
    ASSUME RelayTyped, NEW m \in Nodes, NEW n \in Nodes, Handle(m, n)
    PROVE  RelayTyped'
PROOF
<1>1. PICK x : x = Head(net[<<m, n>>])
    OBVIOUS
<1>2. net[<<m, n>>] # << >>
    BY <1>1, HandleIs
<1>3. CASE x.tx \in SignedTxs /\ HandleTx(n, m, x.tx)
    BY <1>2, <1>3, HandleTxDone
<1>4. CASE /\ Deliver(m, n, relayMempool(n)) /\ PoolFollows(n)
           /\ GossipTyped(TxBodies, TxNotes)'
           /\ UNCHANGED <<seenTx, search, clientVars>>
  <2>1. PoolsFit'
      BY <1>4, PoolFollowsIs
  <2> QED
      BY <1>4, <2>1, RelaySame, ClientSame DEF RelayTyped
<1> QED
    BY <1>1, <1>3, <1>4, HandleIs

(* One send of the client moves on; r is what it is then.                  *)
Moves(k, r) ==
    /\ DOMAIN sends' = DOMAIN sends /\ sends'[k] = r
    /\ \A i \in DOMAIN sends : i # k => sends'[i] = sends[i]

LEMMA OneSend ==
    ASSUME ClientTyped, NEW k \in DOMAIN sends, NEW r \in Sends,
           sends' = [sends EXCEPT ![k] = r]
    PROVE  sends' \in Seq(Sends) /\ Moves(k, r)
PROOF
<1>1. PICK s \in Seq(Sends) : s = sends
    BY DEF ClientTyped
<1>2. [s EXCEPT ![k] = r] \in Seq(Sends)
    BY <1>1, ExceptSeq
<1>3. DOMAIN [s EXCEPT ![k] = r] = DOMAIN s
    OBVIOUS
<1> QED
    BY <1>1, <1>2, <1>3 DEF Moves

LEMMA OneStage ==
    ASSUME ClientTyped, NEW k \in DOMAIN sends, NEW stage \in Stages,
           sends' = [sends EXCEPT ![k].stage = stage]
    PROVE  /\ sends' \in Seq(Sends) /\ sends[k].tx.nonce \in Nat
           /\ \E r \in Sends : r.stage = stage /\ r.tx = sends[k].tx /\ Moves(k, r)
PROOF
<1>1. PICK row \in Sends : row = sends[k]
    BY DEF ClientTyped
<1>2. PICK r : r = [row EXCEPT !.stage = stage]
    OBVIOUS
<1>3. r \in Sends /\ r.stage = stage /\ r.tx = row.tx /\ row.tx.nonce \in Nat
    BY <1>2 DEF Sends, SignedTxs
<1>4. sends' = [sends EXCEPT ![k] = r]
    BY <1>1, <1>2
<1>5. sends' \in Seq(Sends) /\ Moves(k, r)
    BY <1>3, <1>4, OneSend
<1> QED
    BY <1>1, <1>3, <1>5

LEMMA AskDone ==
    ASSUME RelayTyped, AskNonce
    PROVE  /\ RelayTyped' /\ UNCHANGED <<gossipVars, poolVars, localNonce>>
           /\ \E r \in Sends : sends' = Append(sends, r) /\ r.stage = "asked"
PROOF
<1>1. PICK s \in TypeOfState : s = accountsOf(Home)
    BY RelayAssumption, AccountsOfType DEF RelayTyped
<1>2. PICK payment \in [to : Addr \ {Client}, amount : Nat, fee : Nat] :
          payment = Payments[Len(sends) + 1]
  <2>1. PICK k \in Nat : k = Len(sends)
      BY LenProperties DEF RelayTyped, ClientTyped
  <2>2. k < Len(Payments) /\ Len(Payments) \in Nat
      BY <2>1, RelayAssumption, LenProperties DEF AskNonce
  <2>3. k + 1 \in 1..Len(Payments)
      BY <2>2
  <2> QED
      BY <2>1, <2>3, RelayAssumption, ElementOfSeq
<1>3. PICK r : r = [stage |-> "asked",
                tx    |-> [from |-> Client, to |-> payment.to, amount |-> payment.amount,
                           fee |-> payment.fee, timestamp |-> 0, size |-> 1,
                           nonce |-> s.nonce[Client]]]
    OBVIOUS
<1>4. Client \in Addr /\ s.nonce[Client] \in Nat
    BY RelayAssumption DEF TypeOfState
<1>5. r \in Sends /\ r.stage = "asked"
    BY <1>3, <1>4 DEF Sends, Stages, SignedTxs
<1>6. sends' = Append(sends, r) /\ UNCHANGED <<gossipVars, poolVars, localNonce>>
    BY <1>1, <1>2, <1>3 DEF AskNonce
<1>7. ClientTyped'
    BY <1>5, <1>6, AppendProperties DEF RelayTyped, ClientTyped
<1>8. RelayTyped'
    BY <1>6, <1>7, RelaySame, GossipSame, PoolsSame DEF RelayTyped, poolVars
<1> QED
    BY <1>5, <1>6, <1>8

LEMMA NextNonce ==
    ASSUME NEW nonce \in Nat, localNonce \in Nat
    PROVE  nextNonce(nonce) \in Nat /\ nextNonce(nonce) >= localNonce
PROOF
<1>1. PICK top : top = Max({nonce, localNonce})
    OBVIOUS
<1>2. top \in {nonce, localNonce} /\ top >= localNonce
    BY <1>1 DEF Max
<1> QED
    BY <1>1, <1>2 DEF nextNonce

LEMMA SignDone ==
    ASSUME RelayTyped, NEW k \in DOMAIN sends, Sign(k)
    PROVE  /\ RelayTyped' /\ UNCHANGED <<gossipVars, poolVars>>
           /\ sends[k].stage = "asked" /\ localNonce' >= localNonce
           /\ \E r \in Sends : /\ r.stage = "signed" /\ r.tx.nonce = localNonce'
                               /\ Moves(k, r)
PROOF
<1>1. PICK row \in Sends : row = sends[k]
    BY DEF RelayTyped, ClientTyped
<1>2. row.tx.nonce \in Nat /\ localNonce \in Nat
    BY DEF RelayTyped, ClientTyped, Sends, SignedTxs
<1>3. localNonce' = nextNonce(row.tx.nonce) /\ row.stage = "asked"
    BY <1>1 DEF Sign
<1>4. localNonce' \in Nat /\ localNonce' >= localNonce
    BY <1>2, <1>3, NextNonce
<1>5. PICK next \in Nat : next = localNonce'
    BY <1>4
<1>6. PICK r : r = [row EXCEPT !.stage = "signed", !.tx.nonce = next]
    OBVIOUS
<1>7. r \in Sends /\ r.stage = "signed" /\ r.tx.nonce = next
    BY <1>6 DEF Sends, Stages, SignedTxs
<1>8. sends' = [sends EXCEPT ![k] = r] /\ UNCHANGED <<gossipVars, poolVars>>
    BY <1>1, <1>5, <1>6 DEF Sign
<1>9. sends' \in Seq(Sends) /\ Moves(k, r)
    BY <1>7, <1>8, OneSend DEF RelayTyped
<1>10. RelayTyped'
    BY <1>4, <1>8, <1>9, RelaySame, GossipSame, PoolsSame DEF RelayTyped, ClientTyped, poolVars
<1> QED
    BY <1>1, <1>3, <1>4, <1>5, <1>7, <1>8, <1>9, <1>10

LEMMA SubmitDone ==
    ASSUME RelayTyped, NEW k \in DOMAIN sends, Submit(k)
    PROVE  /\ RelayTyped' /\ Speaks(Home, net)
           /\ UNCHANGED <<chain, open, shaken, seen, search, localNonce>>
           /\ \E stage \in Stages, r \in Sends :
                 /\ r.stage = stage /\ r.tx = sends[k].tx /\ Moves(k, r)
                 /\ \/ sends[k].stage = "signed" /\ stage \in {"accepted", "refused"}
                    \/ sends[k].stage = "adrift" /\ stage = "failed"
           /\ \A y \in Nodes : y # Home => pool'[y] = pool[y]
           /\ \/ pool' = pool
              \/ \E tx \in SignedTxs :
                    /\ Pooled(pool'[Home]) = Pooled(pool[Home]) \cup {tx}
                    /\ Acceptable(pool[Home], tx, accountsOf(Home), Now)
PROOF
<1>1. PICK row \in Sends : row = sends[k]
    BY DEF RelayTyped, ClientTyped
<1>2. PICK tx \in SignedTxs : tx = row.tx
    BY DEF Sends
<1>3. PICK ok \in BOOLEAN : ok <=> Acceptable(pool[Home], tx, accountsOf(Home), Now)
    OBVIOUS
<1>4. Home \in Nodes /\ PoolsFit /\ PoolFit(pool[Home]) /\ ClientTyped
      /\ GossipTyped(TxBodies, TxNotes)
    BY RelayAssumption DEF RelayTyped, PoolsFit
<1>5. PICK stage : stage = IF row.stage = "adrift" THEN "failed"
                           ELSE IF ok THEN "accepted" ELSE "refused"
    OBVIOUS
<1>6. /\ row.stage \in {"signed", "adrift"}
      /\ sends' = [sends EXCEPT ![k].stage = stage]
      /\ UNCHANGED <<chain, open, shaken, seen, search, localNonce>>
    BY <1>1, <1>2, <1>3, <1>5 DEF Submit
<1>7. PICK q : q = add(pool[Home], tx, accountsOf(Home), Now)
    OBVIOUS
<1>8. pool' = [pool EXCEPT ![Home] = q]
    BY <1>1, <1>2, <1>7 DEF Submit
<1>9. PoolFit(q)
    BY <1>4, <1>7, FitAdd
<1>10. /\ PoolsFit' /\ pool'[Home] = q
       /\ \A y \in Nodes : y # Home => pool'[y] = pool[y]
    BY <1>4, <1>8, <1>9, OnePool
<1>11. ok => /\ seenTx' = [seenTx EXCEPT ![Home] = @ \cup {tx}]
             /\ net' = Sent(net, Broadcast(Home, PeersOf(Home), NewTx(tx)))
    BY <1>1, <1>2, <1>3 DEF Submit
<1>12. ~ ok => seenTx' = seenTx /\ net' = net
    BY <1>1, <1>2, <1>3 DEF Submit
<1>13. seenTx' \in [Nodes -> SUBSET SignedTxs]
    BY <1>11, <1>12 DEF RelayTyped
<1>14. NetTyped(net, TxBodies, TxNotes)
    BY <1>4, TypedNet
<1>15. PICK peers \in SUBSET PeersOf(Home) : peers = PeersOf(Home)
    OBVIOUS
<1>16. net' = net \/ net' = Sent(net, Broadcast(Home, peers, NewTx(tx)))
    BY <1>11, <1>12, <1>15
<1>17. GossipTyped(TxBodies, TxNotes)' /\ Speaks(Home, net)
  <2>1. PICK before : before = net
      OBVIOUS
  <2> QED
      BY <1>4, <1>6, <1>14, <1>16, <2>1, TxSent
<1>18. stage \in Stages
    BY <1>5 DEF Stages
<1>19. /\ sends' \in Seq(Sends)
       /\ \E r \in Sends : r.stage = stage /\ r.tx = sends[k].tx /\ Moves(k, r)
    BY <1>4, <1>6, <1>18, OneStage
<1>20. RelayTyped'
    BY <1>4, <1>6, <1>10, <1>13, <1>17, <1>19, RelaySame DEF RelayTyped, ClientTyped
<1>21. \/ row.stage = "signed" /\ stage \in {"accepted", "refused"}
       \/ row.stage = "adrift" /\ stage = "failed"
    BY <1>5, <1>6
<1>22. \/ pool' = pool
       \/ ok /\ Pooled(pool'[Home]) = Pooled(pool[Home]) \cup {tx}
  <2>1. CASE ok
      BY <1>3, <1>4, <1>7, <1>10, <2>1, FitAdd
  <2>2. CASE ~ ok
    <3>1. pool' = [pool EXCEPT ![Home] = pool[Home]]
        BY <1>3, <1>4, <1>7, <1>8, <2>2, FitAdd
    <3> QED
        BY <1>4, <3>1 DEF PoolsFit
  <2> QED
      BY <2>1, <2>2
<1> QED
    BY <1>1, <1>3, <1>6, <1>10, <1>17, <1>18, <1>19, <1>20, <1>21, <1>22

LEMMA ReturnDone ==
    ASSUME RelayTyped, NEW k \in DOMAIN sends, Return(k)
    PROVE  /\ RelayTyped' /\ UNCHANGED <<gossipVars, poolVars>>
           /\ \E stage \in Stages, r \in Sends :
                 /\ r.stage = stage /\ r.tx = sends[k].tx /\ Moves(k, r)
                 /\ \/ /\ sends[k].stage = "accepted" /\ stage = "done"
                       /\ localNonce' = sends[k].tx.nonce + 1
                    \/ /\ sends[k].stage = "refused" /\ stage = "failed"
                       /\ localNonce' = localNonce
PROOF
<1>1. PICK stage \in Stages :
          /\ sends' = [sends EXCEPT ![k].stage = stage]
          /\ \/ /\ sends[k].stage = "accepted" /\ stage = "done"
                /\ localNonce' = sends[k].tx.nonce + 1
             \/ /\ sends[k].stage = "refused" /\ stage = "failed"
                /\ localNonce' = localNonce
    BY DEF Return, Stages
<1>2. ClientTyped /\ UNCHANGED <<gossipVars, poolVars>>
    BY DEF RelayTyped, Return
<1>3. /\ sends' \in Seq(Sends) /\ sends[k].tx.nonce \in Nat
      /\ \E r \in Sends : r.stage = stage /\ r.tx = sends[k].tx /\ Moves(k, r)
    BY <1>1, <1>2, OneStage
<1>4. ClientTyped'
    BY <1>1, <1>2, <1>3 DEF ClientTyped
<1>5. RelayTyped'
    BY <1>2, <1>4, RelaySame, GossipSame, PoolsSame DEF RelayTyped, poolVars
<1> QED
    BY <1>1, <1>2, <1>3, <1>5

LEMMA LoseDone ==
    ASSUME RelayTyped, NEW k \in DOMAIN sends, LoseAnswer(k)
    PROVE  /\ RelayTyped' /\ UNCHANGED <<gossipVars, poolVars, localNonce>>
           /\ \E stage \in Stages, r \in Sends :
                 r.stage = stage /\ Moves(k, r) /\ stage \in {"adrift", "failed"}
PROOF
<1>1. PICK stage \in Stages :
          sends' = [sends EXCEPT ![k].stage = stage] /\ stage \in {"adrift", "failed"}
    BY DEF LoseAnswer, Stages
<1>2. ClientTyped /\ UNCHANGED <<gossipVars, poolVars, localNonce>>
    BY DEF RelayTyped, LoseAnswer
<1>3. /\ sends' \in Seq(Sends)
      /\ \E r \in Sends : r.stage = stage /\ r.tx = sends[k].tx /\ Moves(k, r)
    BY <1>1, <1>2, OneStage
<1>4. ClientTyped'
    BY <1>2, <1>3 DEF ClientTyped
<1>5. RelayTyped'
    BY <1>2, <1>4, RelaySame, GossipSame, PoolsSame DEF RelayTyped, poolVars
<1> QED
    BY <1>1, <1>2, <1>3, <1>5

LEMMA RewireTyped ==
    ASSUME RelayTyped, NEW n \in Nodes, NEW m \in Nodes, Connect(n, m) \/ Disconnect(n, m),
           UNCHANGED <<poolVars, clientVars>>
    PROVE  RelayTyped'
PROOF
<1>1. GossipTyped(TxBodies, TxNotes)'
    BY ConnectTyped, DisconnectTyped DEF RelayTyped
<1> QED
    BY <1>1, RelaySame, PoolsSame, ClientSame DEF RelayTyped, poolVars

LEMMA ForgettingTyped ==
    ASSUME RelayTyped, NEW n \in Nodes, NEW c, Forget(n, c), UNCHANGED <<poolVars, clientVars>>
    PROVE  RelayTyped'
PROOF
<1>1. GossipTyped(TxBodies, TxNotes)'
    BY ForgetTyped DEF RelayTyped
<1> QED
    BY <1>1, RelaySame, PoolsSame, ClientSame DEF RelayTyped, poolVars

LEMMA ForgetTxTyped ==
    ASSUME RelayTyped, NEW n \in Nodes, NEW tx, ForgetTx(n, tx)
    PROVE  RelayTyped'
PROOF
<1>1. seenTx' \in [Nodes -> SUBSET SignedTxs]
    BY DEF ForgetTx, RelayTyped
<1> QED
    BY <1>1, RelaySame, GossipSame, PoolsSame, ClientSame DEF RelayTyped, ForgetTx

(* The steps of RelaySpec, one by one: a property is kept when each of     *)
(* them keeps it.                                                          *)
LEMMA RelaySteps ==
    ASSUME [RelayNext]_relayVars
    PROVE  \/ \E n, m \in Nodes : /\ Connect(n, m) \/ Disconnect(n, m)
                                  /\ UNCHANGED <<poolVars, clientVars>>
           \/ \E n \in Nodes : \E c : Forget(n, c) /\ UNCHANGED <<poolVars, clientVars>>
           \/ \E n \in Nodes : \E tx : ForgetTx(n, tx)
           \/ \E k \in DOMAIN sends : LoseAnswer(k)
           \/ AskNonce
           \/ \E k \in DOMAIN sends : Sign(k)
           \/ \E k \in DOMAIN sends : Submit(k)
           \/ \E k \in DOMAIN sends : Return(k)
           \/ \E n \in Nodes : Search(n)
           \/ \E n \in Nodes : Slice(n)
           \/ \E m, n \in Nodes : Handle(m, n)
           \/ UNCHANGED <<gossipVars, poolVars, clientVars>>
PROOF
<1>1. CASE UNCHANGED relayVars
    BY <1>1 DEF relayVars, gossipVars, poolVars, clientVars
<1>2. CASE Fault
    BY <1>2 DEF Fault, LoseConnection
<1>3. CASE \/ Redial
           \/ ClientStep
           \/ \E n \in Nodes : Search(n) \/ Slice(n)
           \/ \E m, n \in Nodes : Handle(m, n)
    BY <1>3 DEF Redial, Reconnect, ClientStep
<1> QED
    BY <1>1, <1>2, <1>3 DEF RelayNext

LEMMA RelayStutters ==
    ASSUME RelayTyped, UNCHANGED <<gossipVars, poolVars, clientVars>>
    PROVE  RelayTyped'
PROOF
BY RelaySame, GossipSame, PoolsSame, ClientSame DEF RelayTyped, poolVars

LEMMA RelayTypedStep == RelayTyped /\ [RelayNext]_relayVars => RelayTyped'
PROOF
<1> SUFFICES ASSUME RelayTyped, [RelayNext]_relayVars
             PROVE  RelayTyped'
    OBVIOUS
<1>1. ASSUME NEW n \in Nodes, NEW m \in Nodes, Connect(n, m) \/ Disconnect(n, m),
             UNCHANGED <<poolVars, clientVars>>
      PROVE  RelayTyped'
    BY <1>1, RewireTyped
<1>2. ASSUME NEW n \in Nodes, NEW c, Forget(n, c), UNCHANGED <<poolVars, clientVars>>
      PROVE  RelayTyped'
    BY <1>2, ForgettingTyped
<1>3. ASSUME NEW n \in Nodes, NEW tx, ForgetTx(n, tx)
      PROVE  RelayTyped'
    BY <1>3, ForgetTxTyped
<1>4. ASSUME NEW k \in DOMAIN sends, LoseAnswer(k) \/ Sign(k) \/ Submit(k) \/ Return(k)
      PROVE  RelayTyped'
    BY <1>4, LoseDone, SignDone, SubmitDone, ReturnDone
<1>5. ASSUME AskNonce
      PROVE  RelayTyped'
    BY <1>5, AskDone
<1>6. ASSUME NEW n \in Nodes, Search(n) \/ Slice(n)
      PROVE  RelayTyped'
    BY <1>6, SearchTyped, SliceTyped
<1>7. ASSUME NEW m \in Nodes, NEW n \in Nodes, Handle(m, n)
      PROVE  RelayTyped'
    BY <1>7, HandleTyped
<1> QED
    BY <1>1, <1>2, <1>3, <1>4, <1>5, <1>6, <1>7, RelaySteps, RelayStutters

LEMMA PlantedFit ==
    ASSUME NEW n \in Nodes
    PROVE  PoolFit(Planted[n]) /\ Pooled(Planted[n]) \subseteq SignedTxs
PROOF
<1>1. PICK p \in [txs : Seq(SignedTxs), strikes : {<< >>}] : p = Planted[n]
    BY RelayAssumption
<1>2. /\ IsInjective(p.txs) /\ Len(p.txs) <= MAX_MEMPOOL_TXS
      /\ \A a \in Addr : Cardinality(PendingFor(p, a)) <= RUN_AHEAD
    BY <1>1, RelayAssumption
<1>3. DOMAIN p.strikes = {}
    OBVIOUS
<1>4. p = [txs |-> p.txs, strikes |-> p.strikes] /\ p.txs \in Seq(SignedTxs)
    OBVIOUS
<1>5. PoolFit(p)
    BY <1>2, <1>3, <1>4 DEF PoolFit
<1>6. Pooled(p) \subseteq SignedTxs
    BY <1>4, ToSetIs DEF Pooled
<1> QED
    BY <1>1, <1>5, <1>6

LEMMA RelayInitTyped == RelayInit => RelayTyped
PROOF
<1> SUFFICES ASSUME RelayInit
             PROVE  RelayTyped
    OBVIOUS
<1>1. GossipTyped(TxBodies, TxNotes)
    BY InitTyped, TxCarried DEF RelayInit
<1>2. PoolsFit
  <2>1. Planted = [n \in Nodes |-> Planted[n]]
      BY RelayAssumption
  <2> QED
      BY <2>1, PlantedFit DEF RelayInit, PoolsFit
<1>3. seenTx \in [Nodes -> SUBSET SignedTxs]
  <2>1. UNION {Pooled(Planted[m]) : m \in Nodes} \subseteq SignedTxs
      BY PlantedFit
  <2> QED
      BY <2>1 DEF RelayInit
<1>4. search \in [Nodes -> Searches]
    BY DEF RelayInit, Searches
<1>5. ClientTyped
    BY EmptySeq DEF RelayInit, ClientTyped
<1> QED
    BY <1>1, <1>2, <1>3, <1>4, <1>5 DEF RelayTyped

(* A network that carries transactions keeps the types, the limits of      *)
(* every node's pool among them: client.js, handleMessage and mineOnce may *)
(* take any steps they take.                                               *)
THEOREM RelayTypes == RelaySpec => []RelayTyped
PROOF
BY RelayInitTyped, RelayTypedStep, PTL DEF RelaySpec

-----------------------------------------------------------------------------
(* The network goes quiet with transactions on it                          *)

(* A step that only sends, with or without a message taken.                *)
LEMMA SendingMoves ==
    ASSUME NEW n \in Nodes, NEW m \in Nodes, NEW x, NEW before,
           RelayTyped, Speaks(n, before), UNCHANGED <<chain, open, shaken, seen>>,
           x.type \notin Asking \cup Telling,
           \A p \in Pairs : p # <<m, n>> => before[p] = net[p],
           \A y \in ToSet(net[<<m, n>>]) : y \in ToSet(before[<<m, n>>]) \/ y = x,
           \A p \in Pairs : ToSet(before[p]) \subseteq ToSet(net[p]),
           m # n => x = Head(net[<<m, n>>]) /\ x \in ToSet(net[<<m, n>>])
    PROVE  Moved(m, n, x)
PROOF
<1>1. \A y \in Nodes : Len(chain'[y]) >= Len(chain[y])
    BY LengthTypes DEF RelayTyped
<1>2. ASSUME NEW p \in Pairs, NEW y \in ToSet(net[p])
      PROVE  y \in ToSet(net'[p]) \/ (p = <<m, n>> /\ y = x)
  <2>1. ToSet(before[p]) \subseteq ToSet(net'[p])
      BY DEF Speaks, Extends
  <2> QED
      BY <1>2, <2>1
<1>3. Progress(m, n, x)
    BY <1>1, <1>2 DEF Progress
<1>4. Replaced(m, n, x)
    BY DEF Replaced, Asking, Telling
<1>5. ASSUME NEW p \in Pairs, NEW y \in ToSet(net'[p])
      PROVE  \/ y \in ToSet(net[p])
             \/ p[1] = n /\ (y.type \in Telling => y.chain = chain'[n])
    BY <1>5 DEF Speaks
<1>6. ASSUME NEW p \in Pairs, p # <<m, n>>, net[p] # << >>
      PROVE  net'[p] # << >> /\ Head(net'[p]) = Head(net[p])
    BY <1>6 DEF Speaks, Extends
<1>7. x.type # "HELLO"
    BY DEF Asking
<1> QED
    BY <1>3, <1>4, <1>5, <1>6, <1>7 DEF Moved

RelayInv == RelayTyped /\ Expectations

LEMMA RewiredRelay ==
    ASSUME RelayTyped, RelayTyped', Rewired, Expectations
    PROVE  Expectations'
PROOF
BY RewiredKeeps DEF RelayTyped, Expectations

LEMMA SameGossip ==
    ASSUME RelayTyped, RelayTyped', Expectations, UNCHANGED gossipVars
    PROVE  Expectations'
PROOF
<1>1. Rewired
    BY DEF Rewired, gossipVars
<1> QED
    BY <1>1, RewiredRelay

LEMMA MovedRelay ==
    ASSUME RelayTyped, RelayTyped', Expectations,
           NEW m \in Nodes, NEW n \in Nodes, NEW x, Moved(m, n, x),
           x.type \in Telling => x.chain \in Chains(TxBodies),
           m # n => {n, m} \in open
    PROVE  Expectations'
PROOF
BY MovedKeeps, TxCarried DEF RelayTyped

LEMMA HandleMoves ==
    ASSUME OneDifficulty, RelayTyped, NEW m \in Nodes, NEW n \in Nodes, Handle(m, n)
    PROVE  \E x : /\ Moved(m, n, x) /\ {n, m} \in open
                  /\ x.type \in Telling => x.chain \in Chains(TxBodies)
PROOF
<1>1. PICK x : x = Head(net[<<m, n>>])
    OBVIOUS
<1>2. net[<<m, n>>] # << >> /\ GossipTyped(TxBodies, TxNotes)
    BY <1>1, HandleIs DEF RelayTyped
<1>3. {n, m} \in open
    BY <1>2, TypedNet, TakenTyped
<1>4. CASE x.type = "NEW_TX" /\ x.tx \in SignedTxs /\ HandleTx(n, m, x.tx)
  <2>1. Speaks(n, Taken(m, n)) /\ UNCHANGED <<chain, open, shaken, seen>>
      BY <1>2, <1>4, HandleTxDone
  <2>2. PICK before : before = Taken(m, n)
      OBVIOUS
  <2>3. PICK M : M = Messages(TxBodies, TxNotes)
      OBVIOUS
  <2>4. net \in Queues(M)
      BY <1>2, <2>3, TypedNet DEF NetTyped
  <2>5. /\ \A p \in Pairs : p # <<m, n>> => before[p] = net[p]
        /\ ToSet(net[<<m, n>>]) = {x} \cup ToSet(before[<<m, n>>])
      BY <1>1, <1>2, <2>2, <2>4, TakenIs
  <2>6. x.type \notin Asking \cup Telling
      BY <1>4 DEF Asking, Telling
  <2>7. Speaks(n, before)
      BY <2>1, <2>2
  <2>8. \A p \in Pairs : ToSet(before[p]) \subseteq ToSet(net[p])
      BY <2>5
  <2>9. Moved(m, n, x)
      BY <1>1, <2>1, <2>5, <2>6, <2>7, <2>8, SendingMoves
  <2> QED
      BY <1>3, <2>6, <2>9
<1>5. CASE Deliver(m, n, relayMempool(n))
    BY <1>1, <1>2, <1>3, <1>5, DeliverMoves, RelayMessages, TxCarried
<1> QED
    BY <1>1, <1>4, <1>5, HandleIs

LEMMA SubmitMoves ==
    ASSUME RelayTyped, NEW k \in DOMAIN sends, Submit(k)
    PROVE  \E x : Moved(Home, Home, x) /\ x.type \notin Telling
PROOF
<1>1. PICK x : x = [type |-> "NONE"]
    OBVIOUS
<1>2. x.type \notin Asking \cup Telling
    BY <1>1 DEF Asking, Telling
<1>3. Speaks(Home, net) /\ UNCHANGED <<chain, open, shaken, seen>>
    BY SubmitDone
<1>4. PICK before : before = net
    OBVIOUS
<1>5. Moved(Home, Home, x)
    BY <1>2, <1>3, <1>4, RelayAssumption, SendingMoves
<1> QED
    BY <1>2, <1>5

LEMMA SliceMoves ==
    ASSUME RelayTyped, NEW n \in Nodes, Slice(n)
    PROVE  \/ UNCHANGED gossipVars
           \/ \E x : Moved(n, n, x) /\ x.type \notin Telling
PROOF
<1>1. PICK x : x = [type |-> "NONE"]
    OBVIOUS
<1>2. x.type \notin Asking \cup Telling
    BY <1>1 DEF Asking, Telling
<1>3. PICK body \in TxBodies : body = search[n][2]
    BY SearchIs DEF Slice
<1>4. ASSUME NEW clock \in Clocks, Mine(n, clock, body)
      PROVE  Moved(n, n, x)
    BY <1>2, <1>4, MineMoves, TxCarried DEF RelayTyped
<1> QED
    BY <1>2, <1>3, <1>4 DEF Slice

LEMMA RelayInvStep ==
    ASSUME OneDifficulty
    PROVE  RelayInv /\ [RelayNext]_relayVars => RelayInv'
PROOF
<1> SUFFICES ASSUME RelayTyped, Expectations, [RelayNext]_relayVars
             PROVE  RelayTyped' /\ Expectations'
    BY DEF RelayInv
<1>1. RelayTyped'
    BY RelayTypedStep
<1>2. ASSUME NEW n \in Nodes, NEW m \in Nodes, Connect(n, m) \/ Disconnect(n, m)
      PROVE  Expectations'
  <2>1. Rewired
      BY <1>2, ConnectRewires, DisconnectRewires DEF RelayTyped
  <2> QED
      BY <1>1, <2>1, RewiredRelay
<1>3. ASSUME NEW n \in Nodes, NEW c, Forget(n, c)
      PROVE  Expectations'
  <2>1. Rewired
      BY <1>3 DEF Forget, Rewired, RelayTyped, GossipTyped
  <2> QED
      BY <1>1, <2>1, RewiredRelay
<1>4. ASSUME UNCHANGED gossipVars
      PROVE  Expectations'
    BY <1>1, <1>4, SameGossip
<1>5. ASSUME NEW k \in DOMAIN sends, LoseAnswer(k) \/ Sign(k) \/ Return(k)
      PROVE  UNCHANGED gossipVars
    BY <1>5, LoseDone, SignDone, ReturnDone
<1>6. ASSUME NEW k \in DOMAIN sends, Submit(k)
      PROVE  Expectations'
    BY <1>1, <1>6, SubmitMoves, MovedRelay, RelayAssumption
<1>7. ASSUME NEW n \in Nodes, Slice(n)
      PROVE  Expectations'
    BY <1>1, <1>4, <1>7, SliceMoves, MovedRelay
<1>8. ASSUME NEW m \in Nodes, NEW n \in Nodes, Handle(m, n)
      PROVE  Expectations'
    BY <1>1, <1>8, HandleMoves, MovedRelay
<1>9. ASSUME NEW n \in Nodes, Search(n)
      PROVE  UNCHANGED gossipVars
    BY <1>9 DEF Search
<1>10. ASSUME NEW n \in Nodes, NEW tx, ForgetTx(n, tx)
       PROVE  UNCHANGED gossipVars
    BY <1>10 DEF ForgetTx
<1>11. AskNonce => UNCHANGED gossipVars
    BY AskDone
<1>12. Expectations'
    BY <1>2, <1>3, <1>4, <1>5, <1>6, <1>7, <1>8, <1>9, <1>10, <1>11, RelaySteps
<1> QED
    BY <1>1, <1>12

(* What a node may count on to get the blocks it lacks it may count on     *)
(* with transactions on the same connections, mempools relayed after every *)
(* greeting and bodies in the blocks too.                                  *)
THEOREM RelayForgetsNothing ==
    ASSUME OneDifficulty
    PROVE  RelaySpec => []RelayInv
PROOF
<1>1. RelayInit => RelayInv
    BY RelayInitTyped, InitExpectations DEF RelayInv, RelayInit
<1> QED
    BY <1>1, RelayInvStep, PTL DEF RelaySpec

(* So here too the nodes of a quiet network are on chains of equal work,   *)
(* whatever was paid, reorganised or lost before.                          *)
THEOREM RelayAgreement ==
    ASSUME OneDifficulty, Connected
    PROVE  RelaySpec => []QuietNodesAgree
PROOF
<1>1. RelayInv => QuietNodesAgree
    BY QuietWork DEF RelayInv, RelayTyped
<1> QED
    BY <1>1, RelayForgetsNothing, PTL

-----------------------------------------------------------------------------
(* The nonces a client uses                                                *)

(* At most one send is under way; what was acknowledged is behind the next *)
(* nonce, and what is signed, on its way or answered has exactly that one. *)
SendsInOrder ==
    /\ \A i, j \in UnderWay : i = j
    /\ \A i \in DOMAIN sends : sends[i].stage = "done" => sends[i].tx.nonce < localNonce
    /\ \A i \in DOMAIN sends :
          sends[i].stage \in {"signed", "accepted", "refused"} => sends[i].tx.nonce = localNonce
    /\ AcknowledgedOnce

OrderInv == RelayTyped /\ SendsInOrder

LEMMA SendTypes ==
    ASSUME RelayTyped
    PROVE  /\ localNonce \in Nat
           /\ \A i \in DOMAIN sends : sends[i] \in Sends /\ sends[i].tx.nonce \in Nat
PROOF
<1>1. \A i \in DOMAIN sends : sends[i] \in Sends
    BY DEF RelayTyped, ClientTyped
<1>2. \A r \in Sends : r.tx.nonce \in Nat
    BY DEF Sends, SignedTxs
<1> QED
    BY <1>1, <1>2 DEF RelayTyped, ClientTyped

LEMMA OrderSame ==
    ASSUME SendsInOrder, UNCHANGED <<sends, localNonce>>
    PROVE  SendsInOrder'
PROOF
BY DEF SendsInOrder, UnderWay, AcknowledgedOnce

(* A send under way that is then something else, done excepted.            *)
LEMMA OrderMoved ==
    ASSUME RelayTyped, SendsInOrder, NEW k \in UnderWay, NEW r \in Sends, Moves(k, r),
           localNonce' \in Nat, localNonce' >= localNonce, r.stage # "done",
           r.stage \in {"signed", "accepted", "refused"} => r.tx.nonce = localNonce',
           \A i \in DOMAIN sends : i # k /\ i \in UnderWay => FALSE
    PROVE  SendsInOrder'
PROOF
<1>1. k \in DOMAIN sends /\ DOMAIN sends' = DOMAIN sends /\ sends'[k] = r
      /\ \A i \in DOMAIN sends : i # k => sends'[i] = sends[i]
    BY DEF Moves, UnderWay
<1>2. \A i \in UnderWay' : i = k
    BY <1>1 DEF UnderWay
<1>3. ASSUME NEW i \in DOMAIN sends', sends'[i].stage = "done"
      PROVE  i \in DOMAIN sends /\ sends'[i] = sends[i] /\ sends[i].tx.nonce < localNonce
    BY <1>1, <1>3 DEF SendsInOrder
<1>4. ASSUME NEW i \in DOMAIN sends', sends'[i].stage = "done"
      PROVE  sends'[i].tx.nonce < localNonce'
  <2>1. sends[i].tx.nonce \in Nat /\ localNonce \in Nat
      BY <1>3, <1>4, SendTypes
  <2> QED
      BY <1>3, <1>4, <2>1
<1>5. ASSUME NEW i \in DOMAIN sends', sends'[i].stage \in {"signed", "accepted", "refused"}
      PROVE  sends'[i].tx.nonce = localNonce'
  <2>1. i \in UnderWay'
      BY <1>5 DEF UnderWay
  <2> QED
      BY <1>1, <1>2, <1>5, <2>1
<1>6. AcknowledgedOnce'
    BY <1>3 DEF AcknowledgedOnce, SendsInOrder
<1> QED
    BY <1>2, <1>4, <1>5, <1>6 DEF SendsInOrder

LEMMA AskOrder ==
    ASSUME OVERLAP = 1, RelayTyped, SendsInOrder, AskNonce
    PROVE  SendsInOrder'
PROOF
<1>1. PICK r \in Sends : sends' = Append(sends, r) /\ r.stage = "asked"
    BY AskDone
<1>2. localNonce' = localNonce
    BY AskDone
<1>3. PICK k \in Nat : k = Len(sends) /\ DOMAIN sends = 1..k
    BY LenProperties DEF RelayTyped, ClientTyped
<1>4. UnderWay = {}
  <2>1. IsFiniteSet(1..k)
      BY FS_Interval
  <2>2. UnderWay \subseteq 1..k
      BY <1>3 DEF UnderWay
  <2>3. IsFiniteSet(UnderWay)
      BY <2>1, <2>2, FS_Subset
  <2>4. Cardinality(UnderWay) < 1
      BY DEF AskNonce
  <2>5. Cardinality(UnderWay) = 0
      BY <2>3, <2>4, FS_CardinalityType
  <2> QED
      BY <2>3, <2>5, FS_EmptySet
<1>5. /\ DOMAIN sends' = 1..(k + 1) /\ sends'[k + 1] = r
      /\ \A i \in 1..k : sends'[i] = sends[i]
  <2>1. PICK s \in Seq(Sends) : s = sends
      BY DEF RelayTyped, ClientTyped
  <2> QED
      BY <1>1, <1>3, <2>1, AppendProperties, LenProperties
<1>6. ASSUME NEW i \in DOMAIN sends', sends'[i].stage # "asked"
      PROVE  i \in DOMAIN sends /\ sends'[i] = sends[i]
  <2>1. i # k + 1
      BY <1>1, <1>5, <1>6
  <2> QED
      BY <1>3, <1>5, <2>1
<1>7. \A i \in UnderWay' : i = k + 1
  <2>1. ASSUME NEW i \in UnderWay', i # k + 1
        PROVE  FALSE
    <3>1. i \in 1..k /\ sends'[i] = sends[i]
        BY <1>5, <2>1 DEF UnderWay
    <3> QED
        BY <1>3, <1>4, <3>1 DEF UnderWay
  <2> QED
      BY <2>1
<1>8. AcknowledgedOnce'
    BY <1>6 DEF AcknowledgedOnce, SendsInOrder
<1> QED
    BY <1>2, <1>6, <1>7, <1>8 DEF SendsInOrder

LEMMA SignOrder ==
    ASSUME RelayTyped, SendsInOrder, NEW k \in DOMAIN sends, Sign(k)
    PROVE  SendsInOrder'
PROOF
<1>1. /\ RelayTyped' /\ sends[k].stage = "asked" /\ localNonce' >= localNonce
    BY SignDone
<1>2. PICK r \in Sends : r.stage = "signed" /\ r.tx.nonce = localNonce' /\ Moves(k, r)
    BY SignDone
<1>3. k \in UnderWay /\ localNonce' \in Nat
    BY <1>1 DEF UnderWay, RelayTyped, ClientTyped
<1>4. \A i \in DOMAIN sends : i # k /\ i \in UnderWay => FALSE
    BY <1>3 DEF SendsInOrder
<1> QED
    BY <1>1, <1>2, <1>3, <1>4, OrderMoved

(* A stray request only ends what was given up before.                     *)
LEMMA StrayOrder ==
    ASSUME SendsInOrder, NEW k \in DOMAIN sends, NEW r \in Sends, Moves(k, r),
           sends[k].stage = "adrift", r.stage = "failed", localNonce' = localNonce
    PROVE  SendsInOrder'
PROOF
<1>1. DOMAIN sends' = DOMAIN sends /\ sends'[k] = r
      /\ \A i \in DOMAIN sends : i # k => sends'[i] = sends[i]
    BY DEF Moves
<1>2. ASSUME NEW i \in DOMAIN sends', sends'[i].stage # "failed"
      PROVE  i \in DOMAIN sends /\ sends'[i] = sends[i]
    BY <1>1, <1>2
<1>3. UnderWay' \subseteq UnderWay
    BY <1>2 DEF UnderWay
<1>4. AcknowledgedOnce'
    BY <1>2 DEF AcknowledgedOnce, SendsInOrder
<1>5. \A i \in DOMAIN sends' :
          sends'[i].stage \in {"signed", "accepted", "refused"} => sends'[i].tx.nonce = localNonce
    BY <1>2 DEF SendsInOrder
<1>6. \A i \in DOMAIN sends' : sends'[i].stage = "done" => sends'[i].tx.nonce < localNonce
    BY <1>2 DEF SendsInOrder
<1> QED
    BY <1>3, <1>4, <1>5, <1>6 DEF SendsInOrder

LEMMA SubmitOrder ==
    ASSUME RelayTyped, SendsInOrder, NEW k \in DOMAIN sends, Submit(k)
    PROVE  SendsInOrder'
PROOF
<1>1. RelayTyped' /\ localNonce' = localNonce
    BY SubmitDone
<1>2. PICK r \in Sends :
          /\ r.tx = sends[k].tx /\ Moves(k, r)
          /\ \/ sends[k].stage = "signed" /\ r.stage \in {"accepted", "refused"}
             \/ sends[k].stage = "adrift" /\ r.stage = "failed"
    BY SubmitDone
<1>3. CASE sends[k].stage = "adrift" /\ r.stage = "failed"
    BY <1>1, <1>2, <1>3, StrayOrder
<1>4. CASE sends[k].stage = "signed" /\ r.stage \in {"accepted", "refused"}
  <2>1. k \in UnderWay /\ sends[k].tx.nonce = localNonce
      BY <1>4 DEF UnderWay, SendsInOrder
  <2>2. \A i \in DOMAIN sends : i # k /\ i \in UnderWay => FALSE
      BY <2>1 DEF SendsInOrder
  <2>3. localNonce \in Nat
      BY SendTypes
  <2>4. r.tx.nonce = localNonce' /\ localNonce' >= localNonce /\ localNonce' \in Nat
      BY <1>1, <1>2, <2>1, <2>3
  <2> QED
      BY <1>2, <1>4, <2>1, <2>2, <2>4, OrderMoved
<1> QED
    BY <1>2, <1>3, <1>4

(* The acknowledged nonce is the one all signed sends had, and the earlier *)
(* ones are below it: no two are equal, and the next one is above them.    *)
LEMMA ReturnOrder ==
    ASSUME RelayTyped, SendsInOrder, NEW k \in DOMAIN sends, Return(k)
    PROVE  SendsInOrder'
PROOF
<1>1. RelayTyped'
    BY ReturnDone
<1>2. PICK r \in Sends :
          /\ r.tx = sends[k].tx /\ Moves(k, r)
          /\ \/ /\ sends[k].stage = "accepted" /\ r.stage = "done"
                /\ localNonce' = sends[k].tx.nonce + 1
             \/ /\ sends[k].stage = "refused" /\ r.stage = "failed"
                /\ localNonce' = localNonce
    BY ReturnDone
<1>3. k \in UnderWay
    BY <1>2 DEF UnderWay
<1>4. \A i \in DOMAIN sends : i # k /\ i \in UnderWay => FALSE
    BY <1>3 DEF SendsInOrder
<1>5. PICK next \in Nat : next = localNonce
    BY SendTypes
<1>6. sends[k].tx.nonce = next
    BY <1>2, <1>5 DEF SendsInOrder
<1>7. CASE r.stage = "failed" /\ localNonce' = localNonce
    BY <1>2, <1>3, <1>4, <1>5, <1>7, OrderMoved
<1>8. CASE r.stage = "done" /\ localNonce' = next + 1
  <2>1. DOMAIN sends' = DOMAIN sends /\ sends'[k] = r /\ r.tx.nonce = next
        /\ \A i \in DOMAIN sends : i # k => sends'[i] = sends[i]
      BY <1>2, <1>6 DEF Moves
  <2>2. UnderWay' = {}
      BY <1>4, <1>8, <2>1 DEF UnderWay
  <2>3. ASSUME NEW i \in DOMAIN sends', i # k, sends'[i].stage = "done"
        PROVE  sends'[i].tx.nonce \in Nat /\ sends'[i].tx.nonce < next
    <3>1. i \in DOMAIN sends /\ sends'[i] = sends[i]
        BY <2>1, <2>3
    <3> QED
        BY <1>5, <2>3, <3>1, SendTypes DEF SendsInOrder
  <2>4. ASSUME NEW i \in DOMAIN sends', sends'[i].stage = "done"
        PROVE  sends'[i].tx.nonce < next + 1
      BY <2>1, <2>3, <2>4
  <2>5. ASSUME NEW i \in DOMAIN sends', sends'[i].stage \in {"signed", "accepted", "refused"}
        PROVE  FALSE
      BY <2>2, <2>5 DEF UnderWay
  <2>6. ASSUME NEW i \in DOMAIN sends', NEW j \in DOMAIN sends', i # j,
               sends'[i].stage = "done", sends'[j].stage = "done"
        PROVE  sends'[i].tx.nonce # sends'[j].tx.nonce
    <3>1. CASE i = k
        BY <2>1, <2>3, <2>6, <3>1
    <3>2. CASE j = k
        BY <2>1, <2>3, <2>6, <3>2
    <3>3. CASE i # k /\ j # k
      <4>1. /\ i \in DOMAIN sends /\ sends'[i] = sends[i]
            /\ j \in DOMAIN sends /\ sends'[j] = sends[j]
          BY <2>1, <3>3
      <4> QED
          BY <2>6, <4>1 DEF SendsInOrder, AcknowledgedOnce
    <3> QED
        BY <3>1, <3>2, <3>3
  <2>7. AcknowledgedOnce'
      BY <2>6 DEF AcknowledgedOnce
  <2> QED
      BY <1>8, <2>2, <2>4, <2>5, <2>7 DEF SendsInOrder
<1> QED
    BY <1>2, <1>5, <1>6, <1>7, <1>8

LEMMA LoseOrder ==
    ASSUME RelayTyped, SendsInOrder, NEW k \in DOMAIN sends, LoseAnswer(k)
    PROVE  SendsInOrder'
PROOF
<1>1. RelayTyped' /\ localNonce' = localNonce /\ localNonce \in Nat
    BY LoseDone, SendTypes
<1>2. PICK r \in Sends : Moves(k, r) /\ r.stage \in {"adrift", "failed"}
    BY LoseDone
<1>3. k \in UnderWay
    BY DEF LoseAnswer
<1>4. \A i \in DOMAIN sends : i # k /\ i \in UnderWay => FALSE
    BY <1>3 DEF SendsInOrder
<1> QED
    BY <1>1, <1>2, <1>3, <1>4, OrderMoved

LEMMA OrderInvStep ==
    ASSUME OVERLAP = 1
    PROVE  OrderInv /\ [RelayNext]_relayVars => OrderInv'
PROOF
<1> SUFFICES ASSUME RelayTyped, SendsInOrder, [RelayNext]_relayVars
             PROVE  RelayTyped' /\ SendsInOrder'
    BY DEF OrderInv
<1>1. ASSUME UNCHANGED clientVars
      PROVE  SendsInOrder'
    BY <1>1, OrderSame DEF clientVars
<1>2. ASSUME NEW k \in DOMAIN sends, LoseAnswer(k) \/ Sign(k) \/ Submit(k) \/ Return(k)
      PROVE  SendsInOrder'
    BY <1>2, LoseOrder, SignOrder, SubmitOrder, ReturnOrder
<1>3. ASSUME NEW n \in Nodes, Search(n) \/ Slice(n)
      PROVE  UNCHANGED clientVars
    BY <1>3 DEF Search, Slice
<1>4. ASSUME NEW m \in Nodes, NEW n \in Nodes, Handle(m, n)
      PROVE  UNCHANGED clientVars
  <2>1. PICK x : x = Head(net[<<m, n>>])
      OBVIOUS
  <2>2. net[<<m, n>>] # << >>
      BY <1>4, <2>1, HandleIs
  <2>3. CASE x.tx \in SignedTxs /\ HandleTx(n, m, x.tx)
      BY <2>2, <2>3, HandleTxDone
  <2> QED
      BY <1>4, <2>1, <2>3, HandleIs
<1>5. ASSUME NEW n \in Nodes, NEW tx, ForgetTx(n, tx)
      PROVE  UNCHANGED clientVars
    BY <1>5 DEF ForgetTx
<1>6. SendsInOrder'
    BY <1>1, <1>2, <1>3, <1>4, <1>5, AskOrder, RelaySteps
<1> QED
    BY <1>6, RelayTypedStep

(* A client that waits for each answer before its next send never has two  *)
(* acknowledged sends with one nonce, whatever else is lost: an answer of  *)
(* the node that lags behind its own sends, a request given up that still  *)
(* arrives, a reorganisation that takes its payments back.                 *)
THEOREM ClientKeepsNonces ==
    ASSUME OVERLAP = 1
    PROVE  RelaySpec => []AcknowledgedOnce
PROOF
<1>1. RelayInit => OrderInv
  <2>1. RelayInit => DOMAIN sends = {}
      BY DEF RelayInit
  <2> QED
      BY <2>1, RelayInitTyped DEF OrderInv, SendsInOrder, UnderWay, AcknowledgedOnce
<1>2. OrderInv => AcknowledgedOnce
    BY DEF OrderInv, SendsInOrder
<1> QED
    BY <1>1, <1>2, OrderInvStep, PTL DEF RelaySpec

-----------------------------------------------------------------------------
(* What is mined anywhere                                                  *)

(* Every block's body applies after the chain before it.                   *)
Replays(c) == \A i \in 2..Len(c) : ApplyAll(accounts(SubSeq(c, 1, i - 1)), c[i].txs).ok

LEMMA ReplaysAlone == Replays(<<genesisBlock>>)
PROOF
BY DEF Replays

LEMMA ReplaysAppend ==
    ASSUME NEW c \in ChainSet, NEW b \in BlockSet
    PROVE  Replays(Append(c, b)) <=> Replays(c) /\ ApplyAll(accounts(c), b.txs).ok
PROOF
<1>1. PICK d : d = Append(c, b)
    OBVIOUS
<1>2. c \in Seq(BlockSet) /\ c # << >>
    BY DEF ChainSet
<1>3. PICK k \in Nat : k = Len(c) /\ k > 0
    BY <1>2, LenProperties, EmptySeq
<1>4. /\ d \in Seq(BlockSet) /\ Len(d) = k + 1 /\ d[k + 1] = b
      /\ \A i \in 1..k : d[i] = c[i]
    BY <1>1, <1>2, <1>3, AppendProperties, LenProperties
<1>5. ASSUME NEW j \in 1..k
      PROVE  SubSeq(d, 1, j) = SubSeq(c, 1, j)
  <2>1. \A i \in 1..j : d[i] \in BlockSet /\ c[i] \in BlockSet
      BY <1>2, <1>3, <1>4, <1>5, ElementOfSeq
  <2>2. /\ SubSeq(d, 1, j) = [i \in 1..j |-> d[i]]
        /\ SubSeq(c, 1, j) = [i \in 1..j |-> c[i]]
      BY <1>2, <1>3, <1>4, <1>5
  <2>3. \A i \in 1..j : d[i] = c[i]
      BY <1>4, <1>5
  <2> QED
      BY <2>2, <2>3
<1>6. SubSeq(c, 1, k) = c
    BY <1>2, <1>3
<1>7. \A i \in 2..k : /\ SubSeq(d, 1, i - 1) = SubSeq(c, 1, i - 1)
                      /\ d[i].txs = c[i].txs
  <2>1. \A i \in 2..k : i - 1 \in 1..k /\ i \in 1..k
      OBVIOUS
  <2> QED
      BY <1>4, <1>5, <2>1
<1>8. SubSeq(d, 1, (k + 1) - 1) = c
    BY <1>3, <1>5, <1>6
<1>9. 2..(k + 1) = (2..k) \cup {k + 1}
    BY <1>3
<1> QED
    BY <1>1, <1>3, <1>4, <1>7, <1>8, <1>9 DEF Replays

(* A chain that replays uses every sender's nonces once and in order.      *)
LEMMA ReplayOrder ==
    ASSUME NEW c \in ChainSet, Head(c) = genesisBlock, Replays(c)
    PROVE  ChainOrder(c, accounts(c).nonce)
PROOF
<1> DEFINE Good == {d \in ChainSet : Head(d) = genesisBlock /\ Replays(d)
                                         => ChainOrder(d, accounts(d).nonce)}
<1>1. ASSUME NEW b \in BlockSet
      PROVE  <<b>> \in Good
  <2>1. <<b>> \in ChainSet /\ Head(<<b>>) = b
      BY DEF ChainSet
  <2>2. ChainOrder(<<genesisBlock>>, accounts(<<genesisBlock>>).nonce)
    <3>1. DOMAIN <<genesisBlock>> = {1} /\ <<genesisBlock>>[1] = genesisBlock
        OBVIOUS
    <3>2. DOMAIN genesisBlock.txs = {}
        BY DEF genesisBlock
    <3>3. accounts(<<genesisBlock>>).nonce = [a \in Addr |-> 0]
        BY AccountsAlone DEF genesisState
    <3>4. {} = 0..(0 - 1)
        OBVIOUS
    <3> QED
        BY <3>1, <3>2, <3>3, <3>4, TxsOfAlone, NoncesOfUnion DEF ChainOrder
  <2> QED
      BY <2>1, <2>2
<1>2. ASSUME NEW d \in ChainSet, NEW b \in BlockSet, d \in Good,
             Head(Append(d, b)) = genesisBlock, Replays(Append(d, b))
      PROVE  ChainOrder(Append(d, b), accounts(Append(d, b)).nonce)
  <2>1. PICK s \in TypeOfState : s = accounts(d)
      BY AccountsType
  <2>2. PICK a : a = ApplyAll(s, b.txs)
      OBVIOUS
  <2>3. a \in Outcome /\ a.ok /\ Replays(d) /\ Head(d) = genesisBlock
      BY <1>2, <2>1, <2>2, ReplaysAppend, HeadOfAppend, BlockTxs, ApplyAllType
  <2>4. accounts(Append(d, b)).nonce = a.state.nonce
      BY <2>1, <2>2, AccountsAppend, ApplyBlockIs
  <2>5. BodyOrder(b.txs, s.nonce, a.state.nonce)
      BY <2>2, <2>3, BlockTxs, ApplyOrder
  <2>6. s.nonce \in [Addr -> Nat] /\ a.state.nonce \in [Addr -> Nat]
      BY <2>3 DEF Outcome, TypeOfState
  <2>7. ChainOrder(d, s.nonce) /\ d \in Seq(BlockSet)
      BY <1>2, <2>1, <2>3 DEF ChainSet
  <2> QED
      BY <2>4, <2>5, <2>6, <2>7, ChainOrderAppend
<1>3. ASSUME NEW d \in ChainSet, NEW b \in BlockSet, d \in Good
      PROVE  Append(d, b) \in Good
    BY <1>2, <1>3, HeadOfAppend
<1> HIDE DEF Good
<1>4. ChainSet \subseteq Good
    BY <1>1, <1>3, ChainInduction
<1> QED
    BY <1>4 DEF Good

(* Chains that replay are all there is: held, told to others, or in a      *)
(* search, which has a body that applies.                                  *)
ChainsReplay ==
    /\ \A n \in Nodes : Replays(chain[n])
    /\ \A p \in Pairs : \A x \in ToSet(net[p]) : x.type \in Telling => Replays(x.chain)
    /\ \A n \in Nodes : search[n] # << >> => ApplyAll(accounts(search[n][1]), search[n][2]).ok

(* No pooled transaction has a nonce that its node's chain has used.       *)
PoolsAhead ==
    \A n \in Nodes : \A tx \in Pooled(pool[n]) : accountsOf(n).nonce[tx.from] <= tx.nonce

MinedInv == RelayTyped /\ ChainsReplay /\ PoolsAhead

LEMMA ReplayParts ==
    ASSUME ChainsReplay
    PROVE  /\ \A n \in Nodes : Replays(chain[n])
           /\ \A p \in Pairs : \A x \in ToSet(net[p]) : x.type \in Telling => Replays(x.chain)
           /\ \A n \in Nodes :
                 search[n] # << >> => ApplyAll(accounts(search[n][1]), search[n][2]).ok
PROOF
BY DEF ChainsReplay

(* A step of n: what it tells afterwards is its own chain.                 *)
LEMMA ReplaysKept ==
    ASSUME ChainsReplay, NEW n \in Nodes, NEW before, Speaks(n, before),
           \A p \in Pairs : ToSet(before[p]) \subseteq ToSet(net[p]),
           Replays(chain'[n]), search' = search \/ search' = [search EXCEPT ![n] = << >>],
           RelayTyped
    PROVE  ChainsReplay'
PROOF
<1>1. \A y \in Nodes : Replays(chain'[y])
  <2>1. \A y \in Nodes : y # n => chain'[y] = chain[y]
      BY DEF Speaks
  <2> QED
      BY <2>1, ReplayParts
<1>2. ASSUME NEW p \in Pairs, NEW x \in ToSet(net'[p]), x.type \in Telling
      PROVE  Replays(x.chain)
  <2>1. x \in ToSet(before[p]) \/ x.chain = chain'[n]
      BY <1>2 DEF Speaks
  <2> QED
      BY <1>2, <2>1, ReplayParts
<1>3. ASSUME NEW y \in Nodes, search'[y] # << >>
      PROVE  search'[y] = search[y]
    BY <1>3 DEF RelayTyped
<1>4. \A y \in Nodes : search'[y] # << >> => ApplyAll(accounts(search'[y][1]), search'[y][2]).ok
    BY <1>3, ReplayParts
<1> QED
    BY <1>1, <1>2, <1>4 DEF ChainsReplay

LEMMA ReplaysSame ==
    ASSUME ChainsReplay, chain' = chain, search' = search,
           \A p \in Pairs : \A x \in ToSet(net'[p]) : x \in ToSet(net[p]) \/ x.type \notin Telling
    PROVE  ChainsReplay'
PROOF
<1>1. ASSUME NEW p \in Pairs, NEW x \in ToSet(net'[p]), x.type \in Telling
      PROVE  Replays(x.chain)
    BY <1>1, ReplayParts
<1>2. \A n \in Nodes : Replays(chain'[n])
    BY ReplayParts
<1>3. \A n \in Nodes :
          search'[n] # << >> => ApplyAll(accounts(search'[n][1]), search'[n][2]).ok
    BY ReplayParts
<1> QED
    BY <1>1, <1>2, <1>3 DEF ChainsReplay

LEMMA AheadKept ==
    ASSUME PoolsAhead, NEW n \in Nodes,
           \A y \in Nodes : y # n => chain'[y] = chain[y] /\ pool'[y] = pool[y],
           \A tx \in Pooled(pool'[n]) : accounts(chain'[n]).nonce[tx.from] <= tx.nonce
    PROVE  PoolsAhead'
PROOF
<1>1. ASSUME NEW y \in Nodes, y # n, NEW tx \in Pooled(pool'[y])
      PROVE  accounts(chain'[y]).nonce[tx.from] <= tx.nonce
    BY <1>1 DEF PoolsAhead, accountsOf
<1> QED
    BY <1>1 DEF PoolsAhead, accountsOf

LEMMA AheadSame ==
    ASSUME PoolsAhead, chain' = chain, \A n \in Nodes : Pooled(pool'[n]) \subseteq Pooled(pool[n])
    PROVE  PoolsAhead'
PROOF
BY DEF PoolsAhead, accountsOf

(* The pool of n when its chain has, or has not, changed.                  *)
LEMMA FollowedAhead ==
    ASSUME RelayTyped, PoolsAhead, GossipTyped(TxBodies, TxNotes)',
           NEW n \in Nodes, PoolFollows(n), \A y \in Nodes : y # n => chain'[y] = chain[y]
    PROVE  PoolsAhead'
PROOF
<1>1. PICK c \in ChainSet : c = chain'[n]
  <2>1. chain'[n] \in Chains(TxBodies)
      BY DEF GossipTyped
  <2> QED
      BY <2>1, ChainsAreChains
<1>2. PICK s \in TypeOfState : s = accounts(c)
    BY AccountsType
<1>3. /\ \A y \in Nodes : y # n => pool'[y] = pool[y]
      /\ PoolFit(pool'[n])
      /\ c = chain[n] => pool'[n] = pool[n]
      /\ c # chain[n] => \A tx \in Pooled(pool'[n]) : ~ Outdated(tx, s, Now)
    BY <1>1, <1>2, PoolFollowsIs DEF PoolsFit
<1>4. ASSUME NEW tx \in Pooled(pool'[n])
      PROVE  s.nonce[tx.from] <= tx.nonce
  <2>1. CASE c = chain[n]
      BY <1>2, <1>3, <1>4, <2>1 DEF PoolsAhead, accountsOf
  <2>2. CASE c # chain[n]
    <3>1. tx \in SignedTxs
        BY <1>3, <1>4, ToSetIs DEF PoolFit, Pooled
    <3>2. tx.nonce \in Nat /\ s.nonce[tx.from] \in Nat
        BY <3>1 DEF SignedTxs, TypeOfState
    <3>3. ~ (tx.nonce < s.nonce[tx.from])
        BY <1>3, <1>4, <2>2 DEF Outdated
    <3> QED
        BY <3>2, <3>3
  <2> QED
      BY <2>1, <2>2
<1> QED
    BY <1>1, <1>2, <1>3, <1>4, AheadKept

(* One transaction more in the pool of n, if its mempool took it.          *)
LEMMA AddedAhead ==
    ASSUME RelayTyped, PoolsAhead, chain' = chain, NEW n \in Nodes, NEW tx \in SignedTxs,
           \A y \in Nodes : y # n => pool'[y] = pool[y],
           Pooled(pool'[n]) = Pooled(pool[n]) \cup {tx},
           Acceptable(pool[n], tx, accountsOf(n), Now)
    PROVE  PoolsAhead'
PROOF
<1>1. accountsOf(n).nonce[tx.from] <= tx.nonce
    BY DEF Acceptable
<1>2. \A u \in Pooled(pool'[n]) : accountsOf(n).nonce[u.from] <= u.nonce
    BY <1>1 DEF PoolsAhead
<1> QED
    BY <1>2, AheadKept DEF accountsOf

(* What handling a message does to the chain of n: nothing, or it becomes  *)
(* the chain that was told.                                                *)
LEMMA DeliverTakes ==
    ASSUME NEW m \in Nodes, NEW n \in Nodes, NEW mempool, Deliver(m, n, mempool),
           NEW x, x = Head(net[<<m, n>>])
    PROVE  \/ chain' = chain
           \/ x.type \in Telling /\ chain' = [chain EXCEPT ![n] = x.chain]
PROOF
<1>1. CASE HandleHello(n, m, mempool) \/ HandleQueryTip(n, m) \/ HandleQueryChain(n, m)
    BY <1>1 DEF HandleHello, HandleQueryTip, HandleQueryChain
<1>2. CASE x.type \in {"TIP", "NEW_BLOCK"} /\ HandleBlock(n, m, x)
    BY <1>2 DEF HandleBlock, considerBlock, Telling
<1>3. CASE x.type = "CHAIN" /\ HandleChain(n, m, x.chain)
    BY <1>3 DEF HandleChain, Telling
<1> QED
    BY <1>1, <1>2, <1>3 DEF Deliver

LEMMA SliceReplays ==
    ASSUME RelayTyped, ChainsReplay, PoolsAhead, NEW n \in Nodes, Slice(n)
    PROVE  ChainsReplay' /\ PoolsAhead'
PROOF
<1>1. PICK body \in TxBodies : body = search[n][2]
    BY SearchIs DEF Slice
<1>2. search' = [search EXCEPT ![n] = << >>]
    BY DEF Slice
<1>3. PICK c \in Chains(TxBodies) : c = chain[n] /\ c \in ChainSet
    BY AccountsOfType DEF RelayTyped
<1>4. ASSUME NEW clock \in Clocks, Mine(n, clock, body), PoolFollows(n),
             ApplyAll(accounts(c), body).ok
      PROVE  ChainsReplay' /\ PoolsAhead'
  <2>1. GossipTyped(TxBodies, TxNotes)' /\ Speaks(n, net)
      BY <1>4, MineDone, TxCarried DEF RelayTyped
  <2>2. PICK b : b = [timestamp  |-> CandidateTime(c, clock),
                      difficulty |-> expectedDifficulty(c), miner |-> n, txs |-> body]
      OBVIOUS
  <2>3. chain' = [chain EXCEPT ![n] = Append(c, b)]
      BY <1>3, <1>4, <2>2 DEF Mine
  <2>4. chain'[n] = Append(c, b)
      BY <2>3 DEF RelayTyped, GossipTyped
  <2>5. b \in BlockSet /\ b.txs = body
    <3>1. CandidateTime(c, clock) \in Nat /\ expectedDifficulty(c) \in Nat
        BY <1>3, GossipAssumption, HeaderOfNext
    <3>2. n \in Addr
        BY RelayAssumption
    <3> QED
        BY <2>2, <3>1, <3>2 DEF BlockSet, TxBodies
  <2>6. Replays(c)
      BY <1>3, ReplayParts
  <2>7. Replays(chain'[n])
      BY <1>3, <1>4, <2>4, <2>5, <2>6, ReplaysAppend
  <2>8. ChainsReplay'
    <3>1. PICK before : before = net
        OBVIOUS
    <3> QED
        BY <1>2, <2>1, <2>7, <3>1, ReplaysKept
  <2>9. PoolsAhead'
    <3>1. \A y \in Nodes : y # n => chain'[y] = chain[y]
        BY <2>1 DEF Speaks
    <3> QED
        BY <1>4, <2>1, <3>1, FollowedAhead
  <2> QED
      BY <2>8, <2>9
<1>5. CASE UNCHANGED <<gossipVars, pool>>
  <2>1. chain' = chain /\ net' = net /\ pool' = pool
      BY <1>5 DEF gossipVars
  <2>2. PoolsAhead'
      BY <2>1, AheadSame
  <2>3. ChainsReplay'
    <3>1. \A y \in Nodes : search'[y] # << >> => search'[y] = search[y]
        BY <1>2 DEF RelayTyped
    <3> QED
        BY <2>1, <3>1, ReplayParts DEF ChainsReplay
  <2> QED
      BY <2>2, <2>3
<1> QED
    BY <1>1, <1>3, <1>4, <1>5 DEF Slice, accountsOf

LEMMA SearchReplays ==
    ASSUME RelayTyped, ChainsReplay, PoolsAhead, NEW n \in Nodes, Search(n)
    PROVE  ChainsReplay' /\ PoolsAhead'
PROOF
<1>1. /\ Pooled(pool'[n]) \subseteq Pooled(pool[n])
      /\ \A y \in Nodes : y # n => pool'[y] = pool[y]
      /\ search' = [search EXCEPT ![n] = <<chain[n], Tried(n).accepted>>]
      /\ ApplyAll(accountsOf(n), Tried(n).accepted).ok
    BY SearchTyped
<1>2. chain' = chain /\ net' = net
    BY DEF Search, gossipVars
<1>3. PoolsAhead'
  <2>1. \A y \in Nodes : Pooled(pool'[y]) \subseteq Pooled(pool[y])
      BY <1>1
  <2> QED
      BY <1>2, <2>1, AheadSame
<1>4. PICK body : body = Tried(n).accepted
    OBVIOUS
<1>5. ASSUME NEW y \in Nodes, search'[y] # << >>
      PROVE  ApplyAll(accounts(search'[y][1]), search'[y][2]).ok
  <2>1. CASE y = n
    <3>1. search'[y] = <<chain[n], body>>
        BY <1>1, <1>4, <2>1 DEF RelayTyped
    <3> QED
        BY <1>1, <1>4, <3>1 DEF accountsOf
  <2>2. CASE y # n
    <3>1. search'[y] = search[y]
        BY <1>1, <2>2 DEF RelayTyped
    <3> QED
        BY <1>5, <3>1, ReplayParts
  <2> QED
      BY <2>1, <2>2
<1> QED
    BY <1>2, <1>3, <1>5, ReplayParts DEF ChainsReplay

LEMMA HandleReplays ==
    ASSUME RelayTyped, ChainsReplay, PoolsAhead, NEW m \in Nodes, NEW n \in Nodes, Handle(m, n)
    PROVE  ChainsReplay' /\ PoolsAhead'
PROOF
<1>1. PICK x : x = Head(net[<<m, n>>])
    OBVIOUS
<1>2. net[<<m, n>>] # << >> /\ GossipTyped(TxBodies, TxNotes)
    BY <1>1, HandleIs DEF RelayTyped
<1>3. PICK before : before = Taken(m, n)
    OBVIOUS
<1>4. PICK M : M = Messages(TxBodies, TxNotes)
    OBVIOUS
<1>5. net \in Queues(M)
    BY <1>2, <1>4, TypedNet DEF NetTyped
<1>6. /\ \A p \in Pairs : p # <<m, n>> => before[p] = net[p]
      /\ ToSet(net[<<m, n>>]) = {x} \cup ToSet(before[<<m, n>>])
    BY <1>1, <1>2, <1>3, <1>5, TakenIs
<1>7. \A p \in Pairs : ToSet(before[p]) \subseteq ToSet(net[p])
    BY <1>6
<1>8. CASE x.tx \in SignedTxs /\ HandleTx(n, m, x.tx)
  <2>1. PICK tx \in SignedTxs : tx = x.tx
      BY <1>8
  <2>2. /\ Speaks(n, before) /\ chain' = chain /\ search' = search
        /\ \A y \in Nodes : y # n => pool'[y] = pool[y]
        /\ \/ pool' = pool
           \/ /\ Pooled(pool'[n]) = Pooled(pool[n]) \cup {tx}
              /\ Acceptable(pool[n], tx, accountsOf(n), Now)
      BY <1>2, <1>3, <1>8, <2>1, HandleTxDone
  <2>3. ChainsReplay'
      BY <1>7, <2>2, ReplaysKept, ReplayParts
  <2>4. PoolsAhead'
    <3>1. CASE pool' = pool
        BY <2>2, <3>1, AheadSame
    <3>2. CASE /\ Pooled(pool'[n]) = Pooled(pool[n]) \cup {tx}
               /\ Acceptable(pool[n], tx, accountsOf(n), Now)
        BY <2>2, <3>2, AddedAhead
    <3> QED
        BY <2>2, <3>1, <3>2
  <2> QED
      BY <2>3, <2>4
<1>9. CASE /\ Deliver(m, n, relayMempool(n)) /\ PoolFollows(n)
           /\ GossipTyped(TxBodies, TxNotes)'
           /\ UNCHANGED <<seenTx, search, clientVars>>
  <2>1. Speaks(n, before)
      BY <1>1, <1>2, <1>3, <1>9, DeliverDone, RelayMessages, TxCarried DEF Answered
  <2>2. Replays(chain'[n])
    <3>1. CASE chain' = chain
        BY <3>1, ReplayParts
    <3>2. CASE x.type \in Telling /\ chain' = [chain EXCEPT ![n] = x.chain]
      <4>1. chain'[n] = x.chain
          BY <1>2, <3>2 DEF GossipTyped
      <4>2. <<m, n>> \in Pairs /\ x \in ToSet(net[<<m, n>>])
          BY <1>6 DEF Pairs
      <4> QED
          BY <3>2, <4>1, <4>2, ReplayParts
    <3> QED
        BY <1>1, <1>9, <3>1, <3>2, DeliverTakes
  <2>3. ChainsReplay'
      BY <1>7, <1>9, <2>1, <2>2, ReplaysKept
  <2>4. \A y \in Nodes : y # n => chain'[y] = chain[y]
      BY <2>1 DEF Speaks
  <2> QED
      BY <1>9, <2>3, <2>4, FollowedAhead
<1> QED
    BY <1>1, <1>8, <1>9, HandleIs

LEMMA SubmitReplays ==
    ASSUME RelayTyped, ChainsReplay, PoolsAhead, NEW k \in DOMAIN sends, Submit(k)
    PROVE  ChainsReplay' /\ PoolsAhead'
PROOF
<1>1. /\ Speaks(Home, net) /\ chain' = chain /\ search' = search
      /\ \A y \in Nodes : y # Home => pool'[y] = pool[y]
    BY SubmitDone
<1>2. PICK before : before = net
    OBVIOUS
<1>3. ChainsReplay'
    BY <1>1, <1>2, RelayAssumption, ReplaysKept, ReplayParts
<1>4. CASE pool' = pool
    BY <1>1, <1>3, <1>4, AheadSame
<1>5. ASSUME NEW tx \in SignedTxs,
             Pooled(pool'[Home]) = Pooled(pool[Home]) \cup {tx},
             Acceptable(pool[Home], tx, accountsOf(Home), Now)
      PROVE  PoolsAhead'
    BY <1>1, <1>5, RelayAssumption, AddedAhead
<1> QED
    BY <1>3, <1>4, <1>5, SubmitDone

(* A connection that opens or closes: greetings are all that is new.       *)
LEMMA RewireReplays ==
    ASSUME RelayTyped, ChainsReplay, PoolsAhead,
           NEW n \in Nodes, NEW m \in Nodes, Connect(n, m) \/ Disconnect(n, m),
           UNCHANGED <<poolVars, clientVars>>
    PROVE  ChainsReplay' /\ PoolsAhead'
PROOF
<1>1. chain' = chain /\ search' = search /\ pool' = pool
    BY DEF Connect, Disconnect, poolVars
<1>2. PICK hello : hello = Ask("HELLO")
    OBVIOUS
<1>3. hello.type \notin Telling
    BY <1>2 DEF Ask, Telling
<1>4. PICK f \in [Pairs -> Seq(Messages(TxBodies, TxNotes))] : f = net
    BY DEF RelayTyped, GossipTyped, Pairs
<1>5. PICK q : /\ q = <<hello>> \/ q = << >>
               /\ net' = [f EXCEPT ![<<n, m>>] = q, ![<<m, n>>] = q]
    BY <1>2, <1>4 DEF Connect, Disconnect
<1>6. ASSUME NEW p \in Pairs, NEW x \in ToSet(net'[p])
      PROVE  x \in ToSet(net[p]) \/ x.type \notin Telling
  <2>1. net'[p] = q \/ net'[p] = f[p]
      BY <1>5
  <2>2. ToSet(q) \subseteq {hello}
      BY <1>5 DEF ToSet
  <2> QED
      BY <1>3, <1>4, <1>6, <2>1, <2>2
<1>7. ChainsReplay'
    BY <1>1, <1>6, ReplaysSame
<1>8. PoolsAhead'
    BY <1>1, AheadSame
<1> QED
    BY <1>7, <1>8

LEMMA StillReplays ==
    ASSUME ChainsReplay, PoolsAhead, UNCHANGED <<chain, net, pool, search>>
    PROVE  ChainsReplay' /\ PoolsAhead'
PROOF
BY ReplaysSame, AheadSame

LEMMA MinedStep == MinedInv /\ [RelayNext]_relayVars => MinedInv'
PROOF
<1> SUFFICES ASSUME RelayTyped, ChainsReplay, PoolsAhead, [RelayNext]_relayVars
             PROVE  RelayTyped' /\ ChainsReplay' /\ PoolsAhead'
    BY DEF MinedInv
<1>1. ASSUME NEW n \in Nodes, NEW m \in Nodes, Connect(n, m) \/ Disconnect(n, m),
             UNCHANGED <<poolVars, clientVars>>
      PROVE  ChainsReplay' /\ PoolsAhead'
    BY <1>1, RewireReplays
<1>2. ASSUME NEW n \in Nodes, NEW c, Forget(n, c), UNCHANGED <<poolVars, clientVars>>
      PROVE  ChainsReplay' /\ PoolsAhead'
    BY <1>2, StillReplays DEF Forget, poolVars
<1>3. ASSUME NEW n \in Nodes, NEW tx, ForgetTx(n, tx)
      PROVE  ChainsReplay' /\ PoolsAhead'
    BY <1>3, StillReplays DEF ForgetTx, gossipVars
<1>4. ASSUME UNCHANGED <<gossipVars, poolVars>>
      PROVE  ChainsReplay' /\ PoolsAhead'
    BY <1>4, StillReplays DEF gossipVars, poolVars
<1>5. ASSUME NEW k \in DOMAIN sends, LoseAnswer(k) \/ Sign(k) \/ Return(k)
      PROVE  UNCHANGED <<gossipVars, poolVars>>
    BY <1>5, LoseDone, SignDone, ReturnDone
<1>6. AskNonce => UNCHANGED <<gossipVars, poolVars>>
    BY AskDone
<1>7. ASSUME NEW k \in DOMAIN sends, Submit(k)
      PROVE  ChainsReplay' /\ PoolsAhead'
    BY <1>7, SubmitReplays
<1>8. ASSUME NEW n \in Nodes, Search(n) \/ Slice(n)
      PROVE  ChainsReplay' /\ PoolsAhead'
    BY <1>8, SearchReplays, SliceReplays
<1>9. ASSUME NEW m \in Nodes, NEW n \in Nodes, Handle(m, n)
      PROVE  ChainsReplay' /\ PoolsAhead'
    BY <1>9, HandleReplays
<1>10. ChainsReplay' /\ PoolsAhead'
    BY <1>1, <1>2, <1>3, <1>4, <1>5, <1>6, <1>7, <1>8, <1>9, RelaySteps
<1> QED
    BY <1>10, RelayTypedStep

LEMMA MinedInit == RelayInit => MinedInv
PROOF
<1> SUFFICES ASSUME RelayInit
             PROVE  MinedInv
    OBVIOUS
<1>1. /\ \A n \in Nodes : chain[n] = <<genesisBlock>> /\ search[n] = << >>
      /\ \A p \in Pairs : net[p] = << >>
      /\ pool = Planted
    BY DEF RelayInit, GossipInit, NoMail, Pairs
<1>2. ChainsReplay
    BY <1>1, ReplaysAlone DEF ChainsReplay, ToSet
<1>3. ASSUME NEW n \in Nodes, NEW tx \in Pooled(pool[n])
      PROVE  accountsOf(n).nonce[tx.from] <= tx.nonce
  <2>1. tx.from \in Addr /\ tx.nonce \in Nat
      BY <1>1, <1>3, PlantedFit DEF SignedTxs
  <2>2. accountsOf(n).nonce[tx.from] = 0
      BY <1>1, <2>1, AccountsAlone DEF accountsOf, genesisState
  <2> QED
      BY <2>1, <2>2
<1> QED
    BY <1>2, <1>3, RelayInitTyped DEF MinedInv, PoolsAhead

(* Every chain that a node holds or tells to another replays, and the body *)
(* that a search has fixed applies to the tip it started from: when that   *)
(* tip still stands addBlock takes the block, for buildCandidate has tried *)
(* it on the same accounts.                                                *)
THEOREM MinedIsValid == RelaySpec => []ChainsReplay
PROOF
<1>1. MinedInv => ChainsReplay
    BY DEF MinedInv
<1> QED
    BY <1>1, MinedInit, MinedStep, PTL DEF RelaySpec

(* On every node's chain each sender's nonces are used once, in order and  *)
(* without a gap, and nothing the node's mempool holds is on its chain.    *)
OrderlyChains ==
    \A n \in Nodes : /\ ChainOrder(chain[n], accountsOf(n).nonce)
                     /\ Pooled(pool[n]) \cap TxsOf(chain[n]) = {}

(* Nothing is mined twice, and what is mined is not offered again, across  *)
(* forks, reorganisations and mempools relayed to nodes that have mined    *)
(* their transactions: each sender's nonces go onto every node's chain     *)
(* once, in order and without a gap, and no pool holds what its node's     *)
(* chain has.                                                              *)
THEOREM NothingTwice == RelaySpec => []OrderlyChains
PROOF
<1>1. ASSUME MinedInv, NEW n \in Nodes
      PROVE  /\ ChainOrder(chain[n], accountsOf(n).nonce)
             /\ Pooled(pool[n]) \cap TxsOf(chain[n]) = {}
  <2>1. PICK c \in ChainSet : c = chain[n] /\ Head(c) = genesisBlock
      BY <1>1, AccountsOfType, ChainsAreChains DEF MinedInv, RelayTyped
  <2>2. PICK s \in TypeOfState : s = accounts(c)
      BY AccountsType
  <2>3. Replays(c)
      BY <1>1, <2>1 DEF MinedInv, ChainsReplay
  <2>4. ChainOrder(c, s.nonce)
      BY <2>1, <2>2, <2>3, ReplayOrder
  <2>5. ASSUME NEW tx \in Pooled(pool[n]), tx \in TxsOf(c)
        PROVE  FALSE
    <3>1. c \in Seq(BlockSet)
        BY DEF ChainSet
    <3>2. tx \in SignedTxs
        BY <2>5, <3>1, TxsOfType
    <3>3. tx.from \in Addr /\ tx.nonce \in Nat /\ s.nonce[tx.from] \in Nat
        BY <3>2 DEF SignedTxs, TypeOfState
    <3>4. tx.nonce \in NoncesOf(TxsOf(c), tx.from)
        BY <2>5 DEF NoncesOf
    <3>5. tx.nonce \in 0..(s.nonce[tx.from] - 1)
        BY <2>4, <3>3, <3>4 DEF ChainOrder
    <3>6. s.nonce[tx.from] <= tx.nonce
        BY <1>1, <2>1, <2>2, <2>5 DEF MinedInv, PoolsAhead, accountsOf
    <3> QED
        BY <3>3, <3>5, <3>6
  <2> QED
      BY <2>1, <2>2, <2>4, <2>5 DEF accountsOf
<1>2. MinedInv => OrderlyChains
    BY <1>1 DEF OrderlyChains
<1> QED
    BY <1>2, MinedInit, MinedStep, PTL DEF RelaySpec

-----------------------------------------------------------------------------
(* Heavier chains only                                                     *)

Heavier(n) == chain'[n] = chain[n] \/ totalWork(chain'[n]) > totalWork(chain[n])

LEMMA DeliverHeavier ==
    ASSUME GossipTyped(TxBodies, TxNotes), NEW m \in Nodes, NEW n \in Nodes,
           NEW mempool \in Seq(TxNotes), Deliver(m, n, mempool)
    PROVE  \A y \in Nodes : Heavier(y)
PROOF
<1>1. PICK x : x = Head(net[<<m, n>>])
    OBVIOUS
<1>2. x \in Messages(TxBodies, TxNotes)
    BY <1>1, DeliverDone, TxCarried
<1>3. PICK old \in ChainSet : old = chain[n]
    BY AccountsOfType
<1>4. CASE chain' = chain
    BY <1>4 DEF Heavier
<1>5. CASE x.type \in {"TIP", "NEW_BLOCK", "CHAIN"} /\ chain' # chain
  <2>1. PICK c \in ChainSet : c = x.chain
      BY <1>2, <1>5, TxCarried, MessageKinds, ChainsAreChains DEF Telling
  <2>2. /\ chain' = [chain EXCEPT ![n] = c]
        /\ Front(c) = old \/ totalWork(c) > totalWork(old)
      BY <1>1, <1>3, <1>5, <2>1 DEF Deliver, HandleBlock, considerBlock, HandleChain,
                                    HandleHello, HandleQueryTip, HandleQueryChain
  <2>3. totalWork(c) > totalWork(old)
    <3>1. CASE Front(c) = old
      <4>1. PICK b \in BlockSet : c = Append(old, b)
          BY <3>1, FrontLast DEF ChainSet
      <4> QED
          BY <4>1, WorkGrows
    <3> QED
        BY <2>2, <3>1
  <2>4. chain'[n] = c /\ \A y \in Nodes : y # n => chain'[y] = chain[y]
      BY <2>2 DEF GossipTyped
  <2> QED
      BY <1>3, <2>3, <2>4 DEF Heavier
<1> QED
    BY <1>1, <1>4, <1>5, DeliverTakes DEF Telling

LEMMA MineHeavier ==
    ASSUME GossipTyped(TxBodies, TxNotes), NEW n \in Nodes, NEW clock \in Clocks,
           NEW body \in TxBodies, Mine(n, clock, body)
    PROVE  \A y \in Nodes : Heavier(y)
PROOF
<1>1. PICK c \in ChainSet : c = chain[n]
    BY AccountsOfType
<1>2. PICK b : b = [timestamp  |-> CandidateTime(c, clock),
                    difficulty |-> expectedDifficulty(c), miner |-> n, txs |-> body]
    OBVIOUS
<1>3. b \in BlockSet
  <2>1. CandidateTime(c, clock) \in Nat /\ expectedDifficulty(c) \in Nat
      BY GossipAssumption, HeaderOfNext
  <2>2. n \in Addr
      BY RelayAssumption
  <2> QED
      BY <1>2, <2>1, <2>2 DEF BlockSet, TxBodies
<1>4. chain' = [chain EXCEPT ![n] = Append(c, b)]
    BY <1>1, <1>2 DEF Mine
<1>5. chain'[n] = Append(c, b) /\ \A y \in Nodes : y # n => chain'[y] = chain[y]
    BY <1>4 DEF GossipTyped
<1>6. totalWork(Append(c, b)) > totalWork(c)
    BY <1>3, WorkGrows
<1> QED
    BY <1>1, <1>5, <1>6 DEF Heavier

(* Chains with more work only, whatever the difficulties: no node, mining, *)
(* told of a block or sent a whole chain, ever trades its chain for one    *)
(* that has not more work.                                                 *)
NeverLighter == [][\A n \in Nodes : Heavier(n)]_relayVars

(* handleMessage and mineOnce step as addBlock and replaceChain promise.   *)
THEOREM WorkOnlyGrows == RelaySpec => NeverLighter
PROOF
<1>1. ASSUME RelayTyped, [RelayNext]_relayVars
      PROVE  \A n \in Nodes : Heavier(n)
  <2>1. chain' = chain => \A n \in Nodes : Heavier(n)
      BY DEF Heavier
  <2>2. ASSUME NEW n \in Nodes, Slice(n)
        PROVE  \A y \in Nodes : Heavier(y)
    <3>1. PICK body \in TxBodies : body = search[n][2]
        BY <1>1, <2>2, SearchIs DEF Slice
    <3> QED
        BY <1>1, <2>1, <2>2, <3>1, MineHeavier DEF Slice, gossipVars, RelayTyped
  <2>3. ASSUME NEW m \in Nodes, NEW n \in Nodes, Handle(m, n)
        PROVE  \A y \in Nodes : Heavier(y)
    <3>1. PICK x : x = Head(net[<<m, n>>])
        OBVIOUS
    <3>2. CASE net[<<m, n>>] # << >> /\ x.tx \in SignedTxs /\ HandleTx(n, m, x.tx)
        BY <1>1, <2>1, <3>2, HandleTxDone
    <3>3. CASE Deliver(m, n, relayMempool(n))
        BY <1>1, <3>3, DeliverHeavier, RelayMessages DEF RelayTyped
    <3> QED
        BY <1>1, <2>3, <3>1, <3>2, <3>3, HandleIs
  <2>4. ASSUME NEW k \in DOMAIN sends, LoseAnswer(k) \/ Sign(k) \/ Submit(k) \/ Return(k)
        PROVE  chain' = chain
      BY <2>4 DEF LoseAnswer, Sign, Submit, Return, gossipVars
  <2>5. ASSUME NEW n \in Nodes, NEW m \in Nodes, Connect(n, m) \/ Disconnect(n, m)
        PROVE  chain' = chain
      BY <2>5 DEF Connect, Disconnect
  <2>6. ASSUME NEW n \in Nodes, NEW c, Forget(n, c) \/ ForgetTx(n, c)
        PROVE  chain' = chain
      BY <2>6 DEF Forget, ForgetTx, gossipVars
  <2>7. AskNonce => chain' = chain
      BY DEF AskNonce, gossipVars
  <2>8. ASSUME NEW n \in Nodes, Search(n)
        PROVE  chain' = chain
      BY <2>8 DEF Search, gossipVars
  <2>9. UNCHANGED gossipVars => chain' = chain
      BY DEF gossipVars
  <2> QED
      BY <1>1, <2>1, <2>2, <2>3, <2>4, <2>5, <2>6, <2>7, <2>8, <2>9, RelaySteps
<1> QED
    BY <1>1, RelayTypes, PTL DEF RelaySpec, NeverLighter

-----------------------------------------------------------------------------
(* What chains have in common                                              *)

(* The chain e has the blocks of c and perhaps more.                       *)
Along(c, e) == Len(c) <= Len(e) /\ \A i \in 1..Len(c) : c[i] = e[i]

LEMMA AlongSelf ==
    ASSUME NEW c \in ChainSet
    PROVE  Along(c, c) /\ Len(c) \in Nat
PROOF
<1>1. Len(c) \in Nat
    BY LenProperties DEF ChainSet
<1> QED
    BY <1>1 DEF Along

LEMMA AlongAgain ==
    ASSUME NEW c \in ChainSet, NEW d \in ChainSet, NEW e \in ChainSet, Along(c, d), Along(d, e)
    PROVE  Along(c, e)
PROOF
<1>1. PICK i \in Nat, j \in Nat, k \in Nat : i = Len(c) /\ j = Len(d) /\ k = Len(e)
    BY AlongSelf
<1>2. i <= j /\ j <= k /\ \A x \in 1..i : x \in 1..j
    BY <1>1 DEF Along
<1>3. \A x \in 1..i : c[x] = e[x]
    BY <1>1, <1>2 DEF Along
<1> QED
    BY <1>1, <1>2, <1>3 DEF Along

(* Of two beginnings of one chain the longer goes on where the other ends. *)
LEMMA AlongBoth ==
    ASSUME NEW c \in ChainSet, NEW d \in ChainSet, NEW e \in ChainSet,
           Along(c, e), Along(d, e), Len(c) <= Len(d)
    PROVE  Along(c, d)
PROOF
<1>1. PICK i \in Nat, j \in Nat : i = Len(c) /\ j = Len(d)
    BY AlongSelf
<1>2. \A x \in 1..i : x \in 1..j
    BY <1>1
<1>3. \A x \in 1..i : c[x] = d[x]
    BY <1>1, <1>2 DEF Along
<1> QED
    BY <1>3, <1>1 DEF Along

LEMMA AlongEqual ==
    ASSUME NEW c \in ChainSet, NEW e \in ChainSet, Along(c, e), Len(c) >= Len(e)
    PROVE  c = e
PROOF
<1>1. PICK i \in Nat, j \in Nat : i = Len(c) /\ j = Len(e)
    BY AlongSelf
<1>2. i = j /\ \A x \in 1..i : c[x] = e[x]
    BY <1>1 DEF Along
<1>3. c = [x \in 1..i |-> c[x]] /\ e = [x \in 1..j |-> e[x]]
    BY <1>1 DEF ChainSet
<1> QED
    BY <1>2, <1>3

LEMMA AlongAppend ==
    ASSUME NEW c \in ChainSet, NEW b \in BlockSet
    PROVE  /\ Along(c, Append(c, b))
           /\ \A d \in ChainSet : Along(d, Append(c, b)) => Along(d, c) \/ d = Append(c, b)
PROOF
<1>1. PICK e \in ChainSet : e = Append(c, b)
    BY AppendIs
<1>2. PICK k \in Nat : k = Len(c) /\ Len(e) = k + 1 /\ \A i \in 1..k : e[i] = c[i]
    BY <1>1, Longer DEF ChainSet
<1>3. Along(c, e)
    BY <1>2 DEF Along
<1>4. ASSUME NEW d \in ChainSet, Along(d, e)
      PROVE  Along(d, c) \/ d = e
  <2>1. PICK j \in Nat : j = Len(d)
      BY AlongSelf
  <2>2. CASE j <= k
      BY <1>2, <1>3, <1>4, <2>1, <2>2, AlongBoth
  <2>3. CASE j > k
    <3>1. Len(d) >= Len(e)
        BY <1>2, <2>1, <2>3
    <3> QED
        BY <1>4, <3>1, AlongEqual
  <2> QED
      BY <2>1, <2>2, <2>3
<1> QED
    BY <1>1, <1>3, <1>4

LEMMA AlongTxs ==
    ASSUME NEW c \in ChainSet, NEW e \in ChainSet, Along(c, e)
    PROVE  TxsOf(c) \subseteq TxsOf(e)
PROOF
<1>1. PICK i \in Nat, j \in Nat : /\ i = Len(c) /\ DOMAIN c = 1..i
                                  /\ j = Len(e) /\ DOMAIN e = 1..j
    BY LenProperties DEF ChainSet
<1>2. \A x \in 1..i : x \in 1..j /\ c[x] = e[x]
    BY <1>1 DEF Along
<1> QED
    BY <1>1, <1>2 DEF TxsOf

(* Nonces only grow along a chain, whether its bodies apply or not.        *)
LEMMA ApplyAllGrows ==
    ASSUME NEW s \in TypeOfState, NEW txs \in Seq(SignedTxs), NEW a \in Addr
    PROVE  s.nonce[a] <= ApplyAll(s, txs).state.nonce[a]
PROOF
<1> DEFINE Good == {body \in Seq(SignedTxs) : s.nonce[a] <= ApplyAll(s, body).state.nonce[a]}
<1>1. << >> \in Good
  <2>1. s.nonce[a] \in Nat
      BY DEF TypeOfState
  <2> QED
      BY <2>1, ApplyAllEmpty, EmptySeq
<1>2. ASSUME NEW body \in Seq(SignedTxs), NEW tx \in SignedTxs, body \in Good
      PROVE  Append(body, tx) \in Good
  <2>1. PICK acc \in Outcome : acc = ApplyAll(s, body) /\ s.nonce[a] <= acc.state.nonce[a]
      BY <1>2, ApplyAllType
  <2>2. ApplyAll(s, Append(body, tx)) =
            IF acc.ok /\ CanApply(acc.state, tx)
            THEN [ok |-> TRUE, state |-> Applied(acc.state, tx)]
            ELSE [acc EXCEPT !.ok = FALSE]
      BY <2>1, ApplyAllAppend
  <2>3. acc.state.nonce \in [Addr -> Nat] /\ s.nonce[a] \in Nat /\ tx.from \in Addr
      BY DEF Outcome, TypeOfState, SignedTxs
  <2>4. PICK f \in [Addr -> Nat] : f = [acc.state.nonce EXCEPT ![tx.from] = @ + 1]
    <3>1. PICK g \in [Addr -> Nat] : g = acc.state.nonce
        BY <2>3
    <3>2. [g EXCEPT ![tx.from] = @ + 1] \in [Addr -> Nat]
        BY <2>3
    <3> QED
        BY <3>1, <3>2
  <2>5. f[a] = acc.state.nonce[a] \/ f[a] = acc.state.nonce[a] + 1
      BY <2>3, <2>4
  <2>6. s.nonce[a] <= f[a] /\ acc.state.nonce[a] \in Nat
      BY <2>1, <2>3, <2>5
  <2>7. s.nonce[a] <= ApplyAll(s, Append(body, tx)).state.nonce[a]
    <3>1. CASE acc.ok /\ CanApply(acc.state, tx)
      <4>1. ApplyAll(s, Append(body, tx)).state = Applied(acc.state, tx)
          BY <2>2, <3>1
      <4>2. Applied(acc.state, tx).nonce = f
          BY <2>4 DEF Applied
      <4> QED
          BY <2>6, <4>1, <4>2
    <3>2. CASE ~ (acc.ok /\ CanApply(acc.state, tx))
      <4>1. ApplyAll(s, Append(body, tx)).state = acc.state
          BY <2>2, <3>2 DEF Outcome
      <4> QED
          BY <2>1, <4>1
    <3> QED
        BY <3>1, <3>2
  <2> QED
      BY <2>7, AppendProperties
<1> HIDE DEF Good
<1>3. Seq(SignedTxs) \subseteq Good
    BY <1>1, <1>2, Body!SeqSetInduction
<1> QED
    BY <1>3 DEF Good

LEMMA NoncesGrow ==
    ASSUME NEW e \in ChainSet, NEW a \in Addr
    PROVE  \A c \in ChainSet : Along(c, e) => accounts(c).nonce[a] <= accounts(e).nonce[a]
PROOF
<1> DEFINE Good == {d \in ChainSet : \A c \in ChainSet :
                        Along(c, d) => accounts(c).nonce[a] <= accounts(d).nonce[a]}
<1>1. \A c \in ChainSet : accounts(c).nonce[a] \in Nat
    BY AccountsType DEF TypeOfState
<1>2. ASSUME NEW b \in BlockSet
      PROVE  <<b>> \in Good
  <2>1. PICK d \in ChainSet : d = <<b>> /\ Len(d) = 1
    <3>1. <<b>> \in Seq(BlockSet) /\ <<b>> # << >> /\ Len(<<b>>) = 1
        OBVIOUS
    <3> QED
        BY <3>1 DEF ChainSet
  <2>2. ASSUME NEW c \in ChainSet, Along(c, d)
        PROVE  c = d
    <3>1. Len(c) \in Nat /\ Len(c) > 0
        BY DEF ChainSet
    <3>2. Len(c) >= Len(d)
        BY <2>1, <3>1
    <3> QED
        BY <2>2, <3>2, AlongEqual
  <2> QED
      BY <1>1, <2>1, <2>2
<1>3. ASSUME NEW d \in ChainSet, NEW b \in BlockSet, d \in Good
      PROVE  Append(d, b) \in Good
  <2>1. PICK s \in TypeOfState : s = accounts(d)
      BY AccountsType
  <2>2. accounts(Append(d, b)).nonce = ApplyAll(s, b.txs).state.nonce
      BY <2>1, AccountsAppend, ApplyBlockIs
  <2>3. s.nonce[a] <= accounts(Append(d, b)).nonce[a]
      BY <2>2, BlockTxs, ApplyAllGrows
  <2>4. Append(d, b) \in ChainSet
      BY AppendIs
  <2>5. ASSUME NEW c \in ChainSet, Along(c, Append(d, b))
        PROVE  accounts(c).nonce[a] <= accounts(Append(d, b)).nonce[a]
    <3>1. CASE Along(c, d)
      <4>1. accounts(c).nonce[a] <= accounts(d).nonce[a]
          BY <1>3, <3>1
      <4> QED
          BY <1>1, <2>1, <2>3, <2>4, <4>1
    <3>2. CASE c = Append(d, b)
        BY <1>1, <2>4, <3>2
    <3> QED
        BY <2>5, <3>1, <3>2, AlongAppend
  <2> QED
      BY <2>4, <2>5
<1> HIDE DEF Good
<1>4. ChainSet \subseteq Good
    BY <1>2, <1>3, ChainInduction
<1> QED
    BY <1>4 DEF Good

-----------------------------------------------------------------------------
(* One miner                                                               *)

(* With one miner every chain held or told is a beginning of the miner's.  *)
OneChain(miner) ==
    /\ \A n \in Nodes : Along(chain[n], chain[miner])
    /\ \A p \in Pairs : \A x \in ToSet(net[p]) :
          x.type \in Telling => Along(x.chain, chain[miner])

(* No chain loses a block.                                                 *)
Extending == \A n \in Nodes : Along(chain[n], chain'[n])

LEMMA ChainTypes ==
    ASSUME RelayTyped
    PROVE  /\ \A n \in Nodes : chain[n] \in ChainSet
           /\ \A p \in Pairs : \A x \in ToSet(net[p]) : x.type \in Telling => x.chain \in ChainSet
PROOF
<1>1. GossipTyped(TxBodies, TxNotes)
    BY DEF RelayTyped
<1>2. ASSUME NEW p \in Pairs, NEW x \in ToSet(net[p]), x.type \in Telling
      PROVE  x.chain \in ChainSet
  <2>1. x.chain \in Chains(TxBodies)
      BY <1>1, <1>2, ToldTypes, TxCarried
  <2> QED
      BY <2>1, ChainsAreChains
<1> QED
    BY <1>1, <1>2, AccountsOfType

LEMMA NextChainTypes ==
    ASSUME RelayTyped'
    PROVE  \A n \in Nodes : chain'[n] \in ChainSet
PROOF
<1>1. GossipTyped(TxBodies, TxNotes)'
    BY DEF RelayTyped
<1>2. \A n \in Nodes : chain'[n] \in Chains(TxBodies)
    BY <1>1 DEF GossipTyped
<1> QED
    BY <1>2, ChainsAreChains

(* A step after which n's chain is a beginning of the miner's too.         *)
LEMMA OneChainKept ==
    ASSUME RelayTyped, RelayTyped', NEW miner \in Nodes, OneChain(miner),
           NEW m \in Nodes, NEW n \in Nodes, NEW x, Moved(m, n, x),
           Along(chain[miner], chain'[miner]), Along(chain'[n], chain'[miner])
    PROVE  OneChain(miner)' /\ Extending
PROOF
<1>1. /\ \A y \in Nodes : chain[y] \in ChainSet /\ chain'[y] \in ChainSet
      /\ \A p \in Pairs : \A y \in ToSet(net[p]) : y.type \in Telling => y.chain \in ChainSet
    BY ChainTypes, NextChainTypes
<1>2. ASSUME NEW c \in ChainSet, Along(c, chain[miner])
      PROVE  Along(c, chain'[miner])
    BY <1>1, <1>2, AlongAgain
<1>3. ASSUME NEW y \in Nodes
      PROVE  Along(chain'[y], chain'[miner])
  <2>1. y # n => chain'[y] = chain[y]
      BY DEF Moved
  <2> QED
      BY <1>1, <1>2, <2>1 DEF OneChain
<1>4. ASSUME NEW p \in Pairs, NEW y \in ToSet(net'[p]), y.type \in Telling
      PROVE  Along(y.chain, chain'[miner])
  <2>1. y \in ToSet(net[p]) \/ y.chain = chain'[n]
      BY <1>4 DEF Moved
  <2> QED
      BY <1>1, <1>2, <1>4, <2>1 DEF OneChain
<1>5. ASSUME NEW y \in Nodes
      PROVE  Along(chain[y], chain'[y])
  <2>1. Len(chain'[y]) >= Len(chain[y])
      BY DEF Moved, Progress
  <2>2. Len(chain'[y]) \in Nat /\ Len(chain[y]) \in Nat
      BY <1>1, AlongSelf
  <2>3. Along(chain[y], chain'[miner])
      BY <1>1, <1>2 DEF OneChain
  <2> QED
      BY <1>1, <1>3, <2>1, <2>2, <2>3, AlongBoth
<1> QED
    BY <1>3, <1>4, <1>5 DEF OneChain, Extending

(* A step of n that leaves its chain or makes it one that was told.        *)
LEMMA ToldOnly ==
    ASSUME RelayTyped, RelayTyped', NEW miner \in Nodes, OneChain(miner),
           NEW m \in Nodes, NEW n \in Nodes, NEW x, Moved(m, n, x),
           \/ chain' = chain
           \/ /\ \E p \in Pairs : x \in ToSet(net[p])
              /\ x.type \in Telling /\ chain' = [chain EXCEPT ![n] = x.chain]
    PROVE  OneChain(miner)' /\ Extending
PROOF
<1>1. /\ \A y \in Nodes : chain[y] \in ChainSet /\ chain'[y] \in ChainSet
      /\ \A p \in Pairs : \A y \in ToSet(net[p]) : y.type \in Telling => y.chain \in ChainSet
    BY ChainTypes, NextChainTypes
<1>2. Along(chain'[n], chain[miner])
  <2>1. CASE chain' = chain
      BY <2>1 DEF OneChain
  <2>2. ASSUME NEW p \in Pairs, x \in ToSet(net[p]), x.type \in Telling,
               chain' = [chain EXCEPT ![n] = x.chain]
        PROVE  Along(chain'[n], chain[miner])
    <3>1. chain'[n] = x.chain
        BY <2>2 DEF RelayTyped, GossipTyped
    <3> QED
        BY <2>2, <3>1 DEF OneChain
  <2> QED
      BY <2>1, <2>2
<1>3. chain'[miner] = chain[miner]
  <2>1. CASE n = miner
    <3>1. Len(chain'[miner]) >= Len(chain[miner])
        BY DEF Moved, Progress
    <3> QED
        BY <1>1, <1>2, <2>1, <3>1, AlongEqual
  <2>2. CASE n # miner
      BY <2>2 DEF Moved
  <2> QED
      BY <2>1, <2>2
<1>4. Along(chain[miner], chain'[miner]) /\ Along(chain'[n], chain'[miner])
    BY <1>1, <1>2, <1>3, AlongSelf
<1> QED
    BY <1>4, OneChainKept

(* Nobody's chain changes and nothing more is told.                        *)
LEMMA OneChainSame ==
    ASSUME RelayTyped, NEW miner \in Nodes, OneChain(miner), chain' = chain,
           \A p \in Pairs : \A x \in ToSet(net'[p]) : x \in ToSet(net[p]) \/ x.type \notin Telling
    PROVE  OneChain(miner)' /\ Extending
PROOF
<1>1. ASSUME NEW p \in Pairs, NEW x \in ToSet(net'[p]), x.type \in Telling
      PROVE  Along(x.chain, chain[miner])
    BY <1>1 DEF OneChain
<1>2. \A n \in Nodes : Along(chain[n], chain'[n])
    BY ChainTypes, AlongSelf
<1>3. \A n \in Nodes : Along(chain[n], chain[miner])
    BY DEF OneChain
<1> QED
    BY <1>1, <1>2, <1>3 DEF OneChain, Extending

LEMMA HandleOneChain ==
    ASSUME OneDifficulty, RelayTyped, NEW miner \in Nodes, OneChain(miner),
           NEW m \in Nodes, NEW n \in Nodes, Handle(m, n)
    PROVE  OneChain(miner)' /\ Extending
PROOF
<1>1. PICK x : x = Head(net[<<m, n>>])
    OBVIOUS
<1>2. net[<<m, n>>] # << >> /\ GossipTyped(TxBodies, TxNotes) /\ RelayTyped'
    BY <1>1, HandleIs, HandleTyped DEF RelayTyped
<1>3. PICK M : M = Messages(TxBodies, TxNotes)
    OBVIOUS
<1>4. net \in Queues(M)
    BY <1>2, <1>3, TypedNet DEF NetTyped
<1>5. x \in ToSet(net[<<m, n>>]) /\ <<m, n>> \in Pairs
    BY <1>1, <1>2, <1>4, TakenIs DEF Pairs
<1>6. ASSUME x.tx \in SignedTxs, HandleTx(n, m, x.tx)
      PROVE  OneChain(miner)' /\ Extending
  <2>1. PICK y : Moved(m, n, y)
      BY HandleMoves
  <2>2. chain' = chain
      BY <1>2, <1>6, HandleTxDone
  <2> QED
      BY <1>2, <2>1, <2>2, ToldOnly
<1>7. ASSUME Deliver(m, n, relayMempool(n))
      PROVE  OneChain(miner)' /\ Extending
  <2>1. Moved(m, n, x)
      BY <1>1, <1>2, <1>7, DeliverMoves, RelayMessages, TxCarried
  <2>2. \/ chain' = chain
        \/ x.type \in Telling /\ chain' = [chain EXCEPT ![n] = x.chain]
      BY <1>1, <1>7, DeliverTakes
  <2> QED
      BY <1>2, <1>5, <2>1, <2>2, ToldOnly
<1> QED
    BY <1>1, <1>6, <1>7, HandleIs

LEMMA SliceOneChain ==
    ASSUME RelayTyped, NEW miner \in Nodes, Miners \subseteq {miner}, OneChain(miner),
           NEW n \in Nodes, Slice(n)
    PROVE  OneChain(miner)' /\ Extending
PROOF
<1>1. PICK body \in TxBodies : body = search[n][2]
    BY SearchIs DEF Slice
<1>2. RelayTyped'
    BY SliceTyped
<1>3. ASSUME NEW clock \in Clocks, Mine(n, clock, body)
      PROVE  OneChain(miner)' /\ Extending
  <2>1. PICK x : x = [type |-> "NONE"]
      OBVIOUS
  <2>2. x.type \notin Asking \cup Telling
      BY <2>1 DEF Asking, Telling
  <2>3. Moved(n, n, x)
      BY <1>3, <2>2, MineMoves, TxCarried DEF RelayTyped
  <2>4. n = miner
      BY <1>3 DEF Mine
  <2>5. PICK c \in ChainSet : c = chain[n]
      BY ChainTypes
  <2>6. PICK b : b = [timestamp  |-> CandidateTime(c, clock),
                      difficulty |-> expectedDifficulty(c), miner |-> n, txs |-> body]
      OBVIOUS
  <2>7. b \in BlockSet
    <3>1. CandidateTime(c, clock) \in Nat /\ expectedDifficulty(c) \in Nat
        BY <1>3, GossipAssumption, HeaderOfNext
    <3>2. n \in Addr
        BY RelayAssumption
    <3> QED
        BY <2>6, <3>1, <3>2 DEF BlockSet, TxBodies
  <2>8. chain' = [chain EXCEPT ![n] = Append(c, b)]
      BY <1>3, <2>5, <2>6 DEF Mine
  <2>9. chain'[n] = Append(c, b)
      BY <2>8 DEF RelayTyped, GossipTyped
  <2>10. Along(chain[miner], chain'[miner])
      BY <2>4, <2>5, <2>7, <2>9, AlongAppend
  <2>11. Along(chain'[n], chain'[miner])
      BY <1>2, <2>4, NextChainTypes, AlongSelf
  <2> QED
      BY <1>2, <2>3, <2>10, <2>11, OneChainKept
<1>4. CASE UNCHANGED gossipVars
    BY <1>4, OneChainSame DEF gossipVars
<1> QED
    BY <1>1, <1>3, <1>4 DEF Slice

LEMMA RewireOneChain ==
    ASSUME RelayTyped, NEW miner \in Nodes, OneChain(miner),
           NEW n \in Nodes, NEW m \in Nodes, Connect(n, m) \/ Disconnect(n, m)
    PROVE  OneChain(miner)' /\ Extending
PROOF
<1>1. chain' = chain
    BY DEF Connect, Disconnect
<1>2. PICK hello : hello = Ask("HELLO")
    OBVIOUS
<1>3. hello.type \notin Telling
    BY <1>2 DEF Ask, Telling
<1>4. PICK f \in [Pairs -> Seq(Messages(TxBodies, TxNotes))] : f = net
    BY DEF RelayTyped, GossipTyped, Pairs
<1>5. PICK q : /\ q = <<hello>> \/ q = << >>
               /\ net' = [f EXCEPT ![<<n, m>>] = q, ![<<m, n>>] = q]
    BY <1>2, <1>4 DEF Connect, Disconnect
<1>6. ASSUME NEW p \in Pairs, NEW x \in ToSet(net'[p])
      PROVE  x \in ToSet(net[p]) \/ x.type \notin Telling
  <2>1. net'[p] = q \/ net'[p] = f[p]
      BY <1>5
  <2>2. ToSet(q) \subseteq {hello}
      BY <1>5 DEF ToSet
  <2> QED
      BY <1>3, <1>4, <1>6, <2>1, <2>2
<1> QED
    BY <1>1, <1>6, OneChainSame

LEMMA OneChainStep ==
    ASSUME OneDifficulty, NEW miner \in Nodes, Miners \subseteq {miner},
           RelayTyped, OneChain(miner), [RelayNext]_relayVars
    PROVE  OneChain(miner)' /\ Extending
PROOF
<1>1. ASSUME UNCHANGED <<chain, net>>
      PROVE  OneChain(miner)' /\ Extending
    BY <1>1, OneChainSame
<1>2. ASSUME NEW n \in Nodes, NEW m \in Nodes, Connect(n, m) \/ Disconnect(n, m)
      PROVE  OneChain(miner)' /\ Extending
    BY <1>2, RewireOneChain
<1>3. ASSUME NEW n \in Nodes, NEW c, Forget(n, c) \/ ForgetTx(n, c) \/ Search(n)
      PROVE  UNCHANGED <<chain, net>>
    BY <1>3 DEF Forget, ForgetTx, Search, gossipVars
<1>4. ASSUME NEW k \in DOMAIN sends, LoseAnswer(k) \/ Sign(k) \/ Return(k)
      PROVE  UNCHANGED <<chain, net>>
    BY <1>4, LoseDone, SignDone, ReturnDone DEF gossipVars
<1>5. AskNonce => UNCHANGED <<chain, net>>
    BY AskDone DEF gossipVars
<1>6. ASSUME NEW k \in DOMAIN sends, Submit(k)
      PROVE  OneChain(miner)' /\ Extending
  <2>1. PICK x : Moved(Home, Home, x)
      BY <1>6, SubmitMoves
  <2>2. chain' = chain /\ RelayTyped' /\ Home \in Nodes
      BY <1>6, SubmitDone, RelayAssumption
  <2> QED
      BY <2>1, <2>2, ToldOnly
<1>7. ASSUME NEW n \in Nodes, Slice(n)
      PROVE  OneChain(miner)' /\ Extending
    BY <1>7, SliceOneChain
<1>8. ASSUME NEW m \in Nodes, NEW n \in Nodes, Handle(m, n)
      PROVE  OneChain(miner)' /\ Extending
    BY <1>8, HandleOneChain
<1>9. UNCHANGED <<gossipVars, poolVars, clientVars>> => UNCHANGED <<chain, net>>
    BY DEF gossipVars
<1> QED
    BY <1>1, <1>2, <1>3, <1>4, <1>5, <1>6, <1>7, <1>8, <1>9, RelaySteps

LEMMA OneChainInit ==
    ASSUME RelayInit, NEW miner \in Nodes
    PROVE  OneChain(miner)
PROOF
<1>1. /\ \A n \in Nodes : chain[n] = <<genesisBlock>>
      /\ \A p \in Pairs : net[p] = << >>
    BY DEF RelayInit, GossipInit, NoMail, Pairs
<1>2. Along(<<genesisBlock>>, <<genesisBlock>>)
    BY GenesisType, AlongSelf
<1> QED
    BY <1>1, <1>2 DEF OneChain, ToSet

-----------------------------------------------------------------------------
(* Pools agree                                                             *)

(* A node that was told of a wanted transaction holds it, nobody tells of  *)
(* one it does not hold, and what n has pooled m holds, or it is on its    *)
(* way, or n has not handled m's greeting yet, which it answers with all   *)
(* it has.                                                                 *)
SeenIsHeld(Wanted) == \A n \in Nodes : \A tx \in seenTx[n] \cap Wanted : Held(n, tx)

RelayedIsHeld(Wanted) ==
    \A n, m \in Nodes : \A tx \in Wanted : NewTx(tx) \in ToSet(net[<<n, m>>]) => Held(n, tx)

PooledIsOffered(Wanted) ==
    \A n, m \in Nodes : {n, m} \in open /\ <<n, m>> \in shaken =>
        \A tx \in Pooled(pool[n]) \cap Wanted :
            Held(m, tx) \/ NewTx(tx) \in ToSet(net[<<n, m>>])

(* What is held stays held.                                                *)
HeldStays(Wanted) == \A n \in Nodes : \A tx \in Wanted : Held(n, tx) => Held(n, tx)'

LEMMA StaysHeld ==
    ASSUME NEW Wanted \in SUBSET SignedTxs, RelayTyped, RelayTyped', Extending,
           TurnedAway \cap Wanted = {}, SeenIsHeld(Wanted)
    PROVE  HeldStays(Wanted) /\ SeenIsHeld(Wanted)'
PROOF
<1>1. ASSUME NEW n \in Nodes, NEW tx \in Wanted,
             tx \in Pooled(pool[n]) \/ tx \in seenTx'[n] \ seenTx[n]
      PROVE  Held(n, tx)'
    BY <1>1 DEF TurnedAway
<1>2. ASSUME NEW n \in Nodes, NEW tx \in Wanted, tx.nonce < accountsOf(n).nonce[tx.from]
      PROVE  Held(n, tx)'
  <2>1. tx.from \in Addr /\ tx.nonce \in Nat
      BY DEF SignedTxs
  <2>2. PICK c \in ChainSet, e \in ChainSet : c = chain[n] /\ e = chain'[n] /\ Along(c, e)
      BY ChainTypes, NextChainTypes DEF Extending
  <2>3. PICK i \in Nat, j \in Nat : /\ i = accounts(c).nonce[tx.from]
                                    /\ j = accounts(e).nonce[tx.from]
      BY <2>1, AccountsType DEF TypeOfState
  <2>4. i <= j
      BY <2>1, <2>2, <2>3, NoncesGrow
  <2>5. tx.nonce < i
      BY <1>2, <2>2, <2>3 DEF accountsOf
  <2>6. tx.nonce < j
      BY <2>1, <2>4, <2>5
  <2> QED
      BY <2>2, <2>3, <2>6 DEF Held, accountsOf
<1>3. HeldStays(Wanted)
    BY <1>1, <1>2 DEF HeldStays, Held
<1>4. ASSUME NEW n \in Nodes, NEW tx \in seenTx'[n] \cap Wanted
      PROVE  Held(n, tx)'
    BY <1>1, <1>3 DEF SeenIsHeld, HeldStays
<1> QED
    BY <1>3, <1>4 DEF SeenIsHeld

(* What is to be shown of a step: what was on its way stays on it or has   *)
(* come to be held; what is newly pooled, and everything pooled when a     *)
(* greeting is handled, is sent or held; and nothing else is sent.         *)
Relays(Wanted) ==
    /\ \A n, m \in Nodes : \A tx \in Wanted : NewTx(tx) \in ToSet(net'[<<n, m>>]) =>
           NewTx(tx) \in ToSet(net[<<n, m>>]) \/ Held(n, tx)'
    /\ \A n, m \in Nodes : {n, m} \in open' /\ <<n, m>> \in shaken' =>
           \A tx \in Pooled(pool'[n]) \cap Wanted :
               \/ Held(m, tx)' \/ NewTx(tx) \in ToSet(net'[<<n, m>>])
               \/ /\ {n, m} \in open /\ <<n, m>> \in shaken /\ tx \in Pooled(pool[n])
                  /\ NewTx(tx) \notin ToSet(net[<<n, m>>])

LEMMA RelaysKeep ==
    ASSUME NEW Wanted, HeldStays(Wanted), Relays(Wanted),
           RelayedIsHeld(Wanted), PooledIsOffered(Wanted)
    PROVE  RelayedIsHeld(Wanted)' /\ PooledIsOffered(Wanted)'
PROOF
<1>1. ASSUME NEW n \in Nodes, NEW m \in Nodes, NEW tx \in Wanted,
             NewTx(tx) \in ToSet(net'[<<n, m>>])
      PROVE  Held(n, tx)'
    BY <1>1 DEF Relays, RelayedIsHeld, HeldStays
<1>2. ASSUME NEW n \in Nodes, NEW m \in Nodes, {n, m} \in open', <<n, m>> \in shaken',
             NEW tx \in Pooled(pool'[n]) \cap Wanted
      PROVE  Held(m, tx)' \/ NewTx(tx) \in ToSet(net'[<<n, m>>])
    BY <1>2 DEF Relays, PooledIsOffered, HeldStays
<1>3. RelayedIsHeld(Wanted)'
    BY <1>1 DEF RelayedIsHeld, NewTx
<1>4. PooledIsOffered(Wanted)'
    BY <1>2 DEF PooledIsOffered, NewTx
<1> QED
    BY <1>3, <1>4

(* A step that sends no transaction, and pools none.                       *)
LEMMA NothingPooled ==
    ASSUME NEW Wanted,
           \A n \in Nodes : Pooled(pool'[n]) \subseteq Pooled(pool[n]),
           \A n, m \in Nodes : \A tx : NewTx(tx) \in ToSet(net'[<<n, m>>]) =>
               NewTx(tx) \in ToSet(net[<<n, m>>]),
           \A n, m \in Nodes : {n, m} \in open' /\ <<n, m>> \in shaken' =>
               /\ {n, m} \in open /\ <<n, m>> \in shaken
               /\ \A tx : NewTx(tx) \in ToSet(net[<<n, m>>]) =>
                      NewTx(tx) \in ToSet(net'[<<n, m>>])
    PROVE  Relays(Wanted)
PROOF
BY DEF Relays

LEMMA SameRelays ==
    ASSUME NEW Wanted, UNCHANGED <<net, open, shaken, pool>>
    PROVE  Relays(Wanted)
PROOF
BY NothingPooled

LEMMA SearchRelays ==
    ASSUME RelayTyped, NEW Wanted, NEW n \in Nodes, Search(n)
    PROVE  Relays(Wanted)
PROOF
<1>1. \A y \in Nodes : Pooled(pool'[y]) \subseteq Pooled(pool[y])
    BY SearchTyped
<1>2. UNCHANGED <<net, open, shaken>>
    BY DEF Search, gossipVars
<1> QED
    BY <1>1, <1>2, NothingPooled

LEMMA RewireRelays ==
    ASSUME RelayTyped, RelayTyped', NEW Wanted,
           NEW n \in Nodes, NEW m \in Nodes, Connect(n, m) \/ Disconnect(n, m),
           pool' = pool
    PROVE  Relays(Wanted)
PROOF
<1>1. Rewired
    BY ConnectRewires, DisconnectRewires DEF RelayTyped
<1>2. PICK hello : hello = Ask("HELLO")
    OBVIOUS
<1>3. ASSUME NEW a \in Nodes, NEW b \in Nodes
      PROVE  \/ net'[<<a, b>>] = << >> /\ {a, b} \notin open'
             \/ net'[<<a, b>>] = <<hello>> /\ <<a, b>> \notin shaken'
             \/ /\ net'[<<a, b>>] = net[<<a, b>>]
                /\ {a, b} \in open /\ (<<a, b>> \in shaken' <=> <<a, b>> \in shaken)
  <2>1. PICK p : p = <<a, b>>
      OBVIOUS
  <2>1a. p \in Nodes \X Nodes /\ p[1] = a /\ p[2] = b
      BY <2>1
  <2>2. \A q \in Nodes \X Nodes : net'[q] # << >> => {q[1], q[2]} \in open'
      BY DEF RelayTyped, GossipTyped
  <2>3. {a, b} \notin open' => net'[<<a, b>>] = << >>
    <3>1. net'[p] # << >> => {p[1], p[2]} \in open'
        BY <2>1a, <2>2
    <3> QED
        BY <2>1, <2>1a, <3>1
  <2> QED
      BY <1>1, <1>2, <2>3 DEF Rewired
<1>4. \A tx : NewTx(tx) \notin ToSet(<< >>)
    BY DEF ToSet
<1>5. \A tx : NewTx(tx) \notin ToSet(<<hello>>)
    BY <1>2 DEF ToSet, NewTx, Ask
<1>6. ASSUME NEW a \in Nodes, NEW b \in Nodes, NEW tx, NewTx(tx) \in ToSet(net'[<<a, b>>])
      PROVE  NewTx(tx) \in ToSet(net[<<a, b>>])
  <2>1. PICK q : q = net'[<<a, b>>]
      OBVIOUS
  <2>2. q # << >> /\ q # <<hello>>
      BY <1>4, <1>5, <1>6, <2>1
  <2> QED
      BY <1>3, <1>6, <2>1, <2>2
<1>7. ASSUME NEW a \in Nodes, NEW b \in Nodes, {a, b} \in open', <<a, b>> \in shaken'
      PROVE  {a, b} \in open /\ <<a, b>> \in shaken /\ net'[<<a, b>>] = net[<<a, b>>]
    BY <1>3, <1>7
<1> QED
    BY <1>6, <1>7, NothingPooled

(* A chain that is only extended orphans nothing, so nothing is put back.  *)
LEMMA FollowedShrinks ==
    ASSUME RelayTyped, GossipTyped(TxBodies, TxNotes)', NEW n \in Nodes, PoolFollows(n),
           Along(chain[n], chain'[n])
    PROVE  \A y \in Nodes : Pooled(pool'[y]) \subseteq Pooled(pool[y])
PROOF
<1>1. PICK old \in ChainSet : old = chain[n]
    BY ChainTypes
<1>2. PICK new \in ChainSet : new = chain'[n]
    BY ChainsAreChains DEF GossipTyped
<1>3. PoolsFit /\ PoolFit(pool[n])
    BY DEF RelayTyped, PoolsFit
<1>4. \A y \in Nodes : y # n => pool'[y] = pool[y]
    BY PoolFollowsIs
<1>5. Pooled(pool'[n]) \subseteq Pooled(pool[n])
  <2>1. CASE new = old
      BY <1>1, <1>2, <2>1, PoolFollowsIs
  <2>2. ASSUME NEW q, PoolFit(q), pool' = [pool EXCEPT ![n] = q]
        PROVE  pool'[n] = q
      BY <1>3, <2>2, OnePool
  <2>3. CASE new # old /\ Front(new) = old
    <3>1. PICK q : q = PoolAfterBlock(pool[n], Last(new), accounts(new), Now)
        OBVIOUS
    <3>2. pool' = [pool EXCEPT ![n] = q]
        BY <1>1, <1>2, <2>3, <3>1 DEF PoolFollows
    <3>3. PoolFit(q) /\ Pooled(q) \subseteq Pooled(pool[n])
        BY <1>3, <3>1, FitAfterBlock
    <3> QED
        BY <2>2, <3>2, <3>3
  <2>4. CASE new # old /\ Front(new) # old
    <3>1. PICK q : q = PoolAfterReorg(pool[n], old, new, accounts(new), Now)
        OBVIOUS
    <3>2. pool' = [pool EXCEPT ![n] = q]
        BY <1>1, <1>2, <2>4, <3>1 DEF PoolFollows
    <3>3. old \in Seq(BlockSet)
        BY DEF ChainSet
    <3>4. PoolFit(q) /\ Pooled(q) \subseteq Unmined(pool[n], old, new)
        BY <1>3, <3>1, <3>3, FitAfterReorg
    <3>5. TxsOf(old) \subseteq TxsOf(new)
        BY <1>1, <1>2, AlongTxs
    <3> QED
        BY <2>2, <3>2, <3>4, <3>5 DEF Unmined
  <2> QED
      BY <2>1, <2>3, <2>4
<1> QED
    BY <1>4, <1>5


(* Nothing is sent but questions, answers and announcements.               *)
NoTxSent(before, after) ==
    \A p \in Pairs : \A tx : NewTx(tx) \in ToSet(after[p]) => NewTx(tx) \in ToSet(before[p])

LEMMA MailedSets ==
    ASSUME NEW before, NetTyped(before, TxBodies, TxNotes),
           NEW n \in Nodes, NEW m \in Nodes, {n, m} \in open,
           NEW messages \in Seq(Messages(TxBodies, TxNotes)),
           NEW after, after = Sent(before, Mail(n, m, messages))
    PROVE  /\ ToSet(after[<<n, m>>]) = ToSet(before[<<n, m>>]) \cup ToSet(messages)
           /\ \A p \in Pairs : p # <<n, m>> => ToSet(after[p]) = ToSet(before[p])
PROOF
BY Mailed

LEMMA MailedNoTx ==
    ASSUME RelayTyped, NEW before, NetTyped(before, TxBodies, TxNotes),
           NEW n \in Nodes, NEW m \in Nodes, {n, m} \in open,
           NEW y \in Messages(TxBodies, TxNotes), y.type # "NEW_TX",
           NEW after, after = Sent(before, To(n, m, y))
    PROVE  NoTxSent(before, after)
PROOF
<1>1. <<y>> \in Seq(Messages(TxBodies, TxNotes)) /\ ToSet(<<y>>) = {y}
    BY DEF ToSet
<1>1a. PICK messages \in Seq(Messages(TxBodies, TxNotes)) : messages = <<y>>
    BY <1>1
<1>2. after = Sent(before, Mail(n, m, messages))
    BY <1>1a DEF To
<1>2a. /\ ToSet(after[<<n, m>>]) = ToSet(before[<<n, m>>]) \cup ToSet(messages)
       /\ \A p \in Pairs : p # <<n, m>> => ToSet(after[p]) = ToSet(before[p])
    BY <1>2, MailedSets
<1>3. \A p \in Pairs : ToSet(after[p]) \subseteq ToSet(before[p]) \cup {y}
    BY <1>1, <1>1a, <1>2a
<1>4. \A tx : NewTx(tx) # y
    BY DEF NewTx
<1> QED
    BY <1>3, <1>4 DEF NoTxSent

LEMMA AnnouncedNoTx ==
    ASSUME RelayTyped, NEW before, NetTyped(before, TxBodies, TxNotes),
           NEW n \in Nodes, NEW peers, peers \subseteq PeersOf(n),
           NEW y \in Messages(TxBodies, TxNotes), y.type # "NEW_TX",
           NEW after, after = Sent(before, Broadcast(n, peers, y))
    PROVE  NetTyped(after, TxBodies, TxNotes) /\ NoTxSent(before, after)
PROOF
<1>1. NetTyped(after, TxBodies, TxNotes) /\ Reached(n, peers, y, before, after)
    BY Announced DEF RelayTyped
<1>2. \A tx : NewTx(tx) # y
    BY DEF NewTx
<1> QED
    BY <1>1, <1>2 DEF NoTxSent, Reached

LEMMA ToldNoTx ==
    ASSUME NEW type \in Asking \cup Telling, NEW c \in Chains(TxBodies)
    PROVE  /\ Tell(type, c).type # "NEW_TX" /\ Ask(type).type # "NEW_TX"
           /\ type \in Telling => Tell(type, c) \in Messages(TxBodies, TxNotes)
           /\ type \in Asking => Ask(type) \in Messages(TxBodies, TxNotes)
PROOF
<1>1. type # "NEW_TX"
    BY DEF Asking, Telling
<1> QED
    BY <1>1, AnswerTypes, QuestionTypes DEF Tell, Ask

(* What a node's pool relays.                                              *)
LEMMA RelayedMempool ==
    ASSUME RelayTyped, NEW n \in Nodes
    PROVE  ToSet(relayMempool(n)) = {NewTx(tx) : tx \in Pooled(pool[n])}
PROOF
<1>1. PICK s \in Seq(SignedTxs) : s = pool[n].txs
    BY DEF RelayTyped, PoolsFit, PoolFit
<1>2. PICK f : f = relayMempool(n)
    OBVIOUS
<1>3. f = [i \in DOMAIN s |-> NewTx(s[i])]
    BY <1>1, <1>2 DEF relayMempool
<1>4. ToSet(f) = {f[i] : i \in DOMAIN f} /\ Pooled(pool[n]) = {s[i] : i \in DOMAIN s}
    BY <1>1 DEF ToSet, Pooled
<1>5. DOMAIN f = DOMAIN s /\ \A i \in DOMAIN s : f[i] = NewTx(s[i])
    BY <1>3
<1> QED
    BY <1>2, <1>4, <1>5

(* The transactions that are sent when a greeting is answered.             *)
LEMMA HelloTxs ==
    ASSUME RelayTyped, NEW m \in Nodes, NEW n \in Nodes, net[<<m, n>>] # << >>,
           HandleHello(n, m, relayMempool(n))
    PROVE  /\ \A p \in Pairs : \A tx : NewTx(tx) \in ToSet(net'[p]) =>
                  NewTx(tx) \in ToSet(Taken(m, n)[p]) \/ (p = <<n, m>> /\ tx \in Pooled(pool[n]))
           /\ \A tx \in Pooled(pool[n]) : NewTx(tx) \in ToSet(net'[<<n, m>>])
PROOF
<1>1. PICK M : M = Messages(TxBodies, TxNotes)
    OBVIOUS
<1>2. PICK mempool \in Seq(M) : mempool = relayMempool(n)
    BY <1>1, RelayMessages, SeqMonotonic DEF Messages
<1>3. PICK query \in M : query = Ask("QUERY_TIP")
    BY <1>1, QuestionTypes DEF Asking
<1>4. PICK one : one = <<query>>
    OBVIOUS
<1>4a. one \in Seq(M) /\ ToSet(one) = {query}
    BY <1>4 DEF ToSet
<1>4b. PICK messages : messages = one \o mempool
    OBVIOUS
<1>4c. one \o mempool \in Seq(M) /\ ToSet(one \o mempool) = ToSet(one) \cup ToSet(mempool)
    BY <1>4a, ConcatSets
<1>5. /\ messages = one \o mempool /\ messages \in Seq(Messages(TxBodies, TxNotes))
      /\ ToSet(messages) = {query} \cup ToSet(mempool)
    BY <1>1, <1>4a, <1>4b, <1>4c
<1>5a. PICK mail \in Seq(Messages(TxBodies, TxNotes)) : mail = messages
    BY <1>5
<1>6. PICK before : before = Taken(m, n)
    OBVIOUS
<1>7. NetTyped(before, TxBodies, TxNotes) /\ {n, m} \in open
    BY <1>6, TypedNet, TakenTyped DEF RelayTyped
<1>7a. {n, m} \in open
    BY <1>7
<1>7b. NetTyped(before, TxBodies, TxNotes)
    BY <1>7
<1>8. net' = Sent(before, Mail(n, m, messages))
    BY <1>2, <1>3, <1>4, <1>5, <1>6 DEF HandleHello
<1>9. /\ ToSet(net'[<<n, m>>]) = ToSet(before[<<n, m>>]) \cup ToSet(messages)
      /\ \A p \in Pairs : p # <<n, m>> => ToSet(net'[p]) = ToSet(before[p])
  <2>1. PICK after : after = net'
      OBVIOUS
  <2>2. after = Sent(before, Mail(n, m, mail))
      BY <1>5a, <1>8, <2>1
  <2>3. /\ ToSet(after[<<n, m>>]) = ToSet(before[<<n, m>>]) \cup ToSet(mail)
        /\ \A p \in Pairs : p # <<n, m>> => ToSet(after[p]) = ToSet(before[p])
      BY <1>7a, <1>7b, <2>2, MailedSets
  <2> QED
      BY <1>5a, <2>1, <2>3
<1>10. ToSet(mempool) = {NewTx(tx) : tx \in Pooled(pool[n])}
    BY <1>2, RelayedMempool
<1>11. \A tx : NewTx(tx) # query
    BY <1>3 DEF NewTx, Ask
<1>12. \A tx, u : NewTx(tx) = NewTx(u) => tx = u
    BY DEF NewTx
<1>13. ASSUME NEW p \in Pairs, NEW tx, NewTx(tx) \in ToSet(net'[p]),
              NewTx(tx) \notin ToSet(before[p])
       PROVE  p = <<n, m>> /\ tx \in Pooled(pool[n])
  <2>1. p = <<n, m>> /\ NewTx(tx) \in ToSet(mempool)
      BY <1>5, <1>9, <1>11, <1>13
  <2> QED
      BY <1>10, <1>12, <2>1
<1>14. \A tx \in Pooled(pool[n]) : NewTx(tx) \in ToSet(net'[<<n, m>>])
    BY <1>5, <1>9, <1>10
<1> QED
    BY <1>6, <1>13, <1>14

(* Blocks and chains carry their transactions themselves.                  *)
LEMMA BlockTxsOnly ==
    ASSUME RelayTyped, NEW m \in Nodes, NEW n \in Nodes, net[<<m, n>>] # << >>,
           NEW c \in Chains(TxBodies), NEW gossip \in BOOLEAN,
           considerBlock(n, m, c, gossip) \/ HandleChain(n, m, c)
    PROVE  NoTxSent(Taken(m, n), net')
PROOF
<1>1. PICK before : before = Taken(m, n)
    OBVIOUS
<1>2. NetTyped(before, TxBodies, TxNotes) /\ {n, m} \in open
    BY <1>1, TypedNet, TakenTyped DEF RelayTyped
<1>3. PICK block \in Messages(TxBodies, TxNotes) :
          block = Tell("NEW_BLOCK", c) /\ block.type # "NEW_TX"
    BY ToldNoTx DEF Telling
<1>4. PICK query \in Messages(TxBodies, TxNotes) :
          query = Ask("QUERY_CHAIN") /\ query.type # "NEW_TX"
    BY ToldNoTx DEF Asking
<1>5. PICK all, others : /\ all = PeersOf(n) /\ others = PeersOf(n) \ {m}
                         /\ all \subseteq PeersOf(n) /\ others \subseteq PeersOf(n)
    OBVIOUS
<1>6. PICK once : once = Sent(before, Broadcast(n, all, block))
    OBVIOUS
<1>7. \/ net' = before \/ net' = once
      \/ net' = Sent(before, To(n, m, query))
      \/ net' = Sent(once, Broadcast(n, others, block))
    BY <1>1, <1>3, <1>4, <1>5, <1>6 DEF considerBlock, HandleChain
<1>8. PICK after : after = net'
    OBVIOUS
<1>9. NetTyped(once, TxBodies, TxNotes) /\ NoTxSent(before, once)
    BY <1>2, <1>3, <1>5, <1>6, AnnouncedNoTx
<1>10. CASE after = before
    BY <1>1, <1>8, <1>10 DEF NoTxSent
<1>11. CASE after = once
    BY <1>1, <1>8, <1>9, <1>11
<1>12. CASE after = Sent(before, To(n, m, query))
    BY <1>1, <1>2, <1>4, <1>8, <1>12, MailedNoTx
<1>13. CASE after = Sent(once, Broadcast(n, others, block))
  <2>1. NoTxSent(once, after)
      BY <1>3, <1>5, <1>9, <1>13, AnnouncedNoTx
  <2> QED
      BY <1>1, <1>8, <1>9, <2>1 DEF NoTxSent
<1> QED
    BY <1>7, <1>8, <1>10, <1>11, <1>12, <1>13

LEMMA DeliverTxs ==
    ASSUME RelayTyped, NEW m \in Nodes, NEW n \in Nodes, Deliver(m, n, relayMempool(n)),
           NEW x, x = Head(net[<<m, n>>])
    PROVE  /\ \A p \in Pairs : \A tx : NewTx(tx) \in ToSet(net'[p]) =>
                  NewTx(tx) \in ToSet(Taken(m, n)[p]) \/ (p = <<n, m>> /\ tx \in Pooled(pool[n]))
           /\ x.type = "HELLO" => \A tx \in Pooled(pool[n]) : NewTx(tx) \in ToSet(net'[<<n, m>>])
PROOF
<1>1. net[<<m, n>>] # << >>
    BY DEF Deliver
<1>2. GossipTyped(TxBodies, TxNotes) /\ chain[n] \in Chains(TxBodies)
    BY DEF RelayTyped, GossipTyped
<1>3. x \in Messages(TxBodies, TxNotes)
    BY <1>1, <1>2, TypedNet, TakenTyped
<1>4. x.type \in Telling => x.chain \in Chains(TxBodies)
    BY <1>3, MessageKinds, TxCarried
<1>5. NetTyped(Taken(m, n), TxBodies, TxNotes) /\ {n, m} \in open
    BY <1>1, <1>2, TypedNet, TakenTyped
<1>6. CASE x.type = "HELLO" /\ HandleHello(n, m, relayMempool(n))
    BY <1>1, <1>6, HelloTxs
<1>7. ASSUME NEW type \in Telling, type # "HELLO",
             net' = Sent(Taken(m, n), To(n, m, Tell(type, chain[n])))
      PROVE  NoTxSent(Taken(m, n), net')
  <2>1. PICK y \in Messages(TxBodies, TxNotes) :
            y = Tell(type, chain[n]) /\ y.type # "NEW_TX"
      BY <1>2, ToldNoTx
  <2>2. PICK before, after : before = Taken(m, n) /\ after = net'
      OBVIOUS
  <2> QED
      BY <1>5, <1>7, <2>1, <2>2, MailedNoTx
<1>8. CASE x.type \in {"QUERY_TIP", "QUERY_CHAIN"}
           /\ (HandleQueryTip(n, m) \/ HandleQueryChain(n, m))
  <2>1. \E type \in Telling : net' = Sent(Taken(m, n), To(n, m, Tell(type, chain[n])))
      BY <1>8 DEF HandleQueryTip, HandleQueryChain, Telling
  <2>2. NoTxSent(Taken(m, n), net')
      BY <1>7, <2>1 DEF Telling
  <2> QED
      BY <1>8, <2>2 DEF NoTxSent
<1>9. CASE x.type \in {"TIP", "NEW_BLOCK", "CHAIN"}
           /\ (HandleBlock(n, m, x) \/ HandleChain(n, m, x.chain))
  <2>1. PICK c \in Chains(TxBodies) : c = x.chain
      BY <1>4, <1>9 DEF Telling
  <2>2. PICK gossip \in BOOLEAN : gossip = (x.type = "NEW_BLOCK")
      OBVIOUS
  <2>3. considerBlock(n, m, c, gossip) \/ HandleChain(n, m, c)
      BY <1>9, <2>1, <2>2 DEF HandleBlock
  <2>4. NoTxSent(Taken(m, n), net')
      BY <1>1, <2>3, BlockTxsOnly
  <2> QED
      BY <1>9, <2>4 DEF NoTxSent
<1> QED
    BY <1>6, <1>8, <1>9 DEF Deliver

(* n may have pooled a transaction and told peers of it.                   *)
Forwarding(Wanted, n, tx, peers, before) ==
    /\ UNCHANGED <<open, shaken>>
    /\ \A y \in Nodes : y # n => pool'[y] = pool[y]
    /\ \A p \in Pairs : ToSet(before[p]) \subseteq ToSet(net[p])
    /\ \A a, b \in Nodes : \A u \in Wanted : NewTx(u) \in ToSet(net[<<a, b>>]) =>
           NewTx(u) \in ToSet(before[<<a, b>>]) \/ Held(b, u)'
    /\ \/ pool' = pool /\ net' = before
       \/ /\ Pooled(pool'[n]) = Pooled(pool[n]) \cup {tx}
          /\ net' = Sent(before, Broadcast(n, peers, NewTx(tx)))
          /\ \A b \in PeersOf(n) \ peers : tx \in Wanted => Held(b, tx)'

LEMMA ForwardedRelays ==
    ASSUME RelayTyped, NEW Wanted \in SUBSET SignedTxs, NEW n \in Nodes, NEW tx \in SignedTxs,
           NEW before, NetTyped(before, TxBodies, TxNotes),
           NEW peers, peers \subseteq PeersOf(n),
           Forwarding(Wanted, n, tx, peers, before)
    PROVE  Relays(Wanted)
PROOF
<1> USE DEF Forwarding
<1>1. PICK after : after = net'
    OBVIOUS
<1>2. \A a, b \in Nodes : <<a, b>> \in Pairs /\ <<a, b>>[1] = a
    BY DEF Pairs
<1>3. CASE pool' = pool /\ after = before
  <2>1. \A a, b \in Nodes : \A u : NewTx(u) \in ToSet(after[<<a, b>>]) =>
            NewTx(u) \in ToSet(net[<<a, b>>])
      BY <1>2, <1>3
  <2>2. \A a, b \in Nodes : \A u \in Wanted : NewTx(u) \in ToSet(net[<<a, b>>]) =>
            NewTx(u) \in ToSet(after[<<a, b>>]) \/ Held(b, u)'
      BY <1>3
  <2> QED
      BY <1>1, <1>3, <2>1, <2>2 DEF Relays
<1>4. CASE /\ Pooled(pool'[n]) = Pooled(pool[n]) \cup {tx}
           /\ after = Sent(before, Broadcast(n, peers, NewTx(tx)))
           /\ \A b \in PeersOf(n) \ peers : tx \in Wanted => Held(b, tx)'
  <2>1. PICK msg \in Messages(TxBodies, TxNotes) : msg = NewTx(tx)
      BY NoteTypes
  <2>2. Reached(n, peers, msg, before, after)
      BY <1>4, <2>1, Announced DEF RelayTyped
  <2>3. \A u : NewTx(u) = msg => u = tx
      BY <2>1 DEF NewTx
  <2>4. ASSUME NEW a \in Nodes, NEW b \in Nodes, NEW u \in Wanted,
               NewTx(u) \in ToSet(after[<<a, b>>])
        PROVE  NewTx(u) \in ToSet(net[<<a, b>>]) \/ Held(a, u)'
    <3>1. CASE NewTx(u) \in ToSet(before[<<a, b>>])
        BY <1>2, <3>1
    <3>2. CASE NewTx(u) \notin ToSet(before[<<a, b>>])
      <4>1. a = n /\ u = tx
          BY <1>2, <2>2, <2>3, <2>4, <3>2 DEF Reached
      <4> QED
          BY <1>4, <4>1 DEF Held
    <3> QED
        BY <3>1, <3>2
  <2>5. ASSUME NEW a \in Nodes, NEW b \in Nodes, <<a, b>> \in shaken,
               NEW u \in Pooled(pool'[a]) \cap Wanted
        PROVE  \/ Held(b, u)' \/ NewTx(u) \in ToSet(after[<<a, b>>])
               \/ u \in Pooled(pool[a]) /\ NewTx(u) \notin ToSet(net[<<a, b>>])
    <3>1. CASE u \in Pooled(pool[a])
      <4>1. ToSet(before[<<a, b>>]) \subseteq ToSet(after[<<a, b>>])
          BY <1>2, <2>2 DEF Reached, Extends
      <4> QED
          BY <2>5, <3>1, <4>1
    <3>2. CASE u \notin Pooled(pool[a])
      <4>1. a = n /\ u = tx
          BY <1>4, <2>5, <3>2
      <4>2. b \in PeersOf(n)
          BY <2>5, <4>1 DEF PeersOf
      <4>3. b \in peers => NewTx(u) \in ToSet(after[<<a, b>>])
          BY <2>1, <2>2, <4>1 DEF Reached
      <4> QED
          BY <1>4, <2>5, <4>1, <4>2, <4>3
    <3> QED
        BY <3>1, <3>2
  <2> QED
      BY <1>1, <2>4, <2>5 DEF Relays
<1> QED
    BY <1>1, <1>3, <1>4

LEMMA HandleTxRelays ==
    ASSUME RelayTyped, NEW Wanted \in SUBSET SignedTxs, HeldStays(Wanted), SeenIsHeld(Wanted)',
           RelayedIsHeld(Wanted), NEW m \in Nodes, NEW n \in Nodes, net[<<m, n>>] # << >>,
           NEW tx \in SignedTxs, Head(net[<<m, n>>]) = NewTx(tx), HandleTx(n, m, tx)
    PROVE  Relays(Wanted)
PROOF
<1>1. PICK before : before = Taken(m, n)
    OBVIOUS
<1>2. NetTyped(before, TxBodies, TxNotes)
    BY <1>1, TypedNet, TakenTyped DEF RelayTyped
<1>3. PICK peers : peers = PeersOf(n) \ {m} /\ peers \subseteq PeersOf(n)
    OBVIOUS
<1>4. PICK M : M = Messages(TxBodies, TxNotes)
    OBVIOUS
<1>5. net \in Queues(M)
    BY <1>4, TypedNet DEF NetTyped, RelayTyped
<1>6. /\ \A p \in Pairs : p # <<m, n>> => before[p] = net[p]
      /\ ToSet(net[<<m, n>>]) = {NewTx(tx)} \cup ToSet(before[<<m, n>>])
    BY <1>1, <1>5, TakenIs
<1>7. \A p \in Pairs : ToSet(before[p]) \subseteq ToSet(net[p])
    BY <1>6
<1>8. \A u : NewTx(u) = NewTx(tx) => u = tx
    BY DEF NewTx
<1>9. tx \in Wanted => Held(n, tx)' /\ Held(m, tx)'
  <2>1. tx \in seenTx'[n]
    <3>1. seenTx' = [seenTx EXCEPT ![n] = @ \cup {tx}]
        BY DEF HandleTx
    <3> QED
        BY <3>1 DEF RelayTyped
  <2>2. NewTx(tx) \in ToSet(net[<<m, n>>])
      BY <1>6
  <2> QED
      BY <2>1, <2>2 DEF SeenIsHeld, RelayedIsHeld, HeldStays
<1>10. ASSUME NEW a \in Nodes, NEW b \in Nodes, NEW u \in Wanted,
              NewTx(u) \in ToSet(net[<<a, b>>])
       PROVE  NewTx(u) \in ToSet(before[<<a, b>>]) \/ Held(b, u)'
  <2>1. PICK p \in Pairs : p = <<a, b>>
      BY DEF Pairs
  <2>2. CASE p # <<m, n>>
      BY <1>6, <1>10, <2>1, <2>2
  <2>3. CASE p = <<m, n>>
    <3>1. b = n
        BY <2>1, <2>3
    <3> QED
        BY <1>6, <1>8, <1>9, <1>10, <2>1, <2>3, <3>1
  <2> QED
      BY <2>2, <2>3
<1>11. /\ UNCHANGED <<open, shaken>> /\ \A y \in Nodes : y # n => pool'[y] = pool[y]
    BY HandleTxDone
<1>12. \/ pool' = pool /\ net' = before
       \/ /\ Pooled(pool'[n]) = Pooled(pool[n]) \cup {tx}
          /\ net' = Sent(before, Broadcast(n, peers, NewTx(tx)))
  <2>1. CASE ~ (tx \notin seenTx[n] /\ Acceptable(pool[n], tx, accountsOf(n), Now))
      BY <1>1, <2>1 DEF HandleTx
  <2>2. CASE tx \notin seenTx[n] /\ Acceptable(pool[n], tx, accountsOf(n), Now)
    <3>1. PICK q : q = add(pool[n], tx, accountsOf(n), Now)
        OBVIOUS
    <3>2. /\ pool' = [pool EXCEPT ![n] = q]
          /\ net' = Sent(before, Broadcast(n, peers, NewTx(tx)))
        BY <1>1, <1>3, <2>2, <3>1 DEF HandleTx
    <3>3. PoolsFit /\ PoolFit(pool[n])
        BY DEF RelayTyped, PoolsFit
    <3>4. PoolFit(q) /\ Pooled(q) = Pooled(pool[n]) \cup {tx}
        BY <2>2, <3>1, <3>3, FitAdd
    <3> QED
        BY <3>2, <3>3, <3>4, OnePool
  <2> QED
      BY <2>1, <2>2
<1>13. \A b \in PeersOf(n) \ peers : tx \in Wanted => Held(b, tx)'
  <2>1. \A b \in PeersOf(n) \ peers : b = m
      BY <1>3
  <2> QED
      BY <1>9, <2>1 DEF Held, accountsOf
<1>14. \/ pool' = pool /\ net' = before
       \/ /\ Pooled(pool'[n]) = Pooled(pool[n]) \cup {tx}
          /\ net' = Sent(before, Broadcast(n, peers, NewTx(tx)))
          /\ \A b \in PeersOf(n) \ peers : tx \in Wanted => Held(b, tx)'
    BY <1>12, <1>13
<1>15. \A a, b \in Nodes : \A u \in Wanted : NewTx(u) \in ToSet(net[<<a, b>>]) =>
           NewTx(u) \in ToSet(before[<<a, b>>]) \/ Held(b, u)'
    BY <1>10
<1>16. Forwarding(Wanted, n, tx, peers, before)
    BY <1>7, <1>11, <1>14, <1>15 DEF Forwarding
<1> QED
    BY <1>2, <1>3, <1>16, ForwardedRelays

LEMMA SubmitRelays ==
    ASSUME RelayTyped, NEW Wanted \in SUBSET SignedTxs, NEW k \in DOMAIN sends, Submit(k)
    PROVE  Relays(Wanted)
PROOF
<1>0. PICK row \in Sends : row = sends[k]
    BY DEF RelayTyped, ClientTyped
<1>1. PICK tx \in SignedTxs : tx = sends[k].tx
    BY <1>0 DEF Sends
<1>2. PICK before : before = net
    OBVIOUS
<1>3. NetTyped(before, TxBodies, TxNotes) /\ Home \in Nodes
    BY <1>2, TypedNet, RelayAssumption DEF RelayTyped
<1>4. UNCHANGED <<open, shaken>> /\ \A y \in Nodes : y # Home => pool'[y] = pool[y]
    BY SubmitDone
<1>5. PoolsFit /\ PoolFit(pool[Home])
    BY <1>3 DEF RelayTyped, PoolsFit
<1>6. PICK peers : peers = PeersOf(Home) /\ peers \subseteq PeersOf(Home)
    OBVIOUS
<1>7. PICK q : q = add(pool[Home], tx, accountsOf(Home), Now)
    OBVIOUS
<1>8. pool' = [pool EXCEPT ![Home] = q]
    BY <1>1, <1>7 DEF Submit
<1>9. \/ pool' = pool /\ net' = before
      \/ /\ Pooled(pool'[Home]) = Pooled(pool[Home]) \cup {tx}
         /\ net' = Sent(before, Broadcast(Home, peers, NewTx(tx)))
  <2>1. CASE Acceptable(pool[Home], tx, accountsOf(Home), Now)
    <3>1. net' = Sent(before, Broadcast(Home, peers, NewTx(tx)))
        BY <1>1, <1>2, <1>6, <2>1 DEF Submit
    <3>2. PoolFit(q) /\ Pooled(q) = Pooled(pool[Home]) \cup {tx}
        BY <1>5, <1>7, <2>1, FitAdd
    <3> QED
        BY <1>3, <1>5, <1>8, <3>1, <3>2, OnePool
  <2>2. CASE ~ Acceptable(pool[Home], tx, accountsOf(Home), Now)
    <3>1. net' = before
        BY <1>1, <1>2, <2>2 DEF Submit
    <3>2. q = pool[Home]
        BY <1>5, <1>7, <2>2, FitAdd
    <3> QED
        BY <1>5, <1>8, <3>1, <3>2 DEF PoolsFit
  <2> QED
      BY <2>1, <2>2
<1>10. \A b \in PeersOf(Home) \ peers : tx \in Wanted => Held(b, tx)'
    BY <1>6
<1>11. /\ \A p \in Pairs : ToSet(before[p]) \subseteq ToSet(net[p])
       /\ \A a, b \in Nodes : \A u \in Wanted : NewTx(u) \in ToSet(net[<<a, b>>]) =>
              NewTx(u) \in ToSet(before[<<a, b>>]) \/ Held(b, u)'
    BY <1>2
<1>12. \/ pool' = pool /\ net' = before
       \/ /\ Pooled(pool'[Home]) = Pooled(pool[Home]) \cup {tx}
          /\ net' = Sent(before, Broadcast(Home, peers, NewTx(tx)))
          /\ \A b \in PeersOf(Home) \ peers : tx \in Wanted => Held(b, tx)'
    BY <1>9, <1>10
<1>13. Forwarding(Wanted, Home, tx, peers, before)
    BY <1>4, <1>11, <1>12 DEF Forwarding
<1> QED
    BY <1>3, <1>6, <1>13, ForwardedRelays

LEMMA SliceRelays ==
    ASSUME RelayTyped, RelayTyped', Extending, NEW Wanted, NEW n \in Nodes, Slice(n)
    PROVE  Relays(Wanted)
PROOF
<1>1. PICK body \in TxBodies : body = search[n][2]
    BY SearchIs DEF Slice
<1>2. ASSUME NEW clock \in Clocks, Mine(n, clock, body), PoolFollows(n)
      PROVE  Relays(Wanted)
  <2>1. /\ GossipTyped(TxBodies, TxNotes)' /\ Speaks(n, net) /\ shaken' = shaken
      BY <1>2, MineDone, TxCarried DEF RelayTyped
  <2>2. \A y \in Nodes : Pooled(pool'[y]) \subseteq Pooled(pool[y])
      BY <1>2, <2>1, FollowedShrinks DEF Extending
  <2>3. open' = open /\ \A p \in Pairs : ToSet(net[p]) \subseteq ToSet(net'[p])
      BY <2>1 DEF Speaks, Extends
  <2>4. PICK c : c = Append(chain[n], [timestamp  |-> CandidateTime(chain[n], clock),
                               difficulty |-> expectedDifficulty(chain[n]),
                               miner      |-> n,
                               txs        |-> body])
      OBVIOUS
  <2>5. /\ net' = Sent(net, Broadcast(n, PeersOf(n), Tell("NEW_BLOCK", c)))
        /\ chain' = [chain EXCEPT ![n] = c]
      BY <1>2, <2>4 DEF Mine
  <2>6. c \in Chains(TxBodies)
    <3>1. chain'[n] = c
        BY <2>5 DEF RelayTyped, GossipTyped
    <3> QED
        BY <2>1, <3>1 DEF GossipTyped
  <2>7. PICK y \in Messages(TxBodies, TxNotes) :
            y = Tell("NEW_BLOCK", c) /\ y.type # "NEW_TX"
      BY <2>6, ToldNoTx DEF Telling
  <2>8. PICK before, after, peers : /\ before = net /\ after = net'
                                    /\ peers = PeersOf(n) /\ peers \subseteq PeersOf(n)
      OBVIOUS
  <2>9. NetTyped(before, TxBodies, TxNotes)
      BY <2>8, TypedNet DEF RelayTyped
  <2>10. NoTxSent(before, after)
      BY <2>5, <2>7, <2>8, <2>9, AnnouncedNoTx
  <2>11. \A a, b \in Nodes : <<a, b>> \in Pairs
      BY DEF Pairs
  <2> QED
      BY <2>1, <2>2, <2>3, <2>8, <2>10, <2>11, NothingPooled DEF NoTxSent
<1>3. CASE UNCHANGED <<gossipVars, pool>>
    BY <1>3, SameRelays DEF gossipVars
<1> QED
    BY <1>1, <1>2, <1>3 DEF Slice

LEMMA DeliverRelays ==
    ASSUME RelayTyped, RelayTyped', Extending, NEW Wanted \in SUBSET SignedTxs,
           HeldStays(Wanted), NEW m \in Nodes, NEW n \in Nodes,
           Deliver(m, n, relayMempool(n)), PoolFollows(n)
    PROVE  Relays(Wanted)
PROOF
<1>1. PICK x : x = Head(net[<<m, n>>])
    OBVIOUS
<1>2. net[<<m, n>>] # << >> /\ GossipTyped(TxBodies, TxNotes)
    BY DEF Deliver, RelayTyped
<1>3. PICK before : before = Taken(m, n)
    OBVIOUS
<1>4. /\ GossipTyped(TxBodies, TxNotes)' /\ Answered(m, n, x) /\ x.type \in Asking \cup Telling
    BY <1>1, <1>2, DeliverDone, RelayMessages, TxCarried
<1>5. /\ \A p \in Pairs : \A tx : NewTx(tx) \in ToSet(net'[p]) =>
             NewTx(tx) \in ToSet(before[p]) \/ (p = <<n, m>> /\ tx \in Pooled(pool[n]))
      /\ x.type = "HELLO" => \A tx \in Pooled(pool[n]) : NewTx(tx) \in ToSet(net'[<<n, m>>])
    BY <1>1, <1>3, DeliverTxs
<1>6. PICK M : M = Messages(TxBodies, TxNotes)
    OBVIOUS
<1>7. net \in Queues(M)
    BY <1>2, <1>6, TypedNet DEF NetTyped
<1>8. /\ \A p \in Pairs : p # <<m, n>> => before[p] = net[p]
      /\ ToSet(net[<<m, n>>]) = {x} \cup ToSet(before[<<m, n>>])
    BY <1>1, <1>2, <1>3, <1>7, TakenIs
<1>9. /\ open' = open /\ \A p \in Pairs : ToSet(before[p]) \subseteq ToSet(net'[p])
    BY <1>3, <1>4 DEF Answered, Speaks, Extends
<1>10. \A tx : NewTx(tx) # x
  <2>1. x.type # "NEW_TX"
      BY <1>4 DEF Asking, Telling
  <2> QED
      BY <2>1 DEF NewTx
<1>11. \A p \in Pairs : \A tx : NewTx(tx) \in ToSet(net[p]) <=> NewTx(tx) \in ToSet(before[p])
    BY <1>8, <1>10
<1>12. \A y \in Nodes : Pooled(pool'[y]) \subseteq Pooled(pool[y])
    BY <1>4, FollowedShrinks DEF Extending
<1>13. ASSUME NEW a \in Nodes, NEW b \in Nodes, NEW tx \in Wanted,
              NewTx(tx) \in ToSet(net'[<<a, b>>])
       PROVE  NewTx(tx) \in ToSet(net[<<a, b>>]) \/ Held(a, tx)'
  <2>1. PICK p \in Pairs : p = <<a, b>>
      BY DEF Pairs
  <2>2. CASE NewTx(tx) \in ToSet(before[p])
      BY <1>11, <2>1, <2>2
  <2>3. CASE p = <<n, m>> /\ tx \in Pooled(pool[n])
    <3>1. a = n
        BY <2>1, <2>3
    <3>2. Held(a, tx)
        BY <2>3, <3>1 DEF Held
    <3> QED
        BY <3>2 DEF HeldStays
  <2> QED
      BY <1>5, <1>13, <2>1, <2>2, <2>3
<1>14. ASSUME NEW a \in Nodes, NEW b \in Nodes, {a, b} \in open', <<a, b>> \in shaken',
              NEW tx \in Pooled(pool'[a]) \cap Wanted
       PROVE  \/ NewTx(tx) \in ToSet(net'[<<a, b>>])
              \/ /\ {a, b} \in open /\ <<a, b>> \in shaken /\ tx \in Pooled(pool[a])
                 /\ NewTx(tx) \notin ToSet(net[<<a, b>>])
  <2>1. PICK p \in Pairs : p = <<a, b>>
      BY DEF Pairs
  <2>2. tx \in Pooled(pool[a]) /\ {a, b} \in open
      BY <1>9, <1>12, <1>14
  <2>3. CASE p \in shaken
      BY <1>9, <1>11, <2>1, <2>2, <2>3
  <2>4. CASE p \notin shaken
    <3>1. x.type = "HELLO" /\ shaken' = shaken \cup {<<n, m>>}
        BY <1>4, <1>14, <2>1, <2>4 DEF Answered
    <3>2. p = <<n, m>>
        BY <1>14, <2>1, <2>4, <3>1
    <3>3. a = n
        BY <2>1, <3>2
    <3> QED
        BY <1>5, <2>1, <2>2, <3>1, <3>2, <3>3
  <2> QED
      BY <2>3, <2>4
<1> QED
    BY <1>13, <1>14 DEF Relays


(* Where each wanted transaction is, or is on its way to.                  *)
PoolsInv(miner, Wanted) ==
    /\ RelayInv /\ OneChain(miner)
    /\ SeenIsHeld(Wanted) /\ RelayedIsHeld(Wanted) /\ PooledIsOffered(Wanted)

LEMMA HandleRelays ==
    ASSUME RelayTyped, RelayTyped', Extending, NEW Wanted \in SUBSET SignedTxs,
           HeldStays(Wanted), SeenIsHeld(Wanted)', RelayedIsHeld(Wanted),
           NEW m \in Nodes, NEW n \in Nodes, Handle(m, n)
    PROVE  Relays(Wanted)
PROOF
<1>1. PICK x : x = Head(net[<<m, n>>])
    OBVIOUS
<1>2. CASE x.type = "NEW_TX" /\ x.tx \in SignedTxs /\ HandleTx(n, m, x.tx)
  <2>1. net[<<m, n>>] # << >> /\ x \in Messages(TxBodies, TxNotes)
      BY <1>1, HandleIs, TypedNet, TakenTyped DEF RelayTyped
  <2>2. x = NewTx(x.tx)
    <3>1. x \notin Questions /\ x \notin Answers(TxBodies)
        BY <1>2 DEF Questions, Answers, Asking, Telling
    <3>2. x \in TxNotes
        BY <2>1, <3>1 DEF Messages
    <3> QED
        BY <1>2, <3>2 DEF TxNotes, NewTx
  <2>3. PICK tx \in SignedTxs : x = NewTx(tx) /\ HandleTx(n, m, tx)
      BY <1>2, <2>2
  <2> QED
      BY <1>1, <2>1, <2>3, HandleTxRelays
<1>3. CASE Deliver(m, n, relayMempool(n)) /\ PoolFollows(n)
    BY <1>3, DeliverRelays
<1> QED
    BY <1>1, <1>2, <1>3, HandleIs

LEMMA PoolsStep ==
    ASSUME OneDifficulty, NEW miner \in Nodes, Miners \subseteq {miner},
           NEW Wanted \in SUBSET SignedTxs, PoolsInv(miner, Wanted), [RelayNext]_relayVars,
           TurnedAway \cap Wanted = {}
    PROVE  PoolsInv(miner, Wanted)'
PROOF
<1>1. RelayInv' /\ RelayTyped /\ RelayTyped'
    BY RelayInvStep DEF PoolsInv, RelayInv
<1>2. OneChain(miner)' /\ Extending
    BY <1>1, OneChainStep DEF PoolsInv
<1>3. HeldStays(Wanted) /\ SeenIsHeld(Wanted)'
    BY <1>1, <1>2, StaysHeld DEF PoolsInv
<1>4. RelayedIsHeld(Wanted)
    BY DEF PoolsInv
<1>5. ASSUME UNCHANGED <<net, open, shaken, pool>>
      PROVE  Relays(Wanted)
    BY <1>5, SameRelays
<1>6. ASSUME NEW n \in Nodes, NEW m \in Nodes, Connect(n, m) \/ Disconnect(n, m),
             UNCHANGED <<poolVars, clientVars>>
      PROVE  Relays(Wanted)
    BY <1>1, <1>6, RewireRelays DEF poolVars
<1>7. ASSUME NEW n \in Nodes, NEW c, Forget(n, c), UNCHANGED <<poolVars, clientVars>>
      PROVE  UNCHANGED <<net, open, shaken, pool>>
    BY <1>7 DEF Forget, poolVars
<1>8. ASSUME NEW n \in Nodes, NEW tx, ForgetTx(n, tx)
      PROVE  UNCHANGED <<net, open, shaken, pool>>
    BY <1>8 DEF ForgetTx, gossipVars
<1>9. ASSUME NEW k \in DOMAIN sends, LoseAnswer(k) \/ Sign(k) \/ Return(k)
      PROVE  UNCHANGED <<net, open, shaken, pool>>
    BY <1>9 DEF LoseAnswer, Sign, Return, gossipVars, poolVars
<1>10. AskNonce => UNCHANGED <<net, open, shaken, pool>>
    BY DEF AskNonce, gossipVars, poolVars
<1>11. ASSUME NEW k \in DOMAIN sends, Submit(k)
       PROVE  Relays(Wanted)
    BY <1>1, <1>11, SubmitRelays
<1>12. ASSUME NEW n \in Nodes, Search(n)
       PROVE  Relays(Wanted)
    BY <1>1, <1>12, SearchRelays
<1>13. ASSUME NEW n \in Nodes, Slice(n)
       PROVE  Relays(Wanted)
    BY <1>1, <1>2, <1>13, SliceRelays
<1>14. ASSUME NEW m \in Nodes, NEW n \in Nodes, Handle(m, n)
       PROVE  Relays(Wanted)
    BY <1>1, <1>2, <1>3, <1>4, <1>14, HandleRelays
<1>15. UNCHANGED <<gossipVars, poolVars, clientVars>> => UNCHANGED <<net, open, shaken, pool>>
    BY DEF gossipVars, poolVars
<1>16. Relays(Wanted)
    BY <1>5, <1>6, <1>7, <1>8, <1>9, <1>10, <1>11, <1>12, <1>13, <1>14, <1>15, RelaySteps
<1>17. RelayedIsHeld(Wanted)' /\ PooledIsOffered(Wanted)'
    BY <1>3, <1>16, RelaysKeep DEF PoolsInv
<1> QED
    BY <1>1, <1>2, <1>3, <1>17 DEF PoolsInv

(* Nothing is turned away when nothing happens.                            *)
LEMMA NothingTurnedAway ==
    ASSUME UNCHANGED relayVars
    PROVE  TurnedAway = {}
PROOF
<1>1. seenTx' = seenTx /\ pool' = pool
    BY DEF relayVars
<1>2. ASSUME NEW n \in Nodes, NEW tx \in Pooled(pool[n]) \cup (seenTx'[n] \ seenTx[n])
      PROVE  Held(n, tx)'
    BY <1>1, <1>2 DEF Held
<1> QED
    BY <1>2 DEF TurnedAway

(* What was submitted before all nodes have, as far as it is wanted.       *)
PlantedAlike(Wanted) ==
    \A n, m \in Nodes : Pooled(Planted[n]) \cap Wanted \subseteq Pooled(Planted[m])

LEMMA PoolsInit ==
    ASSUME RelayInit, NEW miner \in Nodes, NEW Wanted \in SUBSET SignedTxs, PlantedAlike(Wanted)
    PROVE  PoolsInv(miner, Wanted)
PROOF
<1>1. RelayInv
    BY RelayInitTyped, InitExpectations DEF RelayInv, RelayInit
<1>2. OneChain(miner)
    BY OneChainInit
<1>3. /\ pool = Planted /\ open = {}
      /\ \A n \in Nodes : seenTx[n] = UNION {Pooled(Planted[m]) : m \in Nodes}
      /\ \A p \in Pairs : net[p] = << >>
    BY DEF RelayInit, GossipInit, NoMail, Pairs
<1>4. SeenIsHeld(Wanted)
  <2>1. ASSUME NEW n \in Nodes, NEW tx \in seenTx[n] \cap Wanted
        PROVE  Held(n, tx)
    <3>1. PICK m \in Nodes : tx \in Pooled(Planted[m])
        BY <1>3, <2>1
    <3>2. tx \in Pooled(pool[n])
        BY <1>3, <2>1, <3>1 DEF PlantedAlike
    <3> QED
        BY <3>2 DEF Held
  <2> QED
      BY <2>1 DEF SeenIsHeld
<1>5. RelayedIsHeld(Wanted)
  <2>1. \A n, m \in Nodes : ToSet(net[<<n, m>>]) = {}
    <3>1. ToSet(<< >>) = {}
        BY DEF ToSet
    <3>2. \A n, m \in Nodes : net[<<n, m>>] = << >>
        BY <1>3 DEF Pairs
    <3> QED
        BY <3>1, <3>2
  <2> QED
      BY <2>1 DEF RelayedIsHeld
<1>6. PooledIsOffered(Wanted)
    BY <1>3 DEF PooledIsOffered
<1> QED
    BY <1>1, <1>2, <1>4, <1>5, <1>6 DEF PoolsInv

(* With one miner, no step of anybody loses a wanted transaction that no   *)
(* node turns away: what one node has pooled its neighbour holds, or it is *)
(* on its way, or the neighbour's greeting, which brings it, is awaited.   *)
THEOREM NothingIsLost ==
    ASSUME OneDifficulty, NEW miner \in Nodes, Miners \subseteq {miner},
           NEW Wanted \in SUBSET SignedTxs, PlantedAlike(Wanted)
    PROVE  RelaySpec /\ [][TurnedAway \cap Wanted = {}]_relayVars => []PoolsInv(miner, Wanted)
PROOF
<1>1. RelayInit => PoolsInv(miner, Wanted)
    BY PoolsInit
<1>2. /\ PoolsInv(miner, Wanted) /\ [RelayNext]_relayVars
      /\ [TurnedAway \cap Wanted = {}]_relayVars
      => PoolsInv(miner, Wanted)'
  <2> SUFFICES ASSUME PoolsInv(miner, Wanted), [RelayNext]_relayVars,
                      [TurnedAway \cap Wanted = {}]_relayVars
               PROVE  PoolsInv(miner, Wanted)'
      OBVIOUS
  <2>1. TurnedAway \cap Wanted = {}
      BY NothingTurnedAway
  <2> QED
      BY <2>1, PoolsStep
<1> QED
    BY <1>1, <1>2, PTL DEF RelaySpec

(* In a quiet network all chains are the miner's, and a wanted transaction *)
(* whose nonce is free at one node has gone from neighbour to neighbour.   *)
LEMMA QuietPools ==
    ASSUME OneDifficulty, Connected, NEW miner \in Nodes, NEW Wanted \in SUBSET SignedTxs,
           PoolsInv(miner, Wanted), Quiet, NEW n \in Nodes, NEW m \in Nodes,
           NEW tx \in Pooled(pool[n]) \cap Wanted, CanApply(accountsOf(m), tx)
    PROVE  tx \in Pooled(pool[m])
PROOF
<1>1. RelayTyped /\ Expectations /\ OneChain(miner) /\ GossipTyped(TxBodies, TxNotes)
    BY DEF PoolsInv, RelayInv, RelayTyped
<1>2. \A y \in Nodes : chain[y] \in ChainSet /\ chain[y] \in Chains(TxBodies)
    BY <1>1, ChainTypes DEF GossipTyped
<1>3. ASSUME NEW y \in Nodes
      PROVE  chain[y] = chain[miner]
  <2>2. PICK c \in Chains(TxBodies), e \in Chains(TxBodies) : c = chain[y] /\ e = chain[miner]
      BY <1>2
  <2>3. Len(c) = Len(e)
      BY <1>1, <2>2, QuietLengths
  <2>4. Along(c, e) /\ c \in ChainSet /\ e \in ChainSet
      BY <1>1, <1>2, <2>2 DEF OneChain
  <2>5. Len(c) >= Len(e)
      BY <2>3, <2>4, AlongSelf
  <2> QED
      BY <2>2, <2>4, <2>5, AlongEqual
<1>4. \A y \in Nodes : ~ (tx.nonce < accountsOf(y).nonce[tx.from])
  <2>1. tx.nonce \in Nat /\ tx.from \in Addr
      BY DEF SignedTxs
  <2>2. tx.nonce = accountsOf(m).nonce[tx.from]
      BY DEF CanApply
  <2>3. \A y \in Nodes : accountsOf(y) = accountsOf(m)
      BY <1>3 DEF accountsOf
  <2> QED
      BY <2>1, <2>2, <2>3
<1> DEFINE S == {y \in Nodes : tx \in Pooled(pool[y])}
<1>5. ASSUME NEW l \in Links, l \cap S # {}
      PROVE  l \subseteq S
  <2>1. PICK a \in Nodes, b \in Nodes : l = {a, b} /\ a \in S
    <3>1. PICK a \in Nodes, b \in Nodes : l = {a, b}
        BY GossipAssumption
    <3>2. l = {b, a}
        BY <3>1
    <3> QED
        BY <1>5, <3>1, <3>2
  <2>2. a # b /\ {a, b} \in open /\ <<a, b>> \in shaken
    <3>1. a # b
        BY <2>1, LinkEnds
    <3> QED
        BY <2>1, <3>1 DEF Quiet
  <2>3. NewTx(tx) \notin ToSet(net[<<a, b>>])
    <3>1. net[<<a, b>>] = << >>
        BY DEF Quiet, NoMail
    <3> QED
        BY <3>1 DEF ToSet
  <2>4. Held(b, tx)
      BY <2>1, <2>2, <2>3 DEF PoolsInv, PooledIsOffered
  <2> QED
      BY <1>4, <2>1, <2>4 DEF Held
<1>6. S = Nodes
    BY <1>5 DEF Connected
<1> QED
    BY <1>6

PaymentsOf(a) == {tx \in SignedTxs : tx.from = a}

(* When the network has gone quiet, a payment of the client that one node  *)
(* holds and another could mine next is in the other's pool too, if no     *)
(* step has turned a payment away while its nonce was free: connections,   *)
(* answers and cache entries that are lost do not lose it.                 *)
THEOREM PaymentsReachAll ==
    ASSUME OneDifficulty, Connected, NEW miner \in Nodes, Miners \subseteq {miner},
           PlantedAlike(PaymentsOf(Client))
    PROVE  RelaySpec /\ PaymentsStay =>
               [](Quiet => \A n, m \in Nodes : \A tx \in PendingFor(pool[n], Client) :
                      CanApply(accountsOf(m), tx) => tx \in Pooled(pool[m]))
PROOF
<1>1. PICK Wanted \in SUBSET SignedTxs : Wanted = PaymentsOf(Client)
    BY DEF PaymentsOf
<1>2. RelaySpec /\ [][TurnedAway \cap Wanted = {}]_relayVars => []PoolsInv(miner, Wanted)
    BY <1>1, NothingIsLost
<1>3. [\A tx \in TurnedAway : tx.from # Client]_relayVars
      => [TurnedAway \cap Wanted = {}]_relayVars
    BY <1>1 DEF PaymentsOf
<1>4. PoolsInv(miner, Wanted) /\ Quiet =>
          \A n, m \in Nodes : \A tx \in PendingFor(pool[n], Client) :
              CanApply(accountsOf(m), tx) => tx \in Pooled(pool[m])
  <2> SUFFICES ASSUME PoolsInv(miner, Wanted), Quiet, NEW n \in Nodes, NEW m \in Nodes,
                      NEW tx \in PendingFor(pool[n], Client), CanApply(accountsOf(m), tx)
               PROVE  tx \in Pooled(pool[m])
      OBVIOUS
  <2>1. tx \in Pooled(pool[n]) /\ tx.from = Client
      BY DEF PendingFor
  <2>2. PoolFit(pool[n])
      BY DEF PoolsInv, RelayInv, RelayTyped, PoolsFit
  <2>3. tx \in SignedTxs
      BY <2>1, <2>2, ToSetIs DEF PoolFit, Pooled
  <2>4. tx \in Wanted
      BY <1>1, <2>1, <2>3 DEF PaymentsOf
  <2> QED
      BY <2>1, <2>4, QuietPools
<1> QED
    BY <1>2, <1>3, <1>4, PTL DEF PaymentsStay

(* The same for any set of transactions: the pools of a quiet network      *)
(* agree, but for what was turned away somewhere, if that applies nowhere. *)
THEOREM PoolsAgree ==
    ASSUME OneDifficulty, Connected, NEW miner \in Nodes, Miners \subseteq {miner},
           NEW Wanted \in SUBSET SignedTxs, PlantedAlike(Wanted)
    PROVE  /\ RelaySpec
           /\ [][TurnedAway \cap Wanted = {}]_relayVars
           /\ [](\A n, m \in Nodes : \A tx \in Pooled(pool[n]) \ Wanted :
                     ~ CanApply(accountsOf(m), tx))
           => []QuietPoolsAgree
PROOF
<1>1. RelaySpec /\ [][TurnedAway \cap Wanted = {}]_relayVars => []PoolsInv(miner, Wanted)
    BY NothingIsLost
<1>2. /\ PoolsInv(miner, Wanted)
      /\ \A n, m \in Nodes : \A tx \in Pooled(pool[n]) \ Wanted : ~ CanApply(accountsOf(m), tx)
      => QuietPoolsAgree
  <2> SUFFICES ASSUME PoolsInv(miner, Wanted),
                      \A n, m \in Nodes : \A tx \in Pooled(pool[n]) \ Wanted :
                          ~ CanApply(accountsOf(m), tx),
                      Quiet, NEW n \in Nodes, NEW m \in Nodes,
                      NEW tx \in Pooled(pool[n]), CanApply(accountsOf(m), tx)
               PROVE  tx \in Pooled(pool[m])
      BY DEF QuietPoolsAgree
  <2>1. tx \in Pooled(pool[n]) \cap Wanted
      OBVIOUS
  <2> QED
      BY <2>1, QuietPools
<1> QED
    BY <1>1, <1>2, PTL
=============================================================================
