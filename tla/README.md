# A verification project for mineverse

TLA+ models of mineverse, the blockchain for Minecraft economies: TLC
configurations that check them on small instances and TLAPS proofs about the
parts that matter most. Paths below are those of the repository.

## The system

| part | code | state it keeps | operations |
|---|---|---|---|
| replicated state, ledger | `src/core/state.js`, `ledger.js` | accounts (balance, nonce, tokens, uuid), currencies, votes | `applyTransaction`, `applyBlock`, `processExpirations`, TRANSFER, CREATE_CURRENCY, BUY, SELL, CREATE_VOTE, CAST_VOTE, REGISTER_UUID |
| bank and contracts | `src/core/bank.js` | `bank.pending/vault/treasury/interestPaid`, contracts | CREATE, ACCEPT, REJECT, CANCEL, RESOLVE, the sweep |
| marketplace | `src/core/market.js` | inventories, listings | DEPOSIT, WITHDRAW, LIST, CANCEL, BUY |
| land | `src/core/land.js` | servers with tallies, chunks | REGISTER_SERVER, CLAIM, SET_SALE, BUY, TRANSFER |
| companies | `src/core/stocks.js` | share pools, holder tables, treasuries | CREATE, BUY, SELL, TRANSFER shares, PAYOUT, DIVIDEND |
| blockchain | `src/core/blockchain.js`, `block.js`, `genesis.js` | blocks, state, work, transaction index; a snapshot on disk | `addBlock`, `replaceChain`, `validateChain`, `buildCandidate`, `mineOnce`, `save`, `load` |
| mempool | `src/core/mempool.js` | pooled transactions, strikes | `add`, `remove`, `penalize`, `selectForBlock`, `reconcile` |
| network | `src/net/p2p.js` | peers, known addresses, addresses being dialled, the cache of announcements seen | dial, accept, handshake, peer exchange, tip and chain queries, block and transaction gossip, redial, heartbeat |
| node process, launcher | `src/node.js`, `run-nodes.js` | mining flag, loop and its abort controller, timers, signals | start, stop, start and stop mining, shutdown of the children |
| API, client | `src/api/server.js`, `src/client.js` | the client's local nonce | nonce query, submission, read calls |

**How they interact.** A node is one event loop. Messages of peers, HTTP
requests, timers and slices of the mining search (`setImmediate`) interleave
between complete handlers; nothing interleaves inside one. All of them go
through one `Blockchain` object, which owns the chain, the state it yields and
the mempool, and emits `block` whenever the tip changes; the network layer
answers that event by announcing the tip. State changes only by applying whole
blocks to a copy, so a transaction that throws leaves nothing behind.

**What is hard.** Block time, in which contracts, votes and interest are
measured, may go back from one block to the next. Coin is parked in five kinds
of places. Several tables repeat each other (tallies, holder counts, listings
and inventories, the uuid registry). A candidate is fixed when its search starts
and added slices later. Reorgs take transactions back out. Snapshots are stale.
Announcements are cached by hash, connections lose what is in flight, and
queries go by height where fork choice goes by work. Both ends of a link dial,
and either may find the other's connection to be the duplicate. The mining loop
is switched by flags that it reads only between searches, and a shutdown waits
for it while somebody else counts. A client learns of its nonce from a node that
knows only what is confirmed, and may never learn whether a payment arrived.
`PROJECT.json` lists these
as hazards with the line where each bites and the properties about it.

**What makes each part correct.** The ledger: coin is conserved. The bank: its
escrow is exactly what open contracts are owed, every contract closes once and
only signers pay. Pools: no sequence of trades drains them. Market and land:
what is for sale can be delivered, and changes hands only by sale or gift.
Shares: the table adds up, and treasuries pay out only what they raised. Votes:
each address once, results final. Blockchain: state is the replay of the blocks,
work never falls except by a crash. Mempool: bounded and free of what is mined.
Network: the nodes form a full mesh, both ends of a connection agree on it, and
quiet nodes agree on work and pools. Process: one mining loop at most, and what
was mined is saved before it exits. All together: a payment that a node has
accepted is settled on every chain.

## Modules

    Amounts      integer amounts, fees, constant-product swaps (ledger.js)
    BlockTime    the median of recent timestamps
    Ledger       accounts, blocks as steps, the bank's record   EXTENDS Amounts, BlockTime
     +- Bank          contracts and the sweep
     +- Currencies    tokens, their pools, transfers of any asset
     |   +- Market        uuids, inventories, listings
     +- Land          servers, chunks, tallies
     |   +- Governance    votes, which may be about a server
     +- Stocks        companies                                 EXTENDS Currencies, Land
    StateMachine all of them: dispatch table and end of block
    Headers      genesis, difficulty, block time, work          EXTENDS BlockTime
     +- HeaderChain   chains of headers under arbitrary miners
     +- Chain         applyBlock and validateChain on accounts  EXTENDS Amounts, Transactions
     +- Gossip        nodes that exchange blocks
    Mempool      the pool of one node
    Inclusion    what passes between pool and chain             EXTENDS Chain, Mempool
     +- Node          one node: mining, peers, disk, crashes
     +- Relay         client, pools and blocks on a network     EXTENDS Gossip
    NodeProcess  the mining loop, signals and the launcher
    PeerLinks    dialling, handshakes, duplicates, heartbeats
    HeaviestChain  what a node promises of its chain; Node implements it
    StateProofs  laws of sums; each domain, then all together   EXTENDS StateMachine
    FoldLaws     folding a sequence, one element at a time
     +- HeaderProofs  headers under arbitrary miners            EXTENDS HeaderChain
     +- InclusionProofs  what replaying, pooling and
         |               reorganising compute                   EXTENDS Inclusion
         +- NodeProofs   one node                               EXTENDS Node
         +- RelayProofs  gossip; client and pools on a network  EXTENDS Relay
    PeerLinksProofs    connections                              EXTENDS PeerLinks
    NodeProcessProofs  the mining loop                          EXTENDS NodeProcess
    MC*          instances for TLC

**Ledger and its domains.** A block is opened by `BeginBlock`, every transaction
is one step, and the block is closed by the coinbase and the sweep, as in
`applyBlock`. A handler that would throw is not enabled: the code discards the
copy, so no state is kept, and `buildCandidate` leaves the transaction out. A
transaction id is its sender and nonce, which its hash covers. Every action is
a whole handler with fee and nonce. `StateMachine` composes the domains the way
the dispatch table does. The arithmetic is the code's, including the rounding.

**Node.** One `Blockchain` with its `Mempool`. `StartMining` builds the candidate
and strikes what failed the trial; `MineFound`, `MineTipChanged` and
`MineAborted` are the outcomes of a later slice. `offered` holds every chain
that others ever made, from this node's blocks or any of theirs, by any rule or
against it; `ReceiveBlock` and `ReceiveChain` take any of them at any time, so
messages may be late, lost, repeated or reordered. `save` and `Restart` are the
snapshot and a crash at any point. The accounts stand for the whole state:
transfers are the least that lets a transaction apply on one chain and fail on
another. Blocks are known by the chain they end, which is what hashes commit to.

**Gossip.** Blocks between nodes: connections as pairs of FIFO channels that lose
their content when they close, and each message of the handshake and of block
exchange with its handler. A reorg announces the new tip twice, as the code
does. `Mine` and `HandleHello` take the block's transactions and the pooled ones
as parameters; in the run of `Gossip` itself both are empty.

**Relay.** A payment's way from a client to every chain. It extends `Gossip` with each
node's pool and transaction cache, the mining loop of a miner in two steps
(`Search` fixes the body of the candidate and strikes what failed, `Slice` adds
the block or gives up) and one client. A send is five steps, one per await of
`client.js` or handler of `server.js`: `AskNonce`, `Sign` (`nextNonce`, which takes
the larger of the node's answer and its own memory), `Submit` (mempool and
broadcast), `Return`, and `LoseAnswer` wherever the connection breaks, after which
a request that was on its way may still arrive. A node's account state is the
replay of its chain, which `Node` shows it to be; every step of `Gossip` that
changes a chain drags the pool along (`PoolFollows`) by the operators of
`Inclusion` that `Node` uses too.

**NodeProcess.** `node.js` around one chain. The code between two awaits is a step:
`startMining` runs into the first `mineOnce` of its loop, `SearchEnds` resolves it,
`PauseEnds` is the end of the 25 ms pause, with another round or the end of the
loop. `Stop` is `stop()` up to the await of the loop, `Wind` what follows, `Exit`
the end. Signals come at any time and run their own `stop()` each; `LauncherStops`
is `shutdown` of `run-nodes.js`, whose two seconds are `GRACE` ticks after which
`Kill` comes. A tick passes only when nothing quick is left to do (`Busy`), while a
search and the closing of the HTTP server may take any time.

**PeerLinks.** Connections as the two ends see them. Each end has a socket
(connecting, open, closing, refused), a record in `peers`, and a queue of messages
on their way to it. `Accept` and `Open` are the two ends' events; `HandleHello` looks
for another record of the same node id and drops the connection it came on;
`drop` deletes the record at once while the socket waits for the close frame to be
answered. A path may be `Cut` without either end being told, and a node may `Crash`
and be started again under a new node id; `path` says which of the two has befallen a
connection: nothing gets through on a dead one (`Dead`), and the record that is left of
a crashed peer is of an old id, no duplicate of its new one (`Old`).

## What is checked

| run | module, bounds | what it shows |
|---|---|---|
| `bank` | two addresses, two transactions each, block times 1 to 4 with a window of 3 for the median (time may go back), accept window, duration and cap of 1 | `EscrowBacked`, `SupplyConserved`, `InterestAudited`, `NothingOverdue`, `ClosedForGood`, `OnlySignersPay`, and the liveness property `EveryContractCloses` |
| `state_machine` | two addresses, three transactions each, the number of transactions bounded per domain by `MaxTxs` | `CoinConserved`, `TokensConserved`, `PoolsKeepTheirProduct`, `SalesCanDeliver`, `TablesAgree` (uuid registry, land tallies, share tables), `GoodsMoveBySaleOrGift` (items, deeds), `TreasuryPaysWhatItRaised`, `VotesAreCounted`, `VotesAreFinal` |
| `header_chain` | six blocks, a retarget every two, any timestamp the rules allow | `PassedStaysPassed`, `HonestBlockFits`, `OneLieMovesTwoBits` |
| `node` | four transactions: two rivals for a nonce, one with the nonce after it, one paid for by another; chains of two blocks, two foreign chains | `StateIsReplay` (state, work, index, nonces), `PoolIsSound`, `CandidateApplies`, `SnapshotIsUsable`, `ReorgPutsBack` |
| `node_work` | empty blocks, five of them, a retarget at the fourth, three foreign chains | `ImplementsHeaviestChain` (refinement) |
| `process` | both signals, two names for mining loops, one tick of patience | `OneLoop`, `MinedIsSaved`, and under fairness `MiningResumes`, `StopCompletes` |
| `links` | three nodes of which two only know the third; or two nodes and one cut path or crash, with two dials possible one way; or two nodes and three such faults, with dials one way only | `QuietLinksAgree`, and under fairness `MeshForms` |
| `gossip` | two nodes, two blocks, connections that come and go, cache entries that expire | `QuietNodesAgree`, `WorkConverges` |
| `relay` | client - n1 - n2 - n3 with miner n3 only, three payments, of which two fill a sender's share of a pool and, with a dead transaction of a stranger, the pool of n3; one lost connection, lost answer or expired cache entry | `QuietPoolsAgree`, `AcknowledgedOnce`, `PaymentsStay` (what the pools keep of the client), and under fairness `SubmittedIsSettled` |

Type invariants are in the runs as `StateTypeOK` (with the types of every domain, `BankTypeOK`
among them), `NodeTypeOK` and `GossipTypeOK`. Three more runs expect a violation, and each is a disagreement
between a comment and the code (see the findings below): `node_size`,
`node_strikes`, `gossip_work`.

**Bounds.** `MaxNonce` caps a sender's transactions, `Horizon` the deadlines (a
contract is not proposed if it could still be open after the last block time),
`MaxHeight` the chains, `MaxOffered` the foreign chains, `MaxTime` the clock.
Two transactions of each of two parties are enough for two contracts to be open
together, for one to be answered while the other is swept, and for two to close
in one sweep. A block of time 2 may follow one of time 3, so that a contract accepted in
the first is resolved in the second, before its own acceptance; there interest must be
nothing. `MCStateMachine` adds a variable `focus`, chosen at the start:
the domain whose tables change in a behaviour. Domains touch each other only
through accounts and the bank, which every focus exercises, and through tokens,
with which the market pays and which its focus lets in; a company's or a vote's
reference to a server is only read to see that it exists, and in this run is
left empty. Products of unrelated domains, which would only multiply states,
are left out. `MaxTxs` bounds the transactions per focus (four or five) and
`LastTime` the time of the last block. In the `state_machine` run the median window is 1, so
block time does not go back there; it does in `bank`. Market, land and company cuts are 25 % to
40 % there, above the code's, so that they are not rounded to nothing on small amounts.
In the `node` runs limits of 16, 200 and 5000 are 2 and 3 so that they are met.

In `relay`, `FAULTS` is a budget: how many connections or answers are lost and cache
entries expire. Nodes search only when they have something to mine
(`MaxHeight = 0` stops empty blocks, of which a real chain has plenty: more of them
only clear the pools sooner). A line of three is the least in which what a node
hears of is relayed, and in which the submitting node is not the miner's neighbour.
The limits are those the payments just keep: a sender's share (`RUN_AHEAD`) of two, so that the
client's own node refuses the third while the first two wait, a pool of three, so that n3's
is full with two payments and the dead transaction, and a balance that the payments
spend to the last coin. Three payments are what it takes for one whose answer is lost
to be followed by one that competes with it and one that comes after.
In `links` one network has no faults and three nodes, because peer exchange needs
a third, and the others have two nodes and faults; `MAX_PEERS` is 2, which every node
of the first one reaches. Of a connection's names there are two the way the redial
may overtake a dying socket and one elsewhere: a dial waits for a free name, which
bounds the states and hides no order of events between two dials that both exist.
One fault is enough for each to race with redials and duplicates; three, in the network
whose dials go one way, for a peer to restart while its old path is dead already, when
the other end still keeps a record of its old id. (With two faults the network that dials both ways
gives 630 000 states, too many to be kept as a run, and both properties hold.)
In `process` two names for loops are one more than should ever be used.

**Deadlock** is not checked where a bound ends every behaviour (`CHECK_DEADLOCK
FALSE`); in the `gossip` run it is.

**Fairness.** `FairBankSpec`: blocks keep being opened and closed, since every
miner's loop starts a new search as soon as one ends; nobody is obliged to send
a transaction. `FairProcessSpec`: a search ends, since each slice has the same chance to find a
block, pauses end, and signal handlers, awaited promises and the closing of the
HTTP server get their turn; nobody has to switch mining, send a signal or count to
the end. `FairLinksSpec`: sockets deliver or fail, the timers fire, and a node that
is down is started again. `FairGossipSpec`: sockets deliver and the redial
timer of `p2p.js` reconnects; nothing is assumed about mining, and `WorkConverges`
is claimed only once connections are no longer lost. `FairRelaySpec` asks less: as long as
nodes have something to do (`Busy`: a connection to make, a message to read, a block to
mine), some node does something, whichever. Redial timers, sockets and mining
loops give more than that. It is weak fairness of the nodes' steps together, written as the disjunction it
stands for, with the condition under which such a step is enabled. Nothing is assumed
about the client: it may stop at any moment.
`MeshForms` has a premise besides: that two nodes do not cross their dials for ever
(behaviour 4 below).

**Mutants.** For each property `PROJECT.json` names a variant of one mapped
definition, kept beside it in its module, with which TLC finds the property
violated. Further variants stand beside their definitions where a property has
several parts: `MayTakeOver` and `debitSharesKeepingCount` break the other parts of
`TablesAgree`, `DeedStillForSale` that of `GoodsMoveBySaleOrGift`,
`addBlockForgettingIndex` and `CanApplyAnyNonce` those of `StateIsReplay`,
`AcceptableUnlimited` that of `PoolIsSound`, `dropRecord` breaks `QuietLinksAgree`,
`DialFailsQuietly` `MeshForms`, and `SubmittedIsSettled` also fails with
`HandleHelloAlone`, `HandleChainSilently` or `TrialOfNothing`.

## What is proved

The theorems below hold for every value of the constants that the named assumptions
allow; TLC evaluates those assumptions on every run. Nothing else is assumed, but for the
hypotheses that `QuietAgreement`, `RelayAgreement`, `ClientKeepsNonces`, `PaymentsReachAll`
and `PoolsAgree` name. Each theorem rests on an inductive invariant, since hardly a property is inductive alone;
its proof has one lemma per action.

**Bank** (`StateProofs`, for `BankSpec`, invariant `BankInv`).
`BankTypeCorrect`, `EscrowAlwaysBacked` and `SupplyAlwaysConserved` need each other:
that the sweep leaves `pending` and `vault` natural numbers needs `EscrowBacked`; that
`EscrowBacked` survives a step needs the types; conservation across a sweep needs
that what is paid to all addresses is what leaves the two pockets.
`InterestAlwaysAudited` is the same argument for recorded interest. Then
`ContractsCloseForGood`; `NothingIsEverOverdue`, which is an invariant only because the
sweep runs in every block and compares as the deadlines of a new contract do; and
`OnlySignersEverPay`, for which balance and claims are split per address.

**State machine** (`StateProofs`, for `StateSpec`, invariant `StateInv`):
`StateTypeCorrect`, `CoinAlwaysConserved`, `TokensAlwaysConserved`,
`SalesCanAlwaysDeliver`, `TablesAlwaysAgree`, `TreasuryAlwaysPaysWhatItRaised`,
`VotesAlwaysCounted`, `EscrowBackedAmongDomains`, `PoolsAlwaysKeepTheirProduct`,
`GoodsAlwaysMoveBySaleOrGift`, `VotesAreAlwaysFinal`. All domains interleave freely
here: the `focus` that keeps the run small is not part of the theorem.

* What a transaction does to accounts, bank and fees is, in all domains but contracts, one
  pattern: a fee, a cut for the bank, and coin parked or released (`Paid`). `PaidStep`
  shows once that it keeps coin, escrow and types; each action then shows that its own
  tables hold what was parked.
* `MarketInv` adds to `SalesCanDeliver` that a listing's inventory exists and that the
  registry of uuids agrees; `MarketAssumption` keeps ids apart from `None`.
* `LandInv` and `StocksInv` carry `TablesAgree` as equations between tallies and
  cardinalities, and between the holders' table and the shares outstanding. That a
  dividend fits in the treasury, each holder's cut rounded down by itself, is
  `DividendCovered`.

Sums are defined as the size of the set of units, `Total(f) ==` the cardinality of
`{<<x, k>> : x in DOMAIN f, k in 1..f[x]}`, and the laws of sums at the head of
`StateProofs` come from those of cardinality.

**Headers** (`HeaderProofs`, for `HeaderSpec`, invariant `HeaderInv`).
`WhatPassedStaysPassed`: a window that slides by a timestamp above its median does not
lower its median; the argument counts how many are below. By induction along the chain no median of
the past is above the present one (`PassedInv`), so a new block lies beyond them all. Of
block time nothing of the kind holds (behaviour 7 below). `HonestBlocksAlwaysFit` needs
that the median never overtakes the tip. `OneLieNeverMovesMore` needs that every
block has the difficulty the blocks before it call for; two chains that differ in one
time are then compared block by block: windows of two retargets do not overlap,
so the lie enters one retarget, where clamping bounds it, and no later retarget
brings two difficulties further apart.

**Node process** (`NodeProcessProofs`, for `ProcessSpec`, invariant `ProcessInv`).
`AlwaysOneLoop` and `MinedIsAlwaysSaved` need `StopIsFinal`: while a `stop()` waits, only the loop
it waits for can run; once it has gone on, none does and no block is unsaved, whatever the
`stop()` of the other signal still does.

**Node** (`NodeProofs`, for `NodeSpec`, invariant `NodeInv`):
`NodeAlwaysTyped`, `StateAlwaysReplays`, `PoolAlwaysSound`,
`CandidateAlwaysApplies`, `SnapshotAlwaysUsable`, `ReorgsPutBack`, and
`NodeKeepsPromise`, the refinement `NodeSpec => ImplementsHeaviestChain`: every step is an
`Adopt`, a `Save`, a `CrashAndRestart` or a stutter of `HeaviestChain`.

* `ChainInv`: the blocks are a valid chain, and accounts, work and index are its replay.
  `InclusionProofs` says what a replay computes: extending a chain by a block
  extends its replay, validity asks the same of each prefix, and an account's nonce counts what
  the chain mined of it. That the index is exact, and pool and chain disjoint,
  follows from nonces.
* `ValidLater`: a chain valid by one clock is valid by any later one. Without it neither
  candidates nor snapshots would survive a tick.
* `SearchInv`: a candidate's body applies after its parent, whatever has been pooled or
  evicted since. `DiskInv`: the snapshot is valid and its work is not above the chain's.
* `PoolInv`: limits, strikes and nonces, kept through `reconcile`. `ReorgsPutBack` goes along the list of orphans: one that is refused is
  refused for a reason that still holds at the end, or for want of room that
  unmined transactions take up.

**Gossip** (`RelayProofs`, for `GossipSpec`, invariant `GossipInv`).
`GossipTypeCorrect` for any difficulties; `NothingIsForgotten` and `QuietAgreement` for one
(`OneDifficulty`), where work is length (`WorkIsLength`), and the latter for networks in which every node
reaches every other (`Connected`). The code does allow difficulties to differ, and then the claim
is false: `gossip_work` is the counterexample. That nodes agree when nothing is under way is not
inductive. What is: `Coming(m, k)`, that `m` has `k` blocks or a neighbour has them and is not
connected yet, or its greeting, `m`'s question or the answer is on its way.

* `TipComes`: of two connected nodes each has as many blocks as the other, or is being sent an
  announcement, or they are `Coming`. `SeenComes`: the same of every entry of `seen`, which is why
  dropping an announcement seen before loses nothing, however entries expire.
* `Greeted`: a node that has not yet handled a greeting gets no announcements, but the greeting is
  the next message it takes from that peer, and a tip query answers it. `ToldIsHeld`: nobody
  tells of more blocks than it has, so asking the teller for them is enough.
* `Moved` says once what a node that mines or handles a message leaves to the others, `Rewired` what
  connecting and disconnecting leave; each part of the invariant survives both.
* The lemmas leave open which bodies blocks have and which other messages travel among
  those of blocks, as long as they are none of gossip's own (`Carried`). They
  therefore hold as they are for the steps of `Relay`.

**Client, pools and blocks on a network** (`RelayProofs`, for `RelaySpec`). All payments,
planted pools and faults that `RelayAssumption` allows, which asks of a planted pool what
`mempool.add` would have asked of it.

* `RelayTypes`, invariant `RelayTyped`: every chain, message, pool and send has its form,
  and each pool keeps its limits through admission, mining and reorganisation.
* `RelayAgreement` (`OneDifficulty`, `Connected`), invariant `RelayInv`: `QuietNodesAgree` also
  where transactions, mining slices and clients interleave with the blocks.
* `ClientKeepsNonces` (`OVERLAP = 1`), invariant `SendsInOrder`: a client that waits for each
  answer never has two payments of one nonce acknowledged. What is acknowledged lies below
  `localNonce`, and what is signed carries exactly `localNonce`; with two sends at once the
  second half fails, and so does the property (behaviour 5 below).
* `MinedIsValid`, invariant `MinedInv`: every chain a node holds or is told replays. This
  is what lets `ReceiveBlock` of `Gossip` adopt a block of an honest miner without validating it: the
  search's body applies to the tip it was built on, whatever has reached the
  pool since, and a search whose tip has changed mines nothing.
* `NothingTwice`: along the chain of a node nobody's nonce is mined twice or with a
  gap, and no pool holds what its node's chain has mined. It follows from `MinedIsValid`
  and `PoolsAhead`, that no pooled transaction has a nonce its node's chain has used.
* `WorkOnlyGrows`: a node only ever changes to a chain of more work, for any
  difficulties. `OneDifficulty` is needed for agreement, not for this.
* `NothingIsLost`, invariant `PoolsInv`, for one miner and any set `Wanted` of transactions of
  which no step turns one away (`TurnedAway`: refuses or evicts it while its nonce is free).
  With one miner every chain held or told of is a beginning of the miner's (`OneChain`),
  so no reorganisation frees a nonce or puts anything back. Then what is marked as seen is held
  (`SeenIsHeld`), whoever relays a transaction holds it, and what is pooled each greeted neighbour
  holds or is being sent (`PooledIsOffered`). A connection may take that message
  with it, since the greeting of the next one offers the whole pool again.
* `PaymentsReachAll` takes the payments of the client for `Wanted`. Its hypothesis is then
  `PaymentsStay`, which `relay` checks.
* `PoolsAgree` states `QuietPoolsAgree` itself for any `Wanted`, if what is pooled besides applies
  nowhere. In `relay` that is the dead transaction of the stranger.

**Connections** (`PeerLinksProofs`, for `LinksSpec`, invariant `LinksInv`). `LinksAgree` states
`QuietLinksAgree` for any nodes, bootstrap lists, `MAX_PEERS` and number of faults; it rests on
`EndsFitTogether`, that `LinksInv` always holds.

* `ConnOK` is about one connection: of each end, that socket, record and what is on its
  way fit (`EndOK`), and of an end as the other sees it (`Facing`), that an open socket on a working
  path has another one facing it, and either its greeting on the way or a record that is greeted. A
  step touches one connection and those it dials, so each action shows `ConnOK` of
  these, and `SameOK` of all others.
* `OneEach`: of two connections to one node that both count as peers, a crash has left one
  behind. Only a greeting makes a peer; there `Duplicate` sees the other one, unless
  just one of the two is an orphan. Everything else wins no peer (`NoNewPeer`).

**How far the provers reach.** The library's induction theorems take an operator as a
parameter, which the provers cannot instantiate, so what a `RECURSIVE` definition
computes cannot be proved. Chains, however, are read by folds. `FoldLaws` takes
the step of a fold as a parameter of the module, proves what folding an appended element
does, and is instantiated once per fold; induction over numbers and over sequences is
used in the form that takes a set of them. That is how `totalWork`, `ApplyAll` and
`validateChain` are proved about for chains of any length.

Some definitions of the model were restated to be reasoned about, with the same meaning:
`PowerOfTwo` (`Headers`) is a function, `Dropping`, `Struck` and the order of `selectForBlock`
(`Mempool`) are operators of their own, and `NoncesInOrder` and `ReorgPutsBack`
(`Node`) speak of `Indexed` and `unmined`; `HeadersAssumption` includes that the
genesis difficulty is within the limits: `loadGenesisConfig` does not check it, but it is
so in `genesis.json` (16) and in the files of the tests (14 and 8, limits 8 and 32).

## What is only model-checked

* Liveness (`EveryContractCloses`, `WorkConverges`, `SubmittedIsSettled`, `MeshForms`,
  `MiningResumes`, `StopCompletes`) and `ENABLED`: out of the proof system's reach.
* `PaymentsStay`, in `relay` for one client, with one miner at the end of the line and just the
  room the payments take, and so the
  hypothesis of `PaymentsReachAll` and `PoolsAgree`. It shows that pool, share and balance,
  met exactly, refuse none of the payments their nonces let in, that the dead
  transaction beside them takes no room of theirs, and that lost messages and answers do not change
  that. It is not true for all constants, nor is
  `QuietPoolsAgree`: `NEW_TX` is marked as seen before the pool
  judges it, and is refused for a full pool, a sender's `RUN_AHEAD`,
  a fee the sender cannot pay yet or a rival of its nonce (behaviour 2 below). What a reorg puts
  back is not announced again, and strikes evict at the miner alone. Each of these leaves a
  transaction in one pool which the next node could mine and will not be offered again.
* The three findings: each is one counterexample.

## Findings

* `buildCandidate` does not look at `MAX_BLOCK_BYTES`, so it can produce a block every
  node refuses, against its comment `blockchain.js:262-264` (`node_size`).
* Strikes fall on a sender's whole run, so what only waited behind a dead
  transaction is evicted with it, against `mempool.js:88-95` (`node_strikes`).
* A chain is requested only for a higher block, so a heavier chain of equal height
  is not fetched until the next block, against `README.md:59-61` (`gossip_work`).
  With a constant difficulty (`gossip`, `relay`) work is height and nodes agree.

Behaviours met while modelling, which no comment or test of the repository
denies outright and no run is kept for:

1. `replaceChain` ignores what `mempool.add` answers. Of two orphaned transactions of
   which the first pays the second's sender its fee, the second is refused and gone
   (`blockchain.js:223-224` against `:243`), which is why `ReorgPutsBack` speaks of
   those that are acceptable. What is put back is not announced again. It also puts
   orphans back before `reconcile` drops what the new chain has mined or outdated
   (`blockchain.js:242-244`), so that an orphan can be refused for want of room that is
   free a line later, against "rather than silently vanishing" (`:223-224`). A proof attempt
   found this; `ReorgPutsBack` therefore compares the pool's limits with everything the new
   chain leaves unmined, outdated or not.
2. `NEW_TX` is marked as seen before the mempool judges it (`p2p.js:394`). With a pool
   of one (`MAX_MEMPOOL_TXS = 1`, `MAX_STRIKES = 2`, `MaxHeight = 2`, one payment, no
   fault) `SubmittedIsSettled` and `QuietPoolsAgree` fail: the payment refused by a full
   pool is not offered again once there is room. A refusal that passes by itself does the same. In
   `relay` with `Miners = {n2}`, the miner in the middle, a lost connection may
   leave n3 without the block of the first two payments while they fill the client's share of
   its pool; the third, which n1 and n2 accept, is refused there, and is not offered again when n3 has
   caught up: `PaymentsStay` and `QuietPoolsAgree` fail.
3. The launcher kills a child two seconds after SIGTERM, and `stop()` does not abort
   the search it waits for (`node.js:164`). A longer search loses the last snapshot,
   although SIGTERM is there to "let each node flush" it (`run-nodes.js:107`).
4. Two nodes that dial each other at the same time may each take the other's
   connection for the duplicate and drop both; nothing breaks the tie but the
   timers' drift.
5. Two overlapping sends of a client take one nonce (`relay` with `OVERLAP = 2` violates
   `AcknowledgedOnce`), and the later of two answers may set `localNonce` back
   (`client.js:146-150`). After an eviction the client does not fill the gap
   (`client.js:135`). `/tx/build` counts a sender's pending transactions, rivals of one
   nonce included (`server.js:405`).
6. The peer limit is checked when dialling and when accepting, but not when a dialled
   socket opens (`p2p.js:139`, `:152`), so a node may have more than `MAX_PEERS`.
7. Deadlines are held against the time of the block (`state.js:244`, `:278`, `bank.js:195-197`), and
   that may lie before its parent's: it only has to pass the median (`blockchain.js:127`). That the rule
   "stops a miner from walking block time backwards" (`blockchain.js:100-104`) is therefore so of
   the median alone. A contract or vote which is open after a block of time 3 may be answered
   or cast in a next block of time 2, and a contract resolved before it was accepted; `bank` has such
   blocks, and its properties hold. What the rule gives is `PassedStaysPassed`.

## Not modelled

Cryptography (a transaction of an address is one it signed), hashing and canonical
form, payload shapes, texts, item contents, receipts, the state root, wallets, the
scripts, the earlier implementation (`app.js`, `Chains/`, `Blocks/`, `Wallet/`,
`Voting/`) and third-party packages. Of the network: the rate limit, message sizes,
PING and PONG messages (the heartbeat uses the protocol's own), other networks and
connections to oneself. Of the API: every route but the nonce query and
`/tx/submit`, since none keeps state. Of the launcher: spawning. `PROJECT.json`
gives the reason for each.

## Plan

Done: the ledger with all its domains, blockchain, mempool, block and transaction
gossip, connections, the node's process and the client's nonces, with their runs; the
abstract `HeaviestChain`; the proofs for all of them, client and pools on a network included.

What is left:

1. Constants for which `PaymentsStay` is a theorem too: room for everything, and no fee that is
   paid out of a pending transaction.
2. Deeper instances where they answer a new question: a retarget together with
   transactions in `Node`, and a backward block time in `StateMachine`.
