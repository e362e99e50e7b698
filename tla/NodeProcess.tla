---------------------------- MODULE NodeProcess -----------------------------
(***************************************************************************)
(* The process around a node (node.js): the mining loop and the calls that *)
(* switch it on and off, the shutdown, and the launcher (run-nodes.js)     *)
(* that asks its children to stop and kills them when they are late.       *)
(*                                                                         *)
(* The code between two awaits is one step. Blocks are only told apart by  *)
(* who made them and whether the last snapshot has them.                   *)
(***************************************************************************)
EXTENDS Naturals, FiniteSets

CONSTANTS
    Loops,       \* names for the loops startMining creates, used again
    Signals,     \* the signals that reach the process, each at most once
    TERM,        \* the one of them that the launcher sends
    NoLoop,      \* null, as the value of the two handles
    Settled,     \* a handle on a loop that was over before it was stored
    GRACE        \* the launcher's patience, in ticks

ASSUME ProcessAssumption ==
    /\ IsFiniteSet(Loops)
    /\ TERM \in Signals
    /\ {NoLoop, Settled} \cap Loops = {}
    /\ NoLoop # Settled
    /\ GRACE \in Nat

VARIABLES
    mining,       \* this.mining
    stopped,      \* this.stopped
    miningLoop,   \* this.miningLoop: whose promise it is
    miningAbort,  \* this.miningAbort: whose controller it is
    loop,         \* [Loops -> what the loop awaits]: mineOnce, the pause after it, or it is over
    aborted,      \* the loops whose present signal is aborted
    stale,        \* the loops whose search is for a parent no longer the tip
    handler,      \* [Signals -> how far shutdown has come]
    awaits,       \* [Signals -> the handle its stop() awaits]
    unsaved,      \* which blocks the last snapshot lacks: of this miner, of others
    snapshots,    \* the snapshot timer is set
    process,      \* "up", "exited" or "killed"
    patience,     \* the launcher's remaining ticks; more than GRACE before it sends TERM
    wanted        \* history: the last of startMining and stopMining called was the former

miningVars == <<mining, miningLoop, miningAbort, loop, aborted, stale, wanted>>
stopVars == <<stopped, handler, awaits, snapshots>>
processVars == <<mining, stopped, miningLoop, miningAbort, loop, aborted, stale, handler,
                 awaits, unsaved, snapshots, process, patience, wanted>>

Running == {l \in Loops : loop[l] # "over"}

-----------------------------------------------------------------------------
(* The mining loop                                                         *)

(* Mutant of Goes: the loop heeds stopMining but not stop.                 *)
GoesWhileMining == mining

(* The condition of the loop.                                              *)
Goes == mining /\ ~stopped

(* A round begins: a new controller, and mineOnce on the present tip.      *)
Search(l) ==
    /\ loop' = [loop EXCEPT ![l] = "searching"]
    /\ miningAbort' = l
    /\ aborted' = aborted \ {l}
    /\ stale' = stale \ {l}

(* Mutant of startMining: the handle is looked at before the flag is set.  *)
startMiningHandleFirst ==
    /\ process = "up"
    /\ wanted' = TRUE
    /\ IF miningLoop # NoLoop
       THEN UNCHANGED <<mining, miningLoop, miningAbort, loop, aborted, stale>>
       ELSE /\ mining' = TRUE
            /\ IF stopped
               THEN miningLoop' = Settled /\ miningAbort' = NoLoop /\ UNCHANGED <<loop, aborted, stale>>
               ELSE \E l \in Loops \ Running : miningLoop' = l /\ Search(l)
    /\ UNCHANGED <<stopVars, unsaved, process, patience>>

(* Mutant of startMining: an unfinished loop is not looked for.            *)
startMiningTwice ==
    /\ process = "up"
    /\ wanted' = TRUE
    /\ mining' = TRUE
    /\ ~stopped
    /\ \E l \in Loops \ Running : miningLoop' = l /\ Search(l)
    /\ UNCHANGED <<stopVars, unsaved, process, patience>>

(* startMining: the loop of a search that stopMining has told to end is    *)
(* still there and goes on. A new loop runs up to its first await before   *)
(* the handle is stored; once stopped it is over by then.                  *)
startMining ==
    /\ process = "up"
    /\ wanted' = TRUE
    /\ mining' = TRUE
    /\ IF miningLoop # NoLoop
       THEN UNCHANGED <<miningLoop, miningAbort, loop, aborted, stale>>
       ELSE IF stopped
       THEN miningLoop' = Settled /\ miningAbort' = NoLoop /\ UNCHANGED <<loop, aborted, stale>>
       ELSE \E l \in Loops \ Running : miningLoop' = l /\ Search(l)
    /\ UNCHANGED <<stopVars, unsaved, process, patience>>

stopMining ==
    /\ process = "up"
    /\ wanted' = FALSE
    /\ mining' = FALSE
    /\ aborted' = aborted \cup ({miningAbort} \ {NoLoop})
    /\ UNCHANGED <<miningLoop, miningAbort, loop, stale, stopVars, unsaved, process, patience>>

(* mineOnce answers: a slice sees the signal, or another tip, or the slice *)
(* finds a block, which is the tip from now on. The loop pauses.           *)
SearchEnds(l) ==
    /\ process = "up"
    /\ loop[l] = "searching"
    /\ loop' = [loop EXCEPT ![l] = "pausing"]
    /\ IF l \in aborted \cup stale
       THEN UNCHANGED <<unsaved, stale>>
       ELSE unsaved' = unsaved \cup {"mined"} /\ stale' = Running
    /\ UNCHANGED <<mining, miningLoop, miningAbort, aborted, wanted, stopVars, process, patience>>

(* The pause is over: another round, or the end, which clears the handles. *)
PauseEnds(l) ==
    /\ process = "up"
    /\ loop[l] = "pausing"
    /\ IF Goes
       THEN Search(l) /\ UNCHANGED miningLoop
       ELSE /\ loop' = [loop EXCEPT ![l] = "over"]
            /\ miningLoop' = NoLoop
            /\ miningAbort' = NoLoop
            /\ UNCHANGED <<aborted, stale>>
    /\ UNCHANGED <<mining, wanted, stopVars, unsaved, process, patience>>

-----------------------------------------------------------------------------
(* Blocks of others and snapshots                                          *)

(* A peer's block or chain becomes the tip. Also while sockets close:      *)
(* what they have received is still handled.                               *)
ReceiveBlock ==
    /\ process = "up"
    /\ unsaved' = unsaved \cup {"received"}
    /\ stale' = Running
    /\ UNCHANGED <<mining, miningLoop, miningAbort, loop, aborted, wanted, stopVars, process, patience>>

(* The timer of every 15 s.                                                *)
Snapshot ==
    /\ process = "up"
    /\ snapshots
    /\ unsaved' = {}
    /\ UNCHANGED <<miningVars, stopVars, process, patience>>

-----------------------------------------------------------------------------
(* Shutdown                                                                *)

Send(sig) ==
    /\ process = "up"
    /\ handler[sig] = "none"
    /\ handler' = [handler EXCEPT ![sig] = "sent"]
    /\ UNCHANGED <<miningVars, stopped, awaits, unsaved, snapshots, process>>

(* Somebody at the terminal, or a service manager.                         *)
Interrupt(sig) == sig # TERM /\ Send(sig) /\ UNCHANGED patience

(* shutdown of run-nodes.js: ask, and start to count.                      *)
LauncherStops == Send(TERM) /\ patience' = GRACE

(* What remains of stop() once no loop is awaited: the sockets are told to *)
(* close, the snapshot is written, the HTTP server closes.                 *)
Wind(sig) ==
    /\ handler' = [handler EXCEPT ![sig] = "closing"]
    /\ unsaved' = {}

(* Mutant of Stop: the loop is not awaited.                                *)
StopAtOnce(sig) ==
    /\ process = "up"
    /\ handler[sig] = "sent"
    /\ stopped' = TRUE
    /\ mining' = FALSE
    /\ snapshots' = FALSE
    /\ Wind(sig)
    /\ UNCHANGED <<awaits, miningLoop, miningAbort, loop, aborted, stale, wanted, process, patience>>

(* The handler of a signal: stop(), up to its await. The search that runs  *)
(* is not told to end, unlike in stopMining.                               *)
Stop(sig) ==
    /\ process = "up"
    /\ handler[sig] = "sent"
    /\ stopped' = TRUE
    /\ mining' = FALSE
    /\ snapshots' = FALSE
    /\ IF miningLoop = NoLoop
       THEN Wind(sig) /\ UNCHANGED awaits
       ELSE /\ handler' = [handler EXCEPT ![sig] = "waiting"]
            /\ awaits' = [awaits EXCEPT ![sig] = miningLoop]
            /\ UNCHANGED unsaved
    /\ UNCHANGED <<miningLoop, miningAbort, loop, aborted, stale, wanted, process, patience>>

(* The awaited loop is over.                                               *)
StopGoesOn(sig) ==
    /\ process = "up"
    /\ handler[sig] = "waiting"
    /\ awaits[sig] \notin Running
    /\ Wind(sig)
    /\ UNCHANGED <<miningVars, stopped, awaits, snapshots, process, patience>>

(* The HTTP server has closed: stop() returns and the process exits, also  *)
(* when another signal's handler is not through yet.                       *)
Exit(sig) ==
    /\ process = "up"
    /\ handler[sig] = "closing"
    /\ process' = "exited"
    /\ UNCHANGED <<miningVars, stopVars, unsaved, patience>>

(* Something takes less than a tick and has not been done yet. A search    *)
(* and the closing of the HTTP server may take any time.                   *)
Busy ==
    \/ \E l \in Loops : loop[l] = "pausing" \/ (loop[l] = "searching" /\ l \in aborted \cup stale)
    \/ \E sig \in Signals :
          handler[sig] = "sent" \/ (handler[sig] = "waiting" /\ awaits[sig] \notin Running)

Tick ==
    /\ process = "up"
    /\ patience \in 1..GRACE
    /\ ~Busy
    /\ patience' = patience - 1
    /\ UNCHANGED <<miningVars, stopVars, unsaved, process>>

(* SIGKILL, "the backstop".                                                *)
Kill ==
    /\ process = "up"
    /\ patience = 0
    /\ process' = "killed"
    /\ UNCHANGED <<miningVars, stopVars, unsaved, patience>>

-----------------------------------------------------------------------------

(* The process is up and does not mine: main calls startMining if told so. *)
ProcessInit ==
    /\ mining = FALSE /\ stopped = FALSE /\ wanted = FALSE
    /\ miningLoop = NoLoop /\ miningAbort = NoLoop
    /\ loop = [l \in Loops |-> "over"]
    /\ aborted = {} /\ stale = {}
    /\ handler = [sig \in Signals |-> "none"]
    /\ awaits = [sig \in Signals |-> NoLoop]
    /\ unsaved = {}
    /\ snapshots = TRUE
    /\ process = "up"
    /\ patience = GRACE + 1

ProcessNext ==
    \/ startMining
    \/ stopMining
    \/ \E l \in Loops : SearchEnds(l) \/ PauseEnds(l)
    \/ ReceiveBlock
    \/ Snapshot
    \/ \E sig \in Signals : Interrupt(sig) \/ Stop(sig) \/ StopGoesOn(sig) \/ Exit(sig)
    \/ LauncherStops
    \/ Tick
    \/ Kill

ProcessSpec == ProcessInit /\ [][ProcessNext]_processVars

(* Searches end, since each slice has the same chance to find a block, and *)
(* timers, promises and signal handlers get their turn. Nobody is obliged  *)
(* to switch mining on or off, to send a signal or to count to the end.    *)
FairProcessSpec ==
    /\ ProcessSpec
    /\ \A l \in Loops : WF_processVars(SearchEnds(l)) /\ WF_processVars(PauseEnds(l))
    /\ \A sig \in Signals :
          WF_processVars(Stop(sig)) /\ WF_processVars(StopGoesOn(sig)) /\ WF_processVars(Exit(sig))

-----------------------------------------------------------------------------
(* Properties                                                              *)

(* However stopMining, startMining and stop() fall around an unfinished    *)
(* search, there is at most one loop, and the handle that stop() awaits    *)
(* is that loop's; the controller is the one its search listens to.        *)
OneLoop ==
    /\ Running = {miningLoop} \cap Loops
    /\ miningAbort \in Loops => miningAbort \in Running
    /\ process = "up" /\ Running # {} => miningAbort \in Running

(* A process that exits of its own accord has every block it mined in its  *)
(* snapshot: stop() waits for a search that runs, and what that search     *)
(* finds is written too.                                                   *)
MinedIsSaved == process = "exited" => "mined" \notin unsaved

(* "Checking the handle first would make a stop/start pair silently leave  *)
(* mining switched off" (startMining): if the last call is startMining,    *)
(* and the node stays up, there is always another search to come.          *)
MiningResumes ==
    <>[](wanted /\ ~stopped /\ process = "up")
        => []<>(\E l \in Loops : loop[l] = "searching" /\ l \notin aborted)

(* Every signal ends the process, also one that comes during a search,     *)
(* together with another or followed by startMining.                       *)
StopCompletes ==
    \A sig \in Signals : handler[sig] = "sent" ~> process # "up"
=============================================================================
