-------------------------- MODULE NodeProcessProofs --------------------------
(***************************************************************************)
(* For any signals, loop names and patience of the launcher: there is one  *)
(* mining loop, and an exiting process has saved what it mined.            *)
(*                                                                         *)
(* OneLoop is nearly inductive by itself. MinedIsSaved is not: what keeps  *)
(* a block from being found behind the snapshot's back is that stop() is   *)
(* through with its loop before it writes, and that no loop starts again   *)
(* while the process is stopped. That is StopIsFinal.                      *)
(***************************************************************************)
EXTENDS NodeProcess, TLAPS

ProcessTypeOK ==
    /\ mining \in BOOLEAN /\ stopped \in BOOLEAN
    /\ miningLoop \in Loops \cup {NoLoop, Settled}
    /\ miningAbort \in Loops \cup {NoLoop}
    /\ loop \in [Loops -> {"over", "searching", "pausing"}]
    /\ handler \in [Signals -> {"none", "sent", "waiting", "closing"}]
    /\ awaits \in [Signals -> Loops \cup {NoLoop, Settled}]
    /\ process \in {"up", "exited", "killed"}

(* Whoever has called stop() has stopped the node. While it waits, only    *)
(* the loop it waits for can run; once it has gone on, none does, and no   *)
(* block of this miner's is unsaved. The process exits only after that.    *)
StopIsFinal ==
    /\ \A sig \in Signals :
          /\ handler[sig] \in {"waiting", "closing"} => stopped
          /\ handler[sig] = "waiting" => Running \subseteq {awaits[sig]}
          /\ handler[sig] = "closing" => Running = {} /\ "mined" \notin unsaved
    /\ process = "exited" => \E sig \in Signals : handler[sig] = "closing"

ProcessInv == ProcessTypeOK /\ OneLoop /\ StopIsFinal

-----------------------------------------------------------------------------

LEMMA ProcessInitInv == ProcessInit => ProcessInv
PROOF
    BY ProcessAssumption
    DEF ProcessInit, ProcessInv, ProcessTypeOK, OneLoop, StopIsFinal, Running

(* A loop that runs is the one behind the handle.                          *)
LEMMA RunningLoop ==
    ASSUME ProcessInv, NEW l \in Loops, loop[l] # "over"
    PROVE  l = miningLoop /\ Running = {l} /\ (process = "up" => miningAbort = l)
PROOF BY DEF ProcessInv, OneLoop, Running

LEMMA StartStep ==
    ASSUME ProcessInv, startMining
    PROVE  ProcessInv'
PROOF
<1>1. CASE miningLoop # NoLoop
  <2>1. UNCHANGED <<miningLoop, miningAbort, loop, aborted, stale, stopVars, unsaved, process>>
        /\ mining' = TRUE
      BY <1>1 DEF startMining
  <2>2. Running' = Running
      BY <2>1 DEF Running
  <2> QED
      BY <2>1, <2>2 DEF ProcessInv, ProcessTypeOK, OneLoop, StopIsFinal, stopVars
<1>2. CASE miningLoop = NoLoop /\ stopped
  <2>1. miningLoop' = Settled /\ miningAbort' = NoLoop /\ mining' = TRUE
        /\ UNCHANGED <<loop, aborted, stale, stopVars, unsaved, process>>
      BY <1>2 DEF startMining
  <2>2. Running' = Running /\ Running = {}
      BY <1>2, <2>1, ProcessAssumption DEF Running, ProcessInv, OneLoop
  <2> QED
      BY <2>1, <2>2, ProcessAssumption
      DEF ProcessInv, ProcessTypeOK, OneLoop, StopIsFinal, stopVars
<1>3. CASE miningLoop = NoLoop /\ ~ stopped
  <2>1. PICK l \in Loops \ Running : miningLoop' = l /\ Search(l)
      BY <1>3 DEF startMining
  <2>2. /\ UNCHANGED <<stopVars, unsaved, process>>
        /\ mining' = TRUE /\ miningAbort' = l
        /\ loop' = [loop EXCEPT ![l] = "searching"]
      BY <2>1 DEF startMining, Search
  <2>3. Running = {}
      BY <1>3, ProcessAssumption DEF ProcessInv, OneLoop
  <2>4. Running' = {l}
      BY <2>2, <2>3 DEF Running, ProcessInv, ProcessTypeOK
  <2>5. ProcessTypeOK'
      BY <2>1, <2>2 DEF ProcessInv, ProcessTypeOK, stopVars
  <2>6. OneLoop'
      BY <2>1, <2>2, <2>4 DEF OneLoop
  <2>7. StopIsFinal'
      BY <1>3, <2>2 DEF ProcessInv, ProcessTypeOK, StopIsFinal, stopVars
  <2> QED
      BY <2>5, <2>6, <2>7 DEF ProcessInv
<1> QED
    BY <1>1, <1>2, <1>3

LEMMA SearchEndsStep ==
    ASSUME ProcessInv, NEW l \in Loops, SearchEnds(l)
    PROVE  ProcessInv'
PROOF
<1>1. /\ loop[l] = "searching"
      /\ loop' = [loop EXCEPT ![l] = "pausing"]
      /\ UNCHANGED <<mining, miningLoop, miningAbort, stopVars, process>>
    BY DEF SearchEnds
<1>2. Running' = Running /\ Running # {}
    BY <1>1 DEF Running, ProcessInv, ProcessTypeOK
<1> QED
    BY <1>1, <1>2 DEF ProcessInv, ProcessTypeOK, OneLoop, StopIsFinal, stopVars

LEMMA PauseEndsStep ==
    ASSUME ProcessInv, NEW l \in Loops, PauseEnds(l)
    PROVE  ProcessInv'
PROOF
<1>1. /\ process = "up" /\ loop[l] = "pausing"
      /\ UNCHANGED <<mining, stopVars, unsaved, process>>
    BY DEF PauseEnds
<1>2. l = miningLoop /\ Running = {l} /\ miningAbort = l
    BY <1>1, RunningLoop
<1>3. CASE Goes
  <2>1. loop' = [loop EXCEPT ![l] = "searching"] /\ miningAbort' = l /\ miningLoop' = miningLoop
      BY <1>3 DEF PauseEnds, Search
  <2>2. Running' = Running
      BY <1>1, <2>1 DEF Running, ProcessInv, ProcessTypeOK
  <2> QED
      BY <1>1, <1>2, <2>1, <2>2 DEF ProcessInv, ProcessTypeOK, OneLoop, StopIsFinal, stopVars
<1>4. CASE ~ Goes
  <2>1. loop' = [loop EXCEPT ![l] = "over"] /\ miningAbort' = NoLoop /\ miningLoop' = NoLoop
      BY <1>4 DEF PauseEnds
  <2>2. Running' = {}
      BY <1>2, <2>1 DEF Running, ProcessInv, ProcessTypeOK
  <2> QED
      BY <1>1, <2>1, <2>2, ProcessAssumption
      DEF ProcessInv, ProcessTypeOK, OneLoop, StopIsFinal, stopVars
<1> QED
    BY <1>3, <1>4

(* Blocks of others do not count; neither does a node that has no loop.    *)
LEMMA BlockStep ==
    ASSUME ProcessInv, ReceiveBlock \/ Snapshot
    PROVE  ProcessInv'
PROOF
<1>1. /\ UNCHANGED <<mining, miningLoop, miningAbort, loop, stopVars, process>>
      /\ "mined" \in unsaved' => "mined" \in unsaved
    BY DEF ReceiveBlock, Snapshot, miningVars
<1>2. Running' = Running
    BY <1>1 DEF Running
<1> QED
    BY <1>1, <1>2 DEF ProcessInv, ProcessTypeOK, OneLoop, StopIsFinal, stopVars

LEMMA StopStep ==
    ASSUME ProcessInv, NEW sig \in Signals, Stop(sig)
    PROVE  ProcessInv'
PROOF
<1>1. /\ process = "up" /\ handler[sig] = "sent"
      /\ stopped' = TRUE /\ mining' = FALSE /\ snapshots' = FALSE
      /\ UNCHANGED <<miningLoop, miningAbort, loop, process>>
    BY DEF Stop
<1>2. Running' = Running
    BY <1>1 DEF Running
<1>3. CASE miningLoop = NoLoop
  <2>1. handler' = [handler EXCEPT ![sig] = "closing"] /\ unsaved' = {} /\ awaits' = awaits
      BY <1>3 DEF Stop, Wind
  <2>2. Running = {}
      BY <1>3, ProcessAssumption DEF ProcessInv, OneLoop
  <2> QED
      BY <1>1, <1>2, <2>1, <2>2 DEF ProcessInv, ProcessTypeOK, OneLoop, StopIsFinal
<1>4. CASE miningLoop # NoLoop
  <2>1. handler' = [handler EXCEPT ![sig] = "waiting"] /\ unsaved' = unsaved
        /\ awaits' = [awaits EXCEPT ![sig] = miningLoop]
      BY <1>4 DEF Stop
  <2>2. Running \subseteq {miningLoop}
      BY DEF ProcessInv, OneLoop
  <2>3. ProcessTypeOK' /\ OneLoop'
      BY <1>1, <1>2, <2>1 DEF ProcessInv, ProcessTypeOK, OneLoop
  <2>4. StopIsFinal'
      BY <1>1, <1>2, <2>1, <2>2 DEF ProcessInv, ProcessTypeOK, StopIsFinal
  <2> QED
      BY <2>3, <2>4 DEF ProcessInv
<1> QED
    BY <1>3, <1>4

LEMMA StopGoesOnStep ==
    ASSUME ProcessInv, NEW sig \in Signals, StopGoesOn(sig)
    PROVE  ProcessInv'
PROOF
<1>1. /\ process = "up" /\ handler[sig] = "waiting" /\ awaits[sig] \notin Running
      /\ handler' = [handler EXCEPT ![sig] = "closing"] /\ unsaved' = {}
      /\ UNCHANGED <<mining, miningLoop, miningAbort, loop, stopped, awaits, process>>
    BY DEF StopGoesOn, Wind, miningVars
<1>2. Running' = Running
    BY <1>1 DEF Running
<1>3. Running = {}
    BY <1>1 DEF ProcessInv, StopIsFinal
<1> QED
    BY <1>1, <1>2, <1>3 DEF ProcessInv, ProcessTypeOK, OneLoop, StopIsFinal

(* The other steps leave the loop alone and send a signal or end the       *)
(* process.                                                                *)
LEMMA OutsideStep ==
    ASSUME ProcessInv,
           \/ stopMining \/ LauncherStops \/ Tick \/ Kill
           \/ \E sig \in Signals : Interrupt(sig) \/ Exit(sig)
           \/ UNCHANGED processVars
    PROVE  ProcessInv'
PROOF
<1>1. /\ UNCHANGED <<miningLoop, miningAbort, loop, stopped, awaits, unsaved>>
      /\ mining' \in BOOLEAN
      /\ process' \in {process, "exited", "killed"} /\ (process' = "up" => process = "up")
    BY ProcessAssumption
    DEF stopMining, LauncherStops, Tick, Kill, Interrupt, Exit, Send, miningVars, stopVars,
        processVars, ProcessInv, ProcessTypeOK
<1>2. \/ handler' = handler
      \/ \E sig \in Signals : handler' = [handler EXCEPT ![sig] = "sent"] /\ handler[sig] = "none"
    BY ProcessAssumption
    DEF stopMining, LauncherStops, Tick, Kill, Interrupt, Exit, Send, stopVars, processVars
<1>3. process' = "exited" => \E sig \in Signals : handler'[sig] = "closing"
    BY ProcessAssumption
    DEF stopMining, LauncherStops, Tick, Kill, Interrupt, Exit, Send, stopVars, processVars,
        ProcessInv, StopIsFinal, ProcessTypeOK
<1>4. Running' = Running
    BY <1>1 DEF Running
<1>5. ProcessTypeOK'
    BY <1>1, <1>2 DEF ProcessInv, ProcessTypeOK
<1>6. OneLoop'
    BY <1>1, <1>4 DEF ProcessInv, OneLoop
<1>7. \A sig \in Signals : handler'[sig] \in {"waiting", "closing"} => handler'[sig] = handler[sig]
    BY <1>2 DEF ProcessInv, ProcessTypeOK
<1>8. StopIsFinal'
    BY <1>1, <1>3, <1>4, <1>7 DEF ProcessInv, StopIsFinal
<1> QED
    BY <1>5, <1>6, <1>8 DEF ProcessInv

LEMMA ProcessInvariant == ProcessSpec => []ProcessInv
PROOF
<1>1. ProcessInv /\ [ProcessNext]_processVars => ProcessInv'
    BY StartStep, SearchEndsStep, PauseEndsStep, BlockStep, StopStep, StopGoesOnStep, OutsideStep
    DEF ProcessNext
<1> QED
    BY ProcessInitInv, <1>1, PTL DEF ProcessSpec

(* However stopMining, startMining and stop() fall around a search, there  *)
(* is one loop, it is the one stop() awaits, and its search listens to the *)
(* controller that stopMining aborts.                                      *)
THEOREM AlwaysOneLoop == ProcessSpec => []OneLoop
PROOF
<1>1. ProcessInv => OneLoop
    BY DEF ProcessInv
<1> QED
    BY ProcessInvariant, <1>1, PTL

(* A process that exits of its own accord has saved every block it mined,  *)
(* whichever of its signals' handlers gets to the end first.               *)
THEOREM MinedIsAlwaysSaved == ProcessSpec => []MinedIsSaved
PROOF
<1>1. ProcessInv => MinedIsSaved
    BY DEF ProcessInv, StopIsFinal, MinedIsSaved
<1> QED
    BY ProcessInvariant, <1>1, PTL
=============================================================================
