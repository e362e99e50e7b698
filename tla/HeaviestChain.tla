--------------------------- MODULE HeaviestChain ----------------------------
(***************************************************************************)
(* What a node promises of its chain, whatever brings blocks to it: it     *)
(* holds one valid chain and the accounts a replay of it gives, moves only *)
(* to a chain with strictly more work, and a crash takes it back to the    *)
(* last snapshot and no further. Node implements this.                     *)
(***************************************************************************)
EXTENDS Naturals

CONSTANTS
    Start,           \* the chain of the genesis block alone
    Work(_),         \* cumulative work of a chain
    Valid(_),        \* every rule holds along a chain
    Replay(_)        \* the accounts after a chain

VARIABLES
    chain,
    accounts,
    saved            \* the chain a restart begins with

vars == <<chain, accounts, saved>>

Init ==
    /\ chain = Start
    /\ accounts = Replay(Start)
    /\ saved = Start

Adopt ==
    /\ Valid(chain')
    /\ Work(chain') > Work(chain)
    /\ accounts' = Replay(chain')
    /\ UNCHANGED saved

Save == saved' = chain /\ UNCHANGED <<chain, accounts>>

CrashAndRestart ==
    /\ chain' = saved
    /\ accounts' = Replay(saved)
    /\ UNCHANGED saved

Next == Adopt \/ Save \/ CrashAndRestart

Spec == Init /\ [][Next]_vars
=============================================================================
