------------------------------- MODULE MCBank -------------------------------
(* Two parties and the bank; one of them mines. Interest is scaled so that *)
(* a contract of a few ticks earns the bank a coin.                        *)
EXTENDS Bank

CONSTANTS alice, bob

MCAddr == {alice, bob}
MCGenesis == [a \in MCAddr |-> IF a = alice THEN 3 ELSE 2]

(* A block of time 3 may be followed by one of time 2, and a contract made *)
(* in the first be settled in the second; every deadline comes by time 4.  *)
MCTimes == {1, 2, 3, 4}
=============================================================================
