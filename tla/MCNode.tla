------------------------------- MODULE MCNode -------------------------------
(* One node, its miner me, a rival miner peer, and a client alice whose    *)
(* payments to bob are what bob's own transaction needs.                   *)
EXTENDS Node

CONSTANTS me, peer, alice, bob

MCAddr == {me, peer, alice, bob}
MCGenesis == [a \in MCAddr |-> IF a = alice THEN 6 ELSE 0]

Tx(from, to, n, fee, amount) ==
    [from |-> from, to |-> to, nonce |-> n, fee |-> fee, amount |-> amount,
     timestamp |-> 0, size |-> 1]

pay    == Tx(alice, bob, 0, 1, 2)      \* bob has coin only after this
rival  == Tx(alice, peer, 0, 2, 4)     \* same nonce, higher fee
later  == Tx(alice, bob, 1, 1, 2)      \* fails after rival
spend  == [Tx(bob, alice, 0, 1, 1) EXCEPT !.timestamp = 1]
never  == Tx(alice, bob, 0, 1, 9)      \* affords its fee, never its amount

MCTxs == {pay, rival, later, spend}
MCBodies == {<< >>, <<later>>, <<pay, spend>>}

StrikeTxs == {never, later}
NoBodies == {<< >>}

Big == [pay EXCEPT !.size = 3]
BigTxs == {Big, [Big EXCEPT !.from = alice, !.nonce = 1]}
=============================================================================
