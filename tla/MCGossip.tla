------------------------------ MODULE MCGossip ------------------------------
(* Two nodes on one link.                                                  *)
EXTENDS Gossip

CONSTANTS n1, n2

Pair == {n1, n2}
PairLinks == {{n1, n2}}
=============================================================================
