----------------------------- MODULE MCPeerLinks -----------------------------
(* Nodes 1 and 2 that only know node 0; node 4 that only knows node 3, and *)
(* node 6 that only knows node 5, when connections fail. Nodes 4 and 6 may *)
(* have two dials the same way; node 5 has no name for a dial of its own.  *)
EXTENDS PeerLinks

CONSTANTS
    FAULTS,          \* how many befall nodes 3 and 4
    MORE_FAULTS      \* how many befall nodes 5 and 6

MCNodes == 0..6

MCConns ==
    {k \in (0..2) \X (0..2) \X {1} : k[1] # k[2]}
        \cup {<<4, 3, 1>>, <<4, 3, 2>>, <<3, 4, 1>>} \cup {<<6, 5, 1>>, <<6, 5, 2>>}

MCBootstrap ==
    [n \in MCNodes |-> CASE n \in {1, 2} -> {0} [] n = 4 -> {3} [] n = 6 -> {5} [] OTHER -> {}]

MCNetworks ==
    {[hosts |-> 0..2, faults |-> 0], [hosts |-> {3, 4}, faults |-> FAULTS],
     [hosts |-> {5, 6}, faults |-> MORE_FAULTS]}
=============================================================================
