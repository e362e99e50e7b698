------------------------------ MODULE MCRelay -------------------------------
(* A line of nodes n1, n2, n3, a client of n1, and a stranger's payment.   *)
EXTENDS Relay

CONSTANTS n1, n2, n3, alice, poor, shop

Line == {n1, n2, n3}
LineLinks == {{n1, n2}, {n2, n3}}
MCAddr == {n1, n2, n3, alice, poor, shop}
MCGenesis == [x \in MCAddr |-> IF x = alice THEN 9 ELSE IF x = poor THEN 1 ELSE 0]

(* Together they cost what alice has, and two of them fill a sender's      *)
(* share and, with Dead, the pool of the miner.                            *)
Three ==
    <<[to |-> shop, amount |-> 1, fee |-> 1], [to |-> shop, amount |-> 2, fee |-> 1],
      [to |-> shop, amount |-> 3, fee |-> 1]>>

(* It affords its fee and never its amount.                                *)
Dead == [from |-> poor, to |-> shop, nonce |-> 0, fee |-> 1, amount |-> 9,
         timestamp |-> 0, size |-> 1]
DeadAtMiner == [n \in Line |-> IF n = n3 THEN [emptyPool EXCEPT !.txs = <<Dead>>] ELSE emptyPool]
=============================================================================
