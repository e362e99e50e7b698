--------------------------- MODULE MCStateMachine ---------------------------
(* Two players and a few transactions in each block. One behaviour stays   *)
(* within one domain (the market also uses tokens to pay with), so that    *)
(* long sequences of its transactions fit: focus picks the domain.         *)
EXTENDS StateMachine

CONSTANTS
    alice, bob, GOLD, steve, overworld, nether, spawn,
    LastTime             \* bound: block times, where a domain has no deadlines

MCAddr == {alice, bob}
MCGenesis == [a \in MCAddr |-> IF a = alice THEN 60 ELSE 40]
MCSymbols == {GOLD}

(* Bound: the transactions of one behaviour, by domain. *)
MaxTxs == [bank |-> 4, tokens |-> 4, market |-> 5, land |-> 5, stocks |-> 4, votes |-> 4]

VARIABLE focus

(* Only the tables of the domain in focus change. *)
InFocus ==
    /\ focus = "bank" \/ contracts' = contracts
    /\ focus \in {"tokens", "market"} \/ tokenVars' = tokenVars
    /\ focus = "market" \/ marketVars' = marketVars
    /\ focus = "land" \/ landVars' = landVars
    /\ focus = "stocks" \/ companies' = companies
    /\ focus = "votes" \/ votes' = votes

MCInit == StateInit /\ focus \in DOMAIN MaxTxs

MCNext ==
    /\ StateNext
    /\ InFocus
    /\ Total(nonce') <= MaxTxs[focus]
    /\ focus \in {"bank", "votes"} \/ block'.timestamp <= LastTime
    /\ UNCHANGED focus

MCSpec == MCInit /\ [][MCNext]_<<stateVars, focus>>
=============================================================================
