----------------------------- MODULE Governance -----------------------------
(***************************************************************************)
(* Votes (core/state.js CREATE_VOTE, CAST_VOTE and the sweep of            *)
(* processExpirations). A vote closes at the end of the first block whose  *)
(* time reaches its end; block time may go backwards before and after.     *)
(***************************************************************************)
EXTENDS Land

CONSTANT VoteDurations      \* the durations votes are created with

ASSUME GovernanceAssumption == VoteDurations \subseteq Nat

VARIABLE votes              \* transaction id -> vote

-----------------------------------------------------------------------------

CreateVote(from, fee, serverId, duration) ==
    LET id == TxId(from)
    IN  /\ id \notin DOMAIN votes
        /\ PayFee(from, fee)
        /\ votes' = With(votes, id,
               [serverId |-> serverId, yes |-> 0, no |-> 0, voters |-> << >>,
                endTime |-> block.timestamp + duration, running |-> TRUE, result |-> None])

(* Mutant of MayVote: an address votes as often as it likes.               *)
MayVoteAgain(vote, from) == vote.running

(* Mutant of MayVote: a closed vote still takes votes.                     *)
MayVoteLate(vote, from) == from \notin DOMAIN vote.voters

(* What CAST_VOTE asks: the vote has not been closed; its end may have     *)
(* passed within the block that is being applied.                          *)
MayVote(vote, from) == vote.running /\ from \notin DOMAIN vote.voters

CastVote(from, fee, id, choice) ==
    LET vote == votes[id]
    IN  /\ MayVote(vote, from)
        /\ PayFee(from, fee)
        /\ votes' = [votes EXCEPT ![id] =
               [vote EXCEPT !.voters = With(@, from, choice),
                            !.yes = @ + IF choice = "yes" THEN 1 ELSE 0,
                            !.no  = @ + IF choice = "no" THEN 1 ELSE 0]]

Outcome(vote) ==
    CASE vote.yes > vote.no -> "passed"
      [] vote.yes < vote.no -> "rejected"
      [] OTHER -> "tied"

(* The sweep at the end of a block.                                        *)
VotesSwept(ts) ==
    [id \in DOMAIN votes |->
        IF votes[id].running /\ ts >= votes[id].endTime
        THEN [votes[id] EXCEPT !.running = FALSE, !.result = Outcome(votes[id])]
        ELSE votes[id]]

-----------------------------------------------------------------------------

GovernanceInit == votes = << >>

GovernanceTx(from, fee) ==
    \/ \E s \in DOMAIN servers \cup {None}, d \in VoteDurations : CreateVote(from, fee, s, d)
    \/ \E id \in DOMAIN votes, choice \in {"yes", "no"} : CastVote(from, fee, id, choice)

-----------------------------------------------------------------------------
(* Properties                                                              *)

GovernanceTypeOK ==
    /\ DOMAIN votes \subseteq Addr \X Nat
    /\ \A id \in DOMAIN votes :
          /\ votes[id].serverId \in DOMAIN servers \cup {None}
          /\ DOMAIN votes[id].voters \subseteq Addr
          /\ votes[id].result \in {None, "passed", "rejected", "tied"}

Casting(vote, choice) == {a \in DOMAIN vote.voters : vote.voters[a] = choice}

(* The running counts are what the register of voters says, each address   *)
(* counting once, and the result is that of the votes counted: a vote cast *)
(* in the very block that closes it is counted before it closes.           *)
VotesAreCounted ==
    \A id \in DOMAIN votes :
        LET vote == votes[id]
        IN  /\ vote.yes = Cardinality(Casting(vote, "yes"))
            /\ vote.no = Cardinality(Casting(vote, "no"))
            /\ vote.result = IF vote.running THEN None ELSE Outcome(vote)

(* A choice is recorded once, by the signature of its voter, never changed *)
(* and never dropped; and a result stands whatever is applied afterwards,  *)
(* also in blocks whose time lies before the end of the vote.              *)
VotesAreFinal ==
    [][\A id \in DOMAIN votes :
          LET old == votes[id]
              new == votes'[id]
          IN  /\ ~ old.running => new = old
              /\ \A a \in DOMAIN new.voters :
                    IF a \in DOMAIN old.voters
                    THEN new.voters[a] = old.voters[a]
                    ELSE nonce'[a] = nonce[a] + 1]_votes
=============================================================================
