--------------------------- MODULE LeaderElection ---------------------------
(***************************************************************************)
(* What an election promises, without messages, roles or timers: nodes     *)
(* cast votes, at most one in a term, and a node becomes the leader of a   *)
(* term when a majority of all nodes has voted for it in that term.        *)
(*                                                                         *)
(* Several votes may be cast at once, as by nodes that time out together.  *)
(***************************************************************************)
EXTENDS Integers, FiniteSets

CONSTANT Node

VARIABLES
    votes,      \* every vote ever cast
    elected     \* every pair of a term and a leader of that term

vars == <<votes, elected>>

Vote == [voter : Node, candidate : Node, term : Nat]

Supporters(cast, candidate, term) ==
    {n \in Node : [voter |-> n, candidate |-> candidate, term |-> term] \in cast}

Majority(S) == 2 * Cardinality(S) > Cardinality(Node)

OneVotePerTerm(cast) ==
    \A v, w \in cast : v.voter = w.voter /\ v.term = w.term => v = w

Init ==
    /\ votes = {}
    /\ elected = {}

CastVotes ==
    /\ votes \subseteq votes'
    /\ votes' \subseteq Vote
    /\ OneVotePerTerm(votes')

Elect ==
    /\ elected \subseteq elected'
    /\ \A e \in elected' \ elected : Majority(Supporters(votes', e.leader, e.term))

Next == CastVotes /\ Elect

Spec == Init /\ [][Next]_vars

(* No term has two leaders.                                                  *)
OneLeaderPerTerm == \A x, y \in elected : x.term = y.term => x.leader = y.leader

=============================================================================
