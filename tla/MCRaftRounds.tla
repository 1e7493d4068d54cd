---------------------------- MODULE MCRaftRounds ----------------------------
(* RaftRounds with two nodes that time out together before the others        *)
(* (MCPaired), so that elections collide, and with a different timeout in    *)
(* every node (MCStaggered), like the tests' 3, 5 and 7.                     *)
EXTENDS RaftRounds, SequencesExt

MCOrder == SetToSeq(Node)

MCRank(n) == CHOOSE i \in DOMAIN MCOrder : MCOrder[i] = n

MCPaired == [n \in Node |-> IF MCRank(n) <= 2 THEN 1 ELSE 2]

MCStaggered == [n \in Node |-> 1 + MCRank(n)]

=============================================================================
