--------------------------- MODULE MCRaftCluster ---------------------------
(* RaftCluster with the same timeout in every process and interchangeable    *)
(* nodes.                                                                    *)
EXTENDS RaftCluster, TLC

CONSTANT Timeout

MCElectionTimeout == [n \in Node |-> Timeout]

NodeSymmetry == Permutations(Node)

=============================================================================
