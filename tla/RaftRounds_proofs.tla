-------------------------- MODULE RaftRounds_proofs --------------------------
(***************************************************************************)
(* Theorems about RaftRounds, for every cluster of odd size, every timeout *)
(* and every disturbance: no term has two leaders, and the rounds of       *)
(* messages implement LeaderElection.                                      *)
(***************************************************************************)
EXTENDS RaftRounds, RaftNode_proofs

OddCluster == Cardinality(Node) % 2 = 1

-----------------------------------------------------------------------------
(* The inductive invariant.                                                  *)

UnderWay == batch \cup outbox

CastVote(v, c, t) == [voter |-> v, candidate |-> c, term |-> t]

Supporters(n) == Election!Supporters(votes, n, node[n].term)

(* No vote is of a later term than its voter's, and one of the voter's term  *)
(* is the one in votedFor.                                                   *)
VotesMatchNodes ==
    \A v \in votes :
        /\ v.term <= node[v.voter].term
        /\ v.term = node[v.voter].term => v.candidate = node[v.voter].votedFor

LeadersAreElected == LeadersOf(node) \subseteq elected

ElectedByMajority ==
    \A e \in elected : Election!Majority(Election!Supporters(votes, e.leader, e.term))

(* The messages of an election do not outlive the Tick that began it: as     *)
(* long as the candidate is one, they are of its present term.               *)
OfElection(n, t) ==
    /\ t <= node[n].term
    /\ node[n].role = RoleCandidate => t = node[n].term

RequestOpen(m) == m.ok /\ m.from # m.to /\ OfElection(m.from, m.term)

GrantOpen(m) ==
    /\ m.from # m.to
    /\ OfElection(m.to, m.term)
    /\ CastVote(m.from, m.to, m.term) \in votes

HeartbeatOpen(m) ==
    m.from # m.to /\ [term |-> m.term, leader |-> m.from] \in elected

MessagesOpen ==
    \A m \in UnderWay :
        /\ IsRequest(m) => RequestOpen(m)
        /\ IsGrant(m) => GrantOpen(m)
        /\ m.type = AppendEntriesReq => HeartbeatOpen(m)

(* Requests are of the first round of a Tick and grants of the second.       *)
RoundsInOrder ==
    /\ \A m \in outbox : ~ IsRequest(m)
    /\ \A g \in batch : IsGrant(g) =>
           /\ \A q \in batch : ~ IsRequest(q)
           /\ \A x \in outbox : ~ IsGrant(x)

Answers(g, q) == g.from = q.to /\ g.to = q.from /\ g.term = q.term

AnsweredOnce ==
    \A q \in batch, g \in outbox : IsRequest(q) /\ IsGrant(g) => ~ Answers(g, q)

(* The nodes from which n may still hear: its request or their grant is      *)
(* under way.                                                                *)
Awaited(n) ==
    {x \in Node : \E m \in UnderWay :
        \/ IsRequest(m) /\ m.from = n /\ m.to = x
        \/ IsGrant(m) /\ m.to = n /\ m.from = x}

(* votesReceived of a candidate counts none but supporters in its present    *)
(* term, and none whose vote is still under way.                             *)
CandidatesCount ==
    \A n \in Node : node[n].role = RoleCandidate =>
        node[n].votesReceived <= Cardinality(Supporters(n) \ Awaited(n))

RoundInv ==
    /\ TypeOK
    /\ ~ panicked
    /\ VotesMatchNodes
    /\ Election!OneVotePerTerm(votes)
    /\ LeadersAreElected
    /\ ElectedByMajority
    /\ MessagesOpen
    /\ RoundsInOrder
    /\ AnsweredOnce
    /\ CandidatesCount

-----------------------------------------------------------------------------
(* Supporters and majorities.                                                *)

(* Majority counts with the Cardinality that this module uses.               *)
LEMMA MajorityCounts ==
    ASSUME NEW S
    PROVE  Election!Majority(S) <=> 2 * Cardinality(S) > Cardinality(Node)
  <1>1. \A T : Election!Cardinality(T) = Cardinality(T)
    BY DEF Election!Cardinality, Cardinality
  <1> QED
    BY <1>1 DEF Election!Majority

LEMMA SupportersGrow ==
    ASSUME NEW V, NEW W, V \subseteq W, NEW n, NEW t
    PROVE  /\ Election!Supporters(V, n, t) \subseteq Election!Supporters(W, n, t)
           /\ Election!Supporters(W, n, t) \subseteq Node
           /\ IsFiniteSet(Election!Supporters(W, n, t))
  <1>1. /\ Election!Supporters(V, n, t) \subseteq Election!Supporters(W, n, t)
        /\ Election!Supporters(W, n, t) \subseteq Node
    BY DEF Election!Supporters
  <1> QED
    BY <1>1, NodeAssumption, FS_Subset

LEMMA MoreIsMajority ==
    ASSUME NEW S \in SUBSET Node, NEW T \in SUBSET Node, S \subseteq T,
           Election!Majority(S)
    PROVE  Election!Majority(T)
  <1>1. IsFiniteSet(S) /\ IsFiniteSet(T) /\ IsFiniteSet(Node)
    BY NodeAssumption, FS_Subset
  <1>2. /\ Cardinality(S) <= Cardinality(T)
        /\ Cardinality(S) \in Nat
        /\ Cardinality(T) \in Nat
        /\ Cardinality(Node) \in Nat
    BY <1>1, FS_Subset, FS_CardinalityType
  <1> QED
    BY <1>2, MajorityCounts

(* votesReceived > len(peerIDs)/2 is a majority of an odd cluster.           *)
LEMMA WinnersHaveMajority ==
    ASSUME OddCluster, NEW n \in Node, NEW S \in SUBSET Node, NEW count \in Nat,
           count <= Cardinality(S), WinsElection(n, count)
    PROVE  Election!Majority(S)
  <1>1. IsFiniteSet(Node) /\ IsFiniteSet(S)
    BY NodeAssumption, FS_Subset
  <1>2. /\ Cardinality(Node) \in Nat
        /\ Cardinality(S) \in Nat
        /\ Cardinality(peerIDs(n)) = Cardinality(Node) - 1
    BY <1>1, FS_CardinalityType, FS_RemoveElement DEF peerIDs
  <1>3. /\ Cardinality(Node) % 2 = 1
        /\ count > (Cardinality(Node) - 1) \div 2
    BY <1>2 DEF OddCluster, WinsElection
  <1>4. 2 * Cardinality(S) > Cardinality(Node)
    BY <1>2, <1>3
  <1> QED
    BY <1>4, MajorityCounts

(* Two leaders of a term would share a voter, who voted once.                *)
LEMMA SameLeader ==
    ASSUME Election!OneVotePerTerm(votes), ElectedByMajority,
           NEW e \in elected, NEW f \in elected, e.term = f.term
    PROVE  e.leader = f.leader
  <1> DEFINE S == Election!Supporters(votes, e.leader, e.term)
             T == Election!Supporters(votes, f.leader, f.term)
  <1>1. /\ S \subseteq Node
        /\ T \subseteq Node
        /\ IsFiniteSet(Node)
        /\ IsFiniteSet(S)
        /\ IsFiniteSet(T)
    BY SupportersGrow, NodeAssumption
  <1>2. Election!Majority(S) /\ Election!Majority(T)
    BY DEF ElectedByMajority
  <1> HIDE DEF S, T
  <1>3. Cardinality(S) + Cardinality(T) > Cardinality(Node)
    BY <1>1, <1>2, FS_CardinalityType, MajorityCounts
  <1>4. PICK x \in Node : x \in S /\ x \in T
    BY <1>1, <1>3, FS_MajoritiesIntersect
  <1>5. /\ CastVote(x, e.leader, e.term) \in votes
        /\ CastVote(x, f.leader, e.term) \in votes
    BY <1>4 DEF S, T, Election!Supporters, CastVote
  <1>6. \A c, t : /\ CastVote(x, c, t).voter = x
                  /\ CastVote(x, c, t).candidate = c
                  /\ CastVote(x, c, t).term = t
    BY DEF CastVote
  <1>7. CastVote(x, e.leader, e.term) = CastVote(x, f.leader, e.term)
    BY <1>5, <1>6 DEF Election!OneVotePerTerm
  <1> QED
    BY <1>6, <1>7

LEMMA OneLeader ==
    ASSUME TypeOK, Election!OneVotePerTerm(votes), ElectedByMajority,
           NEW e \in elected, NEW f \in elected, e.term = f.term
    PROVE  e = f
  <1>1. e.leader = f.leader
    BY SameLeader
  <1> QED
    BY <1>1 DEF TypeOK

-----------------------------------------------------------------------------
(* Votes and leaders in a step in which every node advances.                 *)

LEMMA VotesRemembered ==
    ASSUME TypeOK, node' \in [Node -> NodeState], VotesMatchNodes,
           Election!OneVotePerTerm(votes),
           \A n \in Node : Advances(node[n], node'[n]),
           votes' = votes \cup VotesIn(node')
    PROVE  /\ votes \subseteq votes'
           /\ votes' \subseteq [voter : Node, candidate : Node, term : Nat]
           /\ \A n \in Node : node'[n].votedFor # NoVote =>
                 CastVote(n, node'[n].votedFor, node'[n].term) \in votes'
           /\ VotesMatchNodes'
           /\ Election!OneVotePerTerm(votes')
  <1>1. \A n \in Node : /\ node[n] \in NodeState
                        /\ node'[n] \in NodeState
                        /\ node[n].term \in Nat
                        /\ node'[n].term \in Nat
                        /\ node[n].term <= node'[n].term
                        /\ node'[n].votedFor \in Node \cup {NoVote}
    BY DEF TypeOK, NodeState, Advances
  <1>2. \A v \in VotesIn(node') :
           /\ v.voter \in Node
           /\ node'[v.voter].votedFor # NoVote
           /\ v = CastVote(v.voter, node'[v.voter].votedFor, node'[v.voter].term)
           /\ v.candidate = node'[v.voter].votedFor
           /\ v.term = node'[v.voter].term
           /\ v \in [voter : Node, candidate : Node, term : Nat]
    BY <1>1 DEF VotesIn, CastVote
  <1>3. \A n \in Node : node'[n].votedFor # NoVote =>
            CastVote(n, node'[n].votedFor, node'[n].term) \in VotesIn(node')
    BY DEF VotesIn, CastVote
  <1>4. \A v \in votes : /\ v \in [voter : Node, candidate : Node, term : Nat]
                         /\ v.voter \in Node
                         /\ v.candidate \in Node
                         /\ v.candidate # NoVote
                         /\ v.term \in Nat
    BY NodeAssumption DEF TypeOK
  <1>5. ASSUME NEW v \in votes
        PROVE  /\ v.term <= node'[v.voter].term
               /\ v.term = node'[v.voter].term => v.candidate = node'[v.voter].votedFor
    <2>1. /\ v.term <= node[v.voter].term
          /\ v.term = node[v.voter].term => v.candidate = node[v.voter].votedFor
      BY DEF VotesMatchNodes
    <2>2. v.term = node'[v.voter].term => node'[v.voter].term = node[v.voter].term
      BY <1>1, <1>4, <2>1
    <2> QED
      BY <1>1, <1>4, <2>1, <2>2 DEF Advances
  <1>6. \A v \in votes' : /\ v.term <= node'[v.voter].term
                          /\ v.term = node'[v.voter].term =>
                                v.candidate = node'[v.voter].votedFor
    BY <1>1, <1>2, <1>5
  <1>7. ASSUME NEW v \in votes', NEW w \in votes', v.voter = w.voter, v.term = w.term
        PROVE  v = w
    <2>1. CASE v \in votes /\ w \in votes
      BY <1>7, <2>1 DEF Election!OneVotePerTerm
    <2>2. CASE v \in VotesIn(node') \/ w \in VotesIn(node')
      <3>1. v.term = node'[v.voter].term
        BY <1>2, <1>7, <2>2
      <3>2. v.candidate = w.candidate
        BY <1>6, <1>7, <3>1
      <3>3. /\ v \in [voter : Node, candidate : Node, term : Nat]
            /\ w \in [voter : Node, candidate : Node, term : Nat]
        BY <1>2, <1>4
      <3> QED
        BY <1>7, <3>2, <3>3
    <2> QED
      BY <2>1, <2>2
  <1>8. VotesMatchNodes'
    BY <1>6 DEF VotesMatchNodes
  <1>9. Election!OneVotePerTerm(votes')
    BY <1>7 DEF Election!OneVotePerTerm
  <1> QED
    BY <1>2, <1>3, <1>4, <1>8, <1>9

LEMMA LeadersRemembered ==
    ASSUME TypeOK, node' \in [Node -> NodeState], LeadersAreElected, ElectedByMajority,
           votes \subseteq votes', elected' = elected \cup LeadersOf(node'),
           \A n \in Node : node'[n].role = RoleLeader =>
               \/ node[n].role = RoleLeader /\ node'[n].term = node[n].term
               \/ Election!Majority(Election!Supporters(votes', n, node'[n].term))
    PROVE  /\ elected' \subseteq [term : Nat, leader : Node]
           /\ LeadersAreElected'
           /\ ElectedByMajority'
           /\ \A e \in elected' \ elected :
                 Election!Majority(Election!Supporters(votes', e.leader, e.term))
  <1>1. ASSUME NEW e \in LeadersOf(node')
        PROVE  /\ e \in [term : Nat, leader : Node]
               /\ \/ e \in elected
                  \/ Election!Majority(Election!Supporters(votes', e.leader, e.term))
    <2>1. PICK n \in Node : /\ node'[n].role = RoleLeader
                            /\ e = [term |-> node'[n].term, leader |-> n]
      BY <1>1 DEF LeadersOf
    <2>2. node'[n].term \in Nat
      BY DEF NodeState
    <2>3. node[n].role = RoleLeader /\ node'[n].term = node[n].term => e \in elected
      BY <2>1 DEF LeadersAreElected, LeadersOf
    <2> QED
      BY <2>1, <2>2, <2>3
  <1>2. ASSUME NEW e \in elected
        PROVE  Election!Majority(Election!Supporters(votes', e.leader, e.term))
    <2>1. Election!Majority(Election!Supporters(votes, e.leader, e.term))
      BY DEF ElectedByMajority
    <2>2. /\ Election!Supporters(votes, e.leader, e.term)
               \subseteq Election!Supporters(votes', e.leader, e.term)
          /\ Election!Supporters(votes', e.leader, e.term) \subseteq Node
      BY SupportersGrow
    <2> QED
      BY <2>1, <2>2, MoreIsMajority
  <1>3. LeadersAreElected'
    BY DEF LeadersAreElected, LeadersOf
  <1>4. ElectedByMajority'
    BY <1>1, <1>2 DEF ElectedByMajority
  <1> QED
    BY <1>1, <1>3, <1>4 DEF TypeOK

-----------------------------------------------------------------------------
(* The steps.                                                                *)

(* What a step does to the election.                                         *)
ElectionStep ==
    /\ votes \subseteq votes'
    /\ Election!OneVotePerTerm(votes')
    /\ elected \subseteq elected'
    /\ \A e \in elected' \ elected :
           Election!Majority(Election!Supporters(votes', e.leader, e.term))

(* A count that one more vote has been added to, or none.                    *)
LEMMA CountGrows ==
    ASSUME NEW S \in SUBSET Node, NEW T \in SUBSET Node, S \subseteq T,
           NEW count \in Nat, count <= Cardinality(S)
    PROVE  /\ count <= Cardinality(T)
           /\ \A x \in T \ S : count + 1 <= Cardinality(T)
  <1>1. IsFiniteSet(S) /\ IsFiniteSet(T)
    BY NodeAssumption, FS_Subset
  <1>2. Cardinality(S) \in Nat /\ Cardinality(T) \in Nat /\ Cardinality(S) <= Cardinality(T)
    BY <1>1, FS_Subset, FS_CardinalityType
  <1>3. ASSUME NEW x \in T \ S PROVE count + 1 <= Cardinality(T)
    <2>1. Cardinality(S \cup {x}) = Cardinality(S) + 1
      BY <1>1, FS_AddElement
    <2>2. Cardinality(S \cup {x}) <= Cardinality(T)
      BY <1>1, FS_Subset
    <2> QED
      BY <1>2, <2>1, <2>2
  <1> QED
    BY <1>2, <1>3

(* What Deliver changes, with the node n and the result r by name.           *)
LEMMA DeliverChanges ==
    ASSUME TypeOK, NEW m \in batch, Deliver(m),
           NEW n, n = m.to, NEW r, r = Step(node[n], m)
    PROVE  /\ m \in Message /\ n \in Node /\ node[n] \in NodeState
           /\ WellFormed(r)
           /\ node' \in [Node -> NodeState]
           /\ node'[n] = r.state
           /\ \A k \in Node \ {n} : node'[k] = node[k]
           /\ \A k \in Node : Advances(node[k], node'[k])
           /\ batch' = batch \ {m}
           /\ outbox' = outbox \cup r.outbox
           /\ panicked' = r.panics
           /\ Remember
           /\ UNCHANGED <<disabled, stable>>
  <1>1. m \in Message /\ n \in Node /\ node[n] \in NodeState
    BY DEF TypeOK, Message
  <1>2. WellFormed(r) /\ Advances(node[n], r.state)
    BY <1>1, StepAdvances
  <1>3. /\ node' = [node EXCEPT ![n] = r.state]
        /\ batch' = batch \ {m}
        /\ outbox' = outbox \cup r.outbox
        /\ panicked' = r.panics
        /\ Remember
        /\ UNCHANGED <<disabled, stable>>
    BY DEF Deliver
  <1>4. /\ node' \in [Node -> NodeState]
        /\ node'[n] = r.state
        /\ \A k \in Node \ {n} : node'[k] = node[k]
    BY <1>1, <1>2, <1>3 DEF TypeOK, WellFormed
  <1>5. \A k \in Node : node[k].term \in Nat
    BY DEF TypeOK, NodeState
  <1>6. \A k \in Node : Advances(node[k], node'[k])
    BY <1>2, <1>4, <1>5 DEF Advances
  <1> QED
    BY <1>1, <1>2, <1>3, <1>4, <1>6

(* No leader hears from another leader of its term, so nothing panics.       *)
LEMMA DeliverDoesNotPanic ==
    ASSUME RoundInv, NEW m \in batch, Deliver(m)
    PROVE  ~ panicked'
  <1>1. PICK n : n = m.to
    OBVIOUS
  <1>2. PICK r : r = Step(node[n], m)
    OBVIOUS
  <1>3. TypeOK
    BY DEF RoundInv
  <1>4. m \in Message /\ n \in Node /\ node[n] \in NodeState /\ panicked' = r.panics
    BY <1>1, <1>2, <1>3, DeliverChanges
  <1> SUFFICES ASSUME r.panics PROVE FALSE
    BY <1>4
  <1>5. m.type = AppendEntriesReq /\ node[n].role = RoleLeader /\ m.term = node[n].term
    BY <1>2, <1>4, StepOutcome
  <1>6. m.from # n /\ [term |-> m.term, leader |-> m.from] \in elected
    BY <1>1, <1>5 DEF RoundInv, MessagesOpen, HeartbeatOpen, UnderWay
  <1>7. [term |-> m.term, leader |-> n] \in elected
    BY <1>4, <1>5 DEF RoundInv, LeadersAreElected, LeadersOf
  <1>8. PICK e \in elected, f \in elected :
            /\ e = [term |-> m.term, leader |-> m.from]
            /\ f = [term |-> m.term, leader |-> n]
    BY <1>6, <1>7
  <1>9. e.term = f.term /\ e.leader = m.from /\ f.leader = n
    BY <1>8
  <1>10. e = f
    BY <1>3, <1>9, OneLeader DEF RoundInv
  <1> QED
    BY <1>6, <1>9, <1>10

(* A vote that is counted is one of the present election, and the only       *)
(* message by which n still waits for that voter.                            *)
LEMMA CountedVote ==
    ASSUME RoundInv, NEW m \in batch, NEW n \in Node, n = m.to, IsCounted(node[n], m)
    PROVE  /\ IsGrant(m)
           /\ m.from \in Awaited(n)
           /\ m.from \in Supporters(n)
           /\ \A y \in UnderWay : IsRequest(y) /\ y.from = n => y.to # m.from
           /\ \A y \in UnderWay : IsGrant(y) /\ y.to = n /\ y.from = m.from => y = m
  <1>1. /\ IsGrant(m)
        /\ node[n].role = RoleCandidate
        /\ m \in UnderWay
        /\ m \in Message
        /\ m.from \in Node
    BY DEF IsCounted, CountsVote, IsGrant, UnderWay, RoundInv, TypeOK, Message
  <1>2. m.term = node[n].term /\ CastVote(m.from, n, m.term) \in votes
    BY <1>1 DEF RoundInv, MessagesOpen, GrantOpen, OfElection
  <1>3. m.from \in Awaited(n)
    BY <1>1 DEF Awaited
  <1>4. m.from \in Supporters(n)
    BY <1>1, <1>2 DEF Supporters, Election!Supporters, CastVote
  <1>5. \A y \in UnderWay : ~ IsRequest(y)
    BY <1>1 DEF RoundInv, RoundsInOrder, UnderWay
  <1>6. ASSUME NEW y \in UnderWay, IsGrant(y), y.to = n, y.from = m.from
        PROVE  y = m
    <2>1. y.term = node[n].term /\ y \in Message
      BY <1>1, <1>6 DEF RoundInv, MessagesOpen, GrantOpen, OfElection, TypeOK, UnderWay
    <2> QED
      BY <1>1, <1>2, <1>6, <2>1, SameMessage DEF IsGrant
  <1> QED
    BY <1>1, <1>3, <1>4, <1>5, <1>6

(* Nobody is awaited who was not before, and not the sender of a counted     *)
(* vote.                                                                     *)
LEMMA DeliverAwaits ==
    ASSUME RoundInv, NEW m \in batch, Deliver(m), NEW n, n = m.to
    PROVE  /\ \A k \in Node : Awaited(k)' \subseteq Awaited(k)
           /\ IsCounted(node[n], m) => m.from \notin Awaited(n)'
  <1>1. PICK r : r = Step(node[n], m)
    OBVIOUS
  <1>2. TypeOK /\ m \in UnderWay
    BY DEF RoundInv, UnderWay
  <1>3. /\ m \in Message
        /\ n \in Node
        /\ node[n] \in NodeState
        /\ batch' = batch \ {m}
        /\ outbox' = outbox \cup r.outbox
    BY <1>1, <1>2, DeliverChanges
  <1>4. SendsFor(m, r.state, r.outbox)
    BY <1>1, <1>3, StepOutcome
  <1>5. UnderWay' = (batch \ {m}) \cup outbox \cup r.outbox
    BY <1>3 DEF UnderWay
  <1>6. \A x \in r.outbox :
           /\ ~ IsRequest(x)
           /\ IsGrant(x) => IsRequest(m) /\ x.from = n /\ x.to = m.from
    BY <1>4 DEF SendsFor
  <1>7. ASSUME NEW k \in Node, NEW x \in Awaited(k)'
        PROVE  x \in Awaited(k)
    <2>1. x \in Node
      BY <1>7 DEF Awaited
    <2>2. PICK y \in UnderWay' : \/ IsRequest(y) /\ y.from = k /\ y.to = x
                                 \/ IsGrant(y) /\ y.to = k /\ y.from = x
      BY <1>7 DEF Awaited, IsRequest, IsGrant
    <2>3. CASE y \in UnderWay
      BY <2>1, <2>2, <2>3 DEF Awaited
    <2>4. CASE y \in r.outbox
      <3>1. IsRequest(m) /\ m.from = k /\ m.to = x
        BY <1>6, <2>2, <2>4
      <3> QED
        BY <1>2, <2>1, <3>1 DEF Awaited
    <2> QED
      BY <1>5, <2>2, <2>3, <2>4 DEF UnderWay
  <1>8. ASSUME IsCounted(node[n], m), m.from \in Awaited(n)'
        PROVE  FALSE
    <2>1. PICK y \in UnderWay' : \/ IsRequest(y) /\ y.from = n /\ y.to = m.from
                                 \/ IsGrant(y) /\ y.to = n /\ y.from = m.from
      BY <1>8 DEF Awaited, IsRequest, IsGrant
    <2>2. IsGrant(m) /\ ~ IsRequest(m)
      BY <1>3, <1>8, CountedVote DEF IsGrant, IsRequest, RequestVoteReq, RequestVoteRes
    <2>3. y \in (batch \ {m}) \cup outbox
      BY <1>5, <1>6, <2>1, <2>2
    <2>4. y \in UnderWay
      BY <2>3 DEF UnderWay
    <2>5. y = m
      BY <1>3, <1>8, <2>1, <2>4, CountedVote
    <2>6. m \notin outbox
      BY <2>2 DEF RoundInv, RoundsInOrder
    <2> QED
      BY <2>3, <2>5, <2>6
  <1> QED
    BY <1>7, <1>8

(* The votes of the receiver after a Deliver, and those of every candidate.  *)
LEMMA DeliverCounts ==
    ASSUME RoundInv, NEW m \in batch, Deliver(m), NEW n, n = m.to, votes \subseteq votes'
    PROVE  /\ IsCounted(node[n], m) =>
                /\ node[n].role = RoleCandidate
                /\ node[n].votesReceived + 1 <=
                     Cardinality(Election!Supporters(votes', n, node[n].term) \ Awaited(n)')
           /\ CandidatesCount'
  <1> DEFINE Before(k) == Supporters(k) \ Awaited(k)
             Now(k) == Election!Supporters(votes', k, node[k].term) \ Awaited(k)'
  <1>1. PICK r : r = Step(node[n], m)
    OBVIOUS
  <1>2. TypeOK
    BY DEF RoundInv
  <1>3. /\ m \in Message
        /\ n \in Node
        /\ node[n] \in NodeState
        /\ node'[n] = r.state
        /\ \A k \in Node \ {n} : node'[k] = node[k]
    BY <1>1, <1>2, DeliverChanges
  <1>4. StaysCandidate(node[n], m, r.state)
    BY <1>1, <1>3, StepOutcome
  <1>5. \A k \in Node : /\ Before(k) \subseteq Now(k)
                        /\ Before(k) \subseteq Node
                        /\ Now(k) \subseteq Node
    <2> SUFFICES ASSUME NEW k \in Node
                 PROVE  Before(k) \subseteq Now(k) /\ Now(k) \subseteq Node
      OBVIOUS
    <2>1. Awaited(k)' \subseteq Awaited(k)
      BY DeliverAwaits
    <2>2. /\ Supporters(k) \subseteq Election!Supporters(votes', k, node[k].term)
          /\ Election!Supporters(votes', k, node[k].term) \subseteq Node
      BY SupportersGrow DEF Supporters
    <2> QED
      BY <2>1, <2>2
  <1>6. \A k \in Node : node[k].votesReceived \in Nat
    BY <1>2 DEF TypeOK, NodeState
  <1>7. \A k \in Node : node[k].role = RoleCandidate =>
            node[k].votesReceived <= Cardinality(Before(k))
    BY DEF RoundInv, CandidatesCount
  <1>8. IsCounted(node[n], m) =>
            /\ node[n].role = RoleCandidate
            /\ m.from \in Now(n) \ Before(n)
    <2> SUFFICES ASSUME IsCounted(node[n], m)
                 PROVE  node[n].role = RoleCandidate /\ m.from \in Now(n) \ Before(n)
      OBVIOUS
    <2>1. m.from \in Awaited(n) /\ m.from \in Supporters(n)
      BY <1>3, CountedVote
    <2>2. m.from \notin Awaited(n)'
      BY DeliverAwaits
    <2>3. m.from \in Election!Supporters(votes', n, node[n].term)
      BY <2>1, SupportersGrow DEF Supporters
    <2>4. node[n].role = RoleCandidate
      BY DEF IsCounted, CountsVote
    <2> QED
      BY <2>1, <2>2, <2>3, <2>4
  <1> HIDE DEF Before, Now
  <1>9. \A k \in Node : node[k].role = RoleCandidate =>
            node[k].votesReceived <= Cardinality(Now(k))
    BY <1>5, <1>6, <1>7, CountGrows
  <1>10. IsCounted(node[n], m) => node[n].votesReceived + 1 <= Cardinality(Now(n))
    BY <1>3, <1>5, <1>6, <1>7, <1>8, CountGrows
  <1>11. ASSUME NEW k \in Node, node'[k].role = RoleCandidate
         PROVE  /\ node'[k].term = node[k].term
                /\ node'[k].votesReceived <= Cardinality(Now(k))
    <2>1. CASE k # n
      <3>1. node'[k] = node[k]
        BY <1>3, <2>1
      <3> QED
        BY <1>9, <1>11, <3>1
    <2>2. CASE k = n
      <3>1. /\ node[n].role = RoleCandidate
            /\ node'[n].term = node[n].term
            /\ node'[n].votesReceived =
                  node[n].votesReceived + IF IsCounted(node[n], m) THEN 1 ELSE 0
        BY <1>3, <1>4, <1>11, <2>2 DEF StaysCandidate
      <3>2. CASE IsCounted(node[n], m)
        BY <1>10, <2>2, <3>1, <3>2
      <3>3. CASE ~ IsCounted(node[n], m)
        BY <1>3, <1>6, <1>9, <2>2, <3>1, <3>3
      <3> QED
        BY <3>2, <3>3
    <2> QED
      BY <2>1, <2>2
  <1>12. CandidatesCount'
    BY <1>11 DEF CandidatesCount, Supporters, Now
  <1> QED
    BY <1>8, <1>10, <1>12 DEF Now

(* OfElection is kept by nodes that advance and become no candidates.        *)
LEMMA ElectionGoesOn ==
    ASSUME TypeOK, node' \in [Node -> NodeState], NEW k \in Node,
           Advances(node[k], node'[k]),
           node'[k].role = RoleCandidate =>
               node[k].role = RoleCandidate /\ node'[k].term = node[k].term,
           NEW t \in Nat, OfElection(k, t)
    PROVE  OfElection(k, t)'
  <1>1. node[k].term \in Nat /\ node'[k].term \in Nat
    BY DEF TypeOK, NodeState
  <1> QED
    BY <1>1 DEF OfElection, Advances

LEMMA DeliverKeepsMessages ==
    ASSUME RoundInv, NEW m \in batch, Deliver(m), votes \subseteq votes',
           elected \subseteq elected', LeadersOf(node') \subseteq elected',
           \A k \in Node : node'[k].votedFor # NoVote =>
               CastVote(k, node'[k].votedFor, node'[k].term) \in votes'
    PROVE  MessagesOpen' /\ RoundsInOrder' /\ AnsweredOnce'
  <1>1. PICK n : n = m.to
    OBVIOUS
  <1>2. PICK r : r = Step(node[n], m)
    OBVIOUS
  <1>3. TypeOK /\ m \in UnderWay
    BY DEF RoundInv, UnderWay
  <1>4. /\ m \in Message
        /\ n \in Node
        /\ node[n] \in NodeState
        /\ WellFormed(r)
        /\ node' \in [Node -> NodeState]
        /\ node'[n] = r.state
        /\ \A k \in Node \ {n} : node'[k] = node[k]
        /\ \A k \in Node : Advances(node[k], node'[k])
        /\ batch' = batch \ {m}
        /\ outbox' = outbox \cup r.outbox
    BY <1>1, <1>2, <1>3, DeliverChanges
  <1>5. StaysCandidate(node[n], m, r.state) /\ SendsFor(m, r.state, r.outbox)
    BY <1>2, <1>4, StepOutcome
  <1>6. \A x \in UnderWay : x \in Message /\ x.from \in Node /\ x.to \in Node /\ x.term \in Nat
    BY <1>3 DEF TypeOK, UnderWay, Message
  <1>7. ASSUME NEW k \in Node, NEW t \in Nat, OfElection(k, t)
        PROVE  OfElection(k, t)'
    <2>1. node'[k].role = RoleCandidate =>
             node[k].role = RoleCandidate /\ node'[k].term = node[k].term
      BY <1>4, <1>5 DEF StaysCandidate
    <2> QED
      BY <1>3, <1>4, <1>7, <2>1, ElectionGoesOn
  <1>8. ASSUME NEW x \in UnderWay
        PROVE  /\ IsRequest(x) => RequestOpen(x)'
               /\ IsGrant(x) => GrantOpen(x)'
               /\ x.type = AppendEntriesReq => HeartbeatOpen(x)'
    <2>1. /\ IsRequest(x) => RequestOpen(x)
          /\ IsGrant(x) => GrantOpen(x)
          /\ x.type = AppendEntriesReq => HeartbeatOpen(x)
      BY DEF RoundInv, MessagesOpen
    <2>2. IsRequest(x) => RequestOpen(x)'
      BY <1>6, <1>7, <2>1 DEF RequestOpen
    <2>3. IsGrant(x) => GrantOpen(x)'
      BY <1>6, <1>7, <2>1 DEF GrantOpen, CastVote
    <2>4. x.type = AppendEntriesReq => HeartbeatOpen(x)'
      BY <2>1 DEF HeartbeatOpen
    <2> QED
      BY <2>2, <2>3, <2>4
  <1>9. ASSUME NEW x \in r.outbox
        PROVE  /\ ~ IsRequest(x)
               /\ IsGrant(x) => IsRequest(m) /\ Answers(x, m) /\ GrantOpen(x)'
               /\ x.type = AppendEntriesReq => HeartbeatOpen(x)'
    <2>1. ~ IsRequest(x)
      BY <1>5 DEF SendsFor
    <2>2. ASSUME IsGrant(x) PROVE IsRequest(m) /\ Answers(x, m) /\ GrantOpen(x)'
      <3>1. /\ IsRequest(m)
            /\ x.from = n
            /\ x.to = m.from
            /\ x.term = m.term
            /\ node'[n].votedFor = m.from
            /\ node'[n].term = m.term
        BY <1>1, <1>4, <1>5, <2>2 DEF SendsFor
      <3>2. m.from # n /\ OfElection(m.from, m.term)
        BY <1>1, <1>3, <3>1 DEF RoundInv, MessagesOpen, RequestOpen
      <3>3. OfElection(x.to, x.term)'
        BY <1>3, <1>6, <1>7, <3>1, <3>2
      <3>4. m.from # NoVote
        BY <1>3, <1>6, NodeAssumption
      <3>5. CastVote(x.from, x.to, x.term) \in votes'
        BY <1>4, <3>1, <3>4
      <3> QED
        BY <1>1, <3>1, <3>2, <3>3, <3>5 DEF Answers, GrantOpen, CastVote
    <2>3. ASSUME x.type = AppendEntriesReq PROVE HeartbeatOpen(x)'
      <3>1. /\ x.from = n
            /\ x.to # n
            /\ x.term = node'[n].term
            /\ node'[n].role = RoleLeader
        BY <1>1, <1>4, <1>5, <2>3 DEF SendsFor
      <3>2. [term |-> x.term, leader |-> x.from] \in LeadersOf(node')
        BY <1>4, <3>1 DEF LeadersOf
      <3> QED
        BY <3>1, <3>2 DEF HeartbeatOpen
    <2> QED
      BY <2>1, <2>2, <2>3
  <1>10. UnderWay' = (batch \ {m}) \cup outbox \cup r.outbox
    BY <1>4 DEF UnderWay
  <1>11. MessagesOpen'
    <2>1. \A x \in UnderWay' : /\ IsRequest(x) => RequestOpen(x)'
                               /\ IsGrant(x) => GrantOpen(x)'
                               /\ x.type = AppendEntriesReq => HeartbeatOpen(x)'
      BY <1>8, <1>9, <1>10 DEF UnderWay
    <2> QED
      BY <2>1 DEF MessagesOpen, IsRequest, IsGrant
  <1>12. /\ \A x \in outbox' : ~ IsRequest(x)
         /\ \A g \in batch' : IsGrant(g) =>
               /\ \A q \in batch' : ~ IsRequest(q)
               /\ \A x \in outbox' : ~ IsGrant(x)
    BY <1>4, <1>9 DEF RoundInv, RoundsInOrder
  <1>13. RoundsInOrder'
    BY <1>12 DEF RoundsInOrder, IsRequest, IsGrant
  <1>14. ASSUME NEW q \in batch', NEW g \in outbox', IsRequest(q), IsGrant(g)
         PROVE  ~ Answers(g, q)
    <2>1. CASE g \in outbox
      BY <1>4, <1>14, <2>1 DEF RoundInv, AnsweredOnce
    <2>2. CASE g \in r.outbox
      <3> SUFFICES ASSUME Answers(g, q) PROVE FALSE
        OBVIOUS
      <3>1. IsRequest(m) /\ Answers(g, m)
        BY <1>9, <1>14, <2>2
      <3>2. q \in UnderWay /\ q # m
        BY <1>4, <1>14 DEF UnderWay
      <3>3. q.ok /\ m.ok
        BY <1>3, <1>14, <3>1, <3>2 DEF RoundInv, MessagesOpen, RequestOpen
      <3>4. q = m
        BY <1>4, <1>6, <1>14, <3>1, <3>2, <3>3, SameMessage DEF Answers, IsRequest
      <3> QED
        BY <3>2, <3>4
    <2> QED
      BY <1>4, <2>1, <2>2
  <1>15. AnsweredOnce'
    BY <1>14 DEF AnsweredOnce, IsRequest, IsGrant, Answers
  <1> QED
    BY <1>11, <1>13, <1>15

LEMMA DeliverKeeps ==
    ASSUME OddCluster, RoundInv, NEW m \in batch, Deliver(m)
    PROVE  RoundInv' /\ ElectionStep
  <1>1. PICK n : n = m.to
    OBVIOUS
  <1>2. PICK r : r = Step(node[n], m)
    OBVIOUS
  <1>3. TypeOK
    BY DEF RoundInv
  <1>4. /\ m \in Message
        /\ n \in Node
        /\ node[n] \in NodeState
        /\ WellFormed(r)
        /\ node' \in [Node -> NodeState]
        /\ node'[n] = r.state
        /\ \A k \in Node \ {n} : node'[k] = node[k]
        /\ \A k \in Node : Advances(node[k], node'[k])
        /\ batch' = batch \ {m}
        /\ outbox' = outbox \cup r.outbox
        /\ panicked' = r.panics
        /\ Remember
        /\ UNCHANGED <<disabled, stable>>
    BY <1>1, <1>2, <1>3, DeliverChanges
  <1>5. ~ panicked'
    BY DeliverDoesNotPanic
  <1>6. /\ votes \subseteq votes'
        /\ votes' \subseteq [voter : Node, candidate : Node, term : Nat]
        /\ \A k \in Node : node'[k].votedFor # NoVote =>
              CastVote(k, node'[k].votedFor, node'[k].term) \in votes'
        /\ VotesMatchNodes'
        /\ Election!OneVotePerTerm(votes')
    BY <1>3, <1>4, VotesRemembered DEF RoundInv, Remember
  <1>7. /\ CandidatesCount'
        /\ IsCounted(node[n], m) =>
             node[n].votesReceived + 1 <=
               Cardinality(Election!Supporters(votes', n, node[n].term) \ Awaited(n)')
    BY <1>1, <1>6, DeliverCounts
  <1>8. ASSUME NEW k \in Node, node'[k].role = RoleLeader
        PROVE  \/ node[k].role = RoleLeader /\ node'[k].term = node[k].term
               \/ Election!Majority(Election!Supporters(votes', k, node'[k].term))
    <2>1. CASE k # n
      BY <1>4, <1>8, <2>1
    <2>2. CASE k = n
      <3>1. /\ node'[n].term = node[n].term
            /\ \/ node[n].role = RoleLeader
               \/ /\ IsCounted(node[n], m)
                  /\ WinsElection(n, node[n].votesReceived + 1)
        BY <1>1, <1>2, <1>4, <1>8, <2>2, StepOutcome DEF LeadsBy
      <3>2. ASSUME IsCounted(node[n], m), WinsElection(n, node[n].votesReceived + 1)
            PROVE  Election!Majority(Election!Supporters(votes', n, node[n].term))
        <4> DEFINE S == Election!Supporters(votes', n, node[n].term)
        <4>1. S \subseteq Node /\ S \ Awaited(n)' \subseteq Node
          BY SupportersGrow
        <4>2. node[n].votesReceived + 1 <= Cardinality(S \ Awaited(n)')
          BY <1>7, <3>2
        <4>3. node[n].votesReceived + 1 \in Nat
          BY <1>4 DEF NodeState
        <4> HIDE DEF S
        <4>4. Election!Majority(S \ Awaited(n)')
          BY <1>4, <3>2, <4>1, <4>2, <4>3, WinnersHaveMajority
        <4>5. Election!Majority(S)
          BY <4>1, <4>4, MoreIsMajority
        <4> QED
          BY <4>5 DEF S
      <3> QED
        BY <2>2, <3>1, <3>2
    <2> QED
      BY <2>1, <2>2
  <1>9. elected' = elected \cup LeadersOf(node')
    BY <1>4 DEF Remember
  <1>10. /\ elected' \subseteq [term : Nat, leader : Node]
         /\ LeadersAreElected'
         /\ ElectedByMajority'
         /\ \A e \in elected' \ elected :
               Election!Majority(Election!Supporters(votes', e.leader, e.term))
    BY <1>3, <1>4, <1>6, <1>8, <1>9, LeadersRemembered DEF RoundInv
  <1>11. MessagesOpen' /\ RoundsInOrder' /\ AnsweredOnce'
    BY <1>6, <1>9, DeliverKeepsMessages
  <1>12. TypeOK'
    BY <1>3, <1>4, <1>5, <1>6, <1>10 DEF TypeOK, WellFormed
  <1>13. RoundInv'
    BY <1>5, <1>6, <1>7, <1>10, <1>11, <1>12 DEF RoundInv, Election!OneVotePerTerm
  <1>14. ElectionStep
    BY <1>6, <1>9, <1>10 DEF ElectionStep
  <1> QED
    BY <1>13, <1>14

(* What TickAll changes in node n, whose clock now shows s.                  *)
LEMMA TickAllChanges ==
    ASSUME TypeOK, TickAll, NEW n \in Node, NEW s, s = TickPasses(n, node[n]),
           NEW r, r = handleTick(n, s)
    PROVE  /\ node'[n] = r.state
           /\ node'[n] \in NodeState
           /\ r.outbox \subseteq Message
           /\ Advances(node[n], node'[n])
           /\ ~ StartsElection(n, s) =>
                /\ node'[n].role = node[n].role
                /\ node'[n].term = node[n].term
                /\ node'[n].votesReceived = node[n].votesReceived
           /\ StartsElection(n, s) =>
                /\ node'[n].votesReceived = 1
                /\ node'[n].votedFor = n
                /\ node'[n].role = RoleLeader => WinsElection(n, 1)
           /\ \A x \in r.outbox :
                /\ ~ IsGrant(x)
                /\ IsRequest(x) => /\ StartsElection(n, s)
                                   /\ x.ok
                                   /\ x.from = n
                                   /\ x.to \in Node \ {n}
                                   /\ x.term = node'[n].term
                /\ x.type = AppendEntriesReq => /\ x.from = n
                                                /\ x.to \in Node \ {n}
                                                /\ x.term = node'[n].term
                                                /\ node'[n].role = RoleLeader
  <1>1. node[n] \in NodeState
    BY DEF TypeOK
  <1>2. /\ s \in NodeState
        /\ s.role = node[n].role
        /\ s.term = node[n].term
        /\ s.votedFor = node[n].votedFor
        /\ s.votesReceived = node[n].votesReceived
    BY <1>1, TickPassesKeeps
  <1>3. node'[n] = r.state
    BY DEF TickAll
  <1>4. WellFormed(r) /\ Advances(s, r.state)
    BY <1>2, HandleTick
  <1>5. node'[n] \in NodeState /\ r.outbox \subseteq Message
    BY <1>3, <1>4 DEF WellFormed
  <1>6. Advances(node[n], node'[n])
    BY <1>2, <1>3, <1>4 DEF Advances
  <1>7. ~ StartsElection(n, s) =>
          /\ node'[n].role = node[n].role
          /\ node'[n].term = node[n].term
          /\ node'[n].votesReceived = node[n].votesReceived
          /\ NoVoteMessages(r.outbox)
    BY <1>2, <1>3, VotesOfTick
  <1>8. StartsElection(n, s) =>
          /\ node'[n].votesReceived = 1
          /\ node'[n].votedFor = n
          /\ node'[n].role = RoleLeader => WinsElection(n, 1)
          /\ \A x \in r.outbox :
               /\ x.type # RequestVoteRes
               /\ x.type = RequestVoteReq =>
                    x.ok /\ x.from = n /\ x.to \in Node \ {n} /\ x.term = node'[n].term
    BY <1>2, <1>3, VotesOfTick, HandleTick, TickOutcome
  <1>9. \A x \in r.outbox : x.type = AppendEntriesReq =>
          /\ x.from = n
          /\ x.to \in Node \ {n}
          /\ x.term = node'[n].term
          /\ node'[n].role = RoleLeader
    BY <1>2, <1>3, TickOutcome
  <1>10. \A x \in r.outbox :
          /\ ~ IsGrant(x)
          /\ IsRequest(x) => /\ StartsElection(n, s)
                             /\ x.ok
                             /\ x.from = n
                             /\ x.to \in Node \ {n}
                             /\ x.term = node'[n].term
    BY <1>7, <1>8 DEF NoVoteMessages, IsGrant, IsRequest
  <1> QED
    BY <1>3, <1>5, <1>6, <1>7, <1>8, <1>9, <1>10

LEMMA TickAllKeeps ==
    ASSUME OddCluster, RoundInv, TickAll
    PROVE  RoundInv' /\ ElectionStep
  <1> DEFINE s(n) == TickPasses(n, node[n])
             r(n) == handleTick(n, s(n))
             Starts(n) == StartsElection(n, s(n))
  <1>1. TypeOK
    BY DEF RoundInv
  <1>2. /\ batch = {} /\ outbox = {} /\ outbox' = {}
        /\ batch' = UNION {r(n).outbox : n \in Node}
        /\ Remember
        /\ UNCHANGED <<disabled, panicked, stable>>
    <2>1. batch' = UNION {[x \in Node |->
                 handleTick(x, [k \in Node |-> TickPasses(k, node[k])][x])][n].outbox
                     : n \in Node}
      BY DEF TickAll
    <2>2. batch' = UNION {r(n).outbox : n \in Node}
      BY <2>1
    <2> QED
      BY <2>2 DEF TickAll, Quiet
  <1>3. \A n \in Node :
          /\ node'[n] = r(n).state
          /\ node'[n] \in NodeState
          /\ r(n).outbox \subseteq Message
          /\ Advances(node[n], node'[n])
          /\ ~ Starts(n) =>
               /\ node'[n].role = node[n].role
               /\ node'[n].term = node[n].term
               /\ node'[n].votesReceived = node[n].votesReceived
          /\ Starts(n) =>
               /\ node'[n].votesReceived = 1
               /\ node'[n].votedFor = n
               /\ node'[n].role = RoleLeader => WinsElection(n, 1)
          /\ \A x \in r(n).outbox :
               /\ ~ IsGrant(x)
               /\ IsRequest(x) => /\ Starts(n)
                                  /\ x.ok
                                  /\ x.from = n
                                  /\ x.to \in Node \ {n}
                                  /\ x.term = node'[n].term
               /\ x.type = AppendEntriesReq => /\ x.from = n
                                               /\ x.to \in Node \ {n}
                                               /\ x.term = node'[n].term
                                               /\ node'[n].role = RoleLeader
    BY <1>1, TickAllChanges
  <1>4. node' \in [Node -> NodeState]
    <2>1. node' = [n \in Node |-> node'[n]]
      BY DEF TickAll
    <2> QED
      BY <1>3, <2>1
  <1> HIDE DEF r, Starts
  <1>5. /\ votes \subseteq votes'
        /\ votes' \subseteq [voter : Node, candidate : Node, term : Nat]
        /\ \A n \in Node : node'[n].votedFor # NoVote =>
              CastVote(n, node'[n].votedFor, node'[n].term) \in votes'
        /\ VotesMatchNodes'
        /\ Election!OneVotePerTerm(votes')
    BY <1>1, <1>2, <1>3, <1>4, VotesRemembered DEF RoundInv, Remember
  <1>6. ASSUME NEW n \in Node, Starts(n)
        PROVE  n \in Election!Supporters(votes', n, node'[n].term)
    <2>1. CastVote(n, n, node'[n].term) \in votes'
      BY <1>3, <1>5, <1>6, NodeAssumption
    <2> QED
      BY <2>1 DEF CastVote, Election!Supporters
  <1>7. \A x \in batch' :
          /\ x \in Message
          /\ ~ IsGrant(x)
          /\ IsRequest(x) => /\ x.from \in Node
                             /\ Starts(x.from)
                             /\ x.ok
                             /\ x.to # x.from
                             /\ x.term = node'[x.from].term
          /\ x.type = AppendEntriesReq => /\ x.from \in Node
                                          /\ x.to # x.from
                                          /\ x.term = node'[x.from].term
                                          /\ node'[x.from].role = RoleLeader
    BY <1>2, <1>3
  <1>8. UnderWay' = batch'
    BY <1>2 DEF UnderWay
  <1>9. \A n \in Node : /\ n \notin Awaited(n)'
                        /\ ~ Starts(n) => Awaited(n)' = {}
    BY <1>7, <1>8 DEF Awaited, IsRequest, IsGrant
  <1>10. CandidatesCount'
    <2> SUFFICES ASSUME NEW n \in Node, node'[n].role = RoleCandidate
                 PROVE  node'[n].votesReceived <=
                          Cardinality(Election!Supporters(votes', n, node'[n].term)
                                        \ Awaited(n)')
      BY DEF CandidatesCount, Supporters
    <2> DEFINE T == Election!Supporters(votes', n, node'[n].term) \ Awaited(n)'
    <2>1. T \subseteq Node
      BY SupportersGrow
    <2>2. CASE Starts(n)
      <3>1. n \in T \ {}
        BY <1>6, <1>9, <2>2
      <3>2. 0 <= Cardinality({}) /\ {} \subseteq T
        BY FS_EmptySet
      <3> HIDE DEF T
      <3>3. 0 + 1 <= Cardinality(T)
        BY <2>1, <3>1, <3>2, CountGrows
      <3> QED
        BY <1>3, <2>2, <3>3 DEF T
    <2>3. CASE ~ Starts(n)
      <3> DEFINE S == Supporters(n) \ Awaited(n)
      <3>1. /\ node[n].role = RoleCandidate
            /\ node'[n].term = node[n].term
            /\ node'[n].votesReceived = node[n].votesReceived
        BY <1>3, <2>3
      <3>2. node[n].votesReceived <= Cardinality(S) /\ node[n].votesReceived \in Nat
        BY <1>1, <3>1 DEF RoundInv, CandidatesCount, TypeOK, NodeState
      <3>3. S \subseteq T
        BY <1>5, <1>9, <2>3, <3>1, SupportersGrow DEF Supporters
      <3> HIDE DEF S, T
      <3>4. node[n].votesReceived <= Cardinality(T)
        BY <2>1, <3>2, <3>3, CountGrows
      <3> QED
        BY <3>1, <3>4 DEF T
    <2> QED
      BY <2>2, <2>3
  <1>11. ASSUME NEW n \in Node, node'[n].role = RoleLeader
         PROVE  \/ node[n].role = RoleLeader /\ node'[n].term = node[n].term
                \/ Election!Majority(Election!Supporters(votes', n, node'[n].term))
    <2>1. CASE ~ Starts(n)
      BY <1>3, <1>11, <2>1
    <2>2. CASE Starts(n)
      <3> DEFINE T == Election!Supporters(votes', n, node'[n].term)
      <3>1. T \subseteq Node /\ n \in T \ {}
        BY <1>6, <2>2, SupportersGrow
      <3>2. 0 <= Cardinality({}) /\ {} \subseteq T
        BY FS_EmptySet
      <3> HIDE DEF T
      <3>3. 0 + 1 <= Cardinality(T)
        BY <3>1, <3>2, CountGrows
      <3>4. Election!Majority(T)
        BY <1>3, <1>11, <2>2, <3>1, <3>3, WinnersHaveMajority
      <3> QED
        BY <3>4 DEF T
    <2> QED
      BY <2>1, <2>2
  <1>12. elected' = elected \cup LeadersOf(node')
    BY <1>2 DEF Remember
  <1>13. /\ elected' \subseteq [term : Nat, leader : Node]
         /\ LeadersAreElected'
         /\ ElectedByMajority'
         /\ \A e \in elected' \ elected :
               Election!Majority(Election!Supporters(votes', e.leader, e.term))
    BY <1>1, <1>4, <1>5, <1>11, <1>12, LeadersRemembered DEF RoundInv
  <1>14. MessagesOpen'
    <2>1. \A x \in batch' : IsRequest(x) => RequestOpen(x)'
      <3>1. \A n \in Node : node'[n].term \in Nat
        BY <1>3 DEF NodeState
      <3> QED
        BY <1>7, <3>1 DEF RequestOpen, OfElection
    <2>2. ASSUME NEW x \in batch', x.type = AppendEntriesReq PROVE HeartbeatOpen(x)'
      <3>1. [term |-> x.term, leader |-> x.from] \in LeadersOf(node')
        BY <1>7, <2>2 DEF LeadersOf
      <3> QED
        BY <1>7, <1>12, <2>2, <3>1 DEF HeartbeatOpen
    <2> QED
      BY <1>7, <1>8, <2>1, <2>2 DEF MessagesOpen, IsRequest, IsGrant
  <1>15. RoundsInOrder' /\ AnsweredOnce'
    BY <1>2, <1>7 DEF RoundsInOrder, AnsweredOnce, IsGrant, IsRequest
  <1>16. TypeOK'
    BY <1>1, <1>2, <1>4, <1>5, <1>7, <1>13 DEF TypeOK
  <1>17. RoundInv'
    BY <1>2, <1>5, <1>10, <1>13, <1>14, <1>15, <1>16 DEF RoundInv, Election!OneVotePerTerm
  <1>18. ElectionStep
    BY <1>5, <1>12, <1>13 DEF ElectionStep
  <1> QED
    BY <1>17, <1>18

(* The other steps change no node: messages are dropped or go on to the next *)
(* round.                                                                    *)
LEMMA OtherStepKeeps ==
    ASSUME RoundInv, TypeOK', UNCHANGED <<node, panicked, votes, elected>>,
           \/ batch' \subseteq batch /\ outbox' = outbox
           \/ batch = {} /\ batch' = outbox /\ outbox' = {}
    PROVE  RoundInv' /\ ElectionStep
  <1>1. UnderWay' \subseteq UnderWay
    BY DEF UnderWay
  <1>2. MessagesOpen'
    BY <1>1 DEF RoundInv, MessagesOpen, RequestOpen, GrantOpen, HeartbeatOpen,
                OfElection, IsRequest, IsGrant, CastVote
  <1>3. RoundsInOrder' /\ AnsweredOnce'
    BY DEF RoundInv, RoundsInOrder, AnsweredOnce, IsRequest, IsGrant, Answers
  <1>4. CandidatesCount'
    <2> SUFFICES ASSUME NEW n \in Node, node[n].role = RoleCandidate
                 PROVE  node[n].votesReceived <= Cardinality(Supporters(n) \ Awaited(n)')
      BY DEF CandidatesCount, Supporters
    <2> DEFINE S == Supporters(n) \ Awaited(n)
               T == Supporters(n) \ Awaited(n)'
    <2>1. Awaited(n)' \subseteq Awaited(n)
      BY <1>1 DEF Awaited, IsRequest, IsGrant
    <2>2. S \subseteq T /\ T \subseteq Node
      BY <2>1, SupportersGrow DEF Supporters
    <2>3. node[n].votesReceived <= Cardinality(S) /\ node[n].votesReceived \in Nat
      BY DEF RoundInv, CandidatesCount, TypeOK, NodeState
    <2> HIDE DEF S, T
    <2>4. node[n].votesReceived <= Cardinality(T)
      BY <2>2, <2>3, CountGrows
    <2> QED
      BY <2>4 DEF T
  <1>5. VotesMatchNodes' /\ LeadersAreElected' /\ ElectedByMajority'
    BY DEF RoundInv, VotesMatchNodes, LeadersAreElected, LeadersOf, ElectedByMajority
  <1>6. RoundInv'
    BY <1>2, <1>3, <1>4, <1>5 DEF RoundInv, Election!OneVotePerTerm
  <1> QED
    BY <1>6 DEF ElectionStep, RoundInv

LEMMA NextKeeps ==
    ASSUME OddCluster, RoundInv, [Next]_vars
    PROVE  RoundInv' /\ ElectionStep
  <1>1. CASE TickAll
    BY <1>1, TickAllKeeps
  <1>2. CASE \E m \in batch : Deliver(m)
    BY <1>2, DeliverKeeps
  <1>3. CASE \E m \in batch : Drop(m)
    <2>1. /\ batch' \subseteq batch
          /\ UNCHANGED <<node, outbox, disabled, panicked, stable, votes, elected>>
      BY <1>3 DEF Drop, history
    <2>2. TypeOK'
      BY <2>1 DEF RoundInv, TypeOK
    <2> QED
      BY <2>1, <2>2, OtherStepKeeps
  <1>4. CASE NextRound
    <2>1. /\ batch = {} /\ batch' = outbox /\ outbox' = {}
          /\ UNCHANGED <<node, disabled, panicked, stable, votes, elected>>
      BY <1>4 DEF NextRound, history
    <2>2. TypeOK'
      BY <2>1 DEF RoundInv, TypeOK
    <2> QED
      BY <2>1, <2>2, OtherStepKeeps
  <1>5. CASE \/ \E n \in Node : DisableNode(n)
             \/ \E n \in Node : EnableNode(n)
             \/ Stabilise
             \/ UNCHANGED vars
    <2>1. UNCHANGED <<node, batch, outbox, panicked, votes, elected>>
      BY <1>5 DEF DisableNode, EnableNode, Stabilise, vars, history
    <2>2. disabled' \subseteq Node /\ stable' \in BOOLEAN
      BY <1>5 DEF DisableNode, EnableNode, Stabilise, vars, RoundInv, TypeOK
    <2>3. TypeOK'
      BY <2>1, <2>2 DEF RoundInv, TypeOK
    <2> QED
      BY <2>1, <2>3, OtherStepKeeps
  <1> QED
    BY <1>1, <1>2, <1>3, <1>4, <1>5 DEF Next, Progress

LEMMA InitKeeps == Init => RoundInv
  <1> SUFFICES ASSUME Init PROVE RoundInv
    OBVIOUS
  <1>1. \A n \in Node : node[n] = NewNode
    BY DEF Init
  <1>2. NewNode.role = RoleFollower /\ NewNode \in NodeState
    BY DEF NewNode, NodeState, Role, RoleFollower
  <1>3. LeadersOf(node) = {}
    BY <1>1, <1>2 DEF LeadersOf, RoleFollower, RoleLeader
  <1>4. CandidatesCount
    BY <1>1, <1>2 DEF CandidatesCount, RoleFollower, RoleCandidate
  <1>5. UnderWay = {}
    BY DEF Init, UnderWay
  <1>6. TypeOK
    BY <1>2 DEF Init, TypeOK
  <1> QED
    BY <1>3, <1>4, <1>5, <1>6
       DEF Init, RoundInv, VotesMatchNodes, Election!OneVotePerTerm, LeadersAreElected,
           ElectedByMajority, MessagesOpen, RoundsInOrder, AnsweredOnce

LEMMA RoundInvariant ==
    ASSUME OddCluster
    PROVE  Spec => []RoundInv
  <1>1. RoundInv /\ [Next]_vars => RoundInv'
    BY NextKeeps
  <1> QED
    BY <1>1, InitKeeps, PTL DEF Spec

-----------------------------------------------------------------------------

(* No term ever has a second leader and the split-brain panic is not         *)
(* reached, in every cluster of odd size, for all timeouts and whatever is   *)
(* dropped, disabled or reordered in a Tick of the test cluster.             *)
THEOREM ElectionIsSafe ==
    ASSUME OddCluster
    PROVE  Spec => []ElectionSafety
  <1>1. RoundInv => ElectionSafety
    BY OneLeader DEF RoundInv, ElectionSafety
  <1> QED
    BY <1>1, RoundInvariant, PTL

(* The rounds of messages implement the election of LeaderElection: initial  *)
(* states map to its initial state, and every Tick, delivery or disturbance  *)
(* to a step of it or to none.                                               *)
THEOREM RoundsImplementElection ==
    ASSUME OddCluster
    PROVE  Spec => ImplementsElection
  <1>1. Init => Election!Init
    BY DEF Init, Election!Init
  <1>2. RoundInv /\ [Next]_vars => [Election!Next]_(Election!vars)
    <2> SUFFICES ASSUME RoundInv, [Next]_vars PROVE Election!Next
      OBVIOUS
    <2>1. RoundInv' /\ ElectionStep
      BY NextKeeps
    <2>2. votes' \subseteq Election!Vote
      BY <2>1 DEF RoundInv, TypeOK, Election!Vote
    <2>3. Election!CastVotes
      BY <2>1, <2>2 DEF ElectionStep, Election!CastVotes
    <2>4. Election!Elect
      BY <2>1 DEF ElectionStep, Election!Elect
    <2> QED
      BY <2>3, <2>4 DEF Election!Next
  <1> QED
    BY <1>1, <1>2, RoundInvariant, PTL DEF Spec, ImplementsElection, Election!Spec

(* What an election of LeaderElection promises, and the test cluster         *)
(* therefore keeps: no term has two leaders, however votes are cast and      *)
(* whenever leaders emerge, because a vote is never taken back.              *)
THEOREM LeaderUnique == Election!Spec => []Election!OneLeaderPerTerm
  <1> DEFINE Inv == Election!OneVotePerTerm(votes) /\ ElectedByMajority
  <1>1. Election!Init => Inv
    BY DEF Election!Init, Election!OneVotePerTerm, ElectedByMajority
  <1>2. Inv /\ [Election!Next]_(Election!vars) => Inv'
    <2> SUFFICES ASSUME Inv, [Election!Next]_(Election!vars) PROVE Inv'
      OBVIOUS
    <2>1. CASE Election!Next
      <3>1. votes \subseteq votes' /\ Election!OneVotePerTerm(votes')
        BY <2>1 DEF Election!Next, Election!CastVotes
      <3>2. ASSUME NEW e \in elected'
            PROVE  Election!Majority(Election!Supporters(votes', e.leader, e.term))
        <4>1. CASE e \in elected
          <5>1. Election!Majority(Election!Supporters(votes, e.leader, e.term))
            BY <4>1 DEF ElectedByMajority
          <5> QED
            BY <3>1, <5>1, SupportersGrow, MoreIsMajority
        <4>2. CASE e \notin elected
          BY <2>1, <4>2 DEF Election!Next, Election!Elect
        <4> QED
          BY <4>1, <4>2
      <3> QED
        BY <3>1, <3>2 DEF Election!OneVotePerTerm, ElectedByMajority,
                          Election!Majority, Election!Supporters
    <2>2. CASE UNCHANGED Election!vars
      BY <2>2 DEF Election!vars, Election!OneVotePerTerm, ElectedByMajority,
                  Election!Majority, Election!Supporters
    <2> QED
      BY <2>1, <2>2
  <1>3. Inv => Election!OneLeaderPerTerm
    BY SameLeader DEF Election!OneLeaderPerTerm
  <1> QED
    BY <1>1, <1>2, <1>3, PTL DEF Election!Spec

LEMMA RememberType ==
    ASSUME TypeOK, node' \in [Node -> NodeState], Remember
    PROVE  /\ votes' \subseteq [voter : Node, candidate : Node, term : Nat]
           /\ elected' \subseteq [term : Nat, leader : Node]
  <1>1. \A n \in Node : /\ node'[n].term \in Nat
                        /\ node'[n].votedFor \in Node \cup {NoVote}
    BY DEF NodeState
  <1>2. VotesIn(node') \subseteq [voter : Node, candidate : Node, term : Nat]
    BY <1>1 DEF VotesIn
  <1>3. LeadersOf(node') \subseteq [term : Nat, leader : Node]
    BY <1>1 DEF LeadersOf
  <1> QED
    BY <1>2, <1>3 DEF Remember, TypeOK

(* In every reachable state of the test cluster, of whatever size, all       *)
(* variables have their types: no handler leaves a node or a message         *)
(* malformed, also when many of them are stepped at once.                    *)
THEOREM TypeCorrect == Spec => []TypeOK
  <1>1. Init => TypeOK
    BY InitKeeps DEF RoundInv
  <1>2. ASSUME TypeOK, TickAll PROVE TypeOK'
    <2> DEFINE r(n) == handleTick(n, TickPasses(n, node[n]))
    <2>1. \A n \in Node : node'[n] \in NodeState /\ r(n).outbox \subseteq Message
      BY <1>2, TickAllChanges
    <2>2. /\ node' = [n \in Node |-> node'[n]]
          /\ batch' = UNION {r(n).outbox : n \in Node}
          /\ Remember
          /\ UNCHANGED <<outbox, disabled, panicked, stable>>
      <3>1. batch' = UNION {[x \in Node |->
                   handleTick(x, [k \in Node |-> TickPasses(k, node[k])][x])][n].outbox
                       : n \in Node}
        BY <1>2 DEF TickAll
      <3>2. batch' = UNION {r(n).outbox : n \in Node}
        BY <3>1
      <3> QED
        BY <1>2, <3>2 DEF TickAll
    <2> HIDE DEF r
    <2>3. node' \in [Node -> NodeState] /\ batch' \subseteq Message
      BY <2>1, <2>2
    <2> QED
      BY <1>2, <2>2, <2>3, RememberType DEF TypeOK
  <1>3. ASSUME TypeOK, NEW m \in batch, Deliver(m) PROVE TypeOK'
    <2>1. PICK n : n = m.to
      OBVIOUS
    <2>2. PICK r : r = Step(node[n], m)
      OBVIOUS
    <2>3. /\ WellFormed(r)
          /\ node' \in [Node -> NodeState]
          /\ batch' = batch \ {m}
          /\ outbox' = outbox \cup r.outbox
          /\ panicked' = r.panics
          /\ Remember
          /\ UNCHANGED <<disabled, stable>>
      BY <1>3, <2>1, <2>2, DeliverChanges
    <2> QED
      BY <1>3, <2>3, RememberType DEF TypeOK, WellFormed
  <1>4. TypeOK /\ [Next]_vars => TypeOK'
    BY <1>2, <1>3 DEF Next, Progress, Drop, NextRound, DisableNode, EnableNode, Stabilise,
                      vars, history, TypeOK
  <1> QED
    BY <1>1, <1>4, PTL DEF Spec

=============================================================================
