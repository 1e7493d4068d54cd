------------------------ MODULE RaftCluster_proofs ------------------------
(***************************************************************************)
(* Theorems about RaftCluster, for every set of nodes, every timeout and   *)
(* every bound.                                                            *)
(***************************************************************************)
EXTENDS RaftCluster, RaftNode_proofs

-----------------------------------------------------------------------------
(* Type correctness, and how a step changes the nodes.                       *)

(* Every step changes at most one node, and that node only advances.         *)
OnlyAdvances(n) ==
    /\ node' = [node EXCEPT ![n] = node'[n]]
    /\ node'[n] \in NodeState
    /\ Advances(node[n], node'[n])

LEMMA TimerFiresType ==
    ASSUME TypeOK, NEW n \in Node, TimerFires(n)
    PROVE  TypeOK' /\ OnlyAdvances(n)
  <1>1. node[n] \in NodeState
    BY DEF TypeOK
  <1>2. node' = [node EXCEPT ![n] = TickPasses(n, node[n])]
    BY DEF TimerFires
  <1>3. node'[n] = TickPasses(n, node[n])
    BY <1>2 DEF TypeOK
  <1>4. node'[n] \in NodeState /\ Advances(node[n], node'[n])
    BY <1>1, <1>3, TickPassesKeeps DEF Advances, NodeState
  <1>5. OnlyAdvances(n)
    BY <1>2, <1>3, <1>4 DEF OnlyAdvances
  <1> QED
    BY <1>2, <1>3, <1>4, <1>5 DEF TypeOK, TimerFires

LEMMA FinishType ==
    ASSUME TypeOK, NEW n \in Node, NEW result, NEW received,
           WellFormed(result), Finish(n, result, received)
    PROVE  /\ node' \in [Node -> NodeState]
           /\ net' \subseteq Message
           /\ panicked' \subseteq Node
           /\ node'[n] = result.state
           /\ node' = [node EXCEPT ![n] = node'[n]]
  <1>1. node' = [node EXCEPT ![n] = result.state] /\ node'[n] = result.state
    BY DEF Finish, TypeOK
  <1> QED
    BY <1>1 DEF Finish, TypeOK, WellFormed

LEMMA BallotType ==
    ASSUME NEW v \in Node, NEW c \in Node, NEW t \in Nat
    PROVE  /\ Ballot(v, c, t) \in Vote
           /\ Ballot(v, c, t).voter = v
           /\ Ballot(v, c, t).candidate = c
           /\ Ballot(v, c, t).term = t
  BY DEF Ballot, Vote

LEMMA InboxTickType ==
    ASSUME TypeOK, NEW n \in Node, NEW again \in BOOLEAN, InboxTick(n, again)
    PROVE  TypeOK' /\ OnlyAdvances(n)
  <1> DEFINE s == IF again THEN TickPasses(n, node[n]) ELSE node[n]
             result == handleTick(n, s)
             self == {Ballot(n, n, result.state.term)}
  <1>1. /\ s \in NodeState
        /\ s.term = node[n].term
        /\ s.role = node[n].role
        /\ s.votedFor = node[n].votedFor
    BY TickPassesKeeps DEF TypeOK
  <1> HIDE DEF s
  <1>2. WellFormed(result) /\ Advances(s, result.state)
    BY <1>1, HandleTick
  <1>3. /\ Finish(n, result, {})
        /\ timerBlocked' = [timerBlocked EXCEPT ![n] = again]
        /\ IF StartsElection(n, s)
           THEN /\ votes' = votes \cup self
                /\ counted' = [counted EXCEPT ![n] = self]
           ELSE UNCHANGED <<votes, counted>>
    BY DEF InboxTick, s
  <1>4. self \subseteq Vote
    BY <1>2, BallotType DEF WellFormed, NodeState
  <1> HIDE DEF result, self
  <1>5. Advances(node[n], result.state)
    BY <1>1, <1>2 DEF Advances
  <1>6. votes' \subseteq Vote /\ counted' \in [Node -> SUBSET Vote]
    BY <1>3, <1>4 DEF TypeOK
  <1>7. timerBlocked' \in [Node -> BOOLEAN]
    BY <1>3 DEF TypeOK
  <1> QED
    BY <1>2, <1>3, <1>5, <1>6, <1>7, FinishType DEF TypeOK, OnlyAdvances, WellFormed

LEMMA CountType ==
    ASSUME TypeOK, NEW n \in Node, NEW result, NEW extra \in SUBSET Vote,
           Count(n, result, extra)
    PROVE  counted' \in [Node -> SUBSET Vote]
  BY DEF TypeOK, Count

LEMMA ReceiveType ==
    ASSUME TypeOK, NEW m \in net, NEW type, Receive(m, type)
    PROVE  /\ m \in Message
           /\ node[m.to] \in NodeState
           /\ node' \in [Node -> NodeState]
           /\ net' \subseteq Message
           /\ panicked' \subseteq Node
           /\ timerBlocked' = timerBlocked
           /\ node'[m.to] = Step(node[m.to], m).state
           /\ OnlyAdvances(m.to)
  <1>1. m \in Message /\ m.to \in Node
    BY DEF TypeOK, Message
  <1>2. node[m.to] \in NodeState
    BY <1>1 DEF TypeOK
  <1>3. /\ WellFormed(Step(node[m.to], m))
        /\ Advances(node[m.to], Step(node[m.to], m).state)
    BY <1>1, <1>2, StepAdvances
  <1>4. Finish(m.to, Step(node[m.to], m), {m}) /\ timerBlocked' = timerBlocked
    BY DEF Receive
  <1> QED
    BY <1>1, <1>2, <1>3, <1>4, FinishType DEF OnlyAdvances

(* The votes that an answer to a request carries: one for the candidate, in  *)
(* the voter's term and by its votedFor, or none.                            *)
LEMMA GrantedVotes ==
    ASSUME TypeOK, NEW m \in net, ReceiveRequestVoteRequest(m)
    PROVE  /\ votes \subseteq votes'
           /\ votes' \subseteq Vote
           /\ \A v \in votes' \ votes :
                /\ v.voter = m.to
                /\ v.candidate = m.from
                /\ v.term = node'[m.to].term
                /\ node'[m.to].votedFor = m.from
  <1> DEFINE result == handleRequestVoteRequest(node[m.to], m)
             granted == {x \in result.outbox : x.ok}
  <1>1. Receive(m, RequestVoteReq) /\ m.type = RequestVoteReq
    BY DEF ReceiveRequestVoteRequest, Receive
  <1>2. /\ m \in Message
        /\ m.from \in Node
        /\ m.to \in Node
        /\ node[m.to] \in NodeState
        /\ node'[m.to] = Step(node[m.to], m).state
    BY <1>1, ReceiveType DEF Message
  <1>3. Step(node[m.to], m) = result
    BY <1>1, <1>2, StepAdvances
  <1>4. votes' = votes \cup {Ballot(r.from, r.to, r.term) : r \in granted}
    BY <1>3 DEF ReceiveRequestVoteRequest
  <1>5. /\ result.state \in NodeState
        /\ \A x \in granted :
             /\ x.from = m.to
             /\ x.to = m.from
             /\ x.term = result.state.term
             /\ result.state.votedFor = m.from
    BY <1>2, RequestVoteRequest DEF WellFormed
  <1>6. node'[m.to] = result.state
    BY <1>2, <1>3
  <1> HIDE DEF granted, result
  <1>7. result.state.term \in Nat
    BY <1>5 DEF NodeState
  <1>8. ASSUME NEW r \in granted
        PROVE  /\ Ballot(r.from, r.to, r.term) \in Vote
               /\ Ballot(r.from, r.to, r.term).voter = m.to
               /\ Ballot(r.from, r.to, r.term).candidate = m.from
               /\ Ballot(r.from, r.to, r.term).term = result.state.term
    BY <1>2, <1>5, <1>7, <1>8, BallotType
  <1> QED
    BY <1>4, <1>5, <1>6, <1>8 DEF TypeOK

(* One step: types are preserved, and some node advances or none changes.    *)
LEMMA NextAdvances ==
    ASSUME TypeOK, [Next]_vars
    PROVE  /\ TypeOK'
           /\ node' = node \/ \E n \in Node : OnlyAdvances(n)
  <1>1. CASE \E n \in Node : TimerFires(n)
    BY <1>1, TimerFiresType
  <1>2. CASE \E n \in Node, again \in BOOLEAN : InboxTick(n, again)
    BY <1>2, InboxTickType
  <1>3. ASSUME NEW m \in net, ReceiveRequestVoteRequest(m)
        PROVE  TypeOK' /\ \E n \in Node : OnlyAdvances(n)
    <2>1. Receive(m, RequestVoteReq) /\ Count(m.to, Step(node[m.to], m), {})
      BY <1>3 DEF ReceiveRequestVoteRequest
    <2>2. m.to \in Node
      BY <2>1, ReceiveType DEF Message
    <2>3. counted' \in [Node -> SUBSET Vote]
      BY <2>1, <2>2, CountType
    <2> QED
      BY <1>3, <2>1, <2>2, <2>3, ReceiveType, GrantedVotes DEF TypeOK
  <1>4. ASSUME NEW m \in net, ReceiveRequestVoteResponse(m)
        PROVE  TypeOK' /\ \E n \in Node : OnlyAdvances(n)
    <2> DEFINE extra == IF CountsVote(node[m.to], m)
                        THEN {Ballot(m.from, m.to, m.term)}
                        ELSE {}
    <2>1. /\ Receive(m, RequestVoteRes)
          /\ Count(m.to, Step(node[m.to], m), extra)
          /\ votes' = votes
      BY <1>4 DEF ReceiveRequestVoteResponse
    <2>2. m.to \in Node /\ m.from \in Node /\ m.term \in Nat
      BY <2>1, ReceiveType DEF Message
    <2>3. extra \in SUBSET Vote
      BY <2>2, BallotType
    <2> HIDE DEF extra
    <2>4. counted' \in [Node -> SUBSET Vote]
      BY <2>1, <2>2, <2>3, CountType
    <2> QED
      BY <2>1, <2>2, <2>4, ReceiveType DEF TypeOK
  <1>5. ASSUME NEW m \in net,
               ReceiveAppendEntriesRequest(m) \/ ReceiveAppendEntriesResponse(m)
        PROVE  TypeOK' /\ \E n \in Node : OnlyAdvances(n)
    <2>1. PICK type \in MessageType : Receive(m, type)
      BY <1>5 DEF ReceiveAppendEntriesRequest, ReceiveAppendEntriesResponse,
                  MessageType
    <2>2. Count(m.to, Step(node[m.to], m), {}) /\ votes' = votes
      BY <1>5 DEF ReceiveAppendEntriesRequest, ReceiveAppendEntriesResponse
    <2>3. m.to \in Node
      BY <2>1, ReceiveType DEF Message
    <2>4. counted' \in [Node -> SUBSET Vote]
      BY <2>2, <2>3, CountType
    <2> QED
      BY <2>1, <2>2, <2>3, <2>4, ReceiveType DEF TypeOK
  <1>6. ASSUME NEW m \in net, Lose(m)
        PROVE  TypeOK' /\ node' = node
    BY <1>6 DEF Lose, TypeOK
  <1>7. CASE UNCHANGED vars
    BY <1>7 DEF vars, TypeOK
  <1> QED
    BY <1>1, <1>2, <1>3, <1>4, <1>5, <1>6, <1>7 DEF Next

(* In every reachable state all variables have their types: in particular    *)
(* no handler leaves a node or a message malformed.                          *)
THEOREM TypeCorrect == Spec => []TypeOK
  <1>1. Init => TypeOK
    BY DEF Init, TypeOK, NewNode, NodeState, Role, RoleFollower
  <1>2. TypeOK /\ [Next]_vars => TypeOK'
    BY NextAdvances
  <1> QED
    BY <1>1, <1>2, PTL DEF Spec

(* A leader steps down only for a higher term, terms never fall, and a vote  *)
(* cast in the current term is never taken back (becomeFollower,             *)
(* handleRequestVoteRequest): for every cluster size and every schedule.     *)
THEOREM NodesOnlyAdvance == Spec => TermsAndVotesOnlyAdvance
  <1> DEFINE A == \A n \in Node :
                /\ node'[n].term >= node[n].term
                /\ node'[n].term = node[n].term =>
                    /\ node[n].role = RoleLeader => node'[n].role = RoleLeader
                    /\ node[n].votedFor # NoVote => node'[n].votedFor = node[n].votedFor
  <1>1. TypeOK /\ [Next]_vars => [A]_vars
    <2> SUFFICES ASSUME TypeOK, [Next]_vars, NEW n \in Node
                 PROVE  Advances(node[n], node'[n])
      BY DEF Advances
    <2>1. Advances(node[n], node[n])
      BY DEF TypeOK, NodeState, Advances
    <2>2. node' = node \/ \E x \in Node : OnlyAdvances(x)
      BY NextAdvances
    <2> QED
      BY <2>1, <2>2 DEF OnlyAdvances, TypeOK
  <1> QED
    BY <1>1, TypeCorrect, PTL DEF Spec, TermsAndVotesOnlyAdvance

-----------------------------------------------------------------------------
(* A node votes once per term.  VoteOncePerTerm alone is not inductive: it   *)
(* does not say that the node still remembers the vote.  VotesMatchNodes     *)
(* does: no vote is from a later term than its voter's, and a vote of the    *)
(* voter's present term is the one in votedFor.                              *)

VotesMatchNodes ==
    \A v \in votes :
        /\ v.term <= node[v.voter].term
        /\ v.term = node[v.voter].term => node[v.voter].votedFor = v.candidate

VoteInv == TypeOK /\ VoteOncePerTerm /\ VotesMatchNodes

(* A step of node n that adds only votes by n, in the term and for the       *)
(* candidate its new state names.                                            *)
LEMMA VoteStep ==
    ASSUME VoteInv, TypeOK', NEW n \in Node, OnlyAdvances(n),
           \A v \in votes' \ votes :
               /\ v.voter = n
               /\ v.term = node'[n].term
               /\ v.candidate = node'[n].votedFor
    PROVE  VoteInv'
  <1>1. /\ TypeOK
        /\ node[n] \in NodeState
        /\ node'[n] \in NodeState
        /\ Advances(node[n], node'[n])
        /\ \A x \in Node \ {n} : node'[x] = node[x]
    BY DEF VoteInv, TypeOK, OnlyAdvances
  <1>2. node[n].term \in Nat /\ node'[n].term \in Nat
    BY <1>1 DEF NodeState
  <1>3. \A v \in votes \cup votes' :
          v.voter \in Node /\ v.term \in Nat /\ v.candidate \in Node
    BY <1>1 DEF TypeOK, Vote
  <1>4. ASSUME NEW v \in votes'
        PROVE  /\ v.term <= node'[v.voter].term
               /\ v.term = node'[v.voter].term =>
                    node'[v.voter].votedFor = v.candidate
    <2>1. CASE v \notin votes
      BY <1>2, <1>3, <2>1
    <2>2. CASE v \in votes /\ v.voter # n
      BY <1>1, <1>3, <2>2 DEF VoteInv, VotesMatchNodes
    <2>3. CASE v \in votes /\ v.voter = n
      <3>1. /\ v.term <= node[n].term
            /\ v.term = node[n].term => node[n].votedFor = v.candidate
        BY <2>3 DEF VoteInv, VotesMatchNodes
      <3>2. node[n].term <= node'[n].term
        BY <1>1, <1>2 DEF Advances
      <3>3. v.term <= node'[n].term
        BY <1>2, <1>3, <3>1, <3>2
      <3>4. v.term = node'[n].term => node'[n].votedFor = v.candidate
        BY <1>1, <1>2, <1>3, <3>1, <3>2, NodeAssumption DEF Advances
      <3> QED
        BY <2>3, <3>3, <3>4
    <2> QED
      BY <2>1, <2>2, <2>3
  <1>5. ASSUME NEW v \in votes', NEW w \in votes',
               v.voter = w.voter, v.term = w.term
        PROVE  v.candidate = w.candidate
    <2>1. CASE v \in votes /\ w \in votes
      BY <1>5, <2>1 DEF VoteInv, VoteOncePerTerm
    <2>2. CASE v \notin votes \/ w \notin votes
      <3>1. v.voter = n /\ v.term = node'[n].term
        BY <1>5, <2>2
      <3> QED
        BY <1>4, <1>5, <3>1
    <2> QED
      BY <2>1, <2>2
  <1>6. VotesMatchNodes'
    BY <1>4 DEF VotesMatchNodes
  <1>7. VoteOncePerTerm'
    BY <1>5 DEF VoteOncePerTerm
  <1> QED
    BY <1>6, <1>7 DEF VoteInv

LEMMA VoteInvInductive ==
    ASSUME VoteInv, [Next]_vars
    PROVE  VoteInv'
  <1>1. TypeOK /\ TypeOK'
    BY NextAdvances DEF VoteInv
  <1>2. ASSUME NEW n \in Node, TimerFires(n)
        PROVE  VoteInv'
    <2>1. OnlyAdvances(n) /\ votes' = votes
      BY <1>1, <1>2, TimerFiresType DEF TimerFires
    <2> QED
      BY <1>1, <2>1, VoteStep
  <1>3. ASSUME NEW n \in Node, NEW again \in BOOLEAN, InboxTick(n, again)
        PROVE  VoteInv'
    <2> DEFINE s == IF again THEN TickPasses(n, node[n]) ELSE node[n]
               result == handleTick(n, s)
               self == Ballot(n, n, result.state.term)
    <2>1. s \in NodeState
      BY <1>1, TickPassesKeeps DEF TypeOK
    <2> HIDE DEF s
    <2>2. WellFormed(result) /\ (StartsElection(n, s) => result.state.votedFor = n)
      BY <2>1, HandleTick
    <2>3. /\ Finish(n, result, {})
          /\ StartsElection(n, s) => votes' = votes \cup {self}
          /\ ~ StartsElection(n, s) => votes' = votes
      BY <1>3 DEF InboxTick, s
    <2>4. node'[n] = result.state
      BY <1>1, <2>2, <2>3, FinishType
    <2>5. self.voter = n /\ self.candidate = n /\ self.term = result.state.term
      BY <2>2, BallotType DEF WellFormed, NodeState
    <2> HIDE DEF result, self
    <2>6. OnlyAdvances(n)
      BY <1>1, <1>3, InboxTickType
    <2> QED
      BY <1>1, <2>2, <2>3, <2>4, <2>5, <2>6, VoteStep
  <1>4. ASSUME NEW m \in net, ReceiveRequestVoteRequest(m)
        PROVE  VoteInv'
    <2>1. m.to \in Node /\ OnlyAdvances(m.to)
      BY <1>1, <1>4, ReceiveType DEF ReceiveRequestVoteRequest, Message
    <2> QED
      BY <1>1, <1>4, <2>1, GrantedVotes, VoteStep
  <1>5. ASSUME NEW m \in net,
               \/ ReceiveRequestVoteResponse(m)
               \/ ReceiveAppendEntriesRequest(m)
               \/ ReceiveAppendEntriesResponse(m)
        PROVE  VoteInv'
    <2>1. PICK type \in MessageType : Receive(m, type)
      BY <1>5 DEF ReceiveRequestVoteResponse, ReceiveAppendEntriesRequest,
                  ReceiveAppendEntriesResponse, MessageType
    <2>2. votes' = votes
      BY <1>5 DEF ReceiveRequestVoteResponse, ReceiveAppendEntriesRequest,
                  ReceiveAppendEntriesResponse
    <2>3. m.to \in Node /\ OnlyAdvances(m.to)
      BY <1>1, <2>1, ReceiveType DEF Message
    <2> QED
      BY <1>1, <2>2, <2>3, VoteStep
  <1>6. ASSUME UNCHANGED <<node, votes>>
        PROVE  VoteInv'
    BY <1>1, <1>6 DEF VoteInv, VoteOncePerTerm, VotesMatchNodes
  <1> QED
    BY <1>2, <1>3, <1>4, <1>5, <1>6 DEF Next, vars, Lose

(* A node votes for at most one candidate in a term, for every cluster size, *)
(* every schedule of Ticks and every order, delay and loss of messages.      *)
THEOREM VotesOncePerTerm == Spec => []VoteOncePerTerm
  <1>1. Init => VoteInv
    BY DEF Init, VoteInv, VoteOncePerTerm, VotesMatchNodes, TypeOK, NewNode,
           NodeState, Role, RoleFollower
  <1>2. VoteInv /\ [Next]_vars => VoteInv'
    BY VoteInvInductive
  <1>3. VoteInv => VoteOncePerTerm
    BY DEF VoteInv
  <1> QED
    BY <1>1, <1>2, <1>3, PTL DEF Spec

-----------------------------------------------------------------------------
(* The votes that a candidate counts were granted, each once.  A request, or *)
(* the vote that answers it, is under way, or the vote is counted: never two *)
(* of the three for the same voter, candidate and term.                      *)

(* The vote that a request asks for, and the one that a grant brings.        *)
Asked(m)   == Ballot(m.to, m.from, m.term)
Granted(m) == Ballot(m.from, m.to, m.term)

RequestOpen(m) ==
    /\ m.ok
    /\ m.from # m.to
    /\ m.term <= node[m.from].term
    /\ Asked(m) \notin counted[m.from]

GrantOpen(m) ==
    /\ m.from # m.to
    /\ m.term <= node[m.to].term
    /\ Granted(m) \in votes
    /\ Granted(m) \notin counted[m.to]

OneUnderWay ==
    \A q, g \in net : IsRequest(q) /\ IsGrant(g) => Asked(q) # Granted(g)

(* What node n has counted.                                                  *)
CountOf(n) ==
    /\ IsFiniteSet(counted[n])
    /\ counted[n] \subseteq votes
    /\ \A v \in counted[n] : v.candidate = n /\ v.term <= node[n].term
    /\ node[n].role = RoleFollower => counted[n] = {}
    /\ node[n].role # RoleFollower => node[n].votesReceived = Cardinality(counted[n])

CountInv ==
    /\ VoteInv
    /\ \A m \in net : IsRequest(m) => RequestOpen(m)
    /\ \A m \in net : IsGrant(m) => GrantOpen(m)
    /\ OneUnderWay
    /\ \A n \in Node : CountOf(n)

(* A step of node n: messages that stay must not be counted by it, and       *)
(* messages that it sends must be open.                                      *)
LEMMA CountStep ==
    ASSUME CountInv, VoteInv', NEW n \in Node, OnlyAdvances(n), votes \subseteq votes',
           \A x \in Node \ {n} : counted'[x] = counted[x],
           CountOf(n)',
           NEW kept, kept \subseteq net, NEW out, net' \subseteq kept \cup out,
           \A m \in kept : IsRequest(m) /\ m.from = n => Asked(m) \notin counted'[n],
           \A m \in kept : IsGrant(m) /\ m.to = n => Granted(m) \notin counted'[n],
           \A m \in out : IsRequest(m) => RequestOpen(m)',
           \A m \in out : IsGrant(m) => GrantOpen(m)',
           \A q, g \in kept \cup out :
               IsRequest(q) /\ IsGrant(g) /\ (q \in out \/ g \in out) =>
                   Asked(q) # Granted(g)
    PROVE  CountInv'
  <1>1. TypeOK /\ TypeOK'
    BY DEF CountInv, VoteInv
  <1>2. \A x \in Node : /\ node[x].term \in Nat
                        /\ node'[x].term \in Nat
                        /\ node[x].term <= node'[x].term
    BY <1>1 DEF TypeOK, NodeState, OnlyAdvances, Advances
  <1>3. \A m \in net : m.from \in Node /\ m.to \in Node /\ m.term \in Nat
    BY <1>1 DEF TypeOK, Message
  <1>4. ASSUME NEW m \in kept, IsRequest(m) PROVE RequestOpen(m)'
    <2>1. /\ m.ok
          /\ m.from # m.to
          /\ m.term <= node[m.from].term
          /\ Asked(m) \notin counted[m.from]
      BY <1>4 DEF CountInv, RequestOpen
    <2>2. m.term <= node'[m.from].term
      BY <1>2, <1>3, <2>1
    <2>3. Asked(m) \notin counted'[m.from]
      BY <1>3, <1>4, <2>1
    <2> QED
      BY <2>1, <2>2, <2>3 DEF RequestOpen, Asked
  <1>5. ASSUME NEW m \in kept, IsGrant(m) PROVE GrantOpen(m)'
    <2>1. /\ m.from # m.to
          /\ m.term <= node[m.to].term
          /\ Granted(m) \in votes
          /\ Granted(m) \notin counted[m.to]
      BY <1>5 DEF CountInv, GrantOpen
    <2>2. m.term <= node'[m.to].term
      BY <1>2, <1>3, <2>1
    <2>3. Granted(m) \notin counted'[m.to]
      BY <1>3, <1>5, <2>1
    <2> QED
      BY <2>1, <2>2, <2>3 DEF GrantOpen, Granted
  <1>6. ASSUME NEW x \in Node \ {n} PROVE CountOf(x)'
    <2>1. CountOf(x) /\ counted'[x] = counted[x] /\ node'[x] = node[x]
      BY <1>1 DEF CountInv, OnlyAdvances, TypeOK
    <2> QED
      BY <2>1 DEF CountOf
  <1>7. OneUnderWay'
    <2> SUFFICES ASSUME NEW q \in net', NEW g \in net', IsRequest(q), IsGrant(g)
                 PROVE  Asked(q) # Granted(g)
      BY DEF OneUnderWay, IsRequest, IsGrant, Asked, Granted
    <2> QED
      BY DEF CountInv, OneUnderWay
  <1>8. \A m \in net' : IsRequest(m)' => RequestOpen(m)'
    BY <1>4 DEF IsRequest
  <1>9. \A m \in net' : IsGrant(m)' => GrantOpen(m)'
    BY <1>5 DEF IsGrant
  <1> QED
    BY <1>6, <1>7, <1>8, <1>9 DEF CountInv

LEMMA BallotsEqual ==
    ASSUME NEW a, NEW b, NEW t, NEW c, NEW d, NEW u, Ballot(a, b, t) = Ballot(c, d, u)
    PROVE  a = c /\ b = d /\ t = u
  <1>1. /\ Ballot(a, b, t).voter = a
        /\ Ballot(a, b, t).candidate = b
        /\ Ballot(a, b, t).term = t
    BY DEF Ballot
  <1>2. /\ Ballot(c, d, u).voter = c
        /\ Ballot(c, d, u).candidate = d
        /\ Ballot(c, d, u).term = u
    BY DEF Ballot
  <1> QED
    BY <1>1, <1>2

(* A step that counts nothing: the votes are kept, or dropped by a follower. *)
LEMMA CountKept ==
    ASSUME CountInv, TypeOK', NEW n \in Node, OnlyAdvances(n), votes \subseteq votes',
           KeepsVotes(node[n], node'[n], 0),
           counted'[n] = IF node'[n].role = RoleFollower THEN {} ELSE counted[n]
    PROVE  CountOf(n)' /\ counted'[n] \subseteq counted[n]
  <1>1. /\ CountOf(n)
        /\ node[n] \in NodeState
        /\ node'[n] \in NodeState
        /\ counted[n] \in SUBSET Vote
    BY DEF CountInv, VoteInv, TypeOK
  <1>2. node[n].term \in Nat /\ node'[n].term \in Nat /\ node[n].term <= node'[n].term
    BY <1>1 DEF NodeState, OnlyAdvances, Advances
  <1>3. CASE node'[n].role = RoleFollower
    BY <1>3, FS_EmptySet DEF CountOf
  <1>4. CASE node'[n].role # RoleFollower
    <2>1. /\ counted'[n] = counted[n]
          /\ node[n].role # RoleFollower
          /\ node'[n].votesReceived = node[n].votesReceived
      BY <1>1, <1>4 DEF KeepsVotes, NodeState
    <2>2. \A v \in counted[n] : v.term <= node'[n].term
      BY <1>1, <1>2 DEF CountOf, Vote
    <2> QED
      BY <1>1, <1>4, <2>1, <2>2 DEF CountOf
  <1> QED
    BY <1>3, <1>4

(* The same step, for the whole invariant: kept messages stay open.          *)
LEMMA CountKeptStep ==
    ASSUME CountInv, VoteInv', NEW n \in Node, OnlyAdvances(n), votes \subseteq votes',
           KeepsVotes(node[n], node'[n], 0),
           counted'[n] = IF node'[n].role = RoleFollower THEN {} ELSE counted[n],
           \A x \in Node \ {n} : counted'[x] = counted[x],
           NEW kept, kept \subseteq net, NEW out, net' \subseteq kept \cup out,
           \A m \in out : ~ IsRequest(m),
           \A m \in out : IsGrant(m) => GrantOpen(m)',
           \A q \in kept, g \in out : IsRequest(q) /\ IsGrant(g) => Asked(q) # Granted(g)
    PROVE  CountInv'
  <1>1. TypeOK /\ TypeOK'
    BY DEF CountInv, VoteInv
  <1>2. CountOf(n)' /\ counted'[n] \subseteq counted[n]
    BY <1>1, CountKept
  <1>3. \A m \in kept : IsRequest(m) /\ m.from = n => Asked(m) \notin counted'[n]
    BY <1>2 DEF CountInv, RequestOpen
  <1>4. \A m \in kept : IsGrant(m) /\ m.to = n => Granted(m) \notin counted'[n]
    BY <1>2 DEF CountInv, GrantOpen
  <1> QED
    BY <1>2, <1>3, <1>4, CountStep

LEMMA TimerFiresCounts ==
    ASSUME CountInv, VoteInv', NEW n \in Node, TimerFires(n)
    PROVE  CountInv'
  <1>1. TypeOK /\ node[n] \in NodeState /\ CountOf(n)
    BY DEF CountInv, VoteInv, TypeOK
  <1>2. OnlyAdvances(n) /\ UNCHANGED <<net, votes, counted>>
    BY <1>1, TimerFiresType DEF TimerFires
  <1>3. node'[n] = TickPasses(n, node[n])
    BY <1>1 DEF TimerFires, TypeOK
  <1>4. node'[n].role = node[n].role /\ KeepsVotes(node[n], node'[n], 0)
    BY <1>1, <1>3, TickPassesKeeps DEF KeepsVotes, NodeState
  <1>5. /\ counted'[n] = IF node'[n].role = RoleFollower THEN {} ELSE counted[n]
        /\ \A x \in Node \ {n} : counted'[x] = counted[x]
    BY <1>1, <1>2, <1>4 DEF CountOf
  <1>6. PICK out : out = {}
    OBVIOUS
  <1>7. net' \subseteq net \cup out /\ net \subseteq net /\ votes \subseteq votes'
    BY <1>2
  <1>8. \A x \in out : ~ IsRequest(x) /\ ~ IsGrant(x)
    BY <1>6
  <1> QED
    BY <1>2, <1>4, <1>5, <1>7, <1>8, CountKeptStep

LEMMA ReceiveCounts ==
    ASSUME TypeOK, NEW m \in net, NEW type, Receive(m, type), NEW extra,
           Count(m.to, Step(node[m.to], m), extra)
    PROVE  /\ m.to \in Node
           /\ counted'[m.to] = IF node'[m.to].role = RoleFollower
                               THEN {}
                               ELSE counted[m.to] \cup extra
           /\ \A x \in Node \ {m.to} : counted'[x] = counted[x]
           /\ net' = (net \ {m}) \cup Step(node[m.to], m).outbox
  <1> DEFINE n == m.to
             result == Step(node[m.to], m)
  <1>1. /\ n \in Node
        /\ node \in [Node -> NodeState]
        /\ counted \in [Node -> SUBSET Vote]
    BY DEF TypeOK, Message
  <1>2. /\ node' = [node EXCEPT ![n] = result.state]
        /\ net' = (net \ {m}) \cup result.outbox
        /\ counted' = [counted EXCEPT ![n] =
                          IF result.state.role = RoleFollower THEN {} ELSE @ \cup extra]
    BY DEF Receive, Finish, Count
  <1> HIDE DEF n, result
  <1>3. node'[n] = result.state
    BY <1>1, <1>2
  <1>4. /\ counted'[n] = IF node'[n].role = RoleFollower THEN {} ELSE counted[n] \cup extra
        /\ \A x \in Node \ {n} : counted'[x] = counted[x]
    BY <1>1, <1>2, <1>3
  <1> QED
    BY <1>1, <1>2, <1>4 DEF n, result

LEMMA AppendEntriesCounts ==
    ASSUME CountInv, VoteInv', NEW m \in net,
           ReceiveAppendEntriesRequest(m) \/ ReceiveAppendEntriesResponse(m)
    PROVE  CountInv'
  <1>1. TypeOK
    BY DEF CountInv, VoteInv
  <1>2. PICK type \in {AppendEntriesReq, AppendEntriesRes} :
            /\ Receive(m, type)
            /\ m.type = type
            /\ Count(m.to, Step(node[m.to], m), {})
            /\ votes' = votes
    BY DEF ReceiveAppendEntriesRequest, ReceiveAppendEntriesResponse, Receive
  <1>3. /\ m \in Message
        /\ m.to \in Node
        /\ node[m.to] \in NodeState
        /\ node'[m.to] = Step(node[m.to], m).state
        /\ OnlyAdvances(m.to)
    BY <1>1, <1>2, ReceiveType DEF Message
  <1>4. \/ Step(node[m.to], m) = handleAppendEntriesRequest(node[m.to], m)
        \/ Step(node[m.to], m) = handleAppendEntriesResponse(node[m.to], m)
    BY <1>2 DEF Step, AppendEntriesReq, AppendEntriesRes, RequestVoteReq, RequestVoteRes
  <1>5. /\ KeepsVotes(node[m.to], node'[m.to], 0)
        /\ NoVoteMessages(Step(node[m.to], m).outbox)
    BY <1>3, <1>4, VotesOfAppendEntries
  <1>6. /\ counted'[m.to] = IF node'[m.to].role = RoleFollower THEN {} ELSE counted[m.to]
        /\ \A x \in Node \ {m.to} : counted'[x] = counted[x]
        /\ net' = (net \ {m}) \cup Step(node[m.to], m).outbox
    <2>1. PICK none : none = {} /\ Count(m.to, Step(node[m.to], m), none)
      BY <1>2
    <2>2. /\ counted'[m.to] = IF node'[m.to].role = RoleFollower
                              THEN {}
                              ELSE counted[m.to] \cup none
          /\ \A x \in Node \ {m.to} : counted'[x] = counted[x]
          /\ net' = (net \ {m}) \cup Step(node[m.to], m).outbox
      BY <1>1, <1>2, <2>1, ReceiveCounts
    <2>3. counted[m.to] \cup none = counted[m.to]
      BY <2>1
    <2> QED
      BY <2>2, <2>3
  <1>7. \A x \in Step(node[m.to], m).outbox : ~ IsRequest(x) /\ ~ IsGrant(x)
    BY <1>5 DEF NoVoteMessages, IsRequest, IsGrant
  <1>8. PICK n \in Node : n = m.to
    BY <1>3
  <1>9. PICK out : out = Step(node[m.to], m).outbox
    OBVIOUS
  <1>10. votes \subseteq votes' /\ net \ {m} \subseteq net
    BY <1>2
  <1> QED
    BY <1>3, <1>5, <1>6, <1>7, <1>8, <1>9, <1>10, CountKeptStep

LEMMA VoteRequestCounts ==
    ASSUME CountInv, VoteInv', NEW m \in net, ReceiveRequestVoteRequest(m)
    PROVE  CountInv'
  <1>1. TypeOK
    BY DEF CountInv, VoteInv
  <1>2. PICK none : none = {} /\ Count(m.to, Step(node[m.to], m), none)
    BY DEF ReceiveRequestVoteRequest
  <1>3. Receive(m, RequestVoteReq) /\ IsRequest(m)
    BY DEF ReceiveRequestVoteRequest, Receive, IsRequest
  <1>4. /\ m \in Message
        /\ m.to \in Node
        /\ m.from \in Node
        /\ m.term \in Nat
        /\ node[m.to] \in NodeState
        /\ node'[m.to] = Step(node[m.to], m).state
        /\ OnlyAdvances(m.to)
    BY <1>1, <1>3, ReceiveType DEF Message
  <1>5. PICK out : out = Step(node[m.to], m).outbox
    OBVIOUS
  <1>6. PICK n \in Node : n = m.to
    BY <1>4
  <1>7. Step(node[n], m) = handleRequestVoteRequest(node[n], m)
    BY <1>3, <1>6 DEF IsRequest, Step, AppendEntriesReq, AppendEntriesRes,
                      RequestVoteReq, RequestVoteRes
  <1>8. /\ KeepsVotes(node[n], node'[n], 0)
        /\ out \subseteq Message
        /\ \A x \in out : /\ x.type = RequestVoteRes
                          /\ x.from = n
                          /\ x.to = m.from
                          /\ x.ok => x.term = m.term
    BY <1>4, <1>5, <1>6, <1>7, VotesOfVoteRequest, RequestVoteRequest DEF WellFormed
  <1>9. /\ counted'[n] = IF node'[n].role = RoleFollower THEN {} ELSE counted[n] \cup none
        /\ \A x \in Node \ {n} : counted'[x] = counted[x]
        /\ net' = (net \ {m}) \cup out
    BY <1>1, <1>2, <1>3, <1>5, <1>6, ReceiveCounts
  <1>10. counted[n] \cup none = counted[n]
    BY <1>2
  <1>11. RequestOpen(m)
    BY <1>3 DEF CountInv
  <1>12. \A x \in out : ~ IsRequest(x)
    BY <1>8 DEF IsRequest, RequestVoteReq, RequestVoteRes
  <1>13. ASSUME NEW x \in out, IsGrant(x)
         PROVE  Granted(x) = Asked(m) /\ GrantOpen(x)'
    <2>1. x.from = n /\ x.to = m.from /\ x.term = m.term /\ x.ok
      BY <1>8, <1>13 DEF IsGrant
    <2>2. Granted(x) = Asked(m)
      BY <1>6, <2>1 DEF Granted, Asked
    <2>3. Granted(x) \in votes'
      <3>1. votes' = votes \cup {Ballot(r.from, r.to, r.term) : r \in {y \in out : y.ok}}
        BY <1>5 DEF ReceiveRequestVoteRequest
      <3>2. x \in {y \in out : y.ok}
        BY <2>1
      <3> QED
        BY <3>1, <3>2 DEF Granted
    <2>4. /\ m.from # n
          /\ m.term <= node[m.from].term
          /\ Asked(m) \notin counted[m.from]
      BY <1>6, <1>11 DEF RequestOpen
    <2>5. node'[m.from] = node[m.from] /\ counted'[m.from] = counted[m.from]
      BY <1>1, <1>4, <1>6, <1>9, <2>4 DEF OnlyAdvances, TypeOK
    <2>6. /\ x.from # x.to
          /\ x.term <= node'[x.to].term
          /\ Granted(x) \notin counted'[x.to]
      BY <2>1, <2>2, <2>4, <2>5
    <2> QED
      BY <2>2, <2>3, <2>6 DEF GrantOpen, Granted
  <1>14. ASSUME NEW q \in net \ {m}, NEW g \in out, IsRequest(q), IsGrant(g)
         PROVE  Asked(q) # Granted(g)
    <2> SUFFICES ASSUME Asked(q) = Asked(m) PROVE FALSE
      BY <1>13, <1>14
    <2>1. q.to = m.to /\ q.from = m.from /\ q.term = m.term
      BY BallotsEqual DEF Asked
    <2>2. q.ok /\ m.ok /\ q \in Message
      BY <1>1, <1>11, <1>14 DEF CountInv, RequestOpen, TypeOK
    <2>3. q = m
      BY <1>3, <1>4, <1>14, <2>1, <2>2, SameMessage DEF IsRequest
    <2> QED
      BY <1>14, <2>3
  <1>15. votes \subseteq votes' /\ net \ {m} \subseteq net
    BY <1>1, GrantedVotes
  <1>16. PICK kept : kept = net \ {m}
    OBVIOUS
  <1>17. /\ kept \subseteq net
         /\ net' \subseteq kept \cup out
         /\ \A x \in out : IsGrant(x) => GrantOpen(x)'
         /\ \A q \in kept, g \in out : IsRequest(q) /\ IsGrant(g) => Asked(q) # Granted(g)
         /\ counted'[n] = IF node'[n].role = RoleFollower THEN {} ELSE counted[n]
    BY <1>9, <1>10, <1>13, <1>14, <1>15, <1>16
  <1> QED
    BY <1>4, <1>6, <1>8, <1>9, <1>12, <1>15, <1>17, CountKeptStep

(* A grant that arrives at a candidate is one vote more, and was not counted *)
(* before; any other answer leaves the votes alone.                          *)
LEMMA VoteResponseCounts ==
    ASSUME CountInv, VoteInv', NEW m \in net, ReceiveRequestVoteResponse(m)
    PROVE  CountInv'
  <1>1. TypeOK /\ TypeOK'
    BY DEF CountInv, VoteInv
  <1>2. PICK extra : /\ extra = (IF CountsVote(node[m.to], m) THEN {Granted(m)} ELSE {})
                     /\ Count(m.to, Step(node[m.to], m), extra)
    BY DEF ReceiveRequestVoteResponse, Granted
  <1>3. /\ Receive(m, RequestVoteRes)
        /\ m.type = RequestVoteRes
        /\ votes \subseteq votes'
    BY DEF ReceiveRequestVoteResponse, Receive
  <1>4. /\ m \in Message
        /\ m.to \in Node
        /\ m.term \in Nat
        /\ node[m.to] \in NodeState
        /\ node'[m.to] = Step(node[m.to], m).state
        /\ OnlyAdvances(m.to)
    BY <1>1, <1>3, ReceiveType DEF Message
  <1>5. PICK out : out = Step(node[m.to], m).outbox
    OBVIOUS
  <1>6. PICK n \in Node : n = m.to
    BY <1>4
  <1>7. Step(node[n], m) = handleRequestVoteResponse(node[n], m)
    BY <1>3, <1>6 DEF Step, AppendEntriesReq, AppendEntriesRes,
                      RequestVoteReq, RequestVoteRes
  <1>8. /\ CountsVote(node[n], m) => KeepsVotes(node[n], node'[n], 1)
        /\ ~ CountsVote(node[n], m) => KeepsVotes(node[n], node'[n], 0)
        /\ \A x \in out : ~ IsRequest(x) /\ ~ IsGrant(x)
    BY <1>4, <1>5, <1>6, <1>7, VotesOfVoteResponse
       DEF NoVoteMessages, IsRequest, IsGrant
  <1>9. /\ counted'[n] = IF node'[n].role = RoleFollower THEN {} ELSE counted[n] \cup extra
        /\ \A x \in Node \ {n} : counted'[x] = counted[x]
        /\ net' = (net \ {m}) \cup out
    BY <1>1, <1>2, <1>3, <1>5, <1>6, ReceiveCounts
  <1>10. PICK kept : kept = net \ {m}
    OBVIOUS
  <1>11. kept \subseteq net /\ net' \subseteq kept \cup out /\ OnlyAdvances(n)
    BY <1>4, <1>6, <1>9, <1>10
  <1>12. CASE ~ CountsVote(node[n], m)
    <2>1. counted[n] \cup extra = counted[n]
      BY <1>2, <1>6, <1>12
    <2> QED
      BY <1>3, <1>8, <1>9, <1>11, <1>12, <2>1, CountKeptStep
  <1>13. CASE CountsVote(node[n], m)
    <2>1. extra = {Granted(m)} /\ IsGrant(m)
      BY <1>2, <1>3, <1>6, <1>13 DEF CountsVote, IsGrant
    <2>2. /\ m.to = n
          /\ m.term <= node[n].term
          /\ Granted(m) \in votes
          /\ Granted(m) \notin counted[n]
      BY <1>6, <2>1 DEF CountInv, GrantOpen
    <2>3. Granted(m).candidate = n /\ Granted(m).term = m.term
      BY <2>2 DEF Granted, Ballot
    <2>4. CountOf(n)
      BY DEF CountInv
    <2>5. /\ node[n].term \in Nat
          /\ node'[n].term \in Nat
          /\ node[n].term <= node'[n].term
          /\ \A v \in counted[n] : v.term \in Nat
      BY <1>1, <1>11 DEF TypeOK, NodeState, Vote, OnlyAdvances, Advances
    <2>6. CountOf(n)'
      <3>1. CASE node'[n].role = RoleFollower
        BY <1>9, <3>1, FS_EmptySet DEF CountOf
      <3>2. CASE node'[n].role # RoleFollower
        <4>1. /\ counted'[n] = counted[n] \cup {Granted(m)}
              /\ node'[n].votesReceived = Cardinality(counted[n]) + 1
          BY <1>8, <1>9, <1>13, <2>1, <2>4, <3>2 DEF KeepsVotes, CountOf
        <4>2. /\ IsFiniteSet(counted'[n])
              /\ Cardinality(counted'[n]) = Cardinality(counted[n]) + 1
          BY <2>2, <2>4, <4>1, FS_AddElement DEF CountOf
        <4>3. counted'[n] \subseteq votes'
          BY <1>3, <2>2, <2>4, <4>1 DEF CountOf
        <4>4. \A v \in counted'[n] : v.candidate = n /\ v.term <= node'[n].term
          BY <1>4, <2>2, <2>3, <2>4, <2>5, <4>1 DEF CountOf
        <4> QED
          BY <3>2, <4>1, <4>2, <4>3, <4>4 DEF CountOf
      <3> QED
        BY <3>1, <3>2
    <2>7. counted'[n] \subseteq counted[n] \cup {Granted(m)}
      BY <1>9, <2>1
    <2>8. \A q \in kept : IsRequest(q) /\ q.from = n => Asked(q) \notin counted'[n]
      BY <1>11, <2>1, <2>7 DEF CountInv, RequestOpen, OneUnderWay
    <2>9. ASSUME NEW w \in kept, IsGrant(w), w.to = n
          PROVE  Granted(w) \notin counted'[n]
      <3>1. Granted(w) \notin counted[n] /\ w \in Message /\ w # m
        BY <1>1, <1>10, <2>9 DEF CountInv, GrantOpen, TypeOK
      <3>2. ASSUME Granted(w) = Granted(m) PROVE FALSE
        <4>1. w.from = m.from /\ w.to = m.to /\ w.term = m.term
          BY <3>2, BallotsEqual DEF Granted
        <4> QED
          BY <1>4, <2>1, <2>9, <3>1, <4>1, SameMessage DEF IsGrant
      <3> QED
        BY <2>7, <3>1, <3>2
    <2> QED
      BY <1>3, <1>8, <1>9, <1>11, <2>6, <2>8, <2>9, CountStep
  <1> QED
    BY <1>12, <1>13

(* An election begins a new count with the candidate's own vote; no other    *)
(* Tick touches the votes.                                                   *)
LEMMA InboxTickCounts ==
    ASSUME CountInv, VoteInv', NEW n \in Node, NEW again \in BOOLEAN, InboxTick(n, again)
    PROVE  CountInv'
  <1>1. TypeOK /\ TypeOK' /\ CountOf(n)
    BY DEF CountInv, VoteInv
  <1>2. PICK s : s = IF again THEN TickPasses(n, node[n]) ELSE node[n]
    OBVIOUS
  <1>3. /\ s \in NodeState
        /\ s.role = node[n].role
        /\ s.term = node[n].term
        /\ s.votesReceived = node[n].votesReceived
    BY <1>1, <1>2, TickPassesKeeps DEF TypeOK
  <1>4. PICK out : out = handleTick(n, s).outbox
    OBVIOUS
  <1>5. /\ Finish(n, handleTick(n, s), {})
        /\ StartsElection(n, s) =>
             /\ votes' = votes \cup {Ballot(n, n, handleTick(n, s).state.term)}
             /\ counted' = [counted EXCEPT ![n] = {Ballot(n, n, handleTick(n, s).state.term)}]
        /\ ~ StartsElection(n, s) => UNCHANGED <<votes, counted>>
    BY <1>2 DEF InboxTick
  <1>6. /\ node'[n] = handleTick(n, s).state
        /\ OnlyAdvances(n)
    BY <1>1, <1>3, <1>5, FinishType, InboxTickType, HandleTick
  <1>7. net' \subseteq net \cup out /\ net \subseteq net
    BY <1>4, <1>5 DEF Finish
  <1>8. CASE ~ StartsElection(n, s)
    <2>1. /\ node'[n].role = node[n].role
          /\ KeepsVotes(node[n], node'[n], 0)
          /\ \A x \in out : ~ IsRequest(x) /\ ~ IsGrant(x)
      <3>1. node[n].votesReceived \in Nat
        BY <1>1 DEF TypeOK, NodeState
      <3> QED
        BY <1>3, <1>4, <1>6, <1>8, <3>1, VotesOfTick
           DEF KeepsVotes, NoVoteMessages, IsRequest, IsGrant
    <2>2. /\ counted'[n] = IF node'[n].role = RoleFollower THEN {} ELSE counted[n]
          /\ \A x \in Node \ {n} : counted'[x] = counted[x]
          /\ votes \subseteq votes'
      BY <1>1, <1>5, <1>8, <2>1 DEF CountOf
    <2> QED
      BY <1>6, <1>7, <2>1, <2>2, CountKeptStep
  <1>9. CASE StartsElection(n, s)
    <2>1. PICK t : t = node[n].term + 1
      OBVIOUS
    <2>2. /\ node'[n].role # RoleFollower
          /\ node'[n].term = t
          /\ node'[n].votesReceived = 1
          /\ \A x \in out :
               /\ x.type # RequestVoteRes
               /\ x.type = RequestVoteReq =>
                    x.ok /\ x.from = n /\ x.to \in Node \ {n} /\ x.term = t
      BY <1>3, <1>4, <1>6, <1>9, <2>1, VotesOfTick
    <2>3. /\ votes' = votes \cup {Ballot(n, n, t)}
          /\ counted'[n] = {Ballot(n, n, t)}
          /\ \A x \in Node \ {n} : counted'[x] = counted[x]
      BY <1>1, <1>5, <1>6, <1>9, <2>2 DEF TypeOK
    <2>4. /\ t \in Nat
          /\ node[n].term \in Nat
          /\ t > node[n].term
          /\ Ballot(n, n, t).voter = n
          /\ Ballot(n, n, t).candidate = n
          /\ Ballot(n, n, t).term = t
      BY <1>1, <2>1 DEF TypeOK, NodeState, Ballot
    <2>5. CountOf(n)'
      <3>1. /\ IsFiniteSet(counted'[n])
            /\ Cardinality(counted'[n]) = 1
        BY <2>3, FS_Singleton
      <3> QED
        BY <2>2, <2>3, <2>4, <3>1 DEF CountOf
    <2>6. \A x \in net : x.from # x.to => Asked(x) # Ballot(n, n, t) /\ Granted(x) # Ballot(n, n, t)
      BY BallotsEqual DEF Asked, Granted
    <2>7. /\ \A x \in net : IsRequest(x) /\ x.from = n => Asked(x) \notin counted'[n]
          /\ \A x \in net : IsGrant(x) /\ x.to = n => Granted(x) \notin counted'[n]
      BY <2>3, <2>6 DEF CountInv, RequestOpen, GrantOpen
    <2>8. ASSUME NEW x \in out, IsRequest(x) PROVE RequestOpen(x)'
      <3>1. x.ok /\ x.from = n /\ x.to # n /\ x.term = t
        BY <2>2, <2>8 DEF IsRequest
      <3>2. Asked(x) # Ballot(n, n, t)
        BY <3>1, BallotsEqual DEF Asked
      <3>3. Asked(x) \notin counted'[x.from]
        BY <2>3, <3>1, <3>2
      <3>4. x.from # x.to /\ x.term <= node'[x.from].term
        BY <2>2, <2>4, <3>1
      <3> QED
        BY <3>1, <3>3, <3>4 DEF RequestOpen, Asked
    <2>9. \A x \in out : ~ IsGrant(x)
      BY <2>2 DEF IsGrant
    <2>10. ASSUME NEW q \in out, NEW g \in net, IsRequest(q), IsGrant(g)
           PROVE  Asked(q) # Granted(g)
      <3> SUFFICES ASSUME Asked(q) = Granted(g) PROVE FALSE
        OBVIOUS
      <3>1. q.from = g.to /\ q.term = g.term
        BY BallotsEqual DEF Asked, Granted
      <3>2. q.from = n /\ q.term = t
        BY <2>2, <2>10 DEF IsRequest
      <3>3. g.term <= node[g.to].term
        BY <2>10 DEF CountInv, GrantOpen
      <3> QED
        BY <2>4, <3>1, <3>2, <3>3
    <2>11. \A q, g \in net \cup out :
               IsRequest(q) /\ IsGrant(g) /\ (q \in out \/ g \in out) =>
                   Asked(q) # Granted(g)
      BY <2>9, <2>10
    <2>12. votes \subseteq votes'
      BY <2>3
    <2> QED
      BY <1>6, <1>7, <2>3, <2>5, <2>7, <2>8, <2>9, <2>11, <2>12, CountStep
  <1> QED
    BY <1>8, <1>9

LEMMA CountInvInductive ==
    ASSUME CountInv, [Next]_vars
    PROVE  CountInv'
  <1>1. VoteInv'
    BY VoteInvInductive DEF CountInv
  <1>2. ASSUME net' \subseteq net, UNCHANGED <<node, votes, counted>>
        PROVE  CountInv'
    BY <1>1, <1>2 DEF CountInv, OneUnderWay, CountOf, RequestOpen, GrantOpen,
                      IsRequest, IsGrant, Asked, Granted
  <1> QED
    BY <1>1, <1>2, TimerFiresCounts, InboxTickCounts, VoteRequestCounts,
       VoteResponseCounts, AppendEntriesCounts DEF Next, vars, Lose

LEMMA CountInvariant == Spec => []CountInv
  <1>1. Init => VoteInv
    BY DEF Init, VoteInv, VoteOncePerTerm, VotesMatchNodes, TypeOK, NewNode,
           NodeState, Role, RoleFollower
  <1>2. Init => CountInv
    BY <1>1, FS_EmptySet DEF Init, CountInv, OneUnderWay, CountOf, NewNode
  <1>3. CountInv /\ [Next]_vars => CountInv'
    BY CountInvInductive
  <1> QED
    BY <1>2, <1>3, PTL DEF Spec

(* votesReceived is made of different votes, each really granted to this     *)
(* node in its term or an earlier one: for every cluster size, and whatever  *)
(* order, delay and loss the answers have.                                   *)
THEOREM VotesCountedWereGranted == Spec => []VotesReceivedAreGranted
  <1>1. CountInv => VotesReceivedAreGranted
    BY DEF CountInv, CountOf, VotesReceivedAreGranted
  <1> QED
    BY <1>1, CountInvariant, PTL

-----------------------------------------------------------------------------
(* Every leader holds the votes of an election that it won.                  *)

LeadersWon == \A n \in Node : LeaderWon(n, node[n])

LEMMA LeadersWonStep ==
    ASSUME TypeOK, LeadersWon, NEW n \in Node, OnlyAdvances(n), LeaderWon(n, node'[n])
    PROVE  LeadersWon'
  <1>1. \A x \in Node \ {n} : node'[x] = node[x]
    BY DEF OnlyAdvances, TypeOK
  <1>2. ASSUME NEW x \in Node PROVE LeaderWon(x, node'[x])
    BY <1>1 DEF LeadersWon
  <1> QED
    BY <1>2 DEF LeadersWon, LeaderWon, WinsElection, peerIDs

LEMMA LeadersWonInductive ==
    ASSUME TypeOK, LeadersWon, [Next]_vars
    PROVE  LeadersWon'
  <1>1. ASSUME NEW n \in Node, TimerFires(n) PROVE LeadersWon'
    <2>1. node'[n] = TickPasses(n, node[n]) /\ OnlyAdvances(n) /\ node[n] \in NodeState
      BY <1>1, TimerFiresType DEF TimerFires, TypeOK
    <2>2. LeaderWon(n, node'[n])
      BY <2>1, TickPassesKeeps DEF LeadersWon, LeaderWon
    <2> QED
      BY <2>1, <2>2, LeadersWonStep
  <1>2. ASSUME NEW n \in Node, NEW again \in BOOLEAN, InboxTick(n, again)
        PROVE  LeadersWon'
    <2>1. PICK s : s = IF again THEN TickPasses(n, node[n]) ELSE node[n]
      OBVIOUS
    <2>2. node[n] \in NodeState /\ LeaderWon(n, node[n])
      BY DEF TypeOK, LeadersWon
    <2>3. s \in NodeState /\ LeaderWon(n, s)
      BY <2>1, <2>2, TickPassesKeeps DEF LeaderWon
    <2>4. Finish(n, handleTick(n, s), {})
      BY <1>2, <2>1 DEF InboxTick
    <2>5. node'[n] = handleTick(n, s).state /\ OnlyAdvances(n)
      BY <1>2, <2>3, <2>4, FinishType, InboxTickType, HandleTick
    <2> QED
      BY <2>3, <2>5, TickWon, LeadersWonStep
  <1>3. ASSUME NEW m \in net, NEW type, Receive(m, type)
        PROVE  LeadersWon'
    <2>1. /\ m \in Message
          /\ m.to \in Node
          /\ node[m.to] \in NodeState
          /\ node'[m.to] = Step(node[m.to], m).state
          /\ OnlyAdvances(m.to)
      BY <1>3, ReceiveType DEF Message
    <2>2. LeaderWon(m.to, node'[m.to])
      BY <2>1, StepWon DEF LeadersWon
    <2> QED
      BY <2>1, <2>2, LeadersWonStep
  <1>4. ASSUME node' = node PROVE LeadersWon'
    BY <1>4 DEF LeadersWon, LeaderWon, WinsElection, peerIDs
  <1> QED
    BY <1>1, <1>2, <1>3, <1>4
       DEF Next, vars, Lose, ReceiveRequestVoteRequest, ReceiveRequestVoteResponse,
           ReceiveAppendEntriesRequest, ReceiveAppendEntriesResponse

(* A leader of an odd cluster that was elected by votes of its own term has  *)
(* them from more than half of the nodes.                                    *)
LEMMA VotersOfLeader ==
    ASSUME CountInv, LeadersWon, Cardinality(Node) % 2 = 1,
           NEW n \in Leaders, ElectedByItsTerm(n)
    PROVE  \E V \in SUBSET Node :
              /\ 2 * Cardinality(V) > Cardinality(Node)
              /\ \A x \in V : Ballot(x, n, node[n].term) \in votes
  <1> DEFINE V == {v.voter : v \in counted[n]}
             voterOf == [v \in counted[n] |-> v.voter]
  <1>1. /\ n \in Node
        /\ node[n].role = RoleLeader
        /\ CountOf(n)
        /\ WinsElection(n, node[n].votesReceived)
        /\ counted[n] \subseteq Vote
    BY DEF Leaders, CountInv, VoteInv, TypeOK, LeadersWon, LeaderWon
  <1>2. /\ node[n].votesReceived = Cardinality(counted[n])
        /\ IsFiniteSet(counted[n])
        /\ counted[n] \subseteq votes
    BY <1>1 DEF CountOf, RoleLeader, RoleFollower
  <1>3. \A v \in counted[n] : /\ v.voter \in Node
                              /\ v = Ballot(v.voter, n, node[n].term)
    <2> SUFFICES ASSUME NEW v \in counted[n]
                 PROVE  v.voter \in Node /\ v = Ballot(v.voter, n, node[n].term)
      OBVIOUS
    <2>1. v \in Vote /\ v.candidate = n /\ v.term = node[n].term
      BY <1>1 DEF CountOf, ElectedByItsTerm
    <2> QED
      BY <2>1 DEF Vote, Ballot
  <1>4. IsFiniteSet(Node) /\ IsFiniteSet(V) /\ V \subseteq Node
    <2>1. V \subseteq Node
      BY <1>3
    <2> QED
      BY <2>1, NodeAssumption, FS_Subset
  <1>5. voterOf \in Injection(counted[n], V)
    <2>1. voterOf \in [counted[n] -> V]
      OBVIOUS
    <2>2. \A v, w \in counted[n] : voterOf[v] = voterOf[w] => v = w
      BY <1>3
    <2> QED
      BY <2>1, <2>2 DEF Injection, IsInjective
  <1> HIDE DEF V, voterOf
  <1>6. Cardinality(counted[n]) <= Cardinality(V)
    BY <1>4, <1>5, FS_Injection
  <1>7. Cardinality(peerIDs(n)) = Cardinality(Node) - 1
    BY <1>1, <1>4, FS_RemoveElement DEF peerIDs
  <1>8. /\ Cardinality(Node) \in Nat
        /\ Cardinality(V) \in Nat
        /\ Cardinality(counted[n]) \in Nat
    BY <1>2, <1>4, FS_CardinalityType
  <1>9. Cardinality(counted[n]) > (Cardinality(Node) - 1) \div 2
    BY <1>1, <1>2, <1>7 DEF WinsElection
  <1>10. 2 * Cardinality(V) > Cardinality(Node)
    BY <1>6, <1>8, <1>9
  <1>11. \A x \in V : Ballot(x, n, node[n].term) \in votes
    BY <1>2, <1>3 DEF V
  <1> QED
    BY <1>4, <1>10, <1>11

(* In every cluster of odd size, two leaders share a term only if one of     *)
(* them was elected with a vote of an earlier term: WinsElection asks for a  *)
(* majority, two majorities share a voter, and a voter votes once per term.  *)
THEOREM OddClustersSplitOnlyByStaleVotes ==
    ASSUME Cardinality(Node) % 2 = 1
    PROVE  Spec => []SplitBrainNeedsStaleVote
  <1>1. CountInv /\ LeadersWon => SplitBrainNeedsStaleVote
    <2> SUFFICES ASSUME CountInv, LeadersWon, NEW m \in Leaders, NEW n \in Leaders,
                        node[m].term = node[n].term,
                        ElectedByItsTerm(m), ElectedByItsTerm(n)
                 PROVE  m = n
      BY DEF SplitBrainNeedsStaleVote
    <2>1. PICK V \in SUBSET Node :
              /\ 2 * Cardinality(V) > Cardinality(Node)
              /\ \A x \in V : Ballot(x, m, node[m].term) \in votes
      BY VotersOfLeader
    <2>2. PICK W \in SUBSET Node :
              /\ 2 * Cardinality(W) > Cardinality(Node)
              /\ \A x \in W : Ballot(x, n, node[n].term) \in votes
      BY VotersOfLeader
    <2>3. IsFiniteSet(Node) /\ IsFiniteSet(V) /\ IsFiniteSet(W)
      BY NodeAssumption, FS_Subset
    <2>4. Cardinality(V) + Cardinality(W) > Cardinality(Node)
      BY <2>1, <2>2, <2>3, FS_CardinalityType
    <2>5. PICK x \in Node : x \in V /\ x \in W
      BY <2>3, <2>4, FS_MajoritiesIntersect
    <2>6. /\ Ballot(x, m, node[m].term) \in votes
          /\ Ballot(x, n, node[m].term) \in votes
      BY <2>1, <2>2, <2>5
    <2>7. /\ \A c : /\ Ballot(x, c, node[m].term).voter = x
                    /\ Ballot(x, c, node[m].term).candidate = c
                    /\ Ballot(x, c, node[m].term).term = node[m].term
      BY DEF Ballot
    <2> QED
      BY <2>6, <2>7 DEF CountInv, VoteInv, VoteOncePerTerm
  <1>2. Init => LeadersWon
    BY DEF Init, LeadersWon, LeaderWon, NewNode, RoleFollower, RoleLeader
  <1>3. CountInv /\ LeadersWon /\ [Next]_vars => LeadersWon'
    BY LeadersWonInductive DEF CountInv, VoteInv
  <1> QED
    BY <1>1, <1>2, <1>3, CountInvariant, PTL DEF Spec

=============================================================================
