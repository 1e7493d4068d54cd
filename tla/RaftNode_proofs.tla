--------------------------- MODULE RaftNode_proofs ---------------------------
(***************************************************************************)
(* What the handlers of RaftNode leave behind, for every node, state and   *)
(* message: the lemmas that the theorems about RaftCluster and RaftRounds  *)
(* rest on.                                                                *)
(***************************************************************************)
EXTENDS RaftNode, FiniteSetTheorems, TLAPS

-----------------------------------------------------------------------------
(* What the handlers of RaftNode leave behind.                               *)

(* The state moves on from s: to a higher term, or within the term without   *)
(* taking back a vote or stepping down as leader.                            *)
Advances(s, t) ==
    /\ t.term >= s.term
    /\ t.term = s.term =>
        /\ s.role = RoleLeader => t.role = RoleLeader
        /\ s.votedFor # NoVote => t.votedFor = s.votedFor

WellFormed(result) ==
    /\ result.state \in NodeState
    /\ result.outbox \subseteq Message
    /\ result.panics \in BOOLEAN

LEMMA MsgFields ==
    ASSUME NEW from \in Node, NEW to \in Node, NEW type \in MessageType,
           NEW ok \in BOOLEAN, NEW term \in Nat
    PROVE  /\ Msg(from, to, type, ok, term) \in Message
           /\ Msg(from, to, type, ok, term).from = from
           /\ Msg(from, to, type, ok, term).to = to
           /\ Msg(from, to, type, ok, term).type = type
           /\ Msg(from, to, type, ok, term).ok = ok
           /\ Msg(from, to, type, ok, term).term = term
  BY DEF Msg, Message

(* becomeFollower for a term that is not lower, in a node that is no leader  *)
(* or for a higher term.                                                     *)
LEMMA BecomeFollower ==
    ASSUME NEW s \in NodeState, NEW t \in Nat, t >= s.term,
           t > s.term \/ s.role # RoleLeader
    PROVE  /\ becomeFollower(s, t) \in NodeState
           /\ becomeFollower(s, t).term = t
           /\ becomeFollower(s, t).role = RoleFollower
           /\ becomeFollower(s, t).votedFor =
                IF s.term # t THEN NoVote ELSE s.votedFor
           /\ Advances(s, becomeFollower(s, t))
  <1> DEFINE f == becomeFollower(s, t)
  <1>1. f.term = t
    BY DEF becomeFollower, NodeState
  <1>2. f.role = RoleFollower
    BY DEF becomeFollower, NodeState
  <1>3. f.votedFor = IF s.term # t THEN NoVote ELSE s.votedFor
    BY DEF becomeFollower, NodeState
  <1>4. f \in NodeState
    BY DEF becomeFollower, NodeState, Role, RoleFollower
  <1> QED
    BY <1>1, <1>2, <1>3, <1>4 DEF Advances, NodeState

LEMMA BroadcastHeartbeats ==
    ASSUME NEW n \in Node, NEW s \in NodeState
    PROVE  /\ WellFormed(broadcastHeartbeats(n, s))
           /\ Advances(s, broadcastHeartbeats(n, s).state)
           /\ broadcastHeartbeats(n, s).state.term = s.term
           /\ broadcastHeartbeats(n, s).state.votedFor = s.votedFor
           /\ broadcastHeartbeats(n, s).state.role = s.role
           /\ broadcastHeartbeats(n, s).state.votesReceived = s.votesReceived
  <1> DEFINE b == [s EXCEPT !.sinceSent = 0]
             out == {Msg(n, p, AppendEntriesReq, TRUE, s.term) : p \in peerIDs(n)}
  <1>1. broadcastHeartbeats(n, s) = [state |-> b, outbox |-> out, panics |-> FALSE]
    BY DEF broadcastHeartbeats, Result
  <1>2. /\ b.term = s.term
        /\ b.votedFor = s.votedFor
        /\ b.role = s.role
        /\ b.votesReceived = s.votesReceived
    BY DEF NodeState
  <1>3. b \in NodeState
    BY DEF NodeState
  <1>4. out \subseteq Message
    <2>1. s.term \in Nat /\ AppendEntriesReq \in MessageType
      BY DEF NodeState, MessageType
    <2>2. \A p \in peerIDs(n) : Msg(n, p, AppendEntriesReq, TRUE, s.term) \in Message
      BY <2>1, MsgFields DEF peerIDs
    <2> QED
      BY <2>2
  <1>5. Advances(s, b)
    BY <1>2 DEF Advances, NodeState
  <1>6. WellFormed([state |-> b, outbox |-> out, panics |-> FALSE])
    <2> HIDE DEF b, out
    <2> QED
      BY <1>3, <1>4 DEF WellFormed
  <1> QED
    <2> HIDE DEF b, out
    <2> QED
      BY <1>1, <1>2, <1>5, <1>6

LEMMA RequestVoteRequest ==
    ASSUME NEW s \in NodeState, NEW m \in Message
    PROVE  /\ WellFormed(handleRequestVoteRequest(s, m))
           /\ Advances(s, handleRequestVoteRequest(s, m).state)
           /\ \A x \in handleRequestVoteRequest(s, m).outbox :
                /\ x.from = m.to
                /\ x.to = m.from
                /\ x.term = handleRequestVoteRequest(s, m).state.term
                /\ x.ok => handleRequestVoteRequest(s, m).state.votedFor = m.from
  <1> DEFINE u == IF m.term > s.term THEN becomeFollower(s, m.term) ELSE s
  <1> USE DEF Message
  <1>1. m.term \in Nat /\ m.to \in Node /\ m.from \in Node
    OBVIOUS
  <1>2. u \in NodeState /\ Advances(s, u)
    BY <1>1, BecomeFollower DEF NodeState, Advances
  <1> DEFINE g == [u EXCEPT !.votedFor = m.from]
             Answer(x, ok) == [state |-> x,
                               outbox |-> {Msg(m.to, m.from, RequestVoteRes, ok, x.term)},
                               panics |-> FALSE]
  <1>3. g \in NodeState /\ g.votedFor = m.from /\ g.term = u.term /\ g.role = u.role
    <2> HIDE DEF u
    <2>1. g.votedFor = m.from /\ g.term = u.term /\ g.role = u.role
      BY <1>2 DEF NodeState
    <2>2. g \in NodeState
      BY <1>1, <1>2 DEF NodeState
    <2> QED
      BY <2>1, <2>2
  <1>4. u.votedFor \in {NoVote, m.from} => Advances(s, g)
    <2> HIDE DEF u, g
    <2> QED
      BY <1>1, <1>2, <1>3 DEF NodeState, Advances
  <1>5. Advances(s, s)
    BY DEF NodeState, Advances
  <1>6. \/ handleRequestVoteRequest(s, m) = Answer(s, FALSE)
        \/ handleRequestVoteRequest(s, m) = Answer(u, FALSE)
        \/ /\ u.votedFor \in {NoVote, m.from}
           /\ handleRequestVoteRequest(s, m) = Answer(g, TRUE)
    BY DEF handleRequestVoteRequest, Result
  <1>7. ASSUME NEW x \in NodeState, NEW ok \in BOOLEAN
        PROVE  /\ WellFormed(Answer(x, ok))
               /\ Answer(x, ok).state = x
               /\ \A y \in Answer(x, ok).outbox :
                    y.from = m.to /\ y.to = m.from /\ y.term = x.term
    BY <1>1 DEF WellFormed, Msg, MessageType, RequestVoteRes, NodeState
  <1>8. \A x \in NodeState : \A y \in Answer(x, FALSE).outbox : ~ y.ok
    BY DEF Msg
  <1> HIDE DEF u, g, Answer
  <1>9. CASE handleRequestVoteRequest(s, m) = Answer(s, FALSE)
    <2>1. WellFormed(Answer(s, FALSE)) /\ Answer(s, FALSE).state = s
      BY <1>7
    <2>2. \A y \in Answer(s, FALSE).outbox :
            y.from = m.to /\ y.to = m.from /\ y.term = s.term
      BY <1>7
    <2>3. \A y \in Answer(s, FALSE).outbox : ~ y.ok
      BY <1>8
    <2> QED
      BY <1>5, <1>9, <2>1, <2>2, <2>3
  <1>10. CASE handleRequestVoteRequest(s, m) = Answer(u, FALSE)
    <2>1. WellFormed(Answer(u, FALSE)) /\ Answer(u, FALSE).state = u
      BY <1>2, <1>7
    <2>2. \A y \in Answer(u, FALSE).outbox :
            y.from = m.to /\ y.to = m.from /\ y.term = u.term
      BY <1>2, <1>7
    <2>3. \A y \in Answer(u, FALSE).outbox : ~ y.ok
      BY <1>2, <1>8
    <2> QED
      BY <1>2, <1>10, <2>1, <2>2, <2>3
  <1>11. CASE /\ u.votedFor \in {NoVote, m.from}
              /\ handleRequestVoteRequest(s, m) = Answer(g, TRUE)
    BY <1>3, <1>4, <1>7, <1>11
  <1> QED
    BY <1>6, <1>9, <1>10, <1>11

LEMMA RequestVoteResponse ==
    ASSUME NEW s \in NodeState, NEW m \in Message
    PROVE  /\ WellFormed(handleRequestVoteResponse(s, m))
           /\ Advances(s, handleRequestVoteResponse(s, m).state)
  <1> DEFINE voted == [s EXCEPT !.votesReceived = @ + 1]
             leader == becomeLeader(voted, s.term)
  <1>1. m.term \in Nat /\ m.to \in Node
    BY DEF Message
  <1>2. voted \in NodeState /\ leader \in NodeState
    <2>1. voted \in NodeState
      BY DEF NodeState
    <2> HIDE DEF voted
    <2> QED
      BY <2>1 DEF NodeState, becomeLeader, Role, RoleLeader
  <1>3. Advances(s, s) /\ Advances(s, voted)
    BY DEF NodeState, Advances
  <1>4. CountsVote(s, m) =>
          /\ WellFormed(broadcastHeartbeats(m.to, leader))
          /\ Advances(s, broadcastHeartbeats(m.to, leader).state)
    <2>1. Advances(s, leader)
      BY DEF NodeState, Advances, becomeLeader
    <2> QED
      BY <1>1, <1>2, <2>1, BroadcastHeartbeats DEF NodeState, Advances
  <1>5. m.term > s.term =>
          /\ becomeFollower(s, m.term) \in NodeState
          /\ Advances(s, becomeFollower(s, m.term))
    BY <1>1, BecomeFollower DEF NodeState
  <1> QED
    BY <1>2, <1>3, <1>4, <1>5
    DEF handleRequestVoteResponse, WellFormed, Result

LEMMA AppendEntriesResponse ==
    ASSUME NEW s \in NodeState, NEW m \in Message
    PROVE  /\ WellFormed(handleAppendEntriesResponse(s, m))
           /\ Advances(s, handleAppendEntriesResponse(s, m).state)
  <1>1. m.term \in Nat
    BY DEF Message
  <1>2. m.term > s.term =>
          /\ becomeFollower(s, m.term) \in NodeState
          /\ Advances(s, becomeFollower(s, m.term))
    BY <1>1, BecomeFollower DEF NodeState
  <1>3. Advances(s, s)
    BY DEF NodeState, Advances
  <1> QED
    BY <1>2, <1>3 DEF handleAppendEntriesResponse, WellFormed, Result

LEMMA AppendEntriesRequest ==
    ASSUME NEW s \in NodeState, NEW m \in Message
    PROVE  /\ WellFormed(handleAppendEntriesRequest(s, m))
           /\ Advances(s, handleAppendEntriesRequest(s, m).state)
  <1> DEFINE u == IF m.term > s.term THEN becomeFollower(s, m.term) ELSE s
             heard == [u EXCEPT !.sinceReceived = 0]
             down == becomeFollower(heard, m.term)
  <1> USE DEF Message
  <1>1. m.term \in Nat /\ m.to \in Node /\ m.from \in Node
    OBVIOUS
  <1>2. u \in NodeState /\ Advances(s, u) /\ Advances(s, s)
    BY <1>1, BecomeFollower DEF NodeState, Advances
  <1>3. heard \in NodeState /\ Advances(s, heard)
    BY <1>2 DEF NodeState, Advances
  <1>4. m.term >= s.term => m.term = u.term
    BY <1>1, BecomeFollower DEF NodeState
  <1>5. m.term >= s.term /\ u.role # RoleLeader =>
          down \in NodeState /\ Advances(s, down)
    <2> SUFFICES ASSUME m.term >= s.term, u.role # RoleLeader
                 PROVE  down \in NodeState /\ Advances(s, down)
      OBVIOUS
    <2>1. heard.term = m.term /\ heard.role # RoleLeader
      BY <1>2, <1>4 DEF NodeState
    <2>2. down \in NodeState /\ Advances(heard, down) /\ down.term = m.term
      BY <1>1, <1>3, <2>1, BecomeFollower DEF NodeState
    <2> QED
      BY <1>3, <2>1, <2>2 DEF NodeState, Advances
  <1> DEFINE Answer(x, ok) ==
               [state |-> x,
                outbox |-> {Msg(m.to, m.from, AppendEntriesRes, ok, u.term)},
                panics |-> FALSE]
  <1>6. \/ handleAppendEntriesRequest(s, m) = Answer(s, FALSE)
        \/ handleAppendEntriesRequest(s, m) = [state |-> u, outbox |-> {}, panics |-> TRUE]
        \/ handleAppendEntriesRequest(s, m) = Answer(heard, TRUE)
        \/ /\ m.term >= s.term
           /\ u.role # RoleLeader
           /\ handleAppendEntriesRequest(s, m) = Answer(down, TRUE)
    BY <1>1 DEF handleAppendEntriesRequest, Result, Panic, NodeState
  <1>7. ASSUME NEW x \in NodeState, NEW ok \in BOOLEAN
        PROVE  WellFormed(Answer(x, ok)) /\ Answer(x, ok).state = x
    <2> HIDE DEF u
    <2> QED
      BY <1>1, <1>2 DEF WellFormed, Msg, MessageType, AppendEntriesRes, NodeState
  <1>8. WellFormed([state |-> u, outbox |-> {}, panics |-> TRUE])
    BY <1>2 DEF WellFormed
  <1> HIDE DEF u, heard, down, Answer
  <1>9. CASE handleAppendEntriesRequest(s, m) = Answer(s, FALSE)
    BY <1>2, <1>7, <1>9
  <1>10. CASE handleAppendEntriesRequest(s, m) = [state |-> u, outbox |-> {}, panics |-> TRUE]
    BY <1>2, <1>8, <1>10
  <1>11. CASE handleAppendEntriesRequest(s, m) = Answer(heard, TRUE)
    BY <1>3, <1>7, <1>11
  <1>12. CASE /\ m.term >= s.term
              /\ u.role # RoleLeader
              /\ handleAppendEntriesRequest(s, m) = Answer(down, TRUE)
    BY <1>5, <1>7, <1>12
  <1> QED
    BY <1>6, <1>9, <1>10, <1>11, <1>12

LEMMA StepAdvances ==
    ASSUME NEW s \in NodeState, NEW m \in Message
    PROVE  /\ WellFormed(Step(s, m))
           /\ Advances(s, Step(s, m).state)
           /\ m.type = RequestVoteReq =>
                Step(s, m) = handleRequestVoteRequest(s, m)
  <1>1. \/ Step(s, m) = handleRequestVoteRequest(s, m)
        \/ Step(s, m) = handleRequestVoteResponse(s, m)
        \/ Step(s, m) = handleAppendEntriesRequest(s, m)
        \/ Step(s, m) = handleAppendEntriesResponse(s, m)
    BY DEF Step, Message, MessageType, AppendEntriesReq, AppendEntriesRes,
           RequestVoteReq, RequestVoteRes
  <1>2. m.type = RequestVoteReq => Step(s, m) = handleRequestVoteRequest(s, m)
    BY DEF Step, AppendEntriesReq, AppendEntriesRes, RequestVoteReq, RequestVoteRes
  <1> QED
    BY <1>1, <1>2, RequestVoteRequest, RequestVoteResponse,
       AppendEntriesRequest, AppendEntriesResponse

LEMMA TickPassesKeeps ==
    ASSUME NEW n \in Node, NEW s \in NodeState
    PROVE  /\ TickPasses(n, s) \in NodeState
           /\ TickPasses(n, s).role = s.role
           /\ TickPasses(n, s).term = s.term
           /\ TickPasses(n, s).votedFor = s.votedFor
           /\ TickPasses(n, s).votesReceived = s.votesReceived
  <1>1. \A x \in Nat, limit \in Nat : Saturated(x, limit) \in Nat
    BY DEF Saturated
  <1>2. /\ Saturated(s.sinceReceived, ElectionTimeout[n]) \in Nat
        /\ Saturated(s.sinceSent, HeartbeatInterval) \in Nat
    BY <1>1, TimingAssumption DEF NodeState
  <1> QED
    BY <1>2 DEF TickPasses, NodeState

(* A Tick either starts an election, in the next term and with the node's    *)
(* own vote, or leaves term and vote alone.                                  *)
LEMMA HandleTick ==
    ASSUME NEW n \in Node, NEW s \in NodeState
    PROVE  /\ WellFormed(handleTick(n, s))
           /\ Advances(s, handleTick(n, s).state)
           /\ StartsElection(n, s) =>
                /\ handleTick(n, s).state.term = s.term + 1
                /\ handleTick(n, s).state.votedFor = n
  <1> DEFINE c == becomeCandidate(n, [s EXCEPT !.sinceReceived = 0], s.term + 1)
             l == becomeLeader(c, c.term)
             out == {Msg(n, p, RequestVoteReq, TRUE, c.term) : p \in peerIDs(n)}
  <1>1. c.term = s.term + 1 /\ c.votedFor = n /\ c.role = RoleCandidate
    BY DEF becomeCandidate, NodeState
  <1>2. c \in NodeState
    <2> DEFINE r == [s EXCEPT !.sinceReceived = 0]
    <2>1. r \in NodeState
      BY DEF NodeState
    <2>2. s.term + 1 \in Nat
      BY DEF NodeState
    <2> HIDE DEF r
    <2>3. \A t \in Nat : becomeCandidate(n, r, t) \in NodeState
      BY <2>1 DEF becomeCandidate, NodeState, Role, RoleCandidate
    <2> QED
      BY <2>2, <2>3 DEF r
  <1>3. Advances(s, s)
    BY DEF Advances, NodeState
  <1> HIDE DEF c
  <1>4. Advances(s, c)
    BY <1>1, <1>2 DEF Advances, NodeState
  <1>5. l.term = c.term /\ l.votedFor = c.votedFor /\ l.role = RoleLeader
    BY <1>2 DEF becomeLeader, NodeState
  <1>6. l \in NodeState
    BY <1>2 DEF becomeLeader, NodeState, Role, RoleLeader
  <1> HIDE DEF l
  <1>7. out \subseteq Message
    <2>1. c.term \in Nat /\ RequestVoteReq \in MessageType
      BY <1>2 DEF NodeState, MessageType
    <2>2. \A p \in peerIDs(n) : Msg(n, p, RequestVoteReq, TRUE, c.term) \in Message
      BY <2>1, MsgFields DEF peerIDs
    <2> QED
      BY <2>2
  <1> HIDE DEF out
  <1>8. \/ /\ ~ StartsElection(n, s)
           /\ \/ handleTick(n, s) = broadcastHeartbeats(n, s)
              \/ handleTick(n, s) = [state |-> s, outbox |-> {}, panics |-> FALSE]
        \/ handleTick(n, s) = broadcastHeartbeats(n, l)
        \/ handleTick(n, s) = [state |-> c, outbox |-> out, panics |-> FALSE]
    BY DEF handleTick, StartsElection, Result, c, l, out
  <1>9. CASE handleTick(n, s) = broadcastHeartbeats(n, s) /\ ~ StartsElection(n, s)
    BY <1>9, BroadcastHeartbeats
  <1>10. CASE /\ handleTick(n, s) = [state |-> s, outbox |-> {}, panics |-> FALSE]
              /\ ~ StartsElection(n, s)
    BY <1>3, <1>10 DEF WellFormed
  <1>11. CASE handleTick(n, s) = broadcastHeartbeats(n, l)
    <2> DEFINE b == broadcastHeartbeats(n, l)
    <2>1. WellFormed(b) /\ b.state.term = l.term /\ b.state.votedFor = l.votedFor
      BY <1>6, BroadcastHeartbeats
    <2>2. Advances(s, b.state)
      BY <1>1, <1>5, <2>1 DEF Advances, NodeState
    <2> QED
      BY <1>1, <1>5, <1>11, <2>1, <2>2
  <1>12. CASE handleTick(n, s) = [state |-> c, outbox |-> out, panics |-> FALSE]
    BY <1>1, <1>2, <1>4, <1>7, <1>12 DEF WellFormed
  <1> QED
    BY <1>8, <1>9, <1>10, <1>11, <1>12

-----------------------------------------------------------------------------
(* What the handlers do to the votes that a node has counted.                *)

(* t has the votes of s, or is a follower.                                   *)
KeepsVotes(s, t, more) ==
    t.role # RoleFollower =>
        /\ s.role # RoleFollower
        /\ t.votesReceived = s.votesReceived + more

NoVoteMessages(outbox) ==
    \A x \in outbox : x.type \notin {RequestVoteReq, RequestVoteRes}

LEMMA HeartbeatsOnly ==
    ASSUME NEW n, NEW s
    PROVE  NoVoteMessages(broadcastHeartbeats(n, s).outbox)
  <1>1. broadcastHeartbeats(n, s).outbox =
          {Msg(n, p, AppendEntriesReq, TRUE, s.term) : p \in peerIDs(n)}
    BY DEF broadcastHeartbeats, Result
  <1>2. \A p : Msg(n, p, AppendEntriesReq, TRUE, s.term).type = AppendEntriesReq
    BY DEF Msg
  <1> QED
    BY <1>1, <1>2
    DEF NoVoteMessages, AppendEntriesReq, RequestVoteReq, RequestVoteRes

LEMMA KeepsVotesItself ==
    ASSUME NEW s \in NodeState
    PROVE  KeepsVotes(s, s, 0)
  BY DEF KeepsVotes, NodeState

LEMMA FollowerKeepsVotes ==
    ASSUME NEW s \in NodeState, NEW t, NEW u, NEW more
    PROVE  KeepsVotes(u, becomeFollower(s, t), more)
  <1>1. becomeFollower(s, t).role = RoleFollower
    BY DEF becomeFollower, NodeState
  <1> QED
    BY <1>1 DEF KeepsVotes

LEMMA VotesOfVoteRequest ==
    ASSUME NEW s \in NodeState, NEW m \in Message
    PROVE  /\ KeepsVotes(s, handleRequestVoteRequest(s, m).state, 0)
           /\ \A x \in handleRequestVoteRequest(s, m).outbox :
                /\ x.type = RequestVoteRes
                /\ x.ok => x.term = m.term
  <1> DEFINE u == IF m.term > s.term THEN becomeFollower(s, m.term) ELSE s
  <1>1. m.term \in Nat /\ s.term \in Nat
    BY DEF Message, NodeState
  <1>2. KeepsVotes(s, u, 0)
    BY KeepsVotesItself, FollowerKeepsVotes
  <1>3. m.term >= s.term => u.term = m.term
    BY <1>1, BecomeFollower
  <1>4. u \in NodeState
    BY <1>1, BecomeFollower
  <1> HIDE DEF u
  <1> DEFINE g == [u EXCEPT !.votedFor = m.from]
             Answer(x, ok) == [state |-> x,
                               outbox |-> {Msg(m.to, m.from, RequestVoteRes, ok, x.term)},
                               panics |-> FALSE]
  <1>5. g.role = u.role /\ g.votesReceived = u.votesReceived /\ g.term = u.term
    BY <1>4 DEF NodeState
  <1> HIDE DEF g
  <1>6. KeepsVotes(s, g, 0)
    BY <1>2, <1>5 DEF KeepsVotes
  <1>7. \/ handleRequestVoteRequest(s, m) = Answer(s, FALSE)
        \/ handleRequestVoteRequest(s, m) = Answer(u, FALSE)
        \/ /\ m.term >= s.term
           /\ handleRequestVoteRequest(s, m) = Answer(g, TRUE)
    BY <1>1 DEF handleRequestVoteRequest, Result, u, g
  <1>8. \A x, ok : /\ Answer(x, ok).state = x
                   /\ \A y \in Answer(x, ok).outbox :
                        y.type = RequestVoteRes /\ y.term = x.term
    BY DEF Msg
  <1>9. \A x : \A y \in Answer(x, FALSE).outbox : ~ y.ok
    BY DEF Msg
  <1> HIDE DEF Answer
  <1>10. CASE handleRequestVoteRequest(s, m) = Answer(s, FALSE)
    <2>1. \A y \in Answer(s, FALSE).outbox : ~ y.ok /\ y.type = RequestVoteRes
      BY <1>8, <1>9
    <2>2. KeepsVotes(s, s, 0)
      BY KeepsVotesItself
    <2> QED
      BY <1>8, <1>10, <2>1, <2>2
  <1>11. CASE handleRequestVoteRequest(s, m) = Answer(u, FALSE)
    <2>1. \A y \in Answer(u, FALSE).outbox : ~ y.ok /\ y.type = RequestVoteRes
      BY <1>8, <1>9
    <2> QED
      BY <1>2, <1>8, <1>11, <2>1
  <1>12. CASE m.term >= s.term /\ handleRequestVoteRequest(s, m) = Answer(g, TRUE)
    <2>1. \A y \in Answer(g, TRUE).outbox : y.term = m.term /\ y.type = RequestVoteRes
      BY <1>3, <1>5, <1>8, <1>12
    <2> QED
      BY <1>6, <1>8, <1>12, <2>1
  <1> QED
    BY <1>7, <1>10, <1>11, <1>12

LEMMA VotesOfVoteResponse ==
    ASSUME NEW s \in NodeState, NEW m \in Message
    PROVE  /\ CountsVote(s, m) =>
                KeepsVotes(s, handleRequestVoteResponse(s, m).state, 1)
           /\ ~ CountsVote(s, m) =>
                KeepsVotes(s, handleRequestVoteResponse(s, m).state, 0)
           /\ NoVoteMessages(handleRequestVoteResponse(s, m).outbox)
  <1> DEFINE voted == [s EXCEPT !.votesReceived = @ + 1]
             leader == becomeLeader(voted, s.term)
             heard == broadcastHeartbeats(m.to, leader)
  <1>1. /\ voted \in NodeState
        /\ voted.role = s.role
        /\ voted.votesReceived = s.votesReceived + 1
    BY DEF NodeState
  <1> HIDE DEF voted
  <1>2. /\ leader \in NodeState
        /\ leader.votesReceived = voted.votesReceived
    BY <1>1 DEF becomeLeader, NodeState, Role, RoleLeader
  <1> HIDE DEF leader
  <1>3. heard.state.votesReceived = leader.votesReceived
    BY <1>2, BroadcastHeartbeats DEF Message
  <1>4. \/ /\ m.term > s.term
           /\ handleRequestVoteResponse(s, m) =
                [state |-> becomeFollower(s, m.term), outbox |-> {}, panics |-> FALSE]
        \/ /\ ~ CountsVote(s, m)
           /\ handleRequestVoteResponse(s, m) =
                [state |-> s, outbox |-> {}, panics |-> FALSE]
        \/ /\ CountsVote(s, m)
           /\ \/ handleRequestVoteResponse(s, m) = heard
              \/ handleRequestVoteResponse(s, m) =
                   [state |-> voted, outbox |-> {}, panics |-> FALSE]
    BY DEF handleRequestVoteResponse, Result, voted, leader
  <1>5. CountsVote(s, m) => s.role # RoleFollower
    BY DEF CountsVote, RoleCandidate, RoleFollower
  <1> HIDE DEF heard
  <1>6. CASE /\ m.term > s.term
             /\ handleRequestVoteResponse(s, m) =
                  [state |-> becomeFollower(s, m.term), outbox |-> {}, panics |-> FALSE]
    BY <1>6, FollowerKeepsVotes DEF NoVoteMessages
  <1>7. CASE /\ ~ CountsVote(s, m)
             /\ handleRequestVoteResponse(s, m) =
                  [state |-> s, outbox |-> {}, panics |-> FALSE]
    BY <1>7, KeepsVotesItself DEF NoVoteMessages
  <1>8. CASE CountsVote(s, m) /\ handleRequestVoteResponse(s, m) = heard
    <2>1. NoVoteMessages(heard.outbox)
      BY HeartbeatsOnly DEF heard
    <2> QED
      BY <1>1, <1>2, <1>3, <1>5, <1>8, <2>1 DEF KeepsVotes
  <1>9. CASE /\ CountsVote(s, m)
             /\ handleRequestVoteResponse(s, m) =
                  [state |-> voted, outbox |-> {}, panics |-> FALSE]
    BY <1>1, <1>5, <1>9 DEF KeepsVotes, NoVoteMessages
  <1> QED
    BY <1>4, <1>6, <1>7, <1>8, <1>9

LEMMA VotesOfAppendEntries ==
    ASSUME NEW s \in NodeState, NEW m \in Message
    PROVE  /\ KeepsVotes(s, handleAppendEntriesRequest(s, m).state, 0)
           /\ NoVoteMessages(handleAppendEntriesRequest(s, m).outbox)
           /\ KeepsVotes(s, handleAppendEntriesResponse(s, m).state, 0)
           /\ NoVoteMessages(handleAppendEntriesResponse(s, m).outbox)
  <1> DEFINE u == IF m.term > s.term THEN becomeFollower(s, m.term) ELSE s
  <1>1. m.term \in Nat /\ s.term \in Nat
    BY DEF Message, NodeState
  <1>2. KeepsVotes(s, u, 0) /\ u \in NodeState
    BY <1>1, KeepsVotesItself, FollowerKeepsVotes, BecomeFollower
  <1> HIDE DEF u
  <1> DEFINE heard == [u EXCEPT !.sinceReceived = 0]
             down == becomeFollower(heard, m.term)
             out(ok) == {Msg(m.to, m.from, AppendEntriesRes, ok, u.term)}
  <1>3. /\ heard \in NodeState
        /\ heard.role = u.role
        /\ heard.votesReceived = u.votesReceived
    BY <1>2 DEF NodeState
  <1> HIDE DEF heard
  <1>4. KeepsVotes(s, heard, 0) /\ KeepsVotes(s, down, 0)
    BY <1>2, <1>3, FollowerKeepsVotes DEF KeepsVotes
  <1>5. \A ok : NoVoteMessages(out(ok))
    BY DEF NoVoteMessages, Msg, AppendEntriesRes, RequestVoteReq, RequestVoteRes
  <1> HIDE DEF down, out
  <1>6. /\ handleAppendEntriesRequest(s, m).state \in {s, u, heard, down}
        /\ \/ handleAppendEntriesRequest(s, m).outbox = {}
           \/ \E ok : handleAppendEntriesRequest(s, m).outbox = out(ok)
    BY DEF handleAppendEntriesRequest, Result, Panic, u, heard, down, out
  <1>7. NoVoteMessages({})
    BY DEF NoVoteMessages
  <1>8. /\ handleAppendEntriesResponse(s, m).state \in {s, becomeFollower(s, m.term)}
        /\ handleAppendEntriesResponse(s, m).outbox = {}
    BY DEF handleAppendEntriesResponse, Result
  <1>9. /\ KeepsVotes(s, handleAppendEntriesRequest(s, m).state, 0)
        /\ NoVoteMessages(handleAppendEntriesRequest(s, m).outbox)
    BY <1>2, <1>4, <1>5, <1>6, <1>7, KeepsVotesItself
  <1>10. /\ KeepsVotes(s, handleAppendEntriesResponse(s, m).state, 0)
         /\ NoVoteMessages(handleAppendEntriesResponse(s, m).outbox)
    BY <1>7, <1>8, KeepsVotesItself, FollowerKeepsVotes
  <1> QED
    BY <1>9, <1>10

LEMMA VotesOfTick ==
    ASSUME NEW n \in Node, NEW s \in NodeState
    PROVE  /\ ~ StartsElection(n, s) =>
                /\ handleTick(n, s).state.role = s.role
                /\ handleTick(n, s).state.term = s.term
                /\ handleTick(n, s).state.votesReceived = s.votesReceived
                /\ NoVoteMessages(handleTick(n, s).outbox)
           /\ StartsElection(n, s) =>
                /\ handleTick(n, s).state.role # RoleFollower
                /\ handleTick(n, s).state.term = s.term + 1
                /\ handleTick(n, s).state.votesReceived = 1
                /\ \A x \in handleTick(n, s).outbox :
                     /\ x.type # RequestVoteRes
                     /\ x.type = RequestVoteReq =>
                          /\ x.ok
                          /\ x.from = n
                          /\ x.to \in Node \ {n}
                          /\ x.term = s.term + 1
  <1> DEFINE c == becomeCandidate(n, [s EXCEPT !.sinceReceived = 0], s.term + 1)
             l == becomeLeader(c, c.term)
             out == {Msg(n, p, RequestVoteReq, TRUE, c.term) : p \in peerIDs(n)}
  <1>1. /\ c.term = s.term + 1
        /\ c.role = RoleCandidate
        /\ c.votesReceived = 1
    BY DEF becomeCandidate, NodeState
  <1>2. c \in NodeState
    <2> DEFINE r == [s EXCEPT !.sinceReceived = 0]
    <2>1. r \in NodeState
      BY DEF NodeState
    <2>2. s.term + 1 \in Nat
      BY DEF NodeState
    <2> HIDE DEF r
    <2>3. \A t \in Nat : becomeCandidate(n, r, t) \in NodeState
      BY <2>1 DEF becomeCandidate, NodeState, Role, RoleCandidate
    <2> QED
      BY <2>2, <2>3 DEF r
  <1> HIDE DEF c
  <1>3. /\ l \in NodeState
        /\ l.term = c.term
        /\ l.role = RoleLeader
        /\ l.votesReceived = c.votesReceived
    BY <1>2 DEF becomeLeader, NodeState, Role, RoleLeader
  <1> HIDE DEF l
  <1>4. \A x \in out : /\ x.type = RequestVoteReq
                       /\ x.ok
                       /\ x.from = n
                       /\ x.to \in Node \ {n}
                       /\ x.term = c.term
    BY DEF Msg, peerIDs
  <1> HIDE DEF out
  <1>5. \/ /\ ~ StartsElection(n, s)
           /\ \/ handleTick(n, s) = broadcastHeartbeats(n, s)
              \/ handleTick(n, s) = [state |-> s, outbox |-> {}, panics |-> FALSE]
        \/ /\ StartsElection(n, s)
           /\ \/ handleTick(n, s) = broadcastHeartbeats(n, l)
              \/ handleTick(n, s) = [state |-> c, outbox |-> out, panics |-> FALSE]
    BY DEF handleTick, StartsElection, Result, c, l, out
  <1>6. CASE handleTick(n, s) = broadcastHeartbeats(n, s) /\ ~ StartsElection(n, s)
    BY <1>6, BroadcastHeartbeats, HeartbeatsOnly
  <1>7. CASE /\ handleTick(n, s) = [state |-> s, outbox |-> {}, panics |-> FALSE]
             /\ ~ StartsElection(n, s)
    BY <1>7 DEF NoVoteMessages
  <1>8. CASE handleTick(n, s) = broadcastHeartbeats(n, l) /\ StartsElection(n, s)
    <2> DEFINE b == broadcastHeartbeats(n, l)
    <2>1. /\ b.state.term = s.term + 1
          /\ b.state.role = RoleLeader
          /\ b.state.votesReceived = 1
      BY <1>1, <1>3, BroadcastHeartbeats
    <2>2. \A x \in b.outbox : x.type \notin {RequestVoteReq, RequestVoteRes}
      BY HeartbeatsOnly DEF NoVoteMessages
    <2> HIDE DEF b
    <2>3. RoleLeader # RoleFollower /\ handleTick(n, s) = b
      BY <1>8 DEF RoleLeader, RoleFollower, b
    <2> QED
      BY <1>8, <2>1, <2>2, <2>3
  <1>9. CASE /\ handleTick(n, s) = [state |-> c, outbox |-> out, panics |-> FALSE]
             /\ StartsElection(n, s)
    <2>1. RoleCandidate # RoleFollower /\ RequestVoteReq # RequestVoteRes
      BY DEF RoleCandidate, RoleFollower, RequestVoteReq, RequestVoteRes
    <2> QED
      BY <1>1, <1>4, <1>9, <2>1
  <1> QED
    BY <1>5, <1>6, <1>7, <1>8, <1>9

-----------------------------------------------------------------------------
(* The messages of an election.                                              *)

IsRequest(m) == m.type = RequestVoteReq

IsGrant(m) == m.type = RequestVoteRes /\ m.ok

LEMMA SameMessage ==
    ASSUME NEW m \in Message, NEW w \in Message, m.from = w.from, m.to = w.to,
           m.term = w.term, m.type = w.type, m.ok, w.ok
    PROVE  m = w
  <1>1. m.ok = TRUE /\ w.ok = TRUE
    BY DEF Message
  <1> QED
    BY <1>1 DEF Message

-----------------------------------------------------------------------------
(* A leader holds the votes of an election that it won.                      *)

LeaderWon(n, s) == s.role = RoleLeader => WinsElection(n, s.votesReceived)

LEMMA FollowerWon ==
    ASSUME NEW n, NEW s \in NodeState, NEW t
    PROVE  LeaderWon(n, becomeFollower(s, t))
  <1>1. becomeFollower(s, t).role = RoleFollower
    BY DEF becomeFollower, NodeState
  <1> QED
    BY <1>1 DEF LeaderWon, RoleFollower, RoleLeader

LEMMA StepWon ==
    ASSUME NEW s \in NodeState, NEW m \in Message, LeaderWon(m.to, s)
    PROVE  LeaderWon(m.to, Step(s, m).state)
  <1>1. m.to \in Node /\ m.term \in Nat /\ m.from \in Node
    BY DEF Message
  <1> DEFINE u == IF m.term > s.term THEN becomeFollower(s, m.term) ELSE s
             granted == [u EXCEPT !.votedFor = m.from]
             heard == [u EXCEPT !.sinceReceived = 0]
             voted == [s EXCEPT !.votesReceived = @ + 1]
  <1>2. u \in NodeState /\ LeaderWon(m.to, u)
    <2>1. s.term \in Nat
      BY DEF NodeState
    <2>2. m.term > s.term => becomeFollower(s, m.term) \in NodeState
      BY <1>1, <2>1, BecomeFollower
    <2> QED
      BY <2>2, FollowerWon
  <1>3. /\ voted \in NodeState
        /\ voted.role = s.role
        /\ voted.votesReceived = s.votesReceived + 1
    BY DEF NodeState
  <1> HIDE DEF u, voted
  <1>4. /\ LeaderWon(m.to, granted)
        /\ LeaderWon(m.to, heard)
        /\ heard \in NodeState
    BY <1>1, <1>2 DEF LeaderWon, NodeState
  <1> HIDE DEF granted, heard
  <1>5. LeaderWon(m.to, handleRequestVoteRequest(s, m).state)
    <2>1. handleRequestVoteRequest(s, m).state \in {s, u, granted}
      BY DEF handleRequestVoteRequest, Result, u, granted
    <2> QED
      BY <1>2, <1>4, <2>1
  <1>6. LeaderWon(m.to, handleAppendEntriesRequest(s, m).state)
    <2>1. handleAppendEntriesRequest(s, m).state
            \in {s, u, heard, becomeFollower(heard, m.term)}
      BY DEF handleAppendEntriesRequest, Result, Panic, u, heard
    <2> QED
      BY <1>2, <1>4, <2>1, FollowerWon
  <1>7. LeaderWon(m.to, handleAppendEntriesResponse(s, m).state)
    <2>1. handleAppendEntriesResponse(s, m).state \in {s, becomeFollower(s, m.term)}
      BY DEF handleAppendEntriesResponse, Result
    <2> QED
      BY <2>1, FollowerWon
  <1>8. LeaderWon(m.to, handleRequestVoteResponse(s, m).state)
    <2> DEFINE leader == becomeLeader(voted, s.term)
               result == handleRequestVoteResponse(s, m)
    <2>1. \/ result.state \in {s, becomeFollower(s, m.term)}
          \/ CountsVote(s, m) /\ result.state = voted
          \/ /\ WinsElection(m.to, voted.votesReceived)
             /\ result = broadcastHeartbeats(m.to, leader)
      BY DEF handleRequestVoteResponse, Result, voted
    <2>2. leader \in NodeState /\ leader.votesReceived = voted.votesReceived
      BY <1>3 DEF becomeLeader, NodeState, Role, RoleLeader
    <2> HIDE DEF leader
    <2>3. broadcastHeartbeats(m.to, leader).state.votesReceived = voted.votesReceived
      BY <1>1, <2>2, BroadcastHeartbeats
    <2> HIDE DEF result
    <2>4. CASE result.state \in {s, becomeFollower(s, m.term)}
      BY <2>4, FollowerWon DEF result
    <2>5. CASE CountsVote(s, m) /\ result.state = voted
      BY <1>3, <2>5 DEF CountsVote, LeaderWon, RoleCandidate, RoleLeader, result
    <2>6. CASE /\ WinsElection(m.to, voted.votesReceived)
               /\ result = broadcastHeartbeats(m.to, leader)
      BY <2>3, <2>6 DEF LeaderWon, result
    <2> QED
      BY <2>1, <2>4, <2>5, <2>6
  <1> QED
    BY <1>5, <1>6, <1>7, <1>8
       DEF Step, Message, MessageType, AppendEntriesReq, AppendEntriesRes,
           RequestVoteReq, RequestVoteRes

LEMMA TickWon ==
    ASSUME NEW n \in Node, NEW s \in NodeState, LeaderWon(n, s)
    PROVE  LeaderWon(n, handleTick(n, s).state)
  <1> DEFINE c == becomeCandidate(n, [s EXCEPT !.sinceReceived = 0], s.term + 1)
             l == becomeLeader(c, c.term)
  <1>1. CASE ~ StartsElection(n, s)
    BY <1>1, VotesOfTick DEF LeaderWon
  <1>2. CASE StartsElection(n, s) /\ peerIDs(n) # {}
    <2>1. handleTick(n, s).state = c
      BY <1>2 DEF handleTick, StartsElection, Result
    <2>2. c.role = RoleCandidate
      BY DEF becomeCandidate, NodeState
    <2> QED
      BY <2>1, <2>2 DEF LeaderWon, RoleCandidate, RoleLeader
  <1>3. CASE StartsElection(n, s) /\ peerIDs(n) = {}
    <2>1. handleTick(n, s).state.votesReceived = 1
      BY <1>3, VotesOfTick
    <2>2. Cardinality(peerIDs(n)) = 0
      BY <1>3, FS_EmptySet
    <2> QED
      BY <2>1, <2>2 DEF LeaderWon, WinsElection
  <1> QED
    BY <1>1, <1>2, <1>3

-----------------------------------------------------------------------------
(* What a step tells of roles, votes and messages all at once.               *)

LEMMA HeartbeatFields ==
    ASSUME NEW n \in Node, NEW s \in NodeState,
           NEW x \in broadcastHeartbeats(n, s).outbox
    PROVE  /\ x.type = AppendEntriesReq
           /\ x.from = n
           /\ x.to \in Node \ {n}
           /\ x.term = s.term
  <1>1. x \in {Msg(n, p, AppendEntriesReq, TRUE, s.term) : p \in peerIDs(n)}
    BY DEF broadcastHeartbeats, Result
  <1> QED
    BY <1>1 DEF Msg, peerIDs

(* The message is a vote that s counts.                                      *)
IsCounted(s, m) == m.type = RequestVoteRes /\ CountsVote(s, m)

(* A candidate was one before, in the same term.                             *)
StaysCandidate(s, m, t) ==
    t.role = RoleCandidate =>
        /\ s.role = RoleCandidate
        /\ t.term = s.term
        /\ t.votesReceived = s.votesReceived + IF IsCounted(s, m) THEN 1 ELSE 0

(* A leader was one before in the same term, or has won its election now.    *)
LeadsBy(s, m, t) ==
    t.role = RoleLeader =>
        /\ t.term = s.term
        /\ \/ s.role = RoleLeader
           \/ IsCounted(s, m) /\ WinsElection(m.to, s.votesReceived + 1)

(* A step answers a request with at most one vote, and only a leader sends   *)
(* heartbeats.                                                               *)
SendsFor(m, t, out) ==
    \A x \in out :
        /\ ~ IsRequest(x)
        /\ IsGrant(x) =>
             /\ IsRequest(m)
             /\ x.from = m.to
             /\ x.to = m.from
             /\ x.term = m.term
             /\ t.votedFor = m.from
             /\ t.term = m.term
        /\ x.type = AppendEntriesReq =>
             /\ x.from = m.to
             /\ x.to \in Node \ {m.to}
             /\ x.term = t.term
             /\ t.role = RoleLeader

LEMMA FollowerOutcome ==
    ASSUME NEW s \in NodeState, NEW m, NEW t
    PROVE  /\ StaysCandidate(s, m, becomeFollower(s, t))
           /\ LeadsBy(s, m, becomeFollower(s, t))
  <1>1. becomeFollower(s, t).role = RoleFollower
    BY DEF becomeFollower, NodeState
  <1> QED
    BY <1>1 DEF StaysCandidate, LeadsBy, RoleFollower, RoleLeader, RoleCandidate

LEMMA SameOutcome ==
    ASSUME NEW s \in NodeState, NEW m, ~ IsCounted(s, m), NEW t,
           t.role = s.role, t.term = s.term, t.votesReceived = s.votesReceived
    PROVE  StaysCandidate(s, m, t) /\ LeadsBy(s, m, t)
  <1>1. s.votesReceived \in Nat
    BY DEF NodeState
  <1> QED
    BY <1>1 DEF StaysCandidate, LeadsBy

LEMMA VoteRequestOutcome ==
    ASSUME NEW s \in NodeState, NEW m \in Message, m.type = RequestVoteReq,
           NEW r, r = handleRequestVoteRequest(s, m)
    PROVE  /\ StaysCandidate(s, m, r.state)
           /\ LeadsBy(s, m, r.state)
           /\ SendsFor(m, r.state, r.outbox)
           /\ ~ r.panics
  <1> DEFINE u == IF m.term > s.term THEN becomeFollower(s, m.term) ELSE s
             g == [u EXCEPT !.votedFor = m.from]
  <1>1. ~ IsCounted(s, m) /\ m.term \in Nat /\ s.term \in Nat
    BY DEF IsCounted, RequestVoteReq, RequestVoteRes, Message, NodeState
  <1>2. u \in NodeState
    BY <1>1, BecomeFollower
  <1>3. StaysCandidate(s, m, u) /\ LeadsBy(s, m, u)
    BY <1>1, FollowerOutcome, SameOutcome
  <1> HIDE DEF u
  <1>4. g.role = u.role /\ g.term = u.term /\ g.votesReceived = u.votesReceived
    BY <1>2 DEF NodeState
  <1>5. StaysCandidate(s, m, g) /\ LeadsBy(s, m, g)
    BY <1>3, <1>4 DEF StaysCandidate, LeadsBy
  <1>6. StaysCandidate(s, m, s) /\ LeadsBy(s, m, s)
    BY <1>1, SameOutcome
  <1>7. r.state \in {s, u, g} /\ ~ r.panics
    BY DEF handleRequestVoteRequest, Result, u
  <1>8. SendsFor(m, r.state, r.outbox)
    <2>1. \A x \in r.outbox :
             /\ x.type = RequestVoteRes
             /\ x.from = m.to
             /\ x.to = m.from
             /\ x.term = r.state.term
             /\ x.ok => r.state.votedFor = m.from /\ x.term = m.term
      BY RequestVoteRequest, VotesOfVoteRequest
    <2> QED
      BY <2>1 DEF SendsFor, IsRequest, IsGrant, RequestVoteReq, RequestVoteRes,
                  AppendEntriesReq
  <1> QED
    BY <1>3, <1>5, <1>6, <1>7, <1>8

LEMMA VoteResponseOutcome ==
    ASSUME NEW s \in NodeState, NEW m \in Message, m.type = RequestVoteRes,
           NEW r, r = handleRequestVoteResponse(s, m)
    PROVE  /\ StaysCandidate(s, m, r.state)
           /\ LeadsBy(s, m, r.state)
           /\ SendsFor(m, r.state, r.outbox)
           /\ ~ r.panics
  <1> DEFINE voted == [s EXCEPT !.votesReceived = @ + 1]
             leader == becomeLeader(voted, s.term)
             won == broadcastHeartbeats(m.to, leader)
  <1>1. /\ voted \in NodeState
        /\ voted.role = s.role
        /\ voted.term = s.term
        /\ voted.votesReceived = s.votesReceived + 1
        /\ m.to \in Node
    BY DEF NodeState, Message
  <1>2. \/ r = [state |-> becomeFollower(s, m.term), outbox |-> {}, panics |-> FALSE]
        \/ /\ ~ CountsVote(s, m)
           /\ r = [state |-> s, outbox |-> {}, panics |-> FALSE]
        \/ CountsVote(s, m) /\ r = [state |-> voted, outbox |-> {}, panics |-> FALSE]
        \/ CountsVote(s, m) /\ WinsElection(m.to, voted.votesReceived) /\ r = won
    BY DEF handleRequestVoteResponse, Result
  <1>3. SendsFor(m, r.state, {})
    BY DEF SendsFor
  <1> HIDE DEF voted
  <1>4. CASE r = [state |-> becomeFollower(s, m.term), outbox |-> {}, panics |-> FALSE]
    BY <1>3, <1>4, FollowerOutcome
  <1>5. CASE ~ CountsVote(s, m) /\ r = [state |-> s, outbox |-> {}, panics |-> FALSE]
    BY <1>3, <1>5, SameOutcome DEF IsCounted
  <1>6. CASE CountsVote(s, m) /\ r = [state |-> voted, outbox |-> {}, panics |-> FALSE]
    <2>1. s.role = RoleCandidate /\ IsCounted(s, m)
      BY <1>6 DEF CountsVote, IsCounted
    <2> QED
      BY <1>1, <1>3, <1>6, <2>1 DEF StaysCandidate, LeadsBy, RoleCandidate, RoleLeader
  <1>7. CASE CountsVote(s, m) /\ WinsElection(m.to, voted.votesReceived) /\ r = won
    <2>1. leader \in NodeState /\ leader.role = RoleLeader /\ leader.term = s.term
      BY <1>1 DEF becomeLeader, NodeState, Role, RoleLeader
    <2> HIDE DEF leader
    <2>2. r.state.role = RoleLeader /\ r.state.term = s.term
      BY <1>1, <1>7, <2>1, BroadcastHeartbeats
    <2>3. \A x \in r.outbox : /\ x.type = AppendEntriesReq
                              /\ x.from = m.to
                              /\ x.to \in Node \ {m.to}
                              /\ x.term = s.term
      BY <1>1, <1>7, <2>1, HeartbeatFields
    <2>4. SendsFor(m, r.state, r.outbox)
      BY <2>2, <2>3 DEF SendsFor, IsRequest, IsGrant, RequestVoteReq, RequestVoteRes,
                        AppendEntriesReq
    <2>5. ~ r.panics
      BY <1>7 DEF broadcastHeartbeats, Result
    <2>6. IsCounted(s, m) /\ WinsElection(m.to, s.votesReceived + 1)
      BY <1>1, <1>7 DEF IsCounted
    <2> QED
      BY <2>2, <2>4, <2>5, <2>6
         DEF StaysCandidate, LeadsBy, RoleCandidate, RoleLeader
  <1> QED
    BY <1>2, <1>4, <1>5, <1>6, <1>7

LEMMA AppendEntriesOutcome ==
    ASSUME NEW s \in NodeState, NEW m \in Message, m.type = AppendEntriesReq,
           NEW r, r = handleAppendEntriesRequest(s, m)
    PROVE  /\ StaysCandidate(s, m, r.state)
           /\ LeadsBy(s, m, r.state)
           /\ SendsFor(m, r.state, r.outbox)
           /\ r.panics => s.role = RoleLeader /\ m.term = s.term
  <1> DEFINE u == IF m.term > s.term THEN becomeFollower(s, m.term) ELSE s
             heard == [u EXCEPT !.sinceReceived = 0]
             down == becomeFollower(heard, m.term)
  <1>1. ~ IsCounted(s, m) /\ m.term \in Nat /\ s.term \in Nat
    BY DEF IsCounted, AppendEntriesReq, RequestVoteRes, Message, NodeState
  <1>2. u \in NodeState
    BY <1>1, BecomeFollower
  <1>3. StaysCandidate(s, m, u) /\ LeadsBy(s, m, u)
    BY <1>1, FollowerOutcome, SameOutcome
  <1>4. u.role = RoleLeader /\ ~ (m.term < s.term) => s.role = RoleLeader /\ m.term = s.term
    BY <1>1, BecomeFollower DEF RoleLeader, RoleFollower
  <1> HIDE DEF u
  <1>5. /\ heard \in NodeState
        /\ heard.role = u.role
        /\ heard.term = u.term
        /\ heard.votesReceived = u.votesReceived
    BY <1>2 DEF NodeState
  <1>6. StaysCandidate(s, m, heard) /\ LeadsBy(s, m, heard)
    BY <1>3, <1>5 DEF StaysCandidate, LeadsBy
  <1> HIDE DEF heard
  <1>7. down.role = RoleFollower
    BY <1>5 DEF becomeFollower, NodeState
  <1>8. StaysCandidate(s, m, down) /\ LeadsBy(s, m, down)
    BY <1>7 DEF StaysCandidate, LeadsBy, RoleFollower, RoleLeader, RoleCandidate
  <1>9. StaysCandidate(s, m, s) /\ LeadsBy(s, m, s)
    BY <1>1, SameOutcome
  <1> HIDE DEF down
  <1>10. /\ r.state \in {s, u, heard, down}
         /\ r.panics => u.role = RoleLeader /\ ~ (m.term < s.term)
    BY DEF handleAppendEntriesRequest, Result, Panic, u, heard, down
  <1>11. \A x \in r.outbox : x.type = AppendEntriesRes
    BY DEF handleAppendEntriesRequest, Result, Panic, Msg
  <1>12. SendsFor(m, r.state, r.outbox)
    BY <1>11 DEF SendsFor, IsRequest, IsGrant, RequestVoteReq, RequestVoteRes,
                 AppendEntriesReq, AppendEntriesRes
  <1> QED
    BY <1>3, <1>4, <1>6, <1>8, <1>9, <1>10, <1>12

(* Only a heartbeat of the leader's own term makes a handler panic.          *)
LEMMA StepOutcome ==
    ASSUME NEW s \in NodeState, NEW m \in Message, NEW r, r = Step(s, m)
    PROVE  /\ StaysCandidate(s, m, r.state)
           /\ LeadsBy(s, m, r.state)
           /\ SendsFor(m, r.state, r.outbox)
           /\ r.panics => /\ m.type = AppendEntriesReq
                          /\ s.role = RoleLeader
                          /\ m.term = s.term
  <1>1. CASE m.type = RequestVoteReq
    <2>1. r = handleRequestVoteRequest(s, m)
      BY <1>1, StepAdvances
    <2> QED
      BY <1>1, <2>1, VoteRequestOutcome
  <1>2. CASE m.type = RequestVoteRes
    <2>1. r = handleRequestVoteResponse(s, m)
      BY <1>2 DEF Step, AppendEntriesReq, AppendEntriesRes, RequestVoteReq, RequestVoteRes
    <2> QED
      BY <1>2, <2>1, VoteResponseOutcome
  <1>3. CASE m.type = AppendEntriesReq
    <2>1. r = handleAppendEntriesRequest(s, m)
      BY <1>3 DEF Step, AppendEntriesReq, AppendEntriesRes, RequestVoteReq, RequestVoteRes
    <2> QED
      BY <1>3, <2>1, AppendEntriesOutcome
  <1>4. CASE m.type = AppendEntriesRes
    <2>1. r = handleAppendEntriesResponse(s, m)
      BY <1>4 DEF Step, AppendEntriesReq, AppendEntriesRes, RequestVoteReq, RequestVoteRes
    <2>2. /\ r.state \in {s, becomeFollower(s, m.term)}
          /\ r.outbox = {}
          /\ ~ r.panics
      BY <2>1 DEF handleAppendEntriesResponse, Result
    <2>3. ~ IsCounted(s, m)
      BY <1>4 DEF IsCounted, AppendEntriesRes, RequestVoteRes
    <2> QED
      BY <2>2, <2>3, FollowerOutcome, SameOutcome DEF SendsFor
  <1> QED
    BY <1>1, <1>2, <1>3, <1>4 DEF Message, MessageType

(* A Tick that starts an election makes a candidate or, alone, a leader.     *)
LEMMA TickOutcome ==
    ASSUME NEW n \in Node, NEW s \in NodeState, NEW r, r = handleTick(n, s)
    PROVE  /\ StartsElection(n, s) /\ r.state.role = RoleLeader => WinsElection(n, 1)
           /\ \A x \in r.outbox : x.type = AppendEntriesReq =>
                /\ x.from = n
                /\ x.to \in Node \ {n}
                /\ x.term = r.state.term
                /\ r.state.role = RoleLeader
  <1> DEFINE c == becomeCandidate(n, [s EXCEPT !.sinceReceived = 0], s.term + 1)
             l == becomeLeader(c, c.term)
             out == {Msg(n, p, RequestVoteReq, TRUE, c.term) : p \in peerIDs(n)}
  <1>1. StartsElection(n, s) /\ r.state.role = RoleLeader => WinsElection(n, 1)
    <2>1. StartsElection(n, s) => LeaderWon(n, s)
      BY DEF StartsElection, LeaderWon
    <2>2. StartsElection(n, s) => r.state.votesReceived = 1
      BY VotesOfTick
    <2> QED
      BY <2>1, <2>2, TickWon DEF LeaderWon
  <1>2. /\ c \in NodeState
        /\ l \in NodeState
        /\ l.role = RoleLeader
    <2> DEFINE d == [s EXCEPT !.sinceReceived = 0]
    <2>1. d \in NodeState /\ s.term + 1 \in Nat
      BY DEF NodeState
    <2> HIDE DEF d
    <2>2. \A t \in Nat : becomeCandidate(n, d, t) \in NodeState
      BY <2>1 DEF becomeCandidate, NodeState, Role, RoleCandidate
    <2>3. c \in NodeState
      BY <2>1, <2>2 DEF d
    <2> HIDE DEF c
    <2> QED
      BY <2>3 DEF becomeLeader, NodeState, Role, RoleLeader
  <1>3. \A x \in out : x.type = RequestVoteReq
    BY DEF Msg
  <1> HIDE DEF c, l, out
  <1>4. \/ s.role = RoleLeader /\ r = broadcastHeartbeats(n, s)
        \/ r = broadcastHeartbeats(n, l)
        \/ r.outbox = {}
        \/ r.outbox = out
    BY DEF handleTick, Result, c, l, out
  <1>5. ASSUME NEW t \in NodeState, t.role = RoleLeader, r = broadcastHeartbeats(n, t),
               NEW x \in r.outbox
        PROVE  /\ x.from = n
               /\ x.to \in Node \ {n}
               /\ x.term = r.state.term
               /\ r.state.role = RoleLeader
    BY <1>5, HeartbeatFields, BroadcastHeartbeats
  <1>6. ASSUME NEW x \in r.outbox, x.type = AppendEntriesReq
        PROVE  /\ x.from = n
               /\ x.to \in Node \ {n}
               /\ x.term = r.state.term
               /\ r.state.role = RoleLeader
    BY <1>2, <1>3, <1>4, <1>5, <1>6 DEF AppendEntriesReq, RequestVoteReq
  <1> QED
    BY <1>1, <1>6

=============================================================================
