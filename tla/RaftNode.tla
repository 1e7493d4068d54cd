------------------------------ MODULE RaftNode ------------------------------
(***************************************************************************)
(* One Raft node (internal/raft/node.go): a deterministic state machine    *)
(* that is stepped with a Tick or with a message and leaves the messages   *)
(* it wants sent in its outbox.  Every handler is an operator from the     *)
(* node's state (and the message) to a Result: the new state, the outbox   *)
(* and whether the handler panicked.                                       *)
(*                                                                         *)
(* Time.  The code stores the ticks at which a heartbeat was last received *)
(* and last sent, and only ever reads their distance to the current tick   *)
(* and compares it with a timeout.  A node state therefore holds the two   *)
(* distances, saturated at the timeout they are compared with; assigning   *)
(* the current tick in the code is setting the distance to 0 here.         *)
(***************************************************************************)
EXTENDS Integers, FiniteSets

CONSTANTS
    Node,               \* the node IDs of the cluster
    NoVote,             \* votedFor = 0 in the code: no vote cast in this term
    ElectionTimeout,    \* electionTimeout of each node, in ticks
    HeartbeatInterval   \* heartbeatInterval, in ticks

ASSUME NodeAssumption ==
    /\ IsFiniteSet(Node)
    /\ Node # {}
    /\ NoVote \notin Node

ASSUME TimingAssumption ==
    /\ ElectionTimeout \in [Node -> Nat]
    /\ HeartbeatInterval \in Nat

-----------------------------------------------------------------------------

RoleFollower  == "Follower"
RoleCandidate == "Candidate"
RoleLeader    == "Leader"
Role          == {RoleFollower, RoleCandidate, RoleLeader}

AppendEntriesReq == "AppendEntriesReq"
AppendEntriesRes == "AppendEntriesRes"
RequestVoteReq   == "RequestVoteReq"
RequestVoteRes   == "RequestVoteRes"

MessageType ==
    {AppendEntriesReq, AppendEntriesRes, RequestVoteReq, RequestVoteRes}

Message ==
    [from : Node, to : Node, type : MessageType, ok : BOOLEAN, term : Nat]

Msg(from, to, type, ok, term) ==
    [from |-> from, to |-> to, type |-> type, ok |-> ok, term |-> term]

NodeState ==
    [role : Role,
     term : Nat,
     votedFor : Node \cup {NoVote},
     votesReceived : Nat,
     sinceReceived : Nat,   \* tick - lastHeartbeatReceivedAt, saturated
     sinceSent : Nat]       \* tick - lastHeartbeatSentAt, saturated

(* Mutant: the first election is for term 0.                                 *)
NewNode_TermBelowZero ==
    [role |-> RoleFollower, term |-> -1, votedFor |-> NoVote,
     votesReceived |-> 0, sinceReceived |-> 0, sinceSent |-> 0]

NewNode ==
    [role |-> RoleFollower, term |-> 0, votedFor |-> NoVote,
     votesReceived |-> 0, sinceReceived |-> 0, sinceSent |-> 0]

peerIDs(n) == Node \ {n}

(* What a handler leaves behind: the node's state and the outbox it filled.  *)
(* panics says that the handler ended in panic(...).                         *)
Result(s, outbox) == [state |-> s, outbox |-> outbox, panics |-> FALSE]
Panic(s)          == [state |-> s, outbox |-> {},     panics |-> TRUE]

-----------------------------------------------------------------------------
(* Role changes.                                                             *)

becomeLeader(s, t) == [s EXCEPT !.role = RoleLeader, !.term = t]

becomeCandidate(n, s, t) ==
    [s EXCEPT !.role = RoleCandidate,
              !.term = t,
              !.votedFor = n,
              !.votesReceived = 1]

(* Mutant: the vote is forgotten even when the term stays the same.          *)
becomeFollower_ForgetsVote(s, t) ==
    [s EXCEPT !.role = RoleFollower,
              !.term = t,
              !.votedFor = NoVote,
              !.votesReceived = 0]

becomeFollower(s, t) ==
    [s EXCEPT !.role = RoleFollower,
              !.term = t,
              !.votedFor = IF s.term # t THEN NoVote ELSE @,
              !.votesReceived = 0]

(* The votes that make a candidate leader: votesReceived > len(peerIDs)/2,   *)
(* with Go's truncating division.                                            *)
WinsElection(n, votes) == votes > Cardinality(peerIDs(n)) \div 2

(* broadcastHeartbeats: the node s (a leader) with its heartbeat timer reset, *)
(* and a heartbeat to every peer in the outbox.                               *)
broadcastHeartbeats(n, s) ==
    Result([s EXCEPT !.sinceSent = 0],
           {Msg(n, p, AppendEntriesReq, TRUE, s.term) : p \in peerIDs(n)})

-----------------------------------------------------------------------------
(* Handlers.                                                                 *)

(* Mutant: votedFor is not looked at.                                        *)
handleRequestVoteRequest_VotesAgain(s, m) ==
    LET u == IF m.term > s.term THEN becomeFollower(s, m.term) ELSE s
    IN  IF m.term < s.term
        THEN Result(s, {Msg(m.to, m.from, RequestVoteRes, FALSE, s.term)})
        ELSE Result([u EXCEPT !.votedFor = m.from],
                    {Msg(m.to, m.from, RequestVoteRes, TRUE, u.term)})

handleRequestVoteRequest(s, m) ==
    LET n    == m.to
        u    == IF m.term > s.term THEN becomeFollower(s, m.term) ELSE s
        Answer(x, ok) ==
            Result(x, {Msg(n, m.from, RequestVoteRes, ok, x.term)})
    IN  IF m.term < s.term
        THEN Answer(s, FALSE)
        ELSE IF u.votedFor \notin {NoVote, m.from}
             THEN Answer(u, FALSE)
             ELSE Answer([u EXCEPT !.votedFor = m.from], TRUE)

(* Mutant: a refusal counts as a vote.                                       *)
CountsVote_IgnoresOk(s, m) ==
    /\ m.term <= s.term
    /\ s.role = RoleCandidate

(* The answer's term is compared only for being higher: an answer to an      *)
(* earlier election of the same candidate is counted like a current one.     *)
CountsVote(s, m) ==
    /\ m.term <= s.term
    /\ s.role = RoleCandidate
    /\ m.ok

(* Mutant: an answer from any other term makes the node a follower.          *)
handleRequestVoteResponse_AnyTerm(s, m) ==
    LET voted == [s EXCEPT !.votesReceived = @ + 1]
    IN  IF m.term # s.term
        THEN Result(becomeFollower(s, m.term), {})
        ELSE IF ~ CountsVote(s, m)
             THEN Result(s, {})
             ELSE IF WinsElection(m.to, voted.votesReceived)
                  THEN broadcastHeartbeats(m.to, becomeLeader(voted, s.term))
                  ELSE Result(voted, {})

handleRequestVoteResponse(s, m) ==
    LET n     == m.to
        voted == [s EXCEPT !.votesReceived = @ + 1]
    IN  IF m.term > s.term
        THEN Result(becomeFollower(s, m.term), {})
        ELSE IF ~ CountsVote(s, m)
             THEN Result(s, {})
             ELSE IF WinsElection(n, voted.votesReceived)
                  THEN broadcastHeartbeats(n, becomeLeader(voted, s.term))
                  ELSE Result(voted, {})

handleAppendEntriesResponse(s, m) ==
    IF m.term > s.term /\ s.role # RoleFollower
    THEN Result(becomeFollower(s, m.term), {})
    ELSE Result(s, {})

(* Mutant: a candidate that hears from the leader stays a candidate.         *)
handleAppendEntriesRequest_CandidateStays(s, m) ==
    LET u == IF m.term > s.term THEN becomeFollower(s, m.term) ELSE s
    IN  IF m.term < s.term
        THEN Result(s, {Msg(m.to, m.from, AppendEntriesRes, FALSE, s.term)})
        ELSE IF u.role = RoleLeader
             THEN Panic(u)
             ELSE Result([u EXCEPT !.sinceReceived = 0],
                         {Msg(m.to, m.from, AppendEntriesRes, TRUE, u.term)})

handleAppendEntriesRequest(s, m) ==
    LET n == m.to
        u == IF m.term > s.term THEN becomeFollower(s, m.term) ELSE s
        Answer(x, ok) ==
            Result(x, {Msg(n, m.from, AppendEntriesRes, ok, u.term)})
        heard == [u EXCEPT !.sinceReceived = 0]
    IN  IF m.term < s.term
        THEN Answer(s, FALSE)
        ELSE IF u.role = RoleLeader
             THEN Panic(u)                         \* "split brain detected"
             ELSE IF u.role = RoleFollower
                  THEN Answer(heard, TRUE)
                  ELSE Answer(becomeFollower(heard, m.term), TRUE)

StartsElection(n, s) ==
    /\ s.role # RoleLeader
    /\ s.sinceReceived >= ElectionTimeout[n]

handleTick(n, s) ==
    LET c == becomeCandidate(n, [s EXCEPT !.sinceReceived = 0], s.term + 1)
    IN  IF s.role = RoleLeader
        THEN IF s.sinceSent >= HeartbeatInterval
             THEN broadcastHeartbeats(n, s)
             ELSE Result(s, {})
        ELSE IF ~ StartsElection(n, s)
             THEN Result(s, {})
             ELSE IF peerIDs(n) = {}
                  THEN broadcastHeartbeats(n, becomeLeader(c, c.term))
                  ELSE Result(c, {Msg(n, p, RequestVoteReq, TRUE, c.term)
                                    : p \in peerIDs(n)})

(* Step on a message: the dispatch on the message type.                      *)
Step(s, m) ==
    CASE m.type = AppendEntriesReq -> handleAppendEntriesRequest(s, m)
      [] m.type = AppendEntriesRes -> handleAppendEntriesResponse(s, m)
      [] m.type = RequestVoteReq   -> handleRequestVoteRequest(s, m)
      [] m.type = RequestVoteRes   -> handleRequestVoteResponse(s, m)

(* One tick passes on the node's clock.                                      *)
Saturated(x, limit) == IF x < limit THEN x + 1 ELSE x

TickPasses(n, s) ==
    [s EXCEPT !.sinceReceived = Saturated(@, ElectionTimeout[n]),
              !.sinceSent = Saturated(@, HeartbeatInterval)]

=============================================================================
