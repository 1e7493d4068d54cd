---------------------------- MODULE RaftCluster ----------------------------
(***************************************************************************)
(* The Raft processes of cmd/raft/main.go on an asynchronous network.      *)
(*                                                                         *)
(* Each process runs a node behind an unbuffered inbox.  startTimer adds   *)
(* to the shared variable tick and then blocks until the inbox takes its   *)
(* Tick; handleRpc blocks in the same way with a peer's message; and       *)
(* handleInbox steps the node with whichever it receives, passes the value *)
(* tick has at that moment, and sends every outbox message from a          *)
(* goroutine of its own, once, without retrying.                           *)
(*                                                                         *)
(* So messages arrive in any order, late or never, and are not duplicated: *)
(* net is the set of messages that were sent and are neither delivered nor *)
(* lost.  Two equal heartbeats that are both under way are one element of  *)
(* net; requests for votes and their answers are unique by sender,         *)
(* receiver and term.                                                      *)
(*                                                                         *)
(* votes and counted are history variables: no action reads them.          *)
(***************************************************************************)
EXTENDS RaftNode

CONSTANTS
    MaxTerm,        \* bound: no election starts in a node of this term
    MaxInFlight     \* bound: a step that overfills net waits for a loss

ASSUME BoundsAssumption == MaxTerm \in Nat /\ MaxInFlight \in Nat

VARIABLES
    node,           \* the node of each process
    net,            \* messages sent and neither delivered nor lost
    timerBlocked,   \* startTimer has advanced tick and waits on the inbox
    panicked,       \* processes that a panic has ended
    votes,          \* every vote ever granted
    counted         \* the votes in votesReceived of each candidate or leader

vars == <<node, net, timerBlocked, panicked, votes, counted>>

Vote == [voter : Node, candidate : Node, term : Nat]

Ballot(v, c, t) == [voter |-> v, candidate |-> c, term |-> t]

TypeOK ==
    /\ node \in [Node -> NodeState]
    /\ net \subseteq Message
    /\ timerBlocked \in [Node -> BOOLEAN]
    /\ panicked \subseteq Node
    /\ votes \subseteq Vote
    /\ counted \in [Node -> SUBSET Vote]

Init ==
    /\ node = [n \in Node |-> NewNode]
    /\ net = {}
    /\ timerBlocked = [n \in Node |-> FALSE]
    /\ panicked = {}
    /\ votes = {}
    /\ counted = [n \in Node |-> {}]

-----------------------------------------------------------------------------

(* handleInbox after a step of process n: its node is what the handler left  *)
(* and its outbox is on its way.  A panic ends the process.                  *)
Finish(n, result, received) ==
    /\ node' = [node EXCEPT ![n] = result.state]
    /\ net' = (net \ received) \cup result.outbox
    /\ Cardinality(net') <= MaxInFlight
    /\ panicked' = IF result.panics THEN panicked \cup {n} ELSE panicked

(* A follower has no votes; extra are the votes that the step counted.       *)
Count(n, result, extra) ==
    counted' = [counted EXCEPT ![n] =
        IF result.state.role = RoleFollower THEN {} ELSE @ \cup extra]

(* startTimer: the ticker fires, tick is advanced and the timer blocks.      *)
TimerFires(n) ==
    /\ n \notin panicked
    /\ ~ timerBlocked[n]
    /\ timerBlocked' = [timerBlocked EXCEPT ![n] = TRUE]
    /\ node' = [node EXCEPT ![n] = TickPasses(n, @)]
    /\ UNCHANGED <<net, panicked, votes, counted>>

(* handleInbox takes the Tick.  It reads tick after the timer was unblocked, *)
(* with no synchronisation: the timer may have fired once more by then       *)
(* (again), and be blocked with the next Tick already.                       *)
InboxTick(n, again) ==
    LET s      == IF again THEN TickPasses(n, node[n]) ELSE node[n]
        result == handleTick(n, s)
        self   == {Ballot(n, n, result.state.term)}
    IN  /\ n \notin panicked
        /\ timerBlocked[n]
        /\ StartsElection(n, s) => s.term < MaxTerm
        /\ timerBlocked' = [timerBlocked EXCEPT ![n] = again]
        /\ Finish(n, result, {})
        /\ IF StartsElection(n, s)
           THEN /\ votes' = votes \cup self
                /\ counted' = [counted EXCEPT ![n] = self]
           ELSE UNCHANGED <<votes, counted>>

(* handleRpc hands the process a peer's message, and handleInbox steps the   *)
(* node with it: one action for each message handler.                        *)
Receive(m, type) ==
    /\ m.type = type
    /\ m.to \notin panicked
    /\ Finish(m.to, Step(node[m.to], m), {m})
    /\ UNCHANGED timerBlocked

ReceiveRequestVoteRequest(m) ==
    LET result == Step(node[m.to], m)
    IN  /\ Receive(m, RequestVoteReq)
        /\ votes' = votes \cup {Ballot(r.from, r.to, r.term) :
                                    r \in {x \in result.outbox : x.ok}}
        /\ Count(m.to, result, {})

ReceiveRequestVoteResponse(m) ==
    /\ Receive(m, RequestVoteRes)
    /\ Count(m.to, Step(node[m.to], m),
             IF CountsVote(node[m.to], m)
             THEN {Ballot(m.from, m.to, m.term)}
             ELSE {})
    /\ UNCHANGED votes

ReceiveAppendEntriesRequest(m) ==
    /\ Receive(m, AppendEntriesReq)
    /\ Count(m.to, Step(node[m.to], m), {})
    /\ UNCHANGED votes

ReceiveAppendEntriesResponse(m) ==
    /\ Receive(m, AppendEntriesRes)
    /\ Count(m.to, Step(node[m.to], m), {})
    /\ UNCHANGED votes

(* sendMessageToPeer fails or times out before the message is taken.         *)
Lose(m) ==
    /\ net' = net \ {m}
    /\ UNCHANGED <<node, timerBlocked, panicked, votes, counted>>

Next ==
    \/ \E n \in Node : TimerFires(n)
    \/ \E n \in Node, again \in BOOLEAN : InboxTick(n, again)
    \/ \E m \in net : ReceiveRequestVoteRequest(m)
    \/ \E m \in net : ReceiveRequestVoteResponse(m)
    \/ \E m \in net : ReceiveAppendEntriesRequest(m)
    \/ \E m \in net : ReceiveAppendEntriesResponse(m)
    \/ \E m \in net : Lose(m)

Spec == Init /\ [][Next]_vars

-----------------------------------------------------------------------------
(* Properties.                                                               *)

Leaders == {n \in Node : node[n].role = RoleLeader}

(* A node votes for at most one candidate in a term, over the whole run and  *)
(* through every change of role: votedFor survives becomeFollower in the     *)
(* same term (node.go:383) and decides handleRequestVoteRequest.             *)
VoteOncePerTerm ==
    \A v, w \in votes :
        v.voter = w.voter /\ v.term = w.term => v.candidate = w.candidate

(* votesReceived (node.go:226) is made of different votes that were really   *)
(* granted to this node, in this term or an earlier one: a refusal, a vote   *)
(* for somebody else or one vote counted twice never gets into it, whatever  *)
(* order and delay the answers have.                                         *)
VotesReceivedAreGranted ==
    \A n \in Node : node[n].role # RoleFollower =>
        /\ counted[n] \subseteq votes
        /\ node[n].votesReceived = Cardinality(counted[n])
        /\ \A v \in counted[n] : v.candidate = n /\ v.term <= node[n].term

ElectedByItsTerm(n) == \A v \in counted[n] : v.term = node[n].term

(* Two leaders never share a term if each was elected by votes of that term: *)
(* in a cluster of odd size an answer to an earlier election, which          *)
(* handleRequestVoteResponse does not tell apart (node.go:225), is the only  *)
(* way to a split brain.                                                     *)
SplitBrainNeedsStaleVote ==
    \A m, n \in Leaders :
        /\ node[m].term = node[n].term
        /\ ElectedByItsTerm(m)
        /\ ElectedByItsTerm(n)
        => m = n

(* A leader steps down only for a higher term, and a process never goes back *)
(* to an earlier term or takes back the vote it cast in its term.            *)
TermsAndVotesOnlyAdvance ==
    [][\A n \in Node :
        /\ node'[n].term >= node[n].term
        /\ node'[n].term = node[n].term =>
            /\ node[n].role = RoleLeader => node'[n].role = RoleLeader
            /\ node[n].votedFor # NoVote => node'[n].votedFor = node[n].votedFor
      ]_vars

(* What the panic in handleAppendEntriesRequest asserts (node.go:270), and   *)
(* the test "only 1 leader is elected": no leader ever hears from another    *)
(* leader of its own term.                                                   *)
NoSplitBrain == panicked = {}

=============================================================================
