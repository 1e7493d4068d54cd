----------------------------- MODULE RaftRounds -----------------------------
(***************************************************************************)
(* The synchronous cluster of internal/raft_test/cluster.go, on which the  *)
(* Raft tests state what an election promises.                             *)
(*                                                                         *)
(* Tick steps every node with a Tick and then works in rounds: it takes    *)
(* all outboxes as one batch, delivers or drops each message of the batch, *)
(* and goes on with the outboxes this filled, until they stay empty.  The  *)
(* batch is in any order (collectOutboxMessages iterates over a map, or    *)
(* sorts by a function the test chooses).  Between two Ticks the test may  *)
(* disable and enable nodes, whose messages are dropped, and set a filter  *)
(* that drops others.                                                      *)
(*                                                                         *)
(* A Tick is one unit of time here.  stable records that the test leaves   *)
(* the cluster alone from now on; votes and elected are history variables. *)
(***************************************************************************)
EXTENDS RaftNode

CONSTANTS
    MaxTerm,        \* bound: the last term of an election that is disturbed
    MaxStableTerm   \* bound: the last term of an election that is not

ASSUME BoundsAssumption == MaxTerm \in Nat /\ MaxStableTerm \in Nat

VARIABLES
    node,       \* the state of each node
    batch,      \* messages of this round still to be delivered
    outbox,     \* messages of the next round
    disabled,   \* disabledNodes
    panicked,   \* a handler panicked, which ends the test
    stable,     \* nothing is disabled or filtered any more
    votes,      \* history: every vote of a node in a term
    elected     \* history: every pair of a term and a leader of that term

history == <<votes, elected>>
vars == <<node, batch, outbox, disabled, panicked, stable, history>>

TypeOK ==
    /\ node \in [Node -> NodeState]
    /\ batch \subseteq Message
    /\ outbox \subseteq Message
    /\ disabled \subseteq Node
    /\ panicked \in BOOLEAN
    /\ stable \in BOOLEAN
    /\ votes \subseteq [voter : Node, candidate : Node, term : Nat]
    /\ elected \subseteq [term : Nat, leader : Node]

Init ==
    /\ node = [n \in Node |-> NewNode]
    /\ batch = {}
    /\ outbox = {}
    /\ disabled = {}
    /\ panicked = FALSE
    /\ stable = FALSE
    /\ votes = {}
    /\ elected = {}

LeadersOf(state) ==
    {[term |-> state[n].term, leader |-> n] :
        n \in {x \in Node : state[x].role = RoleLeader}}

VotesIn(state) ==
    {[voter |-> n, candidate |-> state[n].votedFor, term |-> state[n].term] :
        n \in {x \in Node : state[x].votedFor # NoVote}}

(* The votes cast and the leaders there are after a step.                    *)
Remember ==
    /\ votes' = votes \cup VotesIn(node')
    /\ elected' = elected \cup LeadersOf(node')

(* No Tick is running.                                                       *)
Quiet == batch = {} /\ outbox = {} /\ ~ panicked

-----------------------------------------------------------------------------

(* The loop over n.Step(Tick) and the first collectOutboxMessages.  The steps *)
(* of different nodes do not see each other, so they are one action.          *)
TickAll ==
    LET now    == [n \in Node |-> TickPasses(n, node[n])]
        result == [n \in Node |-> handleTick(n, now[n])]
    IN  /\ Quiet
        /\ \A n \in Node : StartsElection(n, now[n]) =>
               now[n].term < IF stable THEN MaxStableTerm ELSE MaxTerm
        /\ node' = [n \in Node |-> result[n].state]
        /\ batch' = UNION {result[n].outbox : n \in Node}
        /\ Remember
        /\ UNCHANGED <<outbox, disabled, panicked, stable>>

Deliver(m) ==
    LET result == Step(node[m.to], m)
    IN  /\ ~ panicked
        /\ {m.from, m.to} \cap disabled = {}
        /\ node' = [node EXCEPT ![m.to] = result.state]
        /\ batch' = batch \ {m}
        /\ outbox' = outbox \cup result.outbox
        /\ panicked' = result.panics
        /\ Remember
        /\ UNCHANGED <<disabled, stable>>

(* An end of the message is disabled, or the filter drops it.                *)
Drop(m) ==
    /\ ~ panicked
    /\ {m.from, m.to} \cap disabled # {} \/ ~ stable
    /\ batch' = batch \ {m}
    /\ UNCHANGED <<node, outbox, disabled, panicked, stable, history>>

(* The batch is done: collectOutboxMessages takes the outboxes it filled.    *)
NextRound ==
    /\ batch = {}
    /\ outbox # {}
    /\ ~ panicked
    /\ batch' = outbox
    /\ outbox' = {}
    /\ UNCHANGED <<node, disabled, panicked, stable, history>>

DisableNode(n) ==
    /\ Quiet
    /\ ~ stable
    /\ disabled' = disabled \cup {n}
    /\ UNCHANGED <<node, batch, outbox, panicked, stable, history>>

EnableNode(n) ==
    /\ Quiet
    /\ ~ stable
    /\ disabled' = disabled \ {n}
    /\ UNCHANGED <<node, batch, outbox, panicked, stable, history>>

(* The test enables what is still disabled, removes the filter and only      *)
(* ticks from now on.                                                        *)
Stabilise ==
    /\ Quiet
    /\ ~ stable
    /\ disabled' = {}
    /\ stable' = TRUE
    /\ UNCHANGED <<node, batch, outbox, panicked, history>>

Progress ==
    \/ TickAll
    \/ \E m \in batch : Deliver(m)
    \/ \E m \in batch : Drop(m)
    \/ NextRound

Next ==
    \/ Progress
    \/ \E n \in Node : DisableNode(n)
    \/ \E n \in Node : EnableNode(n)
    \/ Stabilise

(* Tick's loops run to their end and the test calls it again.                *)
Spec == Init /\ [][Next]_vars /\ WF_vars(Progress)

-----------------------------------------------------------------------------
(* Properties.                                                               *)

(* The test "only 1 leader is elected", over the whole run: no term ever has *)
(* a second leader and the split-brain panic (node.go:270) is not reached,   *)
(* whatever is dropped, disabled or reordered.  Answers do not outlive the   *)
(* Tick here, so no stale vote is counted.                                   *)
ElectionSafety ==
    /\ ~ panicked
    /\ \A x, y \in elected : x.term = y.term => x = y

Election == INSTANCE LeaderElection

(* The rounds of messages implement the election: a node votes once in a     *)
(* term, even after it has changed its role or timed out, and a candidate    *)
(* whose count of answers exceeds half of its peers (node.go:227) has the    *)
(* votes of a majority of all nodes in its own term.  It needs an odd number *)
(* of nodes.                                                                 *)
ImplementsElection == Election!Spec

Agreed ==
    \E l \in Node :
        /\ node[l].role = RoleLeader
        /\ \A n \in Node \ {l} :
               node[n].role = RoleFollower /\ node[n].term = node[l].term

(* The tests "leader will eventually be elected", "recovered old leader will *)
(* step down to follower" and "leader will still emerge if election fails    *)
(* mid process": from whatever terms, roles and timers the disturbances      *)
(* leave, the cluster settles on one leader for good, if the election        *)
(* timeouts differ and exceed the heartbeat interval.                        *)
SettlesOnOneLeader == <>stable => <>[]Agreed

=============================================================================
