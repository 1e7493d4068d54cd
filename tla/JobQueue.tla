------------------------------ MODULE JobQueue ------------------------------
(***************************************************************************)
(* The job queue of cmd/jobqueue: HTTP handlers that send jobs into a      *)
(* bounded channel and wait for the reply or for a timeout, and one worker *)
(* that answers the jobs in their order.                                   *)
(*                                                                         *)
(* queue is jobsCh together with the senders that wait for room in it:     *)
(* the first Capacity elements are in the buffer, and Go serves blocked    *)
(* senders in their order.  A job is used again, as the fresh job of a new *)
(* request, when neither its handler nor the worker refers to it any more. *)
(* The worker never sets Result.Err, so the 500 answer does not happen.    *)
(***************************************************************************)
EXTENDS Integers, Sequences, SequencesExt

CONSTANTS
    Job,        \* the jobs, each with its handler and its ReplyCh
    Capacity,   \* the buffer of jobsCh, 100 in the code
    None        \* the worker has no job

ASSUME QueueAssumption == Capacity \in Nat \ {0} /\ None \notin Job

VARIABLES
    handler,    \* the state of the handler of each job
    queue,      \* jobsCh and the senders that wait for it
    worker,     \* the job that the worker has taken
    replied     \* jobs with a result in the buffer of ReplyCh

vars == <<handler, queue, worker, replied>>

Answered == {"none", "200", "400", "504"}

TypeOK ==
    /\ handler \in [Job -> Answered \cup {"sending", "waiting"}]
    /\ queue \in Seq(Job)
    /\ worker \in Job \cup {None}
    /\ replied \subseteq Job

Init ==
    /\ handler = [j \in Job |-> "none"]
    /\ queue = <<>>
    /\ worker = None
    /\ replied = {}

-----------------------------------------------------------------------------

(* No handler, channel or worker refers to j.                                *)
Fresh(j) == handler[j] \in Answered /\ j \notin ToSet(queue) /\ worker # j

(* A request arrives and its job is sent.  The handler waits for the reply   *)
(* at once, or is blocked in the send if the buffer is full.                 *)
handleJob(j) ==
    /\ Fresh(j)
    /\ queue' = Append(queue, j)
    /\ handler' = [handler EXCEPT ![j] =
                      IF Len(queue) < Capacity THEN "waiting" ELSE "sending"]
    /\ replied' = replied \ {j}
    /\ UNCHANGED worker

(* The body is not JSON.                                                     *)
BadRequest(j) ==
    /\ Fresh(j)
    /\ handler' = [handler EXCEPT ![j] = "400"]
    /\ replied' = replied \ {j}
    /\ UNCHANGED <<queue, worker>>

ReceiveReply(j) ==
    /\ handler[j] = "waiting"
    /\ j \in replied
    /\ handler' = [handler EXCEPT ![j] = "200"]
    /\ replied' = replied \ {j}
    /\ UNCHANGED <<queue, worker>>

(* time.After: the five seconds run from the end of the send.  If the reply  *)
(* is there too, select takes either.                                        *)
Timeout(j) ==
    /\ handler[j] = "waiting"
    /\ handler' = [handler EXCEPT ![j] = "504"]
    /\ UNCHANGED <<queue, worker, replied>>

(* The worker receives, which makes room for the first blocked sender.       *)
WorkerTakes ==
    /\ worker = None
    /\ queue # <<>>
    /\ worker' = Head(queue)
    /\ queue' = Tail(queue)
    /\ handler' = IF Len(queue) > Capacity
                  THEN [handler EXCEPT ![queue[Capacity + 1]] = "waiting"]
                  ELSE handler
    /\ UNCHANGED replied

(* Mutant: ReplyCh has no buffer, the worker's send needs a waiting handler. *)
WorkerReplies_Unbuffered ==
    /\ worker # None
    /\ handler[worker] = "waiting"
    /\ replied' = replied \cup {worker}
    /\ worker' = None
    /\ UNCHANGED <<handler, queue>>

(* Mutant: the worker drops a job.                                           *)
WorkerReplies_Drops ==
    /\ worker # None
    /\ worker' = None
    /\ UNCHANGED <<handler, queue, replied>>

(* Mutant: the worker replies before it has a job.                           *)
WorkerReplies_ZeroJob ==
    /\ replied' = replied \cup {worker}
    /\ worker' = None
    /\ UNCHANGED <<handler, queue>>

(* ReplyCh has room for the one result it gets: the send never blocks.       *)
WorkerReplies ==
    /\ worker # None
    /\ replied' = replied \cup {worker}
    /\ worker' = None
    /\ UNCHANGED <<handler, queue>>

Worker == WorkerTakes \/ WorkerReplies

Next ==
    \/ \E j \in Job : handleJob(j)
    \/ \E j \in Job : BadRequest(j)
    \/ \E j \in Job : ReceiveReply(j)
    \/ \E j \in Job : Timeout(j)
    \/ WorkerTakes
    \/ WorkerReplies

(* The worker and the handlers are scheduled.  A waiting handler goes on     *)
(* with whatever comes first; that the timeout fires is not needed.          *)
Fairness ==
    /\ WF_vars(Worker)
    /\ \A j \in Job : WF_vars(ReceiveReply(j))

Spec == Init /\ [][Next]_vars /\ Fairness

-----------------------------------------------------------------------------
(* Properties.                                                               *)

(* The job of a handler that has not answered is in exactly one place: in    *)
(* the queue, with the worker, or replied to.  None is lost and none is done *)
(* twice, however requests, timeouts and late replies interleave.            *)
JobInOnePlace ==
    \A j \in Job : handler[j] \in {"sending", "waiting"} =>
        Cardinality({i \in DOMAIN queue : queue[i] = j})
          + (IF worker = j THEN 1 ELSE 0)
          + (IF j \in replied THEN 1 ELSE 0) = 1

(* Every request is answered even if its timeout never fires: the worker     *)
(* never blocks on the reply to a handler that is gone (main.go:36, the      *)
(* buffer of ReplyCh), and a handler that is blocked in the send, where no   *)
(* timeout counts yet (main.go:39), gets its turn.                           *)
EveryJobAnswered ==
    \A j \in Job : handler[j] \in {"sending", "waiting"} ~> handler[j] \in Answered

=============================================================================
