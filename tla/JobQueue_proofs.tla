--------------------------- MODULE JobQueue_proofs ---------------------------
(***************************************************************************)
(* Theorems about JobQueue, for every set of jobs and every capacity.      *)
(***************************************************************************)
EXTENDS JobQueue, SequenceTheorems, FiniteSetTheorems, TLAPS

(* JobInOnePlace says nothing of the jobs whose handler has answered, yet a  *)
(* late worker still holds them: it is not inductive.  The places themselves *)
(* are disjoint for every job, and only an answered handler's job is in none.*)

QueuedOnce == \A i, k \in DOMAIN queue : queue[i] = queue[k] => i = k

PlacesDisjoint ==
    /\ \A i \in DOMAIN queue : queue[i] # worker /\ queue[i] \notin replied
    /\ worker \notin replied

OpenJobsHavePlace ==
    \A j \in Job : handler[j] \in {"sending", "waiting"} =>
        j \in ToSet(queue) \/ worker = j \/ j \in replied

PlaceInv == TypeOK /\ QueuedOnce /\ PlacesDisjoint /\ OpenJobsHavePlace

LEMMA QueueType ==
    ASSUME NEW q \in Seq(Job)
    PROVE  /\ Len(q) \in Nat
           /\ DOMAIN q = 1..Len(q)
           /\ \A i \in 1..Len(q) : q[i] \in Job
           /\ ToSet(q) = {q[i] : i \in 1..Len(q)}
  <1>1. /\ Len(q) \in Nat
        /\ DOMAIN q = 1..Len(q)
        /\ q \in [1..Len(q) -> Job]
    BY LenProperties
  <1> QED
    BY <1>1 DEF ToSet

LEMMA HandleJobKeeps ==
    ASSUME PlaceInv, NEW j \in Job, handleJob(j)
    PROVE  PlaceInv'
  <1> USE DEF PlaceInv
  <1>1. /\ queue' = Append(queue, j)
        /\ worker' = worker
        /\ replied' = replied \ {j}
        /\ handler' = [handler EXCEPT ![j] =
              IF Len(queue) < Capacity THEN "waiting" ELSE "sending"]
        /\ j \notin ToSet(queue)
        /\ worker # j
    BY DEF handleJob, Fresh
  <1>2. /\ queue' \in Seq(Job)
        /\ Len(queue') = Len(queue) + 1
        /\ \A i \in 1..Len(queue) : queue'[i] = queue[i]
        /\ queue'[Len(queue) + 1] = j
    BY <1>1, AppendProperties DEF TypeOK
  <1>3. TypeOK'
    BY <1>1, <1>2 DEF TypeOK
  <1>4. /\ Len(queue) \in Nat
        /\ DOMAIN queue = 1..Len(queue)
        /\ DOMAIN queue' = 1..Len(queue) + 1
        /\ ToSet(queue) = {queue[i] : i \in 1..Len(queue)}
        /\ ToSet(queue') = {queue'[i] : i \in 1..Len(queue) + 1}
    BY <1>2, QueueType DEF TypeOK
  <1>5. \A i \in 1..Len(queue) : queue[i] # j
    BY <1>1, <1>4
  <1>6. \A i \in 1..Len(queue) + 1 : i \in 1..Len(queue) \/ i = Len(queue) + 1
    BY <1>4
  <1>7. QueuedOnce'
    BY <1>2, <1>4, <1>5, <1>6 DEF QueuedOnce
  <1>8. PlacesDisjoint'
    BY <1>1, <1>2, <1>4, <1>5, <1>6 DEF PlacesDisjoint
  <1>9. ToSet(queue) \cup {j} \subseteq ToSet(queue')
    BY <1>2, <1>4
  <1>10. OpenJobsHavePlace'
    BY <1>1, <1>9 DEF OpenJobsHavePlace, TypeOK
  <1> QED
    BY <1>3, <1>7, <1>8, <1>10

LEMMA WorkerTakesKeeps ==
    ASSUME PlaceInv, WorkerTakes
    PROVE  PlaceInv'
  <1> USE DEF PlaceInv
  <1>1. /\ worker = None
        /\ queue # <<>>
        /\ worker' = Head(queue)
        /\ queue' = Tail(queue)
        /\ replied' = replied
        /\ handler' = IF Len(queue) > Capacity
                      THEN [handler EXCEPT ![queue[Capacity + 1]] = "waiting"]
                      ELSE handler
    BY DEF WorkerTakes
  <1>2. /\ Len(queue) \in Nat
        /\ DOMAIN queue = 1..Len(queue)
        /\ \A i \in 1..Len(queue) : queue[i] \in Job
        /\ ToSet(queue) = {queue[i] : i \in 1..Len(queue)}
    BY QueueType DEF TypeOK
  <1>3. /\ queue' \in Seq(Job)
        /\ Len(queue') = Len(queue) - 1
        /\ \A i \in 1..Len(queue') : queue'[i] = queue[i + 1]
        /\ Head(queue) = queue[1]
        /\ Len(queue) > 0
    BY <1>1, <1>2, HeadTailProperties, EmptySeq DEF TypeOK
  <1>4. Len(queue) > Capacity => queue[Capacity + 1] \in Job
    BY <1>2, QueueAssumption
  <1>5. TypeOK'
    BY <1>1, <1>2, <1>3, <1>4 DEF TypeOK
  <1>6. /\ DOMAIN queue' = 1..Len(queue) - 1
        /\ ToSet(queue') = {queue'[i] : i \in 1..Len(queue) - 1}
    BY <1>3, QueueType
  <1>7. \A i \in 1..Len(queue) - 1 :
          i + 1 \in 1..Len(queue) /\ queue'[i] = queue[i + 1]
    BY <1>2, <1>3
  <1>8. QueuedOnce'
    BY <1>2, <1>6, <1>7 DEF QueuedOnce
  <1>9. 1 \in 1..Len(queue)
    BY <1>2, <1>3
  <1>10. \A i \in 1..Len(queue) - 1 : queue'[i] # queue[1]
    BY <1>2, <1>7, <1>9 DEF QueuedOnce
  <1>11. PlacesDisjoint'
    BY <1>1, <1>2, <1>3, <1>6, <1>7, <1>9, <1>10 DEF PlacesDisjoint
  <1>12. ASSUME NEW i \in 1..Len(queue)
         PROVE  queue[i] \in ToSet(queue') \/ queue[i] = worker'
    <2>1. CASE i = 1
      BY <1>1, <1>3, <2>1
    <2>2. CASE i # 1
      <3>1. i - 1 \in 1..Len(queue) - 1 /\ (i - 1) + 1 = i
        BY <1>2, <2>2
      <3>2. queue'[i - 1] = queue[i]
        BY <1>7, <3>1
      <3> QED
        BY <1>6, <3>1, <3>2
    <2> QED
      BY <2>1, <2>2
  <1>13. ASSUME NEW j \in Job, handler'[j] \in {"sending", "waiting"}
         PROVE  j \in ToSet(queue') \/ worker' = j \/ j \in replied'
    <2>1. CASE handler'[j] = handler[j]
      BY <1>1, <1>2, <1>12, <1>13, <2>1, QueueAssumption DEF OpenJobsHavePlace
    <2>2. CASE handler'[j] # handler[j]
      <3>1. Len(queue) > Capacity /\ j = queue[Capacity + 1]
        BY <1>1, <2>2 DEF TypeOK
      <3> QED
        BY <1>2, <1>12, <3>1, QueueAssumption
    <2> QED
      BY <2>1, <2>2
  <1> QED
    BY <1>5, <1>8, <1>11, <1>13 DEF OpenJobsHavePlace

(* The other steps do not touch the queue.                                   *)
LEMMA OtherStepsKeep ==
    ASSUME PlaceInv,
           \/ \E j \in Job : BadRequest(j) \/ ReceiveReply(j) \/ Timeout(j)
           \/ WorkerReplies
           \/ UNCHANGED vars
    PROVE  PlaceInv'
  <1> USE DEF PlaceInv, TypeOK, QueuedOnce, PlacesDisjoint, OpenJobsHavePlace
  <1>1. CASE \E j \in Job : BadRequest(j)
    BY <1>1 DEF BadRequest, Fresh, Answered
  <1>2. CASE \E j \in Job : ReceiveReply(j)
    BY <1>2 DEF ReceiveReply, Answered
  <1>3. CASE \E j \in Job : Timeout(j)
    BY <1>3 DEF Timeout, Answered
  <1>4. CASE WorkerReplies
    <2>1. /\ worker \in Job
          /\ worker' = None
          /\ replied' = replied \cup {worker}
          /\ handler' = handler
          /\ queue' = queue
      BY <1>4 DEF WorkerReplies
    <2>2. TypeOK'
      BY <2>1
    <2>3. \A i \in DOMAIN queue : queue[i] \in Job
      BY QueueType DEF TypeOK
    <2>4. PlacesDisjoint'
      BY <2>1, <2>3, QueueAssumption
    <2> QED
      BY <2>1, <2>2, <2>4
  <1>5. CASE UNCHANGED vars
    BY <1>5 DEF vars
  <1> QED
    BY <1>1, <1>2, <1>3, <1>4, <1>5

LEMMA PlaceInvariant == Spec => []PlaceInv
  <1>1. Init => PlaceInv
    <2> SUFFICES ASSUME Init
                 PROVE  PlaceInv
      OBVIOUS
    <2>1. queue = <<>> /\ queue \in Seq(Job) /\ DOMAIN queue = {}
      BY EmptySeq DEF Init
    <2> QED
      BY <2>1, QueueAssumption
      DEF Init, PlaceInv, TypeOK, QueuedOnce, PlacesDisjoint, OpenJobsHavePlace,
          Answered
  <1>2. PlaceInv /\ [Next]_vars => PlaceInv'
    BY HandleJobKeeps, WorkerTakesKeeps, OtherStepsKeep DEF Next
  <1> QED
    BY <1>1, <1>2, PTL DEF Spec

(* Handlers, queue, worker and replies have their types in every state.      *)
THEOREM TypeCorrect == Spec => []TypeOK
  <1>1. PlaceInv => TypeOK
    BY DEF PlaceInv
  <1> QED
    BY <1>1, PlaceInvariant, PTL

(* The job of a handler that has not answered is queued, being worked on or  *)
(* replied to, in exactly one of these places and once, for every number of  *)
(* jobs and every capacity of jobsCh.                                        *)
THEOREM JobsInOnePlace == Spec => []JobInOnePlace
  <1>1. PlaceInv => JobInOnePlace
    <2> SUFFICES ASSUME PlaceInv, NEW j \in Job,
                        handler[j] \in {"sending", "waiting"}
                 PROVE  Cardinality({i \in DOMAIN queue : queue[i] = j})
                          + (IF worker = j THEN 1 ELSE 0)
                          + (IF j \in replied THEN 1 ELSE 0) = 1
      BY DEF JobInOnePlace
    <2> DEFINE places == {i \in DOMAIN queue : queue[i] = j}
    <2>1. DOMAIN queue = 1..Len(queue) /\ ToSet(queue) = {queue[i] : i \in 1..Len(queue)}
      BY QueueType DEF PlaceInv, TypeOK
    <2>2. CASE j \in ToSet(queue)
      <3>1. PICK i \in DOMAIN queue : queue[i] = j
        BY <2>1, <2>2
      <3>2. places = {i}
        BY <3>1 DEF PlaceInv, QueuedOnce
      <3>3. Cardinality(places) = 1
        BY <3>2, FS_Singleton
      <3>4. worker # j /\ j \notin replied
        BY <3>1 DEF PlaceInv, PlacesDisjoint
      <3> QED
        BY <3>3, <3>4
    <2>3. CASE j \notin ToSet(queue)
      <3>1. places = {}
        BY <2>1, <2>3
      <3>2. Cardinality(places) = 0
        BY <3>1, FS_EmptySet
      <3>3. worker = j \/ j \in replied
        BY <2>3 DEF PlaceInv, OpenJobsHavePlace
      <3>4. ~ (worker = j /\ j \in replied)
        BY DEF PlaceInv, PlacesDisjoint
      <3> QED
        BY <3>2, <3>3, <3>4
    <2> QED
      BY <2>2, <2>3
  <1> QED
    BY <1>1, PlaceInvariant, PTL

=============================================================================
