-------------------------- MODULE OrchestratorProofs --------------------------
(***************************************************************************)
(* Proofs about Orchestrator, for every set of users, items and workers,   *)
(* every queue depth, every launcher and every number of requests.         *)
(***************************************************************************)
EXTENDS Orchestrator, FiniteSetTheorems, TLAPS

-----------------------------------------------------------------------------
(* Type correctness.                                                       *)

LEMMA JobIdsAreNaturals == JobId \subseteq Nat \ {0} /\ MaxJobs \in Nat
BY OrchestratorAssumption DEF JobId

LEMMA EnqueueType ==
    ASSUME TypeOK, NEW k \in Key, Enqueue(k)
    PROVE  /\ created' \in 0 .. MaxJobs
           /\ jobKey' \in [JobId -> Key \union {NoKey}]
           /\ jobState' \in [JobId -> JobState]
           /\ queue' \in Seq(JobId) /\ Len(queue') <= QueueDepth
           /\ inflight' \subseteq Key
<1> USE OrchestratorAssumption, JobIdsAreNaturals
<1>1. CASE UNCHANGED tableVars
  BY <1>1 DEF TypeOK, tableVars
<1>2. CASE NewJob(k)
  <2> DEFINE id == created + 1
  <2>1. id \in JobId /\ created' = id /\ id \in 0 .. MaxJobs
    BY <1>2 DEF NewJob, JobId
  <2>2. jobKey' \in [JobId -> Key \union {NoKey}]
    BY <1>2 DEF NewJob, TypeOK
  <2>3. CASE Len(queue) < QueueDepth
    <3>1. Append(queue, id) \in Seq(JobId) /\ Len(Append(queue, id)) <= QueueDepth
      BY <2>1, <2>3 DEF TypeOK
    <3>2. jobState \in [JobId -> JobState] /\ inflight \subseteq Key
      BY DEF TypeOK
    <3>3. jobState' = [jobState EXCEPT ![id] = "pending"] /\ inflight' = inflight \union {k}
      BY <1>2, <2>3 DEF NewJob
    <3>4. jobState' \in [JobId -> JobState] /\ inflight' \subseteq Key
      BY <3>2, <3>3 DEF JobState, Live
    <3> QED
      BY <1>2, <2>1, <2>2, <2>3, <3>1, <3>4 DEF NewJob
  <2>4. CASE ~(Len(queue) < QueueDepth)
    <3>1. /\ jobState \in [JobId -> JobState] /\ inflight \subseteq Key
          /\ queue \in Seq(JobId) /\ Len(queue) <= QueueDepth
      BY DEF TypeOK
    <3>2. /\ jobState' = [jobState EXCEPT ![id] = "failed"]
          /\ queue' = queue /\ inflight' = inflight
      BY <1>2, <2>4 DEF NewJob
    <3>3. "failed" \in JobState
      BY DEF JobState, Terminal
    <3>4. jobState' \in [JobId -> JobState]
      BY <2>1, <3>1, <3>2, <3>3, Zenon
    <3> QED
      BY <2>1, <2>2, <3>1, <3>2, <3>4
  <2> QED BY <2>3, <2>4
<1> QED BY <1>1, <1>2 DEF Enqueue

LEMMA TypeInit == Init => TypeOK
<1> USE OrchestratorAssumption, JobIdsAreNaturals
<1> SUFFICES ASSUME Init PROVE TypeOK
  OBVIOUS
<1>1. queue \in Seq(JobId) /\ Len(queue) <= QueueDepth
  BY DEF Init
<1>2. requests \in [passes : 0 .. MaxPasses, items : 0 .. MaxItemCalls] /\ created \in 0 .. MaxJobs
  BY DEF Init
<1> QED
  BY <1>1, <1>2 DEF Init, TypeOK, JobState

LEMMA TypeStep == TypeOK /\ [Next]_vars => TypeOK'
<1> USE OrchestratorAssumption, JobIdsAreNaturals
<1> SUFFICES ASSUME TypeOK, [Next]_vars PROVE TypeOK'
  OBVIOUS
<1>1. ASSUME NEW k \in Requestable, Request(k) PROVE TypeOK'
  <2>1. k \in Key
    BY DEF Requestable
  <2>2. requests' \in [passes : 0 .. MaxPasses, items : 0 .. MaxItemCalls]
    <3>1. requests \in [passes : 0 .. MaxPasses, items : 0 .. MaxItemCalls]
      BY DEF TypeOK
    <3>2. CASE requests.passes < MaxPasses /\ requests' = [requests EXCEPT !.passes = @ + 1]
      BY <3>1, <3>2
    <3>3. CASE requests.items < MaxItemCalls /\ requests' = [requests EXCEPT !.items = @ + 1]
      BY <3>1, <3>3
    <3> QED
      BY <1>1, <3>2, <3>3 DEF Request
  <2> QED
    BY <1>1, <2>1, <2>2, EnqueueType
    DEF Request, TypeOK, workerVars, stopVars, outsideVars
<1>2. ASSUME NEW w \in Worker, WorkerStep(w) PROVE TypeOK'
  <2>1. CASE Receive(w)
    <3>1. Head(queue) \in JobId /\ Tail(queue) \in Seq(JobId)
            /\ Len(Tail(queue)) <= QueueDepth
      BY <2>1 DEF Receive, TypeOK
    <3> QED
      BY <2>1, <3>1 DEF Receive, TypeOK, stopVars, outsideVars
  <2>2. CASE Exit(w)
    BY <2>2 DEF Exit, TypeOK, tableVars, stopVars, outsideVars
  <2>3. CASE StartRun(w)
    BY <2>3 DEF StartRun, TypeOK, JobState, Live, stopVars, outsideVars
  <2>4. CASE DispatchFails(w)
    BY <2>4 DEF DispatchFails, Finish, Release, TypeOK, JobState, Terminal, stopVars
  <2>5. CASE CreateWorkload(w)
    BY <2>5 DEF CreateWorkload, TypeOK, tableVars, stopVars, workerVars
  <2>6. CASE RegisterCompletion(w)
    BY <2>6 DEF RegisterCompletion, Release, TypeOK, tableVars, stopVars, outsideVars
  <2>7. CASE SpawnLaunch(w)
    BY <2>7 DEF SpawnLaunch, Release, TypeOK, tableVars, stopVars
  <2> QED
    BY <1>2, <2>1, <2>2, <2>3, <2>4, <2>5, <2>6, <2>7 DEF WorkerStep
<1>3. ASSUME NEW id \in JobId, AwaiterStep(id) PROVE TypeOK'
  <2>1. ASSUME NEW result, Conclude(id, result)
        PROVE  /\ jobState' \in [JobId -> JobState]
               /\ inflight' \subseteq Key
               /\ awaiter' \in [JobId -> {"none", "waiting", "chaining", "unwinding"}]
               /\ expired' \subseteq JobId /\ heard' \subseteq JobId
               /\ UNCHANGED <<launcher, requests, created, jobKey, queue, closed,
                              stopped, wpc, wjob>>
    BY <2>1 DEF Conclude, Finish, TypeOK, JobState, Terminal, stopVars, workerVars
  <2>2. CASE FinishByCallback(id)
    BY <2>1, <2>2 DEF FinishByCallback, TypeOK
  <2>3. CASE FinishByWatch(id)
    BY <2>1, <2>3 DEF FinishByWatch, TypeOK
  <2>4. CASE LaunchReturns(id)
    BY <2>1, <2>4 DEF LaunchReturns, TypeOK
  <2>5. CASE Chain(id)
    <3>1. PICK k \in Key : Enqueue(k)
      BY <2>5 DEF Chain, NextKeys
    <3> QED
      BY <2>5, <3>1, EnqueueType
      DEF Chain, TypeOK, stopVars, workerVars, outsideVars
  <2>6. CASE Unwind(id)
    BY <2>6 DEF Unwind, TypeOK, tableVars, stopVars, workerVars
  <2> QED
    BY <1>3, <2>2, <2>3, <2>4, <2>5, <2>6 DEF AwaiterStep
<1>4. ASSUME NEW id \in JobId, OutsideStep(id) PROVE TypeOK'
  <2>1. CASE Deadline(id)
    BY <2>1 DEF Deadline, TypeOK, tableVars, stopVars, workerVars
  <2>2. CASE RuntimeEnds(id)
    BY <2>2 DEF RuntimeEnds, TypeOK, tableVars, stopVars, workerVars
  <2>3. CASE CompleteJob(id)
    <3>1. completions' \in [JobId -> {"none", "empty"} \union Terminal]
      BY <2>3 DEF CompleteJob, TypeOK
    <3> QED
      BY <2>3, <3>1 DEF CompleteJob, TypeOK, tableVars, stopVars, workerVars
  <2> QED
    BY <1>4, <2>1, <2>2, <2>3 DEF OutsideStep
<1>5. CASE Close
  BY <1>5 DEF Close, TypeOK, tableVars, workerVars, outsideVars
<1>6. CASE StopReturns
  BY <1>6 DEF StopReturns, TypeOK, tableVars, workerVars, outsideVars
<1>7. CASE UNCHANGED vars
  BY <1>7 DEF vars, TypeOK, tableVars, stopVars, workerVars, outsideVars
<1> QED
  BY <1>1, <1>2, <1>3, <1>4, <1>5, <1>6, <1>7 DEF Next

\* The state the code keeps, and the state of its goroutines, stays of its type:
\* in particular the queue never exceeds its capacity.
THEOREM TypeCorrect == SafetySpec => []TypeOK
BY TypeInit, TypeStep, PTL DEF SafetySpec

-----------------------------------------------------------------------------
(* The queue as a set of jobs.                                             *)

\* A send adds its job, and keeps a queue without duplicates free of them.
LEMMA AppendToQueue ==
    ASSUME NEW q \in Seq(JobId), NEW id \in JobId
    PROVE  /\ Range(Append(q, id)) = Range(q) \union {id}
           /\ IsInjective(q) /\ id \notin Range(q) => IsInjective(Append(q, id))
<1> DEFINE r == Append(q, id)
<1>1. /\ DOMAIN q = 1 .. Len(q) /\ DOMAIN r = 1 .. (Len(q) + 1)
      /\ Len(q) \in Nat
      /\ \A n \in 1 .. Len(q) : r[n] = q[n]
      /\ r[Len(q) + 1] = id
  OBVIOUS
<1>2. Range(r) = Range(q) \union {id}
  BY <1>1 DEF Range
<1>3. ASSUME IsInjective(q), id \notin Range(q) PROVE IsInjective(r)
  BY <1>1, <1>3 DEF IsInjective, Range
<1> QED
  BY <1>2, <1>3

\* A receive takes the head away, for good when there are no duplicates.
LEMMA TailOfQueue ==
    ASSUME NEW q \in Seq(JobId), q # <<>>
    PROVE  /\ Head(q) \in Range(q)
           /\ Range(q) = Range(Tail(q)) \union {Head(q)}
           /\ IsInjective(q) => IsInjective(Tail(q)) /\ Head(q) \notin Range(Tail(q))
<1> DEFINE r == Tail(q)
<1>1. /\ Len(q) \in Nat \ {0}
      /\ DOMAIN q = 1 .. Len(q) /\ DOMAIN r = 1 .. (Len(q) - 1)
      /\ \A n \in 1 .. (Len(q) - 1) : r[n] = q[n + 1]
      /\ Head(q) = q[1]
  OBVIOUS
<1>2. Head(q) \in Range(q)
  BY <1>1 DEF Range
<1>3. Range(q) = Range(r) \union {Head(q)}
  <2>1. ASSUME NEW x \in Range(q) PROVE x \in Range(r) \union {Head(q)}
    <3>1. PICK n \in 1 .. Len(q) : x = q[n]
      BY <1>1 DEF Range
    <3>2. CASE n = 1
      BY <1>1, <3>1, <3>2
    <3>3. CASE n # 1
      <4>1. n - 1 \in 1 .. (Len(q) - 1) /\ r[n - 1] = x
        BY <1>1, <3>1, <3>3
      <4> QED
        BY <1>1, <4>1 DEF Range
    <3> QED
      BY <3>2, <3>3
  <2>2. ASSUME NEW x \in Range(r) PROVE x \in Range(q)
    <3>1. PICK n \in 1 .. (Len(q) - 1) : x = r[n]
      BY <1>1 DEF Range
    <3>2. n + 1 \in 1 .. Len(q) /\ q[n + 1] = x
      BY <1>1, <3>1
    <3> QED
      BY <1>1, <3>2 DEF Range
  <2> QED
    BY <1>2, <2>1, <2>2
<1>4. ASSUME IsInjective(q) PROVE IsInjective(r) /\ Head(q) \notin Range(r)
  <2>1. \A m, n \in 1 .. Len(q) : q[m] = q[n] => m = n
    BY <1>1, <1>4 DEF IsInjective
  <2>2. ASSUME NEW m \in 1 .. (Len(q) - 1), NEW n \in 1 .. (Len(q) - 1), r[m] = r[n]
        PROVE  m = n
    <3>1. m + 1 \in 1 .. Len(q) /\ n + 1 \in 1 .. Len(q) /\ q[m + 1] = q[n + 1]
      BY <1>1, <2>2
    <3> QED
      BY <1>1, <2>1, <3>1
  <2>3. ASSUME NEW n \in 1 .. (Len(q) - 1), r[n] = Head(q) PROVE FALSE
    <3>1. n + 1 \in 1 .. Len(q) /\ 1 \in 1 .. Len(q) /\ q[n + 1] = q[1]
      BY <1>1, <2>3
    <3> QED
      BY <1>1, <2>1, <3>1
  <2> QED
    BY <1>1, <2>2, <2>3 DEF IsInjective, Range
<1> QED
  BY <1>2, <1>3, <1>4

-----------------------------------------------------------------------------
(* The inductive invariant.                                                *)

\* A new job takes an id nobody knows of, and touches no other job.
LEMMA NewJobEffect ==
    ASSUME IInv, NEW k \in Key, NewJob(k)
    PROVE  /\ created + 1 \in JobId /\ jobState[created + 1] = "absent"
           /\ created' = created + 1 /\ jobKey'[created + 1] = k
           /\ \A j \in JobId \ {created + 1} :
                jobKey'[j] = jobKey[j] /\ jobState'[j] = jobState[j]
           /\ \/ /\ jobState'[created + 1] = "pending"
                 /\ Range(queue') = Range(queue) \union {created + 1}
                 /\ IsInjective(queue')
                 /\ inflight' = inflight \union {k}
              \/ /\ jobState'[created + 1] = "failed"
                 /\ UNCHANGED <<queue, inflight>>
<1> USE OrchestratorAssumption, JobIdsAreNaturals
<1> DEFINE new == created + 1
<1>1. TypeOK /\ Custody /\ IdsInOrder /\ HeldOnce
  BY DEF IInv, Bookkeeping
<1>2. new \in JobId /\ new > created
  BY <1>1 DEF NewJob, TypeOK
<1>3. jobState[new] = "absent"
  BY <1>1, <1>2 DEF IdsInOrder
<1>4. new \notin Range(queue)
  BY <1>1, <1>2, <1>3 DEF Custody, Queued, IsLive, Live
<1>5. /\ created' = new /\ jobKey'[new] = k
      /\ \A j \in JobId \ {new} : jobKey'[j] = jobKey[j] /\ jobState'[j] = jobState[j]
  BY <1>1, <1>2 DEF NewJob, TypeOK
<1>6. CASE Len(queue) < QueueDepth
  <2>1. queue' = Append(queue, new) /\ inflight' = inflight \union {k}
        /\ jobState'[new] = "pending"
    BY <1>1, <1>2, <1>6 DEF NewJob, TypeOK
  <2>2. Range(queue') = Range(queue) \union {new} /\ IsInjective(queue')
    BY <1>1, <1>2, <1>4, <2>1, AppendToQueue DEF TypeOK, HeldOnce
  <2> QED
    BY <1>2, <1>3, <1>5, <2>1, <2>2
<1>7. CASE ~(Len(queue) < QueueDepth)
  BY <1>1, <1>2, <1>3, <1>5, <1>7 DEF NewJob, TypeOK
<1> QED
  BY <1>6, <1>7

\* enqueue, run by a request or by a goroutine that is chaining, keeps the books.
LEMMA EnqueueStep ==
    ASSUME IInv, NEW k \in Key, Enqueue(k),
           UNCHANGED <<launcher, completions, closed, stopped, wpc, wjob, runtime>>,
           \/ awaiter' = awaiter
           \/ \E id \in JobId : /\ awaiter[id] = "chaining"
                               /\ awaiter' = [awaiter EXCEPT ![id] = "unwinding"]
    PROVE  OneLivePerKey' /\ InflightIsLive' /\ Custody' /\ Bookkeeping'
<1> USE OrchestratorAssumption, JobIdsAreNaturals
<1>0. PICK new : new = created + 1
  OBVIOUS
<1>1. /\ TypeOK /\ OneLivePerKey /\ InflightIsLive /\ Custody
      /\ IdsInOrder /\ HeldOnce /\ AwaitersMatch /\ DrainBeforeStop
  BY DEF IInv, Bookkeeping
<1>2. /\ \A j \in JobId : awaiter'[j] = "waiting" <=> awaiter[j] = "waiting"
      /\ \A j \in JobId : awaiter'[j] = "none" <=> awaiter[j] = "none"
      /\ \A j \in JobId : awaiter'[j] = "chaining" => awaiter[j] = "chaining"
      /\ \A j \in JobId : awaiter'[j] = "unwinding" => awaiter[j] \in {"chaining", "unwinding"}
  BY <1>1 DEF TypeOK
<1>3. CASE UNCHANGED tableVars
  <2>1. OneLivePerKey' /\ InflightIsLive' /\ IdsInOrder'
    BY <1>1, <1>3 DEF tableVars, OneLivePerKey, InflightIsLive, IsLive, IdsInOrder
  <2>2. Custody' /\ HeldOnce'
    BY <1>1, <1>2, <1>3
    DEF tableVars, Custody, HeldOnce, Queued, Held, InHand, Awaited, IsLive
  <2>3. AwaitersMatch' /\ DrainBeforeStop'
    BY <1>1, <1>2, <1>3 DEF tableVars, AwaitersMatch, DrainBeforeStop, Drained, Terminal
  <2> QED
    BY <2>1, <2>2, <2>3 DEF Bookkeeping
<1>4. CASE Admits(k) /\ NewJob(k)
  <2>1. /\ new \in JobId /\ jobState[new] = "absent"
        /\ created' = new /\ jobKey'[new] = k
        /\ \A j \in JobId \ {new} : jobKey'[j] = jobKey[j] /\ jobState'[j] = jobState[j]
        /\ \/ /\ jobState'[new] = "pending"
              /\ Range(queue') = Range(queue) \union {new}
              /\ IsInjective(queue')
              /\ inflight' = inflight \union {k}
           \/ /\ jobState'[new] = "failed"
              /\ UNCHANGED <<queue, inflight>>
    BY <1>0, <1>4, NewJobEffect
  <2>2. ~closed /\ \A j \in JobId : IsLive(j) => jobKey[j] # k
    BY <1>1, <1>4 DEF Admits, InflightIsLive
  <2>3. /\ ~IsLive(new)
        /\ \A j \in JobId \ {new} : IsLive(j)' <=> IsLive(j)
        /\ IsLive(new)' <=> jobState'[new] = "pending"
    BY <2>1 DEF IsLive, Live
  <2>4. OneLivePerKey'
    BY <1>1, <2>1, <2>2, <2>3 DEF OneLivePerKey
  <2>5. InflightIsLive'
    <3>1. CASE jobState'[new] = "pending"
      BY <1>1, <2>1, <2>3, <3>1 DEF InflightIsLive
    <3>2. CASE jobState'[new] # "pending"
      BY <1>1, <2>1, <2>3, <3>2 DEF InflightIsLive
    <3> QED
      BY <3>1, <3>2
  <2>6. Custody'
    <3>1. \A j \in JobId : (Held(j)' <=> Held(j)) /\ (Awaited(j)' <=> Awaited(j))
      BY <1>2 DEF Held, InHand, Awaited
    <3>2. \A j \in JobId \ {new} : Queued(j)' <=> Queued(j)
      BY <2>1 DEF Queued
    <3>3. ~Held(new) /\ ~Awaited(new) /\ ~Queued(new)
      BY <1>1, <2>1, <2>3 DEF Custody
    <3>4. Queued(new)' <=> jobState'[new] = "pending"
      BY <2>1, <3>3 DEF Queued
    <3> QED
      BY <1>1, <2>1, <2>3, <3>1, <3>2, <3>3, <3>4 DEF Custody
  <2>7. IdsInOrder'
    BY <1>0, <1>1, <2>1 DEF IdsInOrder, TypeOK
  <2>8. HeldOnce'
    BY <1>1, <2>1 DEF HeldOnce, InHand
  <2>9. AwaitersMatch'
    BY <1>1, <1>2, <2>1 DEF AwaitersMatch, Terminal
  <2>10. DrainBeforeStop'
    BY <1>1, <2>2 DEF DrainBeforeStop
  <2> QED
    BY <2>4, <2>5, <2>6, <2>7, <2>8, <2>9, <2>10 DEF Bookkeeping
<1> QED
  BY <1>3, <1>4 DEF Enqueue

\* finish takes one live job out of the table, and its key with it.
LEMMA FinishStep ==
    ASSUME IInv, NEW id \in JobId, IsLive(id), NEW ok, Finish(id, ok)
    PROVE  /\ OneLivePerKey' /\ InflightIsLive' /\ IdsInOrder'
           /\ jobState'[id] = IF ok THEN "succeeded" ELSE "failed"
           /\ ~IsLive(id)'
           /\ \A j \in JobId \ {id} : /\ jobState'[j] = jobState[j]
                                      /\ IsLive(j)' <=> IsLive(j)
<1>1. TypeOK /\ OneLivePerKey /\ InflightIsLive /\ IdsInOrder
  BY DEF IInv, Bookkeeping
<1>2. /\ jobState'[id] = IF ok THEN "succeeded" ELSE "failed"
      /\ \A j \in JobId \ {id} : jobState'[j] = jobState[j]
      /\ jobKey' = jobKey /\ created' = created
      /\ inflight' = inflight \ {jobKey[id]}
  BY <1>1 DEF Finish, TypeOK
<1>3. /\ ~IsLive(id)'
      /\ \A j \in JobId \ {id} : IsLive(j)' <=> IsLive(j)
  BY <1>2 DEF IsLive, Live
<1>4. OneLivePerKey'
  BY <1>1, <1>2, <1>3 DEF OneLivePerKey
<1>5. InflightIsLive'
  BY <1>1, <1>2, <1>3 DEF InflightIsLive, OneLivePerKey
<1>6. IdsInOrder'
  <2>1. jobState[id] # "absent" /\ jobState'[id] # "absent"
    BY <1>2 DEF IsLive, Live
  <2> QED
    BY <1>1, <1>2, <2>1 DEF IdsInOrder
<1> QED
  BY <1>2, <1>3, <1>4, <1>5, <1>6

\* A worker's step moves its job along: from the queue into its hand, and from
\* its hand to an await goroutine or to a failed record.
LEMMA WorkerStepKeeps ==
    ASSUME IInv, TypeOK', NEW w \in Worker, WorkerStep(w)
    PROVE  IInv'
<1> USE OrchestratorAssumption, JobIdsAreNaturals
<1>1. /\ TypeOK /\ OneLivePerKey /\ InflightIsLive /\ Custody
      /\ IdsInOrder /\ HeldOnce /\ AwaitersMatch /\ DrainBeforeStop
  BY DEF IInv, Bookkeeping
<1>2. SUFFICES OneLivePerKey' /\ InflightIsLive' /\ Custody' /\ IdsInOrder' /\ HeldOnce'
                 /\ AwaitersMatch' /\ DrainBeforeStop'
  BY DEF IInv, Bookkeeping
<1>3. CASE Receive(w)
  <2> USE DEF Receive, stopVars, outsideVars
  <2>0. PICK id : id = Head(queue)
    OBVIOUS
  <2>1. /\ id \in JobId /\ id \in Range(queue)
        /\ Range(queue) = Range(queue') \union {id}
        /\ IsInjective(queue') /\ id \notin Range(queue')
    BY <1>1, <1>3, <2>0, TailOfQueue DEF TypeOK, HeldOnce
  <2>2. wpc[w] = "idle" /\ wpc'[w] = "received" /\ wjob'[w] = id
        /\ \A v \in Worker \ {w} : wpc'[v] = wpc[v] /\ wjob'[v] = wjob[v]
    BY <1>1, <1>3, <2>0 DEF TypeOK
  <2>3. /\ \A j \in JobId \ {id} : (Held(j)' <=> Held(j)) /\ (Queued(j)' <=> Queued(j))
        /\ Held(id)' /\ Queued(id) /\ ~Queued(id)' /\ ~Held(id)
        /\ \A j \in JobId : (Awaited(j)' <=> Awaited(j)) /\ (IsLive(j)' <=> IsLive(j))
    BY <1>1, <1>3, <2>1, <2>2 DEF Held, InHand, Queued, Awaited, IsLive, Custody
  <2>4. Custody'
    BY <1>1, <2>1, <2>3 DEF Custody
  <2>5. HeldOnce'
    <3>1. \A v \in Worker : ~InHand(v, id)
      BY <2>3 DEF Held
    <3> QED
      BY <1>1, <2>1, <2>2, <3>1 DEF HeldOnce, InHand
  <2>6. OneLivePerKey' /\ InflightIsLive' /\ IdsInOrder'
    BY <1>1, <1>3 DEF OneLivePerKey, InflightIsLive, IsLive, IdsInOrder
  <2>7. AwaitersMatch'
    BY <1>1, <1>3 DEF AwaitersMatch
  <2>8. DrainBeforeStop'
    BY <1>1, <1>3, <2>2 DEF DrainBeforeStop, Drained
  <2> QED
    BY <2>4, <2>5, <2>6, <2>7, <2>8
<1>4. CASE Exit(w)
  <2> USE DEF Exit, tableVars, stopVars, outsideVars
  <2>1. wpc[w] = "idle" /\ wpc'[w] = "exited"
        /\ \A v \in Worker \ {w} : wpc'[v] = wpc[v]
    BY <1>1, <1>4 DEF TypeOK
  <2>2. \A v \in Worker, j \in JobId : InHand(v, j)' <=> InHand(v, j)
    BY <1>4, <2>1 DEF InHand
  <2>3. Custody' /\ HeldOnce'
    BY <1>1, <1>4, <2>1, <2>2 DEF Custody, Held, Queued, Awaited, IsLive, HeldOnce
  <2>4. OneLivePerKey' /\ InflightIsLive' /\ IdsInOrder'
    BY <1>1, <1>4 DEF OneLivePerKey, InflightIsLive, IsLive, IdsInOrder
  <2>5. AwaitersMatch' /\ DrainBeforeStop'
    BY <1>1, <1>4, <2>1 DEF AwaitersMatch, DrainBeforeStop, Drained
  <2> QED
    BY <2>3, <2>4, <2>5
<1>5. CASE StartRun(w)
  <2> USE DEF StartRun, stopVars, outsideVars
  <2>0. PICK id : id = wjob[w]
    OBVIOUS
  <2>1. wpc[w] = "received" /\ wpc'[w] = "dispatching"
        /\ \A v \in Worker \ {w} : wpc'[v] = wpc[v]
    BY <1>1, <1>5 DEF TypeOK
  <2>2. id \in JobId /\ IsLive(id) /\ InHand(w, id)
    BY <1>1, <1>5, <2>0 DEF HeldOnce, Custody, Held, InHand
  <2>3. jobState'[id] = "running" /\ \A j \in JobId \ {id} : jobState'[j] = jobState[j]
    BY <1>1, <1>5, <2>0, <2>2 DEF TypeOK
  <2>4. \A j \in JobId : IsLive(j)' <=> IsLive(j)
    BY <2>2, <2>3 DEF IsLive, Live
  <2>5. \A v \in Worker, j \in JobId : InHand(v, j)' <=> InHand(v, j)
    BY <1>5, <2>1 DEF InHand
  <2>6. Custody' /\ HeldOnce'
    BY <1>1, <1>5, <2>1, <2>4, <2>5 DEF Custody, Held, Queued, Awaited, HeldOnce
  <2>7. OneLivePerKey' /\ InflightIsLive'
    BY <1>1, <1>5, <2>4 DEF OneLivePerKey, InflightIsLive
  <2>8. IdsInOrder'
    BY <1>1, <1>5, <2>2, <2>3 DEF IdsInOrder, IsLive, Live
  <2>9. AwaitersMatch'
    BY <1>1, <1>5, <2>2, <2>3 DEF AwaitersMatch, IsLive, Live, Terminal
  <2>10. DrainBeforeStop'
    BY <1>1, <1>5, <2>1 DEF DrainBeforeStop, Drained
  <2> QED
    BY <2>6, <2>7, <2>8, <2>9, <2>10
<1>6. CASE DispatchFails(w)
  <2> USE DEF stopVars
  <2>0. PICK id : id = wjob[w]
    OBVIOUS
  <2>1. wpc[w] = "dispatching" /\ wpc'[w] = "idle"
        /\ \A v \in Worker \ {w} : wpc'[v] = wpc[v] /\ wjob'[v] = wjob[v]
    BY <1>1, <1>6 DEF DispatchFails, Release, TypeOK
  <2>2. id \in JobId /\ InHand(w, id) /\ IsLive(id) /\ ~Queued(id) /\ ~Awaited(id)
    BY <1>1, <2>0, <2>1 DEF HeldOnce, Custody, Held, InHand
  <2>3. /\ OneLivePerKey' /\ InflightIsLive' /\ IdsInOrder'
        /\ jobState'[id] = "failed" /\ ~IsLive(id)'
        /\ \A j \in JobId \ {id} : /\ jobState'[j] = jobState[j]
                                   /\ IsLive(j)' <=> IsLive(j)
    BY <1>6, <2>0, <2>2, FinishStep DEF DispatchFails
  <2>4. UNCHANGED <<launcher, queue, awaiter, completions, closed, stopped>>
    BY <1>6 DEF DispatchFails, Finish
  <2>5. \A j \in JobId \ {id} : Held(j)' <=> Held(j)
    BY <2>0, <2>1 DEF Held, InHand
  <2>6. ~Held(id)'
    BY <1>1, <2>1, <2>2 DEF Held, InHand, HeldOnce
  <2>7. Custody'
    BY <1>1, <2>2, <2>3, <2>4, <2>5, <2>6 DEF Custody, Queued, Awaited
  <2>8. HeldOnce'
    BY <1>1, <2>1, <2>4 DEF HeldOnce, InHand
  <2>9. AwaitersMatch'
    <3>1. awaiter[id] = "none"
      BY <1>1, <2>2 DEF AwaitersMatch, TypeOK, IsLive, Live, Terminal, Awaited
    <3>2. \A j \in JobId \ {id} : runtime'[j] = runtime[j]
      BY <1>1, <1>6, <2>0 DEF DispatchFails, TypeOK
    <3>3. completions[id] = "none"
      BY <1>1, <2>2, <3>1 DEF AwaitersMatch
    <3> QED
      BY <1>1, <2>3, <2>4, <3>1, <3>2, <3>3 DEF AwaitersMatch, Terminal
  <2>10. DrainBeforeStop'
    BY <1>1, <2>1, <2>4 DEF DrainBeforeStop, Drained
  <2> QED
    BY <2>3, <2>7, <2>8, <2>9, <2>10
<1>7. CASE CreateWorkload(w)
  <2> USE DEF CreateWorkload, tableVars, stopVars, workerVars
  <2>1. wjob[w] \in JobId /\ InHand(w, wjob[w])
    BY <1>1, <1>7 DEF HeldOnce, InHand
  <2>2. completions[wjob[w]] = "none"
    BY <1>1, <1>7, <2>1
    DEF AwaitersMatch, TypeOK, Custody, Held, Awaited, IsLive, Live, Terminal
  <2>3. AwaitersMatch'
    BY <1>1, <1>7, <2>1, <2>2 DEF AwaitersMatch, TypeOK, Terminal
  <2>4. OneLivePerKey' /\ InflightIsLive' /\ IdsInOrder'
    BY <1>1, <1>7 DEF OneLivePerKey, InflightIsLive, IsLive, IdsInOrder
  <2>5. Custody' /\ HeldOnce'
    BY <1>1, <1>7 DEF Custody, Queued, Held, InHand, Awaited, IsLive, HeldOnce
  <2>6. DrainBeforeStop'
    BY <1>1, <1>7 DEF DrainBeforeStop, Drained
  <2> QED
    BY <2>3, <2>4, <2>5, <2>6
<1>8. ASSUME NEW id \in JobId, id = wjob[w], wpc[w] = "dispatching", Release(w),
             awaiter' = [awaiter EXCEPT ![id] = "waiting"],
             completions' = completions
               \/ completions' = [completions EXCEPT ![id] = "empty"],
             \A j \in JobId \ {id} : runtime'[j] = runtime[j],
             launcher # "blocking" \/ completions' = completions,
             UNCHANGED <<launcher, tableVars, stopVars>>
      PROVE  IInv'
  <2>0. UNCHANGED <<created, jobKey, jobState, queue, inflight, closed, stopped>>
    BY <1>8 DEF tableVars, stopVars
  <2>1. wpc'[w] = "idle"
        /\ \A v \in Worker \ {w} : wpc'[v] = wpc[v] /\ wjob'[v] = wjob[v]
    BY <1>1, <1>8 DEF Release, TypeOK
  <2>2. InHand(w, id) /\ IsLive(id) /\ ~Queued(id) /\ ~Awaited(id)
    BY <1>1, <1>8 DEF Custody, Held, InHand
  <2>3. awaiter[id] = "none" /\ completions[id] = "none"
    BY <1>1, <2>2 DEF AwaitersMatch, TypeOK, Awaited, IsLive, Live, Terminal
  <2>4. awaiter'[id] = "waiting" /\ \A j \in JobId \ {id} : awaiter'[j] = awaiter[j]
    BY <1>1, <1>8 DEF TypeOK
  <2>5. completions'[id] \in {"none", "empty"}
        /\ \A j \in JobId \ {id} : completions'[j] = completions[j]
    BY <1>1, <1>8, <2>3 DEF TypeOK
  <2>6. /\ ~Held(id)' /\ Awaited(id)'
        /\ \A j \in JobId \ {id} : (Held(j)' <=> Held(j)) /\ (Awaited(j)' <=> Awaited(j))
    BY <1>1, <1>8, <2>1, <2>2, <2>4 DEF Held, InHand, HeldOnce, Awaited
  <2>7. Custody'
    BY <1>1, <2>0, <2>2, <2>6 DEF Custody, Queued, IsLive
  <2>8. HeldOnce'
    BY <1>1, <2>0, <2>1 DEF HeldOnce, InHand
  <2>9. AwaitersMatch'
    <3>1. completions'[id] # "none" => launcher' # "blocking"
      BY <1>8, <2>3
    <3>2. \A j \in JobId \ {id} : runtime'[j] = runtime[j]
      BY <1>8
    <3>3. launcher' = launcher
      BY <1>8
    <3> QED
      BY <1>1, <2>0, <2>4, <2>5, <3>1, <3>2, <3>3 DEF AwaitersMatch, Terminal
  <2>10. OneLivePerKey' /\ InflightIsLive' /\ IdsInOrder'
    BY <1>1, <2>0 DEF OneLivePerKey, InflightIsLive, IsLive, IdsInOrder
  <2>11. DrainBeforeStop'
    BY <1>1, <1>8, <2>0, <2>1 DEF DrainBeforeStop, Drained
  <2> QED
    BY <2>7, <2>8, <2>9, <2>10, <2>11 DEF IInv, Bookkeeping
<1>9. CASE RegisterCompletion(w)
  <2>1. PICK id \in JobId : id = wjob[w]
    BY <1>1, <1>9 DEF RegisterCompletion, HeldOnce
  <2>2. /\ wpc[w] = "dispatching" /\ Release(w)
        /\ awaiter' = [awaiter EXCEPT ![id] = "waiting"]
        /\ completions' = [completions EXCEPT ![id] = "empty"]
        /\ \A j \in JobId \ {id} : runtime'[j] = runtime[j]
        /\ launcher # "blocking" /\ UNCHANGED <<launcher, tableVars, stopVars>>
    BY <1>9, <2>1 DEF RegisterCompletion, outsideVars
  <2>3. IInv'
    BY <1>8, <2>1, <2>2
  <2> QED
    BY <2>3 DEF IInv, Bookkeeping
<1>10. CASE SpawnLaunch(w)
  <2>1. PICK id \in JobId : id = wjob[w]
    BY <1>1, <1>10 DEF SpawnLaunch, HeldOnce
  <2>2. /\ wpc[w] = "dispatching" /\ Release(w)
        /\ awaiter' = [awaiter EXCEPT ![id] = "waiting"]
        /\ completions' = completions
        /\ \A j \in JobId \ {id} : runtime'[j] = runtime[j]
        /\ UNCHANGED <<launcher, tableVars, stopVars>>
    BY <1>1, <1>10, <2>1 DEF SpawnLaunch, TypeOK
  <2>3. IInv'
    BY <1>8, <2>1, <2>2
  <2> QED
    BY <2>3 DEF IInv, Bookkeeping
<1> QED
  BY <1>3, <1>4, <1>5, <1>6, <1>7, <1>9, <1>10 DEF WorkerStep

\* The end of the wait: the goroutine that had the job in its charge, and only
\* it, takes the job out of the table, and is left to chain or to unwind.
LEMMA ConcludeKeeps ==
    ASSUME IInv, TypeOK', NEW id \in JobId, awaiter[id] = "waiting",
           NEW result, Conclude(id, result),
           \A j \in JobId \ {id} : /\ completions'[j] = completions[j]
                                 /\ runtime'[j] = runtime[j],
           completions'[id] # "none" => completions[id] # "none",
           completions'[id] \in Terminal => runtime'[id] = completions'[id]
    PROVE  /\ IInv'
           /\ jobState'[id] = IF result = "succeeded" THEN "succeeded" ELSE "failed"
           /\ \A j \in JobId \ {id} : jobState'[j] = jobState[j]
<1> USE OrchestratorAssumption, JobIdsAreNaturals
<1>1. /\ TypeOK /\ Custody /\ HeldOnce /\ AwaitersMatch /\ DrainBeforeStop
  BY DEF IInv, Bookkeeping
<1>2. IsLive(id) /\ ~Queued(id) /\ ~Held(id)
  BY <1>1 DEF Custody, Awaited
<1>3. Finish(id, result = "succeeded")
  BY DEF Conclude
<1>4. /\ OneLivePerKey' /\ InflightIsLive' /\ IdsInOrder'
      /\ jobState'[id] = IF result = "succeeded" THEN "succeeded" ELSE "failed"
      /\ ~IsLive(id)'
      /\ \A j \in JobId \ {id} : /\ jobState'[j] = jobState[j]
                                 /\ IsLive(j)' <=> IsLive(j)
  BY <1>2, <1>3, FinishStep
<1>5. UNCHANGED <<launcher, queue, closed, stopped, wpc, wjob>>
  BY DEF Conclude, Finish, stopVars, workerVars
<1>6. /\ \A j \in JobId \ {id} : awaiter'[j] = awaiter[j]
      /\ \/ awaiter'[id] = "chaining" /\ result = "succeeded"
         \/ awaiter'[id] = "unwinding"
  BY <1>1 DEF Conclude, TypeOK
<1>7. Custody'
  BY <1>1, <1>2, <1>4, <1>5, <1>6 DEF Custody, Queued, Held, InHand, Awaited
<1>8. HeldOnce'
  BY <1>1, <1>5 DEF HeldOnce, InHand
<1>9. AwaitersMatch'
  <2>1. jobState'[id] \in Terminal
        /\ (awaiter'[id] = "chaining" => jobState'[id] = "succeeded")
    BY <1>4, <1>6 DEF Terminal
  <2>2. completions'[id] # "none" => launcher # "blocking" /\ awaiter'[id] # "none"
    BY <1>1, <1>6 DEF AwaitersMatch
  <2> QED
    BY <1>1, <1>4, <1>5, <1>6, <2>1, <2>2 DEF AwaitersMatch
<1>10. DrainBeforeStop'
  <2>1. ~stopped
    BY <1>1 DEF DrainBeforeStop, Drained
  <2> QED
    BY <1>1, <1>5, <2>1 DEF DrainBeforeStop
<1> QED
  BY <1>4, <1>7, <1>8, <1>9, <1>10 DEF IInv, Bookkeeping

\* An await goroutine's step leaves every job in one pair of hands.
LEMMA AwaiterStepKeeps ==
    ASSUME IInv, TypeOK', NEW id \in JobId, AwaiterStep(id)
    PROVE  IInv'
<1> USE OrchestratorAssumption, JobIdsAreNaturals
<1>1. /\ TypeOK /\ OneLivePerKey /\ InflightIsLive /\ Custody
      /\ IdsInOrder /\ HeldOnce /\ AwaitersMatch /\ DrainBeforeStop
  BY DEF IInv, Bookkeeping
<1>2. CASE FinishByCallback(id)
  <2>1. PICK result : Conclude(id, result)
    BY <1>2 DEF FinishByCallback
  <2>2. /\ \A j \in JobId \ {id} : /\ completions'[j] = completions[j]
                                  /\ runtime'[j] = runtime[j]
        /\ completions'[id] \notin Terminal /\ completions[id] # "none"
    BY <1>1, <1>2 DEF FinishByCallback, TypeOK, Terminal
  <2> QED
    BY <1>2, <2>1, <2>2, ConcludeKeeps DEF FinishByCallback
<1>3. CASE FinishByWatch(id)
  <2>1. PICK result : Conclude(id, result)
    BY <1>3 DEF FinishByWatch
  <2> QED
    BY <1>1, <1>3, <2>1, ConcludeKeeps DEF FinishByWatch, AwaitersMatch
<1>4. CASE LaunchReturns(id)
  <2>1. PICK end \in Terminal : /\ runtime' = [runtime EXCEPT ![id] = end]
                                /\ Conclude(id, end)
    BY <1>4 DEF LaunchReturns
  <2>2. completions[id] \notin Terminal
    BY <1>1, <1>4 DEF LaunchReturns, AwaitersMatch, Terminal
  <2> QED
    BY <1>1, <1>4, <2>1, <2>2, ConcludeKeeps DEF LaunchReturns, TypeOK
<1>5. CASE Chain(id)
  <2>1. PICK k \in Key : Enqueue(k)
    BY <1>5 DEF Chain, NextKeys
  <2>2. /\ UNCHANGED <<launcher, completions, closed, stopped, wpc, wjob, runtime>>
        /\ awaiter[id] = "chaining" /\ awaiter' = [awaiter EXCEPT ![id] = "unwinding"]
    BY <1>5 DEF Chain, stopVars, workerVars, outsideVars
  <2> QED
    BY <2>1, <2>2, EnqueueStep DEF IInv
<1>6. CASE Unwind(id)
  <2> USE DEF Unwind, tableVars, stopVars, workerVars
  <2>1. /\ \A j \in JobId \ {id} : /\ completions'[j] = completions[j]
                                  /\ awaiter'[j] = awaiter[j]
                                  /\ runtime'[j] = runtime[j]
        /\ completions'[id] = "none" /\ awaiter[id] = "unwinding" /\ awaiter'[id] = "none"
    BY <1>1, <1>6 DEF TypeOK
  <2>2. OneLivePerKey' /\ InflightIsLive' /\ IdsInOrder'
    BY <1>1, <1>6 DEF OneLivePerKey, InflightIsLive, IsLive, IdsInOrder
  <2>3. Custody' /\ HeldOnce'
    BY <1>1, <1>6, <2>1 DEF Custody, Queued, Held, InHand, Awaited, IsLive, HeldOnce
  <2>4. AwaitersMatch'
    BY <1>1, <1>6, <2>1 DEF AwaitersMatch, Terminal
  <2>5. DrainBeforeStop'
    BY <1>1, <1>6, <2>1 DEF DrainBeforeStop, Drained
  <2> QED
    BY <2>2, <2>3, <2>4, <2>5 DEF IInv, Bookkeeping
<1> QED
  BY <1>2, <1>3, <1>4, <1>5, <1>6 DEF AwaiterStep

\* The clock, the runtime and CompleteJob move nothing but their own records.
LEMMA OutsideStepKeeps ==
    ASSUME IInv, TypeOK', NEW id \in JobId, OutsideStep(id)
    PROVE  IInv'
<1>1. /\ TypeOK /\ OneLivePerKey /\ InflightIsLive /\ Custody
      /\ IdsInOrder /\ HeldOnce /\ AwaitersMatch /\ DrainBeforeStop
  BY DEF IInv, Bookkeeping
<1>2. UNCHANGED <<launcher, created, jobKey, jobState, queue, inflight, closed, stopped,
                  wpc, wjob, awaiter>>
  BY DEF OutsideStep, Deadline, RuntimeEnds, CompleteJob, tableVars, stopVars, workerVars
<1>3. OneLivePerKey' /\ InflightIsLive' /\ IdsInOrder'
  BY <1>1, <1>2 DEF OneLivePerKey, InflightIsLive, IsLive, IdsInOrder
<1>4. Custody' /\ HeldOnce' /\ DrainBeforeStop'
  BY <1>1, <1>2
  DEF Custody, Queued, Held, InHand, Awaited, IsLive, HeldOnce, DrainBeforeStop, Drained
<1>5. AwaitersMatch'
  <2>1. CASE Deadline(id)
    BY <1>1, <1>2, <2>1 DEF Deadline, AwaitersMatch
  <2>2. CASE RuntimeEnds(id)
    <3>1. completions[id] \notin Terminal
      BY <1>1, <2>2 DEF RuntimeEnds, AwaitersMatch, Terminal
    <3> QED
      BY <1>1, <1>2, <2>2, <3>1 DEF RuntimeEnds, AwaitersMatch, TypeOK
  <2>3. CASE CompleteJob(id)
    <3>1. /\ \A j \in JobId \ {id} : completions'[j] = completions[j]
          /\ completions'[id] = IF completions[id] = "empty" THEN runtime[id]
                                 ELSE completions[id]
          /\ runtime' = runtime
      BY <1>1, <2>3 DEF CompleteJob, TypeOK
    <3> QED
      BY <1>1, <1>2, <3>1 DEF AwaitersMatch
  <2> QED
    BY <2>1, <2>2, <2>3 DEF OutsideStep
<1> QED
  BY <1>3, <1>4, <1>5 DEF IInv, Bookkeeping

LEMMA InvariantInit == Init => IInv
<1> USE OrchestratorAssumption, JobIdsAreNaturals
<1> SUFFICES ASSUME Init PROVE IInv
  OBVIOUS
<1>1. TypeOK
  BY TypeInit
<1>2. \A id \in JobId : ~IsLive(id) /\ ~Held(id) /\ ~Awaited(id) /\ ~Queued(id)
  BY DEF Init, IsLive, Live, Held, InHand, Awaited, Queued, Range
<1>3. OneLivePerKey /\ InflightIsLive /\ Custody
  BY <1>2 DEF OneLivePerKey, InflightIsLive, Custody, Init
<1>4. IdsInOrder
  BY DEF Init, IdsInOrder
<1>5. HeldOnce
  BY DEF Init, HeldOnce, InHand, IsInjective
<1>6. AwaitersMatch /\ DrainBeforeStop
  BY DEF Init, AwaitersMatch, DrainBeforeStop, Terminal
<1> QED
  BY <1>1, <1>3, <1>4, <1>5, <1>6 DEF IInv, Bookkeeping

LEMMA InvariantStep == IInv /\ [Next]_vars => IInv'
<1> SUFFICES ASSUME IInv, [Next]_vars PROVE IInv'
  OBVIOUS
<1>1. TypeOK'
  BY TypeStep DEF IInv
<1>2. ASSUME NEW k \in Requestable, Request(k) PROVE IInv'
  <2>1. k \in Key /\ Enqueue(k)
    BY <1>2 DEF Requestable, Request
  <2>2. /\ UNCHANGED <<launcher, completions, closed, stopped, wpc, wjob, runtime>>
        /\ awaiter' = awaiter
    BY <1>2 DEF Request, stopVars, workerVars, outsideVars
  <2> QED
    BY <1>1, <2>1, <2>2, EnqueueStep DEF IInv
<1>3. ASSUME NEW w \in Worker, WorkerStep(w) PROVE IInv'
  BY <1>1, <1>3, WorkerStepKeeps
<1>4. ASSUME NEW id \in JobId, AwaiterStep(id) PROVE IInv'
  BY <1>1, <1>4, AwaiterStepKeeps
<1>5. ASSUME NEW id \in JobId, OutsideStep(id) PROVE IInv'
  BY <1>1, <1>5, OutsideStepKeeps
<1>6. ASSUME UNCHANGED <<launcher, tableVars, completions, workerVars, awaiter, runtime>>,
             closed => closed',
             stopped' => stopped \/ (closed' /\ Drained)
      PROVE  IInv'
  <2> USE <1>6 DEF tableVars, workerVars, IInv, Bookkeeping
  <2>1. OneLivePerKey' /\ InflightIsLive' /\ IdsInOrder'
    BY DEF OneLivePerKey, InflightIsLive, IsLive, IdsInOrder
  <2>2. Custody' /\ HeldOnce'
    BY DEF Custody, Queued, Held, InHand, Awaited, IsLive, HeldOnce
  <2>3. AwaitersMatch'
    BY DEF AwaitersMatch
  <2>4. DrainBeforeStop'
    BY DEF DrainBeforeStop, Drained
  <2> QED
    BY <1>1, <2>1, <2>2, <2>3, <2>4
<1>7. CASE Close
  <2>1. UNCHANGED <<launcher, tableVars, completions, workerVars, awaiter, runtime, stopped>>
    BY <1>7 DEF Close, outsideVars
  <2>2. (closed => closed') /\ (stopped' => stopped)
    BY <1>7, <2>1 DEF Close
  <2> QED
    BY <1>6, <2>1, <2>2
<1>8. CASE StopReturns
  <2>1. UNCHANGED <<launcher, tableVars, completions, workerVars, awaiter, runtime, closed>>
    BY <1>8 DEF StopReturns, outsideVars
  <2> QED
    BY <1>6, <1>8, <2>1 DEF StopReturns
<1>9. CASE UNCHANGED vars
  <2>1. UNCHANGED <<launcher, tableVars, completions, workerVars, awaiter, runtime>>
        /\ (closed => closed') /\ (stopped' => stopped)
    BY <1>9 DEF vars, stopVars, outsideVars
  <2> QED
    BY <1>6, <2>1
<1> QED
  BY <1>2, <1>3, <1>4, <1>5, <1>7, <1>8, <1>9 DEF Next

\* The inductive invariant holds of every reachable state of the orchestrator.
THEOREM InvariantHolds == SafetySpec => []IInv
BY InvariantInit, InvariantStep, PTL DEF SafetySpec

\* Dedupe: enqueue and finish never leave two live jobs about the same work.
THEOREM NoDuplicateWork == SafetySpec => []OneLivePerKey
BY InvariantHolds, PTL DEF IInv

\* No key is left reserved in o.inflight once its job is over, whichever way it
\* ended, and none is free while its job is live.
THEOREM KeysAreFreed == SafetySpec => []InflightIsLive
BY InvariantHolds, PTL DEF IInv

\* Every live job is in the charge of the queue, of one worker or of its await
\* goroutine, so finish runs for it, and runs once.
THEOREM JobsAreInOneHand == SafetySpec => []Custody
BY InvariantHolds, PTL DEF IInv

\* Ids, hand-overs, channels and the drain keep agreeing with the job table.
THEOREM BooksAgree == SafetySpec => []Bookkeeping
BY InvariantHolds, PTL DEF IInv

\* Stop leaves nothing behind: no job, no key, no channel to signal.
THEOREM StopLeavesNothing == SafetySpec => []StoppedIsQuiet
<1>1. IInv => StoppedIsQuiet
  <2> SUFFICES ASSUME IInv, stopped
               PROVE  /\ \A id \in JobId : ~IsLive(id) /\ completions[id] = "none"
                      /\ queue = <<>> /\ inflight = {}
    BY DEF StoppedIsQuiet
  <2>1. /\ Custody /\ InflightIsLive /\ AwaitersMatch /\ DrainBeforeStop
    BY DEF IInv, Bookkeeping
  <2>2. /\ \A w \in Worker : wpc[w] = "exited"
        /\ \A id \in JobId : awaiter[id] = "none"
    BY <2>1 DEF DrainBeforeStop, Drained
  <2>3. queue = <<>>
    BY <2>1, <2>2, OrchestratorAssumption DEF DrainBeforeStop
  <2>4. \A id \in JobId : ~Queued(id) /\ ~Held(id) /\ ~Awaited(id)
    BY <2>2, <2>3 DEF Queued, Held, InHand, Awaited, Range
  <2>5. \A id \in JobId : ~IsLive(id) /\ completions[id] = "none"
    BY <2>1, <2>2, <2>4 DEF Custody, AwaitersMatch
  <2> QED
    BY <2>1, <2>3, <2>5 DEF InflightIsLive
<1> QED
  BY <1>1, InvariantHolds, PTL

-----------------------------------------------------------------------------
(* What a step does to the job table.                                      *)

\* No job starts, settles or changes its key.
TableSettled ==
    /\ jobKey' = jobKey
    /\ \A id \in JobId :
         /\ jobState'[id] = "absent" <=> jobState[id] = "absent"
         /\ IsLive(id)' <=> IsLive(id)
         /\ ~IsLive(id) => jobState'[id] = jobState[id]

\* A job is recorded for a key that may be: requested, or handed on by a success.
Recorded ==
    \E k \in Key :
        /\ Admits(k) /\ NewJob(k)
        /\ \/ k \in Requestable
           \/ \E id \in JobId : jobState[id] = "succeeded" /\ k \in NextKeys(jobKey[id])

\* A live job is finalized, as succeeded only when its runtime succeeded.
Finalized ==
    \E id \in JobId, ok \in BOOLEAN :
        /\ IsLive(id) /\ Finish(id, ok)
        /\ ok => runtime'[id] = "succeeded"

\* Every step is one of four kinds, as far as callers can tell.
LEMMA StepKinds ==
    ASSUME IInv, [Next]_vars
    PROVE  \/ TableSettled /\ closed' = closed /\ Len(queue') <= Len(queue)
           \/ TableSettled /\ ~closed /\ closed' = TRUE /\ queue' = queue
           \/ Recorded /\ closed' = closed
           \/ Finalized /\ closed' = closed
<1> USE OrchestratorAssumption, JobIdsAreNaturals
<1> DEFINE Kind ==
             \/ TableSettled /\ closed' = closed /\ Len(queue') <= Len(queue)
             \/ TableSettled /\ ~closed /\ closed' = TRUE /\ queue' = queue
             \/ Recorded /\ closed' = closed
             \/ Finalized /\ closed' = closed
<1>1. /\ TypeOK /\ Custody /\ HeldOnce /\ AwaitersMatch
  BY DEF IInv, Bookkeeping
<1>2. Len(queue) \in Nat
  BY <1>1 DEF TypeOK
<1>3. ASSUME UNCHANGED <<jobKey, jobState, queue, closed>> PROVE Kind
  BY <1>2, <1>3 DEF TableSettled, IsLive
<1>4. ASSUME NEW k \in Requestable, Request(k) PROVE Kind
  <2>1. k \in Key /\ closed' = closed
    BY <1>4 DEF Request, Requestable, stopVars
  <2>2. CASE Admits(k) /\ NewJob(k)
    BY <2>1, <2>2 DEF Recorded
  <2>3. CASE UNCHANGED tableVars
    BY <1>3, <2>1, <2>3 DEF tableVars
  <2> QED
    BY <1>4, <2>2, <2>3 DEF Request, Enqueue
<1>5. ASSUME NEW w \in Worker, WorkerStep(w) PROVE Kind
  <2>1. CASE Receive(w)
    <3>1. Len(queue') <= Len(queue)
      BY <1>1, <2>1 DEF Receive, TypeOK
    <3>2. TableSettled /\ closed' = closed
      BY <2>1 DEF Receive, TableSettled, IsLive, stopVars
    <3> QED
      BY <3>1, <3>2
  <2>2. CASE StartRun(w)
    <3>1. wjob[w] \in JobId /\ IsLive(wjob[w])
      BY <1>1, <2>2 DEF StartRun, HeldOnce, Custody, Held, InHand
    <3>2. TableSettled /\ closed' = closed /\ queue' = queue
      BY <1>1, <2>2, <3>1 DEF StartRun, TableSettled, IsLive, Live, TypeOK, stopVars
    <3> QED
      BY <1>2, <3>2
  <2>3. CASE DispatchFails(w)
    <3>1. wjob[w] \in JobId /\ IsLive(wjob[w])
      BY <1>1, <2>3 DEF DispatchFails, HeldOnce, Custody, Held, InHand
    <3> QED
      BY <2>3, <3>1 DEF DispatchFails, Finalized, stopVars
  <2>4. CASE Exit(w) \/ CreateWorkload(w) \/ RegisterCompletion(w) \/ SpawnLaunch(w)
    BY <1>3, <2>4
    DEF Exit, CreateWorkload, RegisterCompletion, SpawnLaunch, tableVars, stopVars
  <2> QED
    BY <1>5, <2>1, <2>2, <2>3, <2>4 DEF WorkerStep
<1>6. ASSUME NEW id \in JobId, AwaiterStep(id) PROVE Kind
  <2>1. ASSUME NEW result, awaiter[id] = "waiting", Conclude(id, result),
               result = "succeeded" => runtime'[id] = "succeeded"
        PROVE  Kind
    <3>1. IsLive(id)
      BY <1>1, <2>1 DEF Custody, Awaited
    <3>2. Finish(id, result = "succeeded") /\ closed' = closed
      BY <2>1 DEF Conclude, stopVars
    <3>3. CASE result = "succeeded"
      <4>1. Finish(id, TRUE)
        BY <3>2, <3>3 DEF Finish
      <4> QED
        BY <2>1, <3>1, <3>2, <3>3, <4>1 DEF Finalized
    <3>4. CASE result # "succeeded"
      <4>1. Finish(id, FALSE)
        BY <3>2, <3>4 DEF Finish
      <4> QED
        BY <2>1, <3>1, <3>2, <3>4, <4>1 DEF Finalized
    <3> QED
      BY <3>3, <3>4
  <2>2. CASE FinishByCallback(id)
    <3>1. runtime'[id] = completions[id] /\ Conclude(id, completions[id])
      BY <1>1, <2>2 DEF FinishByCallback, AwaitersMatch
    <3> QED
      BY <2>1, <2>2, <3>1 DEF FinishByCallback
  <2>3. CASE FinishByWatch(id)
    <3>1. PICK result \in WatchResults(id) : Conclude(id, result)
      BY <2>3 DEF FinishByWatch
    <3>2. result = "succeeded" => runtime'[id] = "succeeded"
      BY <2>3, <3>1 DEF FinishByWatch, WatchResults
    <3> QED
      BY <2>1, <2>3, <3>1, <3>2 DEF FinishByWatch
  <2>4. CASE LaunchReturns(id)
    <3>1. PICK end \in Terminal : runtime'[id] = end /\ Conclude(id, end)
      BY <1>1, <2>4 DEF LaunchReturns, TypeOK
    <3> QED
      BY <2>1, <2>4, <3>1 DEF LaunchReturns
  <2>5. CASE Chain(id)
    <3>1. PICK k \in NextKeys(jobKey[id]) : Enqueue(k)
      BY <2>5 DEF Chain
    <3>2. k \in Key /\ closed' = closed /\ jobState[id] = "succeeded"
      BY <1>1, <2>5, <3>1 DEF Chain, NextKeys, AwaitersMatch, stopVars
    <3>3. CASE Admits(k) /\ NewJob(k)
      BY <3>1, <3>2, <3>3 DEF Recorded
    <3>4. CASE UNCHANGED tableVars
      BY <1>3, <3>2, <3>4 DEF tableVars
    <3> QED
      BY <3>1, <3>3, <3>4 DEF Enqueue
  <2>6. CASE Unwind(id)
    BY <1>3, <2>6 DEF Unwind, tableVars, stopVars
  <2> QED
    BY <1>6, <2>2, <2>3, <2>4, <2>5, <2>6 DEF AwaiterStep
<1>7. ASSUME NEW id \in JobId, OutsideStep(id) PROVE Kind
  BY <1>3, <1>7 DEF OutsideStep, Deadline, RuntimeEnds, CompleteJob, tableVars, stopVars
<1>8. CASE Close
  BY <1>8 DEF Close, TableSettled, IsLive, tableVars
<1>9. CASE StopReturns \/ UNCHANGED vars
  BY <1>3, <1>9 DEF StopReturns, vars, tableVars, stopVars
<1> QED
  BY <1>4, <1>5, <1>6, <1>7, <1>8, <1>9 DEF Next

\* How the job table moves in a step that records a job, and in one that ends one.
LEMMA TableMoves ==
    ASSUME IInv, [Next]_vars, NEW id \in JobId
    PROVE  /\ jobState[id] \in Terminal => jobState'[id] = jobState[id]
           /\ jobState[id] # "absent" => jobKey'[id] = jobKey[id]
           /\ IsLive(id) /\ jobState'[id] = "succeeded" => runtime'[id] = "succeeded"
<1>1. TypeOK
  BY DEF IInv
<1>2. CASE TableSettled
  BY <1>2 DEF TableSettled, IsLive, Live, Terminal
<1>3. CASE Recorded
  <2>1. PICK k \in Key : NewJob(k)
    BY <1>3 DEF Recorded
  <2>2. /\ jobState[created + 1] = "absent"
        /\ \A j \in JobId \ {created + 1} :
             jobKey'[j] = jobKey[j] /\ jobState'[j] = jobState[j]
    BY <2>1, NewJobEffect
  <2> QED
    BY <2>2 DEF IsLive, Live, Terminal
<1>4. CASE Finalized
  <2>1. PICK end \in JobId, ok \in BOOLEAN :
          IsLive(end) /\ Finish(end, ok) /\ (ok => runtime'[end] = "succeeded")
    BY <1>4 DEF Finalized
  <2>2. /\ jobState'[end] = IF ok THEN "succeeded" ELSE "failed"
        /\ \A j \in JobId \ {end} : jobState'[j] = jobState[j]
        /\ jobKey' = jobKey
    BY <1>1, <2>1 DEF Finish, TypeOK
  <2> QED
    BY <2>1, <2>2 DEF IsLive, Live, Terminal
<1> QED
  BY <1>2, <1>3, <1>4, StepKinds

\* A job's verdict is final: no late report, second watch result or dispatch
\* error changes the state finish recorded ("called exactly once per job").
FinalizedOnce ==
    [][\A id \in JobId : jobState[id] \in Terminal => jobState'[id] = jobState[id]]_vars

\* A finalized job keeps its verdict: no second result, late report or failed
\* dispatch rewrites it.
THEOREM VerdictsAreFinal == SafetySpec => FinalizedOnce
<1>1. IInv /\ [Next]_vars =>
        [\A id \in JobId : jobState[id] \in Terminal => jobState'[id] = jobState[id]]_vars
  BY TableMoves
<1> QED
  BY <1>1, InvariantHolds, PTL DEF SafetySpec, FinalizedOnce

\* A job is recorded as succeeded only when its runtime did succeed: a deadline,
\* a broken watch or a failed report never passes for success.
HonestSuccess ==
    [][\A id \in JobId : IsLive(id) /\ jobState'[id] = "succeeded"
                            => runtime'[id] = "succeeded"]_vars

\* A job is recorded as succeeded only by a step that sees its runtime succeeded.
THEOREM SuccessIsHonest == SafetySpec => HonestSuccess
<1>1. IInv /\ [Next]_vars =>
        [\A id \in JobId : IsLive(id) /\ jobState'[id] = "succeeded"
                              => runtime'[id] = "succeeded"]_vars
  BY TableMoves
<1> QED
  BY <1>1, InvariantHolds, PTL DEF SafetySpec, HonestSuccess

\* No request and no chaining stage sends on the queue that Stop has closed.
THEOREM NothingSentAfterClose == SafetySpec => NoSendAfterClose
<1>1. IInv /\ [Next]_vars => [closed => Len(queue') <= Len(queue)]_vars
  <2> SUFFICES ASSUME IInv, [Next]_vars, closed PROVE Len(queue') <= Len(queue)
    OBVIOUS
  <2>1. Len(queue) \in Nat
    BY DEF IInv, TypeOK
  <2>2. ~Recorded
    BY DEF Recorded, Admits
  <2>3. CASE Finalized
    BY <2>1, <2>3 DEF Finalized, Finish
  <2> QED
    BY <2>1, <2>2, <2>3, StepKinds
<1> QED
  BY <1>1, InvariantHolds, PTL DEF SafetySpec, NoSendAfterClose

\* The pipeline is never run ahead of itself: an enrich follows a successful
\* ingest of the same user, and a rank a successful enrich.
THEOREM StagesRunInOrder == SafetySpec => []StagesInOrder
<1>1. Init => StagesInOrder
  BY DEF Init, StagesInOrder
<1>2. IInv /\ StagesInOrder /\ [Next]_vars => StagesInOrder'
  <2> SUFFICES ASSUME IInv, StagesInOrder, [Next]_vars,
                      NEW id \in JobId, jobState'[id] # "absent", jobKey'[id] \notin Requestable
               PROVE  \E j \in JobId : /\ j < id
                                       /\ jobState'[j] = "succeeded"
                                       /\ jobKey'[id] \in NextKeys(jobKey'[j])
    BY DEF StagesInOrder
  <2>1. TypeOK /\ IdsInOrder
    BY DEF IInv, Bookkeeping
  <2>2. ASSUME NEW j \in JobId, j < id, jobState[j] = "succeeded",
               jobKey'[id] \in NextKeys(jobKey[j])
        PROVE  \E i \in JobId : /\ i < id
                                /\ jobState'[i] = "succeeded"
                                /\ jobKey'[id] \in NextKeys(jobKey'[i])
    BY <2>2, TableMoves DEF Terminal
  <2>3. CASE jobState[id] # "absent"
    <3>1. jobKey'[id] = jobKey[id]
      BY <2>3, TableMoves
    <3>2. PICK j \in JobId : /\ j < id
                             /\ jobState[j] = "succeeded"
                             /\ jobKey[id] \in NextKeys(jobKey[j])
      BY <2>3, <3>1 DEF StagesInOrder
    <3> QED
      BY <2>2, <3>1, <3>2
  <2>4. CASE jobState[id] = "absent"
    <3>1. Recorded
      BY <2>1, <2>4, StepKinds DEF TableSettled, Finalized, Finish, TypeOK, IsLive, Live
    <3>2. PICK k \in Key : /\ NewJob(k)
                           /\ \/ k \in Requestable
                              \/ \E j \in JobId : /\ jobState[j] = "succeeded"
                                                 /\ k \in NextKeys(jobKey[j])
      BY <3>1 DEF Recorded
    <3>3. id = created + 1 /\ jobKey'[id] = k
      BY <2>4, <3>2, NewJobEffect
    <3>4. PICK j \in JobId : jobState[j] = "succeeded" /\ k \in NextKeys(jobKey[j])
      BY <3>2, <3>3
    <3>5. j < id
      BY <2>1, <3>3, <3>4, JobIdsAreNaturals DEF IdsInOrder, TypeOK
    <3> QED
      BY <2>2, <3>3, <3>4, <3>5
  <2> QED
    BY <2>3, <2>4
<1> QED
  BY <1>1, <1>2, InvariantHolds, PTL DEF SafetySpec

-----------------------------------------------------------------------------
(* Orchestrator implements KeyedJobs.                                      *)

\* The orchestrator, its queue, workers, goroutines and launchers hidden, is a
\* table of keyed jobs: every step admits, refuses, settles, closes or stutters.
THEOREM KeepsThePromise == SafetySpec => PromiseUnbroken
<1> USE OrchestratorAssumption, JobIdsAreNaturals
<1> DEFINE status == [id \in JobId |->
                        IF jobState[id] = "absent" THEN "unused"
                        ELSE IF IsLive(id) THEN "live" ELSE jobState[id]]
<1>1. Init => Promise!Init
  BY DEF Init, Promise!Init
<1>2. IInv /\ [Next]_vars => [Promise!Next]_(Promise!vars)
  <2> SUFFICES ASSUME IInv, [Next]_vars PROVE [Promise!Next]_(Promise!vars)
    OBVIOUS
  <2>1. /\ TypeOK /\ InflightIsLive
    BY DEF IInv
  <2>2. CASE TableSettled
    <3>1. status' = status /\ jobKey' = jobKey
      BY <2>2 DEF TableSettled
    <3>2. CASE closed' = closed
      BY <3>1, <3>2 DEF Promise!vars
    <3>3. CASE ~closed /\ closed' = TRUE
      BY <3>1, <3>3 DEF Promise!Next, Promise!Close
    <3> QED
      BY <2>2, <3>2, <3>3, StepKinds DEF Recorded, Finalized
  <2>3. CASE Recorded /\ closed' = closed
    <3>1. PICK k \in Key : Admits(k) /\ NewJob(k)
      BY <2>3 DEF Recorded
    <3>2. PICK new : new = created + 1
      OBVIOUS
    <3>3. /\ new \in JobId /\ jobState[new] = "absent" /\ jobKey'[new] = k
          /\ jobState'[new] \in {"pending", "failed"}
          /\ \A j \in JobId \ {new} : jobKey'[j] = jobKey[j] /\ jobState'[j] = jobState[j]
      BY <3>1, <3>2, NewJobEffect
    <3>4. ~closed /\ \A j \in JobId : ~(IsLive(j) /\ jobKey[j] = k)
      BY <2>1, <3>1 DEF Admits, InflightIsLive
    <3>5. \A j \in JobId : ~(status[j] = "live" /\ jobKey[j] = k)
      BY <2>1, <3>4 DEF IsLive, Live, TypeOK, JobState, Terminal
    <3>6. status[new] = "unused" /\ jobKey' = [jobKey EXCEPT ![new] = k]
      BY <2>1, <3>3, <3>1, <3>2 DEF NewJob
    <3>7. PICK st \in {"live", "failed"} : status' = [status EXCEPT ![new] = st]
      <4>1. CASE jobState'[new] = "pending"
        <5>1. status' = [status EXCEPT ![new] = "live"]
          BY <3>3, <4>1 DEF IsLive, Live
        <5> QED
          BY <5>1
      <4>2. CASE jobState'[new] = "failed"
        <5>1. status' = [status EXCEPT ![new] = "failed"]
          BY <3>3, <4>2 DEF IsLive, Live
        <5> QED
          BY <5>1
      <4> QED
        BY <3>3, <4>1, <4>2
    <3>8. Promise!Record(new, k, st)
      BY <2>3, <3>4, <3>5, <3>6, <3>7 DEF Promise!Record, Promise!HasLiveJob
    <3>9. Promise!Admit(new, k) \/ Promise!Refuse(new, k)
      BY <3>7, <3>8 DEF Promise!Admit, Promise!Refuse
    <3> QED
      BY <3>3, <3>9 DEF Promise!Next
  <2>4. CASE Finalized /\ closed' = closed
    <3>1. PICK id \in JobId, ok \in BOOLEAN : IsLive(id) /\ Finish(id, ok)
      BY <2>4 DEF Finalized
    <3>2. PICK end \in {"succeeded", "failed"} :
            jobState' = [jobState EXCEPT ![id] = end] /\ jobKey' = jobKey
      BY <3>1 DEF Finish
    <3>3. status[id] = "live" /\ status' = [status EXCEPT ![id] = end]
      BY <2>1, <3>1, <3>2 DEF IsLive, Live, TypeOK
    <3>4. Promise!Settle(id)
      BY <2>4, <3>2, <3>3 DEF Promise!Settle
    <3> QED
      BY <3>4 DEF Promise!Next
  <2> QED
    BY <2>2, <2>3, <2>4, StepKinds
<1> QED
  BY <1>1, <1>2, InvariantHolds, PTL DEF SafetySpec, PromiseUnbroken, Promise!SafetySpec
-----------------------------------------------------------------------------
(* The drain of Stop: what is left to do is a number.                      *)

\* How many steps the goroutines in charge of a job have left, at most: to be
\* received, started, created, handed over, finished, chained and unwound.
StepsLeft(id) ==
    IF Queued(id) THEN 7
    ELSE IF \E w \in Worker : wpc[w] = "received" /\ wjob[w] = id THEN 6
    ELSE IF Held(id) THEN IF runtime[id] = "none" THEN 5 ELSE 4
    ELSE IF Awaited(id) THEN 3
    ELSE IF awaiter[id] = "chaining" THEN 2
    ELSE IF awaiter[id] = "unwinding" THEN 1 ELSE 0

Ahead == {p \in JobId \X (1 .. 7) : p[2] <= StepsLeft(p[1])}

AtWork == {w \in Worker : wpc[w] # "exited"}

\* What Stop still waits for: the steps of the jobs, and the workers' exits.
DrainWork == Cardinality(Ahead) + Cardinality(AtWork)

\* A goroutine of the orchestrator moves.
GoroutineStep ==
    \/ \E w \in Worker : WorkerStep(w)
    \/ \E id \in JobId : AwaiterStep(id)

\* Where a job is decides what is left of it.
WorkIs ==
    \A id \in JobId :
        /\ StepsLeft(id) \in 0 .. 7
        /\ Queued(id) => StepsLeft(id) = 7
        /\ \A w \in Worker : wpc[w] = "received" /\ wjob[w] = id => StepsLeft(id) = 6
        /\ \A w \in Worker : wpc[w] = "dispatching" /\ wjob[w] = id =>
              StepsLeft(id) = IF runtime[id] = "none" THEN 5 ELSE 4
        /\ awaiter[id] = "waiting" => StepsLeft(id) = 3
        /\ awaiter[id] = "chaining" => StepsLeft(id) = 2
        /\ awaiter[id] = "unwinding" => StepsLeft(id) = 1
        /\ ~Queued(id) /\ ~Held(id) /\ awaiter[id] = "none" => StepsLeft(id) = 0

LEMMA WorkByPlace == IInv => WorkIs
<1> SUFFICES ASSUME IInv, NEW id \in JobId
             PROVE  /\ StepsLeft(id) \in 0 .. 7
                    /\ Queued(id) => StepsLeft(id) = 7
                    /\ \A w \in Worker : wpc[w] = "received" /\ wjob[w] = id => StepsLeft(id) = 6
                    /\ \A w \in Worker : wpc[w] = "dispatching" /\ wjob[w] = id =>
                          StepsLeft(id) = IF runtime[id] = "none" THEN 5 ELSE 4
                    /\ awaiter[id] = "waiting" => StepsLeft(id) = 3
                    /\ awaiter[id] = "chaining" => StepsLeft(id) = 2
                    /\ awaiter[id] = "unwinding" => StepsLeft(id) = 1
                    /\ ~Queued(id) /\ ~Held(id) /\ awaiter[id] = "none" => StepsLeft(id) = 0
  BY DEF WorkIs
<1> DEFINE received == \E w \in Worker : wpc[w] = "received" /\ wjob[w] = id
<1>1. Custody /\ HeldOnce /\ AwaitersMatch
  BY DEF IInv, Bookkeeping
<1>2. ~(Queued(id) /\ (Held(id) \/ Awaited(id))) /\ ~(Held(id) /\ Awaited(id))
  BY <1>1 DEF Custody
<1>3. awaiter[id] \in {"chaining", "unwinding"} => ~Queued(id) /\ ~Held(id) /\ ~Awaited(id)
  BY <1>1 DEF Custody, AwaitersMatch, IsLive, Live, Terminal
<1>4. received => Held(id)
  BY DEF Held, InHand
<1>5. ASSUME NEW w \in Worker, wpc[w] = "dispatching", wjob[w] = id
      PROVE  Held(id) /\ ~received
  <2>1. InHand(w, id)
    BY <1>5 DEF InHand
  <2>2. ASSUME NEW v \in Worker, wpc[v] = "received", wjob[v] = id PROVE FALSE
    <3>1. InHand(v, id)
      BY <2>2 DEF InHand
    <3>2. v = w
      BY <1>1, <2>1, <3>1 DEF HeldOnce
    <3> QED
      BY <1>5, <2>2, <3>2
  <2> QED
    BY <2>1, <2>2 DEF Held
<1>6. StepsLeft(id) = IF Queued(id) THEN 7
                      ELSE IF received THEN 6
                      ELSE IF Held(id) THEN IF runtime[id] = "none" THEN 5 ELSE 4
                      ELSE IF Awaited(id) THEN 3
                      ELSE IF awaiter[id] = "chaining" THEN 2
                      ELSE IF awaiter[id] = "unwinding" THEN 1 ELSE 0
  BY DEF StepsLeft
<1>7. \A w \in Worker : wpc[w] = "received" /\ wjob[w] = id => received
  OBVIOUS
<1> HIDE DEF received
<1>8. \A w \in Worker : wpc[w] = "received" /\ wjob[w] = id => StepsLeft(id) = 6
  BY <1>2, <1>4, <1>6, <1>7
<1>9. \A w \in Worker : wpc[w] = "dispatching" /\ wjob[w] = id =>
         StepsLeft(id) = IF runtime[id] = "none" THEN 5 ELSE 4
  BY <1>2, <1>5, <1>6
<1>10. /\ StepsLeft(id) \in 0 .. 7
       /\ Queued(id) => StepsLeft(id) = 7
       /\ awaiter[id] = "waiting" => StepsLeft(id) = 3
       /\ awaiter[id] = "chaining" => StepsLeft(id) = 2
       /\ awaiter[id] = "unwinding" => StepsLeft(id) = 1
       /\ ~Queued(id) /\ ~Held(id) /\ awaiter[id] = "none" => StepsLeft(id) = 0
  BY <1>2, <1>3, <1>4, <1>6 DEF Awaited
<1> QED
  BY <1>8, <1>9, <1>10

\* A job that stays where it is has as much left as before.
LEMMA SameWork ==
    ASSUME NEW j \in JobId,
           Queued(j)' <=> Queued(j),
           \A v \in Worker : /\ InHand(v, j)' <=> InHand(v, j)
                             /\ InHand(v, j) => wpc'[v] = "received" <=> wpc[v] = "received",
           runtime'[j] = "none" <=> runtime[j] = "none",
           awaiter'[j] = awaiter[j]
    PROVE  StepsLeft(j)' = StepsLeft(j)
<1>1. Held(j)' <=> Held(j)
  BY DEF Held
<1>2. (\E w \in Worker : wpc[w] = "received" /\ wjob[w] = j)'
        <=> \E w \in Worker : wpc[w] = "received" /\ wjob[w] = j
  BY DEF InHand
<1>3. Awaited(j)' <=> Awaited(j)
  BY DEF Awaited
<1> QED
  BY <1>1, <1>2, <1>3 DEF StepsLeft

\* A step takes one job forward and leaves the others where they are.
Advances(id) ==
    /\ StepsLeft(id)' < StepsLeft(id)
    /\ \A j \in JobId \ {id} : StepsLeft(j)' = StepsLeft(j)

\* A worker takes the job it receives or holds forward, or leaves for good.
LEMMA WorkerAdvances ==
    ASSUME IInv, IInv', NEW w \in Worker, WorkerStep(w)
    PROVE  \/ (\E id \in JobId : Advances(id)) /\ AtWork' = AtWork
           \/ /\ \A j \in JobId : StepsLeft(j)' = StepsLeft(j)
              /\ w \in AtWork /\ AtWork' = AtWork \ {w}
<1>1. TypeOK /\ TypeOK' /\ HeldOnce /\ HeldOnce' /\ Custody
  BY DEF IInv, Bookkeeping
<1>2. WorkIs /\ WorkIs'
  <2>1. WorkIs
    BY WorkByPlace
  <2>2. IInv' => WorkIs'
    BY WorkByPlace, PTL
  <2> QED
    BY <2>1, <2>2
<1>3. ASSUME NEW id \in JobId, StepsLeft(id)' < StepsLeft(id),
             wpc[w] # "exited", wpc'[w] # "exited",
             \A v \in Worker \ {w} : wpc'[v] = wpc[v] /\ wjob'[v] = wjob[v],
             \A j \in JobId \ {id} : ~InHand(w, j) /\ ~InHand(w, j)',
             \A j \in JobId \ {id} : /\ Queued(j)' <=> Queued(j)
                                     /\ runtime'[j] = runtime[j]
                                     /\ awaiter'[j] = awaiter[j]
      PROVE  (\E i \in JobId : Advances(i)) /\ AtWork' = AtWork
  <2>1. ASSUME NEW j \in JobId \ {id} PROVE StepsLeft(j)' = StepsLeft(j)
    <3>1. \A v \in Worker : /\ InHand(v, j)' <=> InHand(v, j)
                            /\ InHand(v, j) => wpc'[v] = "received" <=> wpc[v] = "received"
      BY <1>3 DEF InHand
    <3> QED
      BY <1>3, <3>1, SameWork
  <2>2. Advances(id)
    BY <1>3, <2>1 DEF Advances
  <2>3. AtWork' = AtWork
    BY <1>3 DEF AtWork
  <2> QED
    BY <2>2, <2>3
<1>4. CASE Receive(w)
  <2>0. PICK id : id = Head(queue)
    OBVIOUS
  <2>1. /\ id \in JobId /\ id \in Range(queue)
        /\ Range(queue) = Range(queue') \union {id}
        /\ id \notin Range(queue')
    BY <1>1, <1>4, <2>0, TailOfQueue DEF Receive, TypeOK, HeldOnce
  <2>2. wpc[w] = "idle" /\ wpc'[w] = "received" /\ wjob'[w] = id
        /\ \A v \in Worker \ {w} : wpc'[v] = wpc[v] /\ wjob'[v] = wjob[v]
    BY <1>1, <1>4, <2>0 DEF Receive, TypeOK
  <2>3. runtime' = runtime /\ awaiter' = awaiter
    BY <1>4 DEF Receive, outsideVars
  <2>4. StepsLeft(id) = 7 /\ StepsLeft(id)' = 6
    BY <1>2, <2>1, <2>2 DEF WorkIs, Queued
  <2>5. \A j \in JobId \ {id} : ~InHand(w, j) /\ ~InHand(w, j)' /\ (Queued(j)' <=> Queued(j))
    BY <2>1, <2>2 DEF InHand, Queued
  <2> QED
    BY <1>3, <2>1, <2>2, <2>3, <2>4, <2>5
<1>5. CASE Exit(w)
  <2>1. wpc[w] = "idle" /\ wpc'[w] = "exited" /\ wjob' = wjob /\ queue' = queue
        /\ \A v \in Worker \ {w} : wpc'[v] = wpc[v]
    BY <1>1, <1>5 DEF Exit, TypeOK, tableVars
  <2>2. runtime' = runtime /\ awaiter' = awaiter
    BY <1>5 DEF Exit, outsideVars
  <2>3. ASSUME NEW j \in JobId PROVE StepsLeft(j)' = StepsLeft(j)
    <3>1. \A v \in Worker : /\ InHand(v, j)' <=> InHand(v, j)
                            /\ InHand(v, j) => wpc'[v] = "received" <=> wpc[v] = "received"
      BY <2>1 DEF InHand
    <3>2. Queued(j)' <=> Queued(j)
      BY <2>1 DEF Queued
    <3> QED
      BY <2>2, <3>1, <3>2, SameWork
  <2>4. w \in AtWork /\ AtWork' = AtWork \ {w}
    BY <2>1 DEF AtWork
  <2> QED
    BY <2>3, <2>4
<1>6. CASE wpc[w] \in {"received", "dispatching"}
  <2>0. PICK id : id = wjob[w]
    OBVIOUS
  <2>1. id \in JobId /\ InHand(w, id) /\ ~Queued(id)
    BY <1>1, <1>6, <2>0 DEF HeldOnce, Custody, Held, InHand
  <2>2. wpc[w] = "dispatching" => StepsLeft(id) = IF runtime[id] = "none" THEN 5 ELSE 4
    BY <1>2, <2>0, <2>1 DEF WorkIs
  <2>3. \A j \in JobId \ {id} : ~InHand(w, j)
    BY <2>0 DEF InHand
  <2>4. CASE StartRun(w)
    <3>1. wpc[w] = "received" /\ wpc'[w] = "dispatching" /\ wjob' = wjob /\ queue' = queue
          /\ \A v \in Worker \ {w} : wpc'[v] = wpc[v]
      BY <1>1, <2>4 DEF StartRun, TypeOK
    <3>2. runtime' = runtime /\ awaiter' = awaiter
      BY <2>4 DEF StartRun, outsideVars
    <3>3. StepsLeft(id) = 6 /\ StepsLeft(id)' \in {4, 5}
      <4>1. StepsLeft(id) = 6
        BY <1>2, <2>0, <2>1, <3>1 DEF WorkIs
      <4>2. wjob'[w] = id
        BY <2>0, <3>1
      <4>3. StepsLeft(id)' = IF runtime'[id] = "none" THEN 5 ELSE 4
        BY <1>2, <2>1, <3>1, <4>2 DEF WorkIs
      <4> QED
        BY <4>1, <4>3
    <3>4. \A j \in JobId \ {id} : ~InHand(w, j)' /\ (Queued(j)' <=> Queued(j))
      BY <2>0, <3>1 DEF InHand, Queued
    <3>5. wpc[w] # "exited" /\ wpc'[w] # "exited"
          /\ \A v \in Worker \ {w} : wpc'[v] = wpc[v] /\ wjob'[v] = wjob[v]
      BY <3>1
    <3>6. StepsLeft(id)' < StepsLeft(id)
      BY <3>3
    <3> QED
      BY <1>3, <2>1, <2>3, <3>2, <3>4, <3>5, <3>6
  <2>5. ASSUME wpc[w] = "dispatching", Release(w), queue' = queue,
               \A j \in JobId \ {id} : runtime'[j] = runtime[j] /\ awaiter'[j] = awaiter[j],
               awaiter'[id] \in {"none", "waiting"}
        PROVE  (\E i \in JobId : Advances(i)) /\ AtWork' = AtWork
    <3>1. wpc'[w] = "idle"
          /\ \A v \in Worker \ {w} : wpc'[v] = wpc[v] /\ wjob'[v] = wjob[v]
      BY <1>1, <2>5 DEF Release, TypeOK
    <3>2. ~Held(id)'
      <4>1. \A v \in Worker \ {w} : ~InHand(v, id)
        BY <1>1, <2>1 DEF HeldOnce
      <4>2. \A v \in Worker : ~InHand(v, id)'
        BY <3>1, <4>1 DEF InHand
      <4> QED
        BY <4>2 DEF Held
    <3>3. ~Queued(id)'
      BY <2>1, <2>5 DEF Queued
    <3>4. StepsLeft(id)' \in {0, 3}
      BY <1>2, <2>1, <2>5, <3>2, <3>3 DEF WorkIs
    <3>5. StepsLeft(id)' < StepsLeft(id)
      BY <2>2, <2>5, <3>4
    <3>6. \A j \in JobId \ {id} : ~InHand(w, j)' /\ (Queued(j)' <=> Queued(j))
      BY <2>5, <3>1 DEF InHand, Queued
    <3>7. wpc[w] # "exited" /\ wpc'[w] # "exited"
      BY <2>5, <3>1
    <3> QED
      BY <1>3, <2>1, <2>3, <2>5, <3>1, <3>5, <3>6, <3>7
  <2>6. awaiter[id] # "waiting" /\ awaiter \in [JobId -> {"none", "waiting", "chaining", "unwinding"}]
        /\ runtime \in [JobId -> {"none", "running"} \union Terminal]
    BY <1>1, <2>1 DEF Custody, Held, Awaited, TypeOK
  <2>7. awaiter[id] = "none"
    <3>1. IsLive(id) /\ AwaitersMatch
      BY <1>1, <2>1 DEF Custody, Held, IInv, Bookkeeping
    <3> QED
      BY <2>1, <2>6, <3>1 DEF AwaitersMatch, IsLive, Live, Terminal
  <2>8. CASE DispatchFails(w)
    <3>1. /\ wpc[w] = "dispatching" /\ Release(w) /\ queue' = queue
          /\ runtime' = [runtime EXCEPT ![id] = "none"] /\ awaiter' = awaiter
      BY <2>0, <2>8 DEF DispatchFails, Finish
    <3> QED
      BY <2>5, <2>6, <2>7, <3>1
  <2>9. CASE RegisterCompletion(w)
    <3>1. /\ wpc[w] = "dispatching" /\ Release(w) /\ queue' = queue
          /\ runtime' = runtime /\ awaiter' = [awaiter EXCEPT ![id] = "waiting"]
      BY <2>0, <2>9 DEF RegisterCompletion, tableVars, outsideVars
    <3>2. awaiter'[id] = "waiting" /\ \A j \in JobId \ {id} : awaiter'[j] = awaiter[j]
      BY <2>1, <2>6, <3>1
    <3> QED
      BY <2>5, <3>1, <3>2
  <2>10. CASE SpawnLaunch(w)
    <3>1. /\ wpc[w] = "dispatching" /\ Release(w) /\ queue' = queue
          /\ runtime' = [runtime EXCEPT ![id] = "running"]
          /\ awaiter' = [awaiter EXCEPT ![id] = "waiting"]
      BY <2>0, <2>10 DEF SpawnLaunch, tableVars
    <3>2. /\ awaiter'[id] = "waiting"
          /\ \A j \in JobId \ {id} : runtime'[j] = runtime[j] /\ awaiter'[j] = awaiter[j]
      BY <2>1, <2>6, <3>1
    <3> QED
      BY <2>5, <3>1, <3>2
  <2>11. CASE CreateWorkload(w)
    <3>1. /\ wpc[w] = "dispatching" /\ wpc' = wpc /\ wjob' = wjob /\ queue' = queue
          /\ runtime[id] = "none" /\ runtime' = [runtime EXCEPT ![id] = "running"]
          /\ awaiter' = awaiter
      BY <2>0, <2>11 DEF CreateWorkload, workerVars, tableVars
    <3>2. /\ runtime'[id] = "running"
          /\ \A j \in JobId \ {id} : runtime'[j] = runtime[j]
      BY <2>1, <2>6, <3>1
    <3>3. wpc'[w] = "dispatching" /\ wjob'[w] = id
      BY <2>0, <3>1
    <3>4. StepsLeft(id)' = 4 /\ StepsLeft(id) = 5
      <4>1. StepsLeft(id)' = IF runtime'[id] = "none" THEN 5 ELSE 4
        BY <1>2, <2>1, <3>3 DEF WorkIs
      <4> QED
        BY <2>2, <3>1, <3>2, <4>1
    <3>5. \A j \in JobId \ {id} : ~InHand(w, j)' /\ (Queued(j)' <=> Queued(j))
      BY <3>1, <3>3 DEF InHand, Queued
    <3>6. wpc[w] # "exited" /\ wpc'[w] # "exited"
          /\ (\A v \in Worker \ {w} : wpc'[v] = wpc[v] /\ wjob'[v] = wjob[v])
          /\ StepsLeft(id)' < StepsLeft(id)
      BY <3>1, <3>3, <3>4
    <3> QED
      BY <1>3, <2>1, <2>3, <3>1, <3>2, <3>5, <3>6
  <2>12. ~Receive(w) /\ ~Exit(w)
    BY <1>6 DEF Receive, Exit
  <2> QED
    BY <2>4, <2>8, <2>9, <2>10, <2>11, <2>12 DEF WorkerStep
<1>7. wpc[w] \in {"received", "dispatching"} \/ Receive(w) \/ Exit(w)
  BY DEF WorkerStep, StartRun, DispatchFails, CreateWorkload, RegisterCompletion, SpawnLaunch
<1> QED
  BY <1>4, <1>5, <1>6, <1>7

\* After Close an await goroutine takes its job forward: it chains nothing.
LEMMA AwaiterAdvances ==
    ASSUME IInv, IInv', NEW id \in JobId, AwaiterStep(id), closed
    PROVE  Advances(id) /\ AtWork' = AtWork
<1>1. TypeOK /\ Custody
  BY DEF IInv
<1>2. WorkIs /\ WorkIs'
  <2>1. WorkIs
    BY WorkByPlace
  <2>2. IInv' => WorkIs'
    BY WorkByPlace, PTL
  <2> QED
    BY <2>1, <2>2
<1>3. ASSUME wpc' = wpc, wjob' = wjob, queue' = queue, StepsLeft(id)' < StepsLeft(id),
             \A j \in JobId \ {id} : runtime'[j] = runtime[j] /\ awaiter'[j] = awaiter[j]
      PROVE  Advances(id) /\ AtWork' = AtWork
  <2>1. ASSUME NEW j \in JobId \ {id} PROVE StepsLeft(j)' = StepsLeft(j)
    <3>1. \A v \in Worker : /\ InHand(v, j)' <=> InHand(v, j)
                            /\ InHand(v, j) => wpc'[v] = "received" <=> wpc[v] = "received"
      BY <1>3 DEF InHand
    <3>2. Queued(j)' <=> Queued(j)
      BY <1>3 DEF Queued
    <3> QED
      BY <1>3, <3>1, <3>2, SameWork
  <2>2. AtWork' = AtWork
    BY <1>3 DEF AtWork
  <2> QED
    BY <1>3, <2>1, <2>2 DEF Advances
<1>4. ASSUME NEW result, awaiter[id] = "waiting", Conclude(id, result),
             \A j \in JobId \ {id} : runtime'[j] = runtime[j]
      PROVE  Advances(id) /\ AtWork' = AtWork
  <2>1. wpc' = wpc /\ wjob' = wjob /\ queue' = queue
    BY <1>4 DEF Conclude, Finish, workerVars
  <2>2. /\ awaiter'[id] \in {"chaining", "unwinding"}
        /\ \A j \in JobId \ {id} : awaiter'[j] = awaiter[j]
    BY <1>1, <1>4 DEF Conclude, TypeOK
  <2>3. StepsLeft(id) = 3
    BY <1>2, <1>4 DEF WorkIs
  <2>4. StepsLeft(id)' \in {1, 2}
    BY <1>2, <2>2 DEF WorkIs
  <2>5. StepsLeft(id)' < StepsLeft(id)
    BY <2>3, <2>4
  <2> QED
    BY <1>3, <1>4, <2>1, <2>2, <2>5
<1>5. CASE FinishByCallback(id)
  BY <1>4, <1>5 DEF FinishByCallback
<1>6. CASE FinishByWatch(id)
  BY <1>4, <1>6 DEF FinishByWatch
<1>7. CASE LaunchReturns(id)
  <2>1. PICK end \in Terminal : runtime' = [runtime EXCEPT ![id] = end] /\ Conclude(id, end)
    BY <1>7 DEF LaunchReturns
  <2>2. \A j \in JobId \ {id} : runtime'[j] = runtime[j]
    BY <1>1, <2>1 DEF TypeOK
  <2> QED
    BY <1>4, <1>7, <2>1, <2>2 DEF LaunchReturns
<1>8. CASE Chain(id)
  <2>1. \A k : ~Admits(k)
    BY DEF Admits
  <2>2. UNCHANGED <<wpc, wjob, queue, runtime>>
    BY <1>8, <2>1 DEF Chain, Enqueue, tableVars, workerVars, outsideVars
  <2>3. /\ awaiter[id] = "chaining" /\ awaiter'[id] = "unwinding"
        /\ \A j \in JobId \ {id} : awaiter'[j] = awaiter[j]
    BY <1>1, <1>8 DEF Chain, TypeOK
  <2>4. StepsLeft(id) = 2
    BY <1>2, <2>3 DEF WorkIs
  <2>5. StepsLeft(id)' = 1
    BY <1>2, <2>3 DEF WorkIs
  <2> QED
    BY <1>3, <2>2, <2>3, <2>4, <2>5
<1>9. CASE Unwind(id)
  <2>1. UNCHANGED <<wpc, wjob, queue>>
    BY <1>9 DEF Unwind, tableVars, workerVars
  <2>2. /\ awaiter[id] = "unwinding" /\ awaiter'[id] = "none"
        /\ \A j \in JobId \ {id} : awaiter'[j] = awaiter[j] /\ runtime'[j] = runtime[j]
    BY <1>1, <1>9 DEF Unwind, TypeOK
  <2>3. StepsLeft(id) = 1
    BY <1>2, <2>2 DEF WorkIs
  <2>4. ~IsLive(id)
    BY <2>2 DEF IInv, Bookkeeping, AwaitersMatch, IsLive, Live, Terminal
  <2>5. ~Queued(id) /\ ~Held(id)
    BY <1>1, <2>4 DEF Custody
  <2>6. ~Queued(id)' /\ ~Held(id)'
    BY <2>1, <2>5 DEF Queued, Held, InHand
  <2>7. StepsLeft(id)' = 0
    BY <1>2, <2>2, <2>6 DEF WorkIs
  <2> QED
    BY <1>3, <2>1, <2>2, <2>3, <2>7
<1> QED
  BY <1>5, <1>6, <1>7, <1>8, <1>9 DEF AwaiterStep

\* After Close nobody else's step gives the goroutines anything to do.
LEMMA OthersAddNothing ==
    ASSUME IInv, closed,
           \/ \E k \in Requestable : Request(k)
           \/ \E id \in JobId : OutsideStep(id)
           \/ Close \/ StopReturns \/ UNCHANGED vars
    PROVE  (\A j \in JobId : StepsLeft(j)' = StepsLeft(j)) /\ AtWork' = AtWork
<1>1. TypeOK
  BY DEF IInv
<1>2. UNCHANGED <<wpc, wjob, awaiter, queue>>
  <2>1. \A k : ~Admits(k)
    BY DEF Admits
  <2>2. ASSUME NEW k \in Requestable, Request(k) PROVE UNCHANGED <<wpc, wjob, awaiter, queue>>
    BY <2>1, <2>2 DEF Request, Enqueue, tableVars, workerVars
  <2>3. ASSUME NEW id \in JobId, OutsideStep(id) PROVE UNCHANGED <<wpc, wjob, awaiter, queue>>
    BY <2>3 DEF OutsideStep, Deadline, RuntimeEnds, CompleteJob, tableVars, workerVars
  <2>4. CASE Close \/ StopReturns \/ UNCHANGED vars
    BY <2>4 DEF Close, StopReturns, vars, tableVars, workerVars
  <2> QED
    BY <2>2, <2>3, <2>4
<1>3. \A j \in JobId : runtime'[j] = "none" <=> runtime[j] = "none"
  <2>1. ASSUME NEW id \in JobId, RuntimeEnds(id)
        PROVE  \A j \in JobId : runtime'[j] = "none" <=> runtime[j] = "none"
    <3>1. PICK end \in Terminal : runtime' = [runtime EXCEPT ![id] = end]
      BY <2>1 DEF RuntimeEnds
    <3>2. runtime[id] = "running" /\ runtime'[id] = end /\ end # "none"
      BY <1>1, <2>1, <3>1 DEF RuntimeEnds, TypeOK, Terminal
    <3>3. \A j \in JobId \ {id} : runtime'[j] = runtime[j]
      BY <1>1, <3>1 DEF TypeOK
    <3> QED
      BY <3>2, <3>3
  <2>2. ASSUME NEW id \in JobId, OutsideStep(id)
        PROVE  \A j \in JobId : runtime'[j] = "none" <=> runtime[j] = "none"
    BY <2>1, <2>2 DEF OutsideStep, Deadline, CompleteJob
  <2>3. CASE (\E k \in Requestable : Request(k)) \/ Close \/ StopReturns \/ UNCHANGED vars
    BY <2>3 DEF Request, Close, StopReturns, vars, outsideVars
  <2> QED
    BY <2>2, <2>3
<1>4. ASSUME NEW j \in JobId PROVE StepsLeft(j)' = StepsLeft(j)
  <2>1. \A v \in Worker : /\ InHand(v, j)' <=> InHand(v, j)
                          /\ InHand(v, j) => wpc'[v] = "received" <=> wpc[v] = "received"
    BY <1>2 DEF InHand
  <2>2. Queued(j)' <=> Queued(j)
    BY <1>2 DEF Queued
  <2> QED
    BY <1>2, <1>3, <2>1, <2>2, SameWork
<1>5. AtWork' = AtWork
  BY <1>2 DEF AtWork
<1> QED
  BY <1>4, <1>5

\* With finitely many workers what is left is a number, and nothing is left
\* exactly when both of Stop's wait groups are empty.
LEMMA WorkIsANumber ==
    ASSUME IsFiniteSet(Worker), IInv
    PROVE  /\ IsFiniteSet(Ahead) /\ IsFiniteSet(AtWork)
           /\ Cardinality(Ahead) \in Nat /\ Cardinality(AtWork) \in Nat
           /\ DrainWork \in Nat
           /\ Drained <=> DrainWork = 0
<1>1. IsFiniteSet(JobId \X (1 .. 7))
  <2>1. IsFiniteSet(JobId)
    BY OrchestratorAssumption, FS_Interval DEF JobId
  <2>2. IsFiniteSet(1 .. 7)
    <3>1. 1 \in Int /\ 7 \in Int
      OBVIOUS
    <3> QED
      BY <3>1, FS_Interval, Zenon
  <2> QED
    BY <2>1, <2>2, FS_Product
<1>2. IsFiniteSet(Ahead)
  <2>1. Ahead \in SUBSET (JobId \X (1 .. 7))
    BY DEF Ahead
  <2> QED
    BY <1>1, <2>1, FS_Subset
<1>3. IsFiniteSet(AtWork)
  <2>1. AtWork \in SUBSET Worker
    BY DEF AtWork
  <2> QED
    BY <2>1, FS_Subset
<1>4. Cardinality(Ahead) \in Nat /\ Cardinality(AtWork) \in Nat
  BY <1>2, <1>3, FS_CardinalityType
<1>5. DrainWork = 0 <=> Ahead = {} /\ AtWork = {}
  <2>1. /\ Cardinality(Ahead) = 0 <=> Ahead = {}
        /\ Cardinality(AtWork) = 0 <=> AtWork = {}
    BY <1>2, <1>3, FS_EmptySet
  <2> DEFINE m == Cardinality(Ahead)
             n == Cardinality(AtWork)
  <2>2. DrainWork = m + n /\ m \in Nat /\ n \in Nat
    BY <1>4 DEF DrainWork
  <2>3. (m = 0 <=> Ahead = {}) /\ (n = 0 <=> AtWork = {})
    BY <2>1
  <2> HIDE DEF m, n
  <2>4. m + n = 0 <=> m = 0 /\ n = 0
    BY <2>2
  <2> QED
    BY <2>2, <2>3, <2>4
<1>6. WorkIs
  BY WorkByPlace
<1>7. ASSUME Drained PROVE Ahead = {} /\ AtWork = {}
  <2>1. \A w \in Worker : wpc[w] = "exited"
    BY <1>7 DEF Drained
  <2>2. queue = <<>>
    BY <2>1, OrchestratorAssumption DEF IInv, Bookkeeping, DrainBeforeStop
  <2>3. \A j \in JobId : ~Queued(j) /\ ~Held(j) /\ awaiter[j] = "none"
    BY <1>7, <2>1, <2>2 DEF Drained, Queued, Held, InHand, Range
  <2>4. \A j \in JobId : StepsLeft(j) = 0
    BY <1>6, <2>3 DEF WorkIs
  <2>5. Ahead = {}
    <3> SUFFICES ASSUME NEW j \in JobId, NEW n \in 1 .. 7, n <= StepsLeft(j) PROVE FALSE
      BY DEF Ahead
    <3> QED
      BY <2>4
  <2> QED
    BY <2>1, <2>5 DEF AtWork
<1>8. ASSUME Ahead = {}, AtWork = {} PROVE Drained
  <2>1. \A w \in Worker : wpc[w] = "exited"
    BY <1>8 DEF AtWork
  <2>2. ASSUME NEW j \in JobId PROVE awaiter[j] = "none"
    <3>1. awaiter[j] \in {"none", "waiting", "chaining", "unwinding"}
      BY DEF IInv, TypeOK
    <3>2. ~(1 <= StepsLeft(j))
      <4>1. <<j, 1>> \notin Ahead
        BY <1>8
      <4> QED
        BY <4>1 DEF Ahead
    <3>3. /\ awaiter[j] = "waiting" => StepsLeft(j) = 3
          /\ awaiter[j] = "chaining" => StepsLeft(j) = 2
          /\ awaiter[j] = "unwinding" => StepsLeft(j) = 1
      BY <1>6 DEF WorkIs
    <3> QED
      BY <3>1, <3>2, <3>3
  <2> QED
    BY <2>1, <2>2 DEF Drained
<1> QED
  BY <1>2, <1>3, <1>4, <1>5, <1>7, <1>8 DEF DrainWork

\* The part of StopCompletes that is no matter of fairness.  Once Stop has closed
\* the queue, what its two wait groups wait for is a number that no step raises
\* and each step of a worker or an await goroutine lowers: no request, no chained
\* stage and no report keeps Stop waiting.  It is zero exactly when Stop may return.
THEOREM StopRunsOut ==
    ASSUME IsFiniteSet(Worker)
    PROVE  SafetySpec =>
             /\ [](DrainWork \in Nat /\ (Drained <=> DrainWork = 0))
             /\ [][closed => /\ DrainWork' <= DrainWork
                             /\ GoroutineStep => DrainWork' < DrainWork]_vars
<1> DEFINE Counts == DrainWork \in Nat /\ (Drained <=> DrainWork = 0)
<1>1. IInv => Counts
  BY WorkIsANumber
<1>2. IInv' => Counts'
  <2> HIDE DEF Counts
  <2> QED
    BY <1>1, PTL
<1>3. IInv /\ IInv' /\ [Next]_vars =>
        [closed => /\ DrainWork' <= DrainWork
                   /\ GoroutineStep => DrainWork' < DrainWork]_vars
  <2> SUFFICES ASSUME IInv, IInv', [Next]_vars, closed
               PROVE  /\ DrainWork' <= DrainWork
                      /\ GoroutineStep => DrainWork' < DrainWork
    OBVIOUS
  <2>1. /\ IsFiniteSet(Ahead) /\ IsFiniteSet(AtWork)
        /\ Cardinality(Ahead) \in Nat /\ Cardinality(AtWork) \in Nat
    BY WorkIsANumber
  <2>2. ASSUME \A j \in JobId : StepsLeft(j)' = StepsLeft(j) PROVE Ahead' = Ahead
    BY <2>2 DEF Ahead
  <2>3. ASSUME NEW id \in JobId, Advances(id), AtWork' = AtWork
        PROVE  DrainWork' < DrainWork
    <3>1. StepsLeft(id) \in 0 .. 7 /\ StepsLeft(id)' \in 0 .. 7
      <4>1. WorkIs
        BY WorkByPlace
      <4>2. IInv' => WorkIs'
        BY WorkByPlace, PTL
      <4> QED
        BY <4>1, <4>2 DEF WorkIs
    <3>2. Ahead' \in SUBSET Ahead
      <4> SUFFICES ASSUME NEW j \in JobId, NEW n \in 1 .. 7, n <= StepsLeft(j)'
                   PROVE  n <= StepsLeft(j)
        BY DEF Ahead
      <4>2. CASE j = id
        BY <2>3, <3>1, <4>2 DEF Advances
      <4>3. CASE j # id
        BY <2>3, <4>3 DEF Advances
      <4> QED
        BY <4>2, <4>3
    <3>3. Ahead' # Ahead
      <4> DEFINE n == StepsLeft(id)
      <4>1. n \in 1 .. 7 /\ ~(n <= StepsLeft(id)')
        BY <2>3, <3>1 DEF Advances
      <4>2. <<id, n>> \in Ahead
        BY <4>1 DEF Ahead
      <4>3. PICK m : m = n
        OBVIOUS
      <4>4. <<id, m>> \notin Ahead'
        BY <4>1, <4>3 DEF Ahead
      <4> QED
        BY <4>2, <4>3, <4>4
    <3>4. Cardinality(Ahead') \in Nat /\ Cardinality(Ahead') < Cardinality(Ahead)
      BY <2>1, <3>2, <3>3, FS_Subset, FS_CardinalityType
    <3> QED
      BY <2>1, <2>3, <3>4 DEF DrainWork
  <2>4. ASSUME NEW w \in AtWork, AtWork' = AtWork \ {w},
               \A j \in JobId : StepsLeft(j)' = StepsLeft(j)
        PROVE  DrainWork' < DrainWork
    <3>1. Ahead' = Ahead
      BY <2>2, <2>4
    <3>2. Cardinality(AtWork') = Cardinality(AtWork) - 1
      BY <2>1, <2>4, FS_RemoveElement
    <3> QED
      BY <2>1, <3>1, <3>2 DEF DrainWork
  <2>5. ASSUME NEW w \in Worker, WorkerStep(w) PROVE DrainWork' < DrainWork
    <3>1. CASE (\E id \in JobId : Advances(id)) /\ AtWork' = AtWork
      BY <2>3, <3>1
    <3>2. CASE /\ \A j \in JobId : StepsLeft(j)' = StepsLeft(j)
               /\ w \in AtWork /\ AtWork' = AtWork \ {w}
      BY <2>4, <3>2
    <3> QED
      BY <2>5, <3>1, <3>2, WorkerAdvances
  <2>6. ASSUME NEW id \in JobId, AwaiterStep(id) PROVE DrainWork' < DrainWork
    BY <2>3, <2>6, AwaiterAdvances
  <2>7. ASSUME GoroutineStep PROVE DrainWork' < DrainWork
    BY <2>5, <2>6, <2>7 DEF GoroutineStep
  <2>8. DrainWork \in Nat /\ DrainWork' \in Nat
    BY <1>1, <1>2
  <2>9. CASE GoroutineStep
    BY <2>7, <2>8, <2>9
  <2>10. CASE ~GoroutineStep
    <3>1. \/ \E k \in Requestable : Request(k)
          \/ \E id \in JobId : OutsideStep(id)
          \/ Close \/ StopReturns \/ UNCHANGED vars
      BY <2>10 DEF Next, GoroutineStep
    <3>2. (\A j \in JobId : StepsLeft(j)' = StepsLeft(j)) /\ AtWork' = AtWork
      BY <3>1, OthersAddNothing
    <3>3. DrainWork' = DrainWork
      BY <2>2, <3>2 DEF DrainWork
    <3> QED
      BY <2>8, <2>10, <3>3
  <2> QED
    BY <2>9, <2>10
<1> QED
  BY <1>1, <1>3, InvariantHolds, PTL DEF SafetySpec

-----------------------------------------------------------------------------
(* Orchestrator implements JobRun for the jobs of asynchronous launchers.  *)

\* A job that does not exist has no workload.
NoneYet == \A id \in JobId : jobState[id] = "absent" => runtime[id] = "none"

\* A step's move of one workload: it starts that of a live job, ends one, or lets
\* go of one whose job it settles or has settled.
RuntimeMove(i, end) ==
    /\ runtime' = [runtime EXCEPT ![i] = end]
    /\ \/ end = "none" /\ jobState'[i] \in Terminal
       \/ end = "running" /\ runtime[i] = "none" /\ IsLive(i)
       \/ /\ end \in Terminal /\ runtime[i] = "running"
          /\ launcher # "blocking" /\ jobState' = jobState
       \/ launcher = "blocking" /\ IsLive(i)

RuntimeMoved ==
    \E i \in JobId, end \in {"none", "running"} \union Terminal : RuntimeMove(i, end)

\* A step moves at most one workload, and only in these ways.
LEMMA RuntimeStep ==
    ASSUME IInv, [Next]_vars
    PROVE  runtime' = runtime \/ RuntimeMoved
<1> USE OrchestratorAssumption, JobIdsAreNaturals
<1>1. /\ TypeOK /\ Custody /\ HeldOnce /\ AwaitersMatch
  BY DEF IInv, Bookkeeping
<1>2. ASSUME NEW w \in Worker, WorkerStep(w)
      PROVE  runtime' = runtime \/ RuntimeMoved
  <2>1. CASE DispatchFails(w)
    <3>1. wjob[w] \in JobId
      BY <1>1, <2>1 DEF DispatchFails, HeldOnce
    <3>2. PICK i \in JobId : i = wjob[w]
      BY <3>1
    <3>3. runtime' = [runtime EXCEPT ![i] = "none"]
      BY <2>1, <3>2 DEF DispatchFails
    <3>4. jobState'[i] \in Terminal
      BY <1>1, <2>1, <3>2 DEF DispatchFails, Finish, TypeOK, Terminal
    <3> QED
      BY <3>3, <3>4 DEF RuntimeMoved, RuntimeMove
  <2>2. CASE CreateWorkload(w) \/ SpawnLaunch(w)
    <3>1. /\ wjob[w] \in JobId /\ IsLive(wjob[w])
          /\ runtime' = [runtime EXCEPT ![wjob[w]] = "running"]
          /\ runtime[wjob[w]] = "none" \/ launcher = "blocking"
      BY <1>1, <2>2 DEF CreateWorkload, SpawnLaunch, HeldOnce, Custody, Held, InHand
    <3> QED
      BY <3>1 DEF RuntimeMoved, RuntimeMove
  <2>3. CASE Receive(w) \/ Exit(w) \/ StartRun(w) \/ RegisterCompletion(w)
    BY <2>3 DEF Receive, Exit, StartRun, RegisterCompletion, outsideVars
  <2> QED
    BY <1>2, <2>1, <2>2, <2>3 DEF WorkerStep
<1>3. ASSUME NEW id \in JobId, AwaiterStep(id)
      PROVE  runtime' = runtime \/ RuntimeMoved
  <2>1. CASE LaunchReturns(id)
    <3>1. IsLive(id) /\ launcher = "blocking"
      BY <1>1, <2>1 DEF LaunchReturns, Custody, Awaited
    <3>2. PICK end \in Terminal : runtime' = [runtime EXCEPT ![id] = end]
      BY <2>1 DEF LaunchReturns
    <3> QED
      BY <3>1, <3>2 DEF RuntimeMoved, RuntimeMove
  <2>2. CASE Unwind(id)
    <3>1. jobState'[id] \in Terminal
      BY <1>1, <2>2 DEF Unwind, AwaitersMatch, tableVars
    <3>2. runtime' = [runtime EXCEPT ![id] = "none"]
      BY <2>2 DEF Unwind
    <3> QED
      BY <3>1, <3>2 DEF RuntimeMoved, RuntimeMove
  <2>3. CASE FinishByCallback(id) \/ FinishByWatch(id) \/ Chain(id)
    BY <2>3 DEF FinishByCallback, FinishByWatch, Chain, outsideVars
  <2> QED
    BY <1>3, <2>1, <2>2, <2>3 DEF AwaiterStep
<1>4. ASSUME NEW id \in JobId, OutsideStep(id)
      PROVE  runtime' = runtime \/ RuntimeMoved
  <2>1. CASE RuntimeEnds(id)
    <3>1. PICK end \in Terminal : runtime' = [runtime EXCEPT ![id] = end]
      BY <2>1 DEF RuntimeEnds
    <3> QED
      BY <2>1, <3>1 DEF RuntimeEnds, RuntimeMoved, RuntimeMove, tableVars
  <2>2. CASE Deadline(id) \/ CompleteJob(id)
    BY <2>2 DEF Deadline, CompleteJob
  <2> QED
    BY <1>4, <2>1, <2>2 DEF OutsideStep
<1>5. ASSUME NEW k \in Requestable, Request(k)
      PROVE  runtime' = runtime
  BY <1>5 DEF Request, outsideVars
<1>6. CASE Close \/ StopReturns \/ UNCHANGED vars
  BY <1>6 DEF Close, StopReturns, vars, outsideVars
<1> QED
  BY <1>2, <1>3, <1>4, <1>5, <1>6 DEF Next

\* What a step does to one job of the table.
LEMMA StateMoves ==
    ASSUME IInv, [Next]_vars, NEW id \in JobId
    PROVE  \/ jobState'[id] = jobState[id]
           \/ IsLive(id) /\ IsLive(id)'
           \/ jobState[id] = "absent" /\ jobState'[id] \in {"pending", "failed"}
           \/ IsLive(id) /\ jobState'[id] \in Terminal
<1>1. TypeOK
  BY DEF IInv
<1>2. CASE TableSettled
  BY <1>2 DEF TableSettled
<1>3. CASE Recorded
  <2>1. PICK k \in Key : NewJob(k)
    BY <1>3 DEF Recorded
  <2>2. /\ jobState[created + 1] = "absent"
        /\ jobState'[created + 1] \in {"pending", "failed"}
        /\ \A j \in JobId \ {created + 1} : jobState'[j] = jobState[j]
    BY <2>1, NewJobEffect
  <2> QED
    BY <2>2
<1>4. CASE Finalized
  <2>1. PICK end \in JobId, ok \in BOOLEAN : IsLive(end) /\ Finish(end, ok)
    BY <1>4 DEF Finalized
  <2>2. /\ jobState'[end] \in Terminal
        /\ \A j \in JobId \ {end} : jobState'[j] = jobState[j]
    BY <1>1, <2>1 DEF Finish, TypeOK, Terminal
  <2> QED
    BY <2>1, <2>2
<1> QED
  BY <1>2, <1>3, <1>4, StepKinds

\* A workload appears only once its job exists.
LEMMA NoneYetStep == IInv /\ NoneYet /\ [Next]_vars => NoneYet'
<1> SUFFICES ASSUME IInv, NoneYet, [Next]_vars,
                    NEW id \in JobId, jobState'[id] = "absent"
             PROVE  runtime'[id] = "none"
  BY DEF NoneYet
<1>1. jobState[id] = "absent"
  BY StateMoves DEF IsLive, Live, Terminal
<1>2. runtime[id] = "none" /\ ~IsLive(id)
  BY <1>1 DEF NoneYet, IsLive, Live
<1>3. CASE RuntimeMoved
  <2>1. PICK i \in JobId, end \in {"none", "running"} \union Terminal :
          RuntimeMove(i, end)
    BY <1>3 DEF RuntimeMoved
  <2>2. i # id
    BY <1>2, <2>1 DEF RuntimeMove, Terminal
  <2> QED
    BY <1>2, <2>1, <2>2 DEF RuntimeMove, IInv, TypeOK
<1> QED
  BY <1>2, <1>3, RuntimeStep

\* The workload of an asynchronous launcher, while its job is live before and after.
LEMMA LiveRuntime ==
    ASSUME IInv, [Next]_vars, launcher # "blocking", NEW id \in JobId, IsLive(id)'
    PROVE  \/ runtime'[id] = runtime[id]
           \/ runtime[id] = "none" /\ runtime'[id] = "running" /\ IsLive(id)
           \/ runtime[id] = "running" /\ runtime'[id] \in Terminal
<1>1. TypeOK
  BY DEF IInv
<1>2. CASE RuntimeMoved
  <2>1. PICK i \in JobId, end \in {"none", "running"} \union Terminal :
          RuntimeMove(i, end)
    BY <1>2 DEF RuntimeMoved
  <2>2. CASE i # id
    BY <1>1, <2>1, <2>2 DEF RuntimeMove, TypeOK
  <2>3. CASE i = id
    <3>1. jobState'[i] \notin Terminal
      BY <2>3 DEF IsLive, Live, Terminal
    <3>2. runtime'[id] = end
      BY <1>1, <2>1, <2>3 DEF RuntimeMove, TypeOK
    <3> QED
      BY <2>1, <2>3, <3>1, <3>2 DEF RuntimeMove
  <2> QED
    BY <2>2, <2>3
<1> QED
  BY <1>2, RuntimeStep

\* The job of an asynchronous launcher succeeds only when its run had done so before.
LEMMA SucceedsAfterItsRun ==
    ASSUME IInv, [Next]_vars, launcher # "blocking", NEW id \in JobId,
           IsLive(id), jobState'[id] = "succeeded"
    PROVE  runtime[id] = "succeeded"
<1>1. runtime'[id] = "succeeded" /\ TypeOK
  BY TableMoves DEF IInv
<1>2. CASE RuntimeMoved
  <2>1. PICK i \in JobId, end \in {"none", "running"} \union Terminal :
          RuntimeMove(i, end)
    BY <1>2 DEF RuntimeMoved
  <2>2. jobState' # jobState
    BY DEF IsLive, Live
  <2>3. end # "none" \/ i # id
    BY <1>1, <2>1 DEF RuntimeMove, TypeOK
  <2> QED
    BY <1>1, <2>1, <2>2, <2>3 DEF RuntimeMove, TypeOK
<1> QED
  BY <1>1, <1>2, RuntimeStep

\* Every step is one of the contract of each job, or none of it.
LEMMA StepIsContract ==
    ASSUME IInv, NoneYet, NoneYet', [Next]_vars, launcher # "blocking", NEW id \in JobId
    PROVE  [Contract(id)!Next]_(Contract(id)!vars)
<1>1. TypeOK
  BY DEF IInv
<1>2. CASE IsLive(id) /\ IsLive(id)'
  <2>1. /\ jobState[id] # "absent" /\ jobState'[id] # "absent"
    BY <1>2 DEF IsLive, Live
  <2>2. CASE runtime'[id] = runtime[id]
    <3>1. RunOf(id)' = RunOf(id)
      BY <1>2, <2>1, <2>2 DEF RunOf
    <3> QED
      BY <1>2, <3>1 DEF Contract!vars
  <2>3. CASE runtime[id] = "none" /\ runtime'[id] = "running"
    <3>1. RunOf(id) = "free" /\ RunOf(id)' = "running"
      BY <1>2, <2>1, <2>3 DEF RunOf
    <3> QED
      BY <1>2, <3>1 DEF Contract!Next, Contract!Start
  <2>4. CASE runtime[id] = "running" /\ runtime'[id] \in Terminal
    <3>1. RunOf(id) = "running" /\ RunOf(id)' \in {"good", "bad"}
      BY <1>2, <2>1, <2>4 DEF RunOf, Terminal
    <3> QED
      BY <1>2, <3>1 DEF Contract!Next, Contract!End
  <2> QED
    BY <1>2, <2>2, <2>3, <2>4, LiveRuntime
<1>3. CASE jobState'[id] = jobState[id] /\ ~IsLive(id)
  <2>1. ~IsLive(id)' /\ RunOf(id)' = RunOf(id)
    BY <1>3 DEF RunOf, IsLive
  <2> QED
    BY <1>3, <2>1 DEF Contract!vars
<1>4. CASE jobState[id] = "absent" /\ jobState'[id] = "pending"
  <2>1. ~IsLive(id) /\ IsLive(id)' /\ runtime[id] = "none"
    BY <1>4 DEF IsLive, Live, NoneYet
  <2>2. runtime'[id] = "none"
    BY <2>1, LiveRuntime
  <2>3. RunOf(id) = "free" /\ RunOf(id)' = "free"
    BY <1>4, <2>1, <2>2 DEF RunOf
  <2> QED
    BY <1>4, <2>1, <2>3 DEF Contract!Next, Contract!Begin
<1>5. CASE jobState[id] = "absent" /\ jobState'[id] = "failed"
  <2>1. ~IsLive(id) /\ ~IsLive(id)'
    BY <1>5 DEF IsLive, Live
  <2>2. RunOf(id)' = "over"
    BY <1>5, <2>1 DEF RunOf
  <2> QED
    BY <1>5, <2>1, <2>2 DEF Contract!Next, Contract!Refuse
<1>6. CASE IsLive(id) /\ jobState'[id] \in Terminal
  <2>1. ~IsLive(id)' /\ jobState'[id] # "absent"
    BY <1>6 DEF IsLive, Live, Terminal
  <2>2. RunOf(id)' = "over"
    BY <2>1 DEF RunOf
  <2>3. CASE jobState'[id] = "failed"
    BY <1>6, <2>1, <2>2, <2>3 DEF Contract!Next, Contract!Fail
  <2>4. CASE jobState'[id] = "succeeded"
    <3>1. runtime[id] = "succeeded"
      BY <1>6, <2>4, SucceedsAfterItsRun
    <3>2. RunOf(id) = "good"
      BY <1>6, <3>1 DEF RunOf, IsLive, Live
    <3> QED
      BY <1>6, <2>1, <2>2, <2>4, <3>2 DEF Contract!Next, Contract!Succeed
  <2> QED
    BY <1>6, <2>3, <2>4 DEF Terminal
<1>7. CASE jobState'[id] = jobState[id] /\ IsLive(id)
  <2>1. IsLive(id)'
    BY <1>7 DEF IsLive
  <2> QED
    BY <1>2, <1>7, <2>1
<1> QED
  BY <1>2, <1>3, <1>4, <1>5, <1>6, <1>7, StateMoves

\* The orchestrator implements JobRun for each job of an asynchronous launcher: it is
\* started at most once, and settled at most once, as succeeded only after its
\* run ended well - whatever dispatch errors, watches, reports and deadlines come
\* in between (run, CompleteJob, finish).
THEOREM KeepsTheContract == SafetySpec => ContractKept
<1>1. Init => NoneYet /\ \A id \in JobId : Contract(id)!Init
  BY DEF Init, NoneYet, Contract!Init, RunOf, IsLive, Live
<1>2. SafetySpec => []NoneYet
  BY <1>1, NoneYetStep, InvariantHolds, PTL DEF SafetySpec
<1>3. IInv /\ NoneYet /\ NoneYet' /\ [Next]_vars =>
        [launcher # "blocking" =>
            \A id \in JobId : [Contract(id)!Next]_(Contract(id)!vars)]_vars
  BY StepIsContract
<1> QED
  BY <1>1, <1>2, <1>3, InvariantHolds, PTL DEF SafetySpec, ContractKept

=============================================================================
