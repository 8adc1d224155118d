----------------------------- MODULE Orchestrator -----------------------------
(***************************************************************************)
(* The job orchestrator of internal/orchestrator: callers enqueue jobs     *)
(* under a dedupe key, a bounded pool of dispatch workers hands each job   *)
(* to the configured launcher, an await goroutine per launched job races   *)
(* the runtime's completion callback against the launcher's own watch, and *)
(* whichever comes first finalizes the job, frees its key and chains the   *)
(* next pipeline stage (ingest -> enrich -> rank).                         *)
(*                                                                         *)
(* A step is one critical section of o.mu, one channel operation, or one   *)
(* step of the outside world (substrate, runtime, network, clock).  Two    *)
(* neighbouring pieces of code share a step only where no other goroutine  *)
(* can tell them apart; the README lists those places.                     *)
(***************************************************************************)
EXTENDS Naturals, Sequences, Functions

CONSTANTS User,         \* acting users
          Item,         \* work items a converse or research job is about
          NoItem,       \* the item of a whole-worklist job ("" in the code)
          NoKey,        \* the key of an unused job id
          PerItemType,  \* the types of job about one item: converse, research
          Worker,       \* the dispatch workers (WithWorkers)
          QueueDepth,   \* capacity of the queue channel (WithQueueDepth)
          Launchers,    \* kinds of launcher the process may be configured with
          MaxPasses,    \* bound: how many calls of EnsureBackfill there are
          MaxItemCalls, \* bound: how many calls of Converse and Research there are
          MaxJobs       \* bound: how many job records there are; it holds no chain
                        \* up when it is at least 3 * MaxPasses + MaxItemCalls

ASSUME OrchestratorAssumption ==
    /\ Worker # {}
    /\ QueueDepth \in Nat \ {0}
    /\ MaxPasses \in Nat /\ MaxItemCalls \in Nat /\ MaxJobs \in Nat
    /\ NoItem \notin Item
    /\ PerItemType \subseteq {"converse", "research"}
    /\ Launchers \subseteq {"blocking", "watched", "detached"}

PipelineType == {"ingest", "enrich", "rank"}

\* enqueue's dedupe key: owner, job type and, for a per-item job, the item.
Key == [type : PipelineType, owner : User, item : {NoItem}]
       \union [type : PerItemType, owner : User, item : Item]

ASSUME NoKeyAssumption == NoKey \notin Key

\* What the exported methods enqueue: EnsureBackfill, Converse, Research.
Requestable == {k \in Key : k.type = "ingest" \/ k.type \in PerItemType}

JobId == 1 .. MaxJobs

Live == {"pending", "running"}
Terminal == {"succeeded", "failed"}
JobState == {"absent"} \union Live \union Terminal

VARIABLES
    launcher,     \* the launcher kind built at start-up; never changes
    requests,     \* how many outside requests of each kind were made
    created,      \* how many job ids newID has handed out
    jobKey,       \* JobId -> the key of Job's type, owner and item
    jobState,     \* JobId -> Job.State
    queue,        \* the queue channel
    inflight,     \* o.inflight
    completions,  \* JobId -> o.completions: "none", or its buffered channel
    closed,       \* o.closed (and the queue channel is closed)
    stopped,      \* Stop has returned
    wpc,          \* Worker -> where the worker is in reconcile/run
    wjob,         \* Worker -> the job the worker has in hand, or 0
    awaiter,      \* JobId -> where the job's await goroutine is, if it has one
    expired,      \* the awaited jobs whose context deadline has passed
    runtime,      \* JobId -> the workload on the substrate, until nobody awaits it
    heard         \* history: the live jobs of which CompleteJob handled a report

tableVars == <<created, jobKey, jobState, queue, inflight>>
workerVars == <<wpc, wjob>>
outsideVars == <<expired, runtime, heard>>
stopVars == <<closed, stopped>>
vars == <<launcher, requests, tableVars, completions, stopVars, workerVars,
          awaiter, outsideVars>>

IsLive(id) == jobState[id] \in Live

\* nextStage: the pipeline, in order; a per-item job hands off to nothing.
NextStage(type) ==
    {t \in PipelineType : \/ type = "ingest" /\ t = "enrich"
                          \/ type = "enrich" /\ t = "rank"}

\* The keys a job about k hands off to: the next stage of the same user.
NextKeys(k) ==
    {q \in Key : /\ q.type \in NextStage(k.type)
                 /\ q.owner = k.owner
                 /\ q.item = k.item}

-----------------------------------------------------------------------------
(* enqueue: one critical section of o.mu, run by a request and by a chain. *)

AdmitsDuplicates(k) == ~closed          \* mutant: no dedupe
AdmitsAfterClose(k) == k \notin inflight  \* mutant: no check of closed

Admits(k) == ~closed /\ k \notin inflight

\* mutant: the key is reserved before the send and kept when the queue is full
NewJobReservingFirst(k) ==
    LET id == created + 1
        sent == Len(queue) < QueueDepth
    IN  /\ id \in JobId
        /\ created' = id
        /\ jobKey' = [jobKey EXCEPT ![id] = k]
        /\ jobState' = [jobState EXCEPT ![id] = IF sent THEN "pending" ELSE "failed"]
        /\ queue' = IF sent THEN Append(queue, id) ELSE queue
        /\ inflight' = inflight \union {k}

\* mutant: the queue is not bounded
NewJobUnbounded(k) ==
    LET id == created + 1 IN
    /\ id \in JobId
    /\ created' = id
    /\ jobKey' = [jobKey EXCEPT ![id] = k]
    /\ jobState' = [jobState EXCEPT ![id] = "pending"]
    /\ queue' = Append(queue, id)
    /\ inflight' = inflight \union {k}

\* A new job record; the channel send that does not block decides its fate.
NewJob(k) ==
    LET id == created + 1 IN
    /\ id \in JobId
    /\ created' = id
    /\ jobKey' = [jobKey EXCEPT ![id] = k]
    /\ IF Len(queue) < QueueDepth
       THEN /\ jobState' = [jobState EXCEPT ![id] = "pending"]
            /\ queue' = Append(queue, id)
            /\ inflight' = inflight \union {k}
       ELSE /\ jobState' = [jobState EXCEPT ![id] = "failed"]
            /\ UNCHANGED <<queue, inflight>>

Enqueue(k) ==
    \/ ~Admits(k) /\ UNCHANGED tableVars
    \/ Admits(k) /\ NewJob(k)

Request(k) ==
    /\ \/ /\ k.type = "ingest" /\ requests.passes < MaxPasses
          /\ requests' = [requests EXCEPT !.passes = @ + 1]
       \/ /\ k.type # "ingest" /\ requests.items < MaxItemCalls
          /\ requests' = [requests EXCEPT !.items = @ + 1]
    /\ Enqueue(k)
    /\ UNCHANGED <<launcher, completions, stopVars, workerVars, awaiter, outsideVars>>

-----------------------------------------------------------------------------
(* finish: the critical section that finalizes a job and frees its key.    *)

Finish(id, ok) ==
    /\ jobState' = [jobState EXCEPT ![id] = IF ok THEN "succeeded" ELSE "failed"]
    /\ inflight' = inflight \ {jobKey[id]}
    /\ expired' = expired \ {id}
    /\ heard' = heard \ {id}
    /\ UNCHANGED <<created, jobKey, queue>>

-----------------------------------------------------------------------------
(* The dispatch worker: reconcile's loop around run.                       *)

Release(w) ==
    /\ wpc' = [wpc EXCEPT ![w] = "idle"]
    /\ wjob' = [wjob EXCEPT ![w] = 0]

Receive(w) ==
    /\ wpc[w] = "idle"
    /\ queue # <<>>
    /\ wpc' = [wpc EXCEPT ![w] = "received"]
    /\ wjob' = [wjob EXCEPT ![w] = Head(queue)]
    /\ queue' = Tail(queue)
    /\ UNCHANGED <<launcher, requests, created, jobKey, jobState, inflight,
                   completions, stopVars, awaiter, outsideVars>>

\* mutant: the worker leaves as soon as the queue is closed
ExitWithoutDraining(w) ==
    /\ wpc[w] = "idle"
    /\ closed
    /\ wpc' = [wpc EXCEPT ![w] = "exited"]
    /\ UNCHANGED <<launcher, requests, tableVars, completions, stopVars, wjob,
                   awaiter, outsideVars>>

\* The range over the closed queue ends once it is drained.
Exit(w) ==
    /\ wpc[w] = "idle"
    /\ closed
    /\ queue = <<>>
    /\ wpc' = [wpc EXCEPT ![w] = "exited"]
    /\ UNCHANGED <<launcher, requests, tableVars, completions, stopVars, wjob,
                   awaiter, outsideVars>>

StartRun(w) ==
    /\ wpc[w] = "received"
    /\ wpc' = [wpc EXCEPT ![w] = "dispatching"]
    /\ jobState' = [jobState EXCEPT ![wjob[w]] = "running"]
    /\ UNCHANGED <<launcher, requests, created, jobKey, queue, inflight, completions,
                   stopVars, wjob, awaiter, outsideVars>>

\* mutant: run returns on a dispatch error without calling finish
DispatchFailsSilently(w) ==
    /\ wpc[w] = "dispatching"
    /\ Release(w)
    /\ UNCHANGED <<launcher, requests, tableVars, completions, stopVars, awaiter,
                   outsideVars>>

\* No credential, or Dispatch returned an error or panicked; the substrate may
\* have started the workload all the same (an answer that was lost).
DispatchFails(w) ==
    /\ wpc[w] = "dispatching"
    /\ Finish(wjob[w], FALSE)
    /\ runtime' = [runtime EXCEPT ![wjob[w]] = "none"]
    /\ Release(w)
    /\ UNCHANGED <<launcher, requests, completions, stopVars, awaiter>>

\* AsyncLauncher.Dispatch: the substrate accepts the workload ...
CreateWorkload(w) ==
    /\ wpc[w] = "dispatching"
    /\ launcher # "blocking"
    /\ runtime[wjob[w]] = "none"
    /\ runtime' = [runtime EXCEPT ![wjob[w]] = "running"]
    /\ UNCHANGED <<launcher, requests, tableVars, completions, stopVars, workerVars,
                   awaiter, expired, heard>>

\* ... Dispatch returns, registerCompletion arms the job's channel, and the
\* await goroutine takes the job over from the worker.
RegisterCompletion(w) ==
    /\ wpc[w] = "dispatching"
    /\ launcher # "blocking"
    /\ runtime[wjob[w]] # "none"
    /\ completions' = [completions EXCEPT ![wjob[w]] = "empty"]
    /\ awaiter' = [awaiter EXCEPT ![wjob[w]] = "waiting"]
    /\ Release(w)
    /\ UNCHANGED <<launcher, requests, tableVars, stopVars, outsideVars>>

\* A plain Launcher: the blocking Launch runs on the await goroutine.
SpawnLaunch(w) ==
    /\ wpc[w] = "dispatching"
    /\ launcher = "blocking"
    /\ runtime' = [runtime EXCEPT ![wjob[w]] = "running"]
    /\ awaiter' = [awaiter EXCEPT ![wjob[w]] = "waiting"]
    /\ Release(w)
    /\ UNCHANGED <<launcher, requests, tableVars, completions, stopVars, expired, heard>>

-----------------------------------------------------------------------------
(* The outside world: the clock, the runtime, and the network between the  *)
(* runtime and CompleteJob.                                                *)

\* mutant: the await context carries no deadline
NoDeadline(id) == FALSE /\ UNCHANGED vars

\* The context deadline of run (deadlineFor) passes.  Only a detached launcher's
\* Await can tell: dispatch and the other launchers may fail at any time anyway.
Deadline(id) ==
    /\ launcher = "detached"
    /\ awaiter[id] = "waiting"
    /\ expired' = expired \union {id}
    /\ UNCHANGED <<launcher, requests, tableVars, completions, stopVars, workerVars,
                   awaiter, runtime, heard>>

\* agent.Run ends on the substrate; its report goes out before the workload
\* terminates.
RuntimeEnds(id) ==
    /\ launcher # "blocking"
    /\ runtime[id] = "running"
    /\ \E end \in Terminal : runtime' = [runtime EXCEPT ![id] = end]
    /\ UNCHANGED <<launcher, requests, tableVars, completions, stopVars, workerVars,
                   awaiter, expired, heard>>

\* CompleteJob: look the channel up, send without blocking.  The report is
\* best effort and a POST whose answer was lost is sent again, so this happens
\* any number of times after the runtime's end; once the job has neither a
\* worker nor an await goroutine it finds no channel and changes nothing.
CompleteJob(id) ==
    /\ launcher # "blocking"
    /\ runtime[id] \in Terminal
    /\ completions' = [completions EXCEPT
                         ![id] = IF @ = "empty" THEN runtime[id] ELSE @]
    /\ heard' = IF IsLive(id) THEN heard \union {id} ELSE heard
    /\ UNCHANGED <<launcher, requests, tableVars, stopVars, workerVars, awaiter,
                   expired, runtime>>

-----------------------------------------------------------------------------
(* The await goroutine of a launched job.                                  *)

\* mutant: the end of the wait is taken for the end of the work
WatchResultsOptimistic(id) ==
    IF id \in expired THEN {"succeeded"} ELSE {runtime[id]} \intersect Terminal

\* What safeAwait may return now: a watched workload's end, or any failure to
\* observe it; a detached launcher only waits for the deadline.
WatchResults(id) ==
    CASE launcher = "watched"  -> {"failed"} \union ({runtime[id]} \intersect Terminal)
      [] launcher = "detached" -> IF id \in expired THEN {"failed"} ELSE {}
      [] OTHER                 -> {}

\* mutant: a failed stage is handed on like a successful one
ConcludeAndAlwaysChain(id, result) ==
    /\ Finish(id, result = "succeeded")
    /\ awaiter' = [awaiter EXCEPT
                     ![id] = IF NextKeys(jobKey[id]) # {} THEN "chaining" ELSE "unwinding"]
    /\ UNCHANGED <<launcher, requests, stopVars, workerVars>>

\* The goroutine receives a result, finalizes the job, and goes on to chain.
Conclude(id, result) ==
    /\ Finish(id, result = "succeeded")
    /\ awaiter' = [awaiter EXCEPT
                     ![id] = IF result = "succeeded" /\ NextKeys(jobKey[id]) # {}
                             THEN "chaining" ELSE "unwinding"]
    /\ UNCHANGED <<launcher, requests, stopVars, workerVars>>

FinishByCallback(id) ==
    /\ awaiter[id] = "waiting"
    /\ completions[id] \in Terminal
    /\ Conclude(id, completions[id])
    /\ completions' = [completions EXCEPT ![id] = "empty"]
    /\ UNCHANGED runtime

\* mutant: the loser of the race finalizes the job too
FinishByWatchToo(id) ==
    /\ awaiter[id] \in {"waiting", "unwinding"}
    /\ \E result \in WatchResults(id) : Conclude(id, result)
    /\ UNCHANGED <<completions, runtime>>

FinishByWatch(id) ==
    /\ awaiter[id] = "waiting"
    /\ \E result \in WatchResults(id) : Conclude(id, result)
    /\ UNCHANGED <<completions, runtime>>

\* safeLaunch returns: the in-process agent run ends within its context.
LaunchReturns(id) ==
    /\ awaiter[id] = "waiting"
    /\ launcher = "blocking"
    /\ \E end \in Terminal :
         /\ runtime' = [runtime EXCEPT ![id] = end]
         /\ Conclude(id, end)
    /\ UNCHANGED completions

\* finish's second critical section; its error is only logged.
Chain(id) ==
    /\ awaiter[id] = "chaining"
    /\ \E k \in NextKeys(jobKey[id]) : Enqueue(k)
    /\ awaiter' = [awaiter EXCEPT ![id] = "unwinding"]
    /\ UNCHANGED <<launcher, requests, completions, stopVars, workerVars, outsideVars>>

\* mutant: the goroutine leaves its channel registered
UnwindKeepingChannel(id) ==
    /\ awaiter[id] = "unwinding"
    /\ awaiter' = [awaiter EXCEPT ![id] = "none"]
    /\ runtime' = [runtime EXCEPT ![id] = "none"]
    /\ UNCHANGED <<launcher, requests, tableVars, completions, stopVars, workerVars,
                   expired, heard>>

\* The deferred calls: deregisterCompletion, cancel, awaiters.Done.
Unwind(id) ==
    /\ awaiter[id] = "unwinding"
    /\ completions' = [completions EXCEPT ![id] = "none"]
    /\ awaiter' = [awaiter EXCEPT ![id] = "none"]
    /\ runtime' = [runtime EXCEPT ![id] = "none"]
    /\ UNCHANGED <<launcher, requests, tableVars, stopVars, workerVars, expired, heard>>

-----------------------------------------------------------------------------
(* Stop: close the queue under the lock, then wait for both wait groups.   *)

Close ==
    /\ ~closed
    /\ closed' = TRUE
    /\ UNCHANGED <<launcher, requests, tableVars, completions, stopped, workerVars,
                   awaiter, outsideVars>>

DrainedWorkers == \A w \in Worker : wpc[w] = "exited"  \* mutant: awaiters.Wait is gone

Drained ==
    /\ \A w \in Worker : wpc[w] = "exited"
    /\ \A id \in JobId : awaiter[id] = "none"

StopReturns ==
    /\ closed
    /\ ~stopped
    /\ Drained
    /\ stopped' = TRUE
    /\ UNCHANGED <<launcher, requests, tableVars, completions, closed, workerVars,
                   awaiter, outsideVars>>

-----------------------------------------------------------------------------
Init ==
    /\ launcher \in Launchers
    /\ requests = [passes |-> 0, items |-> 0]
    /\ created = 0
    /\ jobKey = [id \in JobId |-> NoKey]
    /\ jobState = [id \in JobId |-> "absent"]
    /\ queue = <<>>
    /\ inflight = {}
    /\ completions = [id \in JobId |-> "none"]
    /\ closed = FALSE
    /\ stopped = FALSE
    /\ wpc = [w \in Worker |-> "idle"]
    /\ wjob = [w \in Worker |-> 0]
    /\ awaiter = [id \in JobId |-> "none"]
    /\ expired = {}
    /\ runtime = [id \in JobId |-> "none"]
    /\ heard = {}

WorkerStep(w) ==
    \/ Receive(w)
    \/ Exit(w)
    \/ StartRun(w)
    \/ DispatchFails(w)
    \/ CreateWorkload(w)
    \/ RegisterCompletion(w)
    \/ SpawnLaunch(w)

AwaiterStep(id) ==
    \/ FinishByCallback(id)
    \/ FinishByWatch(id)
    \/ LaunchReturns(id)
    \/ Chain(id)
    \/ Unwind(id)

OutsideStep(id) ==
    \/ Deadline(id)
    \/ RuntimeEnds(id)
    \/ CompleteJob(id)

Next ==
    \/ \E k \in Requestable : Request(k)
    \/ \E w \in Worker : WorkerStep(w)
    \/ \E id \in JobId : AwaiterStep(id) \/ OutsideStep(id)
    \/ Close
    \/ StopReturns

SafetySpec == Init /\ [][Next]_vars

\* Goroutines run, contexts expire, Stop returns once it can.  Nothing is
\* assumed of callers, of runtimes or of the network.
Fairness ==
    /\ \A w \in Worker : WF_vars(WorkerStep(w))
    /\ \A id \in JobId : WF_vars(AwaiterStep(id)) /\ WF_vars(Deadline(id))
    /\ WF_vars(StopReturns)

Spec == SafetySpec /\ Fairness
-----------------------------------------------------------------------------
(* Properties.                                                             *)

\* The table, the goroutines and the channels hold values of their kinds; the
\* queue stays within its capacity (the send of enqueue never blocks o.mu).
TypeOK ==
    /\ launcher \in Launchers
    /\ requests \in [passes : 0 .. MaxPasses, items : 0 .. MaxItemCalls]
    /\ created \in 0 .. MaxJobs
    /\ jobKey \in [JobId -> Key \union {NoKey}]
    /\ jobState \in [JobId -> JobState]
    /\ queue \in Seq(JobId) /\ Len(queue) <= QueueDepth
    /\ inflight \subseteq Key
    /\ completions \in [JobId -> {"none", "empty"} \union Terminal]
    /\ closed \in BOOLEAN /\ stopped \in BOOLEAN
    /\ wpc \in [Worker -> {"idle", "received", "dispatching", "exited"}]
    /\ wjob \in [Worker -> JobId \union {0}]
    /\ awaiter \in [JobId -> {"none", "waiting", "chaining", "unwinding"}]
    /\ expired \subseteq JobId
    /\ runtime \in [JobId -> {"none", "running"} \union Terminal]
    /\ heard \subseteq JobId

\* Dedupe: two jobs for the same user, type and item are never both pending or
\* running, whatever requests, chains, failures and finishes interleave.
OneLivePerKey ==
    \A i, j \in JobId :
        IsLive(i) /\ IsLive(j) /\ jobKey[i] = jobKey[j] => i = j

\* A key is in o.inflight exactly while a live job carries it: a key left behind
\* by a full queue, a failed dispatch or a finish would refuse its user for ever.
InflightIsLive == inflight = {jobKey[id] : id \in {i \in JobId : IsLive(i)}}

\* Who is in charge of a job: the queue, a worker, or its await goroutine.
Queued(id) == id \in Range(queue)
InHand(w, id) == wpc[w] \in {"received", "dispatching"} /\ wjob[w] = id
Held(id) == \E w \in Worker : InHand(w, id)
Awaited(id) == awaiter[id] = "waiting"

\* Every live job is in exactly one place that will finalize it, and nothing
\* holds a job that is not live: none is stranded, none is finalized twice.
Custody ==
    \A id \in JobId :
        /\ IsLive(id) <=> Queued(id) \/ Held(id) \/ Awaited(id)
        /\ ~(Queued(id) /\ (Held(id) \/ Awaited(id))) /\ ~(Held(id) /\ Awaited(id))

\* Ids are handed out in order, and a job that exists is about a key.
IdsInOrder ==
    \A id \in JobId : /\ jobState[id] = "absent" <=> id > created
                      /\ jobState[id] # "absent" => jobKey[id] \in Key

\* No job is queued twice or in the hands of two workers.
HeldOnce ==
    /\ IsInjective(queue)
    /\ \A w \in Worker : wpc[w] \in {"received", "dispatching"} => wjob[w] \in JobId
    /\ \A v, w \in Worker, id \in JobId : InHand(v, id) /\ InHand(w, id) => v = w

\* A goroutine chains or unwinds only for the job it has finalized; a channel is
\* registered only under its goroutine and carries what the runtime reported.
AwaitersMatch ==
    \A id \in JobId :
        /\ awaiter[id] = "chaining" => jobState[id] = "succeeded"
        /\ awaiter[id] = "unwinding" => jobState[id] \in Terminal
        /\ completions[id] # "none" => awaiter[id] # "none" /\ launcher # "blocking"
        /\ completions[id] \in Terminal => runtime[id] = completions[id]

\* Workers leave, and Stop returns, only after the drain.
DrainBeforeStop ==
    /\ \A w \in Worker : wpc[w] = "exited" => closed /\ queue = <<>>
    /\ stopped => closed /\ Drained

\* The books agree: what Custody, and the verdicts of the jobs, rest on.
Bookkeeping == IdsInOrder /\ HeldOnce /\ AwaitersMatch /\ DrainBeforeStop

\* The inductive invariant behind the safety properties.
IInv == TypeOK /\ OneLivePerKey /\ InflightIsLive /\ Custody /\ Bookkeeping

\* The pipeline runs in order: a job nobody requests (an enrich, a rank) exists
\* only after a job of the stage before it succeeded for the same user.
StagesInOrder ==
    \A id \in JobId : jobState[id] # "absent" /\ jobKey[id] \notin Requestable =>
        \E j \in JobId : /\ j < id
                         /\ jobState[j] = "succeeded"
                         /\ jobKey[id] \in NextKeys(jobKey[j])

\* "After Stop" nothing is left: no live job, no channel to signal, no key.
StoppedIsQuiet ==
    stopped => /\ \A id \in JobId : ~IsLive(id) /\ completions[id] = "none"
               /\ queue = <<>> /\ inflight = {}

\* "A send therefore never races the close": nothing is sent on the queue once
\* Stop closed it, by a request or by a chaining stage.
NoSendAfterClose == [][closed => Len(queue') <= Len(queue)]_vars

\* Stop returns: queued jobs are drained and every await goroutine is released
\* by a report, its watch or its deadline.
StopCompletes == closed ~> stopped

\* The orchestrator keeps the promise of KeyedJobs, in which a job is only
\* unused, live or settled.
Promise == INSTANCE KeyedJobs WITH
    accepting <- ~closed,
    status    <- [id \in JobId |->
                    IF jobState[id] = "absent" THEN "unused"
                    ELSE IF IsLive(id) THEN "live" ELSE jobState[id]],
    subject   <- jobKey

PromiseKept == Promise!Spec

\* The part of the promise that a finite prefix of a run can break.
PromiseUnbroken == Promise!SafetySpec

\* How far the run of a live job's workload is; nothing is heard of that of a
\* settled one.
RunOf(id) ==
    IF jobState[id] = "absent" THEN "free"
    ELSE IF ~IsLive(id) THEN "over"
    ELSE IF runtime[id] = "none" THEN "free"
    ELSE IF runtime[id] = "running" THEN "running"
    ELSE IF runtime[id] = "succeeded" THEN "good" ELSE "bad"

Contract(id) == INSTANCE JobRun WITH
    status <- IF IsLive(id) THEN "live" ELSE jobState[id],
    run    <- RunOf(id)

\* A job is started, run and settled as JobRun says, once and honestly, whichever
\* of the dispatch, the watch, the report and the deadline comes first.  (A
\* blocking launcher has no run apart from the await goroutine that settles it.)
ContractKept ==
    /\ \A id \in JobId : Contract(id)!Init
    /\ [][launcher # "blocking" =>
            \A id \in JobId : [Contract(id)!Next]_(Contract(id)!vars)]_vars

-----------------------------------------------------------------------------
(* What the documentation says and the code does not do.                   *)

\* "Whichever reports first finalizes the job": a report that CompleteJob handled
\* while the job is live waits in the job's channel.
ReportDecides ==
    \A id \in heard : completions[id] \in Terminal
=============================================================================
