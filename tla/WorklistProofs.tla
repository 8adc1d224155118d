---------------------------- MODULE WorklistProofs ----------------------------
(***************************************************************************)
(* Proofs about Worklist, for every set of owner's calls and of changes on *)
(* GitHub, every bound, and with or without overlapping handlers and stray *)
(* runtimes.                                                               *)
(***************************************************************************)
EXTENDS Worklist, TLAPS

-----------------------------------------------------------------------------
(* The inductive invariant.                                                *)

\* No stamp of the item is later than t, and it has no news from GitHub after u.
SoundAt(it, t, u) ==
    /\ InOrder(it.thread)
    /\ \A i \in DOMAIN it.thread : it.thread[i].at <= t
    /\ it.readAt <= t /\ it.hiddenAt <= t /\ it.research <= t
    /\ it.updatedAt <= u

\* That holds of the store, of the handlers' copies and of what runtimes hold.
StampsSound ==
    /\ github.updatedAt <= now
    /\ SoundAt(item, now, github.updatedAt)
    /\ \A c \in Caller : SoundAt(snap[c], now, github.updatedAt)
    /\ \A r \in Runtime : load[r].updatedAt <= github.updatedAt /\ load[r].research <= now

\* A handler of the agent plane works for a runtime that waits for its answer.
PostsAwaited == \A r \in Runtime : phase[r] = "read" => step[r] = "ready"

\* Where handlers do not overlap, the copy one has listed is the stored item.
CopiesInSync ==
    ~Overlap =>
        /\ \A c, d \in Caller : phase[c] = "read" /\ phase[d] = "read" => c = d
        /\ \A c \in Caller : phase[c] = "read" => snap[c] = item

\* While no runtime has outlived its job, research under way is the latest.
ResearchInSync ==
    /\ stray = "none" => step["stray"] = "idle"
    /\ ~Overlap /\ stray = "none" /\ step["research"] = "ready" =>
          item.research <= load["research"].research

\* What a job has read of a thread ends with a turn that no reply answers yet.
Awaits(read, thread) ==
    /\ LastIs(read, "user")
    /\ Extends(thread, read)
    /\ \A k \in DOMAIN thread : thread[k].role = "agent" => k <= Len(read)

\* And the reply under way is to such a turn.
ReplyInSync ==
    ~Overlap /\ stray = "none" =>
        /\ AnsweredOnce
        /\ step["converse"] = "ready" => Awaits(load["converse"].thread, item.thread)

IInv ==
    /\ TypeOK /\ StampsSound
    /\ PostsAwaited /\ CopiesInSync /\ ResearchInSync /\ ReplyInSync

-----------------------------------------------------------------------------
(* Type correctness.                                                       *)

LEMMA Names ==
    /\ UserOp \subseteq Caller /\ Runtime \subseteq Caller
    /\ JobType \subseteq Runtime /\ Foundation \subseteq JobType
    /\ {"ingest", "enrich", "rank", "converse", "research"} \subseteq JobType
    /\ "stray" \in Runtime /\ "stray" \notin JobType /\ "none" \notin JobType
    /\ {"post", "review", "read", "hide", "resume"} \subseteq UserOp
    /\ Calls \subseteq UserOp
BY WorklistAssumption DEF UserOp, Caller, Runtime, JobType, Foundation

LEMMA Times == 0 \in Time /\ 1 \in Time /\ Time \subseteq Nat /\ MaxEvents \in Nat
BY WorklistAssumption DEF Time

LEMMA BlankType == Blank \in WorkItem
<1>1. <<>> \in Seq(Message)
  OBVIOUS
<1> QED BY <1>1, Times DEF Blank, WorkItem

LEMMA SayType ==
    ASSUME TypeOK, NEW it \in WorkItem, NEW role \in {"user", "agent"}, NEW seen \in Nat
    PROVE  Say(it, role, seen) \in WorkItem
<1>1. [role |-> role, at |-> now, seen |-> seen] \in Message
  BY DEF TypeOK, Message
<1>2. Append(it.thread, [role |-> role, at |-> now, seen |-> seen]) \in Seq(Message)
  BY <1>1 DEF WorkItem
<1> QED BY <1>2 DEF Say, WorkItem

LEMMA CarriedType == ASSUME NEW it \in WorkItem PROVE Carried(it) \in WorkItem
BY BlankType DEF Carried, WorkItem

LEMMA MergedType ==
    ASSUME NEW sent \in WorkItem, NEW prev \in WorkItem
    PROVE  Merged(sent, prev) \in WorkItem
<1>1. HiddenAfter(prev.hiddenAt, sent.updatedAt) \in Time
  BY Times DEF HiddenAfter, WorkItem
<1>2. (sent.proposed \/ prev.proposed) \in BOOLEAN
  OBVIOUS
<1> QED BY <1>1, <1>2 DEF Merged, WorkItem

LEMMA EnqueueType ==
    ASSUME TypeOK, NEW t \in JobType, Enqueue(t)
    PROVE  step' \in [Runtime -> Step] /\ events' \in 0 .. MaxEvents
BY Names, Times DEF TypeOK, Enqueue, Event, Step

LEMMA GoType ==
    ASSUME TypeOK, NEW r \in Runtime, NEW from, NEW s \in Step, NEW it \in WorkItem,
           Go(r, from, s, it), UNCHANGED events \/ Event
    PROVE  TypeOK'
BY Times DEF TypeOK, Go, Event

LEMMA UpsertType ==
    ASSUME TypeOK, NEW c \in Caller, NEW it \in WorkItem,
           NEW p \in {"none", "saved"}, Upsert(c, it, p)
    PROVE  /\ item' \in WorkItem
           /\ phase' \in [Caller -> {"none", "read", "saved"}]
           /\ snap' \in [Caller -> WorkItem]
BY BlankType DEF TypeOK, Upsert

LEMMA ListType ==
    ASSUME TypeOK, NEW c \in Caller, List(c)
    PROVE  /\ phase' \in [Caller -> {"none", "read", "saved"}]
           /\ snap' \in [Caller -> WorkItem]
BY DEF TypeOK, List

LEMMA TypeInit == Init => TypeOK
BY BlankType, Times, WorklistAssumption DEF Init, TypeOK, Step, GitHubState

LEMMA OwnerType ==
    ASSUME TypeOK, NEW op \in UserOp, Begin(op) \/ EndCall(op) \/ Converse(op) \/ Resume
    PROVE  TypeOK'
<1> USE Names
<1>1. CASE Begin(op)
  BY <1>1, ListType, Times DEF Begin, TypeOK, Event
<1>2. CASE EndCall(op)
  <2>1. PICK it \in WorkItem, p \in {"none", "saved"} :
            Upsert(op, it, p) /\ UNCHANGED <<github, now, step, load, stray, events>>
    <3>1. snap[op] \in WorkItem /\ now \in Time
      BY DEF TypeOK
    <3>2. Say(snap[op], "user", 0) \in WorkItem
      BY <3>1, SayType
    <3>3. [snap[op] EXCEPT !.readAt = now] \in WorkItem
      BY <3>1 DEF WorkItem
    <3>4. [snap[op] EXCEPT !.hiddenAt = now] \in WorkItem
      BY <3>1 DEF WorkItem
    <3> QED BY <1>2, <3>2, <3>3, <3>4 DEF EndCall, SaveTurn, MarkRead, Hide
  <2> QED BY <2>1, UpsertType DEF TypeOK
<1>3. CASE Converse(op)
  BY <1>3, EnqueueType DEF Converse, TypeOK
<1>4. CASE Resume
  BY <1>4 DEF Resume, TypeOK
<1> QED BY <1>1, <1>2, <1>3, <1>4

LEMMA WorkType ==
    ASSUME TypeOK, NEW r \in Runtime, Work(r)
    PROVE  TypeOK'
<1> DEFINE afresh == [Blank EXCEPT !.stored = TRUE, !.updatedAt = github.updatedAt]
<1>1. /\ item \in WorkItem /\ load[r] \in WorkItem /\ now \in Time
      /\ github.updatedAt \in Time /\ Blank \in WorkItem
  BY BlankType DEF TypeOK
<1>2. {"queued", "fetched", "candidate", "ready", "done"} \subseteq Step
  BY DEF Step
<1>3. CASE FetchWorklist(r)
  <2>1. afresh \in WorkItem
    BY <1>1 DEF WorkItem
  <2> HIDE DEF afresh
  <2>2. PICK it \in WorkItem : Go(r, "queued", "fetched", it) /\ UNCHANGED events
    BY <1>1, <1>3, <2>1 DEF FetchWorklist, afresh
  <2> QED BY <1>2, <2>2, GoType
<1>4. CASE RetireCandidates(r)
  <2>1. Carried(item) \in WorkItem
    BY <1>1, CarriedType
  <2>2. PICK s \in {"candidate", "ready", "done"}, it \in WorkItem :
            Go(r, "fetched", s, it) /\ (UNCHANGED events \/ Event)
    BY <1>1, <1>4, <2>1 DEF RetireCandidates
  <2> QED BY <1>2, <2>2, GoType
<1>5. CASE ConfirmClosed(r)
  <2>1. [load[r] EXCEPT !.completed = TRUE] \in WorkItem
    BY <1>1 DEF WorkItem
  <2>2. PICK s \in {"ready", "done"}, it \in WorkItem :
            Go(r, "candidate", s, it) /\ (UNCHANGED events \/ Event)
    BY <1>1, <1>5, <2>1 DEF ConfirmClosed
  <2> QED BY <1>2, <2>2, GoType
<1>6. CASE ReadToEnrich(r) \/ ReadToRank(r) \/ ReadToConverse(r) \/ Reweigh(r)
  <2>1. Carried(item) \in WorkItem
    BY <1>1, CarriedType
  <2>2. [Carried(item) EXCEPT !.proposed = TRUE] \in WorkItem
    BY <2>1 DEF WorkItem
  <2>3. [Blank EXCEPT !.thread = item.thread] \in WorkItem
    BY <1>1 DEF WorkItem
  <2>4. [Blank EXCEPT !.research = now] \in WorkItem
    BY <1>1 DEF WorkItem
  <2>5. PICK s \in {"ready", "done"}, it \in WorkItem :
            Go(r, "queued", s, it) /\ UNCHANGED events
    BY <1>1, <1>6, <2>1, <2>2, <2>3, <2>4
       DEF ReadToEnrich, ReadToRank, ReadToConverse, Reweigh
  <2> QED BY <1>2, <2>5, GoType
<1> QED BY <1>3, <1>4, <1>5, <1>6 DEF Work

LEMMA RuntimeType ==
    ASSUME TypeOK, NEW r \in Runtime, Deliver(r) \/ Finish(r) \/ Fail(r) \/ Reply(r)
    PROVE  TypeOK'
<1> USE Names
<1>1. CASE Deliver(r)
  BY <1>1, ListType DEF Deliver, TypeOK
<1>2. CASE Finish(r)
  <2>1. DOMAIN NextStage \subseteq JobType /\ \A t \in DOMAIN NextStage : NextStage[t] \in JobType
    BY DEF NextStage
  <2>2. step' \in [Runtime -> Step] /\ events' \in 0 .. MaxEvents
    BY <1>2, <2>1, Times DEF Finish, TypeOK, Event, Step
  <2>3. load' \in [Runtime -> WorkItem] /\ UNCHANGED <<item, github, now, stray, phase, snap>>
    BY <1>2, BlankType DEF Finish, TypeOK
  <2> QED BY <2>2, <2>3 DEF TypeOK
<1>3. CASE Fail(r)
  BY <1>3, BlankType, Times DEF Fail, TypeOK, Event, Step
<1>4. CASE Reply(r)
  <2>1. load[r] \in WorkItem /\ snap[r] \in WorkItem /\ now \in Time
    BY DEF TypeOK
  <2>2. PICK it \in WorkItem : StoreResult(r, it)
    <3>1. Merged(load[r], snap[r]) \in WorkItem
      BY <2>1, MergedType
    <3>2. Len(load[r].thread) \in Nat
      BY <2>1 DEF WorkItem
    <3>3. Say(snap[r], "agent", Len(load[r].thread)) \in WorkItem
      BY <2>1, <3>2, SayType
    <3>4. load[r].research \in Time
      BY <2>1 DEF WorkItem
    <3>5. Researched(load[r].research, snap[r]) \in WorkItem
      BY <2>1, <3>4 DEF Researched, WorkItem
    <3> QED BY <1>4, <3>1, <3>3, <3>5 DEF Reply, Ingest, AppendReply, SetResearch
  <2>3. Upsert(r, it, "none") /\ UNCHANGED <<github, now, stray, events>>
        /\ step' = [step EXCEPT ![r] = "done"] /\ load' = [load EXCEPT ![r] = Blank]
    BY <2>2 DEF StoreResult
  <2>4. item' \in WorkItem /\ phase' \in [Caller -> {"none", "read", "saved"}]
        /\ snap' \in [Caller -> WorkItem]
    BY <2>2, <2>3, UpsertType
  <2> QED BY <2>3, <2>4, BlankType DEF TypeOK, Step
<1> QED BY <1>1, <1>2, <1>3, <1>4

LEMMA OtherType ==
    ASSUME TypeOK,
           \/ Resolve \/ RefreshOnce \/ ReconcileOnce
           \/ GitHubChanges \/ Tick
           \/ \E t \in JobType : GiveUp(t)
    PROVE  TypeOK'
<1> USE Names
<1>1. CASE Resolve \/ RefreshOnce \/ ReconcileOnce
  <2>1. PICK t \in JobType : Enqueue(t) /\ UNCHANGED <<item, github, now, load, stray, phase, snap>>
    BY <1>1 DEF Resolve, RefreshOnce, ReconcileOnce
  <2> QED BY <2>1, EnqueueType DEF TypeOK
<1>2. CASE GitHubChanges
  <2>1. PICK s \in Changes : github' = [state |-> s, updatedAt |-> now]
    BY <1>2 DEF GitHubChanges
  <2>2. github' \in [state : GitHubState, updatedAt : Time]
    BY <2>1, WorklistAssumption DEF TypeOK
  <2> QED BY <1>2, <2>2, Times DEF GitHubChanges, TypeOK, Event
<1>3. CASE Tick
  BY <1>3, WorklistAssumption DEF Tick, TypeOK, Time
<1>4. ASSUME NEW t \in JobType, GiveUp(t) PROVE TypeOK'
  BY <1>4, BlankType, Times DEF GiveUp, TypeOK, Event, Step
<1> QED BY <1>1, <1>2, <1>3, <1>4

LEMMA TypeStep == TypeOK /\ [Next]_vars => TypeOK'
<1> SUFFICES ASSUME TypeOK, [Next]_vars PROVE TypeOK'
  OBVIOUS
<1>1. CASE UNCHANGED vars
  BY <1>1 DEF vars, TypeOK
<1>2. CASE \E op \in UserOp : EndCall(op)
  BY <1>2, OwnerType
<1>3. CASE \E r \in Runtime : Reply(r)
  BY <1>3, RuntimeType
<1>4. CASE Elsewhere
  <2>1. "post" \in UserOp
    BY Names
  <2> QED BY <1>4, <2>1, OwnerType, WorkType, RuntimeType, OtherType DEF Elsewhere
<1> QED BY <1>1, <1>2, <1>3, <1>4 DEF Next

\* The item, the jobs and the handlers keep their types, whatever overlaps.
THEOREM TypeCorrect == SafetySpec => []TypeOK
<1>1. Init => TypeOK
  BY TypeInit
<1>2. TypeOK /\ [Next]_vars => TypeOK'
  BY TypeStep
<1> QED BY <1>1, <1>2, PTL DEF SafetySpec

-----------------------------------------------------------------------------
(* What a step does to the item, to the copies and to the jobs.            *)

\* What the handler of c makes of its copy.
Made(c, it) ==
    \/ c \in UserOp /\ it = Say(snap[c], "user", 0)
    \/ c \in UserOp /\ it = [snap[c] EXCEPT !.readAt = now]
    \/ c \in UserOp /\ it = [snap[c] EXCEPT !.hiddenAt = now]
    \/ c \in Runtime /\ it = Merged(load[c], snap[c])
    \/ /\ c \in Runtime /\ TypeOf(c) = "converse"
       /\ it = Say(snap[c], "agent", Len(load[c].thread))
    \/ /\ c \in Runtime /\ TypeOf(c) = "research"
       /\ it = Researched(load[c].research, snap[c])

\* The second half of a handler, of the owner's or of the agent plane's.
Stores(c) ==
    /\ phase[c] = "read" /\ phase' \in {[phase EXCEPT ![c] = p] : p \in {"none", "saved"}}
    /\ snap' = [snap EXCEPT ![c] = Blank]
    /\ Made(c, item')
    /\ UNCHANGED <<github, now, stray, events>>
    /\ IF c \in UserOp
       THEN UNCHANGED <<step, load>>
       ELSE /\ TypeOf(c) \in JobType
            /\ step' = [step EXCEPT ![c] = "done"]
            /\ load' = [load EXCEPT ![c] = Blank]

LEMMA NotBoth == UserOp \cap Runtime = {}
BY DEF UserOp, Runtime, JobType, Foundation

LEMMA StepKinds ==
    ASSUME TypeOK, [Next]_vars
    PROVE  UNCHANGED vars \/ (\E c \in Caller : Stores(c)) \/ Elsewhere
<1> USE Names
<1>1. ASSUME NEW op \in UserOp, EndCall(op) PROVE Stores(op)
  <2>1. CASE SaveTurn(op)
    BY <2>1 DEF SaveTurn, Upsert, Stores, Made
  <2>2. CASE op = "read" /\ MarkRead
    BY <2>2 DEF MarkRead, Upsert, Stores, Made
  <2>3. CASE op = "hide" /\ Hide
    BY <2>3 DEF Hide, Upsert, Stores, Made
  <2> QED BY <1>1, <2>1, <2>2, <2>3 DEF EndCall
<1>2. ASSUME NEW r \in Runtime, Reply(r) PROVE Stores(r)
  <2>1. r \notin UserOp
    BY NotBoth
  <2>2. TypeOf(r) \in JobType /\ Made(r, item')
    BY <1>2 DEF Reply, Ingest, AppendReply, SetResearch, StoreResult, Upsert, Made
  <2>3. PICK it : StoreResult(r, it)
    BY <1>2 DEF Reply, Ingest, AppendReply, SetResearch
  <2> QED BY <2>1, <2>2, <2>3 DEF StoreResult, Upsert, Stores
<1> QED BY <1>1, <1>2 DEF Next

\* The message that the handler of c adds.
Added(c) ==
    IF c \in UserOp
    THEN [role |-> "user", at |-> now, seen |-> 0]
    ELSE [role |-> "agent", at |-> now, seen |-> Len(load[c].thread)]

\* What becomes of each part of the item.
LEMMA Parts ==
    ASSUME TypeOK, NEW c \in Caller, NEW it, Made(c, it)
    PROVE  /\ \/ it.thread = snap[c].thread
              \/ /\ it.thread = Append(snap[c].thread, Added(c))
                 /\ c \in UserOp \/ TypeOf(c) = "converse"
                 /\ it.readAt = snap[c].readAt
           /\ it.readAt = snap[c].readAt \/ it.readAt = now
           /\ \/ it.hiddenAt = snap[c].hiddenAt \/ it.hiddenAt = now
              \/ /\ c \in Runtime
                 /\ it.hiddenAt = HiddenAfter(snap[c].hiddenAt, load[c].updatedAt)
           /\ snap[c].proposed => it.proposed
           /\ \/ it.research = snap[c].research
              \/ c \in Runtime /\ TypeOf(c) = "research"
<1>1. snap[c] \in WorkItem /\ (c \in Runtime => load[c] \in WorkItem)
  BY DEF TypeOK
<1>2. CASE c \in UserOp /\ it = Say(snap[c], "user", 0)
  BY <1>1, <1>2 DEF Say, Added, WorkItem
<1>3. CASE it = [snap[c] EXCEPT !.readAt = now]
  BY <1>1, <1>3 DEF WorkItem
<1>4. CASE it = [snap[c] EXCEPT !.hiddenAt = now]
  BY <1>1, <1>4 DEF WorkItem
<1>5. CASE c \in Runtime /\ it = Merged(load[c], snap[c])
  <2>1. /\ it.thread = snap[c].thread /\ it.readAt = snap[c].readAt
        /\ it.research = snap[c].research
        /\ it.hiddenAt = HiddenAfter(snap[c].hiddenAt, load[c].updatedAt)
    BY <1>1, <1>5 DEF Merged, WorkItem
  <2>2. it.proposed = (load[c].proposed \/ snap[c].proposed)
    BY <1>1, <1>5 DEF Merged, WorkItem
  <2> QED BY <1>5, <2>1, <2>2
<1>6. CASE c \in Runtime /\ TypeOf(c) = "converse" /\ it = Say(snap[c], "agent", Len(load[c].thread))
  BY <1>1, <1>6, NotBoth DEF Say, Added, WorkItem
<1>7. CASE c \in Runtime /\ TypeOf(c) = "research" /\ it = Researched(load[c].research, snap[c])
  BY <1>1, <1>7 DEF Researched, WorkItem
<1> QED BY <1>2, <1>3, <1>4, <1>5, <1>6, <1>7 DEF Made

\* Without a store, the item stays and time goes on.
LEMMA ElsewhereClock ==
    ASSUME TypeOK, StampsSound, Elsewhere
    PROVE  /\ item' = item
           /\ now' \in Nat /\ now <= now'
           /\ github.updatedAt <= github'.updatedAt /\ github'.updatedAt <= now'
<1>1. now \in Nat /\ github.updatedAt \in Nat /\ github.updatedAt <= now
  BY Times DEF TypeOK, StampsSound
<1>2. CASE UNCHANGED <<item, github, now>>
  BY <1>1, <1>2
<1>3. CASE GitHubChanges
  <2>1. PICK s \in Changes : github' = [state |-> s, updatedAt |-> now]
    BY <1>3 DEF GitHubChanges
  <2> QED BY <1>1, <1>3, <2>1 DEF GitHubChanges
<1>4. CASE Tick
  BY <1>1, <1>4 DEF Tick
<1>5. ASSUME NEW r \in Runtime, Work(r) PROVE UNCHANGED <<item, github, now>>
  BY <1>5 DEF Work, FetchWorklist, RetireCandidates, ConfirmClosed, ReadToEnrich,
     ReadToRank, ReadToConverse, Reweigh, Go
<1> QED BY <1>2, <1>3, <1>4, <1>5 DEF Elsewhere, Begin, Converse, Resume, Resolve,
       RefreshOnce, ReconcileOnce, Finish, Fail, Deliver, GiveUp

\* At most one handler lists the item in such a step.
LEMMA ElsewhereCopies ==
    ASSUME TypeOK, Elsewhere
    PROVE  \E c \in Caller :
               /\ \A d \in Caller \ {c} : snap'[d] = snap[d] /\ (phase'[d] = "read" => phase[d] = "read")
               /\ snap'[c] = item \/ (snap'[c] = snap[c] /\ (phase'[c] = "read" => phase[c] = "read"))
<1> DEFINE
      Listed(c) ==
          /\ \A d \in Caller \ {c} : snap'[d] = snap[d] /\ (phase'[d] = "read" => phase[d] = "read")
          /\ snap'[c] = item \/ (snap'[c] = snap[c] /\ (phase'[c] = "read" => phase[c] = "read"))
<1> USE Names
<1>1. ASSUME NEW c \in Caller, List(c) PROVE Listed(c)
  BY <1>1 DEF List, TypeOK
<1>2. ASSUME NEW op \in UserOp, Converse(op) PROVE Listed(op)
  BY <1>2 DEF Converse, TypeOK
<1>3. ASSUME Resume PROVE Listed("resume")
  BY <1>3 DEF Resume, TypeOK
<1>4. ASSUME UNCHANGED <<phase, snap>> PROVE Listed("resume")
  BY <1>4
<1>5. ASSUME NEW r \in Runtime, Work(r) PROVE UNCHANGED <<phase, snap>>
  BY <1>5 DEF Work, FetchWorklist, RetireCandidates, ConfirmClosed, ReadToEnrich,
     ReadToRank, ReadToConverse, Reweigh, Go
<1>6. "resume" \in Caller
  OBVIOUS
<1> HIDE DEF Listed
<1>7. \E c \in Caller : Listed(c)
  BY <1>1, <1>2, <1>3, <1>4, <1>5, <1>6 DEF Elsewhere, Begin, Deliver, Resolve,
     RefreshOnce, ReconcileOnce, Finish, Fail, GiveUp, GitHubChanges, Tick
<1> QED BY <1>7 DEF Listed

\* What a runtime holds is no newer than what there is.
LEMMA ElsewhereLoads ==
    ASSUME TypeOK, StampsSound, Elsewhere, NEW r \in Runtime
    PROVE  load'[r].updatedAt <= github'.updatedAt /\ load'[r].research <= now'
<1> USE Names
<1>1. /\ now \in Nat /\ github.updatedAt \in Nat /\ item \in WorkItem /\ load \in [Runtime -> WorkItem]
      /\ \A x \in WorkItem : x.updatedAt \in Nat /\ x.research \in Nat
  BY Times DEF TypeOK, WorkItem
<1>2. /\ now' \in Nat /\ now <= now' /\ github'.updatedAt \in Nat
      /\ github.updatedAt <= github'.updatedAt /\ github'.updatedAt <= now'
  <2>1. github'.updatedAt \in Nat
    BY TypeStep, Times DEF Next, TypeOK
  <2> QED BY <2>1, ElsewhereClock
<1>3. /\ \A x \in Runtime : load[x].updatedAt <= github.updatedAt /\ load[x].research <= now
      /\ item.updatedAt <= github.updatedAt
  BY DEF StampsSound, SoundAt
<1> DEFINE Held(it) == it \in WorkItem /\ it.updatedAt <= github.updatedAt /\ it.research <= now
<1>4. Held(Blank) /\ (\A x \in Runtime : Held(load[x]))
  BY <1>1, <1>3, BlankType DEF Blank
<1>5. ASSUME NEW x \in Runtime, NEW from, NEW to, NEW it, Held(it), Go(x, from, to, it)
      PROVE  Held(load'[r])
  BY <1>1, <1>4, <1>5 DEF Go
<1>6. ASSUME NEW x \in Runtime, Work(x) PROVE Held(load'[r])
  <2>1. Held(Carried(item)) /\ Held([Carried(item) EXCEPT !.proposed = TRUE])
    <3>1. Carried(item) \in WorkItem
      BY <1>1, CarriedType
    <3>2. [Carried(item) EXCEPT !.proposed = TRUE] \in WorkItem
      BY <3>1 DEF WorkItem
    <3>3. Carried(item).updatedAt = item.updatedAt /\ Carried(item).research = 0
      BY DEF Carried, Blank
    <3>4. /\ [Carried(item) EXCEPT !.proposed = TRUE].updatedAt = item.updatedAt
          /\ [Carried(item) EXCEPT !.proposed = TRUE].research = 0
      BY DEF Carried, Blank
    <3> QED BY <1>1, <1>3, <3>1, <3>2, <3>3, <3>4
  <2>2. Held([Blank EXCEPT !.thread = item.thread]) /\ Held([Blank EXCEPT !.research = now])
    <3>1. [Blank EXCEPT !.thread = item.thread] \in WorkItem
      BY <1>1, BlankType DEF WorkItem
    <3>2. now \in Time
      BY DEF TypeOK
    <3>3. [Blank EXCEPT !.research = now] \in WorkItem
      BY <3>2, BlankType DEF WorkItem
    <3> QED BY <1>1, <3>1, <3>3 DEF Blank
  <2>3. Held([Blank EXCEPT !.stored = TRUE, !.updatedAt = github.updatedAt])
    <3>1. github.updatedAt \in Time
      BY DEF TypeOK
    <3>2. [Blank EXCEPT !.stored = TRUE, !.updatedAt = github.updatedAt] \in WorkItem
      BY <3>1, BlankType DEF WorkItem
    <3> QED BY <1>1, <3>2 DEF Blank
  <2>4. Held([load[x] EXCEPT !.completed = TRUE])
    BY <1>1, <1>3 DEF WorkItem
  <2> HIDE DEF Held
  <2> QED BY <1>4, <1>5, <1>6, <2>1, <2>2, <2>3, <2>4 DEF Work, FetchWorklist, RetireCandidates,
       ConfirmClosed, ReadToEnrich, ReadToRank, ReadToConverse, Reweigh
<1>7. ASSUME NEW x \in Runtime, Finish(x) \/ Fail(x) PROVE Held(load'[r])
  BY <1>1, <1>4, <1>7 DEF Finish, Fail
<1>8. ASSUME NEW t \in JobType, GiveUp(t) PROVE Held(load'[r])
  BY <1>1, <1>4, <1>8 DEF GiveUp
<1>9. ASSUME load' = load PROVE Held(load'[r])
  <2>1. Held(load[r])
    BY <1>4
  <2> QED BY <1>9, <2>1
<1>10. Held(load'[r])
  <2> HIDE DEF Held
  <2> QED BY <1>6, <1>7, <1>8, <1>9 DEF Elsewhere, Begin, Converse, Resume, Resolve, RefreshOnce,
       ReconcileOnce, Deliver, GitHubChanges, Tick
<1>11. load'[r].updatedAt \in Nat /\ load'[r].research \in Nat
  BY <1>1, <1>10
<1> QED BY <1>1, <1>2, <1>10, <1>11

-----------------------------------------------------------------------------
(* Stamps.                                                                 *)

LEMMA SoundLater ==
    ASSUME NEW it \in WorkItem, NEW t \in Nat, NEW u \in Nat, NEW t2 \in Nat, NEW u2 \in Nat,
           t <= t2, u <= u2, SoundAt(it, t, u)
    PROVE  SoundAt(it, t2, u2)
<1>1. \A i \in DOMAIN it.thread : it.thread[i].at \in Nat
  <2>1. it.thread \in Seq(Message)
    BY DEF WorkItem
  <2>2. \A i \in DOMAIN it.thread : it.thread[i] \in Message
    BY <2>1
  <2> QED BY <2>2, Times DEF Message
<1>2. it.readAt \in Nat /\ it.hiddenAt \in Nat /\ it.research \in Nat /\ it.updatedAt \in Nat
  BY Times DEF WorkItem
<1> QED BY <1>1, <1>2 DEF SoundAt

LEMMA SoundBlank == ASSUME NEW t \in Nat, NEW u \in Nat PROVE SoundAt(Blank, t, u)
BY DEF SoundAt, InOrder, Blank

\* A message stamped by the clock goes last.
LEMMA SoundSay ==
    ASSUME TypeOK, NEW it \in WorkItem, NEW u \in Nat, NEW role, NEW seen,
           SoundAt(it, now, u)
    PROVE  SoundAt(Say(it, role, seen), now, u)
<1> DEFINE message == [role |-> role, at |-> now, seen |-> seen]
           said == Say(it, role, seen)
<1>1. now \in Nat /\ it.thread \in Seq(Message) /\ it \in WorkItem
  BY Times DEF TypeOK, WorkItem
<1>2. said.thread = Append(it.thread, message)
  BY DEF Say, WorkItem
<1>3. /\ said.readAt = it.readAt /\ said.hiddenAt = it.hiddenAt
      /\ said.research = it.research /\ said.updatedAt = it.updatedAt
  BY DEF Say, WorkItem
<1> DEFINE L == Len(it.thread)
<1>4. /\ L \in Nat /\ DOMAIN it.thread = 1 .. L /\ DOMAIN said.thread = 1 .. L + 1
      /\ \A i \in 1 .. L : said.thread[i] = it.thread[i]
      /\ said.thread[L + 1] = message
  BY <1>1, <1>2
<1>5. message.at = now
  OBVIOUS
<1> HIDE DEF message, said, L
<1>6. \A i \in DOMAIN said.thread : said.thread[i].at <= now
  BY <1>1, <1>4, <1>5 DEF SoundAt
<1>7. InOrder(said.thread)
  BY <1>1, <1>4, <1>5 DEF SoundAt, InOrder
<1> QED BY <1>3, <1>6, <1>7 DEF SoundAt, said

LEMMA SoundMade ==
    ASSUME TypeOK, StampsSound, NEW c \in Caller, NEW it, Made(c, it)
    PROVE  SoundAt(it, now, github.updatedAt)
<1> DEFINE u == github.updatedAt
           copy == snap[c]
<1>1. now \in Nat /\ u \in Nat /\ copy \in WorkItem /\ SoundAt(copy, now, u)
  BY Times DEF TypeOK, StampsSound
<1>2. ASSUME NEW role, NEW seen, it = Say(copy, role, seen) PROVE SoundAt(it, now, u)
  BY <1>1, <1>2, SoundSay
<1>3. CASE it = [copy EXCEPT !.readAt = now] \/ it = [copy EXCEPT !.hiddenAt = now]
  BY <1>1, <1>3 DEF SoundAt, WorkItem
<1>4. CASE c \in Runtime /\ it = Merged(load[c], copy)
  <2>1. load[c] \in WorkItem /\ load[c].updatedAt <= u
    BY <1>4 DEF TypeOK, StampsSound
  <2>2. /\ it.thread = copy.thread /\ it.readAt = copy.readAt /\ it.research = copy.research
        /\ it.updatedAt = load[c].updatedAt
        /\ it.hiddenAt = HiddenAfter(copy.hiddenAt, load[c].updatedAt)
    BY <1>4, <2>1 DEF Merged, WorkItem
  <2>3. it.hiddenAt <= now
    BY <1>1, <2>2 DEF HiddenAfter, SoundAt
  <2> QED BY <1>1, <2>1, <2>2, <2>3 DEF SoundAt
<1>5. CASE c \in Runtime /\ it = Researched(load[c].research, copy)
  <2>1. load[c].research <= now
    BY <1>5 DEF StampsSound
  <2> QED BY <1>1, <1>5, <2>1 DEF Researched, SoundAt, WorkItem
<1> QED BY <1>2, <1>3, <1>4, <1>5 DEF Made

LEMMA StampsInit == Init => StampsSound
BY SoundBlank DEF Init, StampsSound, Blank

LEMMA StampsStep == TypeOK /\ StampsSound /\ [Next]_vars => StampsSound'
<1> SUFFICES ASSUME TypeOK, StampsSound, [Next]_vars PROVE StampsSound'
  OBVIOUS
<1>1. TypeOK'
  BY TypeStep
<1>2. /\ now \in Nat /\ github.updatedAt \in Nat /\ item \in WorkItem /\ snap \in [Caller -> WorkItem]
      /\ load \in [Runtime -> WorkItem] /\ github'.updatedAt \in Nat
  BY <1>1, Times DEF TypeOK
<1>3. CASE UNCHANGED vars
  BY <1>3 DEF vars, StampsSound
<1>4. CASE \E c \in Caller : Stores(c)
  <2>1. PICK c \in Caller : Stores(c)
    BY <1>4
  <2>2. SoundAt(item', now, github.updatedAt)
    BY <2>1, SoundMade DEF Stores
  <2>3. \A d \in Caller : SoundAt(snap'[d], now, github.updatedAt)
    BY <1>2, <2>1, SoundBlank DEF Stores, StampsSound
  <2>4. \A r \in Runtime : load'[r].updatedAt <= github.updatedAt /\ load'[r].research <= now
    BY <1>2, <2>1 DEF Stores, StampsSound, Blank
  <2>5. now' = now /\ github' = github
    BY <2>1 DEF Stores
  <2> QED BY <2>2, <2>3, <2>4, <2>5 DEF StampsSound
<1>5. CASE Elsewhere
  <2>1. /\ item' = item /\ now' \in Nat /\ now <= now'
        /\ github.updatedAt <= github'.updatedAt /\ github'.updatedAt <= now'
    BY <1>5, ElsewhereClock
  <2>2. \A it \in WorkItem : SoundAt(it, now, github.updatedAt) => SoundAt(it, now', github'.updatedAt)
    BY <1>2, <2>1, SoundLater
  <2>3. \A d \in Caller : snap'[d] \in {snap[d], item}
    BY <1>5, ElsewhereCopies
  <2>4. \A d \in Caller : SoundAt(snap'[d], now', github'.updatedAt)
    BY <1>2, <2>2, <2>3 DEF StampsSound
  <2>5. SoundAt(item', now', github'.updatedAt)
    BY <1>2, <2>1, <2>2 DEF StampsSound
  <2>6. \A r \in Runtime : load'[r].updatedAt <= github'.updatedAt /\ load'[r].research <= now'
    BY <1>5, ElsewhereLoads
  <2> QED BY <2>1, <2>4, <2>5, <2>6 DEF StampsSound
<1> QED BY <1>3, <1>4, <1>5, StepKinds

-----------------------------------------------------------------------------
(* Copies, and what is under way.                                          *)

LEMMA PostsStep ==
    ASSUME TypeOK, PostsAwaited, [Next]_vars
    PROVE  PostsAwaited'
<1> USE Names
<1> SUFFICES ASSUME NEW r \in Runtime, phase'[r] = "read" PROVE step'[r] = "ready"
  BY DEF PostsAwaited
<1>1. /\ step \in [Runtime -> Step] /\ phase \in [Caller -> {"none", "read", "saved"}]
      /\ phase[r] = "read" => step[r] = "ready"
  BY DEF TypeOK, PostsAwaited
<1>2. CASE UNCHANGED vars
  BY <1>1, <1>2 DEF vars
<1>3. ASSUME NEW c \in Caller, Stores(c) PROVE step'[r] = "ready"
  BY <1>1, <1>3 DEF Stores
<1>4. CASE Elsewhere
  <2>1. ASSUME NEW op \in UserOp, Begin(op) \/ Converse(op) \/ Resume
        PROVE  r # op /\ phase[r] = "read"
    BY <1>1, <2>1, NotBoth DEF Begin, List, Converse, Resume
  <2>2. ASSUME NEW t \in JobType, Enqueue(t), phase[r] = "read" PROVE step'[r] = "ready"
    BY <1>1, <2>2 DEF Enqueue
  <2>3. ASSUME NEW x \in Runtime, Work(x) PROVE step'[r] = "ready"
    <3>1. PICK from, to, it : from # "ready" /\ Go(x, from, to, it)
      BY <2>3 DEF Work, FetchWorklist, RetireCandidates, ConfirmClosed, ReadToEnrich,
         ReadToRank, ReadToConverse, Reweigh
    <3> QED BY <1>1, <3>1 DEF Go
  <2>4. ASSUME NEW x \in Runtime, Deliver(x) PROVE step'[r] = "ready"
    BY <1>1, <2>4 DEF Deliver, List
  <2>5. ASSUME NEW x \in Runtime, Finish(x) PROVE step'[r] = "ready"
    <3>1. \A t \in DOMAIN NextStage : NextStage[t] \in JobType
      BY DEF NextStage
    <3> QED BY <1>1, <2>5, <3>1 DEF Finish
  <2>6. ASSUME NEW x \in Runtime, Fail(x) PROVE step'[r] = "ready"
    BY <1>1, <2>6 DEF Fail
  <2>7. ASSUME NEW t \in JobType, GiveUp(t) PROVE step'[r] = "ready"
    BY <1>1, <2>7 DEF GiveUp
  <2>8. CASE UNCHANGED <<step, phase>>
    BY <1>1, <2>8
  <2>9. "resume" \in UserOp /\ "ingest" \in JobType /\ "converse" \in JobType /\ "research" \in JobType
    OBVIOUS
  <2>10. CASE Resolve \/ RefreshOnce \/ ReconcileOnce
    BY <1>1, <2>2, <2>9, <2>10 DEF Resolve, RefreshOnce, ReconcileOnce
  <2>11. ASSUME NEW op \in UserOp, Begin(op) \/ Converse(op) \/ Resume
         PROVE  step'[r] = "ready"
    BY <1>1, <2>1, <2>2, <2>9, <2>11 DEF Begin, Converse, Resume
  <2> QED BY <1>4, <2>3, <2>4, <2>5, <2>6, <2>7, <2>8, <2>9, <2>10, <2>11
        DEF Elsewhere, GitHubChanges, Tick
<1> QED BY <1>2, <1>3, <1>4, StepKinds

LEMMA CopiesStep ==
    ASSUME TypeOK, CopiesInSync, [Next]_vars
    PROVE  CopiesInSync'
<1> SUFFICES ASSUME ~Overlap
             PROVE  /\ \A c, d \in Caller : phase'[c] = "read" /\ phase'[d] = "read" => c = d
                    /\ \A c \in Caller : phase'[c] = "read" => snap'[c] = item'
  BY DEF CopiesInSync
<1>1. CASE UNCHANGED vars
  BY <1>1 DEF vars, CopiesInSync
<1>2. ASSUME NEW c \in Caller, Stores(c) PROVE \A d \in Caller : phase'[d] # "read"
  BY <1>2 DEF Stores, CopiesInSync, TypeOK
<1>3. CASE Elsewhere
  <2>1. item' = item
    BY <1>3 DEF Elsewhere, Begin, Converse, Resume, Resolve, RefreshOnce, ReconcileOnce, Finish,
       Fail, Deliver, GiveUp, GitHubChanges, Tick, Work, FetchWorklist, RetireCandidates,
       ConfirmClosed, ReadToEnrich, ReadToRank, ReadToConverse, Reweigh, Go
  <2>2. \A d \in Caller : phase[d] # "read"
    BY <1>3 DEF Elsewhere, Undisturbed
  <2> QED BY <1>3, <2>1, <2>2, ElsewhereCopies
<1> QED BY <1>1, <1>2, <1>3, StepKinds

\* No other step makes a converse or a research job ready to report.
LEMMA ElsewhereReady ==
    ASSUME TypeOK, Elsewhere, stray' = "none", NEW t \in {"converse", "research"},
           step'[t] = "ready"
    PROVE  /\ stray = "none"
           /\ (step[t] = "ready" /\ load'[t] = load[t]) \/ Work(t)
<1> USE Names
<1>1. /\ step \in [Runtime -> Step] /\ load \in [Runtime -> WorkItem]
      /\ t \in JobType /\ t \in Runtime
  BY DEF TypeOK
<1> DEFINE Kept == step[t] = "ready" /\ load'[t] = load[t]
<1>2. ASSUME NEW u \in JobType, Enqueue(u) PROVE step[t] = "ready"
  BY <1>1, <1>2 DEF Enqueue
<1>3. ASSUME NEW r \in Runtime, Work(r) PROVE Kept \/ r = t
  <2>1. PICK from, to, it : Go(r, from, to, it)
    BY <1>3 DEF Work, FetchWorklist, RetireCandidates, ConfirmClosed, ReadToEnrich,
       ReadToRank, ReadToConverse, Reweigh
  <2> QED BY <1>1, <2>1 DEF Go
<1>4. ASSUME NEW r \in Runtime, Finish(r) PROVE Kept
  <2>1. \A x \in DOMAIN NextStage : NextStage[x] \in {"enrich", "rank"}
    BY DEF NextStage
  <2> QED BY <1>1, <1>4, <2>1 DEF Finish
<1>5. ASSUME NEW r \in Runtime, Fail(r) PROVE Kept
  BY <1>1, <1>5 DEF Fail
<1>6. ASSUME NEW u \in JobType, GiveUp(u) PROVE FALSE
  BY <1>6 DEF GiveUp
<1>7. ASSUME UNCHANGED <<step, load>> PROVE Kept
  BY <1>7
<1>8. Kept \/ Work(t)
  BY <1>2, <1>3, <1>4, <1>5, <1>6, <1>7 DEF Elsewhere, Begin, Converse, Resume, Resolve,
     RefreshOnce, ReconcileOnce, Deliver, GitHubChanges, Tick
<1>9. stray' = stray
  <2>1. ASSUME NEW r \in Runtime, Work(r) PROVE stray' = stray
    BY <2>1 DEF Work, FetchWorklist, RetireCandidates, ConfirmClosed, ReadToEnrich,
       ReadToRank, ReadToConverse, Reweigh, Go
  <2> QED BY <1>6, <2>1 DEF Elsewhere, Begin, Converse, Resume, Resolve, RefreshOnce,
       ReconcileOnce, Deliver, GitHubChanges, Tick, Finish, Fail
<1> QED BY <1>8, <1>9

\* No runtime strays unnoticed.
LEMMA StrayStep ==
    ASSUME TypeOK, stray = "none" => step["stray"] = "idle", [Next]_vars, stray' = "none"
    PROVE  stray = "none" /\ step'["stray"] = "idle"
<1> USE Names
<1>1. step \in [Runtime -> Step] /\ \A t \in JobType : t # "stray"
  BY DEF TypeOK
<1>2. CASE UNCHANGED vars
  BY <1>2 DEF vars
<1>3. ASSUME NEW c \in Caller, Stores(c) PROVE stray = "none" /\ step'["stray"] = "idle"
  BY <1>1, <1>3 DEF Stores, TypeOf
<1>4. CASE Elsewhere
  <2> DEFINE Quiet == stray = "none" /\ step'["stray"] = "idle"
  <2>1. ASSUME NEW t \in JobType, Enqueue(t), stray' = stray PROVE Quiet
    BY <1>1, <2>1 DEF Enqueue
  <2>2. ASSUME NEW r \in Runtime, Work(r) PROVE Quiet
    <3>1. PICK from, to, it : Go(r, from, to, it)
      BY <2>2 DEF Work, FetchWorklist, RetireCandidates, ConfirmClosed, ReadToEnrich,
         ReadToRank, ReadToConverse, Reweigh
    <3>2. TypeOf(r) # "none"
      BY <2>2 DEF Work
    <3> QED BY <1>1, <3>1, <3>2 DEF Go, TypeOf
  <2>3. ASSUME NEW r \in Runtime, Finish(r) \/ Fail(r) PROVE Quiet
    <3>1. \A x \in DOMAIN NextStage : NextStage[x] \in JobType
      BY DEF NextStage
    <3> QED BY <1>1, <2>3, <3>1 DEF Finish, Fail
  <2>4. ASSUME NEW t \in JobType, GiveUp(t) PROVE FALSE
    BY <2>4 DEF GiveUp
  <2>5. ASSUME UNCHANGED <<step, stray>> PROVE Quiet
    BY <2>5
  <2> QED BY <1>4, <2>1, <2>2, <2>3, <2>4, <2>5 DEF Elsewhere, Begin, Converse, Resume, Resolve,
       RefreshOnce, ReconcileOnce, Deliver, GitHubChanges, Tick
<1> QED BY <1>2, <1>3, <1>4, StepKinds

LEMMA ResearchStep ==
    ASSUME TypeOK, StampsSound, CopiesInSync, ResearchInSync, [Next]_vars
    PROVE  ResearchInSync'
<1> USE Names
<1>1. stray' = "none" => step'["stray"] = "idle"
  BY StrayStep DEF ResearchInSync
<1>2. ASSUME ~Overlap, stray' = "none", step'["research"] = "ready"
      PROVE  item'.research <= load'["research"].research
  <2>1. stray = "none"
    BY <1>2, StrayStep DEF ResearchInSync
  <2>2. CASE UNCHANGED vars
    BY <1>2, <2>1, <2>2 DEF vars, ResearchInSync
  <2>3. ASSUME NEW c \in Caller, Stores(c)
        PROVE  item'.research <= load'["research"].research
    <3>1. snap[c] = item /\ item \in WorkItem
      BY <1>2, <2>3 DEF Stores, CopiesInSync, TypeOK
    <3>2. c # "research" /\ step["research"] = "ready" /\ load'["research"] = load["research"]
      BY <1>2, <2>3, NotBoth DEF Stores, TypeOK, Step
    <3>3. ~(TypeOf(c) = "research" /\ c \in Runtime)
      BY <2>1, <3>2 DEF TypeOf
    <3>4. item'.research = item.research
      BY <2>3, <3>1, <3>3, Parts DEF Stores
    <3>5. item.research <= load["research"].research
      BY <1>2, <2>1, <3>2 DEF ResearchInSync
    <3>6. load'["research"].research = load["research"].research
      BY <3>2
    <3> QED BY <3>4, <3>5, <3>6
  <2>4. CASE Elsewhere
    <3>1. item' = item
      BY <2>4, ElsewhereClock
    <3>2. CASE step["research"] = "ready" /\ load'["research"] = load["research"]
      BY <1>2, <2>1, <3>1, <3>2 DEF ResearchInSync
    <3>3. CASE Work("research")
      <4>1. load' = [load EXCEPT !["research"] = [Blank EXCEPT !.research = now]]
        BY <3>3 DEF Work, TypeOf, Reweigh, Go
      <4>2. load'["research"].research = now
        BY <4>1 DEF TypeOK, Blank
      <4> QED BY <3>1, <4>2 DEF StampsSound, SoundAt
    <3> QED BY <1>2, <2>4, <3>2, <3>3, ElsewhereReady
  <2> QED BY <2>2, <2>3, <2>4, StepKinds
<1> QED BY <1>1, <1>2 DEF ResearchInSync

-----------------------------------------------------------------------------
(* Replies.                                                                *)

LEMMA AwaitsItself ==
    ASSUME NEW thread \in Seq(Message), LastIs(thread, "user")
    PROVE  Awaits(thread, thread)
BY DEF Awaits, LastIs, Extends

LEMMA AppendedTurn ==
    ASSUME NEW thread \in Seq(Message), NEW m, m.role = "user", AnsweredIn(thread)
    PROVE  /\ AnsweredIn(Append(thread, m))
           /\ \A read \in Seq(Message) : Awaits(read, thread) => Awaits(read, Append(thread, m))
<1> DEFINE L == Len(thread)
           longer == Append(thread, m)
<1>1. /\ L \in Nat /\ DOMAIN thread = 1 .. L /\ DOMAIN longer = 1 .. L + 1 /\ Len(longer) = L + 1
      /\ (\A i \in 1 .. L : longer[i] = thread[i]) /\ longer[L + 1] = m
  OBVIOUS
<1>2. \A i \in 1 .. L + 1 : longer[i].role = "agent" => i \in 1 .. L /\ thread[i].role = "agent"
  BY <1>1
<1> HIDE DEF L, longer
<1>3. AnsweredIn(longer)
  BY <1>1, <1>2 DEF AnsweredIn
<1>4. ASSUME NEW read \in Seq(Message), Awaits(read, thread) PROVE Awaits(read, longer)
  <2>1. Len(read) \in Nat /\ DOMAIN read = 1 .. Len(read) /\ Len(thread) = L
    BY DEF L
  <2>2. Extends(longer, read)
    BY <1>1, <1>4, <2>1 DEF Awaits, Extends
  <2>3. \A k \in DOMAIN longer : longer[k].role = "agent" => k <= Len(read)
    BY <1>1, <1>2, <1>4 DEF Awaits
  <2> QED BY <1>4, <2>2, <2>3 DEF Awaits
<1> QED BY <1>3, <1>4 DEF longer

LEMMA AppendedReply ==
    ASSUME NEW thread \in Seq(Message), NEW read \in Seq(Message), NEW m,
           m.seen = Len(read), AnsweredIn(thread), Awaits(read, thread)
    PROVE  AnsweredIn(Append(thread, m))
<1> DEFINE L == Len(thread)
           n == Len(read)
           longer == Append(thread, m)
<1>1. /\ L \in Nat /\ DOMAIN thread = 1 .. L /\ DOMAIN longer = 1 .. L + 1
      /\ (\A i \in 1 .. L : longer[i] = thread[i]) /\ longer[L + 1] = m
  OBVIOUS
<1>2. n \in 1 .. L /\ DOMAIN read = 1 .. n /\ thread[n] = read[n] /\ read[n].role = "user"
  BY DEF Awaits, LastIs, Extends
<1>3. m.seen = n
  OBVIOUS
<1>4. \A k \in 1 .. L : thread[k].role = "agent" => k <= n /\ thread[k].seen \in 1 .. (k - 1)
  BY <1>1 DEF Awaits, AnsweredIn
<1> HIDE DEF L, n, longer
<1>5. \A k \in 1 .. L : thread[k].role = "agent" => thread[k].seen < n
  BY <1>1, <1>2, <1>4
<1>6. \A i \in 1 .. L : longer[i].role = "agent" =>
          /\ longer[i].seen \in 1 .. (i - 1)
          /\ longer[longer[i].seen].role = "user"
          /\ \A k \in 1 .. (i - 1) : longer[k].role = "agent" => longer[k].seen < longer[i].seen
  BY <1>1 DEF AnsweredIn
<1>7. /\ m.seen \in 1 .. L /\ longer[m.seen].role = "user"
      /\ \A k \in 1 .. L : longer[k].role = "agent" => longer[k].seen < m.seen
  BY <1>1, <1>2, <1>3, <1>5
<1>8. \A i \in 1 .. L + 1 : i \in 1 .. L \/ (i = L + 1 /\ i - 1 = L)
  BY <1>1
<1> QED BY <1>1, <1>6, <1>7, <1>8 DEF AnsweredIn, longer

LEMMA ReplyStep ==
    ASSUME TypeOK, StampsSound, PostsAwaited, CopiesInSync, ResearchInSync, ReplyInSync,
           [Next]_vars
    PROVE  ReplyInSync'
<1> USE Names
<1> SUFFICES ASSUME ~Overlap, stray' = "none"
             PROVE  /\ AnsweredOnce'
                    /\ step'["converse"] = "ready" =>
                          Awaits(load'["converse"].thread, item'.thread)
  BY DEF ReplyInSync
<1>1. /\ item.thread \in Seq(Message) /\ load["converse"].thread \in Seq(Message)
      /\ step \in [Runtime -> Step] /\ load \in [Runtime -> WorkItem] /\ "converse" \in Runtime
  BY DEF TypeOK, WorkItem
<1>2. /\ stray = "none" /\ AnsweredIn(item.thread)
      /\ step["converse"] = "ready" => Awaits(load["converse"].thread, item.thread)
  BY StrayStep DEF ResearchInSync, ReplyInSync, AnsweredOnce
<1>3. CASE UNCHANGED vars
  BY <1>2, <1>3 DEF vars, AnsweredOnce
<1>4. ASSUME NEW c \in Caller, Stores(c)
      PROVE  /\ AnsweredIn(item'.thread)
             /\ step'["converse"] = "ready" => Awaits(load'["converse"].thread, item'.thread)
  <2>1. snap[c] = item
    BY <1>4 DEF Stores, CopiesInSync
  <2>2. \/ item'.thread = item.thread
        \/ item'.thread = Append(item.thread, Added(c)) /\ (c \in UserOp \/ TypeOf(c) = "converse")
    BY <1>4, <2>1, Parts DEF Stores
  <2>3. step'["converse"] = "ready" =>
            /\ c # "converse" /\ step["converse"] = "ready"
            /\ load'["converse"] = load["converse"]
    BY <1>1, <1>4, NotBoth DEF Stores
  <2>4. CASE item'.thread = item.thread
    BY <1>2, <2>3, <2>4
  <2>5. CASE item'.thread = Append(item.thread, Added(c)) /\ c \in UserOp
    <3>1. Added(c).role = "user"
      BY <2>5 DEF Added
    <3>2. AnsweredIn(item'.thread)
      BY <1>1, <1>2, <2>5, <3>1, AppendedTurn
    <3>3. Awaits(load["converse"].thread, item.thread) => Awaits(load["converse"].thread, item'.thread)
      BY <1>1, <1>2, <2>5, <3>1, AppendedTurn
    <3> QED BY <1>2, <2>3, <3>2, <3>3
  <2>6. CASE item'.thread = Append(item.thread, Added(c)) /\ c \notin UserOp /\ TypeOf(c) = "converse"
    <3>1. c = "converse"
      BY <1>2, <2>6 DEF TypeOf
    <3>2. step["converse"] = "ready"
      BY <1>1, <1>4, <3>1 DEF Stores, PostsAwaited
    <3>3. Added(c).seen = Len(load["converse"].thread)
      BY <2>6, <3>1 DEF Added
    <3>4. AnsweredIn(item'.thread)
      BY <1>1, <1>2, <2>6, <3>2, <3>3, AppendedReply
    <3> QED BY <2>3, <3>1, <3>4
  <2> QED BY <2>2, <2>4, <2>5, <2>6
<1>5. CASE Elsewhere
  <2>1. item' = item
    BY <1>5, ElsewhereClock
  <2>2. ASSUME Work("converse"), step'["converse"] = "ready"
        PROVE  Awaits(load'["converse"].thread, item.thread)
    <3>1. /\ LastIs(item.thread, "user")
          /\ load' = [load EXCEPT !["converse"] = [Blank EXCEPT !.thread = item.thread]]
      BY <1>1, <2>2 DEF Work, TypeOf, ReadToConverse, Go
    <3>2. load'["converse"].thread = item.thread
      BY <1>1, <3>1 DEF Blank
    <3> QED BY <1>1, <3>1, <3>2, AwaitsItself
  <2>3. step'["converse"] = "ready" => Awaits(load'["converse"].thread, item.thread)
    BY <1>2, <1>5, <2>2, ElsewhereReady
  <2> QED BY <1>2, <2>1, <2>3 DEF AnsweredOnce
<1> QED BY <1>3, <1>4, <1>5, StepKinds DEF AnsweredOnce

-----------------------------------------------------------------------------
(* Theorems.                                                               *)

LEMMA InvInit == Init => IInv
<1> SUFFICES ASSUME Init PROVE IInv
  OBVIOUS
<1>1. TypeOK /\ StampsSound
  BY TypeInit, StampsInit
<1>2. \A r \in Runtime : step[r] = "idle"
  BY DEF Init
<1>3. \A c \in Caller : phase[c] = "none"
  BY DEF Init
<1>4. AnsweredOnce
  BY DEF Init, AnsweredOnce, AnsweredIn, Blank
<1> QED BY <1>1, <1>2, <1>3, <1>4, Names
       DEF IInv, PostsAwaited, CopiesInSync, ResearchInSync, ReplyInSync

LEMMA InvStep == IInv /\ [Next]_vars => IInv'
BY TypeStep, StampsStep, PostsStep, CopiesStep, ResearchStep, ReplyStep DEF IInv

\* The inductive invariant, with or without overlap and strays.
THEOREM InvariantHolds == SafetySpec => []IInv
BY InvInit, InvStep, PTL DEF SafetySpec

\* Whoever overwrites whom, the thread is in the order of its stamps.
THEOREM ConversationInOrder == SafetySpec => []ThreadInOrder
<1>1. IInv => ThreadInOrder
  BY DEF IInv, StampsSound, SoundAt, ThreadInOrder
<1> QED BY <1>1, InvariantHolds, PTL

\* No turn is answered twice where handlers do not overlap and no runtime has
\* outlived its job.
THEOREM NoSecondAnswer ==
    ASSUME ~Overlap
    PROVE  SafetySpec => []AnsweredOnceByLiveJobs
<1>1. IInv => AnsweredOnceByLiveJobs
  BY DEF IInv, ReplyInSync, AnsweredOnceByLiveJobs
<1> QED BY <1>1, InvariantHolds, PTL

\* A handler stores what it made of a copy that is no longer the stored item:
\* another has stored since it listed.
StaleWrite == \E c \in Caller : Stores(c) /\ snap[c] # item

\* Where handlers do not overlap there is none.
LEMMA NoStaleWrite == ~Overlap /\ IInv => ~StaleWrite
BY DEF StaleWrite, Stores, IInv, CopiesInSync

\* But for such a write, what is stored is made of what was stored.
LEMMA ItemSteps ==
    ASSUME IInv, [Next]_vars, ~StaleWrite
    PROVE  item' = item \/ \E c \in Caller : Stores(c) /\ snap[c] = item
BY StepKinds, ElsewhereClock DEF StaleWrite, IInv, vars

\* No write but a stale one takes a message from the thread.
LEMMA ThreadStep ==
    ASSUME IInv, [Next]_vars, ~StaleWrite
    PROVE  Extends(item'.thread, item.thread)
<1>1. IInv /\ [Next]_vars /\ ~StaleWrite
  OBVIOUS
<1>2. Extends(item'.thread, item.thread)
  <2>1. item.thread \in Seq(Message)
    BY <1>1 DEF IInv, TypeOK, WorkItem
  <2>2. Extends(item.thread, item.thread)
    BY <2>1 DEF Extends
  <2>3. \A m : Extends(Append(item.thread, m), item.thread)
    BY <2>1 DEF Extends
  <2>4. ASSUME NEW c \in Caller, Stores(c), snap[c] = item
        PROVE  item'.thread = item.thread \/ item'.thread = Append(item.thread, Added(c))
    BY <1>1, <2>4, Parts DEF Stores, IInv
  <2> QED BY <1>1, <2>2, <2>3, <2>4, ItemSteps
<1> QED BY <1>2

\* Where handlers do not overlap, no message is taken from a thread.
THEOREM MessagesSurvive ==
    ASSUME ~Overlap
    PROVE  SafetySpec => ThreadKept
<1>1. IInv /\ [Next]_vars => [Extends(item'.thread, item.thread)]_vars
  BY ThreadStep, NoStaleWrite
<1> QED BY <1>1, InvariantHolds, PTL DEF SafetySpec, ThreadKept

\* No write but a stale one shows a hidden item again before GitHub has news of it.
LEMMA HiddenStep ==
    ASSUME IInv, [Next]_vars, ~StaleWrite, item.hiddenAt # 0, github.updatedAt <= item.hiddenAt
    PROVE  item'.hiddenAt >= item.hiddenAt
<1>1. /\ IInv /\ [Next]_vars /\ ~StaleWrite
      /\ item.hiddenAt # 0 /\ github.updatedAt <= item.hiddenAt
  OBVIOUS
<1>2. item'.hiddenAt >= item.hiddenAt
  <2>1. /\ item.hiddenAt \in Nat /\ now \in Nat /\ item.hiddenAt <= now
        /\ github.updatedAt \in Nat
    BY <1>1, Times DEF IInv, TypeOK, WorkItem, StampsSound, SoundAt
  <2>2. ASSUME NEW c \in Caller, Stores(c), snap[c] = item
        PROVE  item'.hiddenAt = item.hiddenAt \/ item'.hiddenAt = now
    <3>1. \/ item'.hiddenAt = item.hiddenAt \/ item'.hiddenAt = now
          \/ /\ c \in Runtime
             /\ item'.hiddenAt = HiddenAfter(item.hiddenAt, load[c].updatedAt)
      BY <1>1, <2>2, Parts DEF Stores, IInv
    <3>2. ASSUME c \in Runtime PROVE load[c].updatedAt \in Nat /\ load[c].updatedAt <= item.hiddenAt
      <4>1. load[c] \in WorkItem
        BY <1>1, <3>2 DEF IInv, TypeOK
      <4>2. load[c].updatedAt \in Nat
        BY <4>1, Times DEF WorkItem
      <4>3. load[c].updatedAt <= github.updatedAt
        BY <1>1, <3>2 DEF IInv, StampsSound
      <4> QED BY <1>1, <2>1, <4>2, <4>3
    <3> QED BY <2>1, <3>1, <3>2 DEF HiddenAfter
  <2> QED BY <1>1, <2>1, <2>2, ItemSteps
<1> QED BY <1>2

\* Where handlers do not overlap, a hidden item is not shown again before GitHub
\* has news of it.
THEOREM HiddenStaysHidden ==
    ASSUME ~Overlap
    PROVE  SafetySpec => HiddenUntilNews
<1>1. IInv /\ [Next]_vars => (item.hiddenAt # 0 /\ github.updatedAt <= item.hiddenAt =>
          item'.hiddenAt >= item.hiddenAt)
  BY HiddenStep, NoStaleWrite
<1> QED BY <1>1, InvariantHolds, PTL DEF SafetySpec, HiddenUntilNews

\* No write but a stale one loses the proposal.
LEMMA ProposalStep ==
    ASSUME IInv, [Next]_vars, ~StaleWrite, item.proposed
    PROVE  item'.proposed
<1>1. ASSUME NEW c \in Caller, Stores(c), snap[c] = item
      PROVE  item'.proposed
  BY <1>1, Parts DEF Stores, IInv
<1> QED BY <1>1, ItemSteps

\* Where handlers do not overlap, no proposal is lost and, while no runtime has
\* outlived its job, no research is undone by older research.
THEOREM JudgementStands ==
    ASSUME ~Overlap
    PROVE  SafetySpec => JudgementKept
<1>1. ASSUME IInv, [Next]_vars
      PROVE  /\ item.proposed => item'.proposed
             /\ stray' = "none" => item'.research >= item.research
  <2>1. item.research \in Nat
    BY <1>1, Times DEF IInv, TypeOK, WorkItem
  <2>2. ASSUME NEW c \in Caller, Stores(c), snap[c] = item
        PROVE  /\ item.proposed => item'.proposed
               /\ stray' = "none" => item'.research >= item.research
    <3>1. item.proposed => item'.proposed
      BY <1>1, <2>2, Parts DEF Stores, IInv
    <3>2. CASE item'.research = item.research
      BY <2>1, <3>1, <3>2
    <3>3. ASSUME c \in Runtime, TypeOf(c) = "research", stray' = "none",
                 item' = Researched(load[c].research, item)
          PROVE  item'.research >= item.research
      <4>1. stray = "none" /\ c = "research"
        BY <2>2, <3>3 DEF Stores, TypeOf
      <4>2. step["research"] = "ready"
        BY <1>1, <2>2, <3>3, <4>1 DEF Stores, IInv, PostsAwaited
      <4>3. item.research <= load["research"].research
        BY <1>1, <4>1, <4>2 DEF IInv, ResearchInSync
      <4>4. item'.research = load["research"].research /\ load["research"].research \in Nat
        BY <1>1, <3>3, <4>1, Times DEF Researched, IInv, TypeOK, WorkItem
      <4> QED BY <2>1, <4>3, <4>4
    <3>4. item'.research = item.research
          \/ (c \in Runtime /\ TypeOf(c) = "research" /\ item' = Researched(load[c].research, item))
      <4>1. Made(c, item') /\ item \in WorkItem /\ (c \in Runtime => load[c] \in WorkItem)
        BY <1>1, <2>2 DEF Stores, IInv, TypeOK
      <4>2. CASE c \in Runtime /\ item' = Merged(load[c], item)
        BY <4>1, <4>2 DEF Merged, WorkItem
      <4>3. ASSUME NEW role, NEW seen, item' = Say(item, role, seen)
            PROVE  item'.research = item.research
        BY <4>1, <4>3 DEF Say, WorkItem
      <4>4. CASE item' = [item EXCEPT !.readAt = now] \/ item' = [item EXCEPT !.hiddenAt = now]
        BY <4>1, <4>4 DEF WorkItem
      <4> QED BY <2>2, <4>1, <4>2, <4>3, <4>4 DEF Made
    <3> QED BY <3>1, <3>2, <3>3, <3>4
  <2>3. ~StaleWrite
    BY <1>1, NoStaleWrite
  <2> QED BY <1>1, <2>1, <2>2, <2>3, ItemSteps
<1> QED BY <1>1, InvariantHolds, PTL DEF SafetySpec, JudgementKept

\* No write but a stale one moves the unread cue without a message or a receipt.
LEMMA CueStep ==
    ASSUME IInv, [Next]_vars, ~StaleWrite, HasUnreadReply(item) # HasUnreadReply(item')
    PROVE  IF HasUnreadReply(item')
           THEN Len(item'.thread) > Len(item.thread)
           ELSE item'.readAt > item.readAt
<1> DEFINE Unread(thread, readAt) ==
        \E i \in DOMAIN thread :
            /\ thread[i].role = "agent" /\ thread[i].at > readAt
            /\ \A k \in DOMAIN thread : k > i => thread[k].role = "user"
<1>1. IInv /\ [Next]_vars /\ ~StaleWrite /\ HasUnreadReply(item) # HasUnreadReply(item')
  OBVIOUS
<1>2. IF HasUnreadReply(item')
      THEN Len(item'.thread) > Len(item.thread)
      ELSE item'.readAt > item.readAt
  <2>1. PICK c \in Caller : Stores(c) /\ snap[c] = item
    BY <1>1, ItemSteps DEF HasUnreadReply
  <2>2. /\ item.thread \in Seq(Message) /\ item.readAt \in Nat /\ now \in Nat
        /\ \A i \in DOMAIN item.thread : item.thread[i].at \in Nat /\ item.thread[i].at <= now
        /\ item.readAt <= now
    <3>1. item \in WorkItem /\ now \in Nat /\ SoundAt(item, now, github.updatedAt)
      BY <1>1, Times DEF IInv, TypeOK, StampsSound
    <3>2. item.thread \in Seq(Message) /\ item.readAt \in Nat
      BY <3>1, Times DEF WorkItem
    <3>3. \A i \in DOMAIN item.thread : item.thread[i] \in Message
      BY <3>2
    <3>4. \A i \in DOMAIN item.thread : item.thread[i].at \in Nat
      BY <3>3, Times DEF Message
    <3> QED BY <3>1, <3>2, <3>4 DEF SoundAt
  <2>3. \/ item'.thread = item.thread
        \/ /\ item'.thread = Append(item.thread, Added(c)) /\ item'.readAt = item.readAt
    BY <1>1, <2>1, Parts DEF Stores, IInv
  <2>4. item'.readAt = item.readAt \/ item'.readAt = now
    BY <1>1, <2>1, Parts DEF Stores, IInv
  <2>5. /\ HasUnreadReply(item) = Unread(item.thread, item.readAt)
        /\ HasUnreadReply(item') = Unread(item'.thread, item'.readAt)
    BY DEF HasUnreadReply
  <2>6. CASE item'.thread = item.thread
    <3>1. item'.readAt = now /\ item'.readAt # item.readAt
      BY <1>1, <2>4, <2>5, <2>6
    <3>2. ~Unread(item'.thread, item'.readAt)
      BY <2>2, <2>6, <3>1
    <3> QED BY <2>2, <2>5, <3>1, <3>2
  <2>7. CASE item'.thread = Append(item.thread, Added(c)) /\ item'.readAt = item.readAt
    <3> DEFINE L == Len(item.thread)
    <3>1. /\ L \in Nat /\ DOMAIN item.thread = 1 .. L /\ DOMAIN item'.thread = 1 .. L + 1
          /\ \A i \in 1 .. L : item'.thread[i] = item.thread[i]
          /\ item'.thread[L + 1] = Added(c) /\ Len(item'.thread) = L + 1
      BY <2>2, <2>7
    <3>2. Added(c).at = now /\ Added(c).role \in {"user", "agent"}
      BY DEF Added
    <3>3. ASSUME Unread(item.thread, item.readAt) PROVE Unread(item'.thread, item'.readAt)
      <4> HIDE DEF L
      <4>1. PICK i \in 1 .. L : /\ item.thread[i].role = "agent" /\ item.thread[i].at > item.readAt
                               /\ \A k \in 1 .. L : k > i => item.thread[k].role = "user"
        BY <3>1, <3>3
      <4>2. CASE Added(c).role = "user"
        <5>1. \A k \in 1 .. L + 1 : k > i => item'.thread[k].role = "user"
          BY <3>1, <4>1, <4>2
        <5>2. i \in 1 .. L + 1 /\ item'.thread[i] = item.thread[i]
          BY <3>1, <4>1
        <5> QED BY <2>7, <3>1, <4>1, <5>1, <5>2
      <4>3. CASE Added(c).role = "agent"
        <5>1. item.thread[i].at \in Nat /\ item.thread[i].at <= now
          BY <2>2, <3>1, <4>1
        <5>2. now > item.readAt
          BY <2>2, <4>1, <5>1
        <5>3. L + 1 \in 1 .. L + 1 /\ \A k \in 1 .. L + 1 : ~(k > L + 1)
          BY <3>1
        <5>4. /\ item'.thread[L + 1].role = "agent" /\ item'.thread[L + 1].at = now
              /\ DOMAIN item'.thread = 1 .. L + 1
          BY <3>1, <3>2, <4>3
        <5>5. now > item'.readAt
          BY <2>7, <5>2
        <5> QED BY <5>3, <5>4, <5>5
      <4> QED BY <3>2, <4>2, <4>3
    <3>4. HasUnreadReply(item')
      BY <1>1, <2>5, <3>3
    <3> HIDE DEF L
    <3>5. L + 1 > L
      BY <3>1
    <3> QED BY <3>1, <3>4, <3>5 DEF L
  <2> QED BY <2>3, <2>6, <2>7
<1> QED BY <1>2

\* Where handlers do not overlap, the unread cue goes on with a message and off
\* with a read receipt.
THEOREM CueIsHonest ==
    ASSUME ~Overlap
    PROVE  SafetySpec => UnreadCueIsHonest
<1>1. IInv /\ [Next]_vars => (HasUnreadReply(item) # HasUnreadReply(item') =>
          IF HasUnreadReply(item')
          THEN Len(item'.thread) > Len(item.thread)
          ELSE item'.readAt > item.readAt)
  BY CueStep, NoStaleWrite
<1> QED BY <1>1, InvariantHolds, PTL DEF SafetySpec, UnreadCueIsHonest
\* The race of handlers that ADR 0017 accepts does its harm in stale writes alone:
\* overlapping or not, any other step takes no message and no proposal, shows no hidden
\* item again before news of it, and leaves the unread cue to messages and receipts.
THEOREM OnlyStaleWritesLose ==
    SafetySpec =>
        [][~StaleWrite =>
              /\ Extends(item'.thread, item.thread)
              /\ item.proposed => item'.proposed
              /\ item.hiddenAt # 0 /\ github.updatedAt <= item.hiddenAt =>
                    item'.hiddenAt >= item.hiddenAt
              /\ HasUnreadReply(item) # HasUnreadReply(item') =>
                    IF HasUnreadReply(item')
                    THEN Len(item'.thread) > Len(item.thread)
                    ELSE item'.readAt > item.readAt]_vars
<1> DEFINE Keeps ==
        /\ Extends(item'.thread, item.thread)
        /\ item.proposed => item'.proposed
        /\ item.hiddenAt # 0 /\ github.updatedAt <= item.hiddenAt =>
              item'.hiddenAt >= item.hiddenAt
        /\ HasUnreadReply(item) # HasUnreadReply(item') =>
              IF HasUnreadReply(item')
              THEN Len(item'.thread) > Len(item.thread)
              ELSE item'.readAt > item.readAt
<1>1. IInv /\ [Next]_vars => (~StaleWrite => Keeps)
  <2> SUFFICES ASSUME IInv, [Next]_vars, ~StaleWrite PROVE Keeps
    OBVIOUS
  <2>1. Extends(item'.thread, item.thread)
    BY ThreadStep
  <2>2. item.proposed => item'.proposed
    BY ProposalStep
  <2>3. item.hiddenAt # 0 /\ github.updatedAt <= item.hiddenAt =>
            item'.hiddenAt >= item.hiddenAt
    BY HiddenStep
  <2>4. HasUnreadReply(item) # HasUnreadReply(item') =>
            IF HasUnreadReply(item')
            THEN Len(item'.thread) > Len(item.thread)
            ELSE item'.readAt > item.readAt
    BY CueStep
  <2> QED BY <2>1, <2>2, <2>3, <2>4
<1> QED BY <1>1, InvariantHolds, PTL DEF SafetySpec
===============================================================================
