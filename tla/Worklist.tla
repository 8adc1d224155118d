------------------------------- MODULE Worklist -------------------------------
(***************************************************************************)
(* One stored work item and everything that writes it: the signed-in       *)
(* owner's handlers (post a message, request a review, mark read, hide),   *)
(* the agent plane's handlers (ingest, append a reply, set research), the  *)
(* five kinds of runtime job that call those, and the timers that enqueue  *)
(* the jobs.  A handler lists the item, changes its copy and upserts the   *)
(* whole of it; a job reads the item long before it posts what it made of  *)
(* it.  The hard question is what survives that.                           *)
(*                                                                         *)
(* Upsert works per item id, so one item is all of the store that the      *)
(* properties need.  A job type is also a dedupe key here (one owner, one  *)
(* item); that at most one job per key is live is what KeyedJobs promises. *)
(***************************************************************************)
EXTENDS Naturals, Sequences, FiniteSets

CONSTANTS Overlap,    \* two handlers may be between their List and their Upsert
          Strays,     \* a job given up may leave its runtime at work
          Calls,      \* the handlers the owner calls
          Changes,    \* the states that a change on GitHub may leave the item in
          MaxLive,    \* bound: how many jobs are live at once
          MaxTime,    \* bound: the clock stops there
          MaxEvents   \* bound: how many times in all the owner calls a handler that
                      \* writes, GitHub changes the item, a job fails or is refused

UserOp == {"post", "review", "read", "hide", "resume"}
Foundation == {"ingest", "enrich", "rank"}
JobType == Foundation \union {"converse", "research"}

\* The runtime of each live job, and of one job (the bound) that was given up.
Runtime == JobType \union {"stray"}
Caller == UserOp \union Runtime

\* dropped: no longer on the owner's radar, but not closed.
GitHubState == {"open", "dropped", "closed"}

ASSUME WorklistAssumption ==
    /\ Overlap \in BOOLEAN
    /\ Strays \in BOOLEAN
    /\ Calls \subseteq UserOp
    /\ Changes \subseteq GitHubState
    /\ MaxLive \in Nat \ {0}
    /\ MaxTime \in Nat \ {0}
    /\ MaxEvents \in Nat

\* 0 is the zero time.Time; the clock starts at 1.
Time == 0 .. MaxTime

\* seen: how many messages an agent's reply was written from (0 for a user's).
Message == [role : {"user", "agent"}, at : Time, seen : Nat]

\* Of WorkItem, what the properties tell apart: a proposal, and the time of
\* completion, are there or not; research is its AppliedAt.
WorkItem == [stored : BOOLEAN, updatedAt : Time, completed : BOOLEAN,
             hiddenAt : Time, proposed : BOOLEAN, research : Time,
             thread : Seq(Message), readAt : Time]

Blank == [stored |-> FALSE, updatedAt |-> 0, completed |-> FALSE,
          hiddenAt |-> 0, proposed |-> FALSE, research |-> 0,
          thread |-> <<>>, readAt |-> 0]

Step == {"idle", "queued", "fetched", "candidate", "ready", "done"}

VARIABLES
    item,    \* the item in the store
    github,  \* the pull request or issue on GitHub
    now,     \* the clock
    step,    \* Runtime -> how far it is; "idle" if there is none
    load,    \* Runtime -> what it needs of the item as it read it
    stray,   \* the type of the job that the stray runtime was started for
    phase,   \* Caller -> "read" between List and Upsert, "saved" before Converse
    snap,    \* Caller -> the item as the handler listed it
    events   \* how many of MaxEvents there have been

vars == <<item, github, now, step, load, stray, phase, snap, events>>

Init ==
    /\ item = Blank
    /\ github = [state |-> "open", updatedAt |-> 1]
    /\ now = 1
    /\ step = [r \in Runtime |-> "idle"]
    /\ load = [r \in Runtime |-> Blank]
    /\ stray = "none"
    /\ phase = [c \in Caller |-> "none"]
    /\ snap = [c \in Caller |-> Blank]
    /\ events = 0

-----------------------------------------------------------------------------
(* Helpers                                                                  *)

LastIs(thread, role) == thread # <<>> /\ thread[Len(thread)].role = role

\* The owner has a reply to read: the latest agent message is newer than readAt.
HasUnreadReply(it) ==
    \E i \in DOMAIN it.thread :
        /\ it.thread[i].role = "agent"
        /\ it.thread[i].at > it.readAt
        /\ \A k \in DOMAIN it.thread : k > i => it.thread[k].role = "user"

\* mutant: an update in the instant of the hide unhides too
HiddenBefore(prevHiddenAt, updatedAt) ==
    IF updatedAt >= prevHiddenAt THEN 0 ELSE prevHiddenAt

\* The hidden mark to keep: GitHub's news since then clear it.
HiddenAfter(prevHiddenAt, updatedAt) ==
    IF updatedAt > prevHiddenAt THEN 0 ELSE prevHiddenAt

\* The item's research predates a message or the latest news from GitHub.
ResearchStale(it) ==
    /\ it.thread # <<>>
    /\ \/ it.research < it.updatedAt
       \/ \E i \in DOMAIN it.thread : it.research < it.thread[i].at

\* One of the occurrences that are bounded in number.
Event ==
    /\ events < MaxEvents
    /\ events' = events + 1

LiveJobs == {t \in JobType : step[t] # "idle"}

\* The orchestrator's enqueue: deduplicated, taken, or refused.
Enqueue(t) ==
    \/ /\ step[t] # "idle"
       /\ UNCHANGED <<step, events>>
    \/ /\ step[t] = "idle"
       /\ Cardinality(LiveJobs) < MaxLive
       /\ step' = [step EXCEPT ![t] = "queued"]
       /\ UNCHANGED events
    \/ /\ step[t] = "idle"
       /\ Event
       /\ UNCHANGED step

\* A handler's List.
List(c) ==
    /\ phase[c] = "none"
    /\ phase' = [phase EXCEPT ![c] = "read"]
    /\ snap' = [snap EXCEPT ![c] = item]

\* A handler's Upsert of the whole item, after which it goes on to p.
Upsert(c, it, p) ==
    /\ phase[c] = "read"
    /\ item' = it
    /\ phase' = [phase EXCEPT ![c] = p]
    /\ snap' = [snap EXCEPT ![c] = Blank]

-----------------------------------------------------------------------------
(* The owner's handlers                                                     *)

\* Post, ReviewPRs (which skips hidden items), MarkRead, Hide: find the item.
Begin(op) ==
    /\ op \in Calls \ {"resume"}
    /\ item.stored
    /\ op = "review" => item.hiddenAt = 0
    /\ List(op)
    /\ Event
    /\ UNCHANGED <<item, github, now, step, load, stray>>

\* mutant: the latest message first
SayFirst(it, role, seen) ==
    [it EXCEPT !.thread = <<[role |-> role, at |-> now, seen |-> seen]>> \o @]

\* mutant: the stamp is rounded up
SayLater(it, role, seen) ==
    [it EXCEPT !.thread = Append(@, [role |-> role, at |-> now + 1, seen |-> seen])]

Say(it, role, seen) ==
    [it EXCEPT !.thread = Append(@, [role |-> role, at |-> now, seen |-> seen])]

\* Post and ReviewPRs store the user's turn before they ask for an answer.
SaveTurn(op) ==
    /\ op \in {"post", "review"}
    /\ Upsert(op, Say(snap[op], "user", 0), "saved")
    /\ UNCHANGED <<github, now, step, load, stray, events>>

MarkRead ==
    /\ Upsert("read", [snap["read"] EXCEPT !.readAt = now], "none")
    /\ UNCHANGED <<github, now, step, load, stray, events>>

Hide ==
    /\ Upsert("hide", [snap["hide"] EXCEPT !.hiddenAt = now], "none")
    /\ UNCHANGED <<github, now, step, load, stray, events>>

\* The page is opened on a thread that ends with the user's turn.
Resume ==
    /\ "resume" \in Calls
    /\ phase["resume"] = "none"
    /\ item.stored
    /\ LastIs(item.thread, "user")
    /\ phase' = [phase EXCEPT !["resume"] = "saved"]
    /\ UNCHANGED <<item, github, now, step, load, stray, snap, events>>

Converse(op) ==
    /\ phase[op] = "saved"
    /\ Enqueue("converse")
    /\ phase' = [phase EXCEPT ![op] = "none"]
    /\ UNCHANGED <<item, github, now, load, stray, snap>>

\* The worklist page of an owner who has no items yet.
Resolve ==
    /\ ~item.stored
    /\ Enqueue("ingest")
    /\ UNCHANGED <<item, github, now, load, stray, phase, snap>>

-----------------------------------------------------------------------------
(* The timers                                                               *)

RefreshOnce ==
    /\ item.stored
    /\ Enqueue("ingest")
    /\ UNCHANGED <<item, github, now, load, stray, phase, snap>>

ReconcileOnce ==
    /\ ResearchStale(item)
    /\ Enqueue("research")
    /\ UNCHANGED <<item, github, now, load, stray, phase, snap>>

-----------------------------------------------------------------------------
(* The runtimes                                                             *)

\* The type of the job that r was started for.
TypeOf(r) == IF r = "stray" THEN stray ELSE r

\* Of an item read by a foundation job, what Ingest takes from it again.
Carried(it) ==
    [Blank EXCEPT !.stored = it.stored, !.updatedAt = it.updatedAt,
                  !.completed = it.completed, !.proposed = it.proposed]

\* The runtime r, at step from, goes on to step s holding it.
Go(r, from, s, it) ==
    /\ step[r] = from
    /\ step' = [step EXCEPT ![r] = s]
    /\ load' = [load EXCEPT ![r] = it]
    /\ UNCHANGED <<item, github, now, stray, phase, snap>>

\* runIngest: GitHub's open items, which is the item afresh or is nothing.
FetchWorklist(r) ==
    /\ Go(r, "queued", "fetched",
          IF github.state = "open"
          THEN [Blank EXCEPT !.stored = TRUE, !.updatedAt = github.updatedAt]
          ELSE Blank)
    /\ UNCHANGED events

\* retireCompleted: a stored item that left the snapshot and is not retired yet
\* has its state on GitHub looked up, unless the listing fails.
RetireCandidates(r) ==
    LET fetched == load[r]
        dropped == item.stored /\ ~fetched.stored /\ ~item.completed
        skip == Go(r, "fetched", IF fetched.stored THEN "ready" ELSE "done", fetched)
    IN  \/ dropped /\ Go(r, "fetched", "candidate", Carried(item)) /\ UNCHANGED events
        \/ ~dropped /\ skip /\ UNCHANGED events
        \/ dropped /\ skip /\ Event

\* mutant: no close is ever confirmed
ConfirmNothing(r) == Go(r, "candidate", "done", Blank) /\ UNCHANGED events

\* Only a confirmed close retires; a failed look-up is an open item.
ConfirmClosed(r) ==
    \/ /\ github.state = "closed"
       /\ Go(r, "candidate", "ready", [load[r] EXCEPT !.completed = TRUE])
       /\ UNCHANGED events
    \/ /\ Go(r, "candidate", "done", Blank)
       /\ IF github.state = "closed" THEN Event ELSE UNCHANGED events

\* runEnrich and runRank take the stored item and post it back only if they
\* have something new for it: a changed signal, a proposal.
ReadToEnrich(r) ==
    /\ \/ item.stored /\ Go(r, "queued", "ready", Carried(item))
       \/ Go(r, "queued", "done", Blank)
    /\ UNCHANGED events

ReadToRank(r) ==
    /\ \/ item.stored /\ Go(r, "queued", "ready", [Carried(item) EXCEPT !.proposed = TRUE])
       \/ Go(r, "queued", "done", Blank)
    /\ UNCHANGED events

\* mutant: an answered thread is not declined
AnswerAnyway(r) ==
    /\ item.thread # <<>>
    /\ Go(r, "queued", "ready", [Blank EXCEPT !.thread = item.thread])
    /\ UNCHANGED events

\* runConverse: lastUserTurn makes a job that finds nothing to answer a no-op.
ReadToConverse(r) ==
    /\ IF LastIs(item.thread, "user")
       THEN Go(r, "queued", "ready", [Blank EXCEPT !.thread = item.thread])
       ELSE Go(r, "queued", "done", Blank)
    /\ UNCHANGED events

\* runResearch: the adjustment is stamped when the model is asked for it.
Reweigh(r) ==
    /\ Go(r, "queued", "ready", [Blank EXCEPT !.research = now])
    /\ UNCHANGED events

Work(r) ==
    \/ TypeOf(r) = "ingest" /\ (FetchWorklist(r) \/ RetireCandidates(r) \/ ConfirmClosed(r))
    \/ TypeOf(r) = "enrich" /\ ReadToEnrich(r)
    \/ TypeOf(r) = "rank" /\ ReadToRank(r)
    \/ TypeOf(r) = "converse" /\ ReadToConverse(r)
    \/ TypeOf(r) = "research" /\ Reweigh(r)

NextStage == [ingest |-> "enrich", enrich |-> "rank"]

\* The orchestrator finalizes a job that succeeded and enqueues the next stage;
\* of a stray runtime it takes no notice.
Finish(r) ==
    LET freed == [step EXCEPT ![r] = "idle"]
        chains == r \in DOMAIN NextStage /\ step[NextStage[r]] = "idle"
    IN  /\ step[r] = "done"
        /\ \/ chains /\ step' = [freed EXCEPT ![NextStage[r]] = "queued"] /\ UNCHANGED events
           \/ ~chains /\ step' = freed /\ UNCHANGED events
           \/ chains /\ step' = freed /\ Event
        /\ load' = [load EXCEPT ![r] = Blank]
        /\ UNCHANGED <<item, github, now, stray, phase, snap>>

\* A runtime fails; nothing of its job is chained.
Fail(r) ==
    /\ step[r] # "idle"
    /\ phase[r] = "none"
    /\ Event
    /\ step' = [step EXCEPT ![r] = "idle"]
    /\ load' = [load EXCEPT ![r] = Blank]
    /\ UNCHANGED <<item, github, now, stray, phase, snap>>

\* A job ends as failed (its watch failed, its deadline passed), which stops
\* nothing on the substrate: its runtime goes on.
GiveUp(t) ==
    /\ Strays
    /\ step[t] \notin {"idle", "done"}
    /\ phase[t] = "none"
    /\ step["stray"] = "idle"
    /\ Event
    /\ step' = [step EXCEPT ![t] = "idle", !["stray"] = step[t]]
    /\ load' = [load EXCEPT ![t] = Blank, !["stray"] = load[t]]
    /\ stray' = t
    /\ UNCHANGED <<item, github, now, phase, snap>>

-----------------------------------------------------------------------------
(* The agent plane's handlers                                               *)

\* mutants: the thread, the read receipt or the proposal is the one that was sent
MergedThread(sent, prev) ==
    [prev EXCEPT !.thread = sent.thread, !.updatedAt = sent.updatedAt, !.stored = TRUE]
MergedUnread(sent, prev) ==
    [prev EXCEPT !.readAt = sent.readAt, !.updatedAt = sent.updatedAt, !.stored = TRUE]
MergedUnproposed(sent, prev) ==
    [prev EXCEPT !.proposed = sent.proposed, !.updatedAt = sent.updatedAt, !.stored = TRUE]

\* What Ingest stores of the item a runtime sent, given the one it listed.
Merged(sent, prev) ==
    [sent EXCEPT !.research = prev.research,
                 !.proposed = sent.proposed \/ prev.proposed,
                 !.hiddenAt = HiddenAfter(prev.hiddenAt, sent.updatedAt),
                 !.thread = prev.thread,
                 !.readAt = prev.readAt]

\* mutant: the adjustment is not stored
NotResearched(adj, prev) == [prev EXCEPT !.completed = FALSE]

\* Set re-scores the item, which makes all of its metadata anew, and puts the
\* hidden mark back.
Researched(adj, prev) ==
    [prev EXCEPT !.research = adj, !.completed = FALSE]

\* The runtime's POST arrives and its handler lists the owner's items.
Deliver(r) ==
    /\ step[r] = "ready"
    /\ List(r)
    /\ UNCHANGED <<item, github, now, step, load, stray, events>>

\* The handler upserts and the runtime has its answer.
StoreResult(r, it) ==
    /\ Upsert(r, it, "none")
    /\ step' = [step EXCEPT ![r] = "done"]
    /\ load' = [load EXCEPT ![r] = Blank]
    /\ UNCHANGED <<github, now, stray, events>>

Ingest(r) ==
    /\ TypeOf(r) \in Foundation
    /\ StoreResult(r, Merged(load[r], snap[r]))

\* mutant: the item is stored as it was listed
AppendNothing(r) == TypeOf(r) = "converse" /\ StoreResult(r, snap[r])

AppendReply(r) ==
    /\ TypeOf(r) = "converse"
    /\ StoreResult(r, Say(snap[r], "agent", Len(load[r].thread)))

SetResearch(r) ==
    /\ TypeOf(r) = "research"
    /\ StoreResult(r, Researched(load[r].research, snap[r]))

Reply(r) == Ingest(r) \/ AppendReply(r) \/ SetResearch(r)

-----------------------------------------------------------------------------
(* The outside world                                                        *)

\* A comment, a close, a merge, a reopening, a withdrawn request.
GitHubChanges ==
    /\ Event
    /\ \E s \in Changes : github' = [state |-> s, updatedAt |-> now]
    /\ UNCHANGED <<item, now, step, load, stray, phase, snap>>

Tick ==
    /\ now < MaxTime
    /\ now' = now + 1
    /\ UNCHANGED <<item, github, step, load, stray, phase, snap, events>>

\* Handlers that do not overlap let nothing happen between List and Upsert.
Undisturbed == Overlap \/ \A c \in Caller : phase[c] # "read"

\* The second half of a handler of the owner's, and of the agent plane's.
EndCall(op) ==
    \/ SaveTurn(op)
    \/ op = "read" /\ MarkRead
    \/ op = "hide" /\ Hide

Elsewhere ==
    /\ Undisturbed
    /\ \/ \E op \in UserOp : Begin(op) \/ Converse(op)
       \/ Resume \/ Resolve \/ RefreshOnce \/ ReconcileOnce
       \/ \E r \in Runtime : Work(r) \/ Deliver(r) \/ Finish(r) \/ Fail(r)
       \/ \E t \in JobType : GiveUp(t)
       \/ GitHubChanges \/ Tick

Next ==
    \/ \E op \in UserOp : EndCall(op)
    \/ \E r \in Runtime : Reply(r)
    \/ Elsewhere

SafetySpec == Init /\ [][Next]_vars

\* A handler that began ends; a job that nothing stops goes on; the timers
\* fire; the page is opened again.  A request that MaxLive holds up is made in
\* the end, hence the strong fairness of those that enqueue.  Nothing is assumed
\* of the owner's other requests, of GitHub or of the clock.
Fairness ==
    /\ WF_vars((\E op \in Calls : EndCall(op)) \/ Reply("stray"))
    /\ SF_vars(\E op \in Calls : Converse(op))
    /\ \A t \in JobType : WF_vars(Work(t) \/ Deliver(t) \/ Reply(t) \/ Finish(t))
    /\ SF_vars(Resolve \/ RefreshOnce) /\ SF_vars(ReconcileOnce)
    /\ WF_vars(Resume)

Spec == SafetySpec /\ Fairness

-----------------------------------------------------------------------------
(* Properties.  Those marked * are promises to an owner whose handlers do   *)
(* not overlap; the jobs are as concurrent as ever.                         *)

TypeOK ==
    /\ item \in WorkItem
    /\ github \in [state : GitHubState, updatedAt : Time]
    /\ now \in Time
    /\ step \in [Runtime -> Step]
    /\ load \in [Runtime -> WorkItem]
    /\ stray \in JobType \union {"none"}
    /\ phase \in [Caller -> {"none", "read", "saved"}]
    /\ snap \in [Caller -> WorkItem]
    /\ events \in 0 .. MaxEvents

\* The stored conversation reads in the order it was said, whoever overwrote
\* whom: Post stamps after it listed, and Append does (thread.go).
InOrder(thread) ==
    \A i, k \in DOMAIN thread : i < k => thread[i].at <= thread[k].at

ThreadInOrder == InOrder(item.thread)

\* What a reply answers is a user's turn before it that no reply before it answers.
AnsweredIn(thread) ==
    \A i \in DOMAIN thread : thread[i].role = "agent" =>
        /\ thread[i].seen \in 1 .. (i - 1)
        /\ thread[thread[i].seen].role = "user"
        /\ \A k \in 1 .. (i - 1) :
              thread[k].role = "agent" => thread[k].seen < thread[i].seen

\* * No turn is answered twice: "a duplicate or out-of-order job is a safe no-op"
\* (lastUserTurn).
AnsweredOnce == AnsweredIn(item.thread)

\* * That holds while no runtime has outlived its job: the orchestrator runs one
\* converse job per item at a time, and lastUserTurn declines an answered thread.
AnsweredOnceByLiveJobs == stray = "none" => AnsweredOnce

Extends(longer, shorter) ==
    /\ Len(shorter) <= Len(longer)
    /\ \A i \in DOMAIN shorter : longer[i] = shorter[i]

\* * "Preserve the assistive conversation across re-ingest": no message is ever
\* taken from a thread, although jobs post back items they read long ago.
ThreadKept == [][Extends(item'.thread, item.thread)]_vars

\* * The unread cue goes on with a new message and off with a read receipt, and
\* with nothing else: "a re-rank does not falsely flag a read thread as unread".
UnreadCueIsHonest ==
    [][HasUnreadReply(item) # HasUnreadReply(item') =>
          IF HasUnreadReply(item')
          THEN Len(item'.thread) > Len(item.thread)
          ELSE item'.readAt > item.readAt]_vars

\* * A hidden item that GitHub has not touched since stays hidden, whichever
\* job's old view of it is ingested.
HiddenUntilNews ==
    [][item.hiddenAt # 0 /\ github.updatedAt <= item.hiddenAt =>
          item'.hiddenAt >= item.hiddenAt]_vars

\* * Neither the proposal of a rank job nor the research is undone by a job that
\* read the item before it was there; the research of a stray runtime may be old.
JudgementKept ==
    [][/\ item.proposed => item'.proposed
       /\ stray' = "none" => item'.research >= item.research]_vars

\* A retired item is revived by an ingest and by nothing else: "re-ingesting the
\* item as open clears it" (Metadata.CompletedAt).
RevivedByIngestOnly ==
    [][item.completed /\ ~item'.completed => \E r \in Runtime : Ingest(r)]_vars

\* * A thread that ends with the user's turn is answered, though jobs fail or
\* are refused: "a failed one self-heals on revisit" (Resume).
PendingTurnAnswered ==
    LastIs(item.thread, "user") ~> ~LastIs(item.thread, "user")

\* * An item that stays closed on GitHub is retired, by the refresher's passes.
ClosedIsRetired ==
    LET lingers == item.stored /\ ~item.completed /\ github.state = "closed"
    IN  lingers ~> ~lingers

\* * Stale research is renewed, by the reconciler's scans.
ResearchCatchesUp == ResearchStale(item) ~> ~ResearchStale(item)

\* Every user's turn is answered, by a reply written when the turn was there:
\* "the runtime answers the latest user turn with the rest as history, so no
\* message is lost" (ADR 0019).
NoTurnLost ==
    \A i \in 1 .. 2 * MaxEvents :
        (i <= Len(item.thread) /\ item.thread[i].role = "user")
           ~> (\E k \in DOMAIN item.thread : item.thread[k].seen >= i)
=============================================================================
