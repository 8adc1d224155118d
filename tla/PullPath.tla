------------------------------- MODULE PullPath -------------------------------
(***************************************************************************)
(* How a durable runtime (the kagent and substrate launchers) gets the     *)
(* credential of a job and uses it.  The orchestrator hands the launcher a *)
(* single-use ticket (issueTicket); the A2A message that carries it        *)
(* crosses a proxy that may lose, delay or repeat it; the A2A server       *)
(* redeems the ticket through the web tier and the control API             *)
(* (RedeemTicket), runs the job detached and reports its outcome with the  *)
(* job token it got.  The orchestrator meanwhile waits for the answer to   *)
(* the message, then for the report, and gives up at the job's deadline.   *)
(*                                                                         *)
(* Time is a counter.  Nothing is urgent: a step may come any time after   *)
(* it is enabled, and only what reads a clock in the code compares with    *)
(* now.                                                                    *)
(***************************************************************************)
EXTENDS Naturals, Sequences, Functions

CONSTANTS Job,            \* dispatched jobs; the ticket of a job is named by it
          ExchangeJob,    \* the job id MintJobToken makes up: no job has it
          User,           \* acting users
          Type,           \* job types with an entry in policies
          TypeOf, UserOf, \* Job -> its type, its acting user
          NoToken,        \* no token was received
          DefaultDeadline, RankDeadline, ConverseDeadline, \* the job budgets
          TicketTTL,      \* ticketTTL
          TokenTTL,       \* the minter's ttl
          ExchangedTypes, \* bound: the types token exchanges ask for
          MaxTime,        \* bound: the last instant
          MaxCalls        \* bound: how many messages reach the runtime, and
                          \* exchanges are made

ASSUME PullPathAssumption ==
    /\ ExchangeJob \notin Job
    /\ TypeOf \in [Job -> Type] /\ UserOf \in [Job -> User]
    /\ DefaultDeadline \in Nat /\ RankDeadline \in Nat /\ ConverseDeadline \in Nat
    /\ DefaultDeadline <= TokenTTL /\ RankDeadline <= TokenTTL
    /\ ExchangedTypes \subseteq Type
    /\ TicketTTL \in Nat /\ TokenTTL \in Nat /\ MaxTime \in Nat /\ MaxCalls \in Nat

\* mint.Claims, as far as the web tier reads them; the scopes are the type's.
Token == [job : Job \union {ExchangeJob}, user : User, type : Type, exp : Nat]

ASSUME NoTokenAssumption == NoToken \notin Token

Ticket == [job : Job, type : Type, user : User, expires : Nat]

\* Where one execution of the A2A server's handleRPC, and of the goroutine it
\* starts, is.  "orphaned": it has answered "failed" while its redemption is
\* still on its way; "answered": the token is on its way to it.
CallState == {"redeeming", "orphaned", "answered", "rejected",
              "working", "reporting", "reported"}

Call == [job : Job \union {ExchangeJob}, pc : CallState, since : Nat,
         ok : BOOLEAN, token : Token \union {NoToken}]

VARIABLES
    now,      \* the wall clock all components read
    jobs,     \* Job -> where the job is: its Job.State, "dispatching" being
              \* the part of StateRunning before its completion is registered
    started,  \* Job -> the instant of its dispatch
    tickets,  \* o.tickets
    calls     \* the executions at the runtime, in the order they began

vars == <<now, jobs, started, tickets, calls>>

Live == {"dispatching", "awaiting"}

\* mutant: the two per-item types share the long budget, and rank with them
DeadlineShared(type) ==
    IF type \in {"ingest", "enrich"} THEN DefaultDeadline ELSE ConverseDeadline

\* deadlineFor, and agent.JobTimeout, which is kept in step with it.
Deadline(type) ==
    CASE type = "converse"           -> ConverseDeadline
      [] type \in {"rank", "research"} -> RankDeadline
      [] OTHER                       -> DefaultDeadline

\* mint.Mint
Mint(job, user, type) ==
    [job |-> job, user |-> user, type |-> type, exp |-> now + TokenTTL]

\* Verifier.Verify and Validate: a signed agent-plane token that has not expired.
Valid(token) == now <= token.exp

Init ==
    /\ now = 0
    /\ jobs = [j \in Job |-> "absent"]
    /\ started = [j \in Job |-> 0]
    /\ tickets = <<>>
    /\ calls = <<>>

-------------------------------------------------------------------------------
(***************************************************************************)
(* The orchestrator and the launcher.                                      *)
(***************************************************************************)

\* issueTicket: expired tickets are dropped, the job's is added.
IssueTicket(j) ==
    LET alive == {k \in DOMAIN tickets : now <= tickets[k].expires}
        t == [job |-> j, type |-> TypeOf[j], user |-> UserOf[j],
              expires |-> now + TicketTTL]
    IN  tickets' = [k \in alive \union {j} |-> IF k = j THEN t ELSE tickets[k]]

\* A worker runs the job: it makes the ticket and sends the message.
Dispatch(j) ==
    /\ jobs[j] = "absent"
    /\ jobs' = [jobs EXCEPT ![j] = "dispatching"]
    /\ started' = [started EXCEPT ![j] = now]
    /\ IssueTicket(j)
    /\ UNCHANGED <<now, calls>>

\* What Launcher.Dispatch returns without an error: the runtime's task has
\* been "submitted".
Submitted(j) ==
    \E c \in DOMAIN calls :
        calls[c].job = j /\ calls[c].pc \in {"working", "reporting", "reported"}

Accepted(j) ==
    /\ jobs[j] = "dispatching" /\ Submitted(j)
    /\ jobs' = [jobs EXCEPT ![j] = "awaiting"]
    /\ UNCHANGED <<now, started, tickets, calls>>

\* The runtime's task "failed", or the exchange with the proxy did: that may
\* be at any time, whatever the runtime has done with the message.
DispatchFails(j) ==
    /\ jobs[j] = "dispatching"
    /\ jobs' = [jobs EXCEPT ![j] = "failed"]
    /\ UNCHANGED <<now, started, tickets, calls>>

\* Await: the job's context ends before any report arrived.
DeadlinePasses(j) ==
    /\ jobs[j] = "awaiting" /\ now >= started[j] + Deadline(TypeOf[j])
    /\ jobs' = [jobs EXCEPT ![j] = "failed"]
    /\ UNCHANGED <<now, started, tickets, calls>>

\* mutant: the state is written without looking the job up
CompleteUnknown(id, ok) ==
    jobs' = [j \in Job \union {id} |-> IF j = id THEN IF ok THEN "succeeded" ELSE "failed"
                                      ELSE jobs[j]]

\* mutant: the report settles whichever jobs are awaited
CompleteAny(id, ok) ==
    jobs' = [j \in Job |-> IF jobs[j] # "awaiting" THEN jobs[j]
                           ELSE IF ok THEN "succeeded" ELSE "failed"]

\* CompleteJob and the await goroutine's finish.  A report of a job with no
\* registered completion - unknown, settled, or its dispatch has not returned
\* - is dropped.
CompleteJob(id, ok) ==
    jobs' = IF id \in Job /\ jobs[id] = "awaiting"
            THEN [jobs EXCEPT ![id] = IF ok THEN "succeeded" ELSE "failed"]
            ELSE jobs

-------------------------------------------------------------------------------
(***************************************************************************)
(* Redemption: A2A server -> web tier -> control API -> orchestrator.      *)
(***************************************************************************)

\* The proxy delivers the message of a dispatched job, perhaps not for the
\* first time, and handleRPC asks for the token.
Deliver(j) ==
    /\ jobs[j] # "absent" /\ Len(calls) < MaxCalls
    /\ calls' = Append(calls, [job |-> j, pc |-> "redeeming", since |-> 0,
                               ok |-> FALSE, token |-> NoToken])
    /\ UNCHANGED <<now, jobs, started, tickets>>

\* mutant: the ticket is looked up and not deleted
KeepTicket(id) == UNCHANGED tickets

\* mutant: expiry is left to the next issueTicket
RedeemableUnchecked(id) == id \in DOMAIN tickets

\* RedeemTicket deletes the ticket it finds, and refuses one that has expired.
Spend(id) == tickets' = Restrict(tickets, DOMAIN tickets \ {id})
Redeemable(id) == id \in DOMAIN tickets /\ now <= tickets[id].expires
TokenFor(t) == Mint(t.job, t.user, t.type)

\* The request reaches the orchestrator, which answers; nobody reads the
\* answer of an orphaned one.
Redeem(c) ==
    LET id == calls[c].job IN
    /\ calls[c].pc \in {"redeeming", "orphaned"}
    /\ Spend(id)
    /\ calls' = IF calls[c].pc = "redeeming" /\ Redeemable(id)
                THEN [calls EXCEPT ![c].pc = "answered", ![c].token = TokenFor(tickets[id])]
                ELSE [calls EXCEPT ![c].pc = "rejected"]
    /\ UNCHANGED <<now, jobs, started>>

\* The A2A request is cancelled, or a connection breaks anywhere on the way,
\* before or after the orchestrator answered.  redeemTicket does not retry.
RedemptionFails(c) ==
    /\ \/ /\ calls[c].pc = "redeeming"
          /\ calls' = [calls EXCEPT ![c].pc = "orphaned"]
       \/ /\ calls[c].pc = "answered"
          /\ calls' = [calls EXCEPT ![c].pc = "rejected", ![c].token = NoToken]
    /\ UNCHANGED <<now, jobs, started, tickets>>

\* handleRPC has its parameters: the job starts detached, on a context of its
\* own, and the task is "submitted".
StartJob(c) ==
    /\ calls[c].pc = "answered"
    /\ calls' = [calls EXCEPT ![c].pc = "working", ![c].since = now]
    /\ UNCHANGED <<now, jobs, started, tickets>>

-------------------------------------------------------------------------------
(***************************************************************************)
(* Token exchange: POST /control/token.                                    *)
(***************************************************************************)

\* What a TokenReview of the request's bearer can say.
Identity == [bearer : BOOLEAN, review : {"error", "denied", "authenticated"},
             audience : BOOLEAN, allowed : BOOLEAN]

\* controlauth.Authenticate: any doubt is a refusal.
Authenticate(i) ==
    i.bearer /\ i.review = "authenticated" /\ i.audience /\ i.allowed

\* MintJobToken, for an authenticated caller: no job is recorded, and the
\* caller runs the work itself.
Exchange(i, user, type) ==
    /\ Authenticate(i) /\ Len(calls) < MaxCalls
    /\ calls' = Append(calls, [job |-> ExchangeJob, pc |-> "working", since |-> now,
                               ok |-> FALSE, token |-> Mint(ExchangeJob, user, type)])
    /\ UNCHANGED <<now, jobs, started, tickets>>

-------------------------------------------------------------------------------
(***************************************************************************)
(* The runtime at work: agent.Run with its ZZClient.                       *)
(***************************************************************************)

\* The work ends by itself, well or badly, or its context does.
EndWork(c, ok) ==
    /\ calls[c].pc = "working"
    /\ ok => now <= calls[c].since + Deadline(calls[c].token.type)
    /\ calls' = [calls EXCEPT ![c].pc = "reporting", ![c].ok = ok]
    /\ UNCHANGED <<now, jobs, started, tickets>>

\* The web tier refuses a call because the token has expired: the job fails.
CallRefused(c) ==
    /\ calls[c].pc = "working" /\ ~Valid(calls[c].token)
    /\ calls' = [calls EXCEPT ![c].pc = "reporting"]
    /\ UNCHANGED <<now, jobs, started, tickets>>

\* Run returns: its context and its result are gone.
Over(call) == [call EXCEPT !.pc = "reported", !.since = 0, !.ok = FALSE]

\* POST /agent/complete: the job is the one of the token.  The reporter is
\* retried when a gateway answers for the web tier, so the report may arrive
\* more than once (again).
Report(c, again) ==
    /\ calls[c].pc = "reporting" /\ Valid(calls[c].token)
    /\ CompleteJob(calls[c].token.job, calls[c].ok)
    /\ calls' = IF again THEN calls ELSE [calls EXCEPT ![c] = Over(@)]
    /\ UNCHANGED <<now, started, tickets>>

\* The report is best effort: refused, lost on one of its two hops, or timed out.
ReportLost(c) ==
    /\ calls[c].pc = "reporting"
    /\ calls' = [calls EXCEPT ![c] = Over(@)]
    /\ UNCHANGED <<now, jobs, started, tickets>>

Tick ==
    /\ now < MaxTime /\ now' = now + 1
    /\ UNCHANGED <<jobs, started, tickets, calls>>

JobStep(j) ==
    Dispatch(j) \/ Accepted(j) \/ DispatchFails(j) \/ DeadlinePasses(j) \/ Deliver(j)

CallStep(c) ==
    \/ Redeem(c) \/ RedemptionFails(c) \/ StartJob(c)
    \/ CallRefused(c) \/ ReportLost(c)
    \/ \E b \in BOOLEAN : EndWork(c, b) \/ Report(c, b)

Next ==
    \/ \E j \in Job : JobStep(j)
    \/ \E c \in DOMAIN calls : CallStep(c)
    \/ \E i \in Identity, u \in User, t \in ExchangedTypes : Exchange(i, u, t)
    \/ Tick

Spec == Init /\ [][Next]_vars

-------------------------------------------------------------------------------
(***************************************************************************)
(* Properties.                                                             *)
(***************************************************************************)

\* The variables have their types, and a ticket carries what its job was
\* dispatched with.
TypeOK ==
    /\ now \in 0 .. MaxTime
    /\ jobs \in [Job -> {"absent", "succeeded", "failed"} \union Live]
    /\ started \in [Job -> 0 .. MaxTime]
    /\ DOMAIN tickets \subseteq Job
    /\ \A k \in DOMAIN tickets : tickets[k] \in Ticket
    /\ calls \in Seq(Call)

HoldersOf(j) == {c \in DOMAIN calls : calls[c].job = j /\ calls[c].token # NoToken}

\* However often the proxy repeats a job's message, and whatever was lost or
\* late on the way, at most one execution at the runtime ever gets the job's
\* token, so the job runs at most once (RedeemTicket consumes under ticketMu).
RunsOnce ==
    \A j \in Job : \A c, d \in HoldersOf(j) : c = d

\* No token of a job outlives its dispatch by more than the two lifetimes, even
\* if its message is delivered long after the job failed and the ticket is
\* still in the table.
TokenWindow ==
    \A j \in Job : \A c \in HoldersOf(j) :
        calls[c].token.exp <= started[j] + TicketTTL + TokenTTL

\* While a job is within its deadline, no call of its runtime is refused
\* because its token has expired.  A converse job is the exception: its
\* deadline is longer than a token lives.
LiveTokensValid ==
    \A j \in Job : \A c \in HoldersOf(j) :
        (jobs[j] \in Live /\ TypeOf[j] # "converse" /\ now <= started[j] + Deadline(TypeOf[j]))
            => Valid(calls[c].token)

\* A job is settled as succeeded only by a report of success that carries a
\* token redeemed from the job's own ticket, for its user; never by another
\* job's report, nor by that of an exchanged token.
SuccessIsReported ==
    [][\A j \in Job : (jobs[j] # "succeeded" /\ jobs'[j] = "succeeded") =>
          \E c \in HoldersOf(j) :
              /\ calls[c].pc = "reporting" /\ calls[c].ok /\ Valid(calls[c].token)
              /\ calls[c].token.user = UserOf[j]]_vars

\* How far the run is that an execution with a token makes.
Phase(call) ==
    IF call.pc \in {"answered", "working"} THEN "running"
    ELSE IF call.pc = "reporting" THEN IF call.ok THEN "good" ELSE "bad"
    ELSE "over"

\* How far the one run of a job is: free until its token is handed out, or its
\* ticket is gone in vain; from then on it is that of the token's holder.
RunOf(j) ==
    IF HoldersOf(j) # {} THEN Phase(calls[CHOOSE c \in HoldersOf(j) : TRUE])
    ELSE IF jobs[j] = "absent" \/ j \in DOMAIN tickets THEN "free" ELSE "over"

Contract(j) == INSTANCE JobRun WITH
    status <- IF jobs[j] \in Live THEN "live" ELSE jobs[j],
    run    <- RunOf(j)

\* Each dispatched job is run and settled as JobRun says, whatever the other
\* jobs, the exchanges, the proxy and the clock do.
ContractKept ==
    /\ \A j \in Job : Contract(j)!Init
    /\ [][\A j \in Job : [Contract(j)!Next]_(Contract(j)!vars)]_vars
===============================================================================
