---------------------------- MODULE PullPathProofs ----------------------------
(***************************************************************************)
(* Whatever the proxy loses, delays and repeats: who holds a token, how    *)
(* long it lives and whose report counts, for every set of jobs, all       *)
(* lifetimes and all bounds.                                               *)
(*                                                                         *)
(* Everything follows from what is known of a ticket in the table and of   *)
(* an execution that holds a token: the ticket is the dispatched job's     *)
(* own and expires within its lifetime from the dispatch, and once there   *)
(* is a holder the ticket is gone and cannot be issued again.              *)
(***************************************************************************)
EXTENDS PullPath, TLAPS

-------------------------------------------------------------------------------
(* The inductive invariant.                                                *)

\* A ticket in the table is that of a dispatched job.
TicketsSound ==
    \A k \in DOMAIN tickets :
        /\ tickets[k].job = k /\ tickets[k].user = UserOf[k] /\ tickets[k].type = TypeOf[k]
        /\ jobs[k] # "absent"
        /\ tickets[k].expires <= started[k] + TicketTTL

\* No job was dispatched in the future.
StartedBefore == \A j \in Job : started[j] <= now

\* What is known of an execution that holds a token of a job.
Spent(j, token) ==
    /\ j \notin DOMAIN tickets /\ jobs[j] # "absent"
    /\ token.user = UserOf[j]
    /\ started[j] + TokenTTL <= token.exp
    /\ token.exp <= started[j] + TicketTTL + TokenTTL

\* An execution holds a token from the answer on, and it is that of its job.
CallSound(call) ==
    /\ call.pc \in {"answered", "working", "reporting", "reported"} <=> call.token # NoToken
    /\ call.token # NoToken =>
         /\ call.token.job = call.job
         /\ call.job \in Job => Spent(call.job, call.token)

CallsSound == \A c \in DOMAIN calls : CallSound(calls[c])

IInv == TypeOK /\ TicketsSound /\ StartedBefore /\ CallsSound /\ RunsOnce

-------------------------------------------------------------------------------
(* The sequence of executions.                                             *)

\* Replacing an element of a sequence keeps the rest of it.
LEMMA ReplaceOne ==
  ASSUME NEW S, NEW s \in Seq(S), NEW i \in DOMAIN s, NEW e \in S
  PROVE  /\ [s EXCEPT ![i] = e] \in Seq(S)
         /\ DOMAIN [s EXCEPT ![i] = e] = DOMAIN s
         /\ [s EXCEPT ![i] = e][i] = e
         /\ \A k \in DOMAIN s : k # i => [s EXCEPT ![i] = e][k] = s[k]
  OBVIOUS

\* Appending an element keeps the others.
LEMMA AppendOne ==
  ASSUME NEW S, NEW s \in Seq(S), NEW e \in S
  PROVE  /\ Append(s, e) \in Seq(S)
         /\ DOMAIN Append(s, e) = DOMAIN s \union {Len(s) + 1}
         /\ Len(s) + 1 \notin DOMAIN s
         /\ Append(s, e)[Len(s) + 1] = e
         /\ \A k \in DOMAIN s : Append(s, e)[k] = s[k]
  OBVIOUS

\* A step of one execution that leaves tickets and dispatches alone, and gives
\* it no token it did not have, keeps the invariant.
LEMMA CallChanges ==
  ASSUME IInv, NEW c \in DOMAIN calls, NEW new \in Call,
         calls' = [calls EXCEPT ![c] = new],
         new.job = calls[c].job, CallSound(new),
         new.token \in {calls[c].token, NoToken},
         jobs' \in [Job -> {"absent", "succeeded", "failed"} \union Live],
         \A j \in Job : jobs[j] # "absent" => jobs'[j] # "absent",
         UNCHANGED <<now, started, tickets>>
  PROVE  IInv'
<1>1. /\ calls' \in Seq(Call) /\ DOMAIN calls' = DOMAIN calls
      /\ calls'[c] = new
      /\ \A d \in DOMAIN calls : d # c => calls'[d] = calls[d]
  BY ReplaceOne DEF IInv, TypeOK
<1>2. TypeOK'
  BY <1>1 DEF IInv, TypeOK
<1>3. TicketsSound' /\ StartedBefore'
  BY DEF IInv, TypeOK, TicketsSound, StartedBefore
<1>4. \A j \in Job : /\ j \notin DOMAIN tickets' <=> j \notin DOMAIN tickets
                     /\ jobs[j] # "absent" => jobs'[j] # "absent"
                     /\ started'[j] = started[j]
  OBVIOUS
<1>5. CallsSound'
  <2> SUFFICES ASSUME NEW d \in DOMAIN calls'
                PROVE  CallSound(calls[d])'
    BY DEF CallsSound
  <2>1. CallSound(calls'[d])
    BY <1>1 DEF IInv, CallsSound
  <2> QED
    BY <1>4, <2>1 DEF CallSound, Spent
<1>6. \A d \in DOMAIN calls :
          /\ calls'[d].job = calls[d].job
          /\ calls'[d].token # NoToken => calls[d].token # NoToken
  BY <1>1
<1>7. RunsOnce'
  <2>1. \A j \in Job : HoldersOf(j)' \subseteq HoldersOf(j)
    BY <1>1, <1>6 DEF HoldersOf
  <2> QED
    BY <2>1 DEF IInv, RunsOnce
<1> QED
  BY <1>2, <1>3, <1>5, <1>7 DEF IInv

\* A new execution that has no token of a job keeps the invariant.
LEMMA CallBegins ==
  ASSUME IInv, NEW new \in Call, calls' = Append(calls, new),
         CallSound(new), new.token # NoToken => new.job \notin Job,
         UNCHANGED <<now, jobs, started, tickets>>
  PROVE  IInv'
<1> DEFINE n == Len(calls) + 1
<1>1. /\ calls' \in Seq(Call) /\ DOMAIN calls' = DOMAIN calls \union {n}
      /\ calls'[n] = new /\ n \notin DOMAIN calls
      /\ \A d \in DOMAIN calls : calls'[d] = calls[d]
  BY AppendOne DEF IInv, TypeOK
<1> HIDE DEF n
<1>2. TypeOK'
  BY <1>1 DEF IInv, TypeOK
<1>3. TicketsSound' /\ StartedBefore'
  BY DEF IInv, TicketsSound, StartedBefore
<1>4. CallsSound'
  <2> SUFFICES ASSUME NEW d \in DOMAIN calls'
                PROVE  CallSound(calls[d])'
    BY DEF CallsSound
  <2>1. CallSound(calls'[d])
    BY <1>1 DEF IInv, CallsSound
  <2> QED
    BY <2>1 DEF CallSound, Spent
<1>5. RunsOnce'
  <2>1. \A j \in Job : HoldersOf(j)' \subseteq HoldersOf(j)
    BY <1>1 DEF HoldersOf
  <2> QED
    BY <2>1 DEF IInv, RunsOnce
<1> QED
  BY <1>2, <1>3, <1>4, <1>5 DEF IInv

-------------------------------------------------------------------------------
(* The steps.                                                              *)

\* What an execution may be is a record set.
LEMMA CallFields ==
  ASSUME IInv, NEW c \in DOMAIN calls
  PROVE  /\ calls[c] \in Call
         /\ CallSound(calls[c])
  BY DEF IInv, TypeOK, CallsSound

\* Nothing was dispatched yet.
LEMMA InitKeeps == Init => IInv
<1> SUFFICES ASSUME Init PROVE IInv
  OBVIOUS
<1> USE PullPathAssumption DEF Init
<1>1. TypeOK
  BY DEF TypeOK
<1>2. TicketsSound /\ StartedBefore /\ CallsSound
  BY DEF TicketsSound, StartedBefore, CallsSound
<1>3. RunsOnce
  BY DEF RunsOnce, HoldersOf
<1> QED
  BY <1>1, <1>2, <1>3 DEF IInv

\* A dispatch issues the ticket of a job that has none, nor a holder.
LEMMA DispatchKeeps ==
  ASSUME IInv, NEW j \in Job, Dispatch(j)
  PROVE  IInv'
<1> USE PullPathAssumption
<1> DEFINE t == [job |-> j, type |-> TypeOf[j], user |-> UserOf[j],
                 expires |-> now + TicketTTL]
           kept == DOMAIN tickets'
<1>1. /\ jobs[j] = "absent" /\ now \in Nat
      /\ jobs' = [jobs EXCEPT ![j] = "dispatching"]
      /\ started' = [started EXCEPT ![j] = now]
      /\ now' = now /\ calls' = calls
  BY DEF Dispatch, IInv, TypeOK
<1>2. /\ kept \subseteq DOMAIN tickets \union {j} /\ j \in kept
      /\ tickets'[j] = t
      /\ \A k \in kept : k # j => k \in DOMAIN tickets /\ tickets'[k] = tickets[k]
  BY DEF Dispatch, IssueTicket
<1>3. t \in Ticket
  BY <1>1 DEF Ticket
<1>4. TypeOK'
  <2>1. /\ now' \in 0 .. MaxTime /\ calls' \in Seq(Call)
        /\ started' \in [Job -> 0 .. MaxTime]
        /\ jobs' \in [Job -> {"absent", "succeeded", "failed"} \union Live]
    BY <1>1 DEF IInv, TypeOK, Live
  <2>2. kept \subseteq Job /\ \A k \in kept : tickets'[k] \in Ticket
    BY <1>2, <1>3 DEF IInv, TypeOK
  <2> HIDE DEF t
  <2> QED
    BY <2>1, <2>2 DEF TypeOK
<1>5. /\ jobs'[j] = "dispatching" /\ started'[j] = now
      /\ \A k \in Job : k # j => jobs'[k] = jobs[k] /\ started'[k] = started[k]
  BY <1>1 DEF IInv, TypeOK
<1>6. TicketsSound'
  <2> SUFFICES ASSUME NEW k \in kept
               PROVE  /\ tickets'[k].job = k /\ tickets'[k].user = UserOf[k]
                      /\ tickets'[k].type = TypeOf[k]
                      /\ jobs'[k] # "absent"
                      /\ tickets'[k].expires <= started'[k] + TicketTTL
    BY DEF TicketsSound
  <2>1. CASE k = j
    BY <1>1, <1>2, <1>5, <2>1
  <2>2. CASE k # j
    BY <1>2, <1>5, <2>2 DEF IInv, TypeOK, TicketsSound
  <2> QED
    BY <2>1, <2>2
<1>7. StartedBefore'
  BY <1>1, <1>5 DEF IInv, StartedBefore
<1>8. CallsSound'
  <2> SUFFICES ASSUME NEW d \in DOMAIN calls
               PROVE  CallSound(calls[d])'
    BY <1>1 DEF CallsSound
  <2>1. CallSound(calls[d]) /\ calls'[d] = calls[d]
    BY <1>1, CallFields
  <2> QED
    BY <1>1, <1>2, <1>5, <2>1 DEF CallSound, Spent
<1>9. RunsOnce'
  BY <1>1 DEF IInv, RunsOnce, HoldersOf
<1> QED
  BY <1>4, <1>6, <1>7, <1>8, <1>9 DEF IInv

\* A step that only settles jobs, or only moves the clock, keeps the invariant.
LEMMA JobsAndClockKeep ==
  ASSUME IInv,
         jobs' \in [Job -> {"absent", "succeeded", "failed"} \union Live],
         \A j \in Job : jobs[j] # "absent" => jobs'[j] # "absent",
         now' \in 0 .. MaxTime, now' >= now,
         UNCHANGED <<started, tickets, calls>>
  PROVE  IInv'
<1> USE PullPathAssumption
<1>1. TypeOK'
  BY DEF IInv, TypeOK
<1>2. TicketsSound'
  BY DEF IInv, TypeOK, TicketsSound
<1>3. StartedBefore'
  BY DEF IInv, TypeOK, StartedBefore
<1>4. CallsSound'
  <2> SUFFICES ASSUME NEW d \in DOMAIN calls
               PROVE  CallSound(calls[d])'
    BY DEF CallsSound
  <2> QED
    BY CallFields DEF CallSound, Spent
<1>5. RunsOnce'
  BY DEF IInv, RunsOnce, HoldersOf
<1> QED
  BY <1>1, <1>2, <1>3, <1>4, <1>5 DEF IInv

\* A redemption takes the ticket out and gives its token to one execution,
\* which is the first to hold one of this job.
LEMMA RedeemKeeps ==
  ASSUME IInv, NEW c \in DOMAIN calls, Redeem(c)
  PROVE  IInv'
<1> USE PullPathAssumption, NoTokenAssumption
<1> DEFINE id == calls[c].job
           new == IF calls[c].pc = "redeeming" /\ Redeemable(id)
                  THEN [calls[c] EXCEPT !.pc = "answered", !.token = TokenFor(tickets[id])]
                  ELSE [calls[c] EXCEPT !.pc = "rejected"]
<1>1. /\ calls[c].pc \in {"redeeming", "orphaned"} /\ calls[c].token = NoToken
      /\ tickets' = [k \in DOMAIN tickets \ {id} |-> tickets[k]]
      /\ calls' = [calls EXCEPT ![c] = new]
      /\ UNCHANGED <<now, jobs, started>>
      /\ calls[c] \in Call
  BY CallFields DEF Redeem, Spend, Restrict, CallSound
<1>2. CASE calls[c].pc = "redeeming" /\ Redeemable(id)
  <2> DEFINE token == TokenFor(tickets[id])
  <2>1. /\ id \in Job /\ tickets[id] \in Ticket /\ now \in Nat
        /\ id \in DOMAIN tickets /\ now <= tickets[id].expires
        /\ tickets[id].job = id /\ tickets[id].user = UserOf[id]
        /\ tickets[id].expires <= started[id] + TicketTTL
        /\ jobs[id] # "absent" /\ started[id] <= now /\ started[id] \in Nat
    BY <1>2 DEF IInv, TypeOK, TicketsSound, StartedBefore, Redeemable
  <2>2. token \in Token /\ token # NoToken
    BY <2>1 DEF TokenFor, Mint, Token, Ticket
  <2>3. /\ token.job = id /\ token.user = UserOf[id]
        /\ started[id] + TokenTTL <= token.exp
        /\ token.exp <= started[id] + TicketTTL + TokenTTL
    BY <2>1 DEF TokenFor, Mint, Ticket
  <2> HIDE DEF token
  <2>4. new = [calls[c] EXCEPT !.pc = "answered", !.token = token]
    BY <1>2 DEF token
  <2> HIDE DEF new
  <2>5. /\ new \in Call /\ new.job = id /\ new.token = token /\ new.pc = "answered"
    BY <1>1, <2>2, <2>4 DEF Call, CallState
  <2>6. /\ calls' \in Seq(Call) /\ DOMAIN calls' = DOMAIN calls
        /\ calls'[c] = new
        /\ \A d \in DOMAIN calls : d # c => calls'[d] = calls[d]
    BY <1>1, <2>5, ReplaceOne DEF IInv, TypeOK
  <2> HIDE DEF id
  <2>7. TypeOK'
    BY <1>1, <2>6 DEF IInv, TypeOK
  <2>8. TicketsSound' /\ StartedBefore'
    BY <1>1 DEF IInv, TypeOK, TicketsSound, StartedBefore
  <2>9. CallsSound'
    <3> SUFFICES ASSUME NEW d \in DOMAIN calls
                 PROVE  CallSound(calls[d])'
      BY <2>6 DEF CallsSound
    <3>1. CASE d = c
      BY <1>1, <2>1, <2>2, <2>3, <2>5, <2>6, <3>1 DEF CallSound, Spent
    <3>2. CASE d # c
      BY <1>1, <2>6, <3>2, CallFields DEF CallSound, Spent
    <3> QED
      BY <3>1, <3>2
  <2>10. HoldersOf(id) = {}
    BY <2>1, CallFields DEF HoldersOf, CallSound, Spent
  <2>11. \A j \in Job : \/ j = id /\ HoldersOf(j)' \subseteq {c}
                        \/ HoldersOf(j)' \subseteq HoldersOf(j)
    <3> SUFFICES ASSUME NEW j \in Job
                 PROVE  \/ j = id /\ HoldersOf(j)' \subseteq {c}
                        \/ HoldersOf(j)' \subseteq HoldersOf(j)
      OBVIOUS
    <3>1. CASE j = id
      <4>1. HoldersOf(j) = {}
        BY <2>10, <3>1
      <4> QED
        BY <2>6, <3>1, <4>1 DEF HoldersOf
    <3>2. CASE j # id
      BY <2>5, <2>6, <3>2 DEF HoldersOf
    <3> QED
      BY <3>1, <3>2
  <2>12. RunsOnce'
    <3> SUFFICES ASSUME NEW j \in Job, NEW x \in HoldersOf(j)', NEW y \in HoldersOf(j)'
                 PROVE  x = y
      BY DEF RunsOnce
    <3> QED
      BY <2>11 DEF IInv, RunsOnce
  <2> QED
    BY <2>7, <2>8, <2>9, <2>12 DEF IInv
<1>3. CASE ~(calls[c].pc = "redeeming" /\ Redeemable(id))
  <2>1. new = [calls[c] EXCEPT !.pc = "rejected"]
    BY <1>3
  <2> HIDE DEF new
  <2>2. /\ new \in Call /\ new.job = id /\ new.token = NoToken /\ new.pc = "rejected"
    BY <1>1, <2>1 DEF Call, CallState
  <2>3. /\ calls' \in Seq(Call) /\ DOMAIN calls' = DOMAIN calls
        /\ calls'[c] = new
        /\ \A d \in DOMAIN calls : d # c => calls'[d] = calls[d]
    BY <1>1, <2>2, ReplaceOne DEF IInv, TypeOK
  <2> HIDE DEF id
  <2>4. TypeOK'
    BY <1>1, <2>3 DEF IInv, TypeOK
  <2>5. TicketsSound' /\ StartedBefore'
    BY <1>1 DEF IInv, TypeOK, TicketsSound, StartedBefore
  <2>6. CallsSound'
    <3> SUFFICES ASSUME NEW d \in DOMAIN calls
                 PROVE  CallSound(calls[d])'
      BY <2>3 DEF CallsSound
    <3>1. CASE d = c
      BY <2>2, <2>3, <3>1 DEF CallSound
    <3>2. CASE d # c
      BY <1>1, <2>3, <3>2, CallFields DEF CallSound, Spent
    <3> QED
      BY <3>1, <3>2
  <2>7. RunsOnce'
    <3>1. \A j \in Job : HoldersOf(j)' \subseteq HoldersOf(j)
      BY <2>2, <2>3 DEF HoldersOf
    <3> QED
      BY <3>1 DEF IInv, RunsOnce
  <2> QED
    BY <2>4, <2>5, <2>6, <2>7 DEF IInv
<1> QED
  BY <1>2, <1>3

\* The steps of an execution that tell the orchestrator nothing.
LEMMA CallStepKeeps ==
  ASSUME IInv, NEW c \in DOMAIN calls,
         \/ RedemptionFails(c) \/ StartJob(c) \/ CallRefused(c) \/ ReportLost(c)
         \/ \E b \in BOOLEAN : EndWork(c, b)
  PROVE  IInv'
<1> USE NoTokenAssumption
<1>1. /\ calls[c] \in Call /\ CallSound(calls[c]) /\ now \in Nat
      /\ jobs \in [Job -> {"absent", "succeeded", "failed"} \union Live]
  BY CallFields DEF IInv, TypeOK
<1>2. CASE RedemptionFails(c)
  <2>1. CASE calls[c].pc = "redeeming" /\ calls' = [calls EXCEPT ![c].pc = "orphaned"]
    <3> DEFINE new == [calls[c] EXCEPT !.pc = "orphaned"]
    <3>1. new \in Call /\ CallSound(new)
      BY <1>1, <2>1 DEF Call, CallState, CallSound
    <3>2. new.job = calls[c].job /\ new.token = calls[c].token
      BY <1>1 DEF Call
    <3>3. calls' = [calls EXCEPT ![c] = new]
      BY <2>1
    <3> HIDE DEF new
    <3> QED
      BY <1>1, <1>2, <3>1, <3>2, <3>3, CallChanges DEF RedemptionFails
  <2>2. CASE /\ calls[c].pc = "answered"
             /\ calls' = [calls EXCEPT ![c].pc = "rejected", ![c].token = NoToken]
    <3> DEFINE new == [calls[c] EXCEPT !.pc = "rejected", !.token = NoToken]
    <3>1. new \in Call /\ CallSound(new)
      BY <1>1 DEF Call, CallState, CallSound
    <3>2. new.job = calls[c].job /\ new.token = NoToken
      BY <1>1 DEF Call
    <3>3. calls' = [calls EXCEPT ![c] = new]
      BY <2>2
    <3> HIDE DEF new
    <3> QED
      BY <1>1, <1>2, <3>1, <3>2, <3>3, CallChanges DEF RedemptionFails
  <2> QED
    BY <1>2, <2>1, <2>2 DEF RedemptionFails
<1>3. CASE StartJob(c)
  <2> DEFINE new == [calls[c] EXCEPT !.pc = "working", !.since = now]
  <2>1. new \in Call /\ CallSound(new)
    BY <1>1, <1>3 DEF StartJob, Call, CallState, CallSound
  <2>2. new.job = calls[c].job /\ new.token = calls[c].token
    BY <1>1 DEF Call
  <2>3. calls' = [calls EXCEPT ![c] = new]
    BY <1>3 DEF StartJob
  <2> HIDE DEF new
  <2> QED
    BY <1>1, <1>3, <2>1, <2>2, <2>3, CallChanges DEF StartJob
<1>4. CASE CallRefused(c)
  <2> DEFINE new == [calls[c] EXCEPT !.pc = "reporting"]
  <2>1. new \in Call /\ CallSound(new)
    BY <1>1, <1>4 DEF CallRefused, Call, CallState, CallSound
  <2>2. new.job = calls[c].job /\ new.token = calls[c].token
    BY <1>1 DEF Call
  <2>3. calls' = [calls EXCEPT ![c] = new]
    BY <1>4 DEF CallRefused
  <2> HIDE DEF new
  <2> QED
    BY <1>1, <1>4, <2>1, <2>2, <2>3, CallChanges DEF CallRefused
<1>5. CASE ReportLost(c)
  <2> DEFINE new == Over(calls[c])
  <2>1. new \in Call /\ CallSound(new)
    BY <1>1, <1>5 DEF ReportLost, Over, Call, CallState, CallSound
  <2>2. new.job = calls[c].job /\ new.token = calls[c].token
    BY <1>1 DEF Over, Call
  <2>3. calls' = [calls EXCEPT ![c] = new]
    BY <1>5 DEF ReportLost
  <2> HIDE DEF new
  <2> QED
    BY <1>1, <1>5, <2>1, <2>2, <2>3, CallChanges DEF ReportLost
<1>6. ASSUME NEW b \in BOOLEAN, EndWork(c, b)
      PROVE  IInv'
  <2> DEFINE new == [calls[c] EXCEPT !.pc = "reporting", !.ok = b]
  <2>1. new \in Call /\ CallSound(new)
    BY <1>1, <1>6 DEF EndWork, Call, CallState, CallSound
  <2>2. new.job = calls[c].job /\ new.token = calls[c].token
    BY <1>1 DEF Call
  <2>3. calls' = [calls EXCEPT ![c] = new]
    BY <1>6 DEF EndWork
  <2> HIDE DEF new
  <2> QED
    BY <1>1, <1>6, <2>1, <2>2, <2>3, CallChanges DEF EndWork
<1> QED
  BY <1>2, <1>3, <1>4, <1>5, <1>6

\* A report settles at most a job that was awaited.
LEMMA ReportKeeps ==
  ASSUME IInv, NEW c \in DOMAIN calls, NEW again \in BOOLEAN, Report(c, again)
  PROVE  IInv'
<1> USE PullPathAssumption, NoTokenAssumption
<1>1. /\ calls[c] \in Call /\ CallSound(calls[c]) /\ calls[c].pc = "reporting"
      /\ now \in 0 .. MaxTime
      /\ jobs \in [Job -> {"absent", "succeeded", "failed"} \union Live]
      /\ UNCHANGED <<now, started, tickets>>
  BY CallFields DEF IInv, TypeOK, Report
<1>2. /\ jobs' \in [Job -> {"absent", "succeeded", "failed"} \union Live]
      /\ \A j \in Job : jobs[j] # "absent" => jobs'[j] # "absent"
  BY <1>1 DEF Report, CompleteJob
<1>3. CASE again
  BY <1>1, <1>2, <1>3, JobsAndClockKeep DEF Report
<1>4. CASE ~again
  <2> DEFINE new == Over(calls[c])
  <2>1. new \in Call /\ CallSound(new)
    BY <1>1 DEF Over, Call, CallState, CallSound
  <2>2. new.job = calls[c].job /\ new.token = calls[c].token
    BY <1>1 DEF Over, Call
  <2>3. calls' = [calls EXCEPT ![c] = new]
    BY <1>4 DEF Report
  <2> HIDE DEF new
  <2> QED
    BY <1>1, <1>2, <2>1, <2>2, <2>3, CallChanges
<1> QED
  BY <1>3, <1>4

\* A message that is delivered starts without a token, and an exchanged token is
\* not one of a job.
LEMMA BeginningKeeps ==
  ASSUME IInv,
         \/ \E j \in Job : Deliver(j)
         \/ \E i \in Identity, u \in User, t \in ExchangedTypes : Exchange(i, u, t)
  PROVE  IInv'
<1> USE PullPathAssumption, NoTokenAssumption
<1>1. now \in Nat
  BY DEF IInv, TypeOK
<1>2. ASSUME NEW j \in Job, Deliver(j)
      PROVE  IInv'
  <2> DEFINE new == [job |-> j, pc |-> "redeeming", since |-> 0,
                     ok |-> FALSE, token |-> NoToken]
  <2>1. new \in Call /\ CallSound(new) /\ new.token = NoToken
    BY DEF Call, CallState, CallSound
  <2>2. calls' = Append(calls, new) /\ UNCHANGED <<now, jobs, started, tickets>>
    BY <1>2 DEF Deliver
  <2> HIDE DEF new
  <2> QED
    BY <2>1, <2>2, CallBegins
<1>3. ASSUME NEW i \in Identity, NEW u \in User, NEW t \in ExchangedTypes, Exchange(i, u, t)
      PROVE  IInv'
  <2> DEFINE token == Mint(ExchangeJob, u, t)
             new == [job |-> ExchangeJob, pc |-> "working", since |-> now,
                     ok |-> FALSE, token |-> token]
  <2>1. token \in Token /\ token.job = ExchangeJob
    BY <1>1 DEF Mint, Token
  <2>2. calls' = Append(calls, new) /\ UNCHANGED <<now, jobs, started, tickets>>
    BY <1>3 DEF Exchange
  <2> HIDE DEF token
  <2>3. new \in Call /\ CallSound(new) /\ new.job \notin Job
    BY <1>1, <2>1 DEF Call, CallState, CallSound
  <2> HIDE DEF new
  <2> QED
    BY <2>2, <2>3, CallBegins
<1> QED
  BY <1>2, <1>3

\* Every step keeps the invariant.
LEMMA StepKeeps == IInv /\ [Next]_vars => IInv'
<1> SUFFICES ASSUME IInv, [Next]_vars PROVE IInv'
  OBVIOUS
<1> USE PullPathAssumption
<1>1. /\ now \in 0 .. MaxTime /\ now \in Nat
      /\ jobs \in [Job -> {"absent", "succeeded", "failed"} \union Live]
  BY DEF IInv, TypeOK
<1>2. ASSUME NEW j \in Job, JobStep(j)
      PROVE  IInv'
  <2>1. CASE Dispatch(j)
    BY <2>1, DispatchKeeps
  <2>2. CASE Accepted(j) \/ DispatchFails(j) \/ DeadlinePasses(j)
    <3>1. /\ jobs' \in [Job -> {"absent", "succeeded", "failed"} \union Live]
          /\ \A k \in Job : jobs[k] # "absent" => jobs'[k] # "absent"
          /\ UNCHANGED <<now, started, tickets, calls>>
      BY <1>1, <2>2 DEF Accepted, DispatchFails, DeadlinePasses, Live
    <3> QED
      BY <1>1, <3>1, JobsAndClockKeep
  <2>3. CASE Deliver(j)
    BY <2>3, BeginningKeeps
  <2> QED
    BY <1>2, <2>1, <2>2, <2>3 DEF JobStep
<1>3. ASSUME NEW c \in DOMAIN calls, CallStep(c)
      PROVE  IInv'
  <2>1. CASE Redeem(c)
    BY <2>1, RedeemKeeps
  <2>2. ASSUME NEW b \in BOOLEAN, Report(c, b)
        PROVE  IInv'
    BY <2>2, ReportKeeps
  <2> QED
    BY <1>3, <2>1, <2>2, CallStepKeeps DEF CallStep
<1>4. CASE \E i \in Identity, u \in User, t \in ExchangedTypes : Exchange(i, u, t)
  BY <1>4, BeginningKeeps
<1>5. CASE Tick
  BY <1>1, <1>5, JobsAndClockKeep DEF Tick
<1>6. CASE UNCHANGED vars
  BY <1>1, <1>6, JobsAndClockKeep DEF vars
<1> QED
  BY <1>2, <1>3, <1>4, <1>5, <1>6 DEF Next

\* The invariant holds of every execution of the pull path.
LEMMA Inductive == Spec => []IInv
  BY InitKeeps, StepKeeps, PTL DEF Spec

-------------------------------------------------------------------------------
(* What follows.                                                           *)

\* A holder of a token of a job: what the invariant says of it.
LEMMA HolderIsSpent ==
  ASSUME IInv, NEW j \in Job, NEW c \in HoldersOf(j)
  PROVE  Spent(j, calls[c].token) /\ calls[c].token \in Token
<1>1. c \in DOMAIN calls /\ calls[c].job = j /\ calls[c].token # NoToken
  BY DEF HoldersOf
<1> QED
  BY <1>1, CallFields DEF CallSound, Call

\* The variables of the pull path have their types, whatever the proxy does
\* (issueTicket, RedeemTicket, handleRPC, MintJobToken).
THEOREM TypeCorrect == Spec => []TypeOK
  BY Inductive, PTL DEF IInv

\* A job runs at most once at a durable runtime: of all executions its message
\* starts, only one ever holds its token (RedeemTicket).
THEOREM JobRunsOnce == Spec => []RunsOnce
  BY Inductive, PTL DEF IInv

\* A job's token is gone two lifetimes after its dispatch, however late its
\* ticket is redeemed (issueTicket, RedeemTicket, Mint).
THEOREM TokensEnd == Spec => []TokenWindow
<1>1. IInv => TokenWindow
  BY HolderIsSpent DEF TokenWindow, Spent
<1> QED
  BY <1>1, Inductive, PTL

\* A token serves its job's whole deadline when that is no longer than its
\* lifetime, as it is of every type but converse (deadlineFor, NewMinter).
THEOREM TokensLast == Spec => []LiveTokensValid
<1>1. IInv => LiveTokensValid
  <2> SUFFICES ASSUME IInv, NEW j \in Job, NEW c \in HoldersOf(j),
                      TypeOf[j] # "converse", now <= started[j] + Deadline(TypeOf[j])
               PROVE  Valid(calls[c].token)
    BY DEF LiveTokensValid
  <2>1. /\ Deadline(TypeOf[j]) \in Nat /\ TokenTTL \in Nat
        /\ Deadline(TypeOf[j]) <= TokenTTL
    BY PullPathAssumption DEF Deadline
  <2>2. now \in Nat /\ started[j] \in Nat
    BY PullPathAssumption DEF IInv, TypeOK
  <2>3. calls[c].token.exp \in Nat /\ started[j] + TokenTTL <= calls[c].token.exp
    BY HolderIsSpent DEF Spent, Token
  <2> QED
    BY <2>1, <2>2, <2>3 DEF Valid
<1> QED
  BY <1>1, Inductive, PTL

\* What one step does to a job that succeeds.
LEMMA SuccessStep ==
  ASSUME IInv, Next, NEW j \in Job, jobs[j] # "succeeded", jobs'[j] = "succeeded"
  PROVE  \E c \in HoldersOf(j) :
             /\ calls[c].pc = "reporting" /\ calls[c].ok /\ Valid(calls[c].token)
             /\ calls[c].token.user = UserOf[j]
<1>1. jobs \in [Job -> {"absent", "succeeded", "failed"} \union Live]
  BY DEF IInv, TypeOK
<1>2. \A k \in Job : ~JobStep(k)
  BY <1>1 DEF JobStep, Dispatch, Accepted, DispatchFails, DeadlinePasses, Deliver
<1>3. jobs' # jobs
  OBVIOUS
<1>4. PICK c \in DOMAIN calls : CallStep(c)
  BY <1>2, <1>3 DEF Next, Exchange, Tick
<1>5. PICK again \in BOOLEAN : Report(c, again)
  BY <1>3, <1>4 DEF CallStep, Redeem, RedemptionFails, StartJob, CallRefused,
                    ReportLost, EndWork
<1>6. calls[c].token.job = j /\ calls[c].ok
  BY <1>1, <1>5 DEF Report, CompleteJob
<1>7. calls[c].pc = "reporting" /\ Valid(calls[c].token)
  BY <1>5 DEF Report
<1>8. c \in HoldersOf(j)
  BY <1>6, <1>7, CallFields DEF CallSound, HoldersOf
<1>9. calls[c].token.user = UserOf[j]
  BY <1>8, HolderIsSpent DEF Spent
<1> QED
  BY <1>6, <1>7, <1>8, <1>9

\* Only the execution that redeemed the job's own ticket can report its success
\* (postAgentComplete, CompleteJob): not another job's, nor an exchanged token.
THEOREM OnlyItsReportSucceeds == Spec => SuccessIsReported
<1>1. IInv /\ [Next]_vars =>
        [\A j \in Job : (jobs[j] # "succeeded" /\ jobs'[j] = "succeeded") =>
            \E c \in HoldersOf(j) :
                /\ calls[c].pc = "reporting" /\ calls[c].ok /\ Valid(calls[c].token)
                /\ calls[c].token.user = UserOf[j]]_vars
  BY SuccessStep
<1> QED
  BY <1>1, Inductive, PTL DEF Spec, SuccessIsReported

-------------------------------------------------------------------------------
(* Each job keeps the contract of JobRun.                                  *)

\* The run of a job is that of its holder, the only one.
RunIs ==
    \A j \in Job :
        /\ \A c \in HoldersOf(j) : RunOf(j) = Phase(calls[c])
        /\ HoldersOf(j) = {} =>
             RunOf(j) = IF jobs[j] = "absent" \/ j \in DOMAIN tickets THEN "free" ELSE "over"

LEMMA RunByHolder == IInv => RunIs
<1> SUFFICES ASSUME IInv, NEW j \in Job
             PROVE  /\ \A c \in HoldersOf(j) : RunOf(j) = Phase(calls[c])
                    /\ HoldersOf(j) = {} =>
                         RunOf(j) = IF jobs[j] = "absent" \/ j \in DOMAIN tickets
                                    THEN "free" ELSE "over"
  BY DEF RunIs
<1>1. ASSUME NEW c \in HoldersOf(j) PROVE RunOf(j) = Phase(calls[c])
  <2>1. \A d \in HoldersOf(j) : d = c
    BY DEF IInv, RunsOnce
  <2>2. (CHOOSE d \in HoldersOf(j) : TRUE) = c
    BY <2>1
  <2>3. HoldersOf(j) # {}
    BY <1>1
  <2> QED
    BY <2>2, <2>3 DEF RunOf
<1>2. ASSUME HoldersOf(j) = {}
      PROVE  RunOf(j) = IF jobs[j] = "absent" \/ j \in DOMAIN tickets THEN "free" ELSE "over"
  BY <1>2 DEF RunOf
<1> QED
  BY <1>1, <1>2

\* Where nothing of a job's ticket, holder and dispatch changes, its run is the same.
LEMMA SameRun ==
  ASSUME RunIs, RunIs', NEW j \in Job,
         HoldersOf(j)' = HoldersOf(j), \A c \in HoldersOf(j) : calls'[c] = calls[c],
         HoldersOf(j) = {} =>
           /\ jobs'[j] = "absent" <=> jobs[j] = "absent"
           /\ j \in DOMAIN tickets' <=> j \in DOMAIN tickets
  PROVE  RunOf(j)' = RunOf(j)
<1>1. CASE HoldersOf(j) = {}
  BY <1>1 DEF RunIs
<1>2. CASE HoldersOf(j) # {}
  <2>1. PICK c : c \in HoldersOf(j)
    BY <1>2
  <2>2. RunOf(j) = Phase(calls[c])
    BY <2>1 DEF RunIs
  <2>3. c \in HoldersOf(j)' /\ calls'[c] = calls[c]
    BY <2>1
  <2>4. RunOf(j)' = Phase(calls'[c])
    BY <2>3 DEF RunIs, Phase
  <2> QED
    BY <2>2, <2>3, <2>4
<1> QED
  BY <1>1, <1>2

\* What one execution's step means for a run: nothing, a phase more of its own
\* run, or the loss of it.
LEMMA RunOfChange ==
  ASSUME IInv, RunIs, RunIs', NEW j \in Job, NEW c \in DOMAIN calls, NEW new \in Call,
         calls' = [calls EXCEPT ![c] = new],
         new.job = calls[c].job, new.token \in {calls[c].token, NoToken},
         \A k \in Job : jobs'[k] = "absent" <=> jobs[k] = "absent",
         tickets' = tickets
  PROVE  \/ c \notin HoldersOf(j) /\ RunOf(j)' = RunOf(j)
         \/ /\ c \in HoldersOf(j) /\ jobs[j] # "absent"
            /\ RunOf(j) = Phase(calls[c])
            /\ RunOf(j)' = IF new.token = NoToken THEN "over" ELSE Phase(new)
<1>1. /\ DOMAIN calls' = DOMAIN calls /\ calls'[c] = new
      /\ \A d \in DOMAIN calls : d # c => calls'[d] = calls[d]
  BY ReplaceOne DEF IInv, TypeOK
<1>2. CASE c \notin HoldersOf(j)
  <2>1. HoldersOf(j)' = HoldersOf(j)
    BY <1>1, <1>2 DEF HoldersOf
  <2>2. \A d \in HoldersOf(j) : calls'[d] = calls[d]
    BY <1>1, <1>2 DEF HoldersOf
  <2> QED
    BY <1>2, <2>1, <2>2, SameRun
<1>3. CASE c \in HoldersOf(j)
  <2>1. /\ RunOf(j) = Phase(calls[c])
        /\ jobs[j] # "absent" /\ j \notin DOMAIN tickets
    BY <1>3, HolderIsSpent DEF RunIs, Spent
  <2>2. \A d \in HoldersOf(j) : d = c
    BY <1>3 DEF IInv, RunsOnce
  <2>3. CASE new.token = NoToken
    <3>1. HoldersOf(j)' = {}
      BY <1>1, <2>2, <2>3 DEF HoldersOf
    <3>2. jobs'[j] # "absent" /\ j \notin DOMAIN tickets'
      BY <2>1
    <3>3. RunOf(j)' = "over"
      BY <3>1, <3>2 DEF RunIs
    <3> QED
      BY <1>3, <2>1, <2>3, <3>3
  <2>4. CASE new.token # NoToken
    <3>1. c \in HoldersOf(j)'
      BY <1>1, <1>3, <2>4 DEF HoldersOf
    <3>2. RunOf(j)' = Phase(calls'[c])
      BY <3>1 DEF RunIs, Phase
    <3> QED
      BY <1>1, <1>3, <2>1, <2>4, <3>2
  <2> QED
    BY <2>3, <2>4
<1> QED
  BY <1>2, <1>3

\* The step of the contract that a step of the pull path is, when it leaves the
\* job's state alone.
LEMMA RunMoves ==
  ASSUME NEW j \in Job, jobs'[j] = jobs[j],
         \/ RunOf(j)' = RunOf(j)
         \/ jobs[j] # "absent" /\ RunOf(j)' = "over"
         \/ jobs[j] # "absent" /\ RunOf(j) = "free" /\ RunOf(j)' = "running"
         \/ RunOf(j) = "running" /\ RunOf(j)' \in {"good", "bad"}
  PROVE  [Contract(j)!Next]_(Contract(j)!vars)
  BY DEF Contract!Next, Contract!vars, Contract!Start, Contract!End, Contract!Lose, Live

\* And when it settles the job.
LEMMA JobSettles ==
  ASSUME NEW j \in Job, jobs[j] \in Live, RunOf(j)' = RunOf(j) \/ RunOf(j)' = "over",
         jobs'[j] = "failed" \/ (jobs'[j] = "succeeded" /\ RunOf(j) = "good")
  PROVE  [Contract(j)!Next]_(Contract(j)!vars)
  BY DEF Contract!Next, Contract!Succeed, Contract!Fail, Live

\* A dispatch begins one job; it may clean up the tickets of others, which are
\* then never run.
LEMMA DispatchIsContract ==
  ASSUME IInv, RunIs, RunIs', NEW k \in Job, Dispatch(k), NEW j \in Job
  PROVE  [Contract(j)!Next]_(Contract(j)!vars)
<1>1. /\ jobs \in [Job -> {"absent", "succeeded", "failed"} \union Live]
      /\ jobs[k] = "absent" /\ jobs' = [jobs EXCEPT ![k] = "dispatching"]
      /\ calls' = calls
      /\ k \in DOMAIN tickets' /\ DOMAIN tickets' \subseteq DOMAIN tickets \union {k}
  BY DEF Dispatch, IssueTicket, IInv, TypeOK
<1>2. HoldersOf(j)' = HoldersOf(j)
  BY <1>1 DEF HoldersOf
<1>3. CASE j = k
  <2>1. HoldersOf(j) = {}
    BY <1>1, <1>3, HolderIsSpent DEF Spent
  <2>2. RunOf(j) = "free"
    BY <1>1, <1>3, <2>1 DEF RunIs
  <2>3. RunOf(j)' = "free"
    BY <1>1, <1>2, <1>3, <2>1 DEF RunIs
  <2>4. jobs[j] = "absent" /\ jobs'[j] = "dispatching"
    BY <1>1, <1>3
  <2> QED
    BY <2>2, <2>3, <2>4 DEF Contract!Next, Contract!Begin, Live
<1>4. CASE j # k
  <2>1. jobs'[j] = jobs[j] /\ (j \in DOMAIN tickets' => j \in DOMAIN tickets)
    BY <1>1, <1>4
  <2>2. CASE HoldersOf(j) = {} /\ j \in DOMAIN tickets /\ j \notin DOMAIN tickets'
    <3>1. jobs[j] # "absent"
      BY <2>2 DEF IInv, TicketsSound
    <3>2. RunOf(j)' = "over"
      BY <1>2, <2>1, <2>2, <3>1 DEF RunIs
    <3> QED
      BY <2>1, <3>1, <3>2, RunMoves
  <2>3. CASE ~(HoldersOf(j) = {} /\ j \in DOMAIN tickets /\ j \notin DOMAIN tickets')
    <3>1. RunOf(j)' = RunOf(j)
      BY <1>1, <1>2, <2>1, <2>3, SameRun
    <3> QED
      BY <2>1, <3>1, RunMoves
  <2> QED
    BY <2>2, <2>3
<1> QED
  BY <1>3, <1>4

\* A step that touches neither tickets nor executions leaves every run alone.
LEMMA RunsUntouched ==
  ASSUME RunIs, RunIs', NEW j \in Job, UNCHANGED <<tickets, calls>>,
         jobs'[j] = "absent" <=> jobs[j] = "absent"
  PROVE  RunOf(j)' = RunOf(j)
<1>1. HoldersOf(j)' = HoldersOf(j)
  BY DEF HoldersOf
<1> QED
  BY <1>1, SameRun

\* The launcher's answer and the deadline may fail a job, whatever its run does.
LEMMA AwaitIsContract ==
  ASSUME IInv, RunIs, RunIs', NEW k \in Job,
         Accepted(k) \/ DispatchFails(k) \/ DeadlinePasses(k), NEW j \in Job
  PROVE  [Contract(j)!Next]_(Contract(j)!vars)
<1>1. /\ jobs \in [Job -> {"absent", "succeeded", "failed"} \union Live]
      /\ jobs[k] \in Live /\ UNCHANGED <<tickets, calls>>
      /\ \/ jobs' = [jobs EXCEPT ![k] = "awaiting"]
         \/ jobs' = [jobs EXCEPT ![k] = "failed"]
  BY DEF Accepted, DispatchFails, DeadlinePasses, IInv, TypeOK, Live
<1>2. /\ jobs'[j] = "absent" <=> jobs[j] = "absent"
      /\ \/ jobs'[j] = jobs[j]
         \/ jobs[j] \in Live /\ jobs'[j] \in {"awaiting", "failed"}
  BY <1>1 DEF Live
<1>3. RunOf(j)' = RunOf(j)
  BY <1>1, <1>2, RunsUntouched
<1>4. CASE jobs'[j] = jobs[j]
  BY <1>3, <1>4, RunMoves
<1>5. CASE jobs[j] \in Live /\ jobs'[j] = "failed"
  <2>1. jobs[j] \in Live /\ jobs'[j] = "failed"
    BY <1>5
  <2> QED
    BY <1>3, <2>1, JobSettles
<1>6. CASE jobs[j] \in Live /\ jobs'[j] = "awaiting"
  BY <1>3, <1>6 DEF Contract!vars, Live
<1> QED
  BY <1>2, <1>4, <1>5, <1>6

\* A new execution has no token of a job, so it is no run yet.
LEMMA BeginningIsContract ==
  ASSUME IInv, RunIs, RunIs', NEW new, calls' = Append(calls, new), new \in Call,
         new.token = NoToken \/ new.job \notin Job,
         UNCHANGED <<jobs, tickets>>, NEW j \in Job
  PROVE  [Contract(j)!Next]_(Contract(j)!vars)
<1> DEFINE n == Len(calls) + 1
<1>1. /\ DOMAIN calls' = DOMAIN calls \union {n}
      /\ calls'[n] = new /\ n \notin DOMAIN calls
      /\ \A d \in DOMAIN calls : calls'[d] = calls[d]
  BY AppendOne DEF IInv, TypeOK
<1> HIDE DEF n
<1>2. HoldersOf(j)' = HoldersOf(j) /\ \A d \in HoldersOf(j) : calls'[d] = calls[d]
  BY <1>1 DEF HoldersOf
<1>3. RunOf(j)' = RunOf(j)
  BY <1>2, SameRun
<1> QED
  BY <1>3, RunMoves

\* The redemption that finds the ticket starts the run; one that finds it
\* expired, or is no longer waited for, gives it up.
LEMMA RedeemIsContract ==
  ASSUME IInv, RunIs, RunIs', NEW c \in DOMAIN calls, Redeem(c), NEW j \in Job
  PROVE  [Contract(j)!Next]_(Contract(j)!vars)
<1> USE NoTokenAssumption
<1>1. PICK id : id = calls[c].job
  OBVIOUS
<1>2. PICK token : token = TokenFor(tickets[id])
  OBVIOUS
<1>3. PICK new : new = IF calls[c].pc = "redeeming" /\ Redeemable(id)
                       THEN [calls[c] EXCEPT !.pc = "answered", !.token = token]
                       ELSE [calls[c] EXCEPT !.pc = "rejected"]
  OBVIOUS
<1>4. /\ calls[c].pc \in {"redeeming", "orphaned"} /\ calls[c].token = NoToken
      /\ DOMAIN tickets' = DOMAIN tickets \ {id}
      /\ calls' = [calls EXCEPT ![c] = new]
      /\ jobs' = jobs
      /\ calls[c] \in Call /\ calls \in Seq(Call)
  BY <1>1, <1>2, <1>3, CallFields DEF Redeem, Spend, Restrict, CallSound, IInv, TypeOK
<1>5. /\ new.job = id
      /\ \/ new.token = NoToken
         \/ new.pc = "answered" /\ new.token = token /\ Redeemable(id)
  BY <1>1, <1>3, <1>4 DEF Call
<1>6. /\ DOMAIN calls' = DOMAIN calls /\ calls'[c] = new
      /\ \A d \in DOMAIN calls : d # c => calls'[d] = calls[d]
  BY <1>4
<1>7. CASE j # id
  <2>1. HoldersOf(j)' = HoldersOf(j) /\ \A d \in HoldersOf(j) : calls'[d] = calls[d]
    BY <1>1, <1>5, <1>6, <1>7 DEF HoldersOf
  <2>2. RunOf(j)' = RunOf(j)
    BY <1>4, <1>7, <2>1, SameRun
  <2> QED
    BY <1>4, <2>2, RunMoves
<1>8. CASE j = id /\ new.token = NoToken
  <2>1. HoldersOf(j)' = HoldersOf(j) /\ \A d \in HoldersOf(j) : calls'[d] = calls[d]
    BY <1>4, <1>5, <1>6, <1>8 DEF HoldersOf
  <2>2. CASE HoldersOf(j) = {} /\ j \in DOMAIN tickets
    <3>1. jobs[j] # "absent"
      BY <2>2 DEF IInv, TicketsSound
    <3>2. RunOf(j)' = "over"
      BY <1>4, <1>8, <2>1, <2>2, <3>1 DEF RunIs
    <3> QED
      BY <1>4, <3>1, <3>2, RunMoves
  <2>3. CASE ~(HoldersOf(j) = {} /\ j \in DOMAIN tickets)
    <3>1. RunOf(j)' = RunOf(j)
      BY <1>4, <2>1, <2>3, SameRun
    <3> QED
      BY <1>4, <3>1, RunMoves
  <2> QED
    BY <2>2, <2>3
<1>9. CASE j = id /\ new.pc = "answered" /\ new.token = token /\ new.token # NoToken /\ Redeemable(id)
  <2>1. j \in DOMAIN tickets /\ jobs[j] # "absent"
    BY <1>9 DEF Redeemable, IInv, TicketsSound
  <2>2. HoldersOf(j) = {}
    BY <2>1, HolderIsSpent DEF Spent
  <2>3. RunOf(j) = "free"
    BY <2>1, <2>2 DEF RunIs
  <2>4. c \in HoldersOf(j)'
    BY <1>5, <1>6, <1>9 DEF HoldersOf
  <2>5. RunOf(j)' = Phase(calls'[c])
    BY <2>4 DEF RunIs, Phase
  <2>6. RunOf(j)' = "running"
    BY <1>6, <1>9, <2>5 DEF Phase
  <2> QED
    BY <1>4, <2>1, <2>3, <2>6, RunMoves
<1> QED
  BY <1>5, <1>7, <1>8, <1>9

\* What an execution does after its redemption, and the loss of it or of its
\* report, is a phase more of its job's run, or the end of it.
LEMMA CallStepIsContract ==
  ASSUME IInv, RunIs, RunIs', NEW c \in DOMAIN calls, NEW new \in Call,
         calls' = [calls EXCEPT ![c] = new], new.job = calls[c].job,
         \/ calls[c].token = NoToken /\ new.token = NoToken
         \/ calls[c].token # NoToken /\ new.token = NoToken
         \/ /\ new.token = calls[c].token
            /\ \/ Phase(new) = Phase(calls[c])
               \/ Phase(new) = "over"
               \/ Phase(calls[c]) = "running" /\ Phase(new) \in {"good", "bad"},
         UNCHANGED <<jobs, tickets>>, NEW j \in Job
  PROVE  [Contract(j)!Next]_(Contract(j)!vars)
<1>1. new.token \in {calls[c].token, NoToken}
  OBVIOUS
<1>2. \A k \in Job : jobs'[k] = "absent" <=> jobs[k] = "absent"
  OBVIOUS
<1>3. \/ c \notin HoldersOf(j) /\ RunOf(j)' = RunOf(j)
      \/ /\ c \in HoldersOf(j) /\ jobs[j] # "absent"
         /\ RunOf(j) = Phase(calls[c])
         /\ RunOf(j)' = IF new.token = NoToken THEN "over" ELSE Phase(new)
  BY <1>1, <1>2, RunOfChange
<1>4. CASE c \notin HoldersOf(j) /\ RunOf(j)' = RunOf(j)
  BY <1>4, RunMoves
<1>5. CASE /\ c \in HoldersOf(j) /\ jobs[j] # "absent"
           /\ RunOf(j) = Phase(calls[c])
           /\ RunOf(j)' = IF new.token = NoToken THEN "over" ELSE Phase(new)
  <2>1. \/ RunOf(j)' = "over"
        \/ RunOf(j)' = RunOf(j)
        \/ RunOf(j) = "running" /\ RunOf(j)' \in {"good", "bad"}
    BY <1>5
  <2> QED
    BY <1>5, <2>1, RunMoves
<1> QED
  BY <1>3, <1>4, <1>5

\* A report settles at most the job whose run ended, with that run's outcome; it
\* may be the last that is heard of it.
LEMMA ReportIsContract ==
  ASSUME IInv, RunIs, RunIs', NEW c \in DOMAIN calls, NEW again \in BOOLEAN,
         Report(c, again), NEW j \in Job
  PROVE  [Contract(j)!Next]_(Contract(j)!vars)
<1> USE NoTokenAssumption, PullPathAssumption
<1>1. /\ calls[c] \in Call /\ CallSound(calls[c]) /\ calls[c].pc = "reporting"
      /\ jobs \in [Job -> {"absent", "succeeded", "failed"} \union Live]
      /\ UNCHANGED tickets
  BY CallFields DEF IInv, TypeOK, Report
<1>2. calls[c].token # NoToken /\ calls[c].token.job = calls[c].job
  BY <1>1 DEF CallSound
<1>3. \A k \in Job : \/ jobs'[k] = jobs[k]
                     \/ /\ k = calls[c].job /\ jobs[k] = "awaiting"
                        /\ jobs'[k] = IF calls[c].ok THEN "succeeded" ELSE "failed"
  BY <1>1, <1>2 DEF Report, CompleteJob
<1>4. \A k \in Job : jobs'[k] = "absent" <=> jobs[k] = "absent"
  BY <1>3
<1>5. PICK new : new = IF again THEN calls[c] ELSE Over(calls[c])
  OBVIOUS
<1>6. /\ new \in Call /\ new.job = calls[c].job /\ new.token = calls[c].token
      /\ Phase(new) = Phase(calls[c]) \/ Phase(new) = "over"
  BY <1>1, <1>5 DEF Over, Call, CallState, Phase
<1>7. calls' = [calls EXCEPT ![c] = new]
  <2>1. CASE again
    BY <1>5, <2>1 DEF Report, IInv, TypeOK
  <2>2. CASE ~again
    BY <1>5, <2>2 DEF Report
  <2> QED
    BY <2>1, <2>2
<1>8. \/ c \notin HoldersOf(j) /\ RunOf(j)' = RunOf(j)
      \/ /\ c \in HoldersOf(j) /\ jobs[j] # "absent"
         /\ RunOf(j) = Phase(calls[c])
         /\ RunOf(j)' = IF new.token = NoToken THEN "over" ELSE Phase(new)
  BY <1>1, <1>4, <1>6, <1>7, RunOfChange
<1>9. CASE c \notin HoldersOf(j) /\ RunOf(j)' = RunOf(j)
  <2>1. calls[c].job # j
    BY <1>2, <1>9 DEF HoldersOf
  <2>2. jobs'[j] = jobs[j]
    BY <1>3, <2>1
  <2> QED
    BY <1>9, <2>2, RunMoves
<1>10. CASE /\ c \in HoldersOf(j) /\ jobs[j] # "absent"
            /\ RunOf(j) = Phase(calls[c])
            /\ RunOf(j)' = IF new.token = NoToken THEN "over" ELSE Phase(new)
  <2>1. RunOf(j)' = RunOf(j) \/ RunOf(j)' = "over"
    BY <1>2, <1>6, <1>10
  <2>2. CASE jobs'[j] = jobs[j]
    BY <1>10, <2>1, <2>2, RunMoves
  <2>3. CASE /\ jobs[j] = "awaiting"
             /\ jobs'[j] = IF calls[c].ok THEN "succeeded" ELSE "failed"
    <3>1. jobs[j] \in Live
      BY <2>3 DEF Live
    <3>2. calls[c].ok => RunOf(j) = "good"
      BY <1>1, <1>10 DEF Phase
    <3>3. jobs'[j] = "failed" \/ (jobs'[j] = "succeeded" /\ RunOf(j) = "good")
      BY <2>3, <3>2
    <3> QED
      BY <2>1, <3>1, <3>3, JobSettles
  <2> QED
    BY <1>3, <2>2, <2>3
<1> QED
  BY <1>8, <1>9, <1>10

\* Every step of the pull path is one of each job's contract, or none of it.
LEMMA StepIsContract ==
  ASSUME IInv, RunIs, RunIs', [Next]_vars, NEW j \in Job
  PROVE  [Contract(j)!Next]_(Contract(j)!vars)
<1> USE NoTokenAssumption
<1>1. ASSUME NEW k \in Job, JobStep(k)
      PROVE  [Contract(j)!Next]_(Contract(j)!vars)
  <2>1. CASE Deliver(k)
    <3>1. PICK new : new = [job |-> k, pc |-> "redeeming", since |-> 0,
                            ok |-> FALSE, token |-> NoToken]
      OBVIOUS
    <3>2. new \in Call /\ new.token = NoToken
      BY <3>1 DEF Call, CallState
    <3>3. calls' = Append(calls, new) /\ UNCHANGED <<jobs, tickets>>
      BY <2>1, <3>1 DEF Deliver
    <3> QED
      BY <3>2, <3>3, BeginningIsContract
  <2> QED
    BY <1>1, <2>1, DispatchIsContract, AwaitIsContract DEF JobStep
<1>2. ASSUME NEW c \in DOMAIN calls, CallStep(c)
      PROVE  [Contract(j)!Next]_(Contract(j)!vars)
  <2>1. calls[c] \in Call /\ CallSound(calls[c]) /\ now \in Nat
    BY CallFields DEF IInv, TypeOK
  <2>2. CASE RedemptionFails(c)
    <3>1. CASE calls[c].pc = "redeeming" /\ calls' = [calls EXCEPT ![c].pc = "orphaned"]
      <4>1. PICK new : new = [calls[c] EXCEPT !.pc = "orphaned"]
        OBVIOUS
      <4>2. /\ new \in Call /\ new.job = calls[c].job
            /\ new.token = NoToken /\ calls[c].token = NoToken
        BY <2>1, <3>1, <4>1 DEF Call, CallState, CallSound
      <4>3. calls' = [calls EXCEPT ![c] = new] /\ UNCHANGED <<jobs, tickets>>
        BY <2>2, <3>1, <4>1 DEF RedemptionFails
      <4> QED
        BY <4>2, <4>3, CallStepIsContract
    <3>2. CASE /\ calls[c].pc = "answered"
               /\ calls' = [calls EXCEPT ![c].pc = "rejected", ![c].token = NoToken]
      <4>1. PICK new : new = [calls[c] EXCEPT !.pc = "rejected", !.token = NoToken]
        OBVIOUS
      <4>2. /\ new \in Call /\ new.job = calls[c].job
            /\ new.token = NoToken /\ calls[c].token # NoToken
        BY <2>1, <3>2, <4>1 DEF Call, CallState, CallSound
      <4>3. calls' = [calls EXCEPT ![c] = new] /\ UNCHANGED <<jobs, tickets>>
        BY <2>2, <3>2, <4>1 DEF RedemptionFails
      <4> QED
        BY <4>2, <4>3, CallStepIsContract
    <3> QED
      BY <2>2, <3>1, <3>2 DEF RedemptionFails
  <2>3. CASE StartJob(c)
    <3>1. PICK new : new = [calls[c] EXCEPT !.pc = "working", !.since = now]
      OBVIOUS
    <3>2. /\ new \in Call /\ new.job = calls[c].job /\ new.token = calls[c].token
          /\ Phase(new) = Phase(calls[c])
      BY <2>1, <2>3, <3>1 DEF StartJob, Call, CallState, Phase
    <3>3. calls' = [calls EXCEPT ![c] = new] /\ UNCHANGED <<jobs, tickets>>
      BY <2>3, <3>1 DEF StartJob
    <3> QED
      BY <3>2, <3>3, CallStepIsContract
  <2>4. CASE CallRefused(c)
    <3>1. PICK new : new = [calls[c] EXCEPT !.pc = "reporting"]
      OBVIOUS
    <3>2. /\ new \in Call /\ new.job = calls[c].job /\ new.token = calls[c].token
          /\ Phase(calls[c]) = "running" /\ Phase(new) \in {"good", "bad"}
      BY <2>1, <2>4, <3>1 DEF CallRefused, Call, CallState, Phase
    <3>3. calls' = [calls EXCEPT ![c] = new] /\ UNCHANGED <<jobs, tickets>>
      BY <2>4, <3>1 DEF CallRefused
    <3> QED
      BY <3>2, <3>3, CallStepIsContract
  <2>5. ASSUME NEW b \in BOOLEAN, EndWork(c, b)
        PROVE  [Contract(j)!Next]_(Contract(j)!vars)
    <3>1. PICK new : new = [calls[c] EXCEPT !.pc = "reporting", !.ok = b]
      OBVIOUS
    <3>2. /\ new \in Call /\ new.job = calls[c].job /\ new.token = calls[c].token
          /\ Phase(calls[c]) = "running" /\ Phase(new) \in {"good", "bad"}
      BY <2>1, <2>5, <3>1 DEF EndWork, Call, CallState, Phase
    <3>3. calls' = [calls EXCEPT ![c] = new] /\ UNCHANGED <<jobs, tickets>>
      BY <2>5, <3>1 DEF EndWork
    <3> QED
      BY <3>2, <3>3, CallStepIsContract
  <2>6. CASE ReportLost(c)
    <3>1. PICK new : new = Over(calls[c])
      OBVIOUS
    <3>2. /\ new \in Call /\ new.job = calls[c].job /\ new.token = calls[c].token
          /\ Phase(new) = "over"
      BY <2>1, <3>1 DEF Over, Call, CallState, Phase
    <3>3. calls' = [calls EXCEPT ![c] = new] /\ UNCHANGED <<jobs, tickets>>
      BY <2>6, <3>1 DEF ReportLost
    <3> QED
      BY <3>2, <3>3, CallStepIsContract
  <2>7. CASE Redeem(c)
    BY <2>7, RedeemIsContract
  <2>8. ASSUME NEW b \in BOOLEAN, Report(c, b)
        PROVE  [Contract(j)!Next]_(Contract(j)!vars)
    BY <2>8, ReportIsContract
  <2> QED
    BY <1>2, <2>2, <2>3, <2>4, <2>5, <2>6, <2>7, <2>8 DEF CallStep
<1>3. ASSUME NEW i \in Identity, NEW u \in User, NEW t \in ExchangedTypes, Exchange(i, u, t)
      PROVE  [Contract(j)!Next]_(Contract(j)!vars)
  <2>1. PICK token : token = Mint(ExchangeJob, u, t)
    OBVIOUS
  <2>2. token \in Token
    BY <2>1, PullPathAssumption DEF Mint, Token, IInv, TypeOK
  <2>3. PICK new : new = [job |-> ExchangeJob, pc |-> "working", since |-> now,
                          ok |-> FALSE, token |-> token]
    OBVIOUS
  <2>4. new \in Call /\ new.job \notin Job
    BY <2>2, <2>3, PullPathAssumption DEF Call, CallState, IInv, TypeOK
  <2>5. calls' = Append(calls, new) /\ UNCHANGED <<jobs, tickets>>
    BY <1>3, <2>1, <2>3 DEF Exchange
  <2> QED
    BY <2>4, <2>5, BeginningIsContract
<1>4. CASE Tick \/ UNCHANGED vars
  <2>1. UNCHANGED <<jobs, tickets, calls>>
    BY <1>4 DEF Tick, vars
  <2>2. RunOf(j)' = RunOf(j)
    BY <2>1, RunsUntouched
  <2> QED
    BY <2>1, <2>2, RunMoves
<1> QED
  BY <1>1, <1>2, <1>3, <1>4 DEF Next

\* Before the first dispatch no job has begun or run.
LEMMA ContractBegins ==
  ASSUME Init, NEW j \in Job
  PROVE  Contract(j)!Init
<1>1. HoldersOf(j) = {} /\ jobs[j] = "absent"
  BY DEF Init, HoldersOf
<1> QED
  BY <1>1 DEF Contract!Init, RunOf, Live

\* The pull path implements JobRun for each of its jobs: the job's work is begun
\* at most once, by whoever redeemed its ticket first, and it is settled at most
\* once, as succeeded only by the report of that one run (IssueTicket,
\* RedeemTicket, handleRPC, CompleteJob) - whatever is lost, late or repeated,
\* and whatever happens to other jobs.
THEOREM KeepsTheContract == Spec => ContractKept
<1>1. Init => \A j \in Job : Contract(j)!Init
  BY ContractBegins
<1>2. IInv => RunIs
  BY RunByHolder
<1>3. RunIs /\ RunIs' /\ IInv /\ [Next]_vars =>
        [\A j \in Job : [Contract(j)!Next]_(Contract(j)!vars)]_vars
  BY StepIsContract
<1> QED
  BY <1>1, <1>2, <1>3, Inductive, PTL DEF Spec, ContractKept
===============================================================================
