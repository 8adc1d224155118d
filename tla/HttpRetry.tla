------------------------------ MODULE HttpRetry ------------------------------
(***************************************************************************)
(* The retry transport of package httpretry: one request at a time, sent   *)
(* again after a failure that is worth it, on one of two budgets.          *)
(*                                                                         *)
(* A try is one step of the network and the server.  Only its outcome is   *)
(* seen by the client; whether the server carried the request out is not.  *)
(* How long a wait lasts is left out: a wait ends, or the context ends it. *)
(***************************************************************************)
EXTENDS Naturals

CONSTANTS Operation,  \* what requests ask for
          GetRequest, \* those whose method is GET
          Attempts,   \* the transient budget, in tries
          RLAttempts  \* the patient budget, in tries

ASSUME HttpRetryAssumption ==
    /\ GetRequest \subseteq Operation
    /\ Attempts \in Nat /\ RLAttempts \in Nat

\* What a try comes to: status 200; 429, 502 or 503; 504; another status; no
\* connection was made (DNS, dial); or any other error, a timeout included.
Outcome == {"ok", "busy", "gatewayTimeout", "refused", "unreached", "broken"}

\* What RoundTrip may return: an outcome, or the error of an ended context.
Returned == Outcome \union {"cut"}

VARIABLES
    http,      \* the request in hand: its phase, how it ended, what is left
               \* of either budget
    performed, \* how often the server has carried it out
    hidden,    \* how many of those a busy answer hid
    tries      \* how many retryable failures it met, by kind

httpVars == <<http, performed, hidden, tries>>

\* mutant: an ambiguous failure is retried whatever the method
ShouldRetryAny(op, outcome) ==
    outcome \in {"busy", "unreached", "gatewayTimeout", "broken"}

\* What never reached the server, or was turned away, may be repeated; what may
\* have been carried out only if repeating it does no harm.
ShouldRetry(op, outcome) ==
    \/ outcome \in {"busy", "unreached"}
    \/ outcome \in {"gatewayTimeout", "broken"} /\ op \in GetRequest

\* mutant: one budget for everything
OneBudget(outcome) == "transient"

\* isUnavailable chooses the budget.
BudgetFor(outcome) == IF outcome = "busy" THEN "rateLimit" ELSE "transient"

\* A budget of n tries allows n - 1 repetitions, and at least one try is made.
Repeats(n) == IF n = 0 THEN 0 ELSE n - 1

HttpInit ==
    /\ http = [pc |-> "idle", op |-> "none", result |-> "none",
               left |-> [transient |-> 0, rateLimit |-> 0]]
    /\ performed = 0 /\ hidden = 0
    /\ tries = [transient |-> 0, rateLimit |-> 0]

\* Client.Do hands the request to the transport.
Send(op) ==
    /\ http.pc = "idle"
    /\ http' = [pc |-> "sent", op |-> op, result |-> "none",
                left |-> [transient |-> Repeats(Attempts),
                          rateLimit |-> Repeats(RLAttempts)]]
    /\ performed' = 0 /\ hidden' = 0
    /\ tries' = [transient |-> 0, rateLimit |-> 0]

\* Whether the server may (not) have carried out a try that ended so.  A 502 is
\* a gateway's word, and the server behind it may have done the work.
MayHaveRun(outcome, ran) ==
    CASE outcome = "ok"                     -> ran
      [] outcome \in {"refused", "unreached"} -> ~ran
      [] OTHER                              -> TRUE

\* mutant: the budget is spent but never found empty
AgainForever(outcome) == ShouldRetry(http.op, outcome)

Again(outcome) ==
    ShouldRetry(http.op, outcome) /\ http.left[BudgetFor(outcome)] > 0

\* A try ends: its result is returned, or the request will be sent again.
Try(outcome, ran) ==
    LET kind == IF outcome = "busy" THEN "rateLimit" ELSE "transient"
    IN  /\ http.pc = "sent"
        /\ MayHaveRun(outcome, ran)
        /\ performed' = performed + (IF ran THEN 1 ELSE 0)
        /\ hidden' = hidden + (IF ran /\ outcome = "busy" THEN 1 ELSE 0)
        /\ tries' = IF ShouldRetry(http.op, outcome)
                    THEN [tries EXCEPT ![kind] = @ + 1] ELSE tries
        /\ http' = IF Again(outcome)
                   THEN [http EXCEPT !.pc = "waiting",
                                     !.left[BudgetFor(outcome)] = @ - 1]
                   ELSE [http EXCEPT !.pc = "returned", !.result = outcome]

\* The wait is over; the body was rewound before it.
SendAgain ==
    /\ http.pc = "waiting"
    /\ http' = [http EXCEPT !.pc = "sent"]
    /\ UNCHANGED <<performed, hidden, tries>>

\* The client's timeout, or the job's context, ends the wait.
WaitCut ==
    /\ http.pc = "waiting"
    /\ http' = [http EXCEPT !.pc = "returned", !.result = "cut"]
    /\ UNCHANGED <<performed, hidden, tries>>

\* The caller takes the result.
Take(op) ==
    /\ http.pc = "returned" /\ http.op = op
    /\ http' = [http EXCEPT !.pc = "idle"]
    /\ UNCHANGED <<performed, hidden, tries>>

HttpTypeOK ==
    /\ http \in [pc : {"idle", "sent", "waiting", "returned"},
                 op : Operation \union {"none"},
                 result : Returned \union {"none"},
                 left : [{"transient", "rateLimit"} -> Nat]]
    /\ performed \in Nat /\ hidden \in 0..performed
    /\ tries \in [{"transient", "rateLimit"} -> Nat]

-----------------------------------------------------------------------------
(***************************************************************************)
(* What the transport promises                                             *)
(***************************************************************************)

\* The server carries out a request that is not a GET at most once, the tries
\* that a busy answer hid apart: a retry never repeats a write on an ambiguous
\* failure (shouldRetry, isConnectionError).
AtMostOnce ==
    http.op \notin GetRequest => performed <= 1 + hidden

\* The two budgets do not eat each other (RoundTrip): neither is overrun, and a
\* failure that is worth a retry is handed to the caller only when all the
\* tries for its own kind have met it.
BudgetsSeparate ==
    LET Allowed(n) == Repeats(n) + 1
    IN  /\ tries.transient <= Allowed(Attempts)
        /\ tries.rateLimit <= Allowed(RLAttempts)
        /\ http.pc = "returned" /\ http.result = "busy"
             => tries.rateLimit = Allowed(RLAttempts)
        /\ (/\ http.pc = "returned"
            /\ http.result \in Outcome \ {"busy"}
            /\ ShouldRetry(http.op, http.result))
             => tries.transient = Allowed(Attempts)
=============================================================================
