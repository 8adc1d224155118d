------------------------------ MODULE KeyedJobs ------------------------------
(***************************************************************************)
(* What the orchestrator promises its callers, with the queue, the worker  *)
(* pool, the launchers and the goroutines left out: a table of jobs, each  *)
(* about one key (acting user, job type and, for a per-item job, the       *)
(* item), of which at most one per key is live.  A request for a key that  *)
(* has a live job changes nothing; any other request is admitted, or is    *)
(* refused and leaves a failed record; a live job settles once, and does   *)
(* settle; after Close nothing is admitted.                                *)
(*                                                                         *)
(* Orchestrator implements this module (Orchestrator!Promise).             *)
(***************************************************************************)

CONSTANTS Key,    \* what a job can be about
          NoKey,  \* the key of an unused entry of the table
          JobId   \* the ids of the jobs

VARIABLES accepting,  \* requests are still taken
          status,     \* JobId -> where the job is in its life
          subject     \* JobId -> the key the job is about

vars == <<accepting, status, subject>>

Status == {"unused", "live", "succeeded", "failed"}

Settled(j) == status[j] \in {"succeeded", "failed"}

HasLiveJob(k) == \E j \in JobId : status[j] = "live" /\ subject[j] = k

Init ==
    /\ accepting = TRUE
    /\ status = [j \in JobId |-> "unused"]
    /\ subject = [j \in JobId |-> NoKey]

\* The table takes a new entry for k: live when admitted, failed when refused.
Record(j, k, s) ==
    /\ accepting
    /\ status[j] = "unused"
    /\ ~HasLiveJob(k)
    /\ status' = [status EXCEPT ![j] = s]
    /\ subject' = [subject EXCEPT ![j] = k]
    /\ UNCHANGED accepting

Admit(j, k) == Record(j, k, "live")

Refuse(j, k) == Record(j, k, "failed")

Settle(j) ==
    /\ status[j] = "live"
    /\ \E s \in {"succeeded", "failed"} : status' = [status EXCEPT ![j] = s]
    /\ UNCHANGED <<accepting, subject>>

Close ==
    /\ accepting
    /\ accepting' = FALSE
    /\ UNCHANGED <<status, subject>>

Next ==
    \/ \E j \in JobId, k \in Key : Admit(j, k) \/ Refuse(j, k)
    \/ \E j \in JobId : Settle(j)
    \/ Close

\* The part of the promise that a finite prefix of a run can break.
SafetySpec == Init /\ [][Next]_vars

\* The whole promise: a live job does not stay live for ever.
Spec == SafetySpec /\ \A j \in JobId : WF_vars(Settle(j))
=============================================================================
