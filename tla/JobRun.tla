-------------------------------- MODULE JobRun --------------------------------
(***************************************************************************)
(* What the two ends of one job agree on: the orchestrator, which keeps    *)
(* the job's status, and the runtime elsewhere that does the job's work.   *)
(* The work is done at most once, whoever asks for it how often, perhaps   *)
(* after the job has been given up; and the job is settled once, as        *)
(* succeeded only if that one run ended well and its end was heard of.     *)
(*                                                                         *)
(* Orchestrator implements this module for each job of an asynchronous     *)
(* launcher (Orchestrator!Contract), with the way to the runtime and back  *)
(* taken as given, and PullPath for each dispatched job, with that way in  *)
(* full (PullPath!Contract).                                               *)
(***************************************************************************)

VARIABLES status,  \* where the job is in its life
          run      \* how far its one run is; "over": nothing can be heard of it

vars == <<status, run>>

Init ==
    /\ status = "absent"
    /\ run = "free"

\* The orchestrator takes the job on.
Begin ==
    /\ status = "absent"
    /\ status' = "live"
    /\ UNCHANGED run

\* It has no room for the job.
Refuse ==
    /\ status = "absent"
    /\ status' = "failed"
    /\ run' = "over"

\* The one permission to do the work is taken.
Start ==
    /\ status # "absent"
    /\ run = "free"
    /\ run' = "running"
    /\ UNCHANGED status

\* The work ends, well or badly.
End ==
    /\ run = "running"
    /\ run' \in {"good", "bad"}
    /\ UNCHANGED status

\* Permission, work or news of its end is lost for good.
Lose ==
    /\ status # "absent"
    /\ run' = "over"
    /\ UNCHANGED status

Succeed ==
    /\ status = "live" /\ run = "good"
    /\ status' = "succeeded"
    /\ run' \in {run, "over"}

\* For a run that ended badly, or for any reason of the orchestrator's own.
Fail ==
    /\ status = "live"
    /\ status' = "failed"
    /\ run' \in {run, "over"}

Next == Begin \/ Refuse \/ Start \/ End \/ Lose \/ Succeed \/ Fail

Spec == Init /\ [][Next]_vars
===============================================================================
