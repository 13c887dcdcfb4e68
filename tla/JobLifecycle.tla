---------------------------- MODULE JobLifecycle ----------------------------
(***************************************************************************)
(* What the evaluation service promises about one job, without workers,    *)
(* heartbeats or Redis: it is submitted, started at most MaxAttempts       *)
(* times, its progress only grows, an attempt that does not finish gives   *)
(* the job back or up, and its final state is final.                       *)
(***************************************************************************)
EXTENDS Naturals

CONSTANTS MaxAttempts, NumCases,
          NoRun, Run,   \* no run yet, and the run evaluating this job gives
          Clean         \* that run has no failed case

VARIABLES status, attempt_count, cancel_requested, completed_case_count, run

vars == <<status, attempt_count, cancel_requested, completed_case_count, run>>

Init == /\ status = "ABSENT"
        /\ attempt_count = 0
        /\ cancel_requested = FALSE
        /\ completed_case_count = 0
        /\ run = NoRun

Submit == /\ status = "ABSENT" /\ status' = "QUEUED"
          /\ UNCHANGED <<attempt_count, cancel_requested, completed_case_count, run>>

\* The user cancels: at once when queued, through the flag when running.
Cancel == /\ status \in {"QUEUED", "RUNNING"}
          /\ cancel_requested' = TRUE
          /\ status' = IF status = "QUEUED" THEN "CANCELLED" ELSE status
          /\ UNCHANGED <<attempt_count, completed_case_count, run>>

\* A new attempt, only of a job nobody cancelled and within its budget.
Start == /\ status = "QUEUED" /\ ~cancel_requested /\ attempt_count < MaxAttempts
         /\ status' = "RUNNING"
         /\ attempt_count' = attempt_count + 1
         /\ UNCHANGED <<cancel_requested, completed_case_count, run>>

Advance == /\ status = "RUNNING"
           /\ completed_case_count' \in (completed_case_count + 1)..NumCases
           /\ UNCHANGED <<status, attempt_count, cancel_requested, run>>

\* The attempt failed or its worker is gone, and another one is left.
GiveBack == /\ status = "RUNNING" /\ attempt_count < MaxAttempts
            /\ status' = "QUEUED"
            /\ UNCHANGED <<attempt_count, cancel_requested, completed_case_count, run>>

GiveUp == /\ status = "RUNNING" /\ attempt_count = MaxAttempts
          /\ status' = "FAILED"
          /\ UNCHANGED <<attempt_count, cancel_requested, completed_case_count, run>>

Finish == /\ status = "RUNNING"
          /\ status' = IF Clean THEN "COMPLETED" ELSE "COMPLETED_WITH_ERRORS"
          /\ run' = Run
          /\ completed_case_count' = NumCases
          /\ UNCHANGED <<attempt_count, cancel_requested>>

\* The cancellation of a job that was running takes effect.
Stop == /\ status \in {"QUEUED", "RUNNING"} /\ cancel_requested
        /\ status' = "CANCELLED"
        /\ UNCHANGED <<attempt_count, cancel_requested, completed_case_count, run>>

Next == Submit \/ Cancel \/ Start \/ Advance \/ GiveBack \/ GiveUp \/ Finish \/ Stop

Spec == Init /\ [][Next]_vars
=============================================================================
