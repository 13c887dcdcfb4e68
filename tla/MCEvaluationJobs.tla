-------------------------- MODULE MCEvaluationJobs --------------------------
(***************************************************************************)
(* Small instances of EvaluationJobs.                                      *)
(***************************************************************************)
EXTENDS EvaluationJobs, TLC

CONSTANTS j1, r1, r2, b1, b2, run1

\* One job, asked for twice, with different bodies.
OneKey == r1 :> j1 @@ r2 :> j1
OtherBody == r1 :> b1 @@ r2 :> b2

\* One request for one job.
SoleKey == r1 :> j1
SoleBody == r1 :> b1
SoleRun == j1 :> run1

WorkerSymmetry == Permutations(Workers)
=============================================================================
