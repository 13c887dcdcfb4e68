---------------------------- MODULE MCRunImport -----------------------------
(***************************************************************************)
(* Small instances of RunImport.                                           *)
(***************************************************************************)
EXTENDS RunImport, TLC

CONSTANTS r1, r2, v, p1, p2, x, y, z

\* Two artifacts of one run id, and the artifact of a run that an earlier
\* release stored.
TheRunId == x :> r1 @@ y :> r1 @@ z :> r2
TheVersion == r1 :> v @@ r2 :> v
OldRun == r2 :> [bytes |-> z, project |-> p2, uri |-> FileUri, evidence |-> NumEvidence]

\* One artifact in two projects, other bytes in the first, the old run in its own.
TheImports == {<<p1, x>>, <<p2, x>>, <<p1, y>>, <<p2, z>>}
Doubtful == {<<p1, y>>, <<p2, z>>}
=============================================================================
