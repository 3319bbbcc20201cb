------------------------------- MODULE MCPublish -------------------------------
(***************************************************************************)
(* Three publishers and two renderings, four runs in all, so that one may  *)
(* come back after a failure of the others; three faults allow a failed    *)
(* rename, a failed rollback and a crash.                                  *)
(***************************************************************************)
EXTENDS Publish, TLC

Interchangeable == Permutations(Procs) \cup Permutations(Versions)
=============================================================================
