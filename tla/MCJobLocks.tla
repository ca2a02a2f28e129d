----------------------------- MODULE MCJobLocks -----------------------------
(***************************************************************************)
(* The workers of the run of JobLocks are interchangeable.                 *)
(***************************************************************************)
EXTENDS JobLocks, TLC

Interchangeable == Permutations(Workers)
=============================================================================
