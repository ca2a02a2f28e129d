----------------------------- MODULE MCRegistry -----------------------------
(***************************************************************************)
(* Model values and symmetry for the runs of Registry.                     *)
(***************************************************************************)
EXTENDS RegistryLife, TLC

CONSTANTS w1, w2

\* Worker ids are interchangeable: no action names one.
WorkerSymmetry == Permutations({w1, w2})
=============================================================================
