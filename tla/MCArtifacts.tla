---------------------------- MODULE MCArtifacts ----------------------------
(***************************************************************************)
(* Values for the runs of Artifacts: two registrations of one tool, which  *)
(* can produce the same artifact dShared, and two artifacts that differ in *)
(* their tests but not in their source.                                    *)
(***************************************************************************)
EXTENDS Artifacts

CONSTANTS j1, j2, dShared, dOwn, s1

OneSource == [d \in Digests |-> s1]
SameTool == [j \in Jobs |-> IF j = j1 THEN {dShared, dOwn} ELSE {dShared}]
=============================================================================
