------------------------------ MODULE MCAgent -------------------------------
(***************************************************************************)
(* A small job for the run of Agent: one input sample, one strict example  *)
(* whose registered result may be the wrong one, one generated test, and   *)
(* three sources.                                                          *)
(***************************************************************************)
EXTENDS Agent

CONSTANTS sample, example, generated

MCOriginal == [e \in Examples |-> 0]

\* What the three sources give on the sample, the example and the test: one is
\* right for the example as registered, one for its correction, and one fails
\* on the sample.
MCSources ==
  {[c \in Checks |-> IF c = example THEN 0 ELSE 1],
   [c \in Checks |-> 1],
   [c \in Checks |-> 0]}
=============================================================================
