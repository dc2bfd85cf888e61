-------------------------- MODULE MCProcessWeights --------------------------
(***************************************************************************)
(* An instance of ProcessWeights for TLC: init and three more processes,   *)
(* with weights that can tie, and one that is refused.                     *)
(***************************************************************************)
EXTENDS ProcessWeights

MCWeights == -1 .. 1
=============================================================================
