------------------------------ MODULE MCSmash ------------------------------
(***************************************************************************)
(* Instances of Smash for TLC.  Processes are numbers, so that 0 is none.  *)
(***************************************************************************)
EXTENDS Smash

MCTwo == 1 .. 2
MCThree == 1 .. 3
=============================================================================
