--------------------------- MODULE MCMessageQueue ---------------------------
(***************************************************************************)
(* Instances of MessageQueue for TLC.                                      *)
(***************************************************************************)
EXTENDS MessageQueue, TLC

(* Every policy with a queue of one message and with a longer one; random  *)
(* drops nothing below 4, one message from 4 on and two from 8 on.         *)
MCAllConfigs ==
  [capacity : {1, 2}, schedPolicy : Policies]
    \union [capacity : {4, 8}, schedPolicy : {"DROP_RANDOM"}]

MCSymmetry == Permutations(Workers)
=============================================================================
