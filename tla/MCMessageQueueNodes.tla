------------------------ MODULE MCMessageQueueNodes -------------------------
(***************************************************************************)
(* Instances of MessageQueueNodes for TLC.                                 *)
(***************************************************************************)
EXTENDS MessageQueueNodes

(* Random drops that drop one node, and two, which can be neighbours. *)
MCConfigs ==
  [capacity : {1, 2}, schedPolicy : Policies]
    \union [capacity : {4, 8}, schedPolicy : {"DROP_RANDOM"}]
=============================================================================
