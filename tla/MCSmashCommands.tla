-------------------------- MODULE MCSmashCommands ---------------------------
(***************************************************************************)
(* Instances of SmashCommands for TLC.                                     *)
(***************************************************************************)
EXTENDS SmashCommands

(* Each way to run a command, alone and inside the others. *)
MCLines ==
  {<<"run", "&">>,
   <<"run", "&", "|", "reader">>,
   <<"run", "|", "reader", "&">>,
   <<"|", "reader">>,
   <<"|", "reader", "|">>,
   <<"run", ">", "f">>,
   <<"run", "&", ">", "f">>,
   <<"run", ">", "f", "&">>,
   <<"cat", "directory", ">", "f">>,
   <<"cd", "removed">>,
   <<"cd", "-">>,
   <<"quit", ">", "f">>}

MCPids == 1 .. 8
MCFds == 0 .. 5
MCInherited == {0}
=============================================================================
