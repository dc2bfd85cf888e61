---------------------------- MODULE MCWebServer ----------------------------
(***************************************************************************)
(* Instances of WebServer for TLC.                                         *)
(***************************************************************************)
EXTENDS WebServer, TLC

MCPolicies == {"BLOCK", "DROP_TAIL", "DROP_HEAD", "DROP_RANDOM"}

(* Two workers and every client: every policy, with a queue that is full   *)
(* at once and with one that is not.  One worker and clients that are      *)
(* always answered: random drops that drop, and a queue that needs the     *)
(* whole table of descriptors.                                             *)
Config(c, policy, threads, n, kinds) ==
  [capacity |-> c, schedPolicy |-> policy, threadPoolSize |-> threads,
   clients |-> n, requests |-> kinds]

MCConfigs ==
  {Config(c, p, 2, c + 2, RequestKinds) : c \in {1, 2}, p \in MCPolicies}
    \union
  {Config(4, "DROP_RANDOM", 1, 6, {"static", "dynamic"}),
   Config(3, "BLOCK", 1, 6, {"static", "dynamic"})}

MCOneSlotConfigs ==
  {Config(1, p, 2, 4, {"dynamic", "stalls"}) : p \in MCPolicies}

MCFds == 1 .. 6

MCSymmetry == Permutations(Workers)
=============================================================================
