---------------------------- MODULE BoundedQueue ----------------------------
(***************************************************************************)
(* What the message queue of the web server promises its callers, without  *)
(* locks, condition variables or positions: a set of messages of which the *)
(* oldest leaves first, never more than capacity of them, and messages     *)
(* shed only when the queue is full and only as the overload policy says.  *)
(* A message is its arrival number; the one caller of MQPut offers the     *)
(* messages 1, 2, 3, ... MessageQueue is shown to implement this module.   *)
(***************************************************************************)
EXTENDS Integers, FiniteSets

CONSTANTS Workers,       \* the callers of MQGet
          Configs,       \* the [capacity, schedPolicy] pairs a queue is made with
          SpuriousWakeups, \* whether a wait may return unsignalled
          MallocMayFail  \* whether an allocation inside MQPut may fail

VARIABLES
  capacity,     \* the bound
  schedPolicy,  \* what happens to a message offered to a full queue
  waiting,      \* the messages in the queue
  offered,      \* the last message whose MQPut took effect
  dropped,      \* the messages that MQPut handed back to be dropped
  got           \* got[w]: the last message w took, 0 when there is none

vars == <<capacity, schedPolicy, waiting, offered, dropped, got>>

Oldest(S) == CHOOSE m \in S : \A n \in S : m <= n

Full == Cardinality(waiting) = capacity

Init ==
  /\ \E c \in Configs : capacity = c.capacity /\ schedPolicy = c.schedPolicy
  /\ waiting = {}
  /\ offered = 0
  /\ dropped = {}
  /\ got = [w \in Workers |-> 0]

(* The sets of messages that may be shed to deal with message m. *)
Victims(m) ==
  CASE schedPolicy = "DROP_TAIL"   -> {{m}}
    [] schedPolicy = "DROP_HEAD"   -> {{Oldest(waiting)}}
    [] schedPolicy = "DROP_RANDOM" ->
         {D \in SUBSET waiting : D # {} /\ Cardinality(D) = capacity \div 4}
    [] OTHER                       -> {}

(* The one queue that promises no bound: see MessageQueue!Bounded. *)
Unbounded == SpuriousWakeups /\ schedPolicy = "DROP_RANDOM" /\ capacity < 4

Admit(m) ==
  /\ Cardinality(waiting) < capacity \/ Unbounded
  /\ waiting' = waiting \union {m}
  /\ dropped' = {}

Shed(m) ==
  /\ Full
  /\ \E D \in Victims(m) :
       /\ dropped' = D
       /\ waiting' = (waiting \union {m}) \ D

Fail ==
  /\ MallocMayFail
  /\ dropped' = {}
  /\ UNCHANGED waiting

Put ==
  /\ offered' = offered + 1
  /\ Admit(offered + 1) \/ Shed(offered + 1) \/ Fail
  /\ UNCHANGED <<capacity, schedPolicy, got>>

Get(w) ==
  /\ waiting # {}
  /\ got' = [got EXCEPT ![w] = Oldest(waiting)]
  /\ waiting' = waiting \ {Oldest(waiting)}
  /\ UNCHANGED <<capacity, schedPolicy, offered, dropped>>

Next == Put \/ \E w \in Workers : Get(w)

Spec == Init /\ [][Next]_vars
=============================================================================
