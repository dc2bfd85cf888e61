--------------------------- MODULE ProcessWeights ---------------------------
(***************************************************************************)
(* The system calls of HW2/kernel/hw2.c over the tree of processes.        *)
(*                                                                         *)
(* set_weight touches one field and is one step.  The two calls that walk  *)
(* the tree, get_children_sum down the lists of children and               *)
(* get_heaviest_ancestor up the chain of parents, hold no lock while they  *)
(* walk: one turn of their loops is one step, and on the other processors  *)
(* processes fork, exit, are waited for and set their weights in between.  *)
(* Both calls only read, so one call in progress shows all that can happen *)
(* to it.                                                                  *)
(*                                                                         *)
(* The tree itself is the kernel's (external).  A process that has exited  *)
(* stays in its parent's list until the parent waits for it; the kernel    *)
(* then unlinks it, but its record stays readable for a walk under way.    *)
(* The children of a process that exits go to the end of init's list.      *)
(***************************************************************************)
EXTENDS Integers, Sequences, SequencesExt, FiniteSetsExt

CONSTANTS
  MaxPid,   \* bound: pids are 0 (the idle task, parent of init) to MaxPid
  Weights   \* the values given to set_weight, negative ones included

Swapper == 0
init_pid == 1
Pids == Swapper .. MaxPid
Values == {w \in Weights : w >= 0} \union {0}

ASSUME WeightsAssumption ==
  /\ MaxPid \in Nat \ {0}
  /\ Weights \subseteq Int

VARIABLES
  state,        \* state[p]: unused, alive, zombie or released
  real_parent,  \* real_parent[p], a field of task_struct
  children,     \* children[p]: the list of p's children, oldest first
  weight,       \* weight[p], the field that HW2 adds
  call,         \* the system call in progress
  kept,         \* history: who was an ancestor, or descendant, of its caller all along
  seen,         \* history: the <<pid, weight>> pairs there were during it
  disturbed     \* history: a process was taken off some list during the call

tree == <<state, real_parent, children>>
history == <<kept, seen, disturbed>>
vars == <<tree, weight, call, history>>

Idle == [name |-> "none"]

Init ==
  /\ state = [p \in Pids |-> IF p <= init_pid THEN "alive" ELSE "unused"]
  /\ real_parent = [p \in Pids |-> Swapper]
  /\ children = [p \in Pids |-> IF p = Swapper THEN <<init_pid>> ELSE <<>>]
  /\ weight = [p \in Pids |-> 0]
  /\ call = Idle
  /\ kept = {}
  /\ seen = {}
  /\ disturbed = FALSE

-----------------------------------------------------------------------------
(* The tree.                                                               *)

Members(f) == ToSet(children[f])

Alive(p) == state[p] = "alive"

(* The processes on the way from p up to the idle task, p included. *)
AncestorsOf(p, parent) ==
  LET up[q \in Pids] == {q} \union (IF q = Swapper THEN {} ELSE up[parent[q]])
  IN up[p]

(* The processes below p: those on whose way up p is and that are listed. *)
DescendantsOf(p, parent, list) ==
  {q \in Pids \ {p, Swapper} :
     /\ p \in AncestorsOf(q, parent)
     /\ \A r \in AncestorsOf(q, parent) \ AncestorsOf(p, parent) :
          r \in ToSet(list[parent[r]])}

Relatives(name, p, parent, list) ==
  IF name \in {"sum", "summed", "lost"} THEN DescendantsOf(p, parent, list)
  ELSE AncestorsOf(p, parent) \ {Swapper}

(* From the start of a walk until the caller has its result. *)
InCall == call.name \in {"sum", "summed", "lost", "heaviest", "found"}

(* What a change of the tree means for the call in progress. *)
Observe(unlinked) ==
  IF InCall
    THEN /\ kept' = kept \intersect
                     Relatives(call.name, call.caller, real_parent', children')
         /\ disturbed' = (disturbed \/ unlinked)
    ELSE UNCHANGED <<kept, disturbed>>

ObserveWeight(p, w) ==
  seen' = IF InCall THEN seen \union {<<p, w>>} ELSE seen

(* A child starts with a copy of its parent's task_struct, so of its weight. *)
Fork(p) == \E c \in Pids :
  /\ Alive(p) /\ p # Swapper
  /\ state[c] = "unused" /\ \A q \in Pids : q < c => state[q] # "unused"
  /\ state' = [state EXCEPT ![c] = "alive"]
  /\ real_parent' = [real_parent EXCEPT ![c] = p]
  /\ children' = [children EXCEPT ![p] = Append(@, c)]
  /\ weight' = [weight EXCEPT ![c] = weight[p]]
  /\ ObserveWeight(c, weight[p])
  /\ Observe(FALSE)
  /\ UNCHANGED call

Exit(p) ==
  /\ Alive(p) /\ p > init_pid
  /\ InCall => p # call.caller
  /\ state' = [state EXCEPT ![p] = "zombie"]
  /\ real_parent' = [q \in Pids |-> IF q \in Members(p) THEN init_pid ELSE real_parent[q]]
  /\ children' = [children EXCEPT ![p] = <<>>, ![init_pid] = @ \o children[p]]
  /\ Observe(children[p] # <<>>)
  /\ UNCHANGED <<weight, call, seen>>

(* p waits for its i-th child, or ignores SIGCHLD and the kernel does it   *)
(* for p, also while p is in a call.  The pid is not used again.           *)
Wait(p) == \E i \in DOMAIN children[p] :
  /\ Alive(p) /\ state[children[p][i]] = "zombie"
  /\ state' = [state EXCEPT ![children[p][i]] = "released"]
  /\ children' = [children EXCEPT ![p] = RemoveAt(@, i)]
  /\ UNCHANGED <<real_parent, weight, call, seen>>
  /\ Observe(TRUE)

-----------------------------------------------------------------------------
(* set_weight.  A negative weight is refused (-EINVAL) and changes nothing. *)

(* Slip: the test of the sign is missing. *)
BugSetAnyWeight(p, w) ==
  /\ Alive(p) /\ p # Swapper
  /\ InCall => p # call.caller
  /\ weight' = [weight EXCEPT ![p] = w]
  /\ ObserveWeight(p, w)
  /\ UNCHANGED <<tree, call, kept, disturbed>>

sys_set_weight(p, w) ==
  /\ Alive(p) /\ p # Swapper
  /\ InCall => p # call.caller
  /\ w >= 0
  /\ weight' = [weight EXCEPT ![p] = w]
  /\ ObserveWeight(p, w)
  /\ UNCHANGED <<tree, call, kept, disturbed>>

-----------------------------------------------------------------------------
(* get_children_sum.  The recursion stands at the process Last(path), each *)
(* member of path being a child of the one before.  It first goes down     *)
(* into the children of that process and then, on its way up, adds the     *)
(* process and moves on to its next sibling.                               *)

Begin(p, c) ==
  /\ Alive(p) /\ p # Swapper
  /\ call = Idle
  /\ call' = c
  /\ kept' = Relatives(c.name, p, real_parent, children)
  /\ seen' = {<<q, weight[q]>> : q \in {r \in Pids : state[r] # "unused"}}
  /\ disturbed' = FALSE
  /\ UNCHANGED <<tree, weight>>

sys_get_children_sum(p) ==
  /\ children[p] # <<>>
  /\ Begin(p, [name |-> "sum", caller |-> p, path |-> <<Head(children[p])>>,
               down |-> TRUE, total |-> 0])

(* The call fails with -ECHILD; it returns at once. *)
NoChildren(p) ==
  /\ Alive(p) /\ p # Swapper
  /\ call = Idle
  /\ children[p] = <<>>
  /\ call' = [name |-> "childless", caller |-> p]
  /\ UNCHANGED <<tree, weight, history>>

SumDown ==
  /\ call.name = "sum"
  /\ call.down
  /\ LET first == children[Last(call.path)] IN
     call' = IF first = <<>> THEN [call EXCEPT !.down = FALSE]
             ELSE [call EXCEPT !.path = Append(@, Head(first))]
  /\ UNCHANGED <<tree, weight, history>>

Father == IF Len(call.path) = 1 THEN call.caller ELSE call.path[Len(call.path) - 1]

(* Slip: the weight of the father is added in the place of the child's. *)
BugAddFather == call.total + weight[Father]

Added == call.total + weight[Last(call.path)]

(* Slip: the loop does not advance. *)
BugSameAgain(siblings, task) == SelectInSeq(siblings, LAMBDA q : q = task)

NextPos(siblings, task) == SelectInSeq(siblings, LAMBDA q : q = task) + 1

(* The last child of a list leads back to its father, and in the end to    *)
(* the return.                                                             *)
SumUp ==
  /\ call.name = "sum"
  /\ ~call.down
  /\ Last(call.path) \in Members(Father)
  /\ LET task == Last(call.path)
         siblings == children[Father]
         next == NextPos(siblings, task)
     IN call' = IF next <= Len(siblings)
                  THEN [call EXCEPT !.path = Append(Front(@), siblings[next]),
                                    !.down = TRUE, !.total = Added]
                ELSE IF Len(call.path) = 1
                  THEN [name |-> "summed", caller |-> call.caller, total |-> Added]
                ELSE [call EXCEPT !.path = Front(@), !.total = Added]
  /\ UNCHANGED <<tree, weight, history>>

(* The process the loop stands at is in this list no longer.  Taken out by *)
(* a wait it points to itself, moved by an exit it leads into init's list  *)
(* and past that list's head, to what is no process.  The loop goes on     *)
(* without meeting the end it looks for: the call stays lost, its caller   *)
(* stays in the kernel and the turns from here on are stutters.            *)
SumLost ==
  /\ call.name = "sum"
  /\ ~call.down
  /\ Last(call.path) \notin Members(Father)
  /\ call' = [name |-> "lost", caller |-> call.caller]
  /\ UNCHANGED <<tree, weight, history>>

-----------------------------------------------------------------------------
(* get_heaviest_ancestor.                                                  *)

sys_get_heaviest_ancestor(p) ==
  Begin(p, [name |-> "heaviest", caller |-> p, current_task |-> p,
            max_pid |-> p, max_weight |-> weight[p]])

(* Slip: the comparison is turned round. *)
BugLighter(w, max_weight) == w < max_weight

IsHeavier(w, max_weight) == w > max_weight

IsInit(task) == task = init_pid

(* One turn of the loop: one parent up, and the end of the call at init. *)
Climb ==
  /\ call.name = "heaviest"
  /\ LET task == real_parent[call.current_task]
         heavier == IsHeavier(weight[task], call.max_weight)
         max_pid == IF heavier THEN task ELSE call.max_pid
         max_weight == IF heavier THEN weight[task] ELSE call.max_weight
     IN call' = IF IsInit(task)
                  THEN [name |-> "found", caller |-> call.caller,
                        max_pid |-> max_pid, max_weight |-> max_weight]
                ELSE [call EXCEPT !.current_task = task, !.max_pid = max_pid,
                                  !.max_weight = max_weight]
  /\ UNCHANGED <<tree, weight, history>>

-----------------------------------------------------------------------------
Returned == call.name \in {"childless", "summed", "found"}

Return ==
  /\ Returned
  /\ call' = Idle
  /\ kept' = {} /\ seen' = {} /\ disturbed' = FALSE
  /\ UNCHANGED <<tree, weight>>

Walk == SumDown \/ SumUp \/ SumLost \/ Climb

Next ==
  \/ \E p \in Pids :
       \/ Fork(p) \/ Exit(p) \/ Wait(p)
       \/ \E w \in Weights : sys_set_weight(p, w)
       \/ sys_get_children_sum(p) \/ NoChildren(p)
       \/ sys_get_heaviest_ancestor(p)
  \/ Walk
  \/ Return

(* A processor that runs a system call goes on with it. *)
Spec == Init /\ [][Next]_vars /\ WF_vars(Walk)

-----------------------------------------------------------------------------
(* Properties.                                                             *)

Calls ==
  {Idle} \union
  [name : {"childless", "lost"}, caller : Pids] \union
  [name : {"summed"}, caller : Pids, total : Nat] \union
  [name : {"sum"}, caller : Pids, path : Seq(Pids), down : BOOLEAN, total : Nat]
  \union
  [name : {"heaviest"}, caller : Pids, current_task : Pids, max_pid : Pids,
   max_weight : Values] \union
  [name : {"found"}, caller : Pids, max_pid : Pids, max_weight : Values]

TypeOK ==
  /\ state \in [Pids -> {"unused", "alive", "zombie", "released"}]
  /\ real_parent \in [Pids -> Pids]
  /\ children \in [Pids -> Seq(Pids)]
  /\ weight \in [Pids -> Values]
  /\ call \in Calls
  /\ kept \subseteq Pids
  /\ seen \subseteq Pids \X Values
  /\ disturbed \in BOOLEAN

WeightsOf(p) == {s[2] : s \in {t \in seen : t[1] = p}}

(* get_children_sum adds up the descendants of its caller, each one once,  *)
(* with a weight it had during the call; one that was born during the call *)
(* may count or not.  It goes astray only if, during the call, a process   *)
(* with children exits or a process is waited for, anywhere in the tree.   *)
SumIsOfDescendants ==
  /\ call.name = "summed" /\ ~disturbed =>
       /\ SumFunction([p \in kept |-> Min(WeightsOf(p))]) <= call.total
       /\ call.total <=
            SumFunction([p \in DescendantsOf(call.caller, real_parent, children) |->
                           Max(WeightsOf(p))])
  /\ call.name = "lost" => disturbed

(* get_heaviest_ancestor returns a process with a weight it had during the *)
(* call, and no process that was an ancestor of the caller (or the caller) *)
(* all along was heavier throughout, whoever exits, forks or changes its   *)
(* weight between two turns of the loop.  Of equals it may be any: the     *)
(* code keeps the youngest, test_weight.cxx:255 expects the oldest.        *)
HeaviestIsFound == call.name = "found" =>
  /\ <<call.max_pid, call.max_weight>> \in seen
  /\ \A p \in kept : Min(WeightsOf(p)) <= call.max_weight

(* A walk up ends, for every caller but init itself: the parent of init is *)
(* its own parent and the loop looks for a pid that is not on its way.     *)
HeaviestReturns ==
  (call.name = "heaviest" /\ call.caller # init_pid) ~> call.name = "found"

(* A walk down ends with its sum, whatever is forked below it, unless a    *)
(* process is taken off a list during the call.                            *)
SumReturns == call.name = "sum" ~> (call.name = "summed" \/ disturbed)

(* Both calls return to their callers, under the two conditions above: for *)
(* get_heaviest_ancestor in init and for a sum over a list that loses a    *)
(* process nothing is promised, and a lost sum never returns.              *)
CallsReturn == HeaviestReturns /\ SumReturns
=============================================================================
