---------------------------- MODULE MessageQueue ----------------------------
(***************************************************************************)
(* The monitor of HW3/message_queue.c: a linked list under one mutex, with *)
(* the condition variables cond_get (a producer waits until something was  *)
(* taken) and cond_put (a consumer waits until something was put).         *)
(*                                                                         *)
(* The mutex makes everything between pthread_mutex_lock and the next      *)
(* pthread_cond_wait or pthread_mutex_unlock one atomic step, so an action *)
(* here is one such critical section.  A thread inside pthread_cond_wait   *)
(* is "blocked"; once signalled it is "signalled" until it has the mutex   *)
(* again, and any other thread may enter the monitor before it does.       *)
(*                                                                         *)
(* The server has one caller of MQPut, the main thread, and a pool of      *)
(* callers of MQGet.  The list is a sequence of messages, a message is its *)
(* arrival number (its content, a descriptor, is added by WebServer), and  *)
(* the field size of the C struct is Len(queue).                           *)
(***************************************************************************)
EXTENDS Integers, Sequences, FiniteSets

CONSTANTS
  Workers,          \* the threads that call MQGet
  Configs,          \* the [capacity, schedPolicy] pairs given to MQCreate
  MaxArrivals,      \* bound: how many messages are put in a behaviour
  SpuriousWakeups,  \* may pthread_cond_wait return unsignalled, as POSIX allows?
  MallocMayFail     \* may malloc return NULL?

Policies == {"BLOCK", "DROP_TAIL", "DROP_HEAD", "DROP_RANDOM"}
ThreadStates == {"running", "blocked", "signalled"}
MQRetCodes == {"MQ_SUCCESS", "MQ_DROP", "MQ_ERR_MEMORY_FAIL"}

ASSUME MQAssumption ==
  /\ IsFiniteSet(Workers)
  /\ Configs \subseteq [capacity : Nat \ {0}, schedPolicy : Policies]
  /\ MaxArrivals \in Nat
  /\ SpuriousWakeups \in BOOLEAN
  /\ MallocMayFail \in BOOLEAN

VARIABLES
  capacity, schedPolicy,  \* fields of the queue, set by MQCreate
  queue,                  \* the messages from head to tail
  lockLeaked,             \* TRUE when a call returned with the mutex held
  arrivals,               \* the last message given to MQPut
  putState,               \* the producer: blocked and signalled are on cond_get
  putRetCode,             \* what the last MQPut returned
  dropped,                \* the messages it returned in its array dropped
  getState,               \* the consumers: blocked and signalled are on cond_put
  got                     \* got[w]: the last message w took, 0 when there is none

config == <<capacity, schedPolicy>>
vars == <<config, queue, lockLeaked, arrivals, putState, putRetCode, dropped,
          getState, got>>

(* Slip: the amount to drop computed as a half instead of a quarter. *)
BugDropHalf == capacity \div 2

randomDropCount == capacity \div 4

(* The branch of putHandleDropRandom that waits instead of dropping. *)
ShortRandom == schedPolicy = "DROP_RANDOM" /\ capacity < 4

MQCreate(c) ==
  /\ capacity = c.capacity
  /\ schedPolicy = c.schedPolicy
  /\ queue = <<>>
  /\ lockLeaked = FALSE

Init ==
  /\ \E c \in Configs : MQCreate(c)
  /\ arrivals = 0
  /\ putState = "running"
  /\ putRetCode = "MQ_SUCCESS"
  /\ dropped = {}
  /\ getState = [w \in Workers |-> "running"]
  /\ got = [w \in Workers |-> 0]

-----------------------------------------------------------------------------
(* Condition variables.                                                    *)

Blocked == {w \in Workers : getState[w] = "blocked"}
Signalled == {w \in Workers : getState[w] = "signalled"}

(* pthread_cond_signal(&cond_put): wakes one waiter, or nobody. *)
SignalPut ==
  \/ \E w \in Blocked : getState' = [getState EXCEPT ![w] = "signalled"]
  \/ Blocked = {} /\ UNCHANGED getState

(* pthread_cond_signal(&cond_get): the producer is the only waiter. *)
SignalGet ==
  putState' = IF putState = "blocked" THEN "signalled" ELSE putState

-----------------------------------------------------------------------------
(* MQPut.                                                                  *)

(* Slip: the new node is linked in front of head. *)
BugInsertAtHead(kept, m, drops, result) ==
  /\ queue' = <<m>> \o kept
  /\ dropped' = drops
  /\ putRetCode' = result
  /\ putState' = "running"
  /\ SignalPut
  /\ UNCHANGED lockLeaked

(* Slip: signals only on the step from empty to not empty. *)
BugSignalOnlyFirst(kept, m, drops, result) ==
  /\ queue' = Append(kept, m)
  /\ dropped' = drops
  /\ putRetCode' = result
  /\ putState' = "running"
  /\ IF kept = <<>> THEN SignalPut ELSE UNCHANGED getState
  /\ UNCHANGED lockLeaked

(* The end of MQPut: kept is the list after the drops, m goes to its tail. *)
PutInsert(kept, m, drops, result) ==
  /\ queue' = Append(kept, m)
  /\ dropped' = drops
  /\ putRetCode' = result
  /\ putState' = "running"
  /\ SignalPut
  /\ UNCHANGED lockLeaked

PutHandleBlock ==
  /\ putState' = "blocked"
  /\ dropped' = {}
  /\ UNCHANGED <<queue, lockLeaked, putRetCode, getState>>

(* The newcomer is refused; cond_put is signalled although nothing was put. *)
PutHandleDropTail(m) ==
  /\ dropped' = {m}
  /\ putRetCode' = "MQ_DROP"
  /\ SignalPut
  /\ UNCHANGED <<queue, lockLeaked, putState>>

(* Slip: unlinks the tail but reports the head as dropped. *)
BugDropHeadUnlinksTail(m) ==
  PutInsert(SubSeq(queue, 1, Len(queue) - 1), m, {Head(queue)}, "MQ_DROP")

(* Slip: the result variable keeps a code this call never returns. *)
BugDropHeadResult(m) == PutInsert(Tail(queue), m, {Head(queue)}, "MQ_ERR_NULL_ARGS")

(* After the drop the loop tests size == capacity again, and inserts. *)
PutHandleDropHead(m) == PutInsert(Tail(queue), m, {Head(queue)}, "MQ_DROP")

(* The positions that survive a random drop, in the order they have: what  *)
(* is left when getRandomIndexes has marked randomDropCount different      *)
(* positions of capacity.                                                  *)
Survivors ==
  {keep \in [1 .. capacity - randomDropCount -> 1 .. capacity] :
     \A i, j \in 1 .. capacity - randomDropCount : i < j => keep[i] < keep[j]}

PutHandleDropRandom(m) ==
  \E keep \in Survivors :
    LET kept == [i \in 1 .. capacity - randomDropCount |-> queue[keep[i]]]
    IN PutInsert(kept, m,
                 {queue[i] : i \in (1 .. capacity) \ {keep[j] : j \in DOMAIN keep}},
                 "MQ_DROP")

(* getRandomIndexes found no memory: MQPut returns inside the critical     *)
(* section, so the mutex stays locked for good.                            *)
PutHandleDropRandomFails ==
  /\ MallocMayFail
  /\ lockLeaked' = TRUE
  /\ putRetCode' = "MQ_ERR_MEMORY_FAIL"
  /\ dropped' = {}
  /\ UNCHANGED <<queue, putState, getState>>

(* The copy of the message or its node could not be allocated. *)
PutFails ==
  /\ MallocMayFail
  /\ putRetCode' = "MQ_ERR_MEMORY_FAIL"
  /\ dropped' = {}
  /\ UNCHANGED <<queue, lockLeaked, putState, getState>>

(* The loop body for size == capacity; any other size falls through. *)
PutOrHandleFull(m) ==
  \/ Len(queue) # capacity /\ PutInsert(queue, m, {}, "MQ_SUCCESS")
  \/ /\ Len(queue) = capacity
     /\ \/ schedPolicy = "BLOCK" /\ PutHandleBlock
        \/ schedPolicy = "DROP_TAIL" /\ PutHandleDropTail(m)
        \/ schedPolicy = "DROP_HEAD" /\ PutHandleDropHead(m)
        \/ ShortRandom /\ PutHandleBlock
        \/ /\ schedPolicy = "DROP_RANDOM" /\ ~ShortRandom
           /\ PutHandleDropRandom(m) \/ PutHandleDropRandomFails

(* One call of MQPut up to its return or its first wait.  The caller makes *)
(* no further call once one has failed (startServer leaves its loop).      *)
MQPut(m) ==
  /\ putState = "running"
  /\ putRetCode # "MQ_ERR_MEMORY_FAIL"
  /\ ~lockLeaked
  /\ arrivals' = m
  /\ PutFails \/ PutOrHandleFull(m)
  /\ UNCHANGED <<config, got>>

(* Slip: an if where MQPut has a while, so BLOCK does not test size again. *)
BugResumeWithoutRetest ==
  /\ putState = "signalled"
  /\ ~lockLeaked
  /\ PutInsert(queue, arrivals, {}, "MQ_SUCCESS")
  /\ UNCHANGED <<config, arrivals, got>>

(* pthread_cond_wait returned inside MQPut.  Under BLOCK the loop tests    *)
(* size again; the short random wait is followed by a break, which inserts *)
(* whatever the size is now.                                               *)
MQPutResume ==
  /\ putState = "signalled"
  /\ ~lockLeaked
  /\ \/ schedPolicy = "BLOCK" /\ PutOrHandleFull(arrivals)
     \/ ShortRandom /\ PutInsert(queue, arrivals, {}, "MQ_SUCCESS")
  /\ UNCHANGED <<config, arrivals, got>>

-----------------------------------------------------------------------------
(* MQGet.                                                                  *)

GetTake(w) ==
  /\ queue # <<>>
  /\ got' = [got EXCEPT ![w] = Head(queue)]
  /\ queue' = Tail(queue)
  /\ getState' = [getState EXCEPT ![w] = "running"]
  /\ SignalGet

GetWait(w) ==
  /\ queue = <<>>
  /\ getState' = [getState EXCEPT ![w] = "blocked"]
  /\ UNCHANGED <<queue, putState, got>>

(* A call of MQGet from its lock, or from the return of its wait, to its   *)
(* unlock or next wait: the loop makes both the same.                      *)
MQGet(w) ==
  /\ getState[w] # "blocked"
  /\ ~lockLeaked
  /\ GetTake(w) \/ GetWait(w)
  /\ UNCHANGED <<config, lockLeaked, arrivals, putRetCode, dropped>>

-----------------------------------------------------------------------------
SpuriousPutWakeup ==
  /\ SpuriousWakeups
  /\ putState = "blocked"
  /\ putState' = "signalled"
  /\ UNCHANGED <<config, queue, lockLeaked, arrivals, putRetCode, dropped,
                 getState, got>>

SpuriousGetWakeup(w) ==
  /\ SpuriousWakeups
  /\ getState[w] = "blocked"
  /\ getState' = [getState EXCEPT ![w] = "signalled"]
  /\ UNCHANGED <<config, queue, lockLeaked, arrivals, putState, putRetCode,
                 dropped, got>>

Next ==
  \/ arrivals < MaxArrivals /\ MQPut(arrivals + 1)
  \/ MQPutResume
  \/ SpuriousPutWakeup
  \/ \E w \in Workers : MQGet(w) \/ SpuriousGetWakeup(w)

Spec == Init /\ [][Next]_vars

-----------------------------------------------------------------------------
(* Properties.                                                             *)

TypeOK ==
  /\ capacity \in Nat \ {0}
  /\ schedPolicy \in Policies
  /\ queue \in Seq(Nat)
  /\ lockLeaked \in BOOLEAN
  /\ arrivals \in Nat
  /\ putState \in ThreadStates
  /\ putRetCode \in MQRetCodes
  /\ dropped \subseteq Nat
  /\ getState \in [Workers -> ThreadStates]
  /\ got \in [Workers -> Nat]

(* The queue never holds more than capacity messages, spurious wakeups     *)
(* included.  The one exception is a random policy with capacity below 4,  *)
(* which does not test size again after its wait (message_queue.c:400-402  *)
(* and the break at 185): it is safe only without spurious wakeups.        *)
Bounded == ~(SpuriousWakeups /\ ShortRandom) => Len(queue) <= capacity

(* Messages leave in the order they arrived, however many were dropped     *)
(* from the head or from the middle in between: the list is sorted by      *)
(* arrival, a message being put is newer than all of it, and what a worker *)
(* has taken is older than all of it.                                      *)
ArrivalOrder ==
  /\ \A i, j \in 1 .. Len(queue) : i < j => queue[i] < queue[j]
  /\ \A i \in 1 .. Len(queue) :
       queue[i] <= arrivals /\ (putState # "running" => queue[i] < arrivals)
  /\ \A w \in Workers : \A i \in 1 .. Len(queue) : got[w] < queue[i]

(* pthread_cond_signal is enough: while some worker sleeps in MQGet, every *)
(* message in the queue has a woken worker on its way to take it.  (A put  *)
(* signals once per call, even when it dropped a dozen messages.)          *)
NoLostWakeup == Blocked # {} => Cardinality(Signalled) >= Len(queue)

(* The main thread, and with it every Accept, sleeps only while the queue  *)
(* really is full: the signal of the MQGet that made room is never missed. *)
BlockedOnlyWhenFull == putState = "blocked" => Len(queue) >= capacity

(* No signal is missed, on either side of the queue. *)
NobodySleepsInVain == NoLostWakeup /\ BlockedOnlyWhenFull

(* A message that MQPut hands back to be closed is not in the queue too:   *)
(* no descriptor is both closed by the main thread and served by a worker. *)
DroppedHaveLeft ==
  /\ \A i \in 1 .. Len(queue) : queue[i] \notin dropped
  /\ \A w \in Workers : got[w] \notin dropped

(* Every MQPut that has returned has left the critical section. *)
ReturnsUnlocked == putState = "running" => ~lockLeaked

-----------------------------------------------------------------------------
(* The queue implements BoundedQueue: a call takes effect when it inserts, *)
(* drops or takes, and a message whose put still waits is not yet offered. *)
Promise ==
  INSTANCE BoundedQueue WITH
    waiting <- {queue[i] : i \in 1 .. Len(queue)},
    offered <- IF putState = "running" THEN arrivals ELSE arrivals - 1

(* What callers see of the monitor is what the bounded queue would do. *)
ImplementsPromise == Promise!Spec
=============================================================================
