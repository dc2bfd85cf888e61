------------------------- MODULE MessageQueueNodes --------------------------
(***************************************************************************)
(* HW3/message_queue.c down to its list: nodes, the messages and metadata  *)
(* they own (HW3/message.c), head, tail and size, with every malloc, free  *)
(* and pointer assignment of MQPut and MQGet, and what their callers in    *)
(* server.c allocate and free around them.  A step is a critical section,  *)
(* as in MessageQueue, which this module is shown to implement.            *)
(*                                                                         *)
(* heap maps the blocks that malloc has given out to their contents.       *)
(* malloc may choose any free address.  The choice made here depends on    *)
(* the message's number, which keeps the states few, and comes back to an  *)
(* address once its block is free, so that a stale pointer meets another.  *)
(***************************************************************************)
EXTENDS Integers, Sequences, FiniteSets, SequencesExt, FiniteSetsExt, Functions

CONSTANTS
  Workers, Configs, MaxArrivals, MallocMayFail,  \* as in MessageQueue
  ExtraArrivals,   \* connections that may arrive beyond the capacity
  SpuriousWakeups  \* the policies under which a wait may return unsignalled

Policies == {"BLOCK", "DROP_TAIL", "DROP_HEAD", "DROP_RANDOM"}

ASSUME NodesAssumption ==
  /\ IsFiniteSet(Workers)
  /\ Configs \subseteq [capacity : Nat \ {0}, schedPolicy : Policies]
  /\ MaxArrivals \in Nat
  /\ ExtraArrivals \in Nat
  /\ MallocMayFail \in BOOLEAN
  /\ SpuriousWakeups \subseteq Policies

NULL == 0

VARIABLES
  capacity, schedPolicy, size, head, tail,  \* fields of the queue
  heap,              \* heap[a]: the block at address a
  newNode,           \* the local variable of an MQPut that waits, NULL without one
  connectionMessage, \* the message its caller holds meanwhile
  message,           \* message[w]: what the last MQGet of w gave it, NULL once freed
  droppedContents,   \* the array dropped, up to droppedAmount
  faulted,           \* TRUE when a thread has followed a NULL pointer
  lockLeaked, arrivals, putState, putRetCode, getState,  \* as in MessageQueue
  got                \* history: the last content w has taken

config == <<capacity, schedPolicy>>
list == <<size, head, tail, heap>>
caller == <<newNode, connectionMessage>>
vars == <<config, list, caller, message, droppedContents, faulted, lockLeaked,
          arrivals, putState, putRetCode, getState, got>>

(* The block's contents. *)
Node(next, m) == [next |-> next, message |-> m]
Message(content, metaData) == [content |-> content, metaData |-> metaData]
MetaData == [threadID |-> 0]

(* The k lowest free addresses from on. *)
FreeBlocks(h, from, k) ==
  LET free == (from .. from + Cardinality(DOMAIN h) + k) \ DOMAIN h
  IN [i \in 1 .. k |-> CHOOSE a \in free : Cardinality({b \in free : b < a}) = i - 1]

(* Where the search starts for message m, and for the copy of an MQGet. *)
PutBlocks(m) == FreeBlocks(heap, 1 + 4 * (m % (capacity + 1)), 4)
CopyBlock == FreeBlocks(heap, 4 * (capacity + 3), 1)[1]

Malloc(h, blocks) ==
  [a \in DOMAIN h \union DOMAIN blocks |->
     IF a \in DOMAIN blocks THEN blocks[a] ELSE h[a]]

Freed(h, blocks) == Restrict(h, DOMAIN h \ blocks)

(* free(node->message->metaData); MessageFree(node->message); free(node).  *)
BlocksOf(h, node) ==
  {node, h[node].message, h[h[node].message].metaData}

(* Slip: the metadata of a dropped message are not freed. *)
BugKeepMetaData(h, node) == {node, h[node].message}

DropBlocks(h, node) == BlocksOf(h, node)

ContentOf(h, node) == h[h[node].message].content

randomDropCount == capacity \div 4

MQCreate(c) ==
  /\ capacity = c.capacity
  /\ schedPolicy = c.schedPolicy
  /\ size = 0
  /\ head = NULL
  /\ tail = NULL

Init ==
  /\ \E c \in Configs : MQCreate(c)
  /\ heap = <<>>
  /\ newNode = NULL
  /\ connectionMessage = NULL
  /\ message = [w \in Workers |-> NULL]
  /\ droppedContents = <<>>
  /\ faulted = FALSE
  /\ lockLeaked = FALSE
  /\ arrivals = 0
  /\ putState = "running"
  /\ putRetCode = "MQ_SUCCESS"
  /\ getState = [w \in Workers |-> "running"]
  /\ got = [w \in Workers |-> 0]

-----------------------------------------------------------------------------
Blocked == {w \in Workers : getState[w] = "blocked"}

(* Slip: the put signals the condition that only a put waits for. *)
BugSignalWrongCondition == UNCHANGED getState

(* pthread_cond_signal on cond_put and on cond_get. *)
SignalPut ==
  \/ \E w \in Blocked : getState' = [getState EXCEPT ![w] = "signalled"]
  \/ Blocked = {} /\ UNCHANGED getState

(* Slip: signals only for an empty list, and tests before the node is out.  *)
BugSignalWhenEmpty ==
  putState' = IF putState = "blocked" /\ size = 0 THEN "signalled" ELSE putState

SignalGet ==
  putState' = IF putState = "blocked" THEN "signalled" ELSE putState

-----------------------------------------------------------------------------
(* MQPut.  h is the heap with what the caller and MQPut have allocated, n  *)
(* the new node and c the caller's message, freed at the return.           *)

(* The list, as a record, after some of it has been dropped. *)
Whole(h) == [head |-> head, tail |-> tail, size |-> size, heap |-> h, dropped |-> <<>>]

(* Slip: the new node goes in front of the list. *)
BugLinkInFront(l, n) ==
  /\ size' = l.size + 1
  /\ head' = n
  /\ tail' = IF l.size = 0 THEN n ELSE l.tail
  /\ heap' = [l.heap EXCEPT ![n].next = l.head]

(* Lines 190-200: the node goes behind tail, or becomes head and tail. *)
Link(l, n) ==
  /\ size' = l.size + 1
  /\ tail' = n
  /\ IF l.size = 0
       THEN head' = n /\ heap' = l.heap
       ELSE head' = l.head /\ heap' = [l.heap EXCEPT ![l.tail].next = n]

Return(l, result) ==
  /\ droppedContents' = l.dropped
  /\ putRetCode' = result
  /\ putState' = "running"
  /\ newNode' = NULL
  /\ connectionMessage' = NULL
  /\ SignalPut
  /\ UNCHANGED lockLeaked

PutInsert(l, n, c, result) ==
  /\ Link([l EXCEPT !.heap = Freed(@, {c})], n)
  /\ Return(l, result)

putHandleBlock(h, n, c) ==
  /\ putState' = "blocked"
  /\ heap' = h
  /\ newNode' = n
  /\ connectionMessage' = c
  /\ droppedContents' = <<>>
  /\ UNCHANGED <<size, head, tail, lockLeaked, putRetCode, getState>>

putHandleDropTail(h, n, c) ==
  /\ heap' = Freed(h, BlocksOf(h, n) \union {c})
  /\ Return([dropped |-> <<ContentOf(h, n)>>], "MQ_DROP")
  /\ UNCHANGED <<size, head, tail>>

putHandleDropHead(h) ==
  LET next == h[head].next IN
  [head |-> next,
   tail |-> IF size = 1 THEN next ELSE tail,
   size |-> size - 1,
   heap |-> Freed(h, DropBlocks(h, head)),
   dropped |-> <<ContentOf(h, head)>>]

(* The branch of the second loop for a marked node. *)
Unlink(l) ==
  [l EXCEPT !.heap = [@ EXCEPT ![l.prev].next = l.heap[l.iterator].next],
            !.iterator = l.heap[@].next,
            !.gone = Append(@, l.iterator)]

(* After the loops: prev is the last node left when nothing follows it. *)
TailAfter(l) == IF l.heap[l.prev].next = NULL THEN l.prev ELSE tail

(* putHandleDropRandom after getRandomIndexes has marked the positions     *)
(* marks, 0 the head: the first loop takes marked nodes from the head, the *)
(* second unlinks the others behind prev.                                  *)
putHandleDropRandom(h, marks) ==
  LET first == Min((0 .. capacity - 1) \ marks)
      node[i \in 0 .. first] == IF i = 0 THEN head ELSE h[node[i - 1]].next
      loop[i \in first .. capacity - 1] ==
        IF i = first
          THEN [prev |-> node[first], iterator |-> h[node[first]].next, heap |-> h,
                gone |-> [j \in 1 .. first |-> node[j - 1]]]
        ELSE LET l == loop[i - 1] IN
             IF i \in marks THEN Unlink(l)
             ELSE [l EXCEPT !.prev = l.iterator, !.iterator = l.heap[@].next]
      end == loop[capacity - 1]
  IN [head |-> node[first],
      tail |-> TailAfter(end),
      size |-> size - Len(end.gone),
      heap |-> Freed(end.heap, UNION {BlocksOf(h, g) : g \in ToSet(end.gone)}),
      dropped |-> [j \in DOMAIN end.gone |-> ContentOf(h, end.gone[j])]]

(* getRandomIndexes: amount different positions. *)
getRandomIndexes(amount) == kSubset(amount, 0 .. capacity - 1)

(* Without memory for the marks MQPut returns with the mutex held and the  *)
(* new node, its message and the metadata in nobody's hands.               *)
RandomIndexesFail(h, c) ==
  /\ MallocMayFail
  /\ lockLeaked' = TRUE
  /\ putRetCode' = "MQ_ERR_MEMORY_FAIL"
  /\ droppedContents' = <<>>
  /\ heap' = Freed(h, {c})
  /\ UNCHANGED <<size, head, tail, caller, putState, getState>>

ShortRandom == schedPolicy = "DROP_RANDOM" /\ capacity < 4

(* The loop of MQPut, from its test of size to the return or a wait. *)
PutOrHandleFull(h, n, c) ==
  \/ size # capacity /\ PutInsert(Whole(h), n, c, "MQ_SUCCESS")
  \/ /\ size = capacity
     /\ \/ schedPolicy = "BLOCK" /\ putHandleBlock(h, n, c)
        \/ schedPolicy = "DROP_TAIL" /\ putHandleDropTail(h, n, c)
        \/ schedPolicy = "DROP_HEAD" /\ PutInsert(putHandleDropHead(h), n, c, "MQ_DROP")
        \/ ShortRandom /\ putHandleBlock(h, n, c)
        \/ /\ schedPolicy = "DROP_RANDOM" /\ ~ShortRandom
           /\ \/ \E marks \in getRandomIndexes(randomDropCount) :
                   PutInsert(putHandleDropRandom(h, marks), n, c, "MQ_DROP")
              \/ RandomIndexesFail(h, c)

(* The copy or the node could not be allocated. *)
PutFails(kept) ==
  /\ MallocMayFail
  /\ putRetCode' = "MQ_ERR_MEMORY_FAIL"
  /\ droppedContents' = <<>>
  /\ heap' = kept
  /\ UNCHANGED <<size, head, tail, caller, lockLeaked, putState, getState>>

(* MQPut with what startServer does before and after it.  a lists the new  *)
(* blocks: metadata and message of the caller, then the copy and the node. *)
MQPut(m) ==
  /\ ~faulted
  /\ putState = "running"
  /\ putRetCode # "MQ_ERR_MEMORY_FAIL"
  /\ ~lockLeaked
  /\ arrivals' = m
  /\ LET a == PutBlocks(m)
         blocks == <<MetaData, Message(m, a[1]), Message(m, a[1]), Node(NULL, a[3])>>
         h == Malloc(heap, [b \in ToSet(a) |-> blocks[CHOOSE i \in 1 .. 4 : a[i] = b]])
     IN \/ PutOrHandleFull(h, a[4], a[2])
        \/ PutFails(Freed(h, {a[2], a[3], a[4]}))  \* MessageCopy: the metadata leak
        \/ PutFails(heap)                          \* malloc of the node: rolled back
  /\ UNCHANGED <<config, message, faulted, got>>

MQPutResume ==
  /\ ~faulted
  /\ putState = "signalled"
  /\ ~lockLeaked
  /\ \/ schedPolicy = "BLOCK" /\ PutOrHandleFull(heap, newNode, connectionMessage)
     \/ ShortRandom /\ PutInsert(Whole(heap), newNode, connectionMessage, "MQ_SUCCESS")
  /\ UNCHANGED <<config, arrivals, message, faulted, got>>

-----------------------------------------------------------------------------
(* MQGet.                                                                  *)

(* Lines 242-247: the head leaves the list, its message is copied and freed. *)
TakeHead(w, copy) ==
  LET m == heap[head].message
      h == IF copy = NULL THEN heap ELSE Malloc(heap, [a \in {copy} |-> heap[m]])
  IN /\ head' = heap[head].next
     /\ heap' = Freed(h, {head, m})
     /\ message' = [message EXCEPT ![w] = copy]
     /\ got' = [got EXCEPT ![w] = heap[m].content]

(* Slip: tail is left on the freed node when the list becomes empty. *)
BugTailStays == UNCHANGED tail

UpdateTail == tail' = IF size = 1 THEN head' ELSE tail

(* A copy that fails is not tested for: workerThreadJob follows the NULL   *)
(* that it gets (server.c:58), which ends the process.                     *)
GetTake(w) ==
  /\ size # 0
  /\ \/ TakeHead(w, CopyBlock) /\ UNCHANGED faulted
     \/ MallocMayFail /\ TakeHead(w, NULL) /\ faulted' = TRUE
  /\ size' = size - 1
  /\ UpdateTail
  /\ getState' = [getState EXCEPT ![w] = "running"]
  /\ SignalGet

GetWait(w) ==
  /\ size = 0
  /\ getState' = [getState EXCEPT ![w] = "blocked"]
  /\ UNCHANGED <<list, message, faulted, putState, got>>

MQGet(w) ==
  /\ ~faulted
  /\ getState[w] # "blocked"
  /\ message[w] = NULL
  /\ ~lockLeaked
  /\ GetTake(w) \/ GetWait(w)
  /\ UNCHANGED <<config, caller, droppedContents, lockLeaked, arrivals, putRetCode>>

(* The end of an iteration of workerThreadJob (server.c:92-93). *)
WorkerFrees(w) ==
  /\ ~faulted
  /\ message[w] # NULL
  /\ heap' = Freed(heap, {message[w], heap[message[w]].metaData})
  /\ message' = [message EXCEPT ![w] = NULL]
  /\ UNCHANGED <<config, size, head, tail, caller, droppedContents, faulted,
                 lockLeaked, arrivals, putState, putRetCode, getState, got>>

-----------------------------------------------------------------------------
SpuriousPutWakeup ==
  /\ schedPolicy \in SpuriousWakeups
  /\ ~faulted
  /\ putState = "blocked"
  /\ putState' = "signalled"
  /\ UNCHANGED <<config, list, caller, message, droppedContents, faulted,
                 lockLeaked, arrivals, putRetCode, getState, got>>

SpuriousGetWakeup(w) ==
  /\ schedPolicy \in SpuriousWakeups
  /\ ~faulted
  /\ getState[w] = "blocked"
  /\ getState' = [getState EXCEPT ![w] = "signalled"]
  /\ UNCHANGED <<config, list, caller, message, droppedContents, faulted,
                 lockLeaked, arrivals, putState, putRetCode, got>>

Next ==
  \/ /\ arrivals < MaxArrivals /\ arrivals < capacity + ExtraArrivals
     /\ MQPut(arrivals + 1)
  \/ MQPutResume
  \/ SpuriousPutWakeup
  \/ \E w \in Workers : MQGet(w) \/ WorkerFrees(w) \/ SpuriousGetWakeup(w)

(* A woken thread gets the mutex in the end; a worker serves its message,  *)
(* frees it and calls MQGet again.                                         *)
Fairness ==
  /\ WF_vars(MQPutResume)
  /\ \A w \in Workers : WF_vars(MQGet(w)) /\ WF_vars(WorkerFrees(w))

Spec == Init /\ [][Next]_vars
FairSpec == Spec /\ Fairness

-----------------------------------------------------------------------------
(* MQFree, which the server never calls: what is left of the heap after    *)
(* its loop, from head along next.                                         *)

AtEnd(iterator) == iterator = NULL

MQFree ==
  LET walk[i \in 0 .. Cardinality(DOMAIN heap)] ==
        IF i = 0 THEN [iterator |-> head, heap |-> heap]
        ELSE LET l == walk[i - 1] IN
             IF AtEnd(l.iterator) THEN l
             ELSE [iterator |-> heap[l.iterator].next,
                   heap |-> Freed(l.heap, BlocksOf(heap, l.iterator))]
  IN walk[Cardinality(DOMAIN heap)].heap

-----------------------------------------------------------------------------
(* Properties.                                                             *)

(* The nodes from head on, as many as size says. *)
Chain ==
  LET walk[i \in 0 .. size] ==
        IF i = 0 THEN <<>>
        ELSE LET before == walk[i - 1]
             IN Append(before, IF i = 1 THEN head ELSE heap[Last(before)].next)
  IN walk[size]

(* The list is what its three fields say: from head, size different nodes  *)
(* that lead to tail, and nothing behind it.                               *)
ListWellFormed ==
  /\ size = 0 => head = NULL /\ tail = NULL
  /\ size > 0 => LET chain == Chain IN
       /\ Cardinality(ToSet(chain)) = size
       /\ ToSet(chain) \subseteq DOMAIN heap
       /\ Last(chain) = tail
       /\ heap[tail].next = NULL

Blocks(owned) == UNION {BlocksOf(heap, n) : n \in owned}

HeldByWorkers ==
  UNION {{message[w], heap[message[w]].metaData} :
           w \in {v \in Workers : message[v] # NULL}}

HeldByPut ==
  IF newNode = NULL THEN {} ELSE BlocksOf(heap, newNode) \union {connectionMessage}

(* MQFree would free the blocks of the list and nothing that a worker or a *)
(* put has in hand.                                                        *)
FreeTakesAll == DOMAIN MQFree = DOMAIN heap \ Blocks(ToSet(Chain))

(* Every block has one owner that will free it: the list, a put that waits *)
(* or a worker.  The exceptions are the failures of malloc.                *)
EachBlockOwned ==
  (~lockLeaked /\ ~faulted /\ putRetCode # "MQ_ERR_MEMORY_FAIL") =>
    /\ DOMAIN heap = Blocks(ToSet(Chain)) \union HeldByWorkers \union HeldByPut
    /\ Cardinality(DOMAIN heap) =
         3 * size + 2 * Cardinality({w \in Workers : message[w] # NULL})
           + Cardinality(HeldByPut)
    /\ FreeTakesAll

(* What the list holds. *)
Contents == LET chain == Chain IN [i \in DOMAIN chain |-> ContentOf(heap, chain[i])]

Monitor ==
  INSTANCE MessageQueue WITH
    queue <- Contents,
    dropped <- ToSet(droppedContents),
    SpuriousWakeups <- SpuriousWakeups # {}

(* Nodes, copies and three fields do what the sequence of MessageQueue does. *)
ImplementsMonitor == Monitor!Spec

(* A blocked MQPut returns, unless a failed allocation has ended it all. *)
PutReturns ==
  putState # "running" ~> (putState = "running" \/ lockLeaked \/ faulted)

(* Once no more connections arrive the list is empty in the end, with the  *)
(* same exception: the workers leave no node behind.                       *)
Empties == []<>(size = 0 \/ lockLeaked \/ faulted)
=============================================================================
