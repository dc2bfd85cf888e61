------------------------- MODULE MessageQueueProofs -------------------------
(***************************************************************************)
(* Theorems about MessageQueue, for every set of workers, every capacity,  *)
(* every policy and any number of arrivals.                                *)
(***************************************************************************)
EXTENDS MessageQueue, TLAPS, FiniteSetTheorems, SequenceTheorems

-----------------------------------------------------------------------------
(* Lemmas about the operators of the monitor.                              *)

(* A quarter of a capacity, rounded down, is less than the capacity. *)
LEMMA RandomDropCountRange ==
  ASSUME capacity \in Nat \ {0}
  PROVE  /\ randomDropCount \in Nat
         /\ randomDropCount < capacity
         /\ capacity >= 4 => randomDropCount > 0
BY DEF randomDropCount

(* What a random drop leaves of a full, sorted list: a shorter sorted list *)
(* of messages that were in it.                                            *)
KeptBy(keep) == [i \in 1 .. capacity - randomDropCount |-> queue[keep[i]]]
DroppedBy(keep) ==
  {queue[i] : i \in (1 .. capacity) \ {keep[j] : j \in DOMAIN keep}}

LEMMA SurvivorsKept ==
  ASSUME capacity \in Nat \ {0}, queue \in Seq(Nat), Len(queue) = capacity,
         NEW keep \in Survivors
  PROVE  /\ KeptBy(keep) \in Seq(Nat)
         /\ Len(KeptBy(keep)) = capacity - randomDropCount
         /\ \A i \in 1 .. Len(KeptBy(keep)) :
              keep[i] \in 1 .. Len(queue) /\ KeptBy(keep)[i] = queue[keep[i]]
         /\ \A i, j \in 1 .. Len(KeptBy(keep)) : i < j => keep[i] < keep[j]
         /\ DroppedBy(keep) \subseteq Nat
<1> DEFINE n == capacity - randomDropCount
<1>1. n \in Nat
  BY RandomDropCountRange
<1>2. /\ keep \in [1 .. n -> 1 .. capacity]
      /\ \A i, j \in 1 .. n : i < j => keep[i] < keep[j]
  BY DEF Survivors
<1>3. \A i \in 1 .. capacity : queue[i] \in Nat
  BY ElementOfSeq
<1>4. KeptBy(keep) \in [1 .. n -> Nat]
  BY <1>2, <1>3 DEF KeptBy
<1>5. KeptBy(keep) \in Seq(Nat) /\ Len(KeptBy(keep)) = n
  BY <1>1, <1>4, SeqDef, LenProperties
<1>6. DroppedBy(keep) \subseteq Nat
  BY <1>3 DEF DroppedBy
<1> QED
  BY <1>2, <1>5, <1>6 DEF KeptBy

-----------------------------------------------------------------------------
(* Type correctness.                                                       *)

LEMMA InsertTypeOK ==
  ASSUME TypeOK, UNCHANGED <<config, got>>, arrivals' \in Nat,
         NEW STATE kept, kept \in Seq(Nat), NEW STATE m, m \in Nat,
         NEW STATE drops, drops \in SUBSET Nat, NEW result \in MQRetCodes,
         PutInsert(kept, m, drops, result)
  PROVE  TypeOK'
<1>1. queue' \in Seq(Nat)
  BY AppendProperties DEF PutInsert
<1>2. getState' \in [Workers -> ThreadStates]
  BY DEF PutInsert, SignalPut, TypeOK, ThreadStates, Blocked
<1> QED
  BY <1>1, <1>2 DEF PutInsert, TypeOK, config, ThreadStates

LEMMA PutOrHandleFullTypeOK ==
  ASSUME TypeOK, UNCHANGED <<config, got>>, arrivals' \in Nat,
         NEW STATE m, m \in Nat, PutOrHandleFull(m)
  PROVE  TypeOK'
<1> USE DEF MQRetCodes
<1>1. CASE PutInsert(queue, m, {}, "MQ_SUCCESS")
  BY <1>1, InsertTypeOK DEF TypeOK
<1>2. CASE PutHandleBlock
  BY <1>2 DEF PutHandleBlock, TypeOK, config, ThreadStates
<1>3. CASE PutHandleDropTail(m)
  <2>1. getState' \in [Workers -> ThreadStates]
    BY <1>3 DEF PutHandleDropTail, SignalPut, TypeOK, ThreadStates, Blocked
  <2> QED
    BY <1>3, <2>1 DEF PutHandleDropTail, TypeOK, config
<1>4. CASE Len(queue) = capacity /\ PutHandleDropHead(m)
  <2>1. queue \in Seq(Nat) /\ queue # <<>>
    BY <1>4, EmptySeq DEF TypeOK
  <2>2. Tail(queue) \in Seq(Nat) /\ {Head(queue)} \in SUBSET Nat
    BY <2>1, HeadTailProperties
  <2> QED
    BY <1>4, <2>2, InsertTypeOK DEF PutHandleDropHead
<1>5. CASE Len(queue) = capacity /\ PutHandleDropRandom(m)
  <2>1. PICK keep \in Survivors :
          PutInsert(KeptBy(keep), m, DroppedBy(keep), "MQ_DROP")
    BY <1>5 DEF PutHandleDropRandom, KeptBy, DroppedBy
  <2>2. KeptBy(keep) \in Seq(Nat) /\ DroppedBy(keep) \in SUBSET Nat
    BY <1>5, SurvivorsKept DEF TypeOK
  <2> QED
    BY <2>1, <2>2, InsertTypeOK
<1>6. CASE PutHandleDropRandomFails
  BY <1>6 DEF PutHandleDropRandomFails, TypeOK, config
<1> QED
  BY <1>1, <1>2, <1>3, <1>4, <1>5, <1>6 DEF PutOrHandleFull

LEMMA TypeOKStep ==
  ASSUME TypeOK, [Next]_vars
  PROVE  TypeOK'
<1>1. CASE MQPut(arrivals + 1)
  <2>1. arrivals' = arrivals + 1 /\ arrivals' \in Nat /\ UNCHANGED <<config, got>>
    BY <1>1 DEF MQPut, TypeOK
  <2>2. CASE PutFails
    BY <2>1, <2>2 DEF PutFails, TypeOK, config, MQRetCodes
  <2>3. CASE PutOrHandleFull(arrivals + 1)
    BY <2>1, <2>3, PutOrHandleFullTypeOK
  <2> QED
    BY <1>1, <2>2, <2>3 DEF MQPut
<1>2. CASE MQPutResume
  <2>1. arrivals' = arrivals /\ arrivals' \in Nat /\ UNCHANGED <<config, got>>
    BY <1>2 DEF MQPutResume, TypeOK
  <2>2. CASE PutOrHandleFull(arrivals)
    BY <2>1, <2>2, PutOrHandleFullTypeOK
  <2>3. CASE PutInsert(queue, arrivals, {}, "MQ_SUCCESS")
    BY <2>1, <2>3, InsertTypeOK DEF TypeOK, MQRetCodes
  <2> QED
    BY <1>2, <2>2, <2>3 DEF MQPutResume
<1>3. CASE SpuriousPutWakeup
  BY <1>3 DEF SpuriousPutWakeup, TypeOK, config, ThreadStates
<1>4. ASSUME NEW w \in Workers, MQGet(w)
      PROVE  TypeOK'
  <2>1. CASE GetTake(w)
    <3>1. Head(queue) \in Nat /\ Tail(queue) \in Seq(Nat)
      BY <2>1, HeadTailProperties DEF GetTake, TypeOK
    <3> QED
      BY <1>4, <2>1, <3>1
      DEF MQGet, GetTake, SignalGet, TypeOK, config, ThreadStates
  <2>2. CASE GetWait(w)
    BY <1>4, <2>2 DEF MQGet, GetWait, TypeOK, config, ThreadStates
  <2> QED
    BY <1>4, <2>1, <2>2 DEF MQGet
<1>5. ASSUME NEW w \in Workers, SpuriousGetWakeup(w)
      PROVE  TypeOK'
  BY <1>5 DEF SpuriousGetWakeup, TypeOK, config, ThreadStates
<1>6. CASE UNCHANGED vars
  BY <1>6 DEF vars, TypeOK, config
<1> QED
  BY <1>1, <1>2, <1>3, <1>4, <1>5, <1>6 DEF Next

LEMMA TypeOKInit == Init => TypeOK
<1> SUFFICES ASSUME Init PROVE TypeOK
  OBVIOUS
<1>1. PICK c \in Configs : MQCreate(c)
  BY DEF Init
<1>2. c \in [capacity : Nat \ {0}, schedPolicy : Policies]
  BY MQAssumption
<1>3. capacity \in Nat \ {0} /\ schedPolicy \in Policies /\ lockLeaked \in BOOLEAN
  BY <1>1, <1>2 DEF MQCreate
<1>4. queue \in Seq(Nat)
  BY <1>1, EmptySeq DEF MQCreate
<1> QED
  BY <1>3, <1>4 DEF Init, TypeOK, ThreadStates, MQRetCodes

(* Every behaviour of the monitor keeps its variables in their types. *)
THEOREM TypeCorrect == Spec => []TypeOK
BY TypeOKInit, TypeOKStep, PTL DEF Spec

-----------------------------------------------------------------------------
(* Safety.  Two facts make the properties inductive: a producer waits only *)
(* under a policy that waits and, when it was woken by a signal, there is  *)
(* room; and what a worker took is older than anything put later.          *)

WaitsByPolicy == putState # "running" => schedPolicy = "BLOCK" \/ ShortRandom

RoomWhenWoken ==
  putState = "signalled" /\ ~SpuriousWakeups => Len(queue) < capacity

TakenIsOlder ==
  \A w \in Workers :
    got[w] <= arrivals /\ (putState # "running" => got[w] < arrivals)

OrderInv == ArrivalOrder /\ TakenIsOlder /\ DroppedHaveLeft
RoomInv == Bounded /\ WaitsByPolicy /\ RoomWhenWoken /\ BlockedOnlyWhenFull
IInv == TypeOK /\ OrderInv /\ RoomInv /\ NoLostWakeup

(* m is newer than all that is queued and all that was taken. *)
Newest(m) ==
  /\ \A i \in 1 .. Len(queue) : queue[i] < m
  /\ \A w \in Workers : got[w] < m

(* kept is part of the queue in its order, and drops is from the rest. *)
IsKept(kept, drops) ==
  /\ kept \in Seq(Nat)
  /\ \A i, j \in 1 .. Len(kept) : i < j => kept[i] < kept[j]
  /\ \A i \in 1 .. Len(kept) : \E k \in 1 .. Len(queue) : kept[i] = queue[k]
  /\ \A d \in drops : \E k \in 1 .. Len(queue) : d = queue[k]
  /\ \A i \in 1 .. Len(kept) : kept[i] \notin drops

LEMMA KeptWhole ==
  ASSUME TypeOK, ArrivalOrder
  PROVE  IsKept(queue, {})
BY DEF IsKept, TypeOK, ArrivalOrder

LEMMA KeptTail ==
  ASSUME TypeOK, ArrivalOrder, queue # <<>>
  PROVE  /\ IsKept(Tail(queue), {Head(queue)})
         /\ Len(Tail(queue)) = Len(queue) - 1
<1>1. /\ Tail(queue) \in Seq(Nat)
      /\ Len(queue) \in Nat \ {0}
      /\ Len(Tail(queue)) = Len(queue) - 1
      /\ \A i \in 1 .. Len(Tail(queue)) : Tail(queue)[i] = queue[i + 1]
      /\ Head(queue) = queue[1]
  BY HeadTailProperties, EmptySeq DEF TypeOK
<1>2. \A i \in 1 .. Len(queue) : queue[i] \in Nat
  BY ElementOfSeq DEF TypeOK
<1> QED
  BY <1>1, <1>2 DEF IsKept, ArrivalOrder

LEMMA KeptRandom ==
  ASSUME TypeOK, ArrivalOrder, Len(queue) = capacity, NEW keep \in Survivors
  PROVE  /\ IsKept(KeptBy(keep), DroppedBy(keep))
         /\ Len(KeptBy(keep)) = capacity - randomDropCount
<1> DEFINE kept == KeptBy(keep)
<1>1. /\ kept \in Seq(Nat)
      /\ Len(kept) = capacity - randomDropCount
      /\ \A i \in 1 .. Len(kept) :
           keep[i] \in 1 .. Len(queue) /\ kept[i] = queue[keep[i]]
      /\ \A i, j \in 1 .. Len(kept) : i < j => keep[i] < keep[j]
  BY SurvivorsKept DEF TypeOK
<1>2. \A i, j \in 1 .. Len(queue) : i # j => queue[i] # queue[j]
  <2>1. \A i \in 1 .. Len(queue) : queue[i] \in Nat
    BY ElementOfSeq DEF TypeOK
  <2> QED
    BY <2>1 DEF ArrivalOrder
<1>3. \A i, j \in 1 .. Len(kept) : i < j => kept[i] < kept[j]
  BY <1>1 DEF ArrivalOrder
<1>4. ASSUME NEW i \in 1 .. Len(kept) PROVE kept[i] \notin DroppedBy(keep)
  <2>1. i \in DOMAIN keep
    BY <1>1, <1>4 DEF Survivors
  <2> QED
    BY <1>1, <1>2, <1>4, <2>1 DEF DroppedBy
<1>5. \A d \in DroppedBy(keep) : \E k \in 1 .. Len(queue) : d = queue[k]
  BY DEF DroppedBy
<1> QED
  BY <1>1, <1>3, <1>4, <1>5 DEF IsKept

(* Inserting the newest message after a kept part keeps the order. *)
LEMMA InsertOrder ==
  ASSUME TypeOK, OrderInv, NEW STATE m, m \in Nat,
         NEW STATE kept, NEW STATE drops, NEW result,
         IsKept(kept, drops), Newest(m), arrivals' = m, got' = got,
         PutInsert(kept, m, drops, result)
  PROVE  OrderInv'
<1> DEFINE n == Len(kept)
<1>1. /\ queue' \in Seq(Nat) /\ n \in Nat /\ Len(queue') = n + 1
      /\ \A i \in 1 .. n : queue'[i] = kept[i]
      /\ queue'[n + 1] = m
  BY AppendProperties, LenProperties DEF PutInsert, IsKept
<1>2. \A i \in 1 .. n :
        /\ kept[i] \in Nat /\ kept[i] < m
        /\ \A w \in Workers : got[w] < kept[i]
  BY ElementOfSeq DEF IsKept, Newest, OrderInv, ArrivalOrder
<1>3. putState' = "running" /\ dropped' = drops
  BY DEF PutInsert
<1>4. /\ \A i, j \in 1 .. n : i < j => kept[i] < kept[j]
      /\ \A i \in 1 .. n : kept[i] \notin drops
  BY DEF IsKept
<1>5. ArrivalOrder'
  <2>1. ASSUME NEW i \in 1 .. n + 1, NEW j \in 1 .. n + 1, i < j
        PROVE  queue'[i] < queue'[j]
    <3>1. CASE j = n + 1
      BY <1>1, <1>2, <2>1, <3>1
    <3>2. CASE j # n + 1
      BY <1>1, <1>4, <2>1, <3>2
    <3> QED
      BY <3>1, <3>2
  <2>2. \A i \in 1 .. Len(queue') : queue'[i] <= arrivals'
    BY <1>1, <1>2
  <2>3. \A w \in Workers : \A i \in 1 .. Len(queue') : got'[w] < queue'[i]
    BY <1>1, <1>2 DEF Newest
  <2> QED
    BY <1>1, <1>3, <2>1, <2>2, <2>3 DEF ArrivalOrder
<1>6. TakenIsOlder'
  <2>1. \A w \in Workers : got'[w] \in Nat /\ got'[w] < m
    BY DEF Newest, TypeOK
  <2> QED
    BY <1>3, <2>1 DEF TakenIsOlder
<1>7. DroppedHaveLeft'
  <2>1. m \notin drops
    <3>1. \A k \in 1 .. Len(queue) : queue[k] \in Nat /\ queue[k] < m
      BY ElementOfSeq DEF TypeOK, Newest
    <3> QED
      BY <3>1 DEF IsKept
  <2>2. \A i \in 1 .. n + 1 : queue'[i] \notin dropped'
    BY <1>1, <1>3, <1>4, <2>1
  <2>3. \A w \in Workers : got'[w] \notin dropped'
    <3>1. \A w \in Workers : \A k \in 1 .. Len(queue) :
            got[w] \in Nat /\ queue[k] \in Nat /\ got[w] < queue[k]
      BY ElementOfSeq DEF TypeOK, OrderInv, ArrivalOrder
    <3> QED
      BY <1>3, <3>1 DEF IsKept
  <2> QED
    BY <1>1, <2>2, <2>3 DEF DroppedHaveLeft
<1> QED
  BY <1>5, <1>6, <1>7 DEF OrderInv

(* Every outcome of MQPut, or of its resumption, leaves the order intact   *)
(* when the message it deals with is the newest.                           *)
LEMMA PutOrHandleFullOrder ==
  ASSUME TypeOK, OrderInv, NEW STATE m, m \in Nat, Newest(m), arrivals' = m,
         got' = got, PutOrHandleFull(m)
  PROVE  OrderInv'
<1>1. ArrivalOrder
  BY DEF OrderInv
<1>2. /\ \A i \in 1 .. Len(queue) : queue[i] \in Nat /\ queue[i] < m
      /\ \A w \in Workers : got[w] \in Nat /\ got[w] < m
  BY ElementOfSeq DEF TypeOK, Newest
<1>3. CASE PutInsert(queue, m, {}, "MQ_SUCCESS")
  BY <1>1, <1>3, KeptWhole, InsertOrder
<1>4. CASE queue' = queue /\ dropped' \subseteq {m}
  BY <1>1, <1>2, <1>4 DEF OrderInv, ArrivalOrder, TakenIsOlder, DroppedHaveLeft
<1>5. CASE Len(queue) = capacity /\ PutHandleDropHead(m)
  <2>1. queue # <<>>
    BY <1>5, EmptySeq DEF TypeOK
  <2> QED
    BY <1>1, <1>5, <2>1, KeptTail, InsertOrder DEF PutHandleDropHead
<1>6. CASE Len(queue) = capacity /\ PutHandleDropRandom(m)
  <2>1. PICK keep \in Survivors :
          PutInsert(KeptBy(keep), m, DroppedBy(keep), "MQ_DROP")
    BY <1>6 DEF PutHandleDropRandom, KeptBy, DroppedBy
  <2> QED
    BY <1>1, <1>6, <2>1, KeptRandom, InsertOrder
<1>7. PutHandleBlock \/ PutHandleDropTail(m) \/ PutHandleDropRandomFails
        => queue' = queue /\ dropped' \subseteq {m}
  BY DEF PutHandleBlock, PutHandleDropTail, PutHandleDropRandomFails
<1> QED
  BY <1>3, <1>4, <1>5, <1>6, <1>7 DEF PutOrHandleFull

LEMMA OrderStep ==
  ASSUME TypeOK, TypeOK', OrderInv, [Next]_vars
  PROVE  OrderInv'
<1>1. CASE MQPut(arrivals + 1)
  <2>1. /\ arrivals' = arrivals + 1 /\ arrivals + 1 \in Nat /\ got' = got
        /\ putState = "running"
    BY <1>1 DEF MQPut, TypeOK
  <2>2. Newest(arrivals + 1)
    <3>1. \A i \in 1 .. Len(queue) : queue[i] \in Nat /\ queue[i] <= arrivals
      BY ElementOfSeq DEF TypeOK, OrderInv, ArrivalOrder
    <3>2. \A w \in Workers : got[w] \in Nat /\ got[w] <= arrivals
      BY DEF TypeOK, OrderInv, TakenIsOlder
    <3> QED
      BY <3>1, <3>2 DEF Newest, TypeOK
  <2>3. CASE PutFails
    <3>1. queue' = queue /\ dropped' = {} /\ putState' = "running"
      BY <2>1, <2>3 DEF PutFails
    <3>2. /\ \A i \in 1 .. Len(queue) : queue[i] \in Nat /\ queue[i] < arrivals + 1
          /\ \A w \in Workers : got[w] \in Nat /\ got[w] < arrivals + 1
      BY <2>2, ElementOfSeq DEF TypeOK, Newest
    <3> QED
      BY <2>1, <3>1, <3>2
      DEF OrderInv, ArrivalOrder, TakenIsOlder, DroppedHaveLeft
  <2>4. CASE PutOrHandleFull(arrivals + 1)
    BY <2>1, <2>2, <2>4, PutOrHandleFullOrder
  <2> QED
    BY <1>1, <2>3, <2>4 DEF MQPut
<1>2. CASE MQPutResume
  <2>1. arrivals' = arrivals /\ arrivals \in Nat /\ got' = got /\ putState # "running"
    BY <1>2 DEF MQPutResume, TypeOK
  <2>2. Newest(arrivals)
    BY <2>1 DEF Newest, OrderInv, ArrivalOrder, TakenIsOlder
  <2>3. CASE PutOrHandleFull(arrivals)
    BY <2>1, <2>2, <2>3, PutOrHandleFullOrder
  <2>4. CASE PutInsert(queue, arrivals, {}, "MQ_SUCCESS")
    BY <2>1, <2>2, <2>4, KeptWhole, InsertOrder DEF OrderInv
  <2> QED
    BY <1>2, <2>3, <2>4 DEF MQPutResume
<1>3. CASE SpuriousPutWakeup
  BY <1>3 DEF SpuriousPutWakeup, OrderInv, ArrivalOrder, TakenIsOlder, DroppedHaveLeft
<1>4. ASSUME NEW w \in Workers, MQGet(w)
      PROVE  OrderInv'
  <2>1. CASE GetTake(w)
    <3>1. /\ arrivals' = arrivals /\ dropped' = dropped /\ queue' = Tail(queue)
          /\ got' = [got EXCEPT ![w] = queue[1]]
          /\ putState' # "running" => putState # "running"
          /\ queue # <<>>
      BY <1>4, <2>1 DEF MQGet, GetTake, SignalGet
    <3>2. /\ Len(queue) \in Nat \ {0}
          /\ Len(queue') = Len(queue) - 1
          /\ \A i \in 1 .. Len(queue') : queue'[i] = queue[i + 1]
          /\ \A i \in 1 .. Len(queue) : queue[i] \in Nat
      BY <3>1, HeadTailProperties, EmptySeq, ElementOfSeq DEF TypeOK
    <3>3. /\ \A i, j \in 1 .. Len(queue) : i < j => queue[i] < queue[j]
          /\ \A i \in 1 .. Len(queue) :
               queue[i] <= arrivals /\ (putState # "running" => queue[i] < arrivals)
          /\ \A v \in Workers : \A i \in 1 .. Len(queue) : got[v] < queue[i]
          /\ \A i \in 1 .. Len(queue) : queue[i] \notin dropped
      BY DEF OrderInv, ArrivalOrder, DroppedHaveLeft
    <3>4. \A v \in Workers : got'[v] = IF v = w THEN queue[1] ELSE got[v]
      BY <3>1 DEF TypeOK
    <3>5. ArrivalOrder'
      BY <3>1, <3>2, <3>3, <3>4 DEF ArrivalOrder
    <3>6. TakenIsOlder'
      BY <3>1, <3>2, <3>3, <3>4 DEF OrderInv, TakenIsOlder
    <3>7. DroppedHaveLeft'
      BY <3>1, <3>2, <3>3, <3>4 DEF OrderInv, DroppedHaveLeft
    <3> QED
      BY <3>5, <3>6, <3>7 DEF OrderInv
  <2>2. CASE GetWait(w)
    BY <1>4, <2>2
    DEF MQGet, GetWait, OrderInv, ArrivalOrder, TakenIsOlder, DroppedHaveLeft
  <2> QED
    BY <1>4, <2>1, <2>2 DEF MQGet
<1>5. ASSUME NEW w \in Workers, SpuriousGetWakeup(w)
      PROVE  OrderInv'
  BY <1>5
  DEF SpuriousGetWakeup, OrderInv, ArrivalOrder, TakenIsOlder, DroppedHaveLeft
<1>6. CASE UNCHANGED vars
  BY <1>6 DEF vars, OrderInv, ArrivalOrder, TakenIsOlder, DroppedHaveLeft
<1> QED
  BY <1>1, <1>2, <1>3, <1>4, <1>5, <1>6 DEF Next

(* The queue never outgrows capacity, and the producer sleeps only when it *)
(* is full: here the loop of MQPut, the break after a short random wait    *)
(* and the signal of MQGet come together.                                  *)
LEMMA InsertRoom ==
  ASSUME TypeOK, UNCHANGED config, NEW STATE kept, kept \in Seq(Nat),
         NEW STATE m, m \in Nat, NEW STATE drops, NEW result,
         ~(SpuriousWakeups /\ ShortRandom) => Len(kept) < capacity,
         PutInsert(kept, m, drops, result)
  PROVE  RoomInv'
<1>1. Len(queue') = Len(kept) + 1 /\ putState' = "running" /\ Len(kept) \in Nat
  BY AppendProperties, LenProperties DEF PutInsert
<1> QED
  BY <1>1
  DEF RoomInv, Bounded, WaitsByPolicy, RoomWhenWoken, BlockedOnlyWhenFull,
      TypeOK, config, ShortRandom

LEMMA PutOrHandleFullRoom ==
  ASSUME TypeOK, ArrivalOrder, RoomInv, UNCHANGED config, NEW STATE m, m \in Nat,
         putState \in {"running", "signalled"},
         PutOrHandleFull(m)
  PROVE  RoomInv'
<1>1. /\ Len(queue) \in Nat /\ capacity \in Nat \ {0}
      /\ capacity' = capacity /\ ShortRandom' = ShortRandom
      /\ schedPolicy' = schedPolicy
  BY DEF TypeOK, config, ShortRandom
<1>2. CASE Len(queue) # capacity /\ PutInsert(queue, m, {}, "MQ_SUCCESS")
  <2>1. ~(SpuriousWakeups /\ ShortRandom) => Len(queue) < capacity
    BY <1>1, <1>2 DEF RoomInv, Bounded
  <2> QED
    BY <1>2, <2>1, InsertRoom DEF TypeOK
<1>3. CASE /\ Len(queue) = capacity /\ PutHandleBlock
           /\ schedPolicy = "BLOCK" \/ ShortRandom
  BY <1>1, <1>3
  DEF PutHandleBlock, RoomInv, Bounded, WaitsByPolicy, RoomWhenWoken,
      BlockedOnlyWhenFull
<1>4. CASE /\ Len(queue) = capacity
           /\ PutHandleDropTail(m) \/ PutHandleDropRandomFails
           /\ schedPolicy \in {"DROP_TAIL", "DROP_RANDOM"} /\ ~ShortRandom
  <2>1. putState' = putState /\ queue' = queue
    BY <1>4 DEF PutHandleDropTail, PutHandleDropRandomFails
  <2>2. putState = "running"
    BY <1>4 DEF RoomInv, WaitsByPolicy
  <2> QED
    BY <1>1, <1>4, <2>1, <2>2
    DEF RoomInv, Bounded, WaitsByPolicy, RoomWhenWoken, BlockedOnlyWhenFull
<1>5. CASE Len(queue) = capacity /\ PutHandleDropHead(m)
  <2>1. Tail(queue) \in Seq(Nat) /\ Len(Tail(queue)) = Len(queue) - 1
    BY <1>1, <1>5, EmptySeq, HeadTailProperties DEF TypeOK
  <2>2. PutInsert(Tail(queue), m, {Head(queue)}, "MQ_DROP")
    BY <1>5 DEF PutHandleDropHead
  <2>3. Len(Tail(queue)) < capacity
    BY <1>1, <1>5, <2>1
  <2> QED
    BY <2>1, <2>2, <2>3, InsertRoom, Zenon
<1>6. CASE /\ Len(queue) = capacity /\ PutHandleDropRandom(m)
           /\ schedPolicy = "DROP_RANDOM" /\ ~ShortRandom
  <2>1. PICK keep \in Survivors :
          PutInsert(KeptBy(keep), m, DroppedBy(keep), "MQ_DROP")
    BY <1>6 DEF PutHandleDropRandom, KeptBy, DroppedBy
  <2>2. KeptBy(keep) \in Seq(Nat) /\ Len(KeptBy(keep)) = capacity - randomDropCount
    BY <1>6, KeptRandom DEF IsKept
  <2>3. capacity >= 4
    BY <1>1, <1>6 DEF ShortRandom
  <2>4. Len(KeptBy(keep)) < capacity
    BY <1>1, <2>2, <2>3, RandomDropCountRange
  <2> QED
    BY <1>1, <2>1, <2>2, <2>4, InsertRoom
<1> QED
  BY <1>2, <1>3, <1>4, <1>5, <1>6 DEF PutOrHandleFull, ShortRandom

LEMMA RoomStep ==
  ASSUME TypeOK, ArrivalOrder, RoomInv, [Next]_vars
  PROVE  RoomInv'
<1> USE DEF RoomInv, Bounded, WaitsByPolicy, RoomWhenWoken, BlockedOnlyWhenFull,
            ShortRandom, config
<1>1. CASE MQPut(arrivals + 1)
  <2>1. putState = "running" /\ UNCHANGED config /\ arrivals + 1 \in Nat
    BY <1>1 DEF MQPut, TypeOK
  <2>2. CASE PutFails
    BY <2>1, <2>2 DEF PutFails
  <2>3. CASE PutOrHandleFull(arrivals + 1)
    BY <2>1, <2>3, PutOrHandleFullRoom
  <2> QED
    BY <1>1, <2>2, <2>3 DEF MQPut
<1>2. CASE MQPutResume
  <2>1. putState = "signalled" /\ UNCHANGED config /\ arrivals \in Nat
    BY <1>2 DEF MQPutResume, TypeOK
  <2>2. CASE PutOrHandleFull(arrivals)
    BY <2>1, <2>2, PutOrHandleFullRoom
  <2>3. CASE ShortRandom /\ PutInsert(queue, arrivals, {}, "MQ_SUCCESS")
    <3>1. ~(SpuriousWakeups /\ ShortRandom) => Len(queue) < capacity
      BY <2>1, <2>3, MQAssumption
    <3> QED
      BY <2>1, <2>3, <3>1, InsertRoom DEF TypeOK
  <2> QED
    BY <1>2, <2>2, <2>3 DEF MQPutResume
<1>3. CASE SpuriousPutWakeup
  BY <1>3 DEF SpuriousPutWakeup
<1>4. ASSUME NEW w \in Workers, MQGet(w)
      PROVE  RoomInv'
  <2>1. CASE GetTake(w)
    <3>1. Len(queue) \in Nat \ {0} /\ Len(queue') = Len(queue) - 1
      BY <2>1, HeadTailProperties, EmptySeq DEF GetTake, TypeOK
    <3>2. /\ putState' # "blocked"
          /\ putState = "running" => putState' = "running"
          /\ putState' = "signalled" => putState \in {"blocked", "signalled"}
      BY <2>1 DEF GetTake, SignalGet, TypeOK, ThreadStates
    <3>3. ~(SpuriousWakeups /\ ShortRandom) => Len(queue') < capacity
      BY <3>1 DEF TypeOK
    <3>4. UNCHANGED <<capacity, schedPolicy>>
      BY <1>4 DEF MQGet
    <3>5. Bounded' /\ RoomWhenWoken' /\ BlockedOnlyWhenFull'
      BY <3>1, <3>2, <3>3, <3>4 DEF TypeOK
    <3>6. WaitsByPolicy'
      BY <3>2, <3>4
    <3> QED
      BY <3>5, <3>6
  <2>2. CASE GetWait(w)
    BY <1>4, <2>2 DEF MQGet, GetWait
  <2> QED
    BY <1>4, <2>1, <2>2 DEF MQGet
<1>5. ASSUME NEW w \in Workers, SpuriousGetWakeup(w)
      PROVE  RoomInv'
  BY <1>5 DEF SpuriousGetWakeup
<1>6. CASE UNCHANGED vars
  BY <1>6 DEF vars
<1> QED
  BY <1>1, <1>2, <1>3, <1>4, <1>5, <1>6 DEF Next

(* Counting the woken workers. *)
LEMMA WaitersFinite ==
  /\ IsFiniteSet(Blocked) /\ IsFiniteSet(Signalled)
  /\ Cardinality(Signalled) \in Nat
BY MQAssumption, FS_Subset, FS_CardinalityType DEF Blocked, Signalled

(* A signal of cond_put wakes one more worker, unless none sleeps. *)
LEMMA SignalWakesOne ==
  ASSUME TypeOK, SignalPut
  PROVE  Blocked' # {} =>
           /\ Blocked # {}
           /\ IsFiniteSet(Signalled')
           /\ Cardinality(Signalled') = Cardinality(Signalled) + 1
<1>1. CASE Blocked = {} /\ UNCHANGED getState
  BY <1>1 DEF Blocked
<1>2. ASSUME NEW w \in Blocked, getState' = [getState EXCEPT ![w] = "signalled"]
      PROVE  /\ IsFiniteSet(Signalled')
             /\ Cardinality(Signalled') = Cardinality(Signalled) + 1
  <2>1. Signalled' = Signalled \union {w} /\ w \notin Signalled
    BY <1>2 DEF Blocked, Signalled, TypeOK
  <2> QED
    BY <2>1, WaitersFinite, FS_AddElement
<1> QED
  BY <1>1, <1>2 DEF SignalPut

LEMMA PutWakeup ==
  ASSUME TypeOK, NoLostWakeup, SignalPut,
         Len(queue') \in Nat, Len(queue') <= Len(queue) + 1
  PROVE  NoLostWakeup'
<1>1. Len(queue) \in Nat /\ Cardinality(Signalled) \in Nat
  BY WaitersFinite DEF TypeOK
<1> QED
  BY <1>1, SignalWakesOne DEF NoLostWakeup

LEMMA SameWakeup ==
  ASSUME NoLostWakeup, UNCHANGED <<queue, getState>>
  PROVE  NoLostWakeup'
BY DEF NoLostWakeup, Blocked, Signalled

LEMMA InsertWakeup ==
  ASSUME TypeOK, NoLostWakeup, NEW STATE kept, kept \in Seq(Nat),
         NEW STATE m, m \in Nat, NEW STATE drops, NEW result, Len(kept) <= Len(queue),
         PutInsert(kept, m, drops, result)
  PROVE  NoLostWakeup'
<1>1. /\ Len(queue') \in Nat /\ Len(queue') = Len(kept) + 1
      /\ Len(kept) \in Nat /\ Len(queue) \in Nat
  BY AppendProperties, LenProperties DEF PutInsert, TypeOK
<1>2. SignalPut
  BY DEF PutInsert
<1> QED
  BY <1>1, <1>2, PutWakeup

LEMMA PutOrHandleFullWakeup ==
  ASSUME TypeOK, ArrivalOrder, NoLostWakeup, NEW STATE m, m \in Nat,
         PutOrHandleFull(m)
  PROVE  NoLostWakeup'
<1>1. /\ queue \in Seq(Nat) /\ Len(queue) \in Nat /\ capacity \in Nat \ {0}
      /\ Len(queue) <= Len(queue)
  BY DEF TypeOK
<1>2. CASE PutInsert(queue, m, {}, "MQ_SUCCESS")
  BY <1>1, <1>2, InsertWakeup, Zenon
<1>3. CASE PutHandleBlock \/ PutHandleDropRandomFails
  BY <1>3, SameWakeup DEF PutHandleBlock, PutHandleDropRandomFails
<1>4. CASE PutHandleDropTail(m)
  BY <1>1, <1>4, PutWakeup DEF PutHandleDropTail
<1>5. CASE Len(queue) = capacity /\ PutHandleDropHead(m)
  <2>1. Tail(queue) \in Seq(Nat) /\ Len(Tail(queue)) = Len(queue) - 1
    BY <1>1, <1>5, EmptySeq, HeadTailProperties
  <2>2. PutInsert(Tail(queue), m, {Head(queue)}, "MQ_DROP")
    BY <1>5 DEF PutHandleDropHead
  <2>3. Len(Tail(queue)) <= Len(queue)
    BY <1>1, <2>1
  <2> QED
    BY <2>1, <2>2, <2>3, InsertWakeup, Zenon
<1>6. CASE Len(queue) = capacity /\ PutHandleDropRandom(m)
  <2>1. PICK keep \in Survivors :
          PutInsert(KeptBy(keep), m, DroppedBy(keep), "MQ_DROP")
    BY <1>6 DEF PutHandleDropRandom, KeptBy, DroppedBy
  <2>2. KeptBy(keep) \in Seq(Nat) /\ Len(KeptBy(keep)) = capacity - randomDropCount
    BY <1>6, KeptRandom DEF IsKept
  <2>3. Len(KeptBy(keep)) <= Len(queue)
    BY <1>1, <1>6, <2>2, RandomDropCountRange
  <2> QED
    BY <2>1, <2>2, <2>3, InsertWakeup
<1> QED
  BY <1>2, <1>3, <1>4, <1>5, <1>6 DEF PutOrHandleFull

LEMMA WakeupStep ==
  ASSUME TypeOK, ArrivalOrder, NoLostWakeup, [Next]_vars
  PROVE  NoLostWakeup'
<1>1. CASE MQPut(arrivals + 1)
  <2>1. arrivals + 1 \in Nat
    BY DEF TypeOK
  <2>2. CASE PutFails
    BY <2>2, SameWakeup DEF PutFails
  <2>3. CASE PutOrHandleFull(arrivals + 1)
    BY <2>1, <2>3, PutOrHandleFullWakeup
  <2> QED
    BY <1>1, <2>2, <2>3 DEF MQPut
<1>2. CASE MQPutResume
  <2>1. arrivals \in Nat /\ queue \in Seq(Nat) /\ Len(queue) <= Len(queue)
    BY DEF TypeOK
  <2>2. CASE PutOrHandleFull(arrivals)
    BY <2>1, <2>2, PutOrHandleFullWakeup
  <2>3. CASE PutInsert(queue, arrivals, {}, "MQ_SUCCESS")
    BY <2>1, <2>3, InsertWakeup, Zenon
  <2> QED
    BY <1>2, <2>2, <2>3 DEF MQPutResume
<1>3. CASE SpuriousPutWakeup
  BY <1>3, SameWakeup DEF SpuriousPutWakeup
<1>4. ASSUME NEW w \in Workers, MQGet(w)
      PROVE  NoLostWakeup'
  <2>1. CASE GetTake(w)
    <3>1. Len(queue) \in Nat \ {0} /\ Len(queue') = Len(queue) - 1
      BY <2>1, HeadTailProperties, EmptySeq DEF GetTake, TypeOK
    <3>2. Blocked' = Blocked /\ Signalled' = Signalled \ {w}
      BY <1>4, <2>1 DEF MQGet, GetTake, Blocked, Signalled, TypeOK
    <3>3. /\ IsFiniteSet(Signalled \ {w})
          /\ Cardinality(Signalled \ {w}) =
               IF w \in Signalled THEN Cardinality(Signalled) - 1
                                  ELSE Cardinality(Signalled)
      BY WaitersFinite, FS_RemoveElement
    <3>4. /\ Cardinality(Signalled) \in Nat
          /\ Cardinality(Signalled') >= Cardinality(Signalled) - 1
          /\ Cardinality(Signalled') \in Int
      BY <3>2, <3>3, WaitersFinite
    <3> QED
      BY <3>1, <3>2, <3>4 DEF NoLostWakeup
  <2>2. CASE GetWait(w)
    <3>1. queue' = queue /\ Len(queue') = 0
      BY <2>2 DEF GetWait
    <3>2. Signalled' = Signalled \ {w}
      BY <1>4, <2>2 DEF MQGet, GetWait, Signalled, TypeOK
    <3>3. Cardinality(Signalled') \in Nat
      BY <3>2, WaitersFinite, FS_RemoveElement, FS_CardinalityType
    <3> QED
      BY <3>1, <3>3 DEF NoLostWakeup
  <2> QED
    BY <1>4, <2>1, <2>2 DEF MQGet
<1>5. ASSUME NEW w \in Workers, SpuriousGetWakeup(w)
      PROVE  NoLostWakeup'
  <2>1. /\ w \in Blocked /\ queue' = queue
        /\ Signalled' = Signalled \union {w} /\ w \notin Signalled
    BY <1>5 DEF SpuriousGetWakeup, Blocked, Signalled, TypeOK
  <2>2. Cardinality(Signalled \union {w}) = Cardinality(Signalled) + 1
    BY <2>1, WaitersFinite, FS_AddElement
  <2>3. Cardinality(Signalled) \in Nat /\ Len(queue) \in Nat
    BY WaitersFinite DEF TypeOK
  <2> QED
    BY <2>1, <2>2, <2>3 DEF NoLostWakeup
<1>6. CASE UNCHANGED vars
  BY <1>6, SameWakeup DEF vars
<1> QED
  BY <1>1, <1>2, <1>3, <1>4, <1>5, <1>6 DEF Next

-----------------------------------------------------------------------------
(* The theorems.                                                           *)

LEMMA IInvInit == Init => IInv
<1> SUFFICES ASSUME Init PROVE IInv
  OBVIOUS
<1>1. TypeOK
  BY TypeOKInit
<1>2. /\ queue = <<>> /\ Len(queue) = 0 /\ arrivals = 0 /\ dropped = {}
      /\ putState = "running" /\ got = [w \in Workers |-> 0]
      /\ getState = [w \in Workers |-> "running"]
  BY DEF Init, MQCreate
<1>3. OrderInv
  BY <1>2 DEF OrderInv, ArrivalOrder, TakenIsOlder, DroppedHaveLeft
<1>4. RoomInv
  BY <1>1, <1>2
  DEF TypeOK, RoomInv, Bounded, WaitsByPolicy, RoomWhenWoken, BlockedOnlyWhenFull
<1>5. NoLostWakeup
  BY <1>2 DEF NoLostWakeup, Blocked
<1> QED
  BY <1>1, <1>3, <1>4, <1>5 DEF IInv

LEMMA IInvStep == IInv /\ [Next]_vars => IInv'
<1> SUFFICES ASSUME IInv, [Next]_vars PROVE IInv'
  OBVIOUS
<1>1. TypeOK /\ OrderInv /\ ArrivalOrder /\ RoomInv /\ NoLostWakeup
  BY DEF IInv, OrderInv
<1>2. TypeOK'
  BY <1>1, TypeOKStep
<1>3. OrderInv' /\ RoomInv' /\ NoLostWakeup'
  BY <1>1, <1>2, OrderStep, RoomStep, WakeupStep
<1> QED
  BY <1>2, <1>3 DEF IInv

(* The inductive invariant of the monitor. *)
THEOREM Invariance == Spec => []IInv
BY IInvInit, IInvStep, PTL DEF Spec

(* A queue never outgrows its capacity (unless it waits under the random   *)
(* policy and the platform wakes waiters spuriously).                      *)
THEOREM QueueBounded == Spec => []Bounded
<1>1. IInv => Bounded
  BY DEF IInv, RoomInv
<1> QED
  BY <1>1, Invariance, PTL

(* First come, first served, across every kind of drop. *)
THEOREM QueueOrdered == Spec => []ArrivalOrder
<1>1. IInv => ArrivalOrder
  BY DEF IInv, OrderInv
<1> QED
  BY <1>1, Invariance, PTL

(* No descriptor is handed to a worker and to the drop list. *)
THEOREM DroppedNeverServed == Spec => []DroppedHaveLeft
<1>1. IInv => DroppedHaveLeft
  BY DEF IInv, OrderInv
<1> QED
  BY <1>1, Invariance, PTL

(* One pthread_cond_signal for each put wakes enough workers, and the      *)
(* producer never sleeps beside free room.                                 *)
THEOREM WakeupsSuffice == Spec => []NobodySleepsInVain
<1>1. IInv => NobodySleepsInVain
  BY DEF IInv, RoomInv, NobodySleepsInVain
<1> QED
  BY <1>1, Invariance, PTL

-----------------------------------------------------------------------------
(***************************************************************************)
(* MessageQueue implements BoundedQueue, for every set of workers, every   *)
(* capacity and policy and any number of arrivals: what the callers of     *)
(* message_queue.c see is what a set of messages would do, of which the    *)
(* oldest leaves first and which sheds only when full and by the policy.   *)
(***************************************************************************)

(* The set that the list stands for. *)
Elements(q) == {q[i] : i \in 1 .. Len(q)}

Sorted(q) == \A i, j \in 1 .. Len(q) : i < j => q[i] < q[j]

-----------------------------------------------------------------------------
(* Lemmas about sorted sequences.                                          *)

(* A sorted sequence has as many elements as positions. *)
LEMMA SortedCardinality ==
  ASSUME NEW q \in Seq(Nat), Sorted(q)
  PROVE  IsFiniteSet(Elements(q)) /\ Cardinality(Elements(q)) = Len(q)
<1>1. /\ Len(q) \in Nat
      /\ q \in [1 .. Len(q) -> Nat]
  BY LenProperties
<1>2. q \in Bijection(1 .. Len(q), Elements(q))
  <2>1. q \in [1 .. Len(q) -> Elements(q)]
    BY <1>1 DEF Elements
  <2>2. \A i, j \in 1 .. Len(q) : q[i] = q[j] => i = j
    BY <1>1 DEF Sorted
  <2>3. \A t \in Elements(q) : \E i \in 1 .. Len(q) : q[i] = t
    BY DEF Elements
  <2> QED
    BY <2>1, <2>2, <2>3 DEF Bijection, Injection, Surjection, IsInjective
<1>3. ExistsBijection(1 .. Len(q), Elements(q))
  BY <1>2 DEF ExistsBijection
<1>4. IsFiniteSet(1 .. Len(q)) /\ Cardinality(1 .. Len(q)) = Len(q)
  <2> DEFINE n == Len(q)
  <2>1. n \in Nat /\ n \in Int /\ 1 \in Int
    BY <1>1
  <2> HIDE DEF n
  <2>2. /\ IsFiniteSet(1 .. n)
        /\ Cardinality(1 .. n) = IF 1 > n THEN 0 ELSE n - 1 + 1
    BY <2>1, FS_Interval
  <2>3. Cardinality(1 .. n) = n
    BY <2>1, <2>2
  <2> QED
    BY <2>2, <2>3 DEF n
<1> QED
  BY <1>3, <1>4, FS_Bijection

(* Its oldest element is its head, and the others are its tail. *)
LEMMA SortedHead ==
  ASSUME NEW q \in Seq(Nat), Sorted(q), q # <<>>
  PROVE  /\ Elements(q) # {}
         /\ Head(q) \in Elements(q)
         /\ \A m \in Elements(q) : (\A n \in Elements(q) : m <= n) => m = Head(q)
         /\ \A n \in Elements(q) : Head(q) <= n
         /\ Elements(Tail(q)) = Elements(q) \ {Head(q)}
<1>1. /\ Len(q) \in Nat \ {0}
      /\ \A i \in 1 .. Len(q) : q[i] \in Nat
      /\ Head(q) = q[1]
      /\ Len(Tail(q)) = Len(q) - 1
      /\ \A i \in 1 .. Len(Tail(q)) : Tail(q)[i] = q[i + 1]
  BY HeadTailProperties, EmptySeq, ElementOfSeq
<1>2. Head(q) \in Elements(q)
  BY <1>1 DEF Elements
<1>3. \A n \in Elements(q) : n \in Nat /\ Head(q) <= n
  BY <1>1 DEF Elements, Sorted
<1>4. Elements(Tail(q)) = Elements(q) \ {Head(q)}
  <2>1. ASSUME NEW i \in 1 .. Len(Tail(q))
        PROVE  Tail(q)[i] \in Elements(q) \ {Head(q)}
    BY <1>1 DEF Elements, Sorted
  <2>2. ASSUME NEW i \in 1 .. Len(q), q[i] # Head(q)
        PROVE  q[i] \in Elements(Tail(q))
    <3>1. i - 1 \in 1 .. Len(Tail(q)) /\ Tail(q)[i - 1] = q[i]
      BY <1>1, <2>2
    <3> QED
      BY <3>1 DEF Elements
  <2> QED
    BY <2>1, <2>2 DEF Elements
<1> QED
  BY <1>1, <1>2, <1>3, <1>4

(* Appending adds one element. *)
LEMMA AppendElements ==
  ASSUME NEW q \in Seq(Nat), NEW m \in Nat
  PROVE  Elements(Append(q, m)) = Elements(q) \union {m}
<1>1. /\ Len(q) \in Nat
      /\ Len(Append(q, m)) = Len(q) + 1
      /\ \A i \in 1 .. Len(q) : Append(q, m)[i] = q[i]
      /\ Append(q, m)[Len(q) + 1] = m
  BY LenProperties, AppendProperties
<1>2. 1 .. Len(q) + 1 = (1 .. Len(q)) \union {Len(q) + 1}
  BY <1>1
<1> QED
  BY <1>1, <1>2 DEF Elements

-----------------------------------------------------------------------------
(* The list as a set.                                                      *)

LEMMA ListIsSet ==
  ASSUME IInv
  PROVE  /\ queue \in Seq(Nat) /\ Sorted(queue)
         /\ IsFiniteSet(Elements(queue)) /\ Cardinality(Elements(queue)) = Len(queue)
         /\ Len(queue) \in Nat /\ capacity \in Nat \ {0} /\ arrivals \in Nat
<1>1. queue \in Seq(Nat) /\ Sorted(queue) /\ capacity \in Nat \ {0} /\ arrivals \in Nat
  BY DEF IInv, TypeOK, OrderInv, ArrivalOrder, Sorted
<1> QED
  BY <1>1, SortedCardinality, LenProperties

(* The instance of FiniteSets inside Promise counts as FiniteSets does. *)
LEMMA SameCardinality == \A S : Promise!Cardinality(S) = Cardinality(S)
BY Zenon DEF Cardinality, Promise!Cardinality, IsFiniteSet, Promise!IsFiniteSet

(* A list of capacity messages is a full set of them. *)
LEMMA FullList ==
  ASSUME IInv, Len(queue) = capacity
  PROVE  Promise!Full
<1>1. Cardinality(Elements(queue)) = Len(queue)
  BY ListIsSet
<1>2. Promise!Cardinality({queue[i] : i \in 1 .. Len(queue)}) = Len(queue)
  BY <1>1, SameCardinality, Zenon DEF Elements
<1> QED
  BY <1>2, Zenon DEF Promise!Full

(* BoundedQueue's choice of the oldest message is the head of the list. *)
LEMMA OldestIsHead ==
  ASSUME IInv, queue # <<>>
  PROVE  Promise!Oldest(Elements(queue)) = Head(queue)
<1>1. queue \in Seq(Nat) /\ Sorted(queue)
  BY ListIsSet
<1>2. /\ Head(queue) \in Elements(queue)
      /\ \A m \in Elements(queue) : (\A n \in Elements(queue) : m <= n) => m = Head(queue)
      /\ \A n \in Elements(queue) : Head(queue) <= n
  BY <1>1, SortedHead
<1> QED
  BY <1>2 DEF Promise!Oldest

(* A queue that waits instead of dropping has nothing to hand back. *)
WaitsDropNothing == schedPolicy = "BLOCK" \/ ShortRandom => dropped = {}

LEMMA WaitsDropNothingStep ==
  ASSUME WaitsDropNothing, [Next]_vars
  PROVE  WaitsDropNothing'
<1> USE DEF WaitsDropNothing, ShortRandom, config
<1>1. ASSUME NEW STATE m, PutOrHandleFull(m), UNCHANGED config
      PROVE  WaitsDropNothing'
  BY <1>1 DEF PutOrHandleFull, PutInsert, PutHandleBlock, PutHandleDropTail,
     PutHandleDropHead, PutHandleDropRandom, PutHandleDropRandomFails
<1>2. CASE MQPut(arrivals + 1)
  BY <1>1, <1>2 DEF MQPut, PutFails
<1>3. CASE MQPutResume
  BY <1>1, <1>3 DEF MQPutResume, PutInsert
<1>4. CASE SpuriousPutWakeup
  BY <1>4 DEF SpuriousPutWakeup
<1>5. ASSUME NEW w \in Workers, MQGet(w) \/ SpuriousGetWakeup(w)
      PROVE  WaitsDropNothing'
  BY <1>5 DEF MQGet, SpuriousGetWakeup
<1>6. CASE UNCHANGED vars
  BY <1>6 DEF vars
<1> QED
  BY <1>2, <1>3, <1>4, <1>5, <1>6 DEF Next

-----------------------------------------------------------------------------
(* Steps.                                                                  *)

(* The message that BoundedQueue expects next is the one being put. *)
Offering(m) ==
  /\ m \in Nat
  /\ m = (IF putState = "running" THEN arrivals ELSE arrivals - 1) + 1
  /\ Newest(m)
  /\ arrivals' = m
  /\ UNCHANGED <<config, got>>

LEMMA AdmitImplements ==
  ASSUME IInv, NEW STATE m, Offering(m),
         ~(SpuriousWakeups /\ ShortRandom) => Len(queue) < capacity,
         PutInsert(queue, m, {}, "MQ_SUCCESS")
  PROVE  Promise!Put
<1>1. Elements(queue') = Elements(queue) \union {m}
  BY ListIsSet, AppendElements DEF PutInsert, Offering
<1>2. Promise!Cardinality(Elements(queue)) < capacity \/ Promise!Unbounded
  BY ListIsSet, SameCardinality DEF Promise!Unbounded, ShortRandom
<1>3. putState' = "running" /\ dropped' = {}
  BY DEF PutInsert
<1> QED
  BY <1>1, <1>2, <1>3 DEF Promise!Put, Promise!Admit, Elements, Offering, config

(* What is left of a full list after a drop, and the newcomer behind it. *)
LEMMA ShedImplements ==
  ASSUME IInv, NEW STATE m, Offering(m), Len(queue) = capacity,
         NEW STATE kept, kept \in Seq(Nat), NEW STATE drops,
         drops \in Promise!Victims(m), m \notin drops,
         Elements(kept) = Elements(queue) \ drops,
         PutInsert(kept, m, drops, "MQ_DROP")
  PROVE  Promise!Put
<1>1. Elements(queue') = Elements(kept) \union {m}
  BY AppendElements DEF PutInsert, Offering
<1>2. Elements(queue') = (Elements(queue) \union {m}) \ drops
  BY <1>1
<1>3. Promise!Full
  BY FullList
<1>4. putState' = "running" /\ dropped' = drops
  BY DEF PutInsert
<1> QED
  BY <1>2, <1>3, <1>4 DEF Promise!Put, Promise!Shed, Elements, Offering, config

LEMMA DropHeadImplements ==
  ASSUME IInv, NEW STATE m, Offering(m), Len(queue) = capacity,
         schedPolicy = "DROP_HEAD", PutHandleDropHead(m)
  PROVE  Promise!Put
<1>1. queue \in Seq(Nat) /\ Sorted(queue) /\ queue # <<>>
  BY ListIsSet, EmptySeq
<1>2. /\ Elements(Tail(queue)) = Elements(queue) \ {Head(queue)}
      /\ Head(queue) \in Elements(queue)
  BY <1>1, SortedHead
<1>3. Tail(queue) \in Seq(Nat)
  BY <1>1, HeadTailProperties
<1>4. {Head(queue)} \in Promise!Victims(m)
  BY <1>1, OldestIsHead DEF Promise!Victims, Elements
<1>5. m # Head(queue)
  BY <1>1, <1>2, ElementOfSeq DEF Offering, Newest, Elements
<1> QED
  BY <1>2, <1>3, <1>4, <1>5, ShedImplements DEF PutHandleDropHead

LEMMA DropTailImplements ==
  ASSUME IInv, NEW STATE m, Offering(m), Len(queue) = capacity,
         putState = "running", schedPolicy = "DROP_TAIL", PutHandleDropTail(m)
  PROVE  Promise!Put
<1>1. m \notin Elements(queue)
  BY ListIsSet, ElementOfSeq DEF Offering, Newest, Elements
<1>2. {m} \in Promise!Victims(m)
  BY DEF Promise!Victims
<1>3. Promise!Full
  BY FullList
<1>4. Elements(queue') = (Elements(queue) \union {m}) \ {m}
  BY <1>1 DEF PutHandleDropTail
<1>5. dropped' = {m} /\ putState' = "running"
  BY DEF PutHandleDropTail
<1> QED
  BY <1>2, <1>3, <1>4, <1>5 DEF Promise!Put, Promise!Shed, Elements, Offering, config

(* A random drop splits the list: capacity \div 4 messages go, whoever is  *)
(* left is in order.                                                       *)
LEMMA RandomDropSplits ==
  ASSUME IInv, Len(queue) = capacity, schedPolicy = "DROP_RANDOM", ~ShortRandom,
         NEW keep \in Survivors
  PROVE  /\ KeptBy(keep) \in Seq(Nat)
         /\ Elements(queue) = Elements(KeptBy(keep)) \union DroppedBy(keep)
         /\ Elements(KeptBy(keep)) \intersect DroppedBy(keep) = {}
         /\ Cardinality(DroppedBy(keep)) = capacity \div 4
         /\ DroppedBy(keep) # {}
<1> DEFINE kept == KeptBy(keep)
           drops == DroppedBy(keep)
<1>1. TypeOK /\ ArrivalOrder
  BY DEF IInv, OrderInv
<1>2. IsKept(kept, drops) /\ Len(kept) = capacity - randomDropCount
  BY <1>1, KeptRandom
<1>3. kept \in Seq(Nat) /\ Sorted(kept) /\ Elements(kept) \intersect drops = {}
  BY <1>2 DEF IsKept, Sorted, Elements
<1>4. Elements(kept) \subseteq Elements(queue) /\ drops \subseteq Elements(queue)
  BY <1>2 DEF IsKept, Elements
<1>5. Elements(queue) \subseteq Elements(kept) \union drops
  <2>1. ASSUME NEW i \in 1 .. Len(queue), queue[i] \notin drops
        PROVE  queue[i] \in Elements(kept)
    <3>1. i \in {keep[j] : j \in DOMAIN keep}
      BY <2>1 DEF DroppedBy
    <3>2. PICK j \in DOMAIN keep : i = keep[j]
      BY <3>1
    <3>3. j \in 1 .. capacity - randomDropCount /\ kept[j] = queue[i]
      BY <3>2 DEF Survivors, KeptBy
    <3> QED
      BY <1>2, <3>3 DEF Elements
  <2> QED
    BY <2>1 DEF Elements
<1>6. Elements(kept) = Elements(queue) \ drops
  BY <1>3, <1>4, <1>5
<1>7. /\ randomDropCount \in Nat /\ randomDropCount > 0
      /\ randomDropCount = capacity \div 4
  BY ListIsSet, RandomDropCountRange DEF ShortRandom, randomDropCount
<1>8. Cardinality(drops) = randomDropCount /\ IsFiniteSet(drops)
  <2>1. Cardinality(Elements(kept)) = capacity - randomDropCount
    BY <1>2, <1>3, SortedCardinality
  <2>2. /\ IsFiniteSet(Elements(queue)) /\ Cardinality(Elements(queue)) = capacity
        /\ capacity \in Nat
    BY ListIsSet
  <2>3. /\ IsFiniteSet(Elements(queue) \ drops)
        /\ Cardinality(Elements(queue) \ drops) =
             Cardinality(Elements(queue)) - Cardinality(Elements(queue) \intersect drops)
    BY <2>2, FS_Difference, Zenon
  <2>4. Elements(queue) \intersect drops = drops
    BY <1>4
  <2>5. IsFiniteSet(drops) /\ Cardinality(drops) \in Nat
    BY <1>4, <2>2, FS_Subset, FS_CardinalityType
  <2>6. capacity - randomDropCount = capacity - Cardinality(drops)
    BY <1>6, <2>1, <2>2, <2>3, <2>4
  <2> QED
    BY <1>7, <2>2, <2>5, <2>6
<1>9. drops # {}
  BY <1>7, <1>8, FS_EmptySet
<1> QED
  BY <1>3, <1>4, <1>5, <1>7, <1>8, <1>9

LEMMA DropRandomImplements ==
  ASSUME IInv, NEW STATE m, Offering(m), Len(queue) = capacity,
         schedPolicy = "DROP_RANDOM", ~ShortRandom, PutHandleDropRandom(m)
  PROVE  Promise!Put
<1>1. PICK keep \in Survivors :
        PutInsert(KeptBy(keep), m, DroppedBy(keep), "MQ_DROP")
  BY DEF PutHandleDropRandom, KeptBy, DroppedBy
<1> DEFINE kept == KeptBy(keep)
           drops == DroppedBy(keep)
<1>2. /\ kept \in Seq(Nat)
      /\ Elements(queue) = Elements(kept) \union drops
      /\ Elements(kept) \intersect drops = {}
      /\ Cardinality(drops) = capacity \div 4
      /\ drops # {}
  BY RandomDropSplits
<1>3. Elements(kept) = Elements(queue) \ drops
  BY <1>2
<1>4. drops \subseteq Elements(queue)
  BY <1>2
<1>5. drops \in Promise!Victims(m)
  BY <1>2, <1>4, SameCardinality DEF Promise!Victims, Elements
<1>6. m \notin drops
  BY <1>4, ListIsSet, ElementOfSeq DEF Offering, Newest, Elements
<1> QED
  BY <1>1, <1>2, <1>3, <1>5, <1>6, ShedImplements

(* Two ways a step is invisible to the callers. *)
LEMMA StutterImplements ==
  ASSUME UNCHANGED <<config, queue, dropped, got, arrivals>>,
         (putState' = "running") <=> (putState = "running")
  PROVE  UNCHANGED Promise!vars
BY DEF Promise!vars, config

LEMMA WaitImplements ==
  ASSUME IInv, WaitsDropNothing, schedPolicy = "BLOCK" \/ ShortRandom,
         NEW STATE m, Offering(m), PutHandleBlock
  PROVE  UNCHANGED Promise!vars
<1>1. dropped' = dropped /\ queue' = queue
  BY DEF WaitsDropNothing, PutHandleBlock
<1>2. putState' # "running" /\ arrivals' \in Nat /\ arrivals \in Nat
  BY ListIsSet DEF PutHandleBlock, Offering
<1>3. arrivals' - 1 = (IF putState = "running" THEN arrivals ELSE arrivals - 1)
  BY <1>2 DEF Offering
<1> QED
  BY <1>1, <1>2, <1>3 DEF Promise!vars, Offering, config

LEMMA FailImplements ==
  ASSUME IInv, NEW STATE m, Offering(m), MallocMayFail, putState = "running",
         dropped' = {}, UNCHANGED <<queue, putState>>
  PROVE  Promise!Put
BY DEF Promise!Put, Promise!Fail, Offering, config

LEMMA PutOrHandleFullImplements ==
  ASSUME IInv, WaitsDropNothing, NEW STATE m, Offering(m), PutOrHandleFull(m),
         putState \in {"running", "signalled"}
  PROVE  Promise!Put \/ UNCHANGED Promise!vars
<1>1. /\ Len(queue) \in Nat /\ capacity \in Nat
      /\ Bounded /\ WaitsByPolicy
  BY ListIsSet DEF IInv, RoomInv
<1>2. CASE Len(queue) # capacity /\ PutInsert(queue, m, {}, "MQ_SUCCESS")
  <2>1. ~(SpuriousWakeups /\ ShortRandom) => Len(queue) < capacity
    BY <1>1, <1>2 DEF Bounded
  <2> QED
    BY <1>2, <2>1, AdmitImplements
<1>3. CASE PutHandleBlock /\ (schedPolicy = "BLOCK" \/ ShortRandom)
  BY <1>3, WaitImplements
<1>4. ASSUME schedPolicy \in {"DROP_TAIL", "DROP_HEAD", "DROP_RANDOM"}, ~ShortRandom
      PROVE  putState = "running"
  BY <1>1, <1>4 DEF WaitsByPolicy
<1>5. CASE Len(queue) = capacity /\ schedPolicy = "DROP_TAIL" /\ PutHandleDropTail(m)
  BY <1>4, <1>5, DropTailImplements DEF ShortRandom
<1>6. CASE Len(queue) = capacity /\ schedPolicy = "DROP_HEAD" /\ PutHandleDropHead(m)
  BY <1>6, DropHeadImplements
<1>7. CASE /\ Len(queue) = capacity /\ schedPolicy = "DROP_RANDOM" /\ ~ShortRandom
           /\ PutHandleDropRandom(m)
  BY <1>7, DropRandomImplements
<1>8. CASE schedPolicy = "DROP_RANDOM" /\ ~ShortRandom /\ PutHandleDropRandomFails
  BY <1>4, <1>8, FailImplements DEF PutHandleDropRandomFails
<1> QED
  BY <1>2, <1>3, <1>5, <1>6, <1>7, <1>8 DEF PutOrHandleFull

LEMMA GetImplements ==
  ASSUME IInv, NEW w \in Workers, MQGet(w)
  PROVE  Promise!Get(w) \/ UNCHANGED Promise!vars
<1>1. CASE GetTake(w)
  <2>1. queue \in Seq(Nat) /\ Sorted(queue) /\ queue # <<>>
    BY <1>1, ListIsSet DEF GetTake
  <2>2. /\ Elements(queue) # {}
        /\ Elements(queue') = Elements(queue) \ {Head(queue)}
    BY <1>1, <2>1, SortedHead DEF GetTake
  <2>3. Promise!Oldest(Elements(queue)) = Head(queue)
    BY <2>1, OldestIsHead
  <2>4. (putState' = "running") <=> (putState = "running")
    BY <1>1 DEF GetTake, SignalGet
  <2>5. got' = [got EXCEPT ![w] = Head(queue)]
    BY <1>1 DEF GetTake
  <2>6. UNCHANGED <<config, arrivals, dropped>>
    BY DEF MQGet
  <2> QED
    BY <2>2, <2>3, <2>4, <2>5, <2>6 DEF Promise!Get, Elements, config
<1>2. CASE GetWait(w)
  BY <1>2, StutterImplements DEF GetWait, MQGet
<1> QED
  BY <1>1, <1>2 DEF MQGet

LEMMA MQPutOffers ==
  ASSUME IInv, MQPut(arrivals + 1)
  PROVE  Offering(arrivals + 1)
<1>1. arrivals \in Nat /\ ArrivalOrder /\ TakenIsOlder /\ TypeOK
  BY ListIsSet DEF IInv, OrderInv
<1> QED
  BY <1>1, ElementOfSeq
  DEF MQPut, Offering, Newest, ArrivalOrder, TakenIsOlder, TypeOK

LEMMA MQPutResumeOffers ==
  ASSUME IInv, MQPutResume
  PROVE  Offering(arrivals) /\ putState = "signalled"
<1>1. arrivals \in Nat /\ ArrivalOrder /\ TakenIsOlder
  BY ListIsSet DEF IInv, OrderInv
<1> QED
  BY <1>1 DEF MQPutResume, Offering, Newest, ArrivalOrder, TakenIsOlder

LEMMA StepImplements ==
  ASSUME IInv, WaitsDropNothing, [Next]_vars
  PROVE  [Promise!Next]_(Promise!vars)
<1>1. CASE MQPut(arrivals + 1)
  <2>1. Offering(arrivals + 1)
    BY <1>1, MQPutOffers
  <2>2. CASE PutFails
    BY <1>1, <2>1, <2>2, FailImplements DEF MQPut, PutFails, Promise!Next
  <2>3. CASE PutOrHandleFull(arrivals + 1)
    BY <1>1, <2>1, <2>3, PutOrHandleFullImplements DEF MQPut, Promise!Next
  <2> QED
    BY <1>1, <2>2, <2>3 DEF MQPut
<1>2. CASE MQPutResume
  <2>1. UNCHANGED <<config, arrivals, got>>
    BY <1>2 DEF MQPutResume
  <2>2. Offering(arrivals) /\ putState = "signalled"
    BY <1>2, MQPutResumeOffers
  <2>3. CASE PutOrHandleFull(arrivals)
    BY <2>2, <2>3, PutOrHandleFullImplements DEF Promise!Next
  <2>4. CASE ShortRandom /\ PutInsert(queue, arrivals, {}, "MQ_SUCCESS")
    <3>1. ~(SpuriousWakeups /\ ShortRandom) => Len(queue) < capacity
      BY <2>2, <2>4, MQAssumption DEF IInv, RoomInv, RoomWhenWoken
    <3> QED
      BY <2>2, <2>4, <3>1, AdmitImplements DEF Promise!Next
  <2> QED
    BY <1>2, <2>3, <2>4 DEF MQPutResume
<1>3. CASE SpuriousPutWakeup
  BY <1>3, StutterImplements DEF SpuriousPutWakeup
<1>4. ASSUME NEW w \in Workers, MQGet(w)
      PROVE  [Promise!Next]_(Promise!vars)
  BY <1>4, GetImplements DEF Promise!Next
<1>5. ASSUME NEW w \in Workers, SpuriousGetWakeup(w)
      PROVE  [Promise!Next]_(Promise!vars)
  BY <1>5, StutterImplements DEF SpuriousGetWakeup
<1>6. CASE UNCHANGED vars
  BY <1>6, StutterImplements DEF vars
<1> QED
  BY <1>1, <1>2, <1>3, <1>4, <1>5, <1>6 DEF Next

-----------------------------------------------------------------------------
(* What a caller learns from the return of a call: where the message that  *)
(* it put is now, and which message it got.  WebServerProofs uses these.   *)

AccountsFor(m) ==
  \/ /\ putState' # "running"
     /\ Elements(queue') = Elements(queue)
  \/ /\ putState' = "running" /\ putRetCode' = "MQ_SUCCESS"
     /\ Elements(queue') = Elements(queue) \union {m}
  \/ /\ putState' = "running" /\ putRetCode' = "MQ_DROP"
     /\ Elements(queue') \union dropped' = Elements(queue) \union {m}
     /\ dropped' # {}
  \/ /\ putState' = "running" /\ putRetCode' = "MQ_ERR_MEMORY_FAIL"
     /\ Elements(queue') = Elements(queue)

LEMMA PutOrHandleFullAccounts ==
  ASSUME IInv, WaitsDropNothing, NEW STATE m, Offering(m), PutOrHandleFull(m),
         putState \in {"running", "signalled"}
  PROVE  AccountsFor(m)
<1>1. queue \in Seq(Nat) /\ Sorted(queue) /\ m \in Nat /\ capacity \in Nat \ {0}
  BY ListIsSet DEF Offering
<1>2. ASSUME schedPolicy \in {"DROP_TAIL", "DROP_HEAD", "DROP_RANDOM"}, ~ShortRandom
      PROVE  putState = "running"
  BY <1>2 DEF IInv, RoomInv, WaitsByPolicy
<1>3. CASE PutInsert(queue, m, {}, "MQ_SUCCESS")
  BY <1>1, <1>3, AppendElements DEF PutInsert, AccountsFor
<1>4. CASE PutHandleBlock
  BY <1>4 DEF PutHandleBlock, AccountsFor
<1>5. CASE schedPolicy = "DROP_TAIL" /\ PutHandleDropTail(m)
  BY <1>2, <1>5 DEF PutHandleDropTail, AccountsFor, ShortRandom
<1>6. CASE Len(queue) = capacity /\ PutHandleDropHead(m)
  <2>1. queue # <<>>
    BY <1>1, <1>6, EmptySeq
  <2>2. /\ Elements(Tail(queue)) = Elements(queue) \ {Head(queue)}
        /\ Head(queue) \in Elements(queue) /\ Tail(queue) \in Seq(Nat)
    BY <1>1, <2>1, SortedHead, HeadTailProperties
  <2>3. Elements(queue') = Elements(Tail(queue)) \union {m}
    BY <1>1, <1>6, <2>2, AppendElements DEF PutHandleDropHead, PutInsert
  <2>4. /\ putState' = "running" /\ putRetCode' = "MQ_DROP"
        /\ dropped' = {Head(queue)}
    BY <1>6 DEF PutHandleDropHead, PutInsert
  <2> QED
    BY <2>2, <2>3, <2>4 DEF AccountsFor
<1>7. CASE schedPolicy = "DROP_RANDOM" /\ ~ShortRandom /\ PutHandleDropRandom(m)
           /\ Len(queue) = capacity
  <2>1. PICK keep \in Survivors :
          PutInsert(KeptBy(keep), m, DroppedBy(keep), "MQ_DROP")
    BY <1>7 DEF PutHandleDropRandom, KeptBy, DroppedBy
  <2>2. KeptBy(keep) \in Seq(Nat) /\ DroppedBy(keep) # {}
        /\ Elements(queue) = Elements(KeptBy(keep)) \union DroppedBy(keep)
    BY <1>7, RandomDropSplits
  <2>3. Elements(queue') = Elements(KeptBy(keep)) \union {m}
    BY <1>1, <2>1, <2>2, AppendElements DEF PutInsert
  <2>4. /\ putState' = "running" /\ putRetCode' = "MQ_DROP"
        /\ dropped' = DroppedBy(keep)
    BY <2>1 DEF PutInsert
  <2> QED
    BY <2>2, <2>3, <2>4 DEF AccountsFor
<1>8. CASE schedPolicy = "DROP_RANDOM" /\ ~ShortRandom /\ PutHandleDropRandomFails
  BY <1>2, <1>8 DEF PutHandleDropRandomFails, AccountsFor
<1> QED
  BY <1>3, <1>4, <1>5, <1>6, <1>7, <1>8 DEF PutOrHandleFull

LEMMA PutAccounts ==
  ASSUME IInv, WaitsDropNothing, MQPut(arrivals + 1)
  PROVE  AccountsFor(arrivals + 1) /\ arrivals' = arrivals + 1 /\ got' = got
<1>1. Offering(arrivals + 1)
  BY MQPutOffers
<1>2. CASE PutFails
  BY <1>2 DEF PutFails, MQPut, AccountsFor
<1>3. CASE PutOrHandleFull(arrivals + 1)
  BY <1>1, <1>3, PutOrHandleFullAccounts DEF MQPut
<1> QED
  BY <1>2, <1>3 DEF MQPut

LEMMA ResumeAccounts ==
  ASSUME IInv, WaitsDropNothing, MQPutResume
  PROVE  AccountsFor(arrivals) /\ arrivals' = arrivals /\ got' = got
<1>1. Offering(arrivals) /\ putState = "signalled"
  BY MQPutResumeOffers
<1>2. arrivals' = arrivals /\ got' = got
  BY DEF MQPutResume
<1>3. CASE PutOrHandleFull(arrivals)
  BY <1>1, <1>2, <1>3, PutOrHandleFullAccounts
<1>4. CASE PutInsert(queue, arrivals, {}, "MQ_SUCCESS")
  BY <1>2, <1>4, ListIsSet, AppendElements DEF PutInsert, AccountsFor
<1> QED
  BY <1>3, <1>4 DEF MQPutResume

LEMMA GetAccounts ==
  ASSUME IInv, NEW w \in Workers, MQGet(w)
  PROVE  /\ UNCHANGED <<arrivals, dropped>>
         /\ (putState' = "running") <=> (putState = "running")
         /\ \/ got' = got /\ queue' = queue
            \/ /\ Head(queue) \in Elements(queue)
               /\ Elements(queue') = Elements(queue) \ {Head(queue)}
               /\ got' = [got EXCEPT ![w] = Head(queue)]
               /\ got' # got
<1>1. CASE GetTake(w)
  <2>1. queue \in Seq(Nat) /\ Sorted(queue) /\ queue # <<>>
    BY <1>1, ListIsSet DEF GetTake
  <2>2. /\ Head(queue) \in Elements(queue)
        /\ Elements(queue') = Elements(queue) \ {Head(queue)}
    BY <1>1, <2>1, SortedHead DEF GetTake
  <2>3. got' = [got EXCEPT ![w] = Head(queue)] /\ got \in [Workers -> Nat]
    BY <1>1 DEF GetTake, IInv, TypeOK
  <2>4. got[w] < Head(queue) /\ Head(queue) \in Nat
    BY <2>1, <2>2 DEF Elements, IInv, OrderInv, ArrivalOrder, TypeOK
  <2>5. got' # got
    BY <2>3, <2>4
  <2>6. (putState' = "running") <=> (putState = "running")
    BY <1>1 DEF GetTake, SignalGet
  <2> QED
    BY <2>2, <2>3, <2>5, <2>6 DEF MQGet
<1>2. CASE GetWait(w)
  BY <1>2 DEF GetWait, MQGet
<1> QED
  BY <1>1, <1>2 DEF MQGet

-----------------------------------------------------------------------------
(* The theorem.                                                            *)

LEMMA InitImplements == Init => Promise!Init /\ WaitsDropNothing
BY DEF Init, MQCreate, Promise!Init, WaitsDropNothing

-----------------------------------------------------------------------------
(* What the callers of the monitor of message_queue.c see is a behaviour   *)
(* of the bounded queue: no message is lost or served twice, the oldest    *)
(* leaves first, and one is shed only when the queue is full and by the    *)
(* policy, for every pool, every capacity and every interleaving.          *)
THEOREM MonitorImplementsQueue == Spec => ImplementsPromise
<1>1. Init => Promise!Init /\ WaitsDropNothing
  BY InitImplements
<1>2. WaitsDropNothing /\ [Next]_vars => WaitsDropNothing'
  BY WaitsDropNothingStep
<1>3. IInv /\ WaitsDropNothing /\ [Next]_vars => [Promise!Next]_(Promise!vars)
  BY StepImplements
<1> QED
  BY <1>1, <1>2, <1>3, Invariance, PTL DEF Spec, ImplementsPromise, Promise!Spec
=============================================================================
