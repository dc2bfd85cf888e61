--------------------------- MODULE WebServerProofs ---------------------------
(***************************************************************************)
(* Proofs about WebServer, for any number of threads, descriptors and      *)
(* connections, every capacity and policy, and whatever the clients do.    *)
(*                                                                         *)
(* The server is the monitor of MessageQueue with more around it, so what  *)
(* is proved of the monitor is instantiated here (MQP) and carried to the  *)
(* server by the fact that every server step is a queue step or none.      *)
(***************************************************************************)
EXTENDS WebServer, FiniteSetTheorems, WellFoundedInduction, TLAPS

MQP == INSTANCE MessageQueueProofs WITH Configs <- QueueConfigs

-----------------------------------------------------------------------------
(* The queue of WebServer is the queue of the proofs.                      *)

LEMMA QueueAssumption == MQP!MQAssumption
<1>1. \A S : MQP!IsFiniteSet(S) <=> MQ!IsFiniteSet(S)
  BY Zenon DEF MQ!IsFiniteSet, MQP!IsFiniteSet
<1> QED
  BY <1>1, ServerAssumption
  DEF MQP!MQAssumption, MQ!MQAssumption, MQP!Policies, MQ!Policies

LEMMA WorkersFinite ==
  /\ IsFiniteSet(Workers) /\ Cardinality(Workers) \in Nat
  /\ MaxArrivals \in Nat
<1>1. \A S : MQ!IsFiniteSet(S) <=> IsFiniteSet(S)
  BY Zenon DEF MQ!IsFiniteSet, IsFiniteSet
<1> QED
  BY <1>1, ServerAssumption, FS_CardinalityType DEF MQ!MQAssumption

LEMMA SamePut == ASSUME NEW STATE m, MQ!MQPut(m) PROVE MQP!MQPut(m)
BY DEF MQ!MQPut, MQ!PutFails, MQ!PutOrHandleFull, MQ!PutInsert, MQ!PutHandleBlock,
   MQ!PutHandleDropTail, MQ!PutHandleDropHead, MQ!PutHandleDropRandom,
   MQ!PutHandleDropRandomFails, MQ!Survivors, MQ!randomDropCount, MQ!ShortRandom,
   MQ!SignalPut, MQ!Blocked, MQ!config,
   MQP!MQPut, MQP!PutFails, MQP!PutOrHandleFull, MQP!PutInsert, MQP!PutHandleBlock,
   MQP!PutHandleDropTail, MQP!PutHandleDropHead, MQP!PutHandleDropRandom,
   MQP!PutHandleDropRandomFails, MQP!Survivors, MQP!randomDropCount, MQP!ShortRandom,
   MQP!SignalPut, MQP!Blocked, MQP!config

LEMMA SameResume == MQ!MQPutResume => MQP!MQPutResume
BY DEF MQ!MQPutResume, MQ!PutOrHandleFull, MQ!PutInsert, MQ!PutHandleBlock,
   MQ!PutHandleDropTail, MQ!PutHandleDropHead, MQ!PutHandleDropRandom,
   MQ!PutHandleDropRandomFails, MQ!Survivors, MQ!randomDropCount, MQ!ShortRandom,
   MQ!SignalPut, MQ!Blocked, MQ!config,
   MQP!MQPutResume, MQP!PutOrHandleFull, MQP!PutInsert, MQP!PutHandleBlock,
   MQP!PutHandleDropTail, MQP!PutHandleDropHead, MQP!PutHandleDropRandom,
   MQP!PutHandleDropRandomFails, MQP!Survivors, MQP!randomDropCount, MQP!ShortRandom,
   MQP!SignalPut, MQP!Blocked, MQP!config

LEMMA SameGet == ASSUME NEW w, MQ!MQGet(w) PROVE MQP!MQGet(w)
BY DEF MQ!MQGet, MQ!GetTake, MQ!GetWait, MQ!SignalGet, MQ!config,
   MQP!MQGet, MQP!GetTake, MQP!GetWait, MQP!SignalGet, MQP!config

LEMMA SameSpurious ==
  /\ MQ!SpuriousPutWakeup => MQP!SpuriousPutWakeup
  /\ \A w : MQ!SpuriousGetWakeup(w) => MQP!SpuriousGetWakeup(w)
BY DEF MQ!SpuriousPutWakeup, MQ!SpuriousGetWakeup, MQ!config,
   MQP!SpuriousPutWakeup, MQP!SpuriousGetWakeup, MQP!config

LEMMA SameInit == MQ!Init => MQP!Init
BY DEF MQ!Init, MQ!MQCreate, MQP!Init, MQP!MQCreate

LEMMA SameVars == UNCHANGED queueVars => UNCHANGED MQ!vars /\ UNCHANGED MQP!vars
BY DEF queueVars, MQ!vars, MQ!config, MQP!vars, MQP!config

LEMMA SameTypes == MQP!TypeOK <=> MQ!TypeOK
BY DEF MQ!TypeOK, MQ!Policies, MQ!ThreadStates, MQ!MQRetCodes,
   MQP!TypeOK, MQP!Policies, MQP!ThreadStates, MQP!MQRetCodes

(* What the proofs about the monitor say of one step. *)
QueueInv == MQP!IInv /\ MQP!WaitsDropNothing

LEMMA QueueInvInit == MQ!Init => QueueInv
BY SameInit, QueueAssumption, MQP!IInvInit, MQP!InitImplements
DEF QueueInv, MQP!MQAssumption

LEMMA QueueInvStep == QueueInv /\ [MQP!Next]_(MQP!vars) => QueueInv'
<1>1. MQP!IInv /\ [MQP!Next]_(MQP!vars) => MQP!IInv'
  BY QueueAssumption, MQP!IInvStep, Zenon DEF MQP!MQAssumption
<1>2. MQP!WaitsDropNothing /\ [MQP!Next]_(MQP!vars) => MQP!WaitsDropNothing'
  BY QueueAssumption, MQP!WaitsDropNothingStep, Zenon DEF MQP!MQAssumption
<1> QED
  BY <1>1, <1>2 DEF QueueInv

(* What QueueInv says in the terms of the server. *)
LEMMA QueueFacts ==
  ASSUME QueueInv
  PROVE  /\ capacity \in Nat \ {0} /\ arrivals \in Nat
         /\ got \in [Workers -> Nat] /\ dropped \subseteq Nat
         /\ putState \in {"running", "blocked", "signalled"}
         /\ \A n \in Queued : /\ n \in Nat /\ n <= arrivals
                              /\ putState # "running" => n < arrivals
                              /\ n \notin dropped
                              /\ \A w \in Workers : got[w] < n
         /\ \A w \in Workers : /\ got[w] <= arrivals
                               /\ putState # "running" => got[w] < arrivals
                               /\ got[w] \notin dropped
<1>1. MQP!TypeOK /\ MQP!ArrivalOrder /\ MQP!TakenIsOlder /\ MQP!DroppedHaveLeft
  BY DEF QueueInv, MQP!IInv, MQP!OrderInv
<1>2. /\ capacity \in Nat \ {0} /\ arrivals \in Nat
      /\ got \in [Workers -> Nat] /\ dropped \subseteq Nat
      /\ putState \in {"running", "blocked", "signalled"}
      /\ queue \in Seq(Nat)
  BY <1>1 DEF MQP!TypeOK, MQP!ThreadStates
<1>3. \A i \in 1 .. Len(queue) : queue[i] \in Nat
  BY <1>2
<1> QED
  BY <1>1, <1>2, <1>3
  DEF MQP!ArrivalOrder, MQP!TakenIsOlder, MQP!DroppedHaveLeft, Queued

LEMMA QueueSize ==
  ASSUME QueueInv
  PROVE  /\ IsFiniteSet(Queued) /\ Cardinality(Queued) = Len(queue)
         /\ Len(queue) \in Nat
         /\ ~(SpuriousWakeups /\ MQ!ShortRandom) => Len(queue) <= capacity
<1>1. /\ MQP!IsFiniteSet(Queued) /\ MQP!Cardinality(Queued) = Len(queue)
      /\ Len(queue) \in Nat
  BY QueueAssumption, MQP!ListIsSet DEF QueueInv, MQP!MQAssumption, Queued, MQP!Elements
<1>2. MQP!IsFiniteSet(Queued) <=> IsFiniteSet(Queued)
  BY Zenon DEF IsFiniteSet, MQP!IsFiniteSet
<1>3. MQP!Cardinality(Queued) = Cardinality(Queued)
  BY Zenon DEF Cardinality, MQP!Cardinality
<1>4. ~(SpuriousWakeups /\ MQ!ShortRandom) => Len(queue) <= capacity
  BY DEF QueueInv, MQP!IInv, MQP!RoomInv, MQP!Bounded, MQP!ShortRandom, MQ!ShortRandom
<1> QED
  BY <1>1, <1>2, <1>3, <1>4

(* Where the message that was put is when MQPut returns, or waits. *)
AccountsFor(m) ==
  \/ /\ putState' # "running"
     /\ Queued' = Queued
  \/ /\ putState' = "running" /\ putRetCode' = "MQ_SUCCESS"
     /\ Queued' = Queued \union {m}
  \/ /\ putState' = "running" /\ putRetCode' = "MQ_DROP"
     /\ Queued' \union dropped' = Queued \union {m}
     /\ dropped' # {}
  \/ /\ putState' = "running" /\ putRetCode' = "MQ_ERR_MEMORY_FAIL"
     /\ Queued' = Queued

LEMMA SameAccounts == ASSUME NEW STATE m, MQP!AccountsFor(m) PROVE AccountsFor(m)
BY DEF AccountsFor, MQP!AccountsFor, MQP!Elements, Queued

LEMMA PutAccounts ==
  ASSUME QueueInv, MQ!MQPut(arrivals + 1)
  PROVE  AccountsFor(arrivals + 1) /\ arrivals' = arrivals + 1 /\ got' = got
<1>1. MQP!MQPut(arrivals + 1)
  BY SamePut
<1>2. MQP!AccountsFor(arrivals + 1) /\ arrivals' = arrivals + 1 /\ got' = got
  BY <1>1, QueueAssumption, MQP!PutAccounts DEF QueueInv, MQP!MQAssumption
<1> QED
  BY <1>2, SameAccounts

LEMMA ResumeAccounts ==
  ASSUME QueueInv, MQ!MQPutResume
  PROVE  AccountsFor(arrivals) /\ arrivals' = arrivals /\ got' = got
<1>1. MQP!AccountsFor(arrivals) /\ arrivals' = arrivals /\ got' = got
  BY SameResume, QueueAssumption, MQP!ResumeAccounts DEF QueueInv, MQP!MQAssumption
<1> QED
  BY <1>1, SameAccounts

LEMMA GetAccounts ==
  ASSUME QueueInv, NEW w \in Workers, MQ!MQGet(w)
  PROVE  /\ UNCHANGED <<arrivals, dropped>>
         /\ (putState' = "running") <=> (putState = "running")
         /\ \/ got' = got /\ Queued' = Queued
            \/ /\ got' # got
               /\ \E n \in Queued : /\ Queued' = Queued \ {n}
                                    /\ got' = [got EXCEPT ![w] = n]
<1>1. MQP!MQGet(w)
  BY SameGet
<1> QED
  BY <1>1, QueueAssumption, MQP!GetAccounts
  DEF QueueInv, MQP!MQAssumption, MQP!Elements, Queued

LEMMA SpuriousKeeps ==
  ASSUME QueueInv, SpuriousWakeup
  PROVE  /\ UNCHANGED <<queue, arrivals, dropped, got>>
         /\ (putState' = "running") <=> (putState = "running")
BY DEF SpuriousWakeup, MQ!SpuriousPutWakeup, MQ!SpuriousGetWakeup

-----------------------------------------------------------------------------
(* The table of descriptors.                                               *)

LEMMA LeastElement ==
  ASSUME NEW S, S \subseteq Nat, S # {}
  PROVE  \E x \in S : \A y \in S : x <= y
<1> DEFINE R == {p \in Nat \X Nat : p[1] < p[2]}
<1>1. IsWellFoundedOn(R, Nat)
  BY NatLessThanWellFounded DEF OpToRel
<1>2. \A x, y \in Nat : y < x => <<y, x>> \in R
  OBVIOUS
<1> HIDE DEF R
<1>3. PICK x \in S : \A y \in S : ~(<<y, x>> \in R)
  BY <1>1, WFMin, Zenon
<1>4. ASSUME NEW y \in S PROVE x <= y
  <2>1. ~(y < x)
    BY <1>2, <1>3
  <2> QED
    BY <2>1
<1> QED
  BY <1>4

LEMMA NextFdFree == FreeFds # {} => NextFd \in Fds /\ fdTable[NextFd] = Free
<1>1. FreeFds \subseteq Nat
  BY ServerAssumption DEF FreeFds
<1> QED
  BY <1>1, LeastElement DEF NextFd, FreeFds

(* table tells for each descriptor of connection n and of the file that w  *)
(* maps, and for no other descriptor, what it is: owned are the open       *)
(* connections, of their descriptors, mapping the workers with an open     *)
(* file and src the descriptors of these.                                  *)
Denotes(table, of, owned, mapping, src) ==
  /\ owned \subseteq 1 .. MaxArrivals
  /\ \A n \in owned : of[n] \in Fds /\ table[of[n]] = n
  /\ \A fd \in Fds :
       \/ table[fd] = Free
       \/ table[fd] = File /\ \E w \in mapping : src[w] = fd
       \/ table[fd] \in owned /\ of[table[fd]] = fd
  /\ \A w \in mapping : src[w] \in Fds /\ table[src[w]] = File
  /\ \A v, w \in mapping : src[v] = src[w] => v = w

Tables == [Fds -> {Free, File} \union 1 .. MaxArrivals]
Numbers == [1 .. MaxArrivals -> Fds \union {None}]
Sources == [Workers -> Fds \union {None}]

LEMMA DenotesOpen ==
  ASSUME NEW table \in Tables, NEW of \in Numbers, NEW owned, NEW mapping, NEW src,
         Denotes(table, of, owned, mapping, src),
         NEW n \in 1 .. MaxArrivals, n \notin owned,
         NEW fd \in Fds, table[fd] = Free
  PROVE  Denotes([table EXCEPT ![fd] = n], [of EXCEPT ![n] = fd], owned \union {n},
                 mapping, src)
BY WorkersFinite DEF Denotes, Tables, Numbers, Free, File

LEMMA DenotesClose ==
  ASSUME NEW table \in Tables, NEW of \in Numbers, NEW owned, NEW mapping, NEW src,
         Denotes(table, of, owned, mapping, src), NEW n \in owned
  PROVE  /\ Denotes([table EXCEPT ![of[n]] = Free], of, owned \ {n}, mapping, src)
         /\ table[of[n]] # Free
BY WorkersFinite DEF Denotes, Tables, Numbers, Free, File

LEMMA DenotesOpenFile ==
  ASSUME NEW table \in Tables, NEW of, NEW owned, NEW mapping, mapping \subseteq Workers,
         NEW src \in Sources,
         Denotes(table, of, owned, mapping, src),
         NEW w \in Workers, w \notin mapping, NEW fd \in Fds, table[fd] = Free
  PROVE  Denotes([table EXCEPT ![fd] = File], of, owned, mapping \union {w},
                 [src EXCEPT ![w] = fd])
BY WorkersFinite DEF Denotes, Tables, Sources, Free, File

LEMMA DenotesCloseFile ==
  ASSUME NEW table \in Tables, NEW of, NEW owned, NEW mapping, mapping \subseteq Workers,
         NEW src \in Sources,
         Denotes(table, of, owned, mapping, src), NEW w \in mapping
  PROVE  /\ Denotes([table EXCEPT ![src[w]] = Free], of, owned, mapping \ {w},
                    [src EXCEPT ![w] = None])
         /\ table[src[w]] # Free
BY WorkersFinite DEF Denotes, Tables, Sources, Free, File

-----------------------------------------------------------------------------
(* The inductive invariant.                                                *)

MainStates == {"createPool", "createQueue", "addThreads", "startThreads", "listening",
               "accept", "put", "putting", "dropping"}
Jobs == {"idle", "reading", "stuck", "mapping", "waiting", "closing"}

TypeInv ==
  /\ threadPoolSize \in Nat /\ clients \in 0 .. MaxArrivals
  /\ pool \subseteq Workers /\ running \subseteq Workers
  /\ hasDropArray \in BOOLEAN
  /\ fdTable \in Tables /\ fdOf \in Numbers /\ srcfd \in Sources
  /\ mainState \in MainStates
  /\ job \in [Workers -> Jobs]
  /\ cgi \in [Workers -> SUBSET (1 .. MaxArrivals)]
  /\ jobCount \in [Workers -> Nat]
  /\ staticCount \in [Workers -> Nat]
  /\ dynamicCount \in [Workers -> Nat]
  /\ metaData \in [Workers -> MetaData]
  /\ status \in Statuses

AllOfPool == {"pool", "functions", "threads", "args"}

(* Where the start is. *)
StartInv ==
  /\ mainState \in {"createPool", "createQueue"} => pool = {}
  /\ mainState \in {"createPool", "createQueue", "addThreads"} => running = {}
  /\ Up => /\ mainState = "createPool" => blocks = {}
           /\ mainState = "createQueue" => blocks = AllOfPool
  /\ mainState \notin {"createPool", "createQueue"} => blocks = AllOfPool \union {"queue"}
  /\ Cardinality(pool \union running) <= threadPoolSize

(* Only numbers of connections are in play, and the main thread is inside  *)
(* MQPut exactly when its state says so.                                   *)
NumbersInv ==
  /\ arrivals \in 0 .. MaxArrivals
  /\ Queued \subseteq 1 .. MaxArrivals
  /\ toClose \subseteq 1 .. MaxArrivals
  /\ Up => /\ mainState = "put" => arrivals < MaxArrivals
           /\ mainState = "putting" => arrivals >= 1
           /\ (mainState = "putting") <=> (putState # "running")
           /\ toClose \subseteq dropped
           /\ mainState # "dropping" => toClose = {}

Busy == {w \in Workers : job[w] # "idle"}
Serving == {got[w] : w \in Busy}
Mapping == {w \in Workers : job[w] = "mapping"}
Owned == MainHolds \union Queued \union Serving

BusyInv ==
  /\ Busy \subseteq running
  /\ Up => /\ Serving \subseteq 1 .. MaxArrivals
           /\ \A v, w \in Busy : got[v] = got[w] => v = w

FdInv == Up => Denotes(fdTable, fdOf, Owned, Mapping, srcfd)

NoEBADF == status # "EBADF"

(* With both, nobody owns a connection that another one owns. *)
LEMMA Apart ==
  ASSUME QueueInv, NumbersInv, Up
  PROVE  /\ MainHolds \intersect Queued = {}
         /\ \A w \in Workers : got[w] \notin MainHolds \union Queued
BY QueueFacts DEF NumbersInv, MainHolds

(* Nothing revives a process that ended. *)
LEMMA StillUp ==
  ASSUME [Next]_vars, Up'
  PROVE  /\ Up
         /\ \/ Start \/ MainThread \/ SpuriousWakeup
            \/ \E w \in Workers : WorkerThread(w) \/ CgiExits(w)
            \/ UNCHANGED vars
<1>1. CASE UNCHANGED vars
  BY <1>1 DEF vars, Up
<1>2. ASSUME NEW w \in Workers, CgiExits(w) PROVE Up
  BY <1>2 DEF CgiExits, Up
<1> QED
  BY <1>1, <1>2 DEF Next

LEMMA NotUpSteps ==
  ASSUME [Next]_vars, ~Up
  PROVE  UNCHANGED <<queueVars, startVars, fdTable, mainVars, job, srcfd, counters, status>>
<1>1. CASE UNCHANGED vars
  BY <1>1 DEF vars, workerVars
<1>2. ASSUME NEW w \in Workers, CgiExits(w)
      PROVE  UNCHANGED <<queueVars, startVars, fdTable, mainVars, job, srcfd, counters,
                         status>>
  BY <1>2 DEF CgiExits
<1> QED
  BY <1>1, <1>2 DEF Next

LEMMA ExitEnds == ASSUME NEW r, r # "up", Exit(r) PROVE ~Up'
BY DEF Exit, Up

(* Every server step is a step of the monitor or leaves it alone. *)
LEMMA QueueStep ==
  ASSUME QueueInv, NumbersInv, [Next]_vars
  PROVE  [MQ!Next]_(MQ!vars) /\ [MQP!Next]_(MQP!vars)
<1> DEFINE Goal == [MQ!Next]_(MQ!vars) /\ [MQP!Next]_(MQP!vars)
<1>1. CASE UNCHANGED queueVars
  BY <1>1, SameVars
<1>2. CASE UNCHANGED vars
  BY <1>1, <1>2 DEF vars
<1>3. CASE Start
  BY <1>1, <1>3
  DEF Start, ThreadPoolCreate, MQCreate, TPAddThread, ThreadsAdded, StartThread,
      OpenListenfd, AllocateDropArray
<1>4. CASE Up /\ MainThread
  <2>1. CASE AcceptConnection \/ AcceptFails \/ NoMessage \/ CloseDropped
    BY <1>1, <2>1 DEF AcceptConnection, AcceptFails, NoMessage, CloseDropped
  <2>2. CASE PutConnection
    <3>1. arrivals < MaxArrivals /\ MQ!MQPut(arrivals + 1)
      BY <1>4, <2>2 DEF PutConnection, NumbersInv
    <3>2. MQP!MQPut(arrivals + 1)
      BY <3>1, SamePut
    <3> QED
      BY <3>1, <3>2 DEF MQ!Next, MQP!Next
  <2>3. CASE ResumePut
    BY <2>3, SameResume DEF ResumePut, MQ!Next, MQP!Next
  <2> QED
    BY <1>4, <2>1, <2>2, <2>3 DEF MainThread
<1>5. CASE SpuriousWakeup
  BY <1>5, SameSpurious DEF SpuriousWakeup, MQ!Next, MQP!Next
<1>6. ASSUME NEW w \in Workers, WorkerThread(w)
      PROVE  Goal
  <2>1. CASE TakeConnection(w) \/ TakeNothing(w)
    BY <2>1, SameGet DEF TakeConnection, TakeNothing, MQ!Next, MQP!Next
  <2>2. CASE ~(TakeConnection(w) \/ TakeNothing(w))
    BY <1>1, <1>6, <2>2
    DEF WorkerThread, RefuseRequest, StallOnRequest, ConnectionReset, OpenFile,
        OpenFileFails, SendFile, MmapFails, ForkCgi, ForkFails, ReapCgi, CloseConnection
  <2> QED
    BY <2>1, <2>2
<1>7. ASSUME NEW w \in Workers, CgiExits(w)
      PROVE  Goal
  BY <1>1, <1>7 DEF CgiExits
<1> QED
  BY <1>2, <1>3, <1>4, <1>5, <1>6, <1>7 DEF Next

-----------------------------------------------------------------------------
(* Types.                                                                  *)

LEMMA ExitTypes ==
  ASSUME NEW r \in Statuses, Exit(r)
  PROVE  fdTable' \in Tables /\ status' \in Statuses
BY DEF Exit, Tables

LEMMA CloseTypes ==
  ASSUME fdTable \in Tables, status \in Statuses, NEW STATE fd, Close(fd)
  PROVE  fdTable' \in Tables /\ status' \in Statuses
<1>1. CASE Exit("EBADF")
  BY <1>1, ExitTypes DEF Statuses
<1>2. CASE fdTable' = [fdTable EXCEPT ![fd] = Free] /\ UNCHANGED status
  BY <1>2 DEF Tables
<1> QED
  BY <1>1, <1>2 DEF Close

LEMMA ResultTypes ==
  ASSUME TypeInv, HandlePutResult
  PROVE  /\ fdTable' \in Tables /\ status' \in Statuses
         /\ mainState' \in MainStates
<1>1. CASE UNCHANGED <<fdTable, status>> /\ mainState' \in MainStates
  BY <1>1 DEF TypeInv
<1>2. CASE (Exit("NULL") \/ Exit("malloc")) /\ UNCHANGED mainState
  BY <1>2, ExitTypes DEF TypeInv, Statuses
<1> QED
  BY <1>1, <1>2 DEF HandlePutResult, MainStates

(* One more request of a kind, in one message. *)
LEMMA CountedMore ==
  ASSUME metaData \in [Workers -> MetaData], NEW w \in Workers
  PROVE  /\ [metaData EXCEPT ![w].numStaticRequests = @ + 1] \in [Workers -> MetaData]
         /\ [metaData EXCEPT ![w].numDynamicRequests = @ + 1] \in [Workers -> MetaData]
BY DEF MetaData

LEMMA TypeInvStep ==
  ASSUME TypeInv, QueueInv, NumbersInv, [Next]_vars
  PROVE  TypeInv'
<1> USE DEF startVars, mainVars, workerVars, counters
<1>1. ASSUME ThreadPoolCreate \/ MQCreate \/ OpenListenfd
      PROVE  TypeInv'
  <2>1. CASE UNCHANGED <<fdTable, status>>
    BY <1>1, <2>1 DEF TypeInv, ThreadPoolCreate, MQCreate, OpenListenfd, MainStates
  <2>2. CASE (Exit("no start") \/ Exit("bad free") \/ Exit("no port")) /\ UNCHANGED mainState
    <3>1. fdTable' \in Tables /\ status' \in Statuses
      BY <2>2, ExitTypes DEF Statuses
    <3> QED
      BY <1>1, <2>2, <3>1 DEF TypeInv, ThreadPoolCreate, MQCreate, OpenListenfd
  <2> QED
    BY <1>1, <2>1, <2>2 DEF ThreadPoolCreate, MQCreate, OpenListenfd, FailedStart
<1>2. CASE TPAddThread \/ ThreadsAdded \/ StartThread \/ AllocateDropArray
  BY <1>2, ServerAssumption
  DEF TypeInv, TPAddThread, ThreadsAdded, StartThread, AllocateDropArray, MainStates,
      MQ!MQAssumption
<1>3. CASE Up /\ AcceptConnection
  <2>1. NextFd \in Fds /\ arrivals + 1 \in 1 .. MaxArrivals
    BY <1>3, NextFdFree, WorkersFinite
    DEF AcceptConnection, NumbersInv, TypeInv, MoreArrive
  <2> QED
    BY <1>3, <2>1 DEF TypeInv, AcceptConnection, MainStates, Tables, Numbers
<1>4. CASE AcceptFails \/ NoMessage
  <2>1. fdTable' \in Tables /\ status' \in Statuses
    BY <1>4, ExitTypes DEF AcceptFails, NoMessage, Statuses
  <2> QED
    BY <1>4, <2>1 DEF TypeInv, AcceptFails, NoMessage
<1>5. CASE PutConnection \/ ResumePut
  <2>1. HandlePutResult
    BY <1>5 DEF PutConnection, ResumePut
  <2> QED
    BY <1>5, <2>1, ResultTypes DEF TypeInv, PutConnection, ResumePut
<1>6. CASE CloseDropped
  <2>1. fdTable' \in Tables /\ status' \in Statuses
    BY <1>6, CloseTypes DEF CloseDropped, TypeInv
  <2> QED
    BY <1>6, <2>1 DEF TypeInv, CloseDropped, MainStates
<1>7. CASE SpuriousWakeup
  BY <1>7 DEF TypeInv, SpuriousWakeup
<1>8. ASSUME NEW w \in Workers, WorkerThread(w)
      PROVE  TypeInv'
  <2>1. CASE RefuseRequest(w) \/ StallOnRequest(w) \/ ReapCgi(w)
    BY <2>1 DEF TypeInv, RefuseRequest, StallOnRequest, ReapCgi, Jobs
  <2>7. CASE TakeConnection(w)
    <3>1. UNCHANGED <<job, jobCount, metaData>>
          \/ /\ job' = [job EXCEPT ![w] = "reading"]
             /\ jobCount' = [jobCount EXCEPT ![w] = @ + 1]
             /\ metaData' = [metaData EXCEPT ![w] =
                              [requestsCount |-> jobCount'[w],
                               numStaticRequests |-> staticCount[w],
                               numDynamicRequests |-> dynamicCount[w]]]
      BY <2>7 DEF TakeConnection
    <3>2. job' \in [Workers -> Jobs] /\ jobCount' \in [Workers -> Nat]
      BY <3>1 DEF TypeInv, Jobs
    <3>3. metaData' \in [Workers -> MetaData]
      BY <3>1, <3>2 DEF TypeInv, MetaData
    <3> QED
      BY <2>7, <3>2, <3>3 DEF TypeInv, TakeConnection
  <2>2. CASE TakeNothing(w) \/ ConnectionReset(w) \/ OpenFileFails(w) \/ MmapFails(w)
             \/ ForkFails(w)
    <3>1. fdTable' \in Tables /\ status' \in Statuses
      BY <2>2, ExitTypes
      DEF TakeNothing, ConnectionReset, OpenFileFails, MmapFails, ForkFails, Statuses
    <3> QED
      BY <2>2, <3>1
      DEF TypeInv, TakeNothing, ConnectionReset, OpenFileFails, MmapFails, ForkFails
  <2>3. CASE OpenFile(w)
    <3>1. metaData' \in [Workers -> MetaData]
      BY <2>3, CountedMore DEF OpenFile, TypeInv
    <3> QED
      BY <2>3, <3>1, NextFdFree DEF TypeInv, OpenFile, Tables, Sources, Jobs
  <2>4. CASE SendFile(w)
    <3>1. fdTable' \in Tables /\ status' \in Statuses
      BY <2>4, CloseTypes DEF SendFile, TypeInv
    <3> QED
      BY <2>4, <3>1 DEF TypeInv, SendFile, Sources, Jobs
  <2>5. CASE ForkCgi(w)
    <3>1. OpenConnections \in SUBSET (1 .. MaxArrivals)
      BY DEF OpenConnections, TypeInv, Tables
    <3>2. metaData' \in [Workers -> MetaData]
      BY <2>5, CountedMore DEF ForkCgi, TypeInv
    <3> QED
      BY <2>5, <3>1, <3>2 DEF TypeInv, ForkCgi, Jobs
  <2>6. CASE CloseConnection(w)
    <3>1. fdTable' \in Tables /\ status' \in Statuses
      BY <2>6, CloseTypes DEF CloseConnection, TypeInv
    <3>2. metaData' \in [Workers -> MetaData]
      BY <2>6 DEF CloseConnection, TypeInv, MetaData, NoMetaData
    <3> QED
      BY <2>6, <3>1, <3>2 DEF TypeInv, CloseConnection, Jobs
  <2> QED
    BY <1>8, <2>1, <2>2, <2>3, <2>4, <2>5, <2>6, <2>7 DEF WorkerThread
<1>9. ASSUME NEW w \in Workers, CgiExits(w)
      PROVE  TypeInv'
  BY <1>9 DEF TypeInv, CgiExits
<1>10. CASE UNCHANGED vars
  BY <1>10 DEF TypeInv, vars
<1> QED
  BY <1>1, <1>2, <1>3, <1>4, <1>5, <1>6, <1>7, <1>8, <1>9, <1>10
  DEF Next, Start, MainThread

LEMMA PoolBlocksAre ==
  /\ DOMAIN PoolBlocks = 1 .. 4
  /\ {PoolBlocks[i] : i \in DOMAIN PoolBlocks} = AllOfPool
  /\ PoolBlocks[1] = "pool" /\ PoolBlocks[2] = "functions" /\ PoolBlocks[3] = "threads"
BY DEF PoolBlocks, AllOfPool

(* Each rollback of ThreadPoolCreate frees what came before.               *)
LEMMA RollbackMatches ==
  ASSUME NEW i \in DOMAIN PoolBlocks
  PROVE  PoolRollback[i] = {PoolBlocks[j] : j \in 1 .. i - 1}
<1>1. i \in 1 .. 4
  BY PoolBlocksAre
<1>2. CASE i = 1
  BY <1>2 DEF PoolRollback
<1>3. CASE i = 2
  <2>1. 1 .. i - 1 = {1}
    BY <1>3
  <2> QED
    BY <1>3, <2>1, PoolBlocksAre DEF PoolRollback
<1>4. CASE i = 3
  <2>1. 1 .. i - 1 = {1, 2}
    BY <1>4
  <2> QED
    BY <1>4, <2>1, PoolBlocksAre DEF PoolRollback
<1>5. CASE i = 4
  <2>1. 1 .. i - 1 = {1, 2, 3}
    BY <1>5
  <2> QED
    BY <1>5, <2>1, PoolBlocksAre DEF PoolRollback
<1> QED
  BY <1>1, <1>2, <1>3, <1>4, <1>5

LEMMA StartInvStep ==
  ASSUME TypeInv, StartInv, [Next]_vars
  PROVE  StartInv'
<1> USE DEF startVars, mainVars, workerVars
<1>1. /\ IsFiniteSet(pool) /\ IsFiniteSet(pool \union running)
      /\ Cardinality(pool) \in Nat /\ Cardinality(pool \union running) \in Nat
      /\ threadPoolSize \in Nat
  <2>1. pool \subseteq Workers /\ pool \union running \subseteq Workers
    BY DEF TypeInv
  <2> QED
    BY <2>1, WorkersFinite, FS_Subset, FS_CardinalityType DEF TypeInv
<1>2. CASE Up /\ (ThreadPoolCreate \/ MQCreate)
  <2>1. UNCHANGED <<pool, running, threadPoolSize>>
    BY <1>2 DEF ThreadPoolCreate, MQCreate
  <2>2. Cardinality(pool' \union running') <= threadPoolSize'
    BY <2>1 DEF StartInv
  <2>3. pool = {} /\ running = {}
    BY <1>2 DEF StartInv, ThreadPoolCreate, MQCreate
  <2>4. Up' => mainState' \in {"createQueue", "addThreads"}
                /\ (mainState' = "createQueue" => blocks' = AllOfPool)
    BY <1>2, ExitEnds, PoolBlocksAre DEF ThreadPoolCreate, MQCreate, FailedStart
  <2>5. mainState' \notin {"createPool", "createQueue"} =>
          mainState' = "addThreads" /\ blocks' = AllOfPool \union {"queue"}
    BY <1>2 DEF ThreadPoolCreate, MQCreate, StartInv
  <2> QED
    BY <2>1, <2>2, <2>3, <2>4, <2>5 DEF StartInv
<1>3. CASE TPAddThread
  <2>1. PICK w \in Workers \ pool : pool' = pool \union {w}
    BY <1>3 DEF TPAddThread
  <2>2. Cardinality(pool') = Cardinality(pool) + 1
    BY <1>1, <2>1, FS_AddElement
  <2>3. running = {} /\ running' = {} /\ mainState' = "addThreads"
    BY <1>3 DEF TPAddThread, StartInv
  <2>4. pool' \union running' = pool'
    BY <2>3
  <2>5. Cardinality(pool') <= threadPoolSize
    BY <1>1, <1>3, <2>2 DEF TPAddThread, PoolHasRoom
  <2> QED
    BY <1>3, <2>3, <2>4, <2>5 DEF StartInv, TPAddThread
<1>4. CASE StartThread
  <2>1. pool' \union running' \subseteq pool \union running
    BY <1>4 DEF StartThread
  <2>2. Cardinality(pool' \union running') <= Cardinality(pool \union running)
        /\ Cardinality(pool' \union running') \in Nat
    BY <1>1, <2>1, FS_Subset, FS_CardinalityType
  <2> QED
    BY <1>1, <1>4, <2>2 DEF StartInv, StartThread
<1>5. CASE ThreadsAdded \/ OpenListenfd \/ AllocateDropArray
  BY <1>5 DEF StartInv, ThreadsAdded, OpenListenfd, AllocateDropArray
<1>6. CASE MainThread
  <2>1. UNCHANGED startVars
    BY <1>6
    DEF MainThread, AcceptConnection, AcceptFails, NoMessage, PutConnection, ResumePut,
        CloseDropped
  <2>2. /\ mainState \notin {"createPool", "createQueue", "addThreads"}
        /\ mainState' \notin {"createPool", "createQueue", "addThreads"}
    BY <1>6
    DEF MainThread, AcceptConnection, AcceptFails, NoMessage, PutConnection, ResumePut,
        CloseDropped, HandlePutResult
  <2> QED
    BY <2>1, <2>2 DEF StartInv
<1>7. ASSUME NEW w \in Workers, WorkerThread(w) \/ CgiExits(w)
      PROVE  UNCHANGED <<startVars, mainState>>
  BY <1>7
  DEF WorkerThread, TakeConnection, TakeNothing, RefuseRequest, StallOnRequest,
      ConnectionReset, OpenFile, OpenFileFails, SendFile, MmapFails, ForkCgi, ForkFails,
      ReapCgi, CloseConnection, CgiExits
<1>8. CASE UNCHANGED <<startVars, mainState>>
  BY <1>8, StillUp DEF StartInv
<1>9. CASE SpuriousWakeup \/ UNCHANGED vars
  BY <1>8, <1>9 DEF SpuriousWakeup, vars
<1> QED
  BY <1>2, <1>3, <1>4, <1>5, <1>6, <1>7, <1>8, <1>9 DEF Next, Start

-----------------------------------------------------------------------------
(* The numbers of connections.                                             *)

(* MQPut passes the connection of the main thread on to the queue, or the  *)
(* main thread gets those in exchange that it is to close.                 *)
LEMMA PutOutcome ==
  ASSUME QueueInv, NumbersInv, Up, PutConnection \/ ResumePut
  PROVE  /\ arrivals' \in 1 .. MaxArrivals
         /\ MainHolds = {arrivals'}
         /\ got' = got
         /\ Queued' \subseteq 1 .. MaxArrivals
         /\ toClose' \subseteq 1 .. MaxArrivals
         /\ Up' => /\ UNCHANGED fdTable
                   /\ MainHolds' \union Queued' = MainHolds \union Queued
                   /\ mainState' # "put"
                   /\ (mainState' = "putting") <=> (putState' # "running")
                   /\ toClose' \subseteq dropped'
                   /\ mainState' # "dropping" => toClose' = {}
<1>1. toClose = {} /\ arrivals \in Nat
  BY QueueFacts DEF NumbersInv, PutConnection, ResumePut
<1>2. /\ AccountsFor(arrivals') /\ got' = got
      /\ arrivals' \in 1 .. MaxArrivals /\ MainHolds = {arrivals'}
  <2>1. CASE PutConnection
    <3>1. AccountsFor(arrivals + 1) /\ arrivals' = arrivals + 1 /\ got' = got
      BY <2>1, PutAccounts DEF PutConnection
    <3>2. AccountsFor(arrivals')
      BY <3>1 DEF AccountsFor
    <3>3. mainState = "put"
      BY <2>1 DEF PutConnection
    <3>4. MainHolds = {arrivals + 1}
      BY <1>1, <3>3 DEF MainHolds
    <3>5. arrivals < MaxArrivals
      BY <3>3 DEF NumbersInv
    <3> QED
      BY <1>1, <3>1, <3>2, <3>4, <3>5, WorkersFinite
  <2>2. CASE ResumePut
    BY <1>1, <2>2, ResumeAccounts DEF ResumePut, NumbersInv, MainHolds
  <2> QED
    BY <2>1, <2>2
<1>3. HandlePutResult
  BY DEF PutConnection, ResumePut
<1>4. Queued' \subseteq 1 .. MaxArrivals
      /\ (putRetCode' = "MQ_DROP" /\ putState' = "running"
            => dropped' \subseteq 1 .. MaxArrivals)
  BY <1>2 DEF AccountsFor, NumbersInv
<1>5. toClose' \subseteq 1 .. MaxArrivals
  BY <1>1, <1>3, <1>4 DEF HandlePutResult
<1>6. ASSUME Up'
      PROVE  /\ UNCHANGED fdTable
             /\ MainHolds' \union Queued' = MainHolds \union Queued
             /\ mainState' # "put"
             /\ (mainState' = "putting") <=> (putState' # "running")
             /\ toClose' \subseteq dropped'
             /\ mainState' # "dropping" => toClose' = {}
  <2>1. ~Exit("NULL") /\ ~Exit("malloc")
    BY <1>6, ExitEnds
  <2>2. CASE putState' # "running" /\ mainState' = "putting" /\ UNCHANGED <<toClose, fdTable>>
    <3>1. Queued' = Queued
      BY <1>2, <2>2 DEF AccountsFor
    <3>2. MainHolds' = {arrivals'}
      BY <1>1, <2>2 DEF MainHolds
    <3> QED
      BY <1>1, <1>2, <2>2, <3>1, <3>2
  <2>3. CASE /\ putState' = "running" /\ putRetCode' = "MQ_SUCCESS" /\ mainState' = "accept"
             /\ UNCHANGED <<toClose, fdTable>>
    <3>1. Queued' = Queued \union {arrivals'}
      BY <1>2, <2>3 DEF AccountsFor
    <3>2. MainHolds' = {}
      BY <1>1, <2>3 DEF MainHolds
    <3> QED
      BY <1>1, <1>2, <2>3, <3>1, <3>2
  <2>4. CASE /\ putState' = "running" /\ putRetCode' = "MQ_DROP" /\ mainState' = "dropping"
             /\ toClose' = dropped' /\ UNCHANGED fdTable
    <3>1. Queued' \union dropped' = Queued \union {arrivals'}
      BY <1>2, <2>4 DEF AccountsFor
    <3>2. MainHolds' = dropped'
      BY <2>4 DEF MainHolds
    <3> QED
      BY <1>2, <2>4, <3>1, <3>2
  <2> QED
    BY <1>3, <2>1, <2>2, <2>3, <2>4 DEF HandlePutResult
<1> QED
  BY <1>2, <1>4, <1>5, <1>6

(* Every step keeps each connection with one of: the main thread, the      *)
(* queue, one worker, nobody any more.                                     *)
LEMMA NumbersInvStep ==
  ASSUME TypeInv, QueueInv, NumbersInv, [Next]_vars
  PROVE  NumbersInv'
<1> USE DEF startVars, mainVars, workerVars, queueVars
<1>1. CASE ~Up
  <2>1. UNCHANGED <<queueVars, mainVars, status>>
    BY <1>1, NotUpSteps
  <2> QED
    BY <2>1 DEF NumbersInv, Queued, Up
<1>2. CASE Start
  <2>1. UNCHANGED <<queueVars, toClose>>
    BY <1>2
    DEF Start, ThreadPoolCreate, MQCreate, TPAddThread, ThreadsAdded, StartThread,
        OpenListenfd, AllocateDropArray
  <2>2. mainState \notin {"put", "putting", "dropping"}
        /\ mainState' \notin {"put", "putting", "dropping"}
    BY <1>2
    DEF Start, ThreadPoolCreate, MQCreate, TPAddThread, ThreadsAdded, StartThread,
        OpenListenfd, AllocateDropArray
  <2> QED
    BY <1>2, <2>1, <2>2, StillUp DEF NumbersInv, Queued
<1>3. CASE Up /\ AcceptConnection
  BY <1>3, WorkersFinite DEF AcceptConnection, NumbersInv, Queued, MoreArrive, TypeInv, Up
<1>4. CASE AcceptFails \/ NoMessage
  <2>1. ~Up' /\ UNCHANGED <<queueVars, toClose>>
    BY <1>4, ExitEnds DEF AcceptFails, NoMessage
  <2> QED
    BY <2>1 DEF NumbersInv, Queued
<1>5. CASE Up /\ (PutConnection \/ ResumePut)
  BY <1>5, PutOutcome, WorkersFinite DEF NumbersInv
<1>6. CASE Up /\ CloseDropped
  BY <1>6 DEF CloseDropped, NumbersInv, Queued
<1>7. CASE Up /\ SpuriousWakeup
  BY <1>7, SpuriousKeeps DEF SpuriousWakeup, NumbersInv, Queued, Up
<1>8. ASSUME NEW w \in Workers, Up, WorkerThread(w)
      PROVE  NumbersInv'
  <2>1. CASE TakeConnection(w) \/ TakeNothing(w)
    <3>1. /\ MQ!MQGet(w) /\ UNCHANGED <<mainState, toClose>>
      BY <2>1 DEF TakeConnection, TakeNothing
    <3>2. UNCHANGED <<arrivals, dropped>> /\ Queued' \subseteq Queued
          /\ ((putState' = "running") <=> (putState = "running"))
      BY <3>1, GetAccounts
    <3> QED
      BY <1>8, <3>1, <3>2 DEF NumbersInv
  <2>2. CASE ~(TakeConnection(w) \/ TakeNothing(w))
    <3>1. UNCHANGED <<queueVars, mainState, toClose>>
      BY <1>8, <2>2
      DEF WorkerThread, RefuseRequest, StallOnRequest, ConnectionReset, OpenFile,
          OpenFileFails, SendFile, MmapFails, ForkCgi, ForkFails, ReapCgi, CloseConnection
    <3> QED
      BY <1>8, <3>1 DEF NumbersInv, Queued
  <2> QED
    BY <2>1, <2>2
<1>9. ASSUME NEW w \in Workers, CgiExits(w)
      PROVE  NumbersInv'
  BY <1>9 DEF CgiExits, NumbersInv, Queued, Up
<1>10. CASE UNCHANGED vars
  BY <1>10 DEF vars, NumbersInv, Queued, Up
<1> QED
  BY <1>1, <1>2, <1>3, <1>4, <1>5, <1>6, <1>7, <1>8, <1>9, <1>10
  DEF Next, MainThread

LEMMA BusyInvStep ==
  ASSUME TypeInv, QueueInv, NumbersInv, BusyInv, [Next]_vars
  PROVE  BusyInv'
<1> USE DEF startVars, mainVars, workerVars, queueVars
<1>1. got \in [Workers -> Nat] /\ job \in [Workers -> Jobs]
  BY QueueFacts DEF TypeInv
<1>2. ASSUME UNCHANGED <<job, got>>, running \subseteq running', Up' => Up
      PROVE  BusyInv'
  BY <1>2 DEF BusyInv, Busy, Serving
<1>3. CASE Start \/ SpuriousWakeup \/ MainThread \/ UNCHANGED vars
           \/ \E w \in Workers : CgiExits(w)
  <2>1. UNCHANGED job /\ running \subseteq running'
    BY <1>3
    DEF Start, ThreadPoolCreate, MQCreate, TPAddThread, ThreadsAdded, StartThread,
        OpenListenfd, AllocateDropArray, SpuriousWakeup, MainThread, AcceptConnection,
        AcceptFails, NoMessage, PutConnection, ResumePut, CloseDropped, CgiExits, vars
  <2>2. UNCHANGED got
    <3>1. CASE Start \/ UNCHANGED vars \/ \E w \in Workers : CgiExits(w)
      BY <3>1
      DEF Start, ThreadPoolCreate, MQCreate, TPAddThread, ThreadsAdded, StartThread,
          OpenListenfd, AllocateDropArray, CgiExits, vars
    <3>2. CASE SpuriousWakeup
      BY <3>2, SpuriousKeeps
    <3>3. CASE MainThread
      BY <3>3, PutAccounts, ResumeAccounts
      DEF MainThread, AcceptConnection, AcceptFails, NoMessage, PutConnection, ResumePut,
          CloseDropped
    <3> QED
      BY <1>3, <3>1, <3>2, <3>3
  <2> QED
    BY <1>2, <2>1, <2>2, StillUp
<1>4. ASSUME NEW w \in Workers, Up, WorkerThread(w)
      PROVE  BusyInv'
  <2>1. CASE TakeConnection(w) \/ TakeNothing(w)
    <3>1. MQ!MQGet(w) /\ w \in running /\ running' = running
      BY <2>1 DEF TakeConnection, TakeNothing
    <3>2. CASE got' = got
      <4>1. UNCHANGED job
        BY <2>1, <3>2 DEF TakeConnection, TakeNothing
      <4> QED
        BY <1>2, <3>1, <3>2, <4>1, StillUp
    <3>3. CASE TakeConnection(w) /\ got' # got
      <4>1. PICK n \in Queued : got' = [got EXCEPT ![w] = n]
        BY <3>1, <3>3, GetAccounts
      <4>2. job' = [job EXCEPT ![w] = "reading"] /\ job[w] = "idle"
        BY <3>3 DEF TakeConnection
      <4>3. n \in 1 .. MaxArrivals /\ \A v \in Workers : got[v] # n
        BY <4>1, QueueFacts DEF NumbersInv
      <4>4. Busy' = Busy \union {w} /\ w \notin Busy
        BY <1>1, <4>2 DEF Busy
      <4>5. \A v \in Busy : v \in Workers /\ got'[v] = got[v]
        BY <1>1, <4>1, <4>4 DEF Busy
      <4>6. got'[w] = n
        BY <1>1, <4>1
      <4>7. Serving' \subseteq Serving \union {n}
        BY <4>4, <4>5, <4>6 DEF Serving
      <4> QED
        BY <1>4, <3>1, <4>3, <4>4, <4>5, <4>6, <4>7 DEF BusyInv
    <3>4. CASE TakeNothing(w)
      <4>1. ~Up' /\ UNCHANGED job
        BY <3>4, ExitEnds DEF TakeNothing
      <4> QED
        BY <3>1, <4>1 DEF BusyInv, Busy
    <3> QED
      BY <2>1, <3>2, <3>3, <3>4
  <2>2. CASE ~(TakeConnection(w) \/ TakeNothing(w))
    <3>1. UNCHANGED <<got, running>> /\ w \in Busy
          /\ (job' = job \/ \E j \in Jobs : job' = [job EXCEPT ![w] = j])
      BY <1>4, <2>2
      DEF WorkerThread, RefuseRequest, StallOnRequest, ConnectionReset, OpenFile, Busy, Jobs,
          OpenFileFails, SendFile, MmapFails, ForkCgi, ForkFails, ReapCgi, CloseConnection
    <3>2. Busy' \subseteq Busy
      BY <1>1, <3>1 DEF Busy
    <3> QED
      BY <1>4, <3>1, <3>2 DEF BusyInv, Serving
  <2> QED
    BY <2>1, <2>2
<1>5. CASE ~Up
  <2>1. UNCHANGED <<job, got, running>>
    BY <1>5, NotUpSteps
  <2> QED
    BY <1>2, <2>1, StillUp
<1> QED
  BY <1>3, <1>4, <1>5 DEF Next

-----------------------------------------------------------------------------
(* Descriptors.                                                            *)

LEMMA SameHoldings ==
  ASSUME FdInv, Up, UNCHANGED <<fdTable, fdOf, srcfd>>, Owned' = Owned, Mapping' = Mapping
  PROVE  FdInv'
BY DEF FdInv, Denotes

(* A Close of something that is open. *)
LEMMA CloseWorks ==
  ASSUME NEW STATE fd, fdTable[fd] # Free, Close(fd)
  PROVE  fdTable' = [fdTable EXCEPT ![fd] = Free] /\ UNCHANGED status
BY DEF Close

(* The closes are of what the closer owns. *)
LEMMA ClosesOwned ==
  ASSUME TypeInv, FdInv, Up
  PROVE  /\ \A n \in Owned : fdTable[fdOf[n]] # Free
         /\ \A w \in Mapping : fdTable[srcfd[w]] # Free
BY DEF FdInv, Denotes, Free, File

LEMMA NoEBADFStep ==
  ASSUME TypeInv, FdInv, NoEBADF, [Next]_vars
  PROVE  NoEBADF'
<1> USE DEF NoEBADF
<1>1. CASE UNCHANGED status
  BY <1>1
<1>2. ASSUME NEW r, r # "EBADF", Exit(r)
      PROVE  NoEBADF'
  BY <1>2 DEF Exit
<1>3. CASE UNCHANGED vars \/ \E w \in Workers : CgiExits(w)
  BY <1>1, <1>3 DEF vars, CgiExits
<1>4. CASE Start \/ SpuriousWakeup
  BY <1>1, <1>2, <1>4
  DEF Start, ThreadPoolCreate, MQCreate, FailedStart, TPAddThread, ThreadsAdded, StartThread,
      OpenListenfd, AllocateDropArray, SpuriousWakeup
<1>5. CASE Up /\ MainThread
  <2>1. CASE AcceptConnection \/ AcceptFails \/ NoMessage
    BY <1>1, <1>2, <2>1 DEF AcceptConnection, AcceptFails, NoMessage
  <2>2. CASE PutConnection \/ ResumePut
    BY <1>1, <1>2, <2>2 DEF PutConnection, ResumePut, HandlePutResult
  <2>3. CASE CloseDropped
    <3>1. PICK n \in toClose : Close(fdOf[n])
      BY <2>3 DEF CloseDropped
    <3>2. fdTable[fdOf[n]] # Free
      BY <1>5, <3>1, ClosesOwned DEF Owned, MainHolds
    <3> QED
      BY <1>1, <3>1, <3>2, CloseWorks
  <2> QED
    BY <1>5, <2>1, <2>2, <2>3 DEF MainThread
<1>6. ASSUME NEW w \in Workers, Up, WorkerThread(w)
      PROVE  NoEBADF'
  <2>1. CASE SendFile(w)
    <3>1. fdTable[srcfd[w]] # Free /\ Close(srcfd[w])
      BY <1>6, <2>1, ClosesOwned DEF SendFile, Mapping
    <3> QED
      BY <1>1, <3>1, CloseWorks
  <2>2. CASE CloseConnection(w)
    <3>1. got[w] \in Owned /\ Close(fdOf[got[w]])
      BY <2>2 DEF CloseConnection, Owned, Serving, Busy
    <3>2. fdTable[fdOf[got[w]]] # Free
      BY <1>6, <3>1, ClosesOwned
    <3> QED
      BY <1>1, <3>1, <3>2, CloseWorks
  <2>3. CASE ~(SendFile(w) \/ CloseConnection(w))
    BY <1>1, <1>2, <1>6, <2>3
    DEF WorkerThread, TakeConnection, TakeNothing, RefuseRequest, StallOnRequest,
        ConnectionReset, OpenFile, OpenFileFails, MmapFails, ForkCgi, ForkFails, ReapCgi
  <2> QED
    BY <2>1, <2>2, <2>3
<1> QED
  BY <1>3, <1>4, <1>5, <1>6 DEF Next

LEMMA FdInvStep ==
  ASSUME TypeInv, QueueInv, NumbersInv, BusyInv, FdInv, [Next]_vars
  PROVE  FdInv'
<1> SUFFICES ASSUME Up'
             PROVE  FdInv'
  BY DEF FdInv
<1> USE DEF startVars, mainVars, workerVars, queueVars
<1>1. Up
  BY StillUp
<1>2. /\ got \in [Workers -> Nat] /\ job \in [Workers -> Jobs]
      /\ fdTable \in Tables /\ fdOf \in Numbers /\ srcfd \in Sources
      /\ arrivals \in Nat
  BY QueueFacts DEF TypeInv
<1>3. Denotes(fdTable, fdOf, Owned, Mapping, srcfd)
  BY <1>1 DEF FdInv
<1>4. Mapping \subseteq Busy /\ Mapping \subseteq Workers
  BY DEF Mapping, Busy
<1>5. \A r : r # "up" => ~Exit(r)
  BY ExitEnds
<1>6. CASE Start
  <2>1. UNCHANGED <<queueVars, toClose, fdOf, job, srcfd, fdTable>>
    BY <1>5, <1>6
    DEF Start, ThreadPoolCreate, MQCreate, FailedStart, TPAddThread, ThreadsAdded, StartThread,
        OpenListenfd, AllocateDropArray
  <2>2. mainState \notin {"put", "putting"} /\ mainState' \notin {"put", "putting"}
    BY <1>6
    DEF Start, ThreadPoolCreate, MQCreate, TPAddThread, ThreadsAdded, StartThread,
        OpenListenfd, AllocateDropArray
  <2>3. MainHolds' = MainHolds
    BY <2>1, <2>2 DEF MainHolds
  <2>4. Owned' = Owned /\ Mapping' = Mapping
    BY <2>1, <2>3 DEF Owned, Queued, Serving, Busy, Mapping
  <2> QED
    BY <1>1, <2>1, <2>4, SameHoldings
<1>7. CASE AcceptConnection
  <2> DEFINE n == arrivals + 1
  <2>1. /\ fdTable' = [fdTable EXCEPT ![NextFd] = n] /\ fdOf' = [fdOf EXCEPT ![n] = NextFd]
        /\ UNCHANGED <<queueVars, toClose, job, srcfd>>
        /\ mainState = "accept" /\ mainState' = "put"
    BY <1>7 DEF AcceptConnection
  <2>2. n \in 1 .. MaxArrivals
    BY <1>2, <1>7, WorkersFinite DEF AcceptConnection, MoreArrive, TypeInv
  <2>3. NextFd \in Fds /\ fdTable[NextFd] = Free
    BY <1>7, NextFdFree DEF AcceptConnection, FreeFds
  <2>4. MainHolds = {} /\ MainHolds' = {n}
    BY <1>1, <2>1 DEF MainHolds, NumbersInv
  <2>5. n \notin Owned
    BY <1>2, <2>4, QueueFacts DEF Owned, Serving, Busy
  <2>6. Owned' = Owned \union {n} /\ Mapping' = Mapping
    BY <2>1, <2>4 DEF Owned, Queued, Serving, Busy, Mapping
  <2> HIDE DEF n
  <2>7. Denotes([fdTable EXCEPT ![NextFd] = n], [fdOf EXCEPT ![n] = NextFd],
                Owned \union {n}, Mapping, srcfd)
    BY <1>2, <1>3, <2>2, <2>3, <2>5, DenotesOpen
  <2> QED
    BY <2>1, <2>6, <2>7 DEF FdInv, Denotes
<1>8. CASE PutConnection \/ ResumePut
  <2>1. UNCHANGED <<fdTable, fdOf, job, srcfd, got>>
        /\ MainHolds' \union Queued' = MainHolds \union Queued
    BY <1>1, <1>8, PutOutcome DEF PutConnection, ResumePut
  <2>2. Owned' = Owned /\ Mapping' = Mapping
    BY <2>1 DEF Owned, Serving, Busy, Mapping
  <2> QED
    BY <1>1, <2>1, <2>2, SameHoldings
<1>9. CASE CloseDropped
  <2>1. PICK n \in toClose : Close(fdOf[n]) /\ toClose' = toClose \ {n}
    BY <1>9 DEF CloseDropped
  <2>2. /\ UNCHANGED <<queueVars, fdOf, job, srcfd>>
        /\ mainState \notin {"put", "putting"} /\ mainState' \notin {"put", "putting"}
    BY <1>9 DEF CloseDropped
  <2>3. MainHolds = toClose /\ MainHolds' = toClose \ {n}
    BY <2>1, <2>2 DEF MainHolds
  <2>4. n \in Owned /\ n \notin Queued \union Serving
    BY <1>1, <2>1, <2>3, Apart DEF Owned, Serving, Busy
  <2>5. Owned' = Owned \ {n} /\ Mapping' = Mapping
    BY <2>2, <2>3, <2>4 DEF Owned, Queued, Serving, Busy, Mapping
  <2>6. fdTable' = [fdTable EXCEPT ![fdOf[n]] = Free]
    BY <1>1, <2>1, <2>4, ClosesOwned, CloseWorks
  <2>7. Denotes([fdTable EXCEPT ![fdOf[n]] = Free], fdOf, Owned \ {n}, Mapping, srcfd)
    BY <1>2, <1>3, <2>4, DenotesClose
  <2> QED
    BY <2>2, <2>5, <2>6, <2>7 DEF FdInv, Denotes
<1>10. CASE SpuriousWakeup
  <2>1. UNCHANGED <<queue, arrivals, got, mainState, toClose, fdTable, fdOf, job, srcfd>>
    BY <1>10, SpuriousKeeps DEF SpuriousWakeup
  <2>2. Owned' = Owned /\ Mapping' = Mapping
    BY <2>1 DEF Owned, MainHolds, Queued, Serving, Busy, Mapping
  <2> QED
    BY <1>1, <2>1, <2>2, SameHoldings
<1>11. ASSUME NEW w \in Workers, WorkerThread(w)
       PROVE  FdInv'
  <2>1. CASE TakeConnection(w)
    <3>1. UNCHANGED <<mainState, toClose, fdTable, fdOf, srcfd>> /\ job[w] = "idle"
          /\ MQ!MQGet(w)
      BY <2>1 DEF TakeConnection
    <3>2. UNCHANGED arrivals
      BY <3>1, GetAccounts
    <3>3. MainHolds' = MainHolds
      BY <3>1, <3>2 DEF MainHolds
    <3>4. CASE got' = got /\ Queued' = Queued
      <4>1. UNCHANGED job
        BY <2>1, <3>4 DEF TakeConnection
      <4>2. Owned' = Owned /\ Mapping' = Mapping
        BY <3>3, <3>4, <4>1 DEF Owned, Serving, Busy, Mapping
      <4> QED
        BY <1>1, <3>1, <4>2, SameHoldings
    <3>5. CASE /\ got' # got
               /\ \E n \in Queued : /\ Queued' = Queued \ {n}
                                    /\ got' = [got EXCEPT ![w] = n]
      <4>1. PICK n \in Queued : Queued' = Queued \ {n} /\ got' = [got EXCEPT ![w] = n]
        BY <3>5
      <4>2. job' = [job EXCEPT ![w] = "reading"]
        BY <2>1, <3>5 DEF TakeConnection
      <4>3. Busy' = Busy \union {w} /\ w \notin Busy /\ Mapping' = Mapping
        BY <1>2, <3>1, <4>2 DEF Busy, Mapping
      <4>4. got'[w] = n /\ \A v \in Busy : got'[v] = got[v]
        BY <1>2, <4>1, <4>3 DEF Busy
      <4>5. Serving' = Serving \union {n}
        BY <4>3, <4>4 DEF Serving
      <4>6. Owned' = Owned
        BY <3>3, <4>1, <4>5 DEF Owned
      <4> QED
        BY <1>1, <3>1, <4>3, <4>6, SameHoldings
    <3> QED
      BY <3>1, <3>4, <3>5, GetAccounts
  <2>2. CASE RefuseRequest(w) \/ StallOnRequest(w) \/ ForkCgi(w) \/ ReapCgi(w)
    <3>1. UNCHANGED <<queueVars, mainVars, fdTable, srcfd>>
          /\ job[w] \notin {"idle", "mapping"}
          /\ \E j \in Jobs \ {"idle", "mapping"} : job' = [job EXCEPT ![w] = j]
      BY <2>2 DEF RefuseRequest, StallOnRequest, ForkCgi, ReapCgi, Jobs
    <3>2. Busy' = Busy /\ Mapping' = Mapping
      BY <1>2, <3>1 DEF Busy, Mapping
    <3>3. Owned' = Owned
      BY <3>1, <3>2 DEF Owned, MainHolds, Queued, Serving
    <3> QED
      BY <1>1, <3>1, <3>2, <3>3, SameHoldings
  <2>3. CASE OpenFile(w)
    <3>1. /\ UNCHANGED <<queueVars, mainVars>> /\ job[w] = "reading"
          /\ job' = [job EXCEPT ![w] = "mapping"]
          /\ fdTable' = [fdTable EXCEPT ![NextFd] = File]
          /\ srcfd' = [srcfd EXCEPT ![w] = NextFd]
      BY <2>3 DEF OpenFile
    <3>2. NextFd \in Fds /\ fdTable[NextFd] = Free
      BY <2>3, NextFdFree DEF OpenFile, FreeFds
    <3>3. Busy' = Busy /\ Mapping' = Mapping \union {w} /\ w \notin Mapping
      BY <1>2, <3>1 DEF Busy, Mapping
    <3>4. Owned' = Owned
      BY <3>1, <3>3 DEF Owned, MainHolds, Queued, Serving
    <3>5. Denotes([fdTable EXCEPT ![NextFd] = File], fdOf, Owned, Mapping \union {w},
                  [srcfd EXCEPT ![w] = NextFd])
      BY <1>2, <1>3, <1>4, <3>2, <3>3, DenotesOpenFile
    <3> QED
      BY <3>1, <3>3, <3>4, <3>5 DEF FdInv, Denotes
  <2>4. CASE SendFile(w)
    <3>1. /\ UNCHANGED <<queueVars, mainVars>> /\ w \in Mapping
          /\ job' = [job EXCEPT ![w] = "closing"]
          /\ srcfd' = [srcfd EXCEPT ![w] = None]
          /\ Close(srcfd[w])
      BY <2>4 DEF SendFile, Mapping
    <3>2. fdTable' = [fdTable EXCEPT ![srcfd[w]] = Free]
      BY <1>1, <3>1, ClosesOwned, CloseWorks
    <3>3. Busy' = Busy /\ Mapping' = Mapping \ {w}
      BY <1>2, <3>1 DEF Busy, Mapping
    <3>4. Owned' = Owned
      BY <3>1, <3>3 DEF Owned, MainHolds, Queued, Serving
    <3>5. Denotes([fdTable EXCEPT ![srcfd[w]] = Free], fdOf, Owned, Mapping \ {w},
                  [srcfd EXCEPT ![w] = None])
      BY <1>2, <1>3, <1>4, <3>1, DenotesCloseFile
    <3> QED
      BY <3>1, <3>2, <3>3, <3>4, <3>5 DEF FdInv, Denotes
  <2>5. CASE CloseConnection(w)
    <3> DEFINE n == got[w]
    <3>1. /\ UNCHANGED <<queueVars, mainVars, srcfd>>
          /\ w \in Busy /\ w \notin Mapping
          /\ job' = [job EXCEPT ![w] = "idle"]
          /\ Close(fdOf[n])
      BY <2>5 DEF CloseConnection, Busy, Mapping
    <3>2. n \in Owned /\ n \notin MainHolds \union Queued
      BY <1>1, <3>1, Apart DEF Owned, Serving
    <3>3. Busy' = Busy \ {w} /\ Mapping' = Mapping
      BY <1>2, <3>1 DEF Busy, Mapping
    <3>4. Serving' = Serving \ {n}
      BY <1>1, <3>1, <3>3 DEF Serving, BusyInv
    <3>5. Owned' = Owned \ {n}
      BY <3>1, <3>2, <3>4 DEF Owned, MainHolds, Queued
    <3> HIDE DEF n
    <3>6. fdTable' = [fdTable EXCEPT ![fdOf[n]] = Free]
      BY <1>1, <3>1, <3>2, ClosesOwned, CloseWorks
    <3>7. Denotes([fdTable EXCEPT ![fdOf[n]] = Free], fdOf, Owned \ {n}, Mapping, srcfd)
      BY <1>2, <1>3, <3>2, DenotesClose
    <3> QED
      BY <3>1, <3>3, <3>5, <3>6, <3>7 DEF FdInv, Denotes
  <2> QED
    BY <1>5, <1>11, <2>1, <2>2, <2>3, <2>4, <2>5
    DEF WorkerThread, TakeNothing, ConnectionReset, OpenFileFails, MmapFails, ForkFails
<1>12. CASE UNCHANGED vars \/ \E w \in Workers : CgiExits(w)
  <2>1. UNCHANGED <<queueVars, mainVars, fdTable, job, srcfd>>
    BY <1>12 DEF vars, CgiExits
  <2>2. Owned' = Owned /\ Mapping' = Mapping
    BY <2>1 DEF Owned, MainHolds, Queued, Serving, Busy, Mapping
  <2> QED
    BY <1>1, <2>1, <2>2, SameHoldings
<1>13. ~AcceptFails /\ ~NoMessage
  BY <1>5 DEF AcceptFails, NoMessage
<1> QED
  BY <1>6, <1>7, <1>8, <1>9, <1>10, <1>11, <1>12, <1>13 DEF Next, MainThread

-----------------------------------------------------------------------------
(* Counters, and the failed start.                                         *)

(* What the message of v says, in each stage of its request, and what v    *)
(* itself has counted.                                                     *)
CountsAgree(v) ==
  LET told == metaData[v]
      opened == IF job[v] = "mapping" THEN 1 ELSE 0
      forked == IF job[v] = "waiting" THEN 1 ELSE 0
      finished == jobCount[v] - (IF job[v] \in {"idle", "closing"} THEN 0 ELSE 1)
      counted == staticCount[v] + dynamicCount[v]
  IN /\ counted <= finished
     /\ "invalid" \notin requests => counted = finished
     /\ job[v] # "idle" =>
          /\ told.requestsCount = jobCount[v]
          /\ told.numStaticRequests = staticCount[v] + opened
          /\ told.numDynamicRequests = dynamicCount[v] + forked

StatsInv == Up => \A v \in Workers : CountsAgree(v)

LEMMA StatsInvSuffices ==
  ASSUME TypeInv, StatsInv
  PROVE  StatsAddUp
<1> SUFFICES ASSUME Up, NEW w \in Workers
             PROVE  LET told == metaData[w]
                        kinds == told.numStaticRequests + told.numDynamicRequests
                    IN /\ job[w] \in {"mapping", "waiting"} =>
                            /\ kinds <= told.requestsCount
                            /\ "invalid" \notin requests => kinds = told.requestsCount
                            /\ kinds > staticCount[w] + dynamicCount[w]
                       /\ job[w] = "closing" =>
                            told = [requestsCount |-> jobCount[w],
                                    numStaticRequests |-> staticCount[w],
                                    numDynamicRequests |-> dynamicCount[w]]
  BY DEF StatsAddUp
<1>1. /\ CountsAgree(w) /\ metaData[w] \in MetaData
      /\ jobCount[w] \in Nat /\ staticCount[w] \in Nat /\ dynamicCount[w] \in Nat
  BY DEF StatsInv, TypeInv
<1>2. ASSUME job[w] = "closing"
      PROVE  metaData[w] = [requestsCount |-> jobCount[w],
                            numStaticRequests |-> staticCount[w],
                            numDynamicRequests |-> dynamicCount[w]]
  BY <1>1, <1>2 DEF CountsAgree, MetaData
<1>3. CASE job[w] \in {"mapping", "waiting"}
  BY <1>1, <1>3 DEF CountsAgree
<1> QED
  BY <1>2, <1>3

LEMMA StatsStep ==
  ASSUME TypeInv, StatsInv, [Next]_vars
  PROVE  StatsInv'
<1> SUFFICES ASSUME Up', NEW v \in Workers
             PROVE  CountsAgree(v)'
  BY DEF StatsInv
<1> USE DEF startVars, mainVars, workerVars, counters
<1>1. Up /\ CountsAgree(v)
  BY StillUp DEF StatsInv
<1>2. /\ job \in [Workers -> Jobs] /\ jobCount \in [Workers -> Nat]
      /\ staticCount \in [Workers -> Nat] /\ dynamicCount \in [Workers -> Nat]
      /\ metaData \in [Workers -> MetaData]
  BY DEF TypeInv
<1>3. CASE UNCHANGED <<counters, job, requests>>
  BY <1>1, <1>3 DEF CountsAgree
<1>4. CASE Start \/ MainThread \/ SpuriousWakeup \/ UNCHANGED vars
           \/ \E w \in Workers : CgiExits(w)
  <2>1. UNCHANGED <<counters, job, requests>>
    BY <1>4
    DEF Start, ThreadPoolCreate, MQCreate, TPAddThread, ThreadsAdded, StartThread,
        OpenListenfd, AllocateDropArray, SpuriousWakeup, MainThread, AcceptConnection,
        AcceptFails, NoMessage, PutConnection, ResumePut, CloseDropped, CgiExits, vars
  <2> QED
    BY <1>3, <2>1
<1>5. ASSUME NEW w \in Workers, WorkerThread(w)
      PROVE  CountsAgree(v)'
  <2>1. CASE TakeConnection(w)
    BY <1>1, <1>2, <2>1 DEF TakeConnection, CountsAgree, MetaData
  <2>2. CASE RefuseRequest(w)
    BY <1>1, <1>2, <2>2 DEF RefuseRequest, CountsAgree
  <2>3. CASE StallOnRequest(w)
    BY <1>1, <1>2, <2>3 DEF StallOnRequest, CountsAgree
  <2>4. CASE OpenFile(w)
    BY <1>1, <1>2, <2>4 DEF OpenFile, CountsAgree, MetaData
  <2>5. CASE ForkCgi(w)
    BY <1>1, <1>2, <2>5 DEF ForkCgi, CountsAgree, MetaData
  <2>6. CASE SendFile(w)
    BY <1>1, <1>2, <2>6 DEF SendFile, CountsAgree
  <2>7. CASE ReapCgi(w)
    BY <1>1, <1>2, <2>7 DEF ReapCgi, CountsAgree
  <2>8. CASE CloseConnection(w)
    BY <1>1, <1>2, <2>8 DEF CloseConnection, CountsAgree
  <2> QED
    BY <1>5, <2>1, <2>2, <2>3, <2>4, <2>5, <2>6, <2>7, <2>8, ExitEnds
    DEF WorkerThread, TakeNothing, ConnectionReset, OpenFileFails, MmapFails, ForkFails
<1> QED
  BY <1>4, <1>5 DEF Next

RollbackInv ==
  /\ status # "bad free"
  /\ status = "no start" =>
       blocks = IF mainState = "createPool" THEN {} ELSE {"args"}

LEMMA RollbackStep ==
  ASSUME TypeInv, StartInv, RollbackInv, [Next]_vars
  PROVE  RollbackInv'
<1> USE DEF startVars, mainVars
<1>1. CASE ~Up
  <2>1. UNCHANGED <<status, blocks, mainState>>
    BY <1>1, NotUpSteps
  <2> QED
    BY <2>1 DEF RollbackInv
<1>2. CASE Up /\ ThreadPoolCreate
  <2>1. CASE UNCHANGED status
    BY <1>2, <2>1 DEF RollbackInv, Up
  <2>2. ASSUME NEW i \in DOMAIN PoolBlocks,
               FailedStart({PoolBlocks[j] : j \in 1 .. i - 1}, PoolRollback[i])
        PROVE  status' = "no start" /\ blocks' = {}
    <3> DEFINE S == {PoolBlocks[j] : j \in 1 .. i - 1}
    <3>1. PoolRollback[i] = S
      BY RollbackMatches
    <3> HIDE DEF S
    <3> QED
      BY <2>2, <3>1 DEF FailedStart, Exit, S
  <2>3. mainState = "createPool"
    BY <1>2 DEF ThreadPoolCreate
  <2> QED
    BY <1>2, <2>1, <2>2, <2>3 DEF ThreadPoolCreate, RollbackInv
<1>3. CASE Up /\ MQCreate
  BY <1>3 DEF MQCreate, StartInv, Up, ThreadPoolFree, AllOfPool, FailedStart, Exit,
              RollbackInv
<1>4. ASSUME UNCHANGED status \/ \E r : r \notin {"no start", "bad free"} /\ Exit(r), Up
      PROVE  RollbackInv'
  BY <1>4 DEF Exit, Up, RollbackInv
<1>5. CASE TPAddThread \/ ThreadsAdded \/ StartThread \/ OpenListenfd \/ AllocateDropArray
           \/ SpuriousWakeup
  BY <1>1, <1>4, <1>5
  DEF TPAddThread, ThreadsAdded, StartThread, OpenListenfd, AllocateDropArray,
      SpuriousWakeup
<1>6. ASSUME NEW fd, Close(fd)
      PROVE  UNCHANGED status \/ \E r : r \notin {"no start", "bad free"} /\ Exit(r)
  BY <1>6 DEF Close
<1>7. CASE MainThread
  BY <1>1, <1>4, <1>6, <1>7
  DEF MainThread, AcceptConnection, AcceptFails, NoMessage, PutConnection, ResumePut,
      CloseDropped, HandlePutResult
<1>8. ASSUME NEW w \in Workers, WorkerThread(w), Up
      PROVE  RollbackInv'
  BY <1>4, <1>6, <1>8
  DEF WorkerThread, TakeConnection, TakeNothing, RefuseRequest, StallOnRequest,
      ConnectionReset, OpenFile, OpenFileFails, SendFile, MmapFails, ForkCgi, ForkFails,
      ReapCgi, CloseConnection
<1>9. CASE UNCHANGED vars \/ \E w \in Workers : CgiExits(w)
  BY <1>1, <1>4, <1>9 DEF vars, CgiExits
<1> QED
  BY <1>1, <1>2, <1>3, <1>5, <1>7, <1>8, <1>9 DEF Next, Start

-----------------------------------------------------------------------------
(* There are descriptors enough.                                           *)

LEMMA ImageBound ==
  ASSUME NEW f, NEW S, IsFiniteSet(S)
  PROVE  /\ IsFiniteSet({f[x] : x \in S})
         /\ Cardinality({f[x] : x \in S}) <= Cardinality(S)
<1> DEFINE g == [x \in S |-> f[x]]
           T == {f[x] : x \in S}
<1>1. g \in Surjection(S, T)
  BY DEF Surjection
<1> HIDE DEF g
<1>2. IsFiniteSet(T) /\ Cardinality(T) <= Cardinality(S)
  BY <1>1, FS_Surjection
<1> QED
  BY <1>2

LEMMA UnionBound ==
  ASSUME NEW S, IsFiniteSet(S), NEW T, IsFiniteSet(T)
  PROVE  /\ IsFiniteSet(S \union T)
         /\ Cardinality(S \union T) <= Cardinality(S) + Cardinality(T)
<1>1. Cardinality(S) \in Nat /\ Cardinality(T) \in Nat
  BY FS_CardinalityType
<1>2. IsFiniteSet(S \intersect T)
  BY FS_Intersection
<1>3. Cardinality(S \intersect T) \in Nat
  BY <1>2, FS_CardinalityType
<1>4. /\ IsFiniteSet(S \union T)
      /\ Cardinality(S \union T) =
           Cardinality(S) + Cardinality(T) - Cardinality(S \intersect T)
  BY FS_Union
<1> QED
  BY <1>1, <1>3, <1>4

(* The queue and the main thread hold one connection more than capacity.   *)
HasBound == ~(SpuriousWakeups /\ MQ!ShortRandom)
Outside == MainHolds \union Queued
SizeInv == Up /\ HasBound => Cardinality(Outside) <= capacity + 1

LEMMA SizeInvStep ==
  ASSUME TypeInv, QueueInv, NumbersInv, SizeInv, [Next]_vars
  PROVE  SizeInv'
<1> SUFFICES ASSUME Up', HasBound'
             PROVE  Cardinality(Outside') <= capacity' + 1
  BY DEF SizeInv
<1> USE DEF startVars, mainVars, workerVars, queueVars
<1>1. Up
  BY StillUp
<1>2. UNCHANGED <<capacity, schedPolicy>>
  <2>1. [MQ!Next]_(MQ!vars)
    BY QueueStep
  <2> QED
    BY <2>1
    DEF MQ!Next, MQ!vars, MQ!config, MQ!MQPut, MQ!MQPutResume, MQ!SpuriousPutWakeup,
        MQ!MQGet, MQ!SpuriousGetWakeup
<1>3. HasBound
  BY <1>2 DEF HasBound, MQ!ShortRandom
<1>4. /\ IsFiniteSet(Queued) /\ Cardinality(Queued) \in Nat /\ capacity \in Nat
      /\ Cardinality(Queued) <= capacity
  BY <1>3, QueueSize, QueueFacts DEF HasBound
<1>5. IsFiniteSet(Outside) /\ Cardinality(Outside) \in Nat
      /\ Cardinality(Outside) <= capacity + 1
  <2>1. Outside \subseteq 0 .. MaxArrivals
    BY <1>1, QueueFacts, WorkersFinite DEF Outside, NumbersInv, MainHolds
  <2>2. IsFiniteSet(0 .. MaxArrivals)
    BY WorkersFinite, FS_Interval
  <2> QED
    BY <1>1, <1>3, <2>1, <2>2, FS_Subset, FS_CardinalityType DEF SizeInv
<1>6. CASE Outside' \subseteq Outside
  <2>1. Cardinality(Outside') <= Cardinality(Outside) /\ Cardinality(Outside') \in Nat
    BY <1>5, <1>6, FS_Subset, FS_CardinalityType
  <2> QED
    BY <1>2, <1>4, <1>5, <2>1
<1>7. CASE Start \/ SpuriousWakeup \/ UNCHANGED vars \/ \E w \in Workers : CgiExits(w)
  <2>1. UNCHANGED <<queue, arrivals, toClose>>
        /\ (mainState' = mainState
            \/ {mainState, mainState'} \intersect {"put", "putting"} = {})
    BY <1>7, SpuriousKeeps
    DEF Start, ThreadPoolCreate, MQCreate, TPAddThread, ThreadsAdded, StartThread,
        OpenListenfd, AllocateDropArray, CgiExits, vars, SpuriousWakeup
  <2>2. Outside' = Outside
    BY <2>1 DEF Outside, MainHolds, Queued
  <2> QED
    BY <1>6, <2>2
<1>8. CASE AcceptConnection
  <2>1. /\ UNCHANGED <<queue, arrivals, toClose>>
        /\ mainState = "accept" /\ mainState' = "put" /\ toClose = {}
    BY <1>1, <1>8 DEF AcceptConnection, NumbersInv
  <2>2. Outside' = Queued \union {arrivals + 1}
    BY <2>1 DEF Outside, MainHolds, Queued
  <2> DEFINE n == arrivals + 1
  <2> HIDE DEF n
  <2>3. Cardinality(Queued \union {n}) <= Cardinality(Queued) + 1
    BY <1>4, FS_AddElement
  <2>4. Cardinality(Queued \union {n}) \in Nat
    BY <1>4, FS_AddElement, FS_CardinalityType
  <2> QED
    BY <1>2, <1>4, <2>2, <2>3, <2>4 DEF n
<1>9. CASE PutConnection \/ ResumePut
  BY <1>1, <1>6, <1>9, PutOutcome DEF Outside
<1>10. CASE CloseDropped
  BY <1>6, <1>10 DEF CloseDropped, Outside, MainHolds, Queued
<1>11. ~AcceptFails /\ ~NoMessage
  BY ExitEnds DEF AcceptFails, NoMessage
<1>12. ASSUME NEW w \in Workers, WorkerThread(w)
       PROVE  Outside' \subseteq Outside
  <2>1. CASE TakeConnection(w) \/ TakeNothing(w)
    <3>1. MQ!MQGet(w) /\ UNCHANGED <<mainState, toClose>>
      BY <2>1 DEF TakeConnection, TakeNothing
    <3>2. UNCHANGED arrivals /\ Queued' \subseteq Queued
      BY <3>1, GetAccounts
    <3> QED
      BY <3>1, <3>2 DEF Outside, MainHolds
  <2>2. CASE ~(TakeConnection(w) \/ TakeNothing(w))
    <3>1. UNCHANGED <<queueVars, mainState, toClose>>
      BY <1>12, <2>2
      DEF WorkerThread, RefuseRequest, StallOnRequest, ConnectionReset, OpenFile,
          OpenFileFails, SendFile, MmapFails, ForkCgi, ForkFails, ReapCgi, CloseConnection
    <3> QED
      BY <3>1 DEF Outside, MainHolds, Queued
  <2> QED
    BY <2>1, <2>2
<1> QED
  BY <1>6, <1>7, <1>8, <1>9, <1>10, <1>11, <1>12 DEF Next, MainThread

(* A full table holds what is outside, one connection for each busy thread *)
(* and one file for each that maps one.                                    *)
LEMMA FullTable ==
  ASSUME TypeInv, QueueInv, NumbersInv, BusyInv, FdInv, SizeInv, Up, HasBound, FreeFds = {}
  PROVE  /\ IsFiniteSet(Mapping) /\ Cardinality(Mapping) \in Nat
         /\ Cardinality(Outside) \in Nat /\ Cardinality(Outside) <= capacity + 1
         /\ mainState = "accept" => Cardinality(Outside) <= capacity
         /\ IsFiniteSet(running) /\ Cardinality(running) \in Nat
         /\ Cardinality(Fds) \in Nat
         /\ Cardinality(Fds) <=
              Cardinality(Outside) + Cardinality(running) + Cardinality(Mapping)
<1>1. IsFiniteSet(running) /\ Cardinality(running) \in Nat
  BY WorkersFinite, FS_Subset, FS_CardinalityType DEF TypeInv
<1>2. /\ IsFiniteSet(Busy) /\ Cardinality(Busy) <= Cardinality(running)
      /\ IsFiniteSet(Mapping) /\ Cardinality(Mapping) \in Nat /\ Cardinality(Busy) \in Nat
  <2>1. Busy \subseteq running /\ Mapping \subseteq running
    BY DEF BusyInv, Busy, Mapping
  <2> QED
    BY <1>1, <2>1, FS_Subset, FS_CardinalityType
<1>3. /\ IsFiniteSet(Serving) /\ Cardinality(Serving) <= Cardinality(Busy)
      /\ Cardinality(Serving) \in Nat
  BY <1>2, ImageBound, FS_CardinalityType DEF Serving
<1>4. IsFiniteSet(Outside) /\ Cardinality(Outside) \in Nat
      /\ Cardinality(Outside) <= capacity + 1
  <2>1. Outside \subseteq 0 .. MaxArrivals
    BY QueueFacts, WorkersFinite DEF Outside, NumbersInv, MainHolds
  <2>2. IsFiniteSet(0 .. MaxArrivals)
    BY WorkersFinite, FS_Interval
  <2> QED
    BY <2>1, <2>2, FS_Subset, FS_CardinalityType DEF SizeInv
<1>5. mainState = "accept" => Cardinality(Outside) <= capacity
  <2>1. mainState = "accept" => Outside = Queued
    BY DEF NumbersInv, Outside, MainHolds
  <2> QED
    BY <2>1, QueueSize DEF HasBound
<1> DEFINE Conns == {fdOf[n] : n \in Owned}
           Files == {srcfd[w] : w \in Mapping}
<1>6. Owned = Outside \union Serving
  BY DEF Owned, Outside
<1>7. /\ IsFiniteSet(Owned) /\ Cardinality(Owned) \in Nat
      /\ Cardinality(Owned) <= Cardinality(Outside) + Cardinality(Serving)
  BY <1>3, <1>4, <1>6, UnionBound, FS_CardinalityType
<1>8. /\ IsFiniteSet(Conns) /\ Cardinality(Conns) <= Cardinality(Owned)
      /\ IsFiniteSet(Files) /\ Cardinality(Files) <= Cardinality(Mapping)
      /\ Cardinality(Conns) \in Nat /\ Cardinality(Files) \in Nat
  BY <1>2, <1>7, ImageBound, FS_CardinalityType
<1>9. Fds \subseteq Conns \union Files
  BY DEF FdInv, Denotes, FreeFds
<1>10. /\ IsFiniteSet(Conns \union Files) /\ Cardinality(Conns \union Files) \in Nat
       /\ Cardinality(Conns \union Files) <= Cardinality(Conns) + Cardinality(Files)
  BY <1>8, UnionBound, FS_CardinalityType
<1> HIDE DEF Conns, Files
<1>11. Cardinality(Fds) <= Cardinality(Conns \union Files) /\ Cardinality(Fds) \in Nat
  BY <1>9, <1>10, FS_Subset, FS_CardinalityType
<1> QED
  BY <1>1, <1>2, <1>3, <1>4, <1>5, <1>7, <1>8, <1>10, <1>11

EnoughFds == Cardinality(Fds) >= capacity + 2 * Cardinality(running) + 1

LEMMA SufficeStep ==
  ASSUME TypeInv, QueueInv, NumbersInv, BusyInv, FdInv, SizeInv, DescriptorsSuffice,
         [Next]_vars
  PROVE  DescriptorsSuffice'
<1> SUFFICES ASSUME EnoughFds', HasBound', status' = "EMFILE"
             PROVE  FALSE
  BY DEF DescriptorsSuffice, EnoughFds, HasBound
<1> USE DEF startVars, mainVars, workerVars, queueVars
<1>1. CASE ~Up
  <2>1. UNCHANGED <<capacity, schedPolicy, running, status>>
    BY <1>1, NotUpSteps
  <2> QED
    BY <2>1 DEF DescriptorsSuffice, EnoughFds, HasBound, MQ!ShortRandom
<1>2. ASSUME Up, UNCHANGED <<capacity, schedPolicy, running>>, FreeFds = {}
      PROVE  /\ HasBound /\ EnoughFds /\ capacity \in Nat
             /\ Cardinality(Fds) <=
                  Cardinality(Outside) + Cardinality(running) + Cardinality(Mapping)
  BY <1>2, FullTable, QueueFacts DEF HasBound, EnoughFds, MQ!ShortRandom
<1>3. CASE Up /\ AcceptFails
  <2>1. UNCHANGED <<capacity, schedPolicy, running>> /\ FreeFds = {} /\ mainState = "accept"
    BY <1>3 DEF AcceptFails
  <2>2. Mapping \subseteq running
    BY DEF BusyInv, Busy, Mapping
  <2>3. HasBound
    BY <1>2, <1>3, <2>1
  <2>4. Cardinality(Mapping) <= Cardinality(running)
    BY <1>3, <2>1, <2>2, <2>3, FullTable, FS_Subset
  <2>5. Cardinality(Outside) <= capacity
    BY <1>3, <2>1, <2>3, FullTable
  <2>6. /\ Cardinality(Mapping) \in Nat /\ Cardinality(Outside) \in Nat
        /\ Cardinality(running) \in Nat /\ Cardinality(Fds) \in Nat
    BY <1>3, <2>1, <2>3, FullTable
  <2> QED
    BY <1>2, <1>3, <2>1, <2>4, <2>5, <2>6 DEF EnoughFds
<1>4. ASSUME NEW w \in Workers, Up, OpenFileFails(w)
      PROVE  FALSE
  <2>1. UNCHANGED <<capacity, schedPolicy, running>> /\ FreeFds = {} /\ job[w] = "reading"
    BY <1>4 DEF OpenFileFails
  <2>2. Mapping \subseteq running \ {w} /\ w \in running
    BY <2>1 DEF BusyInv, Busy, Mapping
  <2>3. HasBound
    BY <1>2, <1>4, <2>1
  <2>4. IsFiniteSet(running) /\ Cardinality(running) \in Nat
    BY <1>4, <2>1, <2>3, FullTable
  <2>5. IsFiniteSet(running \ {w}) /\ Cardinality(running \ {w}) = Cardinality(running) - 1
    BY <2>2, <2>4, FS_RemoveElement
  <2>6. Cardinality(Mapping) <= Cardinality(running) - 1
    BY <2>2, <2>5, FS_Subset
  <2>7. /\ Cardinality(Outside) <= capacity + 1
        /\ Cardinality(Mapping) \in Nat /\ Cardinality(Outside) \in Nat
        /\ Cardinality(Fds) \in Nat
    BY <1>4, <2>1, <2>3, FullTable
  <2> QED
    BY <1>2, <1>4, <2>1, <2>4, <2>6, <2>7 DEF EnoughFds
<1>5. ASSUME Up, UNCHANGED status \/ \E r : r # "EMFILE" /\ Exit(r)
      PROVE  FALSE
  BY <1>5 DEF Exit, Up
<1>6. ASSUME NEW fd, Close(fd)
      PROVE  UNCHANGED status \/ \E r : r # "EMFILE" /\ Exit(r)
  BY <1>6 DEF Close
<1>7. CASE Up /\ (Start \/ SpuriousWakeup \/ UNCHANGED vars)
  BY <1>5, <1>7
  DEF Start, ThreadPoolCreate, MQCreate, FailedStart, TPAddThread, ThreadsAdded, StartThread,
      OpenListenfd, AllocateDropArray, SpuriousWakeup, vars
<1>8. CASE Up /\ MainThread
  BY <1>3, <1>5, <1>6, <1>8
  DEF MainThread, AcceptConnection, NoMessage, PutConnection, ResumePut, CloseDropped,
      HandlePutResult
<1>9. ASSUME NEW w \in Workers, Up, WorkerThread(w)
      PROVE  FALSE
  BY <1>4, <1>5, <1>6, <1>9
  DEF WorkerThread, TakeConnection, TakeNothing, RefuseRequest, StallOnRequest,
      ConnectionReset, OpenFile, SendFile, MmapFails, ForkCgi, ForkFails, ReapCgi,
      CloseConnection
<1>10. ASSUME NEW w \in Workers, Up, CgiExits(w)
       PROVE  FALSE
  BY <1>5, <1>10 DEF CgiExits
<1> QED
  BY <1>1, <1>7, <1>8, <1>9, <1>10 DEF Next

-----------------------------------------------------------------------------
(* The theorems.                                                           *)

ServerInv ==
  /\ QueueInv /\ TypeInv /\ StartInv /\ NumbersInv /\ BusyInv /\ FdInv
  /\ NoEBADF /\ StatsInv /\ RollbackInv

LEMMA ServerInvInit == Init => ServerInv
<1> SUFFICES ASSUME Init PROVE ServerInv
  OBVIOUS
<1>1. QueueInv
  BY QueueInvInit DEF Init
<1>2. queue = <<>> /\ arrivals = 0 /\ putState = "running" /\ dropped = {}
      /\ got = [w \in Workers |-> 0]
  BY DEF Init, MQ!Init, MQ!MQCreate
<1>3. Queued = {}
  BY <1>2 DEF Queued
<1>4. PICK c \in Configs : threadPoolSize = c.threadPoolSize /\ clients = c.clients
  BY DEF Init
<1>5. threadPoolSize \in Nat /\ clients \in 0 .. MaxArrivals
  BY <1>4, ServerAssumption, WorkersFinite
<1>6. TypeInv
  BY <1>5
  DEF Init, TypeInv, Tables, Numbers, Sources, MainStates, Jobs, Statuses, MetaData,
      NoMetaData
<1>7. StartInv
  <2>1. pool \union running = {} /\ Cardinality({}) = 0
    BY FS_EmptySet DEF Init
  <2> QED
    BY <1>5, <2>1 DEF Init, StartInv
<1>8. NumbersInv
  BY <1>2, <1>3, WorkersFinite DEF Init, NumbersInv
<1>9. Busy = {} /\ Mapping = {} /\ Serving = {} /\ MainHolds = {} /\ Owned = {}
  BY <1>3 DEF Init, Busy, Mapping, Serving, MainHolds, Owned
<1>10. BusyInv /\ FdInv
  BY <1>9 DEF Init, BusyInv, FdInv, Denotes
<1>11. NoEBADF /\ StatsInv /\ RollbackInv
  BY DEF Init, NoEBADF, StatsInv, CountsAgree, RollbackInv
<1> QED
  BY <1>1, <1>6, <1>7, <1>8, <1>10, <1>11 DEF ServerInv

LEMMA ServerInvStep == ServerInv /\ [Next]_vars => ServerInv'
<1> SUFFICES ASSUME ServerInv, [Next]_vars PROVE ServerInv'
  OBVIOUS
<1> USE DEF ServerInv
<1>1. QueueInv' /\ TypeInv' /\ StartInv' /\ NumbersInv'
  BY QueueStep, QueueInvStep, TypeInvStep, StartInvStep, NumbersInvStep
<1>2. BusyInv' /\ FdInv' /\ NoEBADF'
  BY BusyInvStep, FdInvStep, NoEBADFStep
<1>3. StatsInv' /\ RollbackInv'
  BY StatsStep, RollbackStep
<1> QED
  BY <1>1, <1>2, <1>3

(* The inductive invariant of the server. *)
THEOREM ServerInvariance == Spec => []ServerInv
BY ServerInvInit, ServerInvStep, PTL DEF Spec

(* The threads of the server use the queue as MessageQueue has it used, so *)
(* every property of the monitor holds inside the server.                  *)
THEOREM ServerUsesQueue == Spec => UsesQueue
<1>1. Init => MQ!Init
  BY DEF Init
<1>2. ServerInv /\ [Next]_vars => [MQ!Next]_(MQ!vars)
  BY QueueStep DEF ServerInv
<1> QED
  BY <1>1, <1>2, ServerInvariance, PTL DEF Spec, UsesQueue, MQ!Spec

(* Every variable of the server keeps its type, in a process that goes on  *)
(* and in one that ended.                                                  *)
THEOREM ServerTypeCorrect == Spec => []TypeOK
<1>1. ServerInv => TypeOK
  BY SameTypes
  DEF ServerInv, QueueInv, MQP!IInv, TypeInv, StartInv, NumbersInv, TypeOK, Tables, Numbers,
      Sources, MainStates, Jobs
<1> QED
  BY <1>1, ServerInvariance, PTL

LEMMA HeldIsServing == UNION {Held(w) : w \in Workers} = Serving
BY DEF Held, Serving, Busy

(* A number that was accepted as a connection denotes that connection as   *)
(* long as anybody is going to serve or close it, and no Close fails, for  *)
(* every interleaving of accepts, drops, opens and closes of any number of *)
(* threads.                                                                *)
THEOREM DescriptorsStayRight == Spec => []DescriptorsDenote
<1>1. ServerInv => DescriptorsDenote
  BY HeldIsServing DEF ServerInv, NoEBADF, FdInv, Denotes, DescriptorsDenote, Owned
<1> QED
  BY <1>1, ServerInvariance, PTL

(* Every open connection has exactly one owner: none is leaked and none is *)
(* closed twice.                                                           *)
THEOREM ConnectionsOwnedOnce == Spec => []EveryConnectionHeld
<1>1. ASSUME ServerInv, Up
      PROVE  OpenConnections = MainHolds \union Queued \union Serving
  <2>1. Denotes(fdTable, fdOf, Owned, Mapping, srcfd) /\ fdTable \in Tables
    BY <1>1 DEF ServerInv, FdInv, TypeInv
  <2>2. ASSUME NEW n \in Owned PROVE n \in OpenConnections
    <3>1. n \in 1 .. MaxArrivals /\ fdOf[n] \in Fds /\ fdTable[fdOf[n]] = n
      BY <2>1, <2>2 DEF Denotes
    <3>2. n \notin {Free, File}
      BY <3>1, WorkersFinite DEF Free, File
    <3> QED
      BY <3>1, <3>2 DEF OpenConnections
  <2>3. OpenConnections \subseteq Owned
    BY <2>1 DEF Denotes, OpenConnections
  <2> QED
    BY <2>2, <2>3 DEF Owned
<1>2. ASSUME ServerInv, Up
      PROVE  /\ MainHolds \intersect Queued = {}
             /\ \A w \in Workers :
                  /\ Held(w) \intersect (MainHolds \union Queued) = {}
                  /\ \A v \in Workers \ {w} : Held(w) \intersect Held(v) = {}
  BY <1>2, Apart DEF ServerInv, Held, BusyInv, Busy
<1>3. ServerInv => EveryConnectionHeld
  BY <1>1, <1>2, HeldIsServing DEF EveryConnectionHeld
<1> QED
  BY <1>3, ServerInvariance, PTL

(* The Stat-Thread headers of every response, sent from the counters of    *)
(* the message, add up, and agree with what the thread counts afterwards,  *)
(* for every worker, every number of requests and every mix of them.       *)
THEOREM StatsCorrect == Spec => []StatsAddUp
<1>1. ServerInv => StatsAddUp
  BY StatsInvSuffices DEF ServerInv
<1> QED
  BY <1>1, ServerInvariance, PTL

(* Every rollback of the start frees what was allocated, once, but args,   *)
(* and what the threads use stays allocated.                               *)
THEOREM FailedStartFrees == Spec => []RollbackFrees
<1>1. ServerInv => RollbackFrees
  BY PoolBlocksAre DEF ServerInv, RollbackInv, StartInv, RollbackFrees
<1> QED
  BY <1>1, ServerInvariance, PTL

(* As many descriptors as capacity, two for each thread and one more are   *)
(* enough: no accept and no open of the server ever fails for want of one, *)
(* unless the queue is the one without a bound.                            *)
THEOREM DescriptorsAreEnough == Spec => []DescriptorsSuffice
<1> DEFINE Inv == SizeInv /\ DescriptorsSuffice
<1>1. Init => Inv
  <2>1. Init => MainHolds = {} /\ Queued = {} /\ capacity \in Nat
    BY QueueInvInit, QueueFacts DEF Init, MQ!Init, MQ!MQCreate, MainHolds, Queued
  <2>2. Init => Cardinality(Outside) = 0
    BY <2>1, FS_EmptySet DEF Outside
  <2> QED
    BY <2>1, <2>2 DEF SizeInv, DescriptorsSuffice, Init
<1>2. ServerInv /\ Inv /\ [Next]_vars => Inv'
  BY SizeInvStep, SufficeStep DEF ServerInv
<1>3. Inv => DescriptorsSuffice
  OBVIOUS
<1> QED
  BY <1>1, <1>2, <1>3, ServerInvariance, PTL DEF Spec
=============================================================================
