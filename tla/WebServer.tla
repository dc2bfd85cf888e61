------------------------------ MODULE WebServer ------------------------------
(***************************************************************************)
(* The server of HW3: the main thread of startServer accepts connections   *)
(* and puts them in the message queue, the worker threads take them, serve *)
(* them and close them.  The threads share one table of descriptors, in    *)
(* which a closed number is at once free for the next accept or open, and  *)
(* one life: any failing system call ends the whole process, because       *)
(* unix_error in segel.c calls exit.                                       *)
(*                                                                         *)
(* Connection n is the n-th accepted one; it travels as message n, whose   *)
(* content is the descriptor fdOf[n].  What the client of a connection     *)
(* does is decided when a worker reads its request.                        *)
(*                                                                         *)
(* Before that the main thread builds the thread pool and the queue, fills *)
(* the pool, starts its threads and opens its port (HW3/thread_pool.c);    *)
(* each of these can fail, and not every failure ends the start.           *)
(***************************************************************************)
EXTENDS Integers, Sequences, FiniteSets

CONSTANTS
  Workers,          \* the threads that the pool can have
  Configs,          \* the command lines, with the clients that come then
  MaxArrivals,      \* bound: how many connections arrive at most
  SpuriousWakeups,  \* as in MessageQueue
  MallocMayFail,    \* as in MessageQueue; pthread_create, mmap and fork too
  Fds               \* the descriptors left for connections and files

(* A client asks for a file, for a CGI program or for something the server *)
(* refuses; or it never completes its request; or it resets the connection *)
(* while the server talks to it.                                           *)
RequestKinds == {"static", "dynamic", "invalid", "stalls", "reset"}

Free == 0    \* nothing is open at a descriptor
File == -1   \* a file that requestServeStatic maps is open there
None == 0    \* no connection: connections are numbered from 1

VARIABLES
  capacity, schedPolicy, queue, lockLeaked, arrivals, putState, putRetCode,
  dropped, getState, got,  \* the message queue
  threadPoolSize,  \* of the command line
  clients,    \* bound: how many clients connect in this behaviour
  requests,   \* and what they do, out of RequestKinds
  pool,       \* the threads in the pool that are not created yet
  running,    \* the threads that run workerThreadJob
  blocks,     \* what is allocated for the pool and the queue
  hasDropArray, \* is droppedConnectionsContents allocated?
  fdTable,    \* what each descriptor denotes: Free, File or a connection
  fdOf,       \* the content of each message
  mainState,  \* where the main thread is in its loop
  toClose,    \* the dropped connections the main thread has yet to close
  job,        \* job[w]: where worker w is in the request it serves
  srcfd,      \* srcfd[w]: the descriptor of the file w serves, when it has one
  cgi,        \* cgi[w]: the connections the CGI child of w holds open
  jobCount, staticCount, dynamicCount,  \* the counters of each worker
  metaData,   \* metaData[w]: their copy in the message w serves, for the headers
  status      \* "up", or why the process ended

queueVars == <<capacity, schedPolicy, queue, lockLeaked, arrivals, putState,
               putRetCode, dropped, getState, got>>
counters == <<jobCount, staticCount, dynamicCount, metaData>>
mainVars == <<mainState, toClose, fdOf>>
workerVars == <<job, srcfd, cgi, counters>>
startVars == <<threadPoolSize, clients, requests, pool, running, blocks, hasDropArray>>
vars == <<queueVars, startVars, fdTable, mainVars, workerVars, status>>

QueueConfigs ==
  {[capacity |-> c.capacity, schedPolicy |-> c.schedPolicy] : c \in Configs}

MQ == INSTANCE MessageQueue WITH Configs <- QueueConfigs

ASSUME ServerAssumption ==
  /\ MQ!MQAssumption
  /\ Fds \subseteq Nat /\ IsFiniteSet(Fds)
  /\ \A c \in Configs : /\ c.threadPoolSize \in 0 .. Cardinality(Workers)
                         /\ c.clients \in 0 .. MaxArrivals
                         /\ c.requests \subseteq RequestKinds

Up == status = "up"

FreeFds == {fd \in Fds : fdTable[fd] = Free}

(* accept and open take the lowest free descriptor. *)
NextFd == CHOOSE fd \in FreeFds : \A other \in FreeFds : fd <= other

(* What is left of the metadata of a message that is freed, or not there yet. *)
NoMetaData == [requestsCount |-> 0, numStaticRequests |-> 0, numDynamicRequests |-> 0]

(* exit, or the return of main: the kernel closes every descriptor of the  *)
(* process.  CGI children live on.                                         *)
Exit(reason) ==
  /\ status' = reason
  /\ fdTable' = [fd \in Fds |-> Free]

(* Close of segel.c: closing a descriptor that is not open ends the process. *)
Close(fd) ==
  IF fdTable[fd] = Free THEN Exit("EBADF")
  ELSE fdTable' = [fdTable EXCEPT ![fd] = Free] /\ UNCHANGED status

Init ==
  /\ MQ!Init
  /\ \E c \in Configs : /\ c.capacity = capacity
                        /\ c.schedPolicy = schedPolicy
                        /\ threadPoolSize = c.threadPoolSize
                        /\ clients = c.clients
                        /\ requests = c.requests
  /\ pool = {}
  /\ running = {}
  /\ blocks = {}
  /\ hasDropArray = FALSE
  /\ fdTable = [fd \in Fds |-> Free]
  /\ fdOf = [n \in 1 .. MaxArrivals |-> None]
  /\ mainState = "createPool"
  /\ toClose = {}
  /\ job = [w \in Workers |-> "idle"]
  /\ srcfd = [w \in Workers |-> None]
  /\ cgi = [w \in Workers |-> {}]
  /\ jobCount = [w \in Workers |-> 0]
  /\ staticCount = [w \in Workers |-> 0]
  /\ dynamicCount = [w \in Workers |-> 0]
  /\ metaData = [w \in Workers |-> NoMetaData]
  /\ status = "up"

-----------------------------------------------------------------------------
(* The start.                                                              *)

(* What ThreadPoolCreate allocates, in this order. *)
PoolBlocks == <<"pool", "functions", "threads", "args">>

(* Slip: the last rollback forgets the array of functions. *)
BugForgetFunctions == <<{}, {"pool"}, {"functions", "pool"}, {"threads", "pool"}>>

(* What it frees when the i-th of its allocations fails. *)
PoolRollback == <<{}, {"pool"}, {"functions", "pool"}, {"functions", "threads", "pool"}>>

(* What ThreadPoolFree frees; it leaves args. *)
ThreadPoolFree == {"functions", "threads", "pool"}

(* startServer returns after a rollback of what was allocated so far. *)
FailedStart(allocated, freed) ==
  /\ blocks' = allocated \ freed
  /\ Exit(IF freed \subseteq allocated THEN "no start" ELSE "bad free")

ThreadPoolCreate ==
  /\ mainState = "createPool"
  /\ \/ /\ blocks' = {PoolBlocks[i] : i \in DOMAIN PoolBlocks}
        /\ mainState' = "createQueue"
        /\ UNCHANGED <<fdTable, status>>
     \/ /\ MallocMayFail
        /\ \E i \in DOMAIN PoolBlocks :
             FailedStart({PoolBlocks[j] : j \in 1 .. i - 1}, PoolRollback[i])
        /\ UNCHANGED mainState
  /\ UNCHANGED <<queueVars, threadPoolSize, clients, requests, pool, running, hasDropArray,
                 toClose, fdOf, workerVars>>

(* The queue is the one that the variables of MessageQueue describe; or    *)
(* MQCreate finds no memory; or it does not know the policy that the       *)
(* command line names, and frees the queue again.                          *)
MQCreate ==
  /\ mainState = "createQueue"
  /\ \/ /\ blocks' = blocks \union {"queue"}
        /\ mainState' = "addThreads"
        /\ UNCHANGED <<fdTable, status>>
     \/ MallocMayFail /\ FailedStart(blocks, ThreadPoolFree) /\ UNCHANGED mainState
     \/ /\ FailedStart(blocks \union {"queue"}, {"queue"} \union ThreadPoolFree)
        /\ UNCHANGED mainState
  /\ UNCHANGED <<queueVars, threadPoolSize, clients, requests, pool, running, hasDropArray,
                 toClose, fdOf, workerVars>>

PoolHasRoom == Cardinality(pool) < threadPoolSize

TPAddThread ==
  /\ mainState = "addThreads" /\ PoolHasRoom
  /\ \E w \in Workers \ pool : pool' = pool \union {w}
  /\ UNCHANGED <<queueVars, threadPoolSize, clients, requests, running, blocks, hasDropArray,
                 mainVars, fdTable, workerVars, status>>

(* The end of initWorkerThreads, or its return when it finds no memory:    *)
(* the caller goes on with the threads there are.                          *)
ThreadsAdded ==
  /\ mainState = "addThreads"
  /\ PoolHasRoom => MallocMayFail
  /\ mainState' = "startThreads"
  /\ UNCHANGED <<queueVars, startVars, toClose, fdOf, fdTable, workerVars, status>>

(* TPSignalStartAll; nobody looks at the result of pthread_create. *)
StartThread ==
  /\ mainState = "startThreads"
  /\ \E w \in pool :
       /\ pool' = pool \ {w}
       /\ \/ running' = running \union {w}
          \/ MallocMayFail /\ UNCHANGED running
  /\ UNCHANGED <<queueVars, threadPoolSize, clients, requests, blocks, hasDropArray, mainVars,
                 fdTable, workerVars, status>>

(* Open_listenfd ends the process, workers and all, when it fails. *)
OpenListenfd ==
  /\ mainState = "startThreads" /\ pool = {}
  /\ \/ mainState' = "listening" /\ UNCHANGED <<fdTable, status>>
     \/ Exit("no port") /\ UNCHANGED mainState
  /\ UNCHANGED <<queueVars, startVars, toClose, fdOf, workerVars>>

(* The array for what MQPut drops is allocated, and not tested. *)
AllocateDropArray ==
  /\ mainState = "listening"
  /\ mainState' = "accept"
  /\ hasDropArray' \in {TRUE, ~MallocMayFail}
  /\ UNCHANGED <<queueVars, threadPoolSize, clients, requests, pool, running, blocks,
                 toClose, fdOf, fdTable, workerVars, status>>

-----------------------------------------------------------------------------
(* The main thread.                                                        *)

MoreArrive == arrivals < clients

(* Accept, and the message built for the new connection. *)
AcceptConnection ==
  /\ mainState = "accept"
  /\ MoreArrive
  /\ FreeFds # {}
  /\ fdTable' = [fdTable EXCEPT ![NextFd] = arrivals + 1]
  /\ fdOf' = [fdOf EXCEPT ![arrivals + 1] = NextFd]
  /\ mainState' = "put"
  /\ UNCHANGED <<queueVars, startVars, toClose, workerVars, status>>

(* Accept finds no free descriptor. *)
AcceptFails ==
  /\ mainState = "accept"
  /\ MoreArrive
  /\ FreeFds = {}
  /\ Exit("EMFILE")
  /\ UNCHANGED <<queueVars, startVars, mainVars, workerVars>>

(* buildMessageMetaData found no memory, or MessageCreate did and MQPut    *)
(* refuses its NULL: the loop is left and main returns.                    *)
NoMessage ==
  /\ mainState = "put"
  /\ MallocMayFail
  /\ Exit("malloc")
  /\ UNCHANGED <<queueVars, startVars, mainVars, workerVars>>

(* Slip: the closing loop runs to droppedAmount included, over a slot that *)
(* holds no connection.                                                    *)
BugOneDropTooMany ==
  \/ /\ putState' # "running"
     /\ mainState' = "putting"
     /\ UNCHANGED <<toClose, fdTable, status>>
  \/ /\ putState' = "running" /\ putRetCode' = "MQ_SUCCESS"
     /\ mainState' = "accept"
     /\ UNCHANGED <<toClose, fdTable, status>>
  \/ /\ putState' = "running" /\ putRetCode' = "MQ_DROP"
     /\ mainState' = "dropping"
     /\ toClose' = dropped' \union {None}
     /\ UNCHANGED <<fdTable, status>>

(* What the main thread does with the result of MQPut, once it returns. *)
HandlePutResult ==
  \/ /\ putState' # "running"
     /\ mainState' = "putting"
     /\ UNCHANGED <<toClose, fdTable, status>>
  \/ /\ putState' = "running" /\ putRetCode' = "MQ_SUCCESS"
     /\ mainState' = "accept"
     /\ UNCHANGED <<toClose, fdTable, status>>
  \/ /\ putState' = "running" /\ putRetCode' = "MQ_DROP" /\ hasDropArray
     /\ mainState' = "dropping"
     /\ toClose' = dropped'
     /\ UNCHANGED <<fdTable, status>>
  \/ /\ putState' = "running" /\ putRetCode' = "MQ_DROP" /\ ~hasDropArray
     /\ Exit("NULL")  \* MQPut wrote through it
     /\ UNCHANGED <<mainState, toClose>>
  \/ /\ putState' = "running" /\ putRetCode' = "MQ_ERR_MEMORY_FAIL"
     /\ Exit("malloc")
     /\ UNCHANGED <<mainState, toClose>>

(* Slip: the message of the previous connection is put again. *)
BugPutPrevious ==
  /\ mainState = "put"
  /\ MQ!MQPut(IF arrivals = 0 THEN 1 ELSE arrivals)
  /\ HandlePutResult
  /\ UNCHANGED <<startVars, fdOf, workerVars>>

PutConnection ==
  /\ mainState = "put"
  /\ MQ!MQPut(arrivals + 1)
  /\ HandlePutResult
  /\ UNCHANGED <<startVars, fdOf, workerVars>>

ResumePut ==
  /\ mainState = "putting"
  /\ MQ!MQPutResume
  /\ HandlePutResult
  /\ UNCHANGED <<startVars, fdOf, workerVars>>

(* Slip: closes connfd, the connection just accepted, for each drop. *)
BugCloseNewest ==
  /\ mainState = "dropping"
  /\ \E n \in toClose :
       /\ Close(fdOf[arrivals])
       /\ toClose' = toClose \ {n}
  /\ mainState' = IF toClose' = {} THEN "accept" ELSE "dropping"
  /\ UNCHANGED <<queueVars, startVars, fdOf, workerVars>>

(* One iteration of the loop that closes what was dropped. *)
CloseDropped ==
  /\ mainState = "dropping"
  /\ \E n \in toClose :
       /\ \A other \in toClose : n <= other
       /\ Close(fdOf[n])
       /\ toClose' = toClose \ {n}
  /\ mainState' = IF toClose' = {} THEN "accept" ELSE "dropping"
  /\ UNCHANGED <<queueVars, startVars, fdOf, workerVars>>

-----------------------------------------------------------------------------
(* The workers.                                                            *)

(* MQGet; a worker that got a message counts it, copies its counters into  *)
(* the metadata and turns to its request.                                  *)
TakeConnection(w) ==
  /\ w \in running /\ job[w] = "idle"
  /\ MQ!MQGet(w)
  /\ IF got' = got THEN UNCHANGED <<job, jobCount, metaData>>
     ELSE /\ job' = [job EXCEPT ![w] = "reading"]
          /\ jobCount' = [jobCount EXCEPT ![w] = @ + 1]
          /\ metaData' = [metaData EXCEPT ![w] =
                            [requestsCount |-> jobCount'[w],
                             numStaticRequests |-> staticCount[w],
                             numDynamicRequests |-> dynamicCount[w]]]
  /\ UNCHANGED <<startVars, fdTable, mainVars, srcfd, cgi, staticCount, dynamicCount,
                 status>>

(* MQGet found no memory for the copy and gave NULL, which is followed. *)
TakeNothing(w) ==
  /\ MallocMayFail
  /\ w \in running /\ job[w] = "idle"
  /\ MQ!MQGet(w) /\ got' # got
  /\ Exit("NULL")
  /\ UNCHANGED <<startVars, mainVars, workerVars>>

(* requestHandle answers 501, 404 or 403 and counts nothing. *)
RefuseRequest(w) ==
  /\ job[w] = "reading" /\ "invalid" \in requests
  /\ job' = [job EXCEPT ![w] = "closing"]
  /\ UNCHANGED <<queueVars, startVars, fdTable, mainVars, srcfd, cgi, counters, status>>

(* The client sends no more, or closes its side before the blank line that *)
(* ends the headers: the read never returns, or requestReadhdrs tests the  *)
(* same buffer for ever.                                                   *)
StallOnRequest(w) ==
  /\ job[w] = "reading" /\ "stalls" \in requests
  /\ job' = [job EXCEPT ![w] = "stuck"]
  /\ UNCHANGED <<queueVars, startVars, fdTable, mainVars, srcfd, cgi, counters, status>>

(* A read from or a write to the connection fails. *)
ConnectionReset(w) ==
  /\ job[w] \in {"reading", "mapping"} /\ "reset" \in requests
  /\ Exit("reset")
  /\ UNCHANGED <<queueVars, startVars, mainVars, workerVars>>

(* The request is counted in the metadata and requestServeStatic opens the *)
(* file.                                                                   *)
OpenFile(w) ==
  /\ job[w] = "reading" /\ "static" \in requests
  /\ FreeFds # {}
  /\ fdTable' = [fdTable EXCEPT ![NextFd] = File]
  /\ srcfd' = [srcfd EXCEPT ![w] = NextFd]
  /\ job' = [job EXCEPT ![w] = "mapping"]
  /\ metaData' = [metaData EXCEPT ![w].numStaticRequests = @ + 1]
  /\ UNCHANGED <<queueVars, startVars, mainVars, cgi, jobCount, staticCount, dynamicCount,
                 status>>

OpenFileFails(w) ==
  /\ job[w] = "reading" /\ "static" \in requests
  /\ FreeFds = {}
  /\ Exit("EMFILE")
  /\ UNCHANGED <<queueVars, startVars, mainVars, workerVars>>

(* Slip: the file is mapped and its descriptor stays open. *)
BugFileStaysOpen(w) ==
  /\ job[w] = "mapping"
  /\ srcfd' = [srcfd EXCEPT ![w] = None]
  /\ staticCount' = [staticCount EXCEPT ![w] = @ + 1]
  /\ job' = [job EXCEPT ![w] = "closing"]
  /\ UNCHANGED <<queueVars, startVars, fdTable, mainVars, cgi, jobCount, dynamicCount,
                 metaData, status>>

(* Mmap ends the process when it fails. *)
MmapFails(w) ==
  /\ job[w] = "mapping" /\ MallocMayFail
  /\ Exit("mmap")
  /\ UNCHANGED <<queueVars, startVars, mainVars, workerVars>>

(* The file is mapped and its descriptor closed; it is sent from memory,   *)
(* after the headers, and the thread counts the request.                   *)
SendFile(w) ==
  /\ job[w] = "mapping"
  /\ Close(srcfd[w])
  /\ srcfd' = [srcfd EXCEPT ![w] = None]
  /\ staticCount' = [staticCount EXCEPT ![w] = @ + 1]
  /\ job' = [job EXCEPT ![w] = "closing"]
  /\ UNCHANGED <<queueVars, startVars, mainVars, cgi, jobCount, dynamicCount, metaData>>

OpenConnections == {fdTable[fd] : fd \in Fds} \ {Free, File}

(* The request is counted in the metadata; requestServeDynamic sends the   *)
(* headers and forks: the child inherits every open descriptor, those of   *)
(* connections that other threads hold included.                           *)
ForkCgi(w) ==
  /\ job[w] = "reading" /\ "dynamic" \in requests
  /\ metaData' = [metaData EXCEPT ![w].numDynamicRequests = @ + 1]
  /\ cgi' = [cgi EXCEPT ![w] = OpenConnections]
  /\ job' = [job EXCEPT ![w] = "waiting"]
  /\ UNCHANGED <<queueVars, startVars, fdTable, mainVars, srcfd, jobCount, staticCount,
                 dynamicCount, status>>

(* So does Fork. *)
ForkFails(w) ==
  /\ job[w] = "reading" /\ "dynamic" \in requests /\ MallocMayFail
  /\ Exit("fork")
  /\ UNCHANGED <<queueVars, startVars, mainVars, workerVars>>

(* The CGI program ends, the server being up or not. *)
CgiExits(w) ==
  /\ cgi[w] # {}
  /\ cgi' = [cgi EXCEPT ![w] = {}]
  /\ UNCHANGED <<queueVars, startVars, fdTable, mainVars, job, srcfd, counters, status>>

(* Slip: the dynamic counter is not raised. *)
BugUncountedDynamic(w) ==
  /\ job[w] = "waiting"
  /\ cgi[w] = {}
  /\ job' = [job EXCEPT ![w] = "closing"]
  /\ UNCHANGED <<queueVars, startVars, fdTable, mainVars, srcfd, cgi, counters, status>>

(* WaitPid returns once the child is gone; the thread counts the request. *)
ReapCgi(w) ==
  /\ job[w] = "waiting"
  /\ cgi[w] = {}
  /\ dynamicCount' = [dynamicCount EXCEPT ![w] = @ + 1]
  /\ job' = [job EXCEPT ![w] = "closing"]
  /\ UNCHANGED <<queueVars, startVars, fdTable, mainVars, srcfd, cgi, jobCount, staticCount,
                 metaData, status>>

(* Slip: the worker goes on to the next connection without Close. *)
BugNoClose(w) ==
  /\ job[w] = "closing"
  /\ metaData' = [metaData EXCEPT ![w] = NoMetaData]
  /\ job' = [job EXCEPT ![w] = "idle"]
  /\ UNCHANGED <<queueVars, startVars, fdTable, mainVars, srcfd, cgi, jobCount, staticCount,
                 dynamicCount, status>>

(* The end of an iteration of workerThreadJob: the message is freed and    *)
(* the connection closed.                                                  *)
CloseConnection(w) ==
  /\ job[w] = "closing"
  /\ metaData' = [metaData EXCEPT ![w] = NoMetaData]
  /\ Close(fdOf[got[w]])
  /\ job' = [job EXCEPT ![w] = "idle"]
  /\ UNCHANGED <<queueVars, startVars, mainVars, srcfd, cgi, jobCount, staticCount,
                 dynamicCount>>

-----------------------------------------------------------------------------
SpuriousWakeup ==
  /\ MQ!SpuriousPutWakeup \/ \E w \in Workers : MQ!SpuriousGetWakeup(w)
  /\ UNCHANGED <<startVars, fdTable, mainVars, workerVars, status>>

Start ==
  \/ ThreadPoolCreate
  \/ MQCreate
  \/ TPAddThread
  \/ ThreadsAdded
  \/ StartThread
  \/ OpenListenfd
  \/ AllocateDropArray

MainThread ==
  \/ AcceptConnection
  \/ AcceptFails
  \/ NoMessage
  \/ PutConnection
  \/ ResumePut
  \/ CloseDropped

WorkerThread(w) ==
  \/ TakeConnection(w)
  \/ TakeNothing(w)
  \/ RefuseRequest(w)
  \/ StallOnRequest(w)
  \/ ConnectionReset(w)
  \/ OpenFile(w)
  \/ OpenFileFails(w)
  \/ SendFile(w)
  \/ MmapFails(w)
  \/ ForkCgi(w)
  \/ ForkFails(w)
  \/ ReapCgi(w)
  \/ CloseConnection(w)

Next ==
  \/ Up /\ Start
  \/ Up /\ MainThread
  \/ Up /\ SpuriousWakeup
  \/ \E w \in Workers : Up /\ WorkerThread(w)
  \/ \E w \in Workers : CgiExits(w)

(* Every thread is scheduled, and every CGI program ends.  New connections *)
(* are the clients' choice, so the main thread is only promised the steps  *)
(* that follow an accept.                                                  *)
Fairness ==
  /\ WF_vars(Up /\ (PutConnection \/ NoMessage))
  /\ WF_vars(Up /\ (ResumePut \/ CloseDropped))
  /\ \A w \in Workers : WF_vars(Up /\ WorkerThread(w)) /\ WF_vars(CgiExits(w))

Spec == Init /\ [][Next]_vars
FairSpec == Spec /\ Fairness

-----------------------------------------------------------------------------
(* Properties.                                                             *)

Statuses == {"up", "no start", "bad free", "no port", "NULL", "malloc", "EMFILE", "EBADF", "reset",
             "mmap", "fork"}

MetaData ==
  [requestsCount : Nat, numStaticRequests : Nat, numDynamicRequests : Nat]

TypeOK ==
  /\ MQ!TypeOK
  /\ fdTable \in [Fds -> {Free, File} \union 1 .. MaxArrivals]
  /\ fdOf \in [1 .. MaxArrivals -> Fds \union {None}]
  /\ mainState \in {"createPool", "createQueue", "addThreads", "startThreads",
                   "listening", "accept", "put", "putting", "dropping"}
  /\ {pool, running} \subseteq SUBSET Workers
  /\ Cardinality(pool \union running) <= threadPoolSize
  /\ hasDropArray \in BOOLEAN
  /\ toClose \subseteq 1 .. MaxArrivals
  /\ job \in [Workers ->
       {"idle", "reading", "stuck", "mapping", "waiting", "closing"}]
  /\ srcfd \in [Workers -> Fds \union {None}]
  /\ cgi \in [Workers -> SUBSET (1 .. MaxArrivals)]
  /\ \A w \in Workers : {jobCount[w], staticCount[w], dynamicCount[w]} \subseteq Nat
  /\ \A w \in Workers : metaData[w] \in MetaData
  /\ status \in Statuses

(* The connections each party answers for. *)
MainHolds ==
  toClose \union
    CASE mainState = "put"     -> {arrivals + 1}
      [] mainState = "putting" -> {arrivals}
      [] OTHER                 -> {}
Queued == {queue[i] : i \in 1 .. Len(queue)}
Held(w) == IF job[w] = "idle" THEN {} ELSE {got[w]}

(* Whatever descriptors were closed and opened again meanwhile, the number *)
(* a connection was accepted with still denotes it, in the queue, in the   *)
(* hands of a worker and on the list of drops: nobody serves or closes the *)
(* connection of another client.  And no Close of a connection or of a     *)
(* file finds its descriptor closed already, which would end the server.   *)
DescriptorsDenote ==
  /\ status # "EBADF"
  /\ Up => \A n \in MainHolds \union Queued \union UNION {Held(w) : w \in Workers} :
             fdTable[fdOf[n]] = n

(* No descriptor is forgotten: every open connection is held by the main   *)
(* thread, by the queue or by a worker, and by only one of them.           *)
EveryConnectionHeld ==
  Up => /\ OpenConnections =
             MainHolds \union Queued \union UNION {Held(w) : w \in Workers}
        /\ MainHolds \intersect Queued = {}
        /\ \A w \in Workers :
             /\ Held(w) \intersect (MainHolds \union Queued) = {}
             /\ \A v \in Workers \ {w} : Held(w) \intersect Held(v) = {}

(* Whichever allocation of the start fails, and for a policy that does not *)
(* exist, the rollbacks of ThreadPoolCreate, MQCreate and                  *)
(* initServerDataStructures free what is allocated and nothing else, and   *)
(* forget nothing but the array args; a thread is added or runs only with  *)
(* the whole pool and the queue, which stay allocated.                     *)
RollbackFrees ==
  /\ status # "bad free"
  /\ status = "no start" =>
       blocks = IF mainState = "createPool" THEN {} ELSE {"args"}
  /\ pool \union running # {} =>
       blocks = {PoolBlocks[i] : i \in DOMAIN PoolBlocks} \union {"queue"}

(* The queue bound bounds the descriptors: with room for the queue, two    *)
(* for each worker and one being accepted, no accept and no open fails     *)
(* (a failing one would end the server).  The exception is the short       *)
(* random queue with spurious wakeups, which has no bound.                 *)
DescriptorsSuffice ==
  /\ Cardinality(Fds) >= capacity + 2 * Cardinality(running) + 1
  /\ ~(SpuriousWakeups /\ MQ!ShortRandom)
  => status # "EMFILE"

(* The Stat-Thread headers of a response, which go out in the states below *)
(* from a copy of the counters that counts this request beforehand, add    *)
(* up: static and dynamic requests, this one included, are all the         *)
(* requests of the thread but those that were refused.  And the thread     *)
(* itself, which counts afterwards, comes to what the client was told.     *)
StatsAddUp ==
  Up => \A w \in Workers :
    LET told == metaData[w]
        kinds == told.numStaticRequests + told.numDynamicRequests
    IN /\ job[w] \in {"mapping", "waiting"} =>
            /\ kinds <= told.requestsCount
            /\ "invalid" \notin requests => kinds = told.requestsCount
            /\ kinds > staticCount[w] + dynamicCount[w]
       /\ job[w] = "closing" =>
            told = [requestsCount |-> jobCount[w], numStaticRequests |-> staticCount[w],
                    numDynamicRequests |-> dynamicCount[w]]

(* Seen from the queue, the threads of the server are the one producer and *)
(* the consumers that MessageQueue has: all that holds there holds here.   *)
UsesQueue == MQ!Spec

(* The client of connection n sees its end: neither the server nor a CGI   *)
(* child that inherited it holds it open.                                  *)
Disconnected(n) ==
  /\ n \notin OpenConnections
  /\ \A w \in Workers : n \notin cgi[w]

(* As long as a worker is left that is not stuck, every accepted client is *)
(* in the end served or dropped and sees the end of its connection, unless *)
(* it is the one a worker is stuck with or the process ends.               *)
EveryClientDone ==
  \A n \in 1 .. MaxArrivals :
    n \in OpenConnections
      ~> \/ Disconnected(n)
         \/ \E w \in Workers : job[w] = "stuck" /\ got[w] = n
         \/ \A w \in running : job[w] = "stuck"
=============================================================================
