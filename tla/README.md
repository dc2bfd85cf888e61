# OperatingSystemWHW: a verification project

The repository holds three programs of an operating-systems course: a web
server with a thread pool (`HW3`), a small shell with job control (`HW1`) and
system calls added to a Linux kernel (`HW2`).  This directory models them in
TLA+, checks the models with TLC and proves with TLAPS what matters most of the
server's queue, of the server, of its connections and of the shell's jobs list.

## 1. Inventory

### HW3, the web server

| part | state | operations |
|---|---|---|
| message queue (`message_queue.c`) | linked list, `size`, `capacity`, `schedPolicy`, one mutex, `cond_get`, `cond_put` | `MQCreate`, `MQPut` (four policies), `MQGet`; `MQFree`, `MQGetSize` and `MQGetCapacity` are never called by the server |
| main thread (`server.c`, `startServer`) | the accepted descriptor, the array of dropped descriptors, its position in the loop | start, accept, build a message, put it, close what was dropped |
| worker (`server.c`, `workerThreadJob`) | the message in hand, three counters | take, serve, count, close |
| request handling (`request.c`) | the file or the CGI child of the request | refuse, serve a file, run a CGI program |
| wrappers (`segel.c`) | none; they turn a failing call into `exit` | `Accept`, `Open`, `Close`, `Fork`, `WaitPid`, ... |
| Rio (`segel.c`) | `rio_buf` and what is unread of it; what is left to write | `rio_read`, `rio_readlineb`, `rio_writen` |
| messages (`message.c`) | heap objects | create, copy, free |
| thread pool (`thread_pool.c`) | array of threads, filled once at the start | create, add, start, free |
| client and CGI program (`client.c`, `output.c`) | the other end of a connection | connect, send, print; answer |

The main thread is the one producer and the workers are the consumers of the
queue.  All threads share the descriptor table of the process, in which the
kernel gives out the lowest free number, so a number that one thread closes is
what another thread's next `accept` or `open` gets.  All threads also share one
life: the wrappers call `exit` on any failure (`segel.c:11`), and a write to a
connection that was reset ends the process by SIGPIPE.  A CGI child inherits
every descriptor that is open at the fork.

Hard: wakeups through `pthread_cond_signal`, with other threads entering the
monitor between a signal and the moment the woken thread has the mutex; drops
from the middle of the list; which thread frees a node, a message, its
metadata; descriptor numbers kept in a queue while the table changes; a start
that fails half-way; bytes that come in pieces of any size; a slow, silent or
vanished client.

Correct means: the queue keeps its bound and its order; nobody sleeps beside
work; what is dropped is closed once and served by nobody; a connection has one
holder at a time; descriptors do not run out; statistics add up; a failed start
frees what it had; the bytes of a connection arrive whole and in order; every
client sees the end of its connection.

### HW1, the shell `smash`

| part | state | operations |
|---|---|---|
| jobs list (`JobsList.cpp`) | entries `(id, pid, stopped, ...)` sorted by id, `maxJobId` | add, add with a retained id, remove, remove finished, kill all |
| foreground job (`SmallShell.cpp`) | `currentPidForegroundProcess`, `currentJobIdForegroundProcess` | set around every wait; read by the handlers of Ctrl-C and Ctrl-Z |
| commands (`ForegroundCommand.cpp`, `BackgroundCommand.cpp`, `ExternalCommand.cpp`, `KillCommand.cpp`, ...) | none of their own | fork, signal, wait |
| pipes and redirection (`PipeCommand.cpp`, `RedirectionCommand.cpp`) | descriptors of the shell and of the copies it forks | pipe, fork, dup, dup2, close, wait |
| built-ins (`CatCommand.cpp`, `ChangeDirCommand.cpp`, ...) | current and last directory | open, read, close, chdir |

Signal handlers run between any two steps of the shell and touch the same list
and the same two variables.  Children change state by themselves, and through
signals that the list is not told about.  A pipe and a background redirection
run in copies of the shell, which inherit every descriptor that is open; a
reader sees the end of its input only when the last copy of the writing end is
closed.

Correct means: ids are unique; the list shows every live child that is not in
the foreground; a signal from the keyboard reaches the foreground job; stdin
and stdout come back after every line; the end of a pipe's first command is the
end of the second one's input; the prompt comes back.

### HW2, the weight system calls

`hw2.c` adds a weight to each process, inherited at fork, and calls that set and
read it, sum it over descendants and find the heaviest ancestor.  Correct means:
the sum and the ancestor are those of the process tree.  Hard: the tree changes
while it is walked; ties.

## 2. Plan

| order | module | what |
|---|---|---|
| 1 | `BoundedQueue` | abstract specification of the queue |
| 2 | `MessageQueue`, `MCMessageQueue` | the monitor; implements 1 |
| 3 | `MessageQueueProofs` | types, bound, order, drops, wakeups of 2; that 2 implements 1 |
| 4 | `WebServer`, `MCWebServer` | start, main thread, workers, descriptors, clients; composes 2 |
| 5 | `JobsList`, `Smash`, `MCSmash` | the jobs list, foreground job, commands and signal handlers of HW1 |
| 6 | `JobsListTheorems`, `SmashProofs` | what the operations of the list return; types, ids, removals, children and stopped jobs of 5 |
| 7 | `MessageQueueNodes`, `MCMessageQueueNodes` | the linked list of nodes on the heap; implements 2 |
| 8 | `MessageQueueNodesProofs` | list and blocks of 7; that 7 implements 2, and so 1 |
| 9 | `WebServerProofs` | the theorems of 2 carried over to 4, and the server's own |
| 10 | `ProcessWeights`, `MCProcessWeights` | HW2: the tree walks beside a changing tree |
| 11 | `HttpExchange`, `MCHttpExchange` | one connection byte by byte, client and worker |
| 12 | `SmashCommands`, `MCSmashCommands` | pipes, redirections, background jobs and built-ins, with their processes and descriptors |
| 13 | `HttpExchangeProofs` | the streams of 11, what is read before an answer, whole responses |
| 14 | `SmashCommandsProofs` | handshakes, children, ends of pipes and descriptors of 12 |
| 15 | `ProcessWeightsProofs` | what both walks of 10 return |

All of it is done.  There is one run for each question, with bounds as small as
lets every branch happen (section 4).  The modules with theorems use no
RECURSIVE operator.

## 3. Modules and the code

### `BoundedQueue`

What `message_queue.c` promises, without locks or positions: a set of messages,
`Put` admits, sheds or fails, `Get` takes the oldest.  It sheds only when full
and only as the policy says: the newcomer, the oldest, or exactly `capacity / 4`
of those in the queue.

### `MessageQueue`

The mutex makes one critical section one atomic step, so an action is the code
from `pthread_mutex_lock`, or from the return of a `pthread_cond_wait`, to the
next wait or unlock.

| action | code |
|---|---|
| `MQPut` | a call of `MQPut` up to its return or its first wait, with the branch of the policy: `PutHandleBlock`, `PutHandleDropTail`, `PutHandleDropHead`, `PutHandleDropRandom` |
| `MQPutResume` | the rest of `MQPut` after a wait.  `BLOCK` goes back to the test of `size`; the short random queue (`capacity < 4`, nothing to drop) goes on to the insertion |
| `MQGet` | `MQGet`, to its return or its wait |
| `SpuriousPutWakeup`, `SpuriousGetWakeup` | a return of `pthread_cond_wait` that nobody signalled, as POSIX allows |

State: `queue` is the list from head to tail, and `size` its length; `putState`
and `getState` say of each thread whether it runs, is blocked on its condition
variable, or has been signalled and waits for the mutex; `lockLeaked` becomes
true at the return of `message_queue.c:182`, which has no unlock; `dropped` is
the array that `MQPut` hands back.  A message is its arrival number.

### `MessageQueueNodes`

The same critical sections, down to every `malloc`, `free` and pointer
assignment, with the callers' own in `server.c` around them.  `heap` maps the
blocks given out (nodes, messages, metadata) to their contents; `head`, `tail`
and `size` are the queue's fields; `newNode` and `connectionMessage` are the
locals of a put that waits, `message[w]` what a worker has in hand,
`droppedContents` the array handed back; `faulted` says that a thread has
followed a NULL pointer.

| action | code |
|---|---|
| `MQPut`, `MQPutResume` | `MQPut`: node and copies, the policy's surgery on the list (`putHandleDropHead`, `putHandleDropRandom`, `Unlink`, ...), the insertion behind `tail` (`PutInsert`, `Link`) |
| `MQGet` | `MQGet`: the copy of the head's message, the release of the node |
| `WorkerFrees` | the release of the message in `workerThreadJob` |
| `MQFree` | an operator: the heap that `MQFree` leaves behind |

`Contents` reads the messages along the list, and `INSTANCE MessageQueue` with
this for `queue` is what the module implements.  `malloc` may give any free
address; here the choice depends on the number of the message and comes back to
addresses that were freed, so that a pointer kept too long would meet another
block.

### `WebServer`

`INSTANCE MessageQueue` shares its variables, and the two threads' actions
conjoin its actions.  `fdTable` is the descriptor table with a connection number
for its value, so that the model can say which client a descriptor number means
now; `fdOf[n]` is the number that connection `n` was accepted with, the content
of its message.

| actions | code |
|---|---|
| `ThreadPoolCreate`, `MQCreate`, `TPAddThread`, `ThreadsAdded`, `StartThread`, `OpenListenfd`, `AllocateDropArray` | the start: `startServer` up to its loop, with `thread_pool.c`; each allocation and each `pthread_create` can fail, with the rollback the code has at that place (`PoolRollback`, `ThreadPoolFree`) |
| `AcceptConnection`, `AcceptFails`, `NoMessage`, `PutConnection`, `ResumePut`, `CloseDropped` | the loop of `startServer`; each `Close` of a dropped connection is a step |
| `TakeConnection`, `TakeNothing`, `CloseConnection` | an iteration of `workerThreadJob`; `TakeNothing` is a failed copy in `MQGet`, whose NULL the worker follows |
| `RefuseRequest`, `OpenFile`, `OpenFileFails`, `MmapFails`, `SendFile`, `ForkCgi`, `ForkFails`, `ReapCgi` | `requestHandle`, `requestServeStatic`, `requestServeDynamic` |
| `StallOnRequest`, `ConnectionReset`, `CgiExits` | what a client or a CGI program may do to it |

A configuration is a command line (threads, capacity, policy) with the number
and the kinds of the clients that come.  `status` says whether the process is
up, did not start, or how it ended: `Exit` is `unix_error`, a signal or the
return of `main`.  `blocks` is what the start has allocated.  A request is counted
twice over, as in the code: `metaData[w]` is the metadata of the message in hand,
filled from the thread's counters when the message is taken (`server.c:68-70`),
raised before the request is served (`request.c:211`, `219`) and sent in the
Stat-Thread headers; `jobCount`, `staticCount` and `dynamicCount` are the thread's
own, raised after it.

### `HttpExchange`

One connection between a worker in `requestHandle` and a client, that of
`client.c` or another one, byte by byte.  A byte is a token; `Texts` are those
without a meaning for either end.  `wire[e]` is what is on its way to end `e`,
`rio[e]` the unread bytes of its `rio_buf`, `line[e]` what the line under way has
so far, `buf[e]` the string the array held after the last one, `left[e]` what is
still to be written.  `said` and `heard` are history.

| actions | code |
|---|---|
| `rio_read`, `ReadByte`, `ReadEnd`, `ReadFails` | `rio_read` with its refill, the loop of `rio_readlineb`, its end at EOF and at an error |
| `Write`, `WriteFails` | a turn of the loop of `rio_writen`; the kernel takes any part of the bytes.  A failure ends the program |
| `requestServeDynamic`, `CloseConnection` | the CGI program's turn; the `Close` in `workerThreadJob` |
| `Open_clientfd` with `open_clientfd`, `clientPrint`, `ClientCloses` | `client.c` |
| `ClientVanishes` | another client: it goes at any time |

What a line means when it has arrived (`ServerGot`, `ClientGot`, `ServeRequest`)
is part of the step that completes it.  `Open`, `Mmap` and `Fork` can fail there,
whatever `stat` found, and end the server; so can a request with a `long` method
or name, which `sprintf` and `strcat` write past `filename[MAXLINE]` or
`body[MAXBUF]`.  `pc` tells these ends apart (`Failures`).  A call interrupted by a signal is made
again and changes nothing.

### `JobsList` and `Smash`

`JobsList` gives the operations of `JobsList.cpp` as operators on the vector of
entries and `maxJobId`, each with the code's own search, its place of insertion
and its way to update the counter.  `Smash` is the shell around it.  A step is the
code between two points where a signal handler or a child can make a difference.

| actions | code |
|---|---|
| `ReadLine`, `ReapNext`, `ReapDone`, `RemoveNext`, `RemoveDone` | the loop of `main` with the two loops of `removeFinishedJobs`; children end in between |
| `RunForeground`, `SetForeground`, `WaitReturns`, `ResetForeground` | an external command: fork, the assignment the handlers look at, `waitpid(WUNTRACED)`, the reset |
| `Fg`, `SetForegroundJobId`, then as above | `fg`: removal and process, job id, wait, reset |
| `StartBackground`, `Bg`, `Kill`, `QuitKill`, `OtherCommand` | the other commands, in one step each: no handler acts while no process is in the foreground |
| `handleIntSignal`, `handleStpSignal` | the handlers, whole: they run on top of the interrupted code |
| `Exits`, `StopsItself` | what a child does by itself |

How often Ctrl-Z comes is bounded beside the handler and not in it (`CtrlZComes`).
`proc[p]` is what the kernel knows of a child.  It tells `stopping` (stopped, and
the parent has not been told) from `stopped` (`waitpid` has reported it), for a
stop is reported once and that decides whether a later wait returns.  The list
has its own opinion, the flag `stopped` of an entry, which `kill` does not
update.  `cur` is the local variable of the command that waits.  Pids are not
used again, and the terminal sends its signals to the shell alone: children call
`setpgrp` first (the moment before they do is left out).

### `SmashCommands`

What a line makes the shell do.  Every process, the shell and its copies, has
descriptors, a list of jobs and a stack `todo` of what its calls have left to
do; a step is the head of the stack, up to where the process forks or waits.

| actions | code |
|---|---|
| `ReadLine`, `Dispatch` | the loop of `main` and the choice of the command in `CommandExecutor.cpp` and `SmallShell.cpp` |
| `PipeForkFirst`, `PipeForkSecond`, `redirectFirstCommandOutputToPipe`, `redirectSecondCommandInputToPipe`, `Wait` | `PipeCommand.cpp` |
| `Redirect`, `RedirectBackground`, `Restore` | `RedirectionCommand.cpp` |
| `ExecuteCat`, `ExecuteCd`, `ExecutePrinting`, `ExecuteNothing`, `Quit` | the built-ins |
| `runForegroundExternalCommand`, `runBackgroundExternalCommand`, `ListJob`, `CloseWriteEnd`, `StartProgram` | `ExternalCommand.cpp`, with the handshake of a background job: the child waits for a message that the parent writes once it has listed the job |
| `Exit`, `Exits` | the end of a copy; the end of a program, when its input has ended and its output is taken |

A pipe whose `pipe` call fails goes on with an uninitialised array: anything may
happen then, and the modelled behaviour ends (`undefined`).  A second `|` at the
end of a line is dropped by `splitCommand`, so that such a line is a pipe
(`withoutLastDelimiter`).  The directories of `cd` are kept, for what
`ExecuteCd` does, and no property is about them.  Signals are in
`Smash` and not here.

### `ProcessWeights`

`sys_set_weight` is one step.  `sys_get_children_sum` (`SumDown`, `SumUp`) and
`sys_get_heaviest_ancestor` (`Climb`) hold no lock while they walk, so one turn
of their loops is one step, and in between other processes `Fork`, `Exit`, `Wait`
(which are the kernel's) and set their weights.  `SumLost` is a walk whose place
in the tree was taken away: it does not meet the end it looks for, and the call
stays `lost` for ever, its caller in the kernel.  `call` holds
the local variables of the call in progress; `kept`, `seen` and `disturbed` are
history; `disturbed` means that since the call began some process was waited for
or some process with children exited, anywhere in the tree.

## 4. Runs

| run | instance | question |
|---|---|---|
| `mq_safety` | 3 workers, 10 messages, spurious wakeups, failing `malloc` | types, bound, order, wakeups, drops; is it what `BoundedQueue` promises |
| `mq_nodes` | 2 workers, 3 messages more than fit, spurious wakeups but for random drops, failing `malloc`, fair | is the list well formed, has each block one owner, is it `MessageQueue`, do puts return, is it emptied |
| `mq_unlock_violation` | 1 worker, 6 messages, failing `malloc` | does every return of `MQPut` leave the critical section (one does not) |
| `server_safety` | 2 workers, queues of 1 and 2, two connections more, every policy, every kind of client; 1 worker, 6 connections, a queue of 3 or, for random drops, of 4; 6 descriptors, spurious wakeups, failing allocations | does a descriptor number always mean the connection it was queued for, has each connection one holder, how many descriptors are enough, do the counters that clients are told add up and agree with the threads', does every rollback of the start free what it should and nothing else, is the queue used as `MessageQueue` assumes |
| `server_liveness` | 2 workers, 4 connections, some of which stall, capacity 1, fair | does every client see the end of its connection |
| `smash_background` | 3 processes, no `fg` and `bg`, repeated Ctrl-Z | are ids sorted and unique, is every child in the list or waited for, do only ended processes leave the list |
| `smash_foreground` | 3 processes, every command, children that stop by themselves, Ctrl-Z not repeated for a process in the list, fair | does the prompt come back after every foreground command, is what stopped marked so |
| `smash_ids_violation` | 2 processes, `bg` | do only ended processes leave the list (a running one does) |
| `smash_retain_violation` | 2 processes, `fg` | does a job taken by `fg` keep its id on Ctrl-Z (not always) |
| `smash_commands` | 12 lines of which 2 are typed, 6 descriptors, one failing fork, fair | do descriptors come back, does the input of a pipe end, is every child listed, does the prompt come back |
| `weights` | pids 0 to 4, weights -1 to 1, fair walks | is the sum that of the descendants, is the ancestor the heaviest, do the calls return |
| `http_exchange` | 9 URIs from `client.c`, 4 other requests, 2 with a long name or method, failing `Open`, `Mmap` and `Fork`, arrays of 4 bytes, buffers of 2, fair | do both ends read what the other wrote, is a request read before it is answered, does the client get a whole response, what can end the server, does the exchange end |

Bounds.  `MaxArrivals` caps the messages of a behaviour and is the only cap on a
counter of the queue and the server; every other variable is finite because of
it.  The configurations are capacities 1 and 2 under every policy, with 4 and 8
for random drops: 4 is the smallest capacity that drops (one message), 8 the
smallest that drops two, so that the order among several drops matters and two
dropped nodes can be neighbours in the list; below 4 the policy waits.  Ten
messages fill the queue of 8, overflow it, and leave one to follow.  Three
workers let two take between a signal and the wakeup of a third.  With nodes,
`ExtraArrivals` stops small queues earlier: three messages that do not fit make a
put drop or wait and be woken, and others follow.  Random drops with spurious
wakeups, under which a short queue can grow past its capacity, are left to
`mq_safety`.  In the server, two connections more than the capacity overflow the
queue with a worker busy and one in the main thread; six descriptors are enough
or not for `DescriptorsSuffice`, depending on the configuration, so both sides
of its condition occur.  Workers are interchangeable and form a symmetry set in
`mq_safety` and `server_safety`; liveness is checked without symmetry.

In `http_exchange` a line of three bytes just fits an array of `MAXLINE = 4`, a
longer one is cut, and a buffer of two bytes is refilled inside every line, so
every place where a line ends meets every place where a piece can end.  In
`weights` three processes below init are a chain, siblings, and everything
between; two weights that are accepted let processes tie, and -1 is refused.  In
`smash_commands` each of the lines is one way to nest the commands; the first of
two lines leaves its jobs and its descriptors to the second.  No line forks more
than four times, which bounds `Pids`, and three descriptors are free at the
start, so that `pipe`, `open` and `dup` fail after lines that have leaked.

In the shell each of three processes is forked once, so there are lists of three
jobs, with removals at both ends and in the middle.  `MaxJobs` stops Ctrl-Z when
the list has four entries or the ids reach four, and is the only cap.  `CtrlZAgain`
says whether Ctrl-Z may come for a process that it has put in the list already.
The handler then adds a second entry (`smash_background` allows it, and the ids
stay sorted).  With `fg` and `bg` as well the two entries disagree in the end: `bg`
unmarks one of them, the process stops again, `fg` takes an entry without mark,
sends no SIGCONT and waits for a stop that was reported before, and the prompt
does not come back.  Nothing in the repository says what a second Ctrl-Z should do,
so `smash_foreground` leaves it out, `StoppedIsMarked` and `PromptReturns` claim
nothing about it, and it is listed as a hazard.

`CHECK_DEADLOCK FALSE` in every configuration: the systems may stop.  After the
last connection, nobody is obliged to connect again and all threads sleep; that
they do not sleep beside work is what `NobodySleepsInVain` and the liveness
properties say.  A shell at its prompt, a connection that is done and a tree that
nobody walks are at rest in the same way.

Fairness.  A thread that has been signalled gets the mutex in the end and a
worker that is free calls `MQGet` again (its loop does nothing else): weak
fairness of `MQPutResume` and of `MQGet(w)`, with nodes also of `WorkerFrees(w)`.
Weak is enough, because no other thread's step disables one of these for good,
except through the mutex that the failure of `message_queue.c:182` keeps; the
liveness properties except that failure by name.  In the server each thread's
steps are weakly fair, and a CGI program ends; clients owe nothing, so accepting
is not fair, and a client that stalls keeps its worker.  On one connection the
steps of each end's code are weakly fair, but nobody has to connect or to vanish.
In the shell, the steps between fork and prompt are weakly fair, and so is the end of
a program that is running while the shell waits for it: an endless one would keep
the prompt by right.  Commands, signals from the keyboard and programs in the
background owe nothing.  In `SmashCommands` weak fairness of all the work taken
together is enough: what the processes do between two lines is finite, so none
can be put off for ever, and typing is not part of it.  A walk over the process
tree is fair, for its processor goes on with it; what others do is not.

## 5. What the checks show

* **Wakeups.**  One `pthread_cond_signal` per put is enough even when the put
  dropped messages, and so is one per take: while a worker sleeps, there are at
  least as many woken workers as messages (`NoLostWakeup`), and the main thread
  sleeps only while the queue is full (`BlockedOnlyWhenFull`).  Together they are
  `NobodySleepsInVain`.
* **Order and drops.**  Whatever is dropped from wherever, what is left keeps the
  order of arrival, and a message is either queued, taken or dropped.  All of it
  is one message in, one out, or exactly the victims that the policy allows, as
  `BoundedQueue` has it.
* **Capacity.**  With a random policy, a capacity below 4 and a spurious wakeup
  the queue grows past `capacity`, from where `size == capacity` never holds
  again.  `Bounded` excepts this case and no other, and so do `BoundedQueue` and
  `DescriptorsSuffice`.
* **Nodes.**  The surgery of every policy, at the head, at the tail, in the middle
  and on neighbours, leaves a list whose links, `tail` and `size` agree.  Every
  node, message and metadata has one owner and is freed once; only after a failed
  `malloc` something may be left over, and `EachBlockOwned` names these failures.
* **Descriptors.**  Numbers are reused all the time and still mean the right
  client; nothing is closed twice and no connection is forgotten.  `capacity`
  plus two per worker plus one descriptors are enough.
* **Start.**  Whichever allocation of the start fails, the rollback for that place
  (three in `ThreadPoolCreate`, one in `MQCreate`, one in
  `initServerDataStructures`) frees what is there and nothing else, except that
  `ThreadPoolFree` forgets the array `args`.  Threads run only with all of it
  allocated.
* **Statistics.**  The Stat-Thread headers of a response count its own request, and
  their kinds add up to all requests of the thread but the refused ones; the
  counters that the thread keeps, raised elsewhere, are the same afterwards.
* **Clients.**  Every accepted client sees the end of its connection as long as
  some worker is not stuck.  The exception is real: `requestReadhdrs`
  (`request.c:52`) never returns for a client that closes before the blank line.
* **Bytes.**  Both ends read what the other wrote, in order, however the kernel
  cuts it; a line that is too long is cut and goes on.  The `Close` after the response to a
  complete GET destroys no bytes of it, for the request was read to its end.  A
  client that goes away in the middle ends the whole server, and so does a request
  for an empty file, which `mmap` refuses; a failing `Open` or `Mmap` of a file, or
  `Fork` for a program, that `stat` allowed; and a method or name that is longer
  than an array.  Nothing else does: a file that is missing or that `stat` does not
  allow is answered.
* **Jobs.**  Without `fg` and `bg` the list is right in any order of ends, kills,
  Ctrl-C and Ctrl-Z: `eraseJob` may look at the end of the list for the greatest
  id, the two loops of `removeFinishedJobs` mean the same jobs, and no child is
  lost, whether Ctrl-Z comes before, in or after the wait.
* **Prompt.**  With every command, `fg` never waits for a process that is stopped
  for good, whatever the user killed or resumed behind the list's back, unless
  Ctrl-Z was repeated for a process in the list (section 4).
* **Limits.**  `fg` of a job that `kill -19` stopped sends no SIGCONT, for the
  entry is not marked; the wait returns at once and the job is in no list any
  more (`EveryChildTracked` does not hold with `fg`).  The same happens to a
  program in the foreground that stops by itself.  Ctrl-Z for a process that has
  ended adds an entry that never leaves the list.
* **Pipes and redirections.**  Once the redirections are made, only processes of
  the first command hold the writing end of a pipe, so its reader ends when they
  do; `run & | reader` therefore waits for the program in the background.  stdin
  and stdout come back after every line as long as two descriptors are free.
  Three kinds of descriptors stay open in the shell: the saved stdout of a
  redirection, the writing end of a handshake, a directory that `cat` could not
  read.  When they have filled the table but for one, a redirection does not come back from
  its file.
* **Handshake.**  A background program starts only when its shell has listed it.
  The second program of a pipe in the background is started by a copy of the
  shell and is in the list of that copy only.
* **Weights.**  Beside forks, exits and changes of weights the sum counts each
  descendant once, with a weight it had during the call.  It goes astray only when
  a process with children exits or one is waited for while the loop runs: the
  missing `tasklist_lock`.  A walk that is lost then never returns to its caller,
  and `CallsReturn` promises a return only without such a change.  The climb
  returns, for every caller but init, a process that no ancestor outweighed all
  along.

Disagreements with the repository's own words (`findings`):

* `ReturnsUnlocked`: `MQPut` returns from inside its critical section when
  `getRandomIndexes` finds no memory.
* `RemovesOnlyFinished`: `bg` of the only job leaves `maxJobId` at 0, the next job
  gets the id of the first, and the end of one removes the entry of the other.
* `RetainsId`: Ctrl-Z between the two assignments of `fg` puts the job back under
  a new id.

Two more disagreements have no run.  Of equally heavy ancestors the strict comparison
of `hw2.c:73` keeps the youngest; the test takes the oldest for the right one
(`test_weight.cxx:255` compares with `>=`) and prints FAIL on a tie.  No other text
says which is meant, so `HeaviestIsFound` leaves the choice among equals open.  And
`server.c:142` reports after a failed start that the pool has been freed, while
`ThreadPoolFree` leaves `args`, as `RollbackFrees` says.

## 6. Proofs

`MessageQueueProofs` proves for every number of workers, every set of
configurations and every number of arrivals, from `MQAssumption` alone
(capacities are positive, the workers finite):

| theorem | says |
|---|---|
| `TypeCorrect` | `Spec => []TypeOK` |
| `Invariance` | `Spec => []IInv`, the inductive invariant |
| `QueueBounded` | `Bounded` |
| `QueueOrdered` | `ArrivalOrder` |
| `DroppedNeverServed` | `DroppedHaveLeft` |
| `WakeupsSuffice` | `NobodySleepsInVain` |
| `MonitorImplementsQueue` | `ImplementsPromise` |

The properties are not inductive as they stand; `IInv` adds what they rest on:

* `WaitsByPolicy`: a producer that waits does so under `BLOCK` or a short random
  policy, so after a wait it never drops;
* `RoomWhenWoken`: without spurious wakeups a short random producer that was
  signalled finds room, which makes its untested insertion keep the bound;
* `TakenIsOlder`: what was taken or dropped is not newer than the last arrival,
  so a message that arrives is in nobody's hands.

Each part has its own step lemma with one case per action.  The insertion at the
end of `MQPut` is the hard case: it is proved once for any list `kept` that is a
subsequence of the queue (`InsertOrder`, `InsertRoom`, `InsertWakeup`), and each
policy shows that what it keeps is one (`KeptWhole`, `KeptTail`, `KeptRandom`).
`NoLostWakeup` counts: a put adds one message and wakes one sleeper, or leaves
nobody asleep.

`MonitorImplementsQueue` follows from it: every behaviour of the monitor is one
of `BoundedQueue`.  The
abstract queue is the set of the messages in the list; because the list is sorted,
its head is the oldest of the set, and its length the cardinality.  A critical
section that takes a message is a `Get`, one that inserts, drops or fails is a
`Put`, and falling asleep and waking up are stutters: a put that waits has not
yet taken effect, and its message counts as offered only when it does.

`MessageQueueNodesProofs` proves of the linked list, for any workers, any capacity and
policy, and with every `malloc` that may fail (`NodesAssumption`):

| theorem | says |
|---|---|
| `NodesImplementMonitor` | `ImplementsMonitor` |
| `ListStaysWellFormed` | `ListWellFormed` |
| `BlocksOwned` | `EachBlockOwned` |
| `NodesImplementQueue` | the list is a `BoundedQueue` to its callers |
| `NodesKeepQueueInvariants` | the four invariants of the monitor above |

The inductive invariant `IInv` is about the list `Chain` that the fields spell out:

* `ListIs`: its nodes are different, each leads to the next and the last to NULL,
  and `head`, `tail` and `size` say so;
* `BlocksInv`: nodes, messages and metadata are blocks of the heap of the right kind,
  and of two owners none have a block in common (`Owns`); until a `malloc` fails there
  are no other blocks.  Without it a `free` could take a node out of the list, or an
  assignment to one node change another;
* `TypeInv`: no two workers hold one message; `PutInv`: a put that waits has its
  node, whose message is the last arrival, and the connection's message.

TLC checks its consequences in `mq_nodes`.  Each way in which the heap changes has one
lemma about any heap and any owners: blocks are handed out (`RepAllocated`), the head
is dropped or taken (`HeadDropped`, `HeadTaken`), a node is appended
(`LinkedBehind`), a message is freed (`HeldFreed`).  What `malloc` hands out is free
(`FreeBlocksAre`), and nothing else is used of the choice that `FreeBlocks` makes: it
keeps TLC's states few, and the proof holds for any other.

The two loops of `putHandleDropRandom` have an invariant of their own, `LoopInv`: after
position `k`, `prev` is the last kept node, it leads to what comes behind `k`, kept
neighbours are linked (`Joined`), and the marked nodes are in `gone`.  At the end what
is left is the list without the marked positions, in the same order, which is the
`Survivors` of the monitor, and `TailAfter` finds its last node.

`EachBlockOwned` is then a count, of three blocks for a node and two for a message that
a worker serves, and a walk: after `i` rounds `MQFree` has freed the blocks of the first
`i` nodes (`RoundIs`).  The last two theorems instantiate the proofs of the monitor.

`WebServerProofs` proves of the server, for any set of workers, of descriptors
and of configurations (`ServerAssumption`):

| theorem | says |
|---|---|
| `ServerUsesQueue` | `UsesQueue` |
| `ServerTypeCorrect` | `TypeOK` |
| `DescriptorsStayRight` | `DescriptorsDenote` |
| `ConnectionsOwnedOnce` | `EveryConnectionHeld` |
| `StatsCorrect` | `StatsAddUp` |
| `FailedStartFrees` | `RollbackFrees` |
| `DescriptorsAreEnough` | `DescriptorsSuffice` |

It instantiates the queue's proofs: every step of a server thread is a step of the
monitor or leaves it alone, so the lemmas hold inside the server and are not proved
again.  `ServerInv` joins this with the types, the start, the numbers of the
connections, what each worker is busy with, and the descriptor table.  Its heart
(`FdInv`) is that the number in a message denotes its connection as long as
somebody owns the connection, while the order of the queue keeps what is queued
apart from what is held.  `DescriptorsSuffice` is a count: a full table would be
the queue, the main thread's connection and two descriptors for each worker, and
the queue has its bound from the theorem above.

`HttpExchangeProofs` proves of one connection, for any requests, any files and
any size of the arrays and buffers (`HttpAssumption`):

| theorem | says |
|---|---|
| `HttpTypeCorrect` | `TypeOK`: no line overruns its array, no read the buffer |
| `BytesStayInOrder` | `StreamsIntact` |
| `ServerEndsOnlyThen` | `ServerSurvives` |
| `RequestReadFirst` | `ReadBeforeAnswered` |
| `ResponseWhole` | `ClientHasResponse` |

Each direction is a formula of its own (`Intact`): the lines given out, the line
under way, the buffer and the wire together are what was written.  There is one
lemma for each way in which bytes move (`RefillIntact`, `ByteIntact`, `EndIntact`,
`WriteIntact`).  `ServerSurvives` needs besides that a way that has ended has a
writer that has gone (`EndedByPeer`), and that a server about to fork has found a
program.

`ReadInv`, inductive together with that invariant, says where the two programs are in
the request and in the response.  `Progress` is the heart of `RequestReadFirst`: what
the server has read ends with a `"\n"` of the request.  By induction along a line
the next `"\n"` is the end of a line that `WellFormed` says fits, so `rio_readlineb`
returns it whole (`LineFits`), and the only empty line is the last (`LineRead`); a
server that answers has therefore read everything.  `Saying` is the same for the
response.  `LeavesLast` says that a client which has not vanished stays until the
server is gone, so neither end writes into a connection that is closed before.
`NoReset` draws the conclusion: when the server closes, no byte of the request is
left anywhere (`NothingLeft`), so the client finds the end of the stream and not a
reset, and what it has read is the whole response (`HeardAll`).

`JobsListTheorems` says what each operation of the jobs list returns, for every
list: which entries are left after a removal, where a new one is, that `eraseJob`
and `addJob` keep a sorted list sorted (`EraseOrdered`, `AddOrdered`).
`SmashProofs` proves from it, for any set of processes and any bound:

| theorem | says | for |
|---|---|---|
| `SmashTypeCorrect` | `TypeOK` | every set of commands |
| `IdsStayIncreasing` | `IdsIncreasing` | no `fg`, no `bg` |
| `OnlyFinishedRemoved` | `RemovesOnlyFinished` | no `fg`, no `bg` |
| `NoChildLost` | `EveryChildTracked` | no `fg`, no `bg`, children that stop only on a signal of the shell |
| `StoppedMarked` | `StoppedIsMarked` | every set of commands, Ctrl-Z not repeated for a process in the list |

The conditions are hypotheses of the theorems and not assumptions of the model:
with `fg` and `bg` the statements are false, as section 5 says.  The inductive
invariant `ListInv` adds to `IdsIncreasing`: `HandlersApart`, no handler acts while
ids are pending for removal; `CollectedEnded`, an entry with a pending id is of an
ended process, which needs the ids unique and is what makes the removal right;
and `NoJobId`.  `NoChildLost` needs `StoppedListed` besides: what is stopped is in
the list, so a wait that returns for a stop leaves the child tracked.

`StoppedMarked` holds with every command: the entry of a process whose stop was
reported is marked, and `fg` reads the mark to decide on SIGCONT.  Its hypothesis
gives every process at most one entry (`Once`).  The invariant `StopInv` adds that the foreground process is the one that is waited
for (`ForegroundIsCur`) and, while it is in the list because Ctrl-Z came, marked
there (`CurIsMarked`).

`SmashCommandsProofs` proves of command lines, for any lines and number of lines,
any pids and descriptors, and any descriptors that the shell inherits
(`CommandsAssumption`):

| theorem | says |
|---|---|
| `Typing` | `TypeOK`, with the shape of every entry of a stack; no run checks it again |
| `ListedBeforeStart` | `StartsListed` |
| `NoChildForgotten` | `ChildrenListed` |
| `PipeEndsWithFirst` | `OnlyFirstWrites` |
| `StdoutComesBack` | `DescriptorsRestored` |

`ChildrenListed` and `DescriptorsRestored` speak of a shell in which no fork has
failed: the code leaves the child and the pipe of a failed fork as they are.

A step can touch three processes (the shell or a copy, a new child, the orphans of an
end), so what each action does to the fields is settled first (the lemmas named
`...Does`), and the invariants are proved from these facts.  The inductive
invariant `IInv` follows the stacks `todo`:

* `Shape`: which operation can stand where in a stack, and in whose: only the first
  process forks seconds and restores; `Numbered`: no pipe in use has a number that
  is still to be given;
* `ChildrenKnown`: a child of the shell is listed or named by an entry of its
  stack; at the prompt the stack is empty, which gives `ChildrenListed`;
* `Handshakes` and `StartersKnown`: a shell about to list a job holds the writing end
  of a pipe without message, and a child that waits for its message is listed, or
  its live parent (`ParentsLive`) is about to list it;
* `WritersKnown`: between the two forks the shell is the only one outside the
  first command to hold the writing end, and the second child holds it until it has
  made its stdin; a child forked later inherits nothing of it, for the shell has
  closed both ends by then;
* `StdoutKnown`: what is open while a redirected command runs, given that `dup` found
  a descriptor or not, and what is open besides.

`ProcessWeightsProofs` proves of the calls on the process tree, for any number of
processes and any weights (`WeightsAssumption`):

| theorem | says |
|---|---|
| `Typing` | `TypeOK` |
| `HeaviestReturned` | `HeaviestIsFound` |
| `SumReturned` | `SumIsOfDescendants` |

The ancestors of a process and a sum over a set are recursive functions.  The first
sections prove that they exist and unfold, from the least element of a set of
naturals (`NoFirst`) and the smallest of a family of finite sets (`NoSmallest`), and
then what a fork or an exit does to the ancestors and a larger bound to a sum.  The
inductive invariants, each with the one before:

* `Shape`: types, and that a parent has a smaller pid than its child (`Rooted`), for
  pids are given in order and `init` adopts: so the way up ends;
* `Noted`, for the walk up: whatever the walk may meet is in the history (`SeenNow`);
  every lasting ancestor is `Beaten` by the best so far or still `Ahead`.  The case
  that matters is an exit between: who lost an ancestor below the top goes to `init`
  and keeps only ancestors that the walk has still to come to (`AncestorsCut`);
* `Walking`, for the walk down: while no list has lost a process, what has been done
  is a set of processes that is `Traversed`: `Placed`, in the list of each process
  on the path the ones before the path and no others, and `Closed`, with a process
  all below it; and the total is `Between` the least and the greatest weights of
  that set.  A child forked below a process that is done counts as done
  (`ForkTraversed`), at no weight for the lower bound, since it was not there all
  along.  When the last of the caller's children has been added, the set is that of
  its descendants (`TraversedAll`).

`SumReturned` includes that an undisturbed walk is never `lost`; that walks end is
left to TLC.

Only model-checked: all liveness, which is outside what the prover does.  Of the
passing runs' other properties each is proved; three of the theorems about the jobs
list leave out `fg` and `bg`, with which their statements are false (section 5).

## 7. Not modelled

* The text of requests and responses: a URI is the few tokens that
  `requestParseURI` tells apart, and MIME types are left out.
* Effects of a write past `filename` or `body` other than none or the end of the
  process.
* The wrappers of `segel.c` that no program here calls; the logger, which prints.
* An invalid command line, capacity 0 among it: listed as a hazard.
* `MQGetSize` and `MQGetCapacity`, which nobody calls.
* Signals while a pipe or a redirection runs, and the moment before a child calls
  `setpgrp`.
* The text of the prompt and of the jobs listing (`showpid` and `chprompt` do no
  more than that); names and times of entries.
* More than one directory per line for `cat`, each of which leaks a descriptor.
* `sys_hello` and `sys_get_weight`, which change no state; the wrappers that the
  tests call, which truncate to `int`.
* The kernel's own headers: they hold a field and a few table lines of this
  project, which `ProcessWeights` takes in.
