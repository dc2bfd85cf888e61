--------------------------- MODULE SmashCommands ----------------------------
(***************************************************************************)
(* What the shell of HW1 does with a command line: the choice between a    *)
(* pipe, a redirection and a plain command, the processes that each of     *)
(* them forks, and the descriptors that all of them inherit, redirect and  *)
(* close.  The jobs list, fg and bg and the signals are in Smash; of the   *)
(* list only the pids are here.                                            *)
(*                                                                         *)
(* The children of a pipe and of a background redirection are copies of    *)
(* the shell that run the same code.  So every process has a stack todo of *)
(* what its calls have left to do; a step is the head of one process's     *)
(* stack, up to where it forks or waits.  A line is a sequence of words.   *)
(***************************************************************************)
EXTENDS Integers, Sequences, FiniteSets, SequencesExt, FiniteSetsExt, TLC

CONSTANTS
  Lines,       \* the command lines the user types, as sequences of words
  MaxLines,    \* bound: how many of them
  Pids,        \* bound: the pids of the children
  Fds,         \* the descriptors a process can have
  Inherited,   \* how many the shell may be started with, beyond the first three
  ForkMayFail

Smash == 0     \* the shell itself
InitPid == -1  \* adopts the children of a process that has ended
Procs == {Smash} \union Pids

ASSUME CommandsAssumption ==
  /\ Pids \subseteq Nat \ {0} /\ IsFiniteSet(Pids)
  /\ Cardinality(Pids) >= 4 * MaxLines  \* no line forks more than four times
  /\ Fds \subseteq Nat /\ IsFiniteSet(Fds) /\ {0, 1, 2} \subseteq Fds
  /\ Lines \subseteq Seq(STRING) /\ Inherited \subseteq Nat
  /\ MaxLines \in Nat
  /\ ForkMayFail \in BOOLEAN

VARIABLES
  proc,       \* the processes
  typed,      \* how many lines were typed
  pipes,      \* how many pipes were made: they are numbered
  written,    \* the handshake pipes that hold the message "Finished"
  forkFailed, \* history: has a fork failed?
  undefined   \* has a pipe failed, and its array been used uninitialised?

vars == <<proc, typed, pipes, written, forkFailed, undefined>>

NoFd == -1

(* What a descriptor denotes: nothing, the terminal, the file of a         *)
(* redirection, a directory that cat was given, or an end of a pipe.       *)
None == <<"none", 0>>
Tty == <<"tty", 0>>
File == <<"file", 0>>
Directory == <<"directory", 0>>
ReadEnd(k) == <<"read", k>>
WriteEnd(k) == <<"write", k>>

NoProc ==
  [state |-> "none", parent |-> Smash, todo |-> <<>>, fds |-> [fd \in Fds |-> None],
   jobs |-> {}, program |-> "", background |-> FALSE, side |-> None,
   directory |-> "", currentDirectory |-> "", previousDirectory |-> ""]

Init ==
  /\ \E n \in Inherited : proc = [p \in Procs |->
       IF p # Smash THEN NoProc
       ELSE [NoProc EXCEPT
               !.state = "shell",
               !.fds = [fd \in Fds |-> IF fd <= 2 + n THEN Tty ELSE None],
               !.directory = "home",
               !.currentDirectory = "home"]]
  /\ typed = 0
  /\ pipes = 0
  /\ written = {}
  /\ forkFailed = FALSE
  /\ undefined = FALSE

-----------------------------------------------------------------------------
(* Descriptors.  q is a process.                                           *)

FreeFds(q) == {fd \in Fds : q.fds[fd] = None}
NextFd(q) == Min(FreeFds(q))

Open(q, file) == [q EXCEPT !.fds[NextFd(q)] = file]
Close(q, fd) == IF fd = NoFd THEN q ELSE [q EXCEPT !.fds[fd] = None]

Dup2(q, from, to) ==
  IF from = NoFd \/ q.fds[from] = None THEN q ELSE [q EXCEPT !.fds[to] = q.fds[from]]

(* Slip: the writing end stays open. *)
BugCloseReadEnd(q, pipe) == Close(q, pipe[1])

closePipeFDs(q, pipe) == Close(Close(q, pipe[1]), pipe[2])

Holders(file) == {p \in Procs : \E fd \in Fds : proc[p].fds[fd] = file}

-----------------------------------------------------------------------------
(* Processes.                                                              *)

FreePids == {p \in Pids : proc[p].state = "none"}
NextPid == Min(FreePids)

Alive == {"shell", "program"}

(* The end of a process: its parent will wait for it, unless that is init. *)
Ended(p) ==
  [q \in Procs |->
     IF q = p THEN
       IF proc[p].parent = InitPid THEN NoProc
       ELSE [NoProc EXCEPT !.state = IF p = Smash THEN "exited" ELSE "zombie",
                           !.parent = proc[p].parent]
     ELSE IF proc[q].state # "none" /\ q # Smash /\ proc[q].parent = p THEN
       IF proc[q].state = "zombie" THEN NoProc ELSE [proc[q] EXCEPT !.parent = InitPid]
     ELSE proc[q]]

Reaped(procs, zombies) == [q \in Procs |-> IF q \in zombies THEN NoProc ELSE procs[q]]

(* The next thing p has to do, and p when it is done with it. *)
Step(p) == Head(proc[p].todo)
At(p, op) ==
  /\ ~undefined /\ proc[p].state = "shell" /\ proc[p].todo # <<>> /\ Step(p).op = op
Then(q, steps) == [q EXCEPT !.todo = steps \o Tail(@)]

(* fork: the child, a copy of q that has steps to do. *)
Child(q, p, steps) == [q EXCEPT !.parent = p, !.todo = steps]

(* The list takes the pids of children. *)
addJobs(q, pids) == [q EXCEPT !.jobs = @ \union pids]

(* A fork that succeeds: there is a pid left, for no line takes more than four. *)
Forks == FreePids # {} /\ UNCHANGED forkFailed

ForkFails == ForkMayFail /\ ~forkFailed /\ forkFailed' = TRUE

(* A pipe that finds no two descriptors is reported and used all the same. *)
PipeFails(p) ==
  /\ Cardinality(FreeFds(proc[p])) < 2
  /\ undefined' = TRUE
  /\ UNCHANGED <<proc, typed, pipes, written, forkFailed>>

-----------------------------------------------------------------------------
(* SmallShell::executeCommand.                                             *)

Occurrences(line, w) == SelectSeq(line, LAMBDA x : x = w)
Place(line, w) == SelectInSeq(line, LAMBDA x : x = w)
Before(line, w) == SubSeq(line, 1, Place(line, w) - 1)
After(line, w) == SubSeq(line, Place(line, w) + 1, Len(line))

(* splitCommand finds two parts: an empty last part is none. *)
withoutLastDelimiter(line) == IF Last(line) = "|" THEN Front(line) ELSE line
isPipeCommand(line) ==
  line # <<>> /\ Len(Occurrences(withoutLastDelimiter(line), "|")) = 1

isRedirectionCommand(line) == Contains(line, ">")
isBackgroundCommand(line) == Last(line) = "&"
removeTrailingBackgroundChar(line) ==
  IF isBackgroundCommand(line) THEN Front(line) ELSE line

Dispatch(line) ==
  CASE line = <<>> -> <<>>
    [] isPipeCommand(line) ->
         <<[op |-> "pipe", first |-> Before(line, "|"),
            second |-> After(withoutLastDelimiter(line), "|")]>>
    [] isRedirectionCommand(line) /\ ~isPipeCommand(line) ->
         <<[op |-> IF isBackgroundCommand(line) THEN "redirect&" ELSE "redirect",
            command |-> Before(removeTrailingBackgroundChar(line), ">")]>>
    [] OTHER -> <<[op |-> "execute", command |-> line]>>

Finished == {p \in proc[Smash].jobs : proc[p].state = "zombie"}

(* One turn of main's loop: the finished jobs are waited for and leave the *)
(* list, the line is executed, and a line that begins with quit ends it.   *)
ReadLine ==
  /\ ~undefined
  /\ proc[Smash].state = "shell" /\ proc[Smash].todo = <<>>
  /\ typed < MaxLines
  /\ \E line \in Lines :
       proc' = Reaped([proc EXCEPT
                 ![Smash].jobs = @ \ Finished,
                 ![Smash].todo =
                   Dispatch(line) \o
                   IF line # <<>> /\ line[1] = "quit" THEN <<[op |-> "quit"]>> ELSE <<>>],
               Finished)
  /\ typed' = typed + 1
  /\ UNCHANGED <<pipes, written, forkFailed, undefined>>

Quit ==
  /\ At(Smash, "quit")
  /\ proc' = Ended(Smash)
  /\ UNCHANGED <<typed, pipes, written, forkFailed, undefined>>

(* exit(0) at the end of a child that ran a command. *)
Exit(p) ==
  /\ At(p, "exit")
  /\ proc' = Ended(p)
  /\ UNCHANGED <<typed, pipes, written, forkFailed, undefined>>

(* waitpid, for a process that nothing stops here. *)
Wait(p) ==
  /\ At(p, "wait")
  /\ proc[Step(p).pid].state = "zombie"
  /\ proc' = Reaped([proc EXCEPT ![p] = Then(@, <<>>)], {Step(p).pid})
  /\ UNCHANGED <<typed, pipes, written, forkFailed, undefined>>

-----------------------------------------------------------------------------
(* PipeCommand.                                                            *)

(* Up to the first fork. *)
PipeForkFirst(p) ==
  /\ At(p, "pipe")
  /\ \/ PipeFails(p)
     \/ /\ Cardinality(FreeFds(proc[p])) >= 2
        /\ LET k == pipes + 1
               read == Open(proc[p], ReadEnd(k))
               q == Open(read, WriteEnd(k))
               pipe == <<NextFd(proc[p]), NextFd(read)>>
               step == Step(p)
           IN \/ /\ proc' = [proc EXCEPT
                      ![NextPid] = Child([q EXCEPT !.side = WriteEnd(k)], p,
                        <<[op |-> "stdout to pipe", pipe |-> pipe],
                          [op |-> "execute", command |-> step.first],
                          [op |-> "exit"]>>),
                      ![p] = Then(q, <<[op |-> "fork second", k |-> k, pipe |-> pipe,
                                        pid |-> NextPid, second |-> step.second]>>)]
                 /\ Forks
              \/ /\ ForkFails
                 /\ proc' = [proc EXCEPT ![p] = Then(q, <<>>)]
        /\ pipes' = pipes + 1
        /\ UNCHANGED <<typed, written, undefined>>

(* Slip: the shell waits for the second child only. *)
BugWaitOnce(q, first, second, isBackground) ==
  IF isBackground THEN addJobs(Then(q, <<>>), {first, second})
  ELSE Then(q, <<[op |-> "wait", pid |-> second]>>)

waitForCommandToFinish(q, first, second, isBackground) ==
  IF isBackground THEN addJobs(Then(q, <<>>), {first, second})
  ELSE Then(q, <<[op |-> "wait", pid |-> first], [op |-> "wait", pid |-> second]>>)

(* The second fork; when it fails, the pipe stays open and the first child *)
(* is neither waited for nor listed.                                       *)
PipeForkSecond(p) ==
  /\ At(p, "fork second")
  /\ LET step == Step(p) IN
     \/ /\ proc' = [proc EXCEPT
             ![NextPid] = Child([proc[p] EXCEPT !.side = ReadEnd(step.k)], p,
               <<[op |-> "stdin from pipe", pipe |-> step.pipe],
                 [op |-> "execute", command |-> step.second],
                 [op |-> "exit"]>>),
             ![p] = waitForCommandToFinish(closePipeFDs(@, step.pipe), step.pid, NextPid,
                                           Contains(step.second, "&"))]
        /\ Forks
     \/ /\ ForkFails
        /\ proc' = [proc EXCEPT ![p] = Then(@, <<>>)]
  /\ UNCHANGED <<typed, pipes, written, undefined>>

redirectFirstCommandOutputToPipe(p) ==
  /\ At(p, "stdout to pipe")
  /\ LET pipe == Step(p).pipe
     IN proc' = [proc EXCEPT ![p] = Then(closePipeFDs(Dup2(@, pipe[2], 1), pipe), <<>>)]
  /\ UNCHANGED <<typed, pipes, written, forkFailed, undefined>>

redirectSecondCommandInputToPipe(p) ==
  /\ At(p, "stdin from pipe")
  /\ LET pipe == Step(p).pipe
     IN proc' = [proc EXCEPT ![p] = Then(closePipeFDs(Dup2(@, pipe[1], 0), pipe), <<>>)]
  /\ UNCHANGED <<typed, pipes, written, forkFailed, undefined>>

-----------------------------------------------------------------------------
(* RedirectionCommand.                                                     *)

RedirectBackground(p) ==
  /\ At(p, "redirect&")
  /\ \/ /\ proc' = [proc EXCEPT
             ![NextPid] = Child(proc[p], p,
               <<[op |-> "redirect", command |-> Step(p).command], [op |-> "exit"]>>),
             ![p] = addJobs(Then(@, <<>>), {NextPid})]
        /\ Forks
     \/ /\ ForkFails
        /\ proc' = [proc EXCEPT ![p] = Then(@, <<>>)]
  /\ UNCHANGED <<typed, pipes, written, undefined>>

(* runRedirectedCommand up to the command: open may fail, and dup fails    *)
(* when open took the last descriptor.                                     *)
Redirect(p) ==
  /\ At(p, "redirect")
  /\ \/ proc' = [proc EXCEPT ![p] = Then(@, <<>>)]
     \/ /\ FreeFds(proc[p]) # {}
        /\ LET fd == NextFd(proc[p])
               q == Open(proc[p], File)
               dupFails == FreeFds(q) = {}
               saveStdOutFd == IF dupFails THEN NoFd ELSE NextFd(q)
               saved == IF dupFails THEN q ELSE Open(q, q.fds[1])
           IN proc' = [proc EXCEPT ![p] = Then(Dup2(saved, fd, 1),
                <<[op |-> "execute", command |-> Step(p).command],
                  [op |-> "restore", fd |-> fd, saved |-> saveStdOutFd]>>)]
  /\ UNCHANGED <<typed, pipes, written, forkFailed, undefined>>

(* Slip: the file is put back on stdout instead of the saved descriptor. *)
BugRestoreFile(q, fd, saved) == Close(Dup2(q, fd, 1), fd)

(* Restores stdout and closes the file; the saved copy stays open. *)
RestoreStdout(q, fd, saved) == Close(Dup2(q, saved, 1), fd)

Restore(p) ==
  /\ At(p, "restore")
  /\ proc' = [proc EXCEPT ![p] = Then(RestoreStdout(@, Step(p).fd, Step(p).saved), <<>>)]
  /\ UNCHANGED <<typed, pipes, written, forkFailed, undefined>>

-----------------------------------------------------------------------------
(* CommandExecutor::executeCommand and the built-in commands.              *)

(* Those that the lines may hold; showpid and chprompt do no more than pwd *)
(* to this state, and jobs, kill, fg and bg are in Smash.                  *)
Builtins == {"cat", "cd", "pwd", "quit"}

ExecuteNothing(p) ==
  /\ At(p, "execute") /\ Step(p).command = <<>>
  /\ proc' = [proc EXCEPT ![p] = Then(@, <<>>)]
  /\ UNCHANGED <<typed, pipes, written, forkFailed, undefined>>

Executes(p, name) ==
  At(p, "execute") /\ Step(p).command # <<>> /\ Step(p).command[1] = name

(* A built-in command that only prints; quit without kill does nothing. *)
ExecutePrinting(p) ==
  /\ Executes(p, "pwd") \/ Executes(p, "quit")
  /\ proc' = [proc EXCEPT ![p] = Then(@, <<>>)]
  /\ UNCHANGED <<typed, pipes, written, forkFailed, undefined>>

(* cat f: the file is opened, printed and closed; or cannot be opened; or  *)
(* is a directory, whose read fails, and stays open.  Bound: a line names  *)
(* one directory at most, so that a cat leaves one descriptor at most.     *)
ExecuteCat(p) ==
  /\ Executes(p, "cat")
  /\ \/ proc' = [proc EXCEPT ![p] = Then(@, <<>>)]
     \/ /\ Contains(Step(p).command, "directory")
        /\ FreeFds(proc[p]) # {}
        /\ proc' = [proc EXCEPT ![p] = Then(Open(@, Directory), <<>>)]
  /\ UNCHANGED <<typed, pipes, written, forkFailed, undefined>>

(* cd d and cd -: the shell keeps what the kernel calls the directory, and *)
(* where it was before.  A directory without a name, one that was removed, *)
(* is entered and not noted.                                               *)
ExecuteCd(p) ==
  /\ Executes(p, "cd")
  /\ LET q == proc[p]
         target == IF Step(p).command[2] = "-" THEN q.previousDirectory
                   ELSE Step(p).command[2]
     IN \/ proc' = [proc EXCEPT ![p] = Then(@, <<>>)]
        \/ /\ Len(Step(p).command) = 2 /\ target # ""
           /\ \/ proc' = [proc EXCEPT ![p] = [Then(@, <<>>) EXCEPT
                   !.directory = target,
                   !.currentDirectory = target,
                   !.previousDirectory = q.currentDirectory]]
              \/ /\ target = "removed"
                 /\ proc' = [proc EXCEPT ![p] = [Then(@, <<>>) EXCEPT
                               !.directory = target]]
  /\ UNCHANGED <<typed, pipes, written, forkFailed, undefined>>

-----------------------------------------------------------------------------
(* ExternalCommand.                                                        *)

External(p) ==
  /\ At(p, "execute")
  /\ Step(p).command # <<>> /\ Step(p).command[1] \notin Builtins

InBackground(p) == Last(Step(p).command) = "&"

Program(q, command, background) ==
  [q EXCEPT !.state = "program", !.todo = <<>>, !.program = command[1],
            !.background = background]

runForegroundExternalCommand(p) ==
  /\ External(p) /\ ~InBackground(p)
  /\ \/ /\ proc' = [proc EXCEPT
             ![NextPid] = Program(Child(proc[p], p, <<>>), Step(p).command, FALSE),
             ![p] = Then(@, <<[op |-> "wait", pid |-> NextPid]>>)]
        /\ Forks
     \/ /\ ForkFails
        /\ proc' = [proc EXCEPT ![p] = Then(@, <<>>)]
  /\ UNCHANGED <<typed, pipes, written, undefined>>

(* Up to the fork; when that fails, both ends stay open. *)
runBackgroundExternalCommand(p) ==
  /\ External(p) /\ InBackground(p)
  /\ \/ PipeFails(p)
     \/ /\ Cardinality(FreeFds(proc[p])) >= 2
        /\ LET k == pipes + 1
               read == Open(proc[p], ReadEnd(k))
               q == Open(read, WriteEnd(k))
               pipe == <<NextFd(proc[p]), NextFd(read)>>
           IN \/ /\ proc' = [proc EXCEPT
                      ![NextPid] = Child(q, p, <<[op |-> "close write end", k |-> k,
                        pipe |-> pipe, command |-> Step(p).command]>>),
                      ![p] = Then(q, <<[op |-> "list job", k |-> k, pipe |-> pipe,
                                        pid |-> NextPid]>>)]
                 /\ Forks
              \/ /\ ForkFails
                 /\ proc' = [proc EXCEPT ![p] = Then(q, <<>>)]
        /\ pipes' = pipes + 1
        /\ UNCHANGED <<typed, written, undefined>>

(* The parent closes its reading end, adds the job and tells the child;    *)
(* its writing end stays open.                                             *)
ListJob(p) ==
  /\ At(p, "list job")
  /\ LET step == Step(p) IN
       /\ proc' = [proc EXCEPT
                     ![p] = addJobs(Then(Close(@, step.pipe[1]), <<>>), {step.pid})]
       /\ written' = written \union {step.k}
  /\ UNCHANGED <<typed, pipes, forkFailed, undefined>>

(* runBackgroundChildProcess. *)
CloseWriteEnd(p) ==
  /\ At(p, "close write end")
  /\ LET step == Step(p)
     IN proc' = [proc EXCEPT ![p] = Then(Close(@, step.pipe[2]),
                   <<[op |-> "read", k |-> step.k, command |-> step.command]>>)]
  /\ UNCHANGED <<typed, pipes, written, forkFailed, undefined>>

(* Slip: the child does not wait for the message. *)
BugReadReturns(k) == TRUE

ReadReturns(k) == k \in written \/ Holders(WriteEnd(k)) = {}

StartProgram(p) ==
  /\ At(p, "read")
  /\ ReadReturns(Step(p).k)
  /\ proc' = [proc EXCEPT ![p] = Program(@, Step(p).command, TRUE)]
  /\ UNCHANGED <<typed, pipes, written, forkFailed, undefined>>

-----------------------------------------------------------------------------
(* The programs.  A reader ends when it reads the end of its input, the    *)
(* others when they like; but one that writes to a pipe needs somebody who *)
(* reads, or nobody who could.                                             *)

InputEnds(q) == q.fds[0][1] = "read" => Holders(WriteEnd(q.fds[0][2])) = {}

OutputTaken(q) ==
  q.fds[1][1] = "write" =>
    LET readers == Holders(ReadEnd(q.fds[1][2]))
    IN readers = {} \/ \E r \in readers : proc[r].program = "reader"

Exits(p) ==
  /\ ~undefined /\ proc[p].state = "program"
  /\ proc[p].program = "reader" => InputEnds(proc[p])
  /\ OutputTaken(proc[p])
  /\ proc' = Ended(p)
  /\ UNCHANGED <<typed, pipes, written, forkFailed, undefined>>

-----------------------------------------------------------------------------
ShellStep(p) ==
  \/ Exit(p)
  \/ Wait(p)
  \/ PipeForkFirst(p)
  \/ PipeForkSecond(p)
  \/ redirectFirstCommandOutputToPipe(p)
  \/ redirectSecondCommandInputToPipe(p)
  \/ RedirectBackground(p)
  \/ Redirect(p)
  \/ Restore(p)
  \/ ExecuteNothing(p)
  \/ ExecutePrinting(p)
  \/ ExecuteCat(p)
  \/ ExecuteCd(p)
  \/ runForegroundExternalCommand(p)
  \/ runBackgroundExternalCommand(p)
  \/ ListJob(p)
  \/ CloseWriteEnd(p)
  \/ StartProgram(p)

Work ==
  \/ Quit
  \/ \E p \in Procs : ShellStep(p)
  \/ \E p \in Pids : Exits(p)

Next == ReadLine \/ Work

(* Some process is scheduled whenever one can run, and every program ends  *)
(* when it can.  What the processes do between two lines is finite, so it  *)
(* need not be asked of each of them.                                      *)
Fairness == WF_vars(Work)

Spec == Init /\ [][Next]_vars
FairSpec == Spec /\ Fairness

-----------------------------------------------------------------------------
(* Properties.                                                             *)

Pipes == Fds \X Fds
Words == {"", "home"} \union UNION {ToSet(line) : line \in Lines}
Commands == Seq(Words)

Steps ==
  [op : {"quit", "exit"}] \union
  [op : {"execute", "redirect", "redirect&"}, command : Commands] \union
  [op : {"wait"}, pid : Pids] \union
  [op : {"pipe"}, first : Commands, second : Commands] \union
  [op : {"fork second"}, k : Nat, pipe : Pipes, pid : Pids, second : Commands] \union
  [op : {"stdout to pipe", "stdin from pipe"}, pipe : Pipes] \union
  [op : {"restore"}, fd : Fds, saved : Fds \union {NoFd}] \union
  [op : {"list job"}, k : Nat, pipe : Pipes, pid : Pids] \union
  [op : {"close write end"}, k : Nat, pipe : Pipes, command : Commands \ {<<>>}] \union
  [op : {"read"}, k : Nat, command : Commands \ {<<>>}]

Files == {"none", "tty", "file", "directory", "read", "write"} \X Nat

Process ==
  [state : Alive \union {"none", "zombie", "exited"}, parent : Procs \union {InitPid},
   todo : Seq(Steps), fds : [Fds -> Files], jobs : SUBSET Pids, program : Words,
   background : BOOLEAN, side : Files,
   directory : Words, currentDirectory : Words, previousDirectory : Words]

(* The stack of every process is one that its code can carry out: no step  *)
(* names a descriptor or a child that was never there.                     *)
TypeOK ==
  /\ proc \in [Procs -> Process]
  /\ typed \in Nat /\ pipes \in Nat /\ written \subseteq Nat
  /\ forkFailed \in BOOLEAN /\ undefined \in BOOLEAN

AtPrompt == proc[Smash].state = "shell" /\ proc[Smash].todo = <<>>

(* A process of the pipe that has yet to close the ends it inherited.      *)
Redirecting(p) ==
  /\ proc[p].todo # <<>>
  /\ Step(p).op \in {"fork second", "stdout to pipe", "stdin from pipe"}

(* The input of a pipe's second command ends with its first command: once  *)
(* the redirections are made, only processes of the first part hold the    *)
(* writing end, whatever jobs were started before or meanwhile.            *)
OnlyFirstWrites ==
  \A p \in Procs : proc[p].side[1] = "read" =>
    \A w \in Holders(WriteEnd(proc[p].side[2])) :
      \/ proc[w].side = WriteEnd(proc[p].side[2])
      \/ Redirecting(w)

(* After every line stdin and stdout of the shell are what they were; as   *)
(* long as two descriptors are free, for a redirection that finds but one  *)
(* does not come back from the file.  And of the rest only three kinds     *)
(* stay open: a saved stdout, a writing end of a handshake, a directory.   *)
DescriptorsRestored ==
  (AtPrompt /\ ~forkFailed) =>
    LET fds == proc[Smash].fds IN
      /\ fds[0] = Tty
      /\ fds[1] # Tty => fds[1] = File /\ Cardinality(FreeFds(proc[Smash])) <= 1
      /\ \A fd \in Fds \ {0, 1, 2} :
           \/ fds[fd] \in {None, Tty, Directory}
           \/ fds[fd] = File /\ fds[1] = File
           \/ fds[fd][1] = "write" /\ fds[fd][2] \in written

(* A background program runs only after its shell has listed it, so that   *)
(* it cannot end before it can be removed.                                 *)
StartsListed ==
  \A p \in Pids :
    (proc[p].state = "program" /\ proc[p].background /\ proc[p].parent # InitPid)
      => p \in proc[proc[p].parent].jobs

(* At the prompt every child of the shell is in the list, and will be      *)
(* waited for when it has ended.                                           *)
ChildrenListed ==
  (AtPrompt /\ ~forkFailed) =>
    {p \in Pids : proc[p].state # "none" /\ proc[p].parent = Smash} \subseteq proc[Smash].jobs

(* The prompt comes back after every line whose programs end. *)
PromptReturns ==
  proc[Smash].todo # <<>> ~> (proc[Smash].todo = <<>> \/ undefined)
=============================================================================
