------------------------ MODULE SmashCommandsProofs -------------------------
(***************************************************************************)
(* Theorems about the processes and the descriptors of a command line, for *)
(* any lines, any number of them, any set of descriptors and any start.    *)
(*                                                                         *)
(* First comes what each action does to the fields of the processes that   *)
(* it touches (the lemmas named ...Does); the invariants are then proved   *)
(* from these facts alone.                                                 *)
(***************************************************************************)
EXTENDS SmashCommands, SequenceTheorems, FiniteSetTheorems, WellFoundedInduction, TLAPS

-----------------------------------------------------------------------------
(* Values and minima.                                                      *)

LEMMA FilesType ==
  /\ None \in Files /\ Tty \in Files /\ File \in Files /\ Directory \in Files
  /\ \A k \in Nat : ReadEnd(k) \in Files /\ WriteEnd(k) \in Files
BY DEF Files, None, Tty, File, Directory, ReadEnd, WriteEnd

(* The least of a set of natural numbers is one of them. *)
LEMMA MinIsMember == ASSUME NEW S, S \subseteq Nat, S # {} PROVE Min(S) \in S
<1> DEFINE R == {x \in Nat \X Nat : x[1] < x[2]}
<1>1. IsWellFoundedOn(R, Nat)
  BY NatLessThanWellFounded DEF OpToRel
<1>2. \A x, y \in Nat : y < x => <<y, x>> \in R
  OBVIOUS
<1> HIDE DEF R
<1>3. PICK x \in S : \A y \in S : ~(<<y, x>> \in R)
  BY <1>1, WFMin, Zenon
<1>4. \A y \in S : x <= y
  <2> SUFFICES ASSUME NEW y \in S PROVE x <= y
    OBVIOUS
  <2>1. ~(y < x)
    BY <1>2, <1>3
  <2> QED
    BY <2>1
<1> QED
  BY <1>4 DEF Min

(* A set of two or more has two different members. *)
LEMMA TwoOfThem ==
  ASSUME NEW S, IsFiniteSet(S), Cardinality(S) >= 2, NEW x \in S
  PROVE  S \ {x} # {}
<1>1. Cardinality(S \ {x}) = Cardinality(S) - 1
  BY FS_RemoveElement
<1>2. Cardinality({}) = 0
  BY FS_EmptySet
<1>3. Cardinality(S) \in Nat
  BY FS_CardinalityType
<1> QED
  BY <1>1, <1>2, <1>3

LEMMA FreeFdsType ==
  ASSUME NEW q \in Process
  PROVE  FreeFds(q) \subseteq Nat /\ FreeFds(q) \subseteq Fds /\ IsFiniteSet(FreeFds(q))
<1>1. FreeFds(q) \subseteq Fds
  BY DEF FreeFds
<1> QED
  BY <1>1, CommandsAssumption, FS_Subset

LEMMA NextPidIsFree ==
  ASSUME FreePids # {}
  PROVE  NextPid \in Pids /\ proc[NextPid].state = "none" /\ NextPid # Smash
<1>1. FreePids \subseteq Nat
  BY CommandsAssumption DEF FreePids
<1>2. NextPid \in FreePids
  BY <1>1, MinIsMember DEF NextPid
<1> QED
  BY <1>2, CommandsAssumption DEF FreePids, Smash

LEMMA ProcsType == Smash \in Procs /\ Pids \subseteq Procs /\ InitPid \notin Procs
BY CommandsAssumption DEF Procs, Smash, InitPid

-----------------------------------------------------------------------------
(* The operators on a process.                                             *)

(* What a command does not change of the process that runs it. *)
Same(q, r) ==
  /\ q.state = r.state /\ q.parent = r.parent
  /\ q.side = r.side /\ q.background = r.background /\ q.jobs = r.jobs

LEMMA OpenDoes ==
  ASSUME NEW q \in Process, FreeFds(q) # {}, NEW file \in Files
  PROVE  /\ NextFd(q) \in Fds /\ q.fds[NextFd(q)] = None
         /\ Open(q, file) \in Process
         /\ Open(q, file).fds = [q.fds EXCEPT ![NextFd(q)] = file]
         /\ Open(q, file).todo = q.todo
         /\ Same(Open(q, file), q)
<1>1. NextFd(q) \in FreeFds(q)
  BY FreeFdsType, MinIsMember DEF NextFd
<1>2. NextFd(q) \in Fds /\ q.fds[NextFd(q)] = None
  BY <1>1 DEF FreeFds
<1> QED
  BY <1>2 DEF Open, Process, Same

LEMMA CloseDoes ==
  ASSUME NEW q \in Process, NEW fd \in Fds
  PROVE  /\ Close(q, fd) \in Process
         /\ Close(q, fd).fds = [q.fds EXCEPT ![fd] = None]
         /\ Close(q, fd).todo = q.todo
         /\ Same(Close(q, fd), q)
<1>1. fd # NoFd
  BY CommandsAssumption DEF NoFd
<1> QED
  BY <1>1, FilesType DEF Close, Process, Same

LEMMA Dup2Does ==
  ASSUME NEW q \in Process, NEW from \in Fds \union {NoFd}, NEW to \in Fds
  PROVE  /\ Dup2(q, from, to) \in Process
         /\ \/ /\ from = NoFd \/ q.fds[from] = None
               /\ Dup2(q, from, to).fds = q.fds
            \/ /\ from # NoFd /\ q.fds[from] # None
               /\ Dup2(q, from, to).fds = [q.fds EXCEPT ![to] = q.fds[from]]
         /\ Dup2(q, from, to).todo = q.todo
         /\ Same(Dup2(q, from, to), q)
BY DEF Dup2, Process, Same

LEMMA closePipeFDsDoes ==
  ASSUME NEW q \in Process, NEW pipe \in Pipes
  PROVE  /\ closePipeFDs(q, pipe) \in Process
         /\ closePipeFDs(q, pipe).fds = [q.fds EXCEPT ![pipe[1]] = None, ![pipe[2]] = None]
         /\ closePipeFDs(q, pipe).todo = q.todo
         /\ Same(closePipeFDs(q, pipe), q)
<1>1. pipe[1] \in Fds /\ pipe[2] \in Fds
  BY DEF Pipes
<1>2. /\ Close(q, pipe[1]) \in Process
      /\ Close(q, pipe[1]).fds = [q.fds EXCEPT ![pipe[1]] = None]
      /\ Close(q, pipe[1]).todo = q.todo /\ Same(Close(q, pipe[1]), q)
  BY <1>1, CloseDoes
<1> DEFINE r == Close(q, pipe[1])
<1>3. /\ Close(r, pipe[2]) \in Process
      /\ Close(r, pipe[2]).fds = [r.fds EXCEPT ![pipe[2]] = None]
      /\ Close(r, pipe[2]).todo = r.todo /\ Same(Close(r, pipe[2]), r)
  BY <1>1, <1>2, CloseDoes
<1> QED
  BY <1>2, <1>3 DEF closePipeFDs, Same

LEMMA ThenDoes ==
  ASSUME NEW q \in Process, q.todo # <<>>, NEW steps \in Seq(Steps)
  PROVE  /\ Then(q, steps) \in Process
         /\ Then(q, steps).todo = steps \o Tail(q.todo)
         /\ Then(q, steps).fds = q.fds
         /\ Same(Then(q, steps), q)
<1>1. Tail(q.todo) \in Seq(Steps)
  BY HeadTailProperties DEF Process
<1>2. steps \o Tail(q.todo) \in Seq(Steps)
  BY <1>1, ConcatProperties
<1> QED
  BY <1>2 DEF Then, Process, Same

LEMMA addJobsDoes ==
  ASSUME NEW q \in Process, NEW pids \in SUBSET Pids
  PROVE  LET r == addJobs(q, pids) IN
         /\ r \in Process /\ r.jobs = q.jobs \union pids
         /\ r.fds = q.fds /\ r.todo = q.todo /\ r.state = q.state /\ r.parent = q.parent
         /\ r.side = q.side /\ r.background = q.background
BY DEF addJobs, Process

(* A new pipe, when two descriptors are free. *)
LEMMA PipeDoes ==
  ASSUME NEW q \in Process, Cardinality(FreeFds(q)) >= 2, NEW k \in Nat
  PROVE  LET read == Open(q, ReadEnd(k))
             r == Open(read, WriteEnd(k))
             pipe == <<NextFd(q), NextFd(read)>>
         IN /\ pipe \in Pipes /\ pipe[1] # pipe[2]
            /\ q.fds[pipe[1]] = None /\ q.fds[pipe[2]] = None
            /\ r \in Process
            /\ r.fds = [q.fds EXCEPT ![pipe[1]] = ReadEnd(k), ![pipe[2]] = WriteEnd(k)]
            /\ r.todo = q.todo /\ Same(r, q)
<1> DEFINE read == Open(q, ReadEnd(k))
           r == Open(read, WriteEnd(k))
           a == NextFd(q)
           b == NextFd(read)
<1>1. FreeFds(q) # {}
  BY FS_EmptySet
<1>2. /\ a \in Fds /\ q.fds[a] = None /\ read \in Process
      /\ read.fds = [q.fds EXCEPT ![a] = ReadEnd(k)] /\ read.todo = q.todo /\ Same(read, q)
  BY <1>1, OpenDoes, FilesType
<1>3. FreeFds(read) # {}
  <2>1. a \in FreeFds(q)
    BY <1>2 DEF FreeFds
  <2>2. PICK fd \in FreeFds(q) : fd # a
    BY <2>1, FreeFdsType, TwoOfThem
  <2>3. fd \in FreeFds(read)
    BY <1>2, <2>2 DEF FreeFds, Process
  <2> QED
    BY <2>3
<1>4. /\ b \in Fds /\ read.fds[b] = None /\ r \in Process
      /\ r.fds = [read.fds EXCEPT ![b] = WriteEnd(k)] /\ r.todo = read.todo /\ Same(r, read)
  BY <1>2, <1>3, OpenDoes, FilesType
<1>5. b # a /\ q.fds[b] = None
  <2>1. ReadEnd(k) # None
    BY DEF ReadEnd, None
  <2> QED
    BY <1>2, <1>4, <2>1 DEF Process
<1> HIDE DEF read, r, a, b
<1>6. <<a, b>> \in Pipes /\ <<a, b>>[1] = a /\ <<a, b>>[2] = b
  BY <1>2, <1>4 DEF Pipes
<1>7. r.fds = [q.fds EXCEPT ![a] = ReadEnd(k), ![b] = WriteEnd(k)]
  BY <1>2, <1>4
<1>8. r.todo = q.todo /\ Same(r, q)
  BY <1>2, <1>4 DEF Same
<1> QED
  BY <1>2, <1>4, <1>5, <1>6, <1>7, <1>8 DEF read, r, a, b


-----------------------------------------------------------------------------
(* Steps and stacks.                                                       *)

LEMMA StepType ==
  ASSUME NEW s \in Steps
  PROVE  /\ s.op \in {"execute", "redirect", "redirect&"} => s.command \in Commands
         /\ s.op \in {"close write end", "read"} => s.command \in Commands \ {<<>>}
         /\ s.op \in {"wait", "fork second", "list job"} => s.pid \in Pids
         /\ s.op = "pipe" => s.first \in Commands /\ s.second \in Commands
         /\ s.op = "fork second" => s.second \in Commands
         /\ s.op \in {"fork second", "list job", "close write end", "read"} => s.k \in Nat
         /\ s.op \in {"fork second", "list job", "close write end", "stdout to pipe",
                      "stdin from pipe"} =>
              s.pipe \in Pipes /\ s.pipe[1] \in Fds /\ s.pipe[2] \in Fds
         /\ s.op = "restore" => s.fd \in Fds /\ s.saved \in Fds \union {NoFd}
BY DEF Steps, Pipes

(* The head of a stack, and what is left of the stack without it. *)
LEMMA HeadType ==
  ASSUME TypeOK, NEW p \in Procs, proc[p].todo # <<>>
  PROVE  /\ proc[p] \in Process /\ proc[p].todo \in Seq(Steps)
         /\ Step(p) \in Steps /\ Step(p) = proc[p].todo[1] /\ Len(proc[p].todo) >= 1
<1>1. proc[p] \in Process /\ proc[p].todo \in Seq(Steps)
  BY DEF TypeOK, Process
<1> QED
  BY <1>1, HeadTailProperties, EmptySeq DEF Step

(* What is on a stack when its head is replaced by other steps. *)
Pushed(todo, steps, new) ==
  /\ new \in Seq(Steps)
  /\ Len(new) = Len(steps) + Len(todo) - 1
  /\ \A i \in 1 .. Len(steps) : new[i] = steps[i]
  /\ \A i \in 2 .. Len(todo) :
       Len(steps) + i - 1 \in 1 .. Len(new) /\ new[Len(steps) + i - 1] = todo[i]
  /\ \A i \in 1 .. Len(new) : i > Len(steps) =>
       i - Len(steps) + 1 \in 2 .. Len(todo) /\ new[i] = todo[i - Len(steps) + 1]

LEMMA PushDoes ==
  ASSUME NEW todo \in Seq(Steps), todo # <<>>, NEW steps \in Seq(Steps),
         NEW new, new = steps \o Tail(todo)
  PROVE  Pushed(todo, steps, new)
<1>1. /\ Tail(todo) \in Seq(Steps) /\ Len(Tail(todo)) = Len(todo) - 1
      /\ \A i \in 1 .. Len(Tail(todo)) : Tail(todo)[i] = todo[i + 1]
  BY HeadTailProperties
<1>2. /\ new \in Seq(Steps) /\ Len(new) = Len(steps) + Len(Tail(todo))
      /\ \A i \in 1 .. Len(new) :
           new[i] = IF i <= Len(steps) THEN steps[i] ELSE Tail(todo)[i - Len(steps)]
  BY <1>1, ConcatProperties
<1>3. Len(todo) \in Nat /\ Len(steps) \in Nat /\ Len(todo) >= 1
  BY LenProperties, EmptySeq
<1>4. ASSUME NEW i \in 2 .. Len(todo)
      PROVE  Len(steps) + i - 1 \in 1 .. Len(new) /\ new[Len(steps) + i - 1] = todo[i]
  BY <1>1, <1>2, <1>3
<1>5. ASSUME NEW i \in 1 .. Len(new), i > Len(steps)
      PROVE  i - Len(steps) + 1 \in 2 .. Len(todo) /\ new[i] = todo[i - Len(steps) + 1]
  <2> DEFINE j == i - Len(steps)
  <2>1. j \in 1 .. Len(Tail(todo)) /\ j + 1 \in 2 .. Len(todo)
    BY <1>1, <1>2, <1>3, <1>5
  <2>2. new[i] = Tail(todo)[j]
    BY <1>2, <1>3, <1>5
  <2> HIDE DEF j
  <2>3. new[i] = todo[j + 1]
    BY <1>1, <2>1, <2>2
  <2> QED
    BY <2>1, <2>3 DEF j
<1> QED
  BY <1>1, <1>2, <1>3, <1>4, <1>5 DEF Pushed

LEMMA StepSequences ==
  /\ <<>> \in Seq(Steps)
  /\ \A s \in Steps : <<s>> \in Seq(Steps)
  /\ \A s, t \in Steps : <<s, t>> \in Seq(Steps)
  /\ \A s, t, u \in Steps : <<s, t, u>> \in Seq(Steps)
BY EmptySeq

-----------------------------------------------------------------------------
(* What the actions do.  Those of a command under way change only the      *)
(* process that runs it and, when they fork, the child.                    *)

OnlyChanges(S) == \A q \in Procs \ S : proc'[q] = proc[q]

(* p takes a step: its head is replaced by steps. *)
Takes(p, op, steps) ==
  /\ proc[p].state = "shell" /\ proc[p].todo # <<>> /\ Step(p).op = op
  /\ steps \in Seq(Steps) /\ proc'[p].todo = steps \o Tail(proc[p].todo)

LEMMA OneChange ==
  ASSUME TypeOK, NEW p \in Procs, NEW r \in Process, proc' = [proc EXCEPT ![p] = r]
  PROVE  proc' \in [Procs -> Process] /\ proc'[p] = r /\ OnlyChanges({p})
BY DEF TypeOK, OnlyChanges

LEMMA TwoChanges ==
  ASSUME TypeOK, NEW p \in Procs, proc[p].state = "shell", FreePids # {},
         NEW c \in Process, NEW r \in Process,
         proc' = [proc EXCEPT ![NextPid] = c, ![p] = r]
  PROVE  /\ proc' \in [Procs -> Process] /\ proc'[p] = r /\ proc'[NextPid] = c
         /\ OnlyChanges({p, NextPid})
         /\ NextPid \in Pids /\ NextPid \in Procs /\ NextPid # p /\ NextPid # Smash
         /\ proc[NextPid].state = "none"
<1>1. NextPid \in Procs /\ NextPid # p
  BY NextPidIsFree, ProcsType
<1> QED
  BY <1>1, NextPidIsFree DEF TypeOK, OnlyChanges

(* A command that changes at most one descriptor, or fails to fork. *)
LEMMA ExecuteDoes ==
  ASSUME TypeOK, NEW p \in Procs,
         ExecuteNothing(p) \/ ExecutePrinting(p) \/ ExecuteCat(p) \/ ExecuteCd(p)
  PROVE  /\ TypeOK' /\ OnlyChanges({p}) /\ Takes(p, "execute", <<>>)
         /\ Same(proc'[p], proc[p])
         /\ \/ proc'[p].fds = proc[p].fds
            \/ \E fd \in Fds : /\ proc[p].fds[fd] = None
                               /\ proc'[p].fds = [proc[p].fds EXCEPT ![fd] = Directory]
         /\ UNCHANGED <<pipes, written, forkFailed>>
<1> DEFINE q == proc[p]
           popped == Then(q, <<>>)
<1>1. q.state = "shell" /\ q.todo # <<>> /\ Step(p).op = "execute"
  BY DEF ExecuteNothing, ExecutePrinting, ExecuteCat, ExecuteCd, Executes, At
<1>2. q \in Process /\ Step(p) \in Steps /\ Step(p).command \in Commands
  BY <1>1, HeadType, StepType
<1>3. <<>> \in Seq(Steps)
  BY EmptySeq
<1>4. /\ popped \in Process /\ popped.todo = <<>> \o Tail(q.todo)
      /\ popped.fds = q.fds /\ Same(popped, q)
  BY <1>1, <1>2, <1>3, ThenDoes
<1>5. UNCHANGED <<typed, pipes, written, forkFailed, undefined>>
  BY DEF ExecuteNothing, ExecutePrinting, ExecuteCat, ExecuteCd
<1> DEFINE Good(r) == /\ proc' = [proc EXCEPT ![p] = r]
                      /\ r \in Process /\ r.todo = <<>> \o Tail(q.todo) /\ Same(r, q)
                      /\ \/ r.fds = q.fds
                         \/ \E fd \in Fds : q.fds[fd] = None /\ r.fds = [q.fds EXCEPT ![fd] = Directory]
<1>6. \E r : Good(r)
  <2>1. CASE proc' = [proc EXCEPT ![p] = Then(@, <<>>)]
    <3>1. proc' = [proc EXCEPT ![p] = popped]
      BY <2>1
    <3> QED
      BY <1>4, <3>1
  <2>2. CASE FreeFds(q) # {} /\ proc' = [proc EXCEPT ![p] = Then(Open(@, Directory), <<>>)]
    <3> DEFINE o == Open(q, Directory)
               r == Then(o, <<>>)
    <3>1. /\ NextFd(q) \in Fds /\ q.fds[NextFd(q)] = None /\ o \in Process
          /\ o.fds = [q.fds EXCEPT ![NextFd(q)] = Directory] /\ o.todo = q.todo /\ Same(o, q)
      BY <1>2, <2>2, FilesType, OpenDoes
    <3>2. r \in Process /\ r.todo = <<>> \o Tail(o.todo) /\ r.fds = o.fds /\ Same(r, o)
      BY <1>1, <1>3, <3>1, ThenDoes
    <3>3. Same(r, q)
      BY <3>1, <3>2 DEF Same
    <3>4. proc' = [proc EXCEPT ![p] = r]
      BY <2>2
    <3> HIDE DEF r, o
    <3>5. Good(r)
      BY <3>1, <3>2, <3>3, <3>4
    <3> QED
      BY <3>5
  <2>3. CASE ExecuteCd(p)
    <3> DEFINE target == IF Step(p).command[2] = "-" THEN q.previousDirectory
                         ELSE Step(p).command[2]
               noted == [popped EXCEPT !.directory = target, !.currentDirectory = target,
                                       !.previousDirectory = q.currentDirectory]
               entered == [popped EXCEPT !.directory = target]
    <3>1. CASE proc' = [proc EXCEPT ![p] = Then(@, <<>>)]
      BY <2>1, <3>1
    <3>2. CASE /\ Len(Step(p).command) = 2
               /\ proc' = [proc EXCEPT ![p] = noted] \/ proc' = [proc EXCEPT ![p] = entered]
      <4>1. target \in Words
        BY <1>2, <3>2 DEF Commands, Process
      <4> HIDE DEF target
      <4>2. /\ noted \in Process /\ noted.todo = popped.todo /\ noted.fds = popped.fds
            /\ Same(noted, popped)
        BY <1>2, <1>4, <4>1 DEF Process, Same
      <4>3. /\ entered \in Process /\ entered.todo = popped.todo /\ entered.fds = popped.fds
            /\ Same(entered, popped)
        BY <1>4, <4>1 DEF Process, Same
      <4>4. Same(noted, q) /\ Same(entered, q)
        BY <1>4, <4>2, <4>3 DEF Same
      <4> HIDE DEF noted, entered, popped
      <4> QED
        BY <1>4, <3>2, <4>2, <4>3, <4>4
    <3> QED
      BY <2>3, <3>1, <3>2 DEF ExecuteCd
  <2> QED
    BY <2>1, <2>2, <2>3 DEF ExecuteNothing, ExecutePrinting, ExecuteCat
<1>7. PICK r : Good(r)
  BY <1>6
<1>8. proc' \in [Procs -> Process] /\ proc'[p] = r /\ OnlyChanges({p})
  BY <1>7, OneChange
<1> QED
  BY <1>1, <1>3, <1>5, <1>7, <1>8 DEF Takes, TypeOK

(* r has what q had but for the pipe, and what q had at from now at to too. *)
DupedAndClosed(r, q, pipe, from, to) ==
  \A fd \in Fds :
    \/ r.fds[fd] = None
    \/ /\ fd # pipe[2]
       /\ r.fds[fd] = q.fds[fd] \/ (fd = to /\ r.fds[fd] = q.fds[from])

LEMMA DupAndCloseDoes ==
  ASSUME NEW q \in Process, NEW pipe \in Pipes, NEW from \in Fds, NEW to \in Fds
  PROVE  LET closed == closePipeFDs(Dup2(q, from, to), pipe) IN
         /\ closed \in Process /\ closed.todo = q.todo /\ Same(closed, q)
         /\ DupedAndClosed(closed, q, pipe, from, to)
<1> DEFINE dup == Dup2(q, from, to)
           closed == closePipeFDs(dup, pipe)
<1>1. pipe[1] \in Fds /\ pipe[2] \in Fds
  BY DEF Pipes
<1>2. /\ dup \in Process /\ dup.todo = q.todo /\ Same(dup, q)
      /\ dup.fds = q.fds \/ dup.fds = [q.fds EXCEPT ![to] = q.fds[from]]
  BY Dup2Does
<1>3. /\ closed \in Process /\ closed.todo = dup.todo /\ Same(closed, dup)
      /\ closed.fds = [dup.fds EXCEPT ![pipe[1]] = None, ![pipe[2]] = None]
  BY <1>2, closePipeFDsDoes
<1> HIDE DEF closed, dup
<1>4. q.fds \in [Fds -> Files] /\ dup.fds \in [Fds -> Files]
  BY <1>2 DEF Process
<1>5. \A fd \in Fds : dup.fds[fd] = q.fds[fd] \/ (fd = to /\ dup.fds[fd] = q.fds[from])
  BY <1>2, <1>4
<1>6. \A fd \in Fds : closed.fds[fd] = None \/ (fd # pipe[2] /\ closed.fds[fd] = dup.fds[fd])
  BY <1>1, <1>3, <1>4
<1> QED
  BY <1>2, <1>3, <1>5, <1>6 DEF Same, DupedAndClosed, closed, dup

LEMMA DupAndPop ==
  ASSUME TypeOK, NEW p \in Procs, NEW pipe \in Pipes, NEW from \in Fds, NEW to \in Fds,
         proc[p].todo # <<>>,
         proc' = [proc EXCEPT ![p] = Then(closePipeFDs(Dup2(@, from, to), pipe), <<>>)]
  PROVE  /\ proc' \in [Procs -> Process] /\ OnlyChanges({p})
         /\ proc'[p].todo = <<>> \o Tail(proc[p].todo)
         /\ Same(proc'[p], proc[p]) /\ DupedAndClosed(proc'[p], proc[p], pipe, from, to)
<1> DEFINE q == proc[p]
           closed == closePipeFDs(Dup2(q, from, to), pipe)
           r == Then(closed, <<>>)
<1>1. q \in Process /\ <<>> \in Seq(Steps)
  BY HeadType, EmptySeq
<1>2. /\ closed \in Process /\ closed.todo = q.todo /\ Same(closed, q)
      /\ DupedAndClosed(closed, q, pipe, from, to)
  <2> HIDE DEF q
  <2> QED
    BY <1>1, DupAndCloseDoes
<1>3. r \in Process /\ r.todo = <<>> \o Tail(closed.todo) /\ r.fds = closed.fds /\ Same(r, closed)
  BY <1>1, <1>2, ThenDoes
<1>4. proc' = [proc EXCEPT ![p] = r]
  OBVIOUS
<1> HIDE DEF r, closed
<1>5. proc' \in [Procs -> Process] /\ proc'[p] = r /\ OnlyChanges({p})
  BY <1>3, <1>4, OneChange
<1>6. Same(r, q) /\ r.todo = <<>> \o Tail(q.todo)
  BY <1>2, <1>3 DEF Same
<1>7. DupedAndClosed(r, q, pipe, from, to)
  BY <1>2, <1>3 DEF DupedAndClosed
<1> QED
  BY <1>5, <1>6, <1>7

(* The children of a pipe put one end in its place and close both. *)
LEMMA redirectFirstDoes ==
  ASSUME TypeOK, NEW p \in Procs, redirectFirstCommandOutputToPipe(p)
  PROVE  /\ TypeOK' /\ OnlyChanges({p}) /\ Takes(p, "stdout to pipe", <<>>)
         /\ Same(proc'[p], proc[p])
         /\ \A fd \in Fds : \/ proc'[p].fds[fd] = None
                           \/ \E e \in Fds : proc'[p].fds[fd] = proc[p].fds[e]
         /\ UNCHANGED <<pipes, written, forkFailed>>
<1> DEFINE pipe == Step(p).pipe
<1>1. proc[p].state = "shell" /\ proc[p].todo # <<>> /\ Step(p).op = "stdout to pipe"
  BY DEF redirectFirstCommandOutputToPipe, At
<1>2. pipe \in Pipes /\ pipe[2] \in Fds /\ <<>> \in Seq(Steps) /\ 1 \in Fds
  BY <1>1, HeadType, StepType, EmptySeq, CommandsAssumption
<1>3. /\ proc' = [proc EXCEPT ![p] = Then(closePipeFDs(Dup2(@, pipe[2], 1), pipe), <<>>)]
      /\ UNCHANGED <<typed, pipes, written, forkFailed, undefined>>
  BY DEF redirectFirstCommandOutputToPipe
<1> HIDE DEF pipe
<1>4. /\ proc' \in [Procs -> Process] /\ OnlyChanges({p})
      /\ proc'[p].todo = <<>> \o Tail(proc[p].todo)
      /\ Same(proc'[p], proc[p])
  BY <1>1, <1>2, <1>3, DupAndPop
<1>5. DupedAndClosed(proc'[p], proc[p], pipe, pipe[2], 1)
  BY <1>1, <1>2, <1>3, DupAndPop
<1> QED
  BY <1>1, <1>2, <1>3, <1>4, <1>5 DEF Takes, TypeOK, DupedAndClosed

LEMMA redirectSecondDoes ==
  ASSUME TypeOK, NEW p \in Procs, redirectSecondCommandInputToPipe(p)
  PROVE  /\ TypeOK' /\ OnlyChanges({p}) /\ Takes(p, "stdin from pipe", <<>>)
         /\ Same(proc'[p], proc[p])
         /\ DupedAndClosed(proc'[p], proc[p], Step(p).pipe, Step(p).pipe[1], 0)
         /\ Step(p).pipe[1] \in Fds /\ Step(p).pipe[2] \in Fds
         /\ UNCHANGED <<pipes, written, forkFailed>>
<1> DEFINE pipe == Step(p).pipe
<1>1. proc[p].state = "shell" /\ proc[p].todo # <<>> /\ Step(p).op = "stdin from pipe"
  BY DEF redirectSecondCommandInputToPipe, At
<1>2. /\ pipe \in Pipes /\ pipe[1] \in Fds /\ pipe[2] \in Fds
      /\ <<>> \in Seq(Steps) /\ 0 \in Fds
  BY <1>1, HeadType, StepType, EmptySeq, CommandsAssumption
<1>3. /\ proc' = [proc EXCEPT ![p] = Then(closePipeFDs(Dup2(@, pipe[1], 0), pipe), <<>>)]
      /\ UNCHANGED <<typed, pipes, written, forkFailed, undefined>>
  BY DEF redirectSecondCommandInputToPipe
<1> HIDE DEF pipe
<1>4. /\ proc' \in [Procs -> Process] /\ OnlyChanges({p})
      /\ proc'[p].todo = <<>> \o Tail(proc[p].todo)
      /\ Same(proc'[p], proc[p])
  BY <1>1, <1>2, <1>3, DupAndPop
<1>5. DupedAndClosed(proc'[p], proc[p], pipe, pipe[1], 0)
  BY <1>1, <1>2, <1>3, DupAndPop
<1> QED
  BY <1>1, <1>2, <1>3, <1>4, <1>5 DEF Takes, TypeOK, pipe

(* The file takes the place of stdout, which is saved if it can be. *)
LEMMA RedirectDoes ==
  ASSUME TypeOK, NEW p \in Procs, Redirect(p)
  PROVE  /\ TypeOK' /\ OnlyChanges({p}) /\ Same(proc'[p], proc[p])
         /\ \/ Takes(p, "redirect", <<>>) /\ proc'[p].fds = proc[p].fds
            \/ \E fd \in Fds, saved \in Fds \union {NoFd} :
                 LET opened == [proc[p].fds EXCEPT ![fd] = File] IN
                 /\ Takes(p, "redirect",
                      <<[op |-> "execute", command |-> Step(p).command],
                        [op |-> "restore", fd |-> fd, saved |-> saved]>>)
                 /\ proc[p].fds[fd] = None
                 /\ \/ /\ saved = NoFd /\ \A d \in Fds : opened[d] # None
                       /\ proc'[p].fds = [opened EXCEPT ![1] = File]
                    \/ /\ saved \in Fds /\ opened[saved] = None
                       /\ proc'[p].fds = [[opened EXCEPT ![saved] = opened[1]] EXCEPT ![1] = File]
         /\ UNCHANGED <<pipes, written, forkFailed>>
<1> DEFINE q == proc[p]
<1>1. q.state = "shell" /\ q.todo # <<>> /\ Step(p).op = "redirect"
  BY DEF Redirect, At
<1>2. /\ q \in Process /\ Step(p).command \in Commands
      /\ <<>> \in Seq(Steps) /\ 1 \in Fds /\ 1 # NoFd
  <2>1. q \in Process /\ Step(p) \in Steps /\ Step(p).command \in Commands
    BY <1>1, HeadType, StepType
  <2> QED
    BY <2>1, EmptySeq, CommandsAssumption DEF NoFd
<1>3. UNCHANGED <<typed, pipes, written, forkFailed, undefined>>
  BY DEF Redirect
<1>4. CASE proc' = [proc EXCEPT ![p] = Then(@, <<>>)]
  <2> DEFINE r == Then(q, <<>>)
  <2>1. r \in Process /\ r.todo = <<>> \o Tail(q.todo) /\ r.fds = q.fds /\ Same(r, q)
    BY <1>1, <1>2, ThenDoes
  <2>2. proc' = [proc EXCEPT ![p] = r]
    BY <1>4
  <2> HIDE DEF r
  <2>3. proc' \in [Procs -> Process] /\ proc'[p] = r /\ OnlyChanges({p})
    BY <2>1, <2>2, OneChange
  <2> QED
    BY <1>1, <1>2, <1>3, <2>1, <2>3 DEF Takes, TypeOK
<1>5. CASE ~(proc' = [proc EXCEPT ![p] = Then(@, <<>>)])
  <2> DEFINE fd == NextFd(q)
             o == Open(q, File)
             saved == IF FreeFds(o) = {} THEN NoFd ELSE NextFd(o)
             s == IF FreeFds(o) = {} THEN o ELSE Open(o, o.fds[1])
             d == Dup2(s, fd, 1)
             steps == <<[op |-> "execute", command |-> Step(p).command],
                        [op |-> "restore", fd |-> fd, saved |-> saved]>>
             r == Then(d, steps)
  <2>1. FreeFds(q) # {} /\ proc' = [proc EXCEPT ![p] = r]
    BY <1>5 DEF Redirect
  <2>2. /\ fd \in Fds /\ q.fds[fd] = None /\ o \in Process
        /\ o.fds = [q.fds EXCEPT ![fd] = File] /\ o.todo = q.todo /\ Same(o, q)
    BY <1>2, <2>1, FilesType, OpenDoes
  <2>3. /\ s \in Process /\ s.todo = o.todo /\ Same(s, o) /\ saved \in Fds \union {NoFd}
        /\ \/ /\ saved = NoFd /\ \A x \in Fds : o.fds[x] # None
              /\ s.fds = o.fds
           \/ /\ saved \in Fds /\ o.fds[saved] = None
              /\ s.fds = [o.fds EXCEPT ![saved] = o.fds[1]]
    <3>1. CASE FreeFds(o) = {}
      BY <2>2, <3>1 DEF FreeFds, Same
    <3>2. CASE FreeFds(o) # {}
      <4>1. o.fds[1] \in Files
        BY <1>2, <2>2 DEF Process
      <4> QED
        BY <2>2, <3>2, <4>1, OpenDoes
    <3> QED
      BY <3>1, <3>2
  <2>4. s.fds[fd] = File /\ fd # NoFd
    <3>1. fd # NoFd
      BY <2>2, CommandsAssumption DEF NoFd
    <3>2. File # None
      BY DEF File, None
    <3> HIDE DEF s, saved, fd, o
    <3> QED
      BY <1>2, <2>2, <2>3, <3>1, <3>2 DEF Process
  <2>5. /\ d \in Process /\ d.todo = s.todo /\ Same(d, s)
        /\ d.fds = [s.fds EXCEPT ![1] = File]
    <3>1. File # None
      BY DEF File, None
    <3> HIDE DEF s, fd
    <3>2. s \in Process /\ fd \in Fds /\ 1 \in Fds /\ s.fds[fd] # None
      BY <1>2, <2>2, <2>3, <2>4, <3>1
    <3> QED
      BY <2>4, <3>2, Dup2Does
  <2> HIDE DEF d, s, saved, o, fd
  <2>6. steps \in Seq(Steps)
    <3>1. /\ [op |-> "execute", command |-> Step(p).command] \in Steps
          /\ [op |-> "restore", fd |-> fd, saved |-> saved] \in Steps
      BY <1>2, <2>2, <2>3 DEF Steps
    <3> QED
      BY <3>1, StepSequences
  <2>7. r \in Process /\ r.todo = steps \o Tail(d.todo) /\ r.fds = d.fds /\ Same(r, d)
    BY <1>1, <2>2, <2>3, <2>5, <2>6, ThenDoes
  <2> HIDE DEF r
  <2>8. proc' \in [Procs -> Process] /\ proc'[p] = r /\ OnlyChanges({p})
    BY <2>1, <2>7, OneChange
  <2>9. Same(r, q) /\ Takes(p, "redirect", steps)
    BY <1>1, <2>2, <2>3, <2>5, <2>6, <2>7, <2>8 DEF Same, Takes
  <2>10. TypeOK'
    BY <1>3, <2>8 DEF TypeOK
  <2>11. LET opened == [q.fds EXCEPT ![fd] = File] IN
           \/ /\ saved = NoFd /\ \A x \in Fds : opened[x] # None
              /\ r.fds = [opened EXCEPT ![1] = File]
           \/ /\ saved \in Fds /\ opened[saved] = None
              /\ r.fds = [[opened EXCEPT ![saved] = opened[1]] EXCEPT ![1] = File]
    BY <2>2, <2>3, <2>5, <2>7
  <2> QED
    BY <1>3, <2>2, <2>3, <2>8, <2>9, <2>10, <2>11
<1> QED
  BY <1>4, <1>5

LEMMA RestoreDoes ==
  ASSUME TypeOK, NEW p \in Procs, Restore(p)
  PROVE  LET fd == Step(p).fd
             saved == Step(p).saved
             fds == proc[p].fds
         IN
         /\ TypeOK' /\ OnlyChanges({p}) /\ Same(proc'[p], proc[p])
         /\ Takes(p, "restore", <<>>)
         /\ fd \in Fds /\ saved \in Fds \union {NoFd}
         /\ \/ /\ saved = NoFd \/ fds[saved] = None
               /\ proc'[p].fds = [fds EXCEPT ![fd] = None]
            \/ /\ saved # NoFd /\ fds[saved] # None
               /\ proc'[p].fds = [[fds EXCEPT ![1] = fds[saved]] EXCEPT ![fd] = None]
         /\ UNCHANGED <<pipes, written, forkFailed>>
<1> DEFINE q == proc[p]
           fd == Step(p).fd
           saved == Step(p).saved
           d == Dup2(q, saved, 1)
           c == Close(d, fd)
           r == Then(c, <<>>)
<1>1. q.state = "shell" /\ q.todo # <<>> /\ Step(p).op = "restore"
  BY DEF Restore, At
<1>2. /\ q \in Process /\ fd \in Fds /\ saved \in Fds \union {NoFd}
      /\ <<>> \in Seq(Steps) /\ 1 \in Fds
  BY <1>1, HeadType, StepType, EmptySeq, CommandsAssumption
<1>3. /\ d \in Process /\ d.todo = q.todo /\ Same(d, q)
      /\ \/ (saved = NoFd \/ q.fds[saved] = None) /\ d.fds = q.fds
         \/ /\ saved # NoFd /\ q.fds[saved] # None
            /\ d.fds = [q.fds EXCEPT ![1] = q.fds[saved]]
  <2> HIDE DEF q, saved
  <2> QED
    BY <1>2, Dup2Does
<1>4. c \in Process /\ c.todo = d.todo /\ Same(c, d) /\ c.fds = [d.fds EXCEPT ![fd] = None]
  BY <1>2, <1>3, CloseDoes
<1>5. r \in Process /\ r.todo = <<>> \o Tail(c.todo) /\ r.fds = c.fds /\ Same(r, c)
  BY <1>1, <1>2, <1>3, <1>4, ThenDoes
<1>6. proc' = [proc EXCEPT ![p] = r] /\ UNCHANGED <<typed, pipes, written, forkFailed, undefined>>
  BY DEF Restore, RestoreStdout
<1> HIDE DEF r, c, d
<1>7. proc' \in [Procs -> Process] /\ proc'[p] = r /\ OnlyChanges({p})
  BY <1>5, <1>6, OneChange
<1>8. Same(r, q) /\ r.todo = <<>> \o Tail(q.todo)
  BY <1>3, <1>4, <1>5 DEF Same
<1> QED
  BY <1>1, <1>2, <1>3, <1>4, <1>5, <1>6, <1>7, <1>8 DEF Takes, TypeOK

LEMMA CloseWriteEndDoes ==
  ASSUME TypeOK, NEW p \in Procs, CloseWriteEnd(p)
  PROVE  /\ TypeOK' /\ OnlyChanges({p}) /\ Same(proc'[p], proc[p])
         /\ Takes(p, "close write end",
              <<[op |-> "read", k |-> Step(p).k, command |-> Step(p).command]>>)
         /\ Step(p).pipe[2] \in Fds
         /\ proc'[p].fds = [proc[p].fds EXCEPT ![Step(p).pipe[2]] = None]
         /\ UNCHANGED <<pipes, written, forkFailed>>
<1> DEFINE q == proc[p]
           fd == Step(p).pipe[2]
           steps == <<[op |-> "read", k |-> Step(p).k, command |-> Step(p).command]>>
           c == Close(q, fd)
           r == Then(c, steps)
<1>1. q.state = "shell" /\ q.todo # <<>> /\ Step(p).op = "close write end"
  BY DEF CloseWriteEnd, At
<1>2. q \in Process /\ fd \in Fds /\ Step(p).k \in Nat /\ Step(p).command \in Commands \ {<<>>}
  BY <1>1, HeadType, StepType
<1>3. steps \in Seq(Steps)
  <2>1. [op |-> "read", k |-> Step(p).k, command |-> Step(p).command] \in Steps
    BY <1>2 DEF Steps
  <2> QED
    BY <2>1, StepSequences
<1>4. c \in Process /\ c.todo = q.todo /\ Same(c, q) /\ c.fds = [q.fds EXCEPT ![fd] = None]
  BY <1>2, CloseDoes
<1>5. r \in Process /\ r.todo = steps \o Tail(c.todo) /\ r.fds = c.fds /\ Same(r, c)
  BY <1>1, <1>3, <1>4, ThenDoes
<1>6. proc' = [proc EXCEPT ![p] = r] /\ UNCHANGED <<typed, pipes, written, forkFailed, undefined>>
  BY DEF CloseWriteEnd
<1> HIDE DEF r, c
<1>7. proc' \in [Procs -> Process] /\ proc'[p] = r /\ OnlyChanges({p})
  BY <1>5, <1>6, OneChange
<1>8. Same(r, q) /\ r.todo = steps \o Tail(q.todo)
  BY <1>4, <1>5 DEF Same
<1> QED
  BY <1>1, <1>2, <1>3, <1>4, <1>5, <1>6, <1>7, <1>8 DEF Takes, TypeOK

-----------------------------------------------------------------------------
(* The actions that fork.                                                  *)

(* p has a child c that was not there; what else differs is said apart.    *)
Forked(p, c) ==
  /\ c \in Pids /\ c \in Procs /\ c # p /\ c # Smash /\ proc[c].state = "none"
  /\ OnlyChanges({p, c})
  /\ proc'[p].state = "shell" /\ proc'[p].parent = proc[p].parent
  /\ proc'[p].side = proc[p].side /\ proc'[p].background = proc[p].background
  /\ proc'[c].parent = p
  /\ UNCHANGED forkFailed

(* p has no child and goes on with what comes after op. *)
ForkFailed(p, op) ==
  /\ OnlyChanges({p}) /\ Takes(p, op, <<>>) /\ Same(proc'[p], proc[p])
  /\ forkFailed' = TRUE

NewPipe(p, pipe) ==
  /\ pipe \in Pipes /\ pipe[1] \in Fds /\ pipe[2] \in Fds /\ pipe[1] # pipe[2]
  /\ proc[p].fds[pipe[1]] = None /\ proc[p].fds[pipe[2]] = None
  /\ proc'[p].fds = [proc[p].fds EXCEPT ![pipe[1]] = ReadEnd(pipes + 1),
                                        ![pipe[2]] = WriteEnd(pipes + 1)]
  /\ pipes' = pipes + 1

LEMMA ChildDoes ==
  ASSUME NEW q \in Process, NEW p \in Procs, NEW steps \in Seq(Steps)
  PROVE  LET c == Child(q, p, steps) IN
         /\ c \in Process /\ c.parent = p /\ c.todo = steps
         /\ c.fds = q.fds /\ c.state = q.state /\ c.jobs = q.jobs /\ c.side = q.side
         /\ c.background = q.background
BY DEF Child, Process

LEMMA SideDoes ==
  ASSUME NEW q \in Process, NEW file \in Files
  PROVE  LET r == [q EXCEPT !.side = file] IN
         /\ r \in Process /\ r.side = file
         /\ r.fds = q.fds /\ r.state = q.state /\ r.jobs = q.jobs /\ r.todo = q.todo
         /\ r.background = q.background
BY DEF Process

LEMMA ProgramDoes ==
  ASSUME NEW q \in Process, NEW command \in Commands \ {<<>>}, NEW background \in BOOLEAN
  PROVE  LET r == Program(q, command, background) IN
         /\ r \in Process /\ r.state = "program" /\ r.todo = <<>> /\ r.background = background
         /\ r.fds = q.fds /\ r.jobs = q.jobs /\ r.side = q.side /\ r.parent = q.parent
<1>1. command[1] \in Words
  BY EmptySeq DEF Commands
<1>2. "program" \in Alive \union {"none", "zombie", "exited"} /\ <<>> \in Seq(Steps)
  BY EmptySeq DEF Alive
<1> QED
  BY <1>1, <1>2 DEF Program, Process

LEMMA PipeForkFirstDoes ==
  ASSUME TypeOK, NEW p \in Procs, PipeForkFirst(p)
  PROVE  /\ TypeOK' /\ UNCHANGED written
         /\ proc[p].state = "shell" /\ proc[p].todo # <<>> /\ Step(p).op = "pipe"
         /\ \/ UNCHANGED <<proc, pipes, forkFailed>>
            \/ \E pipe \in Pipes : NewPipe(p, pipe) /\ ForkFailed(p, "pipe")
            \/ \E c \in Pids, pipe \in Pipes :
                 /\ NewPipe(p, pipe) /\ Forked(p, c)
                 /\ Takes(p, "pipe", <<[op |-> "fork second", k |-> pipes + 1, pipe |-> pipe,
                                        pid |-> c, second |-> Step(p).second]>>)
                 /\ proc'[p].jobs = proc[p].jobs
                 /\ proc'[c].state = "shell" /\ proc'[c].fds = proc'[p].fds
                 /\ proc'[c].side = WriteEnd(pipes + 1)
                 /\ proc'[c].todo = <<[op |-> "stdout to pipe", pipe |-> pipe],
                                      [op |-> "execute", command |-> Step(p).first],
                                      [op |-> "exit"]>>
<1> DEFINE q == proc[p]
           k == pipes + 1
           read == Open(q, ReadEnd(k))
           o == Open(read, WriteEnd(k))
           pipe == <<NextFd(q), NextFd(read)>>
           c == NextPid
           before == <<[op |-> "fork second", k |-> k, pipe |-> pipe,
                        pid |-> c, second |-> Step(p).second]>>
           steps == <<[op |-> "stdout to pipe", pipe |-> pipe],
                      [op |-> "execute", command |-> Step(p).first],
                      [op |-> "exit"]>>
           child == Child([o EXCEPT !.side = WriteEnd(k)], p, steps)
<1>1. q.state = "shell" /\ q.todo # <<>> /\ Step(p).op = "pipe"
  BY DEF PipeForkFirst, At
<1>2. /\ q \in Process /\ Step(p).first \in Commands /\ Step(p).second \in Commands
      /\ k \in Nat /\ <<>> \in Seq(Steps)
  <2>1. q \in Process /\ Step(p) \in Steps
    BY <1>1, HeadType
  <2>2. Step(p).first \in Commands /\ Step(p).second \in Commands
    BY <1>1, <2>1, StepType
  <2> QED
    BY <2>1, <2>2, EmptySeq DEF TypeOK
<1>3. CASE PipeFails(p)
  <2>1. TypeOK' /\ UNCHANGED <<proc, pipes, written, forkFailed>>
    BY <1>3 DEF PipeFails, TypeOK
  <2> QED
    BY <1>1, <2>1
<1>4. CASE Cardinality(FreeFds(q)) >= 2 /\ ~PipeFails(p)
  <2>1. /\ pipe \in Pipes /\ pipe[1] # pipe[2]
        /\ q.fds[pipe[1]] = None /\ q.fds[pipe[2]] = None
        /\ o \in Process
        /\ o.fds = [q.fds EXCEPT ![pipe[1]] = ReadEnd(k), ![pipe[2]] = WriteEnd(k)]
        /\ o.todo = q.todo /\ Same(o, q)
    <3> HIDE DEF q, k
    <3> QED
      BY <1>2, <1>4, PipeDoes
  <2>2. pipe[1] \in Fds /\ pipe[2] \in Fds
    BY <2>1 DEF Pipes
  <2>3. UNCHANGED <<typed, written, undefined>> /\ pipes' = pipes + 1
    BY <1>4 DEF PipeForkFirst
  <2>4. \/ /\ proc' = [proc EXCEPT ![c] = child, ![p] = Then(o, before)]
           /\ Forks
        \/ ForkFails /\ proc' = [proc EXCEPT ![p] = Then(o, <<>>)]
    BY <1>4 DEF PipeForkFirst
  <2> HIDE DEF k, o, pipe, c
  <2>5. CASE ForkFails /\ proc' = [proc EXCEPT ![p] = Then(o, <<>>)]
    <3> DEFINE r == Then(o, <<>>)
    <3>1. r \in Process /\ r.todo = <<>> \o Tail(o.todo) /\ r.fds = o.fds /\ Same(r, o)
      BY <1>1, <1>2, <2>1, ThenDoes
    <3>2. Same(r, q) /\ r.todo = <<>> \o Tail(q.todo)
      BY <2>1, <3>1 DEF Same
    <3>3. proc' = [proc EXCEPT ![p] = r]
      BY <2>5
    <3> HIDE DEF r
    <3>4. proc' \in [Procs -> Process] /\ proc'[p] = r /\ OnlyChanges({p})
      BY <3>1, <3>3, OneChange
    <3>5. forkFailed' = TRUE
      BY <2>5 DEF ForkFails
    <3>6. TypeOK'
      BY <2>3, <3>4, <3>5 DEF TypeOK
    <3>7. NewPipe(p, pipe)
      BY <2>1, <2>2, <2>3, <3>1, <3>4 DEF NewPipe, k
    <3>8. ForkFailed(p, "pipe")
      BY <1>1, <1>2, <3>2, <3>4, <3>5 DEF ForkFailed, Takes
    <3> QED
      BY <1>1, <2>1, <2>3, <3>6, <3>7, <3>8
  <2>6. CASE Forks /\ proc' = [proc EXCEPT ![c] = child, ![p] = Then(o, before)]
    <3> DEFINE r == Then(o, before)
    <3>1. c \in Pids /\ FreePids # {} /\ UNCHANGED forkFailed
      BY <2>6, NextPidIsFree DEF Forks, c
    <3>2. before \in Seq(Steps) /\ steps \in Seq(Steps)
      <4>1. [op |-> "fork second", k |-> k, pipe |-> pipe, pid |-> c,
             second |-> Step(p).second] \in Steps
        BY <1>2, <2>1, <3>1 DEF Steps
      <4>2. /\ [op |-> "stdout to pipe", pipe |-> pipe] \in Steps
            /\ [op |-> "execute", command |-> Step(p).first] \in Steps
            /\ [op |-> "exit"] \in Steps
        BY <1>2, <2>1 DEF Steps
      <4> QED
        BY <4>1, <4>2, StepSequences
    <3> HIDE DEF before, steps
    <3>3. r \in Process /\ r.todo = before \o Tail(o.todo) /\ r.fds = o.fds /\ Same(r, o)
      BY <1>1, <2>1, <3>2, ThenDoes
    <3>4. Same(r, q) /\ r.todo = before \o Tail(q.todo)
      BY <2>1, <3>3 DEF Same
    <3>5. /\ child \in Process /\ child.parent = p /\ child.todo = steps /\ child.fds = o.fds
          /\ child.state = "shell" /\ child.side = WriteEnd(k)
      <4>1. WriteEnd(k) \in Files
        BY <1>2, FilesType DEF k
      <4> DEFINE s == [o EXCEPT !.side = WriteEnd(k)]
      <4>2. s \in Process /\ s.side = WriteEnd(k) /\ s.fds = o.fds /\ s.state = o.state
        BY <2>1, <4>1, SideDoes
      <4> HIDE DEF s
      <4>3. LET d == Child(s, p, steps) IN
              /\ d \in Process /\ d.parent = p /\ d.todo = steps
              /\ d.fds = s.fds /\ d.state = s.state /\ d.side = s.side
        BY <3>2, <4>2, ChildDoes
      <4> QED
        BY <1>1, <2>1, <4>2, <4>3 DEF s, Same
    <3> HIDE DEF r, child
    <3>6. /\ proc' \in [Procs -> Process] /\ proc'[p] = r /\ proc'[c] = child
          /\ OnlyChanges({p, c}) /\ c \in Procs /\ c # p /\ c # Smash /\ proc[c].state = "none"
      <4>1. proc' = [proc EXCEPT ![NextPid] = child, ![p] = r]
        BY <2>6 DEF r, c
      <4> QED
        BY <1>1, <3>1, <3>3, <3>5, <4>1, TwoChanges DEF c
    <3>7. Forked(p, c) /\ proc'[p].jobs = proc[p].jobs
      BY <1>1, <3>1, <3>4, <3>5, <3>6 DEF Forked, Same
    <3>8. NewPipe(p, pipe)
      BY <2>1, <2>2, <2>3, <3>3, <3>6 DEF NewPipe, k
    <3>9. Takes(p, "pipe", before)
      BY <1>1, <3>2, <3>4, <3>6 DEF Takes
    <3>10. TypeOK'
      BY <2>3, <3>1, <3>6 DEF TypeOK
    <3>11. /\ proc'[c].state = "shell" /\ proc'[c].fds = proc'[p].fds
           /\ proc'[c].side = WriteEnd(k) /\ proc'[c].todo = steps
      BY <3>3, <3>5, <3>6
    <3> QED
      BY <1>1, <2>1, <2>3, <3>1, <3>7, <3>8, <3>9, <3>10, <3>11 DEF before, steps, k
  <2> QED
    BY <2>4, <2>5, <2>6
<1> QED
  BY <1>3, <1>4 DEF PipeForkFirst

LEMMA PipeForkSecondDoes ==
  ASSUME TypeOK, NEW p \in Procs, PipeForkSecond(p)
  PROVE  /\ TypeOK' /\ UNCHANGED <<written, pipes>>
         /\ proc[p].state = "shell" /\ proc[p].todo # <<>> /\ Step(p).op = "fork second"
         /\ Step(p).pipe[1] \in Fds /\ Step(p).pipe[2] \in Fds
         /\ \/ ForkFailed(p, "fork second") /\ proc'[p].fds = proc[p].fds
            \/ \E c \in Pids :
                 /\ Forked(p, c)
                 /\ \/ /\ Takes(p, "fork second", <<>>)
                       /\ proc'[p].jobs = proc[p].jobs \union {Step(p).pid, c}
                    \/ /\ Takes(p, "fork second", <<[op |-> "wait", pid |-> Step(p).pid],
                                                    [op |-> "wait", pid |-> c]>>)
                       /\ proc'[p].jobs = proc[p].jobs
                 /\ proc'[p].fds = [proc[p].fds EXCEPT ![Step(p).pipe[1]] = None,
                                                       ![Step(p).pipe[2]] = None]
                 /\ proc'[c].state = "shell" /\ proc'[c].fds = proc[p].fds
                 /\ proc'[c].side = ReadEnd(Step(p).k)
                 /\ proc'[c].todo = <<[op |-> "stdin from pipe", pipe |-> Step(p).pipe],
                                      [op |-> "execute", command |-> Step(p).second],
                                      [op |-> "exit"]>>
<1> DEFINE q == proc[p]
           step == Step(p)
           pipe == step.pipe
           c == NextPid
           closed == closePipeFDs(q, pipe)
           waits == <<[op |-> "wait", pid |-> step.pid], [op |-> "wait", pid |-> c]>>
           steps == <<[op |-> "stdin from pipe", pipe |-> pipe],
                      [op |-> "execute", command |-> step.second],
                      [op |-> "exit"]>>
           child == Child([q EXCEPT !.side = ReadEnd(step.k)], p, steps)
           parent == waitForCommandToFinish(closed, step.pid, c, Contains(step.second, "&"))
<1>1. q.state = "shell" /\ q.todo # <<>> /\ step.op = "fork second"
  BY DEF PipeForkSecond, At
<1>2. q \in Process /\ step \in Steps /\ <<>> \in Seq(Steps)
  BY <1>1, HeadType, EmptySeq
<1>3. /\ step.k \in Nat /\ step.second \in Commands /\ step.pid \in Pids
      /\ pipe \in Pipes /\ pipe[1] \in Fds /\ pipe[2] \in Fds
  BY <1>1, <1>2, StepType
<1>4. UNCHANGED <<typed, pipes, written, undefined>>
  BY DEF PipeForkSecond
<1>5. \/ /\ proc' = [proc EXCEPT ![c] = child, ![p] = parent]
         /\ Forks
      \/ ForkFails /\ proc' = [proc EXCEPT ![p] = Then(@, <<>>)]
  <2>1. \/ /\ proc' = [proc EXCEPT ![c] = Child([proc[p] EXCEPT !.side = ReadEnd(step.k)], p, steps),
                                  ![p] = waitForCommandToFinish(closePipeFDs(@, step.pipe),
                                           step.pid, c, Contains(step.second, "&"))]
           /\ Forks
        \/ ForkFails /\ proc' = [proc EXCEPT ![p] = Then(@, <<>>)]
    BY DEF PipeForkSecond
  <2>2. CASE Forks
    <3>1. c # p
      BY <1>1, <2>2, NextPidIsFree DEF Forks
    <3> QED
      BY <1>2, <2>1, <3>1
  <2> QED
    BY <2>1, <2>2
<1> HIDE DEF step, c
<1>6. CASE ForkFails /\ proc' = [proc EXCEPT ![p] = Then(@, <<>>)]
  <2> DEFINE r == Then(q, <<>>)
  <2>1. r \in Process /\ r.todo = <<>> \o Tail(q.todo) /\ r.fds = q.fds /\ Same(r, q)
    BY <1>1, <1>2, ThenDoes
  <2>2. proc' = [proc EXCEPT ![p] = r] /\ forkFailed' = TRUE
    BY <1>6 DEF ForkFails
  <2> HIDE DEF r
  <2>3. proc' \in [Procs -> Process] /\ proc'[p] = r /\ OnlyChanges({p})
    BY <2>1, <2>2, OneChange
  <2>4. TypeOK'
    BY <1>4, <2>2, <2>3 DEF TypeOK
  <2>5. ForkFailed(p, "fork second")
    BY <1>1, <1>2, <2>1, <2>2, <2>3 DEF ForkFailed, Takes, step
  <2> QED
    BY <1>1, <1>3, <1>4, <2>1, <2>3, <2>4, <2>5 DEF step
<1>7. CASE Forks /\ proc' = [proc EXCEPT ![c] = child, ![p] = parent]
  <2>1. c \in Pids /\ FreePids # {} /\ UNCHANGED forkFailed
    BY <1>7, NextPidIsFree DEF Forks, c
  <2>2. waits \in Seq(Steps) /\ steps \in Seq(Steps)
    <3>1. /\ [op |-> "wait", pid |-> step.pid] \in Steps /\ [op |-> "wait", pid |-> c] \in Steps
          /\ [op |-> "stdin from pipe", pipe |-> pipe] \in Steps
          /\ [op |-> "execute", command |-> step.second] \in Steps
          /\ [op |-> "exit"] \in Steps
      BY <1>3, <2>1 DEF Steps
    <3> QED
      BY <3>1, StepSequences
  <2>3. /\ closed \in Process /\ closed.todo = q.todo /\ Same(closed, q)
        /\ closed.fds = [q.fds EXCEPT ![pipe[1]] = None, ![pipe[2]] = None]
    <3> HIDE DEF q, pipe
    <3> QED
      BY <1>2, <1>3, closePipeFDsDoes
  <2>4. /\ child \in Process /\ child.parent = p /\ child.todo = steps /\ child.fds = q.fds
        /\ child.state = "shell" /\ child.side = ReadEnd(step.k)
    <3>1. ReadEnd(step.k) \in Files
      BY <1>3, FilesType
    <3> DEFINE s == [q EXCEPT !.side = ReadEnd(step.k)]
    <3>2. s \in Process /\ s.side = ReadEnd(step.k) /\ s.fds = q.fds /\ s.state = q.state
      BY <1>2, <3>1, SideDoes
    <3> HIDE DEF s, steps
    <3>3. LET d == Child(s, p, steps) IN
            /\ d \in Process /\ d.parent = p /\ d.todo = steps
            /\ d.fds = s.fds /\ d.state = s.state /\ d.side = s.side
      BY <2>2, <3>2, ChildDoes
    <3> QED
      BY <1>1, <3>2, <3>3 DEF s
  <2> HIDE DEF steps, waits, closed
  <2>5. /\ parent \in Process /\ parent.fds = closed.fds
        /\ parent.state = q.state /\ parent.parent = q.parent
        /\ parent.side = q.side /\ parent.background = q.background
        /\ \/ parent.todo = <<>> \o Tail(q.todo) /\ parent.jobs = q.jobs \union {step.pid, c}
           \/ parent.todo = waits \o Tail(q.todo) /\ parent.jobs = q.jobs
    <3>1. CASE Contains(step.second, "&")
      <4> DEFINE r == Then(closed, <<>>)
      <4>1. r \in Process /\ r.todo = <<>> \o Tail(closed.todo) /\ r.fds = closed.fds /\ Same(r, closed)
        BY <1>1, <1>2, <2>3, ThenDoes
      <4>2. parent = addJobs(r, {step.pid, c})
        BY <3>1 DEF waitForCommandToFinish
      <4> HIDE DEF r, parent
      <4>3. {step.pid, c} \in SUBSET Pids
        BY <1>3, <2>1
      <4>4. Same(r, q)
        BY <2>3, <4>1 DEF Same
      <4>5. /\ parent \in Process /\ parent.fds = r.fds /\ parent.todo = r.todo
            /\ parent.state = r.state /\ parent.parent = r.parent
            /\ parent.side = r.side /\ parent.background = r.background
            /\ parent.jobs = r.jobs \union {step.pid, c}
        BY <4>1, <4>2, <4>3, addJobsDoes
      <4> QED
        BY <2>3, <4>1, <4>4, <4>5 DEF Same
    <3>2. CASE ~Contains(step.second, "&")
      <4> DEFINE r == Then(closed, waits)
      <4>1. r \in Process /\ r.todo = waits \o Tail(closed.todo) /\ r.fds = closed.fds /\ Same(r, closed)
        BY <1>1, <2>2, <2>3, ThenDoes
      <4>2. parent = r
        BY <3>2 DEF waitForCommandToFinish, waits
      <4> HIDE DEF r, parent
      <4> QED
        BY <2>3, <4>1, <4>2 DEF Same
    <3> QED
      BY <3>1, <3>2
  <2> HIDE DEF parent, child
  <2>6. /\ proc' \in [Procs -> Process] /\ proc'[p] = parent /\ proc'[c] = child
        /\ OnlyChanges({p, c}) /\ c \in Procs /\ c # p /\ c # Smash /\ proc[c].state = "none"
    <3>1. proc' = [proc EXCEPT ![NextPid] = child, ![p] = parent]
      BY <1>7 DEF c
    <3> QED
      BY <1>1, <2>1, <2>4, <2>5, <3>1, TwoChanges DEF c
  <2>7. Forked(p, c)
    BY <1>1, <2>1, <2>4, <2>5, <2>6 DEF Forked
  <2>8. \/ /\ Takes(p, "fork second", <<>>)
           /\ proc'[p].jobs = proc[p].jobs \union {step.pid, c}
        \/ Takes(p, "fork second", waits) /\ proc'[p].jobs = proc[p].jobs
    BY <1>1, <1>2, <2>2, <2>5, <2>6 DEF Takes, step
  <2>9. TypeOK'
    BY <1>4, <2>1, <2>6 DEF TypeOK
  <2>10. /\ proc'[p].fds = [proc[p].fds EXCEPT ![pipe[1]] = None, ![pipe[2]] = None]
         /\ proc'[c].state = "shell" /\ proc'[c].fds = proc[p].fds
         /\ proc'[c].side = ReadEnd(step.k) /\ proc'[c].todo = steps
    BY <2>3, <2>4, <2>5, <2>6
  <2> QED
    BY <1>1, <1>3, <1>4, <2>1, <2>7, <2>8, <2>9, <2>10 DEF waits, steps, step
<1> QED
  BY <1>5, <1>6, <1>7

LEMMA RedirectBackgroundDoes ==
  ASSUME TypeOK, NEW p \in Procs, RedirectBackground(p)
  PROVE  /\ TypeOK' /\ UNCHANGED <<written, pipes>>
         /\ proc[p].state = "shell" /\ proc[p].todo # <<>> /\ Step(p).op = "redirect&"
         /\ \/ ForkFailed(p, "redirect&") /\ proc'[p].fds = proc[p].fds
            \/ \E c \in Pids :
                 /\ Forked(p, c) /\ Takes(p, "redirect&", <<>>)
                 /\ proc'[p].jobs = proc[p].jobs \union {c}
                 /\ proc'[p].fds = proc[p].fds
                 /\ proc'[c].state = "shell" /\ proc'[c].fds = proc[p].fds
                 /\ proc'[c].side = proc[p].side
                 /\ proc'[c].todo = <<[op |-> "redirect", command |-> Step(p).command],
                                      [op |-> "exit"]>>
<1> DEFINE q == proc[p]
           step == Step(p)
           c == NextPid
           popped == Then(q, <<>>)
           steps == <<[op |-> "redirect", command |-> step.command], [op |-> "exit"]>>
           child == Child(q, p, steps)
           parent == addJobs(popped, {c})
<1>1. q.state = "shell" /\ q.todo # <<>> /\ step.op = "redirect&"
  BY DEF RedirectBackground, At
<1>2. q \in Process /\ step \in Steps /\ <<>> \in Seq(Steps)
  BY <1>1, HeadType, EmptySeq
<1>3. step.command \in Commands
  BY <1>1, <1>2, StepType
<1>4. UNCHANGED <<typed, pipes, written, undefined>>
  BY DEF RedirectBackground
<1>5. \/ /\ proc' = [proc EXCEPT ![c] = child, ![p] = parent]
         /\ Forks
      \/ ForkFails /\ proc' = [proc EXCEPT ![p] = popped]
  <2>1. \/ /\ proc' = [proc EXCEPT ![c] = child, ![p] = addJobs(Then(@, <<>>), {c})]
           /\ Forks
        \/ ForkFails /\ proc' = [proc EXCEPT ![p] = Then(@, <<>>)]
    BY DEF RedirectBackground
  <2>2. CASE Forks
    <3>1. c # p
      BY <1>1, <2>2, NextPidIsFree DEF Forks
    <3> QED
      BY <1>2, <2>1, <3>1
  <2> QED
    BY <2>1, <2>2
<1>6. /\ popped \in Process /\ popped.todo = <<>> \o Tail(q.todo)
      /\ popped.fds = q.fds /\ Same(popped, q)
  BY <1>1, <1>2, ThenDoes
<1> HIDE DEF step, c, popped
<1>7. CASE ForkFails /\ proc' = [proc EXCEPT ![p] = popped]
  <2>1. proc' \in [Procs -> Process] /\ proc'[p] = popped /\ OnlyChanges({p})
    BY <1>6, <1>7, OneChange
  <2>2. forkFailed' = TRUE
    BY <1>7 DEF ForkFails
  <2>3. TypeOK'
    BY <1>4, <2>1, <2>2 DEF TypeOK
  <2>4. ForkFailed(p, "redirect&")
    BY <1>1, <1>2, <1>6, <2>1, <2>2 DEF ForkFailed, Takes, step
  <2> QED
    BY <1>1, <1>4, <1>6, <2>1, <2>3, <2>4 DEF step
<1>8. CASE Forks /\ proc' = [proc EXCEPT ![c] = child, ![p] = parent]
  <2>1. c \in Pids /\ FreePids # {} /\ UNCHANGED forkFailed
    BY <1>8, NextPidIsFree DEF Forks, c
  <2>2. steps \in Seq(Steps)
    <3>1. /\ [op |-> "redirect", command |-> step.command] \in Steps
          /\ [op |-> "exit"] \in Steps
      BY <1>3 DEF Steps
    <3> QED
      BY <3>1, StepSequences
  <2> HIDE DEF steps
  <2>3. /\ child \in Process /\ child.parent = p /\ child.todo = steps /\ child.fds = q.fds
        /\ child.state = q.state /\ child.side = q.side
    BY <1>2, <2>2, ChildDoes
  <2>4. /\ parent \in Process /\ parent.fds = q.fds /\ parent.todo = <<>> \o Tail(q.todo)
        /\ parent.state = q.state /\ parent.parent = q.parent
        /\ parent.side = q.side /\ parent.background = q.background
        /\ parent.jobs = q.jobs \union {c}
    <3>1. {c} \in SUBSET Pids
      BY <2>1
    <3> QED
      BY <1>6, <3>1, addJobsDoes DEF Same
  <2> HIDE DEF parent, child
  <2>5. /\ proc' \in [Procs -> Process] /\ proc'[p] = parent /\ proc'[c] = child
        /\ OnlyChanges({p, c}) /\ c \in Procs /\ c # p /\ c # Smash /\ proc[c].state = "none"
    <3>1. proc' = [proc EXCEPT ![NextPid] = child, ![p] = parent]
      BY <1>8 DEF c
    <3> QED
      BY <1>1, <2>1, <2>3, <2>4, <3>1, TwoChanges DEF c
  <2>6. Forked(p, c) /\ Takes(p, "redirect&", <<>>)
    BY <1>1, <1>2, <2>1, <2>3, <2>4, <2>5 DEF Forked, Takes, step
  <2>7. TypeOK'
    BY <1>4, <2>1, <2>5 DEF TypeOK
  <2> QED
    BY <1>1, <1>4, <2>1, <2>3, <2>4, <2>5, <2>6, <2>7 DEF steps, step
<1> QED
  BY <1>5, <1>7, <1>8

LEMMA runForegroundDoes ==
  ASSUME TypeOK, NEW p \in Procs, runForegroundExternalCommand(p)
  PROVE  /\ TypeOK' /\ UNCHANGED <<written, pipes>>
         /\ proc[p].state = "shell" /\ proc[p].todo # <<>> /\ Step(p).op = "execute"
         /\ \/ ForkFailed(p, "execute") /\ proc'[p].fds = proc[p].fds
            \/ \E c \in Pids :
                 /\ Forked(p, c) /\ Takes(p, "execute", <<[op |-> "wait", pid |-> c]>>)
                 /\ proc'[p].jobs = proc[p].jobs
                 /\ proc'[p].fds = proc[p].fds
                 /\ proc'[c].state = "program" /\ ~proc'[c].background
                 /\ proc'[c].fds = proc[p].fds /\ proc'[c].side = proc[p].side
                 /\ proc'[c].todo = <<>>
<1> DEFINE q == proc[p]
           step == Step(p)
           c == NextPid
           popped == Then(q, <<>>)
           waits == <<[op |-> "wait", pid |-> c]>>
           parent == Then(q, waits)
           child == Program(Child(q, p, <<>>), step.command, FALSE)
<1>1. q.state = "shell" /\ q.todo # <<>> /\ step.op = "execute" /\ step.command # <<>>
  BY DEF runForegroundExternalCommand, External, At
<1>2. q \in Process /\ step \in Steps /\ <<>> \in Seq(Steps)
  BY <1>1, HeadType, EmptySeq
<1>3. step.command \in Commands \ {<<>>}
  BY <1>1, <1>2, StepType
<1>4. UNCHANGED <<typed, pipes, written, undefined>>
  BY DEF runForegroundExternalCommand
<1>5. \/ /\ proc' = [proc EXCEPT ![c] = child, ![p] = parent]
         /\ Forks
      \/ ForkFails /\ proc' = [proc EXCEPT ![p] = popped]
  <2>1. \/ /\ proc' = [proc EXCEPT ![c] = child, ![p] = Then(@, waits)]
           /\ Forks
        \/ ForkFails /\ proc' = [proc EXCEPT ![p] = Then(@, <<>>)]
    BY DEF runForegroundExternalCommand
  <2>2. CASE Forks
    <3>1. c # p
      BY <1>1, <2>2, NextPidIsFree DEF Forks
    <3> QED
      BY <1>2, <2>1, <3>1
  <2> QED
    BY <2>1, <2>2
<1> HIDE DEF step, c
<1>6. CASE ForkFails /\ proc' = [proc EXCEPT ![p] = popped]
  <2>1. /\ popped \in Process /\ popped.todo = <<>> \o Tail(q.todo)
        /\ popped.fds = q.fds /\ Same(popped, q)
    BY <1>1, <1>2, ThenDoes
  <2> HIDE DEF popped
  <2>2. proc' \in [Procs -> Process] /\ proc'[p] = popped /\ OnlyChanges({p})
    BY <1>6, <2>1, OneChange
  <2>3. forkFailed' = TRUE
    BY <1>6 DEF ForkFails
  <2>4. TypeOK'
    BY <1>4, <2>2, <2>3 DEF TypeOK
  <2>5. ForkFailed(p, "execute")
    BY <1>1, <1>2, <2>1, <2>2, <2>3 DEF ForkFailed, Takes, step
  <2> QED
    BY <1>1, <1>4, <2>1, <2>2, <2>4, <2>5 DEF step
<1>7. CASE Forks /\ proc' = [proc EXCEPT ![c] = child, ![p] = parent]
  <2>1. c \in Pids /\ FreePids # {} /\ UNCHANGED forkFailed
    BY <1>7, NextPidIsFree DEF Forks, c
  <2>2. waits \in Seq(Steps)
    <3>1. [op |-> "wait", pid |-> c] \in Steps
      BY <2>1 DEF Steps
    <3> QED
      BY <3>1, StepSequences
  <2>3. /\ child \in Process /\ child.parent = p /\ child.todo = <<>> /\ child.fds = q.fds
        /\ child.state = "program" /\ child.side = q.side /\ child.background = FALSE
    <3> DEFINE d == Child(q, p, <<>>)
    <3>1. d \in Process /\ d.parent = p /\ d.fds = q.fds /\ d.side = q.side
      BY <1>2, ChildDoes
    <3> HIDE DEF d
    <3>2. LET r == Program(d, step.command, FALSE) IN
            /\ r \in Process /\ r.state = "program" /\ r.todo = <<>> /\ r.background = FALSE
            /\ r.fds = d.fds /\ r.side = d.side /\ r.parent = d.parent
      BY <1>3, <3>1, ProgramDoes
    <3> QED
      BY <3>1, <3>2 DEF d
  <2> HIDE DEF waits
  <2>4. /\ parent \in Process /\ parent.todo = waits \o Tail(q.todo)
        /\ parent.fds = q.fds /\ Same(parent, q)
    BY <1>1, <1>2, <2>2, ThenDoes
  <2> HIDE DEF parent, child
  <2>5. /\ proc' \in [Procs -> Process] /\ proc'[p] = parent /\ proc'[c] = child
        /\ OnlyChanges({p, c}) /\ c \in Procs /\ c # p /\ c # Smash /\ proc[c].state = "none"
    <3>1. proc' = [proc EXCEPT ![NextPid] = child, ![p] = parent]
      BY <1>7 DEF c
    <3> QED
      BY <1>1, <2>1, <2>3, <2>4, <3>1, TwoChanges DEF c
  <2>6. Forked(p, c) /\ proc'[p].jobs = proc[p].jobs
    BY <1>1, <2>1, <2>3, <2>4, <2>5 DEF Forked, Same
  <2>7. Takes(p, "execute", waits)
    BY <1>1, <2>2, <2>4, <2>5 DEF Takes, step
  <2>8. TypeOK'
    BY <1>4, <2>1, <2>5 DEF TypeOK
  <2> QED
    BY <1>1, <1>4, <2>1, <2>3, <2>4, <2>5, <2>6, <2>7, <2>8 DEF waits, step
<1> QED
  BY <1>5, <1>6, <1>7

LEMMA runBackgroundDoes ==
  ASSUME TypeOK, NEW p \in Procs, runBackgroundExternalCommand(p)
  PROVE  /\ TypeOK' /\ UNCHANGED written
         /\ proc[p].state = "shell" /\ proc[p].todo # <<>> /\ Step(p).op = "execute"
         /\ \/ UNCHANGED <<proc, pipes, forkFailed>>
            \/ \E pipe \in Pipes : NewPipe(p, pipe) /\ ForkFailed(p, "execute")
            \/ \E c \in Pids, pipe \in Pipes :
                 /\ NewPipe(p, pipe) /\ Forked(p, c)
                 /\ Takes(p, "execute", <<[op |-> "list job", k |-> pipes + 1, pipe |-> pipe,
                                           pid |-> c]>>)
                 /\ proc'[p].jobs = proc[p].jobs
                 /\ proc'[c].state = "shell" /\ proc'[c].fds = proc'[p].fds
                 /\ proc'[c].side = proc[p].side
                 /\ proc'[c].todo = <<[op |-> "close write end", k |-> pipes + 1,
                                       pipe |-> pipe, command |-> Step(p).command]>>
<1> DEFINE q == proc[p]
           k == pipes + 1
           read == Open(q, ReadEnd(k))
           o == Open(read, WriteEnd(k))
           pipe == <<NextFd(q), NextFd(read)>>
           c == NextPid
           lists == <<[op |-> "list job", k |-> k, pipe |-> pipe, pid |-> c]>>
           steps == <<[op |-> "close write end", k |-> k, pipe |-> pipe,
                       command |-> Step(p).command]>>
           child == Child(o, p, steps)
<1>1. q.state = "shell" /\ q.todo # <<>> /\ Step(p).op = "execute" /\ Step(p).command # <<>>
  BY DEF runBackgroundExternalCommand, External, At
<1>2. /\ q \in Process /\ Step(p).command \in Commands \ {<<>>}
      /\ k \in Nat /\ <<>> \in Seq(Steps)
  <2>1. q \in Process /\ Step(p) \in Steps
    BY <1>1, HeadType
  <2>2. Step(p).command \in Commands \ {<<>>}
    BY <1>1, <2>1, StepType
  <2> QED
    BY <2>1, <2>2, EmptySeq DEF TypeOK
<1>3. CASE PipeFails(p)
  <2>1. TypeOK' /\ UNCHANGED <<proc, pipes, written, forkFailed>>
    BY <1>3 DEF PipeFails, TypeOK
  <2> QED
    BY <1>1, <2>1
<1>4. CASE Cardinality(FreeFds(q)) >= 2 /\ ~PipeFails(p)
  <2>1. /\ pipe \in Pipes /\ pipe[1] # pipe[2]
        /\ q.fds[pipe[1]] = None /\ q.fds[pipe[2]] = None
        /\ o \in Process
        /\ o.fds = [q.fds EXCEPT ![pipe[1]] = ReadEnd(k), ![pipe[2]] = WriteEnd(k)]
        /\ o.todo = q.todo /\ Same(o, q)
    <3> HIDE DEF q, k
    <3> QED
      BY <1>2, <1>4, PipeDoes
  <2>2. pipe[1] \in Fds /\ pipe[2] \in Fds
    BY <2>1 DEF Pipes
  <2>3. UNCHANGED <<typed, written, undefined>> /\ pipes' = pipes + 1
    BY <1>4 DEF runBackgroundExternalCommand
  <2>4. \/ /\ proc' = [proc EXCEPT ![c] = child, ![p] = Then(o, lists)]
           /\ Forks
        \/ ForkFails /\ proc' = [proc EXCEPT ![p] = Then(o, <<>>)]
    BY <1>4 DEF runBackgroundExternalCommand
  <2> HIDE DEF k, o, pipe, c
  <2>5. CASE ForkFails /\ proc' = [proc EXCEPT ![p] = Then(o, <<>>)]
    <3> DEFINE r == Then(o, <<>>)
    <3>1. r \in Process /\ r.todo = <<>> \o Tail(o.todo) /\ r.fds = o.fds /\ Same(r, o)
      BY <1>1, <1>2, <2>1, ThenDoes
    <3>2. Same(r, q) /\ r.todo = <<>> \o Tail(q.todo)
      BY <2>1, <3>1 DEF Same
    <3>3. proc' = [proc EXCEPT ![p] = r]
      BY <2>5
    <3> HIDE DEF r
    <3>4. proc' \in [Procs -> Process] /\ proc'[p] = r /\ OnlyChanges({p})
      BY <3>1, <3>3, OneChange
    <3>5. forkFailed' = TRUE
      BY <2>5 DEF ForkFails
    <3>6. TypeOK'
      BY <2>3, <3>4, <3>5 DEF TypeOK
    <3>7. NewPipe(p, pipe)
      BY <2>1, <2>2, <2>3, <3>1, <3>4 DEF NewPipe, k
    <3>8. ForkFailed(p, "execute")
      BY <1>1, <1>2, <3>2, <3>4, <3>5 DEF ForkFailed, Takes
    <3> QED
      BY <1>1, <2>1, <2>3, <3>6, <3>7, <3>8
  <2>6. CASE Forks /\ proc' = [proc EXCEPT ![c] = child, ![p] = Then(o, lists)]
    <3> DEFINE r == Then(o, lists)
    <3>1. c \in Pids /\ FreePids # {} /\ UNCHANGED forkFailed
      BY <2>6, NextPidIsFree DEF Forks, c
    <3>2. lists \in Seq(Steps) /\ steps \in Seq(Steps)
      <4>1. [op |-> "list job", k |-> k, pipe |-> pipe, pid |-> c] \in Steps
        BY <1>2, <2>1, <3>1 DEF Steps
      <4>2. [op |-> "close write end", k |-> k, pipe |-> pipe, command |-> Step(p).command] \in Steps
        BY <1>2, <2>1 DEF Steps
      <4> QED
        BY <4>1, <4>2, StepSequences
    <3> HIDE DEF lists, steps
    <3>3. r \in Process /\ r.todo = lists \o Tail(o.todo) /\ r.fds = o.fds /\ Same(r, o)
      BY <1>1, <2>1, <3>2, ThenDoes
    <3>4. Same(r, q) /\ r.todo = lists \o Tail(q.todo)
      BY <2>1, <3>3 DEF Same
    <3>5. /\ child \in Process /\ child.parent = p /\ child.todo = steps /\ child.fds = o.fds
          /\ child.state = "shell" /\ child.side = q.side
      <4>1. /\ child \in Process /\ child.parent = p /\ child.todo = steps
            /\ child.fds = o.fds /\ child.state = o.state /\ child.side = o.side
        BY <2>1, <3>2, ChildDoes
      <4> QED
        BY <1>1, <2>1, <4>1 DEF Same
    <3> HIDE DEF r, child
    <3>6. /\ proc' \in [Procs -> Process] /\ proc'[p] = r /\ proc'[c] = child
          /\ OnlyChanges({p, c}) /\ c \in Procs /\ c # p /\ c # Smash /\ proc[c].state = "none"
      <4>1. proc' = [proc EXCEPT ![NextPid] = child, ![p] = r]
        BY <2>6 DEF r, c
      <4> QED
        BY <1>1, <3>1, <3>3, <3>5, <4>1, TwoChanges DEF c
    <3>7. Forked(p, c) /\ proc'[p].jobs = proc[p].jobs
      BY <1>1, <3>1, <3>4, <3>5, <3>6 DEF Forked, Same
    <3>8. NewPipe(p, pipe)
      BY <2>1, <2>2, <2>3, <3>3, <3>6 DEF NewPipe, k
    <3>9. Takes(p, "execute", lists)
      BY <1>1, <3>2, <3>4, <3>6 DEF Takes
    <3>10. TypeOK'
      BY <2>3, <3>1, <3>6 DEF TypeOK
    <3>11. /\ proc'[c].state = "shell" /\ proc'[c].fds = proc'[p].fds
           /\ proc'[c].side = q.side /\ proc'[c].todo = steps
      BY <3>3, <3>5, <3>6
    <3> QED
      BY <1>1, <2>1, <2>3, <3>1, <3>7, <3>8, <3>9, <3>10, <3>11 DEF lists, steps, k
  <2> QED
    BY <2>4, <2>5, <2>6
<1> QED
  BY <1>3, <1>4 DEF runBackgroundExternalCommand

-----------------------------------------------------------------------------
(* The list, the program, the ends and the prompt.                         *)

LEMMA ListJobDoes ==
  ASSUME TypeOK, NEW p \in Procs, ListJob(p)
  PROVE  /\ TypeOK' /\ OnlyChanges({p}) /\ Takes(p, "list job", <<>>)
         /\ Step(p).pid \in Pids /\ Step(p).pipe[1] \in Fds /\ Step(p).pipe[2] \in Fds
         /\ proc'[p].state = "shell" /\ proc'[p].parent = proc[p].parent
         /\ proc'[p].side = proc[p].side /\ proc'[p].background = proc[p].background
         /\ proc'[p].jobs = proc[p].jobs \union {Step(p).pid}
         /\ proc'[p].fds = [proc[p].fds EXCEPT ![Step(p).pipe[1]] = None]
         /\ written' = written \union {Step(p).k}
         /\ UNCHANGED <<pipes, forkFailed>>
<1> DEFINE q == proc[p]
           step == Step(p)
           fd == step.pipe[1]
           c == Close(q, fd)
           r == Then(c, <<>>)
           l == addJobs(r, {step.pid})
<1>1. q.state = "shell" /\ q.todo # <<>> /\ step.op = "list job"
  BY DEF ListJob, At
<1>2. q \in Process /\ step \in Steps /\ <<>> \in Seq(Steps)
  BY <1>1, HeadType, EmptySeq
<1>3. step.pid \in Pids /\ step.k \in Nat /\ fd \in Fds /\ step.pipe[2] \in Fds
  BY <1>1, <1>2, StepType
<1>4. c \in Process /\ c.todo = q.todo /\ Same(c, q) /\ c.fds = [q.fds EXCEPT ![fd] = None]
  BY <1>2, <1>3, CloseDoes
<1>5. r \in Process /\ r.todo = <<>> \o Tail(c.todo) /\ r.fds = c.fds /\ Same(r, c)
  BY <1>1, <1>2, <1>4, ThenDoes
<1>6. /\ proc' = [proc EXCEPT ![p] = l] /\ written' = written \union {step.k}
      /\ UNCHANGED <<typed, pipes, forkFailed, undefined>>
  BY DEF ListJob
<1> HIDE DEF r, c
<1>7. /\ l \in Process /\ l.jobs = r.jobs \union {step.pid} /\ l.fds = r.fds
      /\ l.todo = r.todo /\ l.state = r.state /\ l.parent = r.parent
      /\ l.side = r.side /\ l.background = r.background
  BY <1>3, <1>5, addJobsDoes
<1> HIDE DEF l
<1>8. proc' \in [Procs -> Process] /\ proc'[p] = l /\ OnlyChanges({p})
  BY <1>6, <1>7, OneChange
<1>9. TypeOK'
  BY <1>3, <1>6, <1>8 DEF TypeOK
<1>10. Same(r, q) /\ r.todo = <<>> \o Tail(q.todo)
  BY <1>4, <1>5 DEF Same
<1>11. Takes(p, "list job", <<>>)
  BY <1>1, <1>2, <1>7, <1>8, <1>10 DEF Takes
<1> QED
  BY <1>1, <1>3, <1>4, <1>5, <1>6, <1>7, <1>8, <1>9, <1>10, <1>11 DEF Same

LEMMA StartProgramDoes ==
  ASSUME TypeOK, NEW p \in Procs, StartProgram(p)
  PROVE  /\ TypeOK' /\ OnlyChanges({p})
         /\ proc[p].state = "shell" /\ proc[p].todo # <<>> /\ Step(p).op = "read"
         /\ ReadReturns(Step(p).k)
         /\ proc'[p].state = "program" /\ proc'[p].todo = <<>> /\ proc'[p].background
         /\ proc'[p].fds = proc[p].fds /\ proc'[p].jobs = proc[p].jobs
         /\ proc'[p].side = proc[p].side /\ proc'[p].parent = proc[p].parent
         /\ UNCHANGED <<pipes, written, forkFailed>>
<1> DEFINE q == proc[p]
           step == Step(p)
           r == Program(q, step.command, TRUE)
<1>1. q.state = "shell" /\ q.todo # <<>> /\ step.op = "read" /\ ReadReturns(step.k)
  BY DEF StartProgram, At
<1>2. q \in Process /\ step \in Steps
  BY <1>1, HeadType
<1>3. step.command \in Commands \ {<<>>}
  BY <1>1, <1>2, StepType
<1>4. /\ r \in Process /\ r.state = "program" /\ r.todo = <<>> /\ r.background = TRUE
      /\ r.fds = q.fds /\ r.jobs = q.jobs /\ r.side = q.side /\ r.parent = q.parent
  BY <1>2, <1>3, ProgramDoes
<1>5. proc' = [proc EXCEPT ![p] = r] /\ UNCHANGED <<typed, pipes, written, forkFailed, undefined>>
  BY DEF StartProgram
<1> HIDE DEF r
<1>6. proc' \in [Procs -> Process] /\ proc'[p] = r /\ OnlyChanges({p})
  BY <1>4, <1>5, OneChange
<1> QED
  BY <1>1, <1>4, <1>5, <1>6 DEF TypeOK

(* Nothing is left of q but, of a zombie, whose child it was. *)
Gone(q) ==
  /\ proc'[q].state \in {"none", "zombie", "exited"}
  /\ proc'[q].todo = <<>> /\ proc'[q].jobs = {} /\ proc'[q].side = None
  /\ proc'[q].fds = [fd \in Fds |-> None]

(* q has ended, and now somebody has waited for it. *)
Reaps(q) == proc[q].state = "zombie" /\ Gone(q) /\ proc'[q].state = "none"

ChildOf(q, p) == proc[q].state # "none" /\ q # Smash /\ proc[q].parent = p

(* q is as it was, but init has adopted it. *)
Adopted(q) ==
  /\ proc'[q].parent = InitPid
  /\ proc'[q].state = proc[q].state /\ proc'[q].todo = proc[q].todo
  /\ proc'[q].fds = proc[q].fds /\ proc'[q].jobs = proc[q].jobs
  /\ proc'[q].side = proc[q].side /\ proc'[q].background = proc[q].background

LEMMA NoProcType ==
  /\ NoProc \in Process /\ NoProc.state = "none" /\ NoProc.todo = <<>> /\ NoProc.jobs = {}
  /\ NoProc.side = None /\ NoProc.fds = [fd \in Fds |-> None] /\ NoProc.parent = Smash
<1>1. "none" \in Alive \union {"none", "zombie", "exited"} /\ "" \in Words
  BY DEF Words
<1>2. [fd \in Fds |-> None] \in [Fds -> Files]
  BY FilesType
<1>3. <<>> \in Seq(Steps) /\ {} \in SUBSET Pids /\ FALSE \in BOOLEAN
  BY EmptySeq
<1>4. NoProc \in Process
  BY <1>1, <1>2, <1>3, FilesType, ProcsType DEF NoProc, Process
<1> QED
  BY <1>4 DEF NoProc

LEMMA EndedDoes ==
  ASSUME TypeOK, NEW p \in Procs, proc' = Ended(p),
         UNCHANGED <<typed, pipes, written, forkFailed, undefined>>
  PROVE  /\ TypeOK' /\ Gone(p) /\ (proc'[p].state = "exited" => p = Smash)
         /\ \/ proc'[p].state = "none"
            \/ proc[p].parent # InitPid /\ proc'[p].parent = proc[p].parent
         /\ \A q \in Procs \ {p} :
              \/ ~ChildOf(q, p) /\ proc'[q] = proc[q]
              \/ ChildOf(q, p) /\ Reaps(q)
              \/ ChildOf(q, p) /\ Adopted(q)
<1> DEFINE end == [NoProc EXCEPT !.state = IF p = Smash THEN "exited" ELSE "zombie",
                                 !.parent = proc[p].parent]
<1>1. proc[p] \in Process /\ \A q \in Procs : proc[q] \in Process
  BY DEF TypeOK
<1>2. /\ end \in Process /\ end.state = (IF p = Smash THEN "exited" ELSE "zombie")
      /\ end.parent = proc[p].parent /\ end.todo = <<>> /\ end.jobs = {}
      /\ end.side = None /\ end.fds = [fd \in Fds |-> None]
  <2>1. proc[p].parent \in Procs \union {InitPid}
    BY <1>1 DEF Process
  <2>2. (IF p = Smash THEN "exited" ELSE "zombie") \in Alive \union {"none", "zombie", "exited"}
    OBVIOUS
  <2> QED
    BY <2>1, <2>2, NoProcType DEF Process
<1> HIDE DEF end
<1>3. proc'[p] = IF proc[p].parent = InitPid THEN NoProc ELSE end
  BY DEF Ended, end
<1>4. Gone(p) /\ (proc'[p].state = "exited" => p = Smash) /\ proc'[p] \in Process
  BY <1>2, <1>3, NoProcType DEF Gone
<1>5. proc'[p].state = "none" \/ (proc[p].parent # InitPid /\ proc'[p].parent = proc[p].parent)
  BY <1>2, <1>3, NoProcType
<1>6. ASSUME NEW q \in Procs \ {p}
      PROVE  /\ \/ ~ChildOf(q, p) /\ proc'[q] = proc[q]
                \/ ChildOf(q, p) /\ Reaps(q)
                \/ ChildOf(q, p) /\ Adopted(q)
             /\ proc'[q] \in Process
  <2>1. CASE ~ChildOf(q, p)
    BY <1>1, <2>1 DEF Ended, ChildOf
  <2>2. CASE ChildOf(q, p) /\ proc[q].state = "zombie"
    <3>1. proc'[q] = NoProc
      BY <2>2 DEF Ended, ChildOf
    <3> QED
      BY <2>2, <3>1, NoProcType DEF Gone, Reaps
  <2>3. CASE ChildOf(q, p) /\ proc[q].state # "zombie"
    <3>1. proc'[q] = [proc[q] EXCEPT !.parent = InitPid]
      BY <2>3 DEF Ended, ChildOf
    <3>2. proc'[q] \in Process /\ Adopted(q)
      BY <1>1, <3>1 DEF Adopted, Process
    <3> QED
      BY <2>3, <3>2
  <2> QED
    BY <2>1, <2>2, <2>3
<1>7. proc' \in [Procs -> Process]
  <2>1. \A q \in Procs : proc'[q] \in Process
    BY <1>4, <1>6
  <2>2. proc' = [q \in Procs |-> proc'[q]]
    BY DEF Ended
  <2> QED
    BY <2>1, <2>2
<1>8. TypeOK'
  BY <1>7 DEF TypeOK
<1> QED
  BY <1>4, <1>5, <1>6, <1>8

LEMMA WaitDoes ==
  ASSUME TypeOK, NEW p \in Procs, Wait(p)
  PROVE  LET c == Step(p).pid IN
         /\ TypeOK' /\ OnlyChanges({p, c}) /\ Takes(p, "wait", <<>>)
         /\ Same(proc'[p], proc[p]) /\ proc'[p].fds = proc[p].fds
         /\ c \in Pids /\ c \in Procs /\ c # p /\ proc[c].state = "zombie"
         /\ Gone(c) /\ proc'[c].state = "none"
         /\ UNCHANGED <<pipes, written, forkFailed>>
<1> DEFINE q == proc[p]
           c == Step(p).pid
           popped == Then(q, <<>>)
<1>1. q.state = "shell" /\ q.todo # <<>> /\ Step(p).op = "wait" /\ proc[c].state = "zombie"
  BY DEF Wait, At
<1>2. q \in Process /\ Step(p) \in Steps /\ <<>> \in Seq(Steps)
  BY <1>1, HeadType, EmptySeq
<1>3. c \in Pids /\ c \in Procs /\ c # p
  BY <1>1, <1>2, StepType, ProcsType
<1>4. /\ popped \in Process /\ popped.todo = <<>> \o Tail(q.todo)
      /\ popped.fds = q.fds /\ Same(popped, q)
  BY <1>1, <1>2, ThenDoes
<1>5. /\ proc' = Reaped([proc EXCEPT ![p] = popped], {c})
      /\ UNCHANGED <<typed, pipes, written, forkFailed, undefined>>
  BY DEF Wait
<1> HIDE DEF popped, c
<1>6. proc' = [r \in Procs |-> IF r = c THEN NoProc ELSE IF r = p THEN popped ELSE proc[r]]
  BY <1>5 DEF Reaped, TypeOK
<1>7. proc'[p] = popped /\ proc'[c] = NoProc /\ OnlyChanges({p, c})
  BY <1>3, <1>6 DEF OnlyChanges
<1>8. proc' \in [Procs -> Process]
  BY <1>4, <1>6, NoProcType DEF TypeOK
<1>9. TypeOK' /\ Gone(c) /\ proc'[c].state = "none"
  BY <1>5, <1>7, <1>8, NoProcType DEF TypeOK, Gone
<1>10. Takes(p, "wait", <<>>)
  BY <1>1, <1>2, <1>4, <1>7 DEF Takes
<1> QED
  BY <1>1, <1>3, <1>4, <1>5, <1>7, <1>9, <1>10 DEF c

(* A line and its parts are sequences of words. *)
LEMMA LinesType == Lines \subseteq Commands
<1> SUFFICES ASSUME NEW line \in Lines PROVE line \in Seq(Words)
  BY DEF Commands
<1>1. line \in Seq(STRING)
  BY CommandsAssumption
<1>2. \A i \in 1 .. Len(line) : line[i] \in Words
  <2> SUFFICES ASSUME NEW i \in 1 .. Len(line) PROVE line[i] \in Words
    OBVIOUS
  <2>1. line[i] \in ToSet(line)
    BY <1>1 DEF ToSet
  <2> QED
    BY <2>1 DEF Words
<1> QED
  BY <1>1, <1>2

LEMMA PlaceType ==
  ASSUME NEW line \in Commands, NEW w
  PROVE  Place(line, w) \in 0 .. Len(line)
<1> DEFINE I == {i \in 1 .. Len(line) : line[i] = w}
<1>1. Place(line, w) = IF I # {} THEN Min(I) ELSE 0
  BY DEF Place, SelectInSeq
<1>2. Len(line) \in Nat
  BY DEF Commands
<1>3. I \subseteq Nat /\ I \subseteq 1 .. Len(line)
  BY <1>2
<1> HIDE DEF I
<1>4. I # {} => Min(I) \in I
  BY <1>3, MinIsMember
<1>5. CASE I # {}
  <2>1. Place(line, w) \in I
    BY <1>1, <1>4, <1>5
  <2>2. Place(line, w) \in 1 .. Len(line)
    BY <1>3, <2>1
  <2> QED
    BY <1>2, <2>2
<1>6. CASE I = {}
  BY <1>1, <1>2, <1>6
<1> QED
  BY <1>5, <1>6

LEMMA PartsType ==
  ASSUME NEW line \in Commands, NEW w
  PROVE  Before(line, w) \in Commands /\ After(line, w) \in Commands
<1> DEFINE n == Place(line, w)
<1>1. n \in 0 .. Len(line) /\ Len(line) \in Nat
  <2>1. n \in 0 .. Len(line)
    BY PlaceType
  <2> QED
    BY <2>1 DEF Commands
<1>2. Before(line, w) = SubSeq(line, 1, n - 1) /\ After(line, w) = SubSeq(line, n + 1, Len(line))
  BY DEF Before, After
<1> HIDE DEF n
<1>3. \A i \in 1 .. Len(line) : line[i] \in Words
  BY DEF Commands
<1>4. SubSeq(line, 1, n - 1) \in Seq(Words)
  BY <1>1, <1>3, SubSeqProperties
<1>5. SubSeq(line, n + 1, Len(line)) \in Seq(Words)
  BY <1>1, <1>3, SubSeqProperties
<1> QED
  BY <1>2, <1>4, <1>5 DEF Commands

LEMMA TrimmedType ==
  ASSUME NEW line \in Commands, line # <<>>
  PROVE  removeTrailingBackgroundChar(line) \in Commands
<1>1. Len(line) \in Nat /\ Len(line) >= 1 /\ \A i \in 1 .. Len(line) : line[i] \in Words
  BY EmptySeq DEF Commands
<1>2. SubSeq(line, 1, Len(line) - 1) \in Seq(Words)
  BY <1>1, SubSeqProperties
<1> QED
  BY <1>2 DEF removeTrailingBackgroundChar, Front, Commands

LEMMA SplitType ==
  ASSUME NEW line \in Commands, line # <<>>
  PROVE  withoutLastDelimiter(line) \in Commands
<1>1. Len(line) \in Nat /\ Len(line) >= 1 /\ \A i \in 1 .. Len(line) : line[i] \in Words
  BY EmptySeq DEF Commands
<1>2. SubSeq(line, 1, Len(line) - 1) \in Seq(Words)
  BY <1>1, SubSeqProperties
<1> QED
  BY <1>2 DEF withoutLastDelimiter, Front, Commands

LineOps == {"pipe", "redirect", "redirect&", "execute"}

LEMMA DispatchDoes ==
  ASSUME NEW line \in Lines
  PROVE  \/ line = <<>> /\ Dispatch(line) = <<>>
         \/ line # <<>> /\ \E s \in Steps : s.op \in LineOps /\ Dispatch(line) = <<s>>
<1>1. line \in Commands
  BY LinesType
<1>2. CASE line = <<>>
  <2>1. Len(line) = 0
    BY <1>2
  <2>2. ~isPipeCommand(line)
    BY <1>2 DEF isPipeCommand
  <2>3. ~isRedirectionCommand(line)
    BY <2>1 DEF isRedirectionCommand, Contains
  <2> QED
    BY <1>2, <2>2, <2>3 DEF Dispatch
<1>3. CASE line # <<>> /\ isPipeCommand(line)
  <2> DEFINE whole == withoutLastDelimiter(line)
             s == [op |-> "pipe", first |-> Before(line, "|"), second |-> After(whole, "|")]
  <2>1. s \in Steps
    <3>1. whole \in Commands
      BY <1>1, <1>3, SplitType
    <3> HIDE DEF whole
    <3> QED
      BY <1>1, <3>1, PartsType DEF Steps
  <2>2. Dispatch(line) = <<s>>
    BY <1>3 DEF Dispatch
  <2> QED
    BY <1>3, <2>1, <2>2 DEF LineOps
<1>4. CASE line # <<>> /\ ~isPipeCommand(line) /\ isRedirectionCommand(line)
  <2> DEFINE command == Before(removeTrailingBackgroundChar(line), ">")
             s == [op |-> IF isBackgroundCommand(line) THEN "redirect&" ELSE "redirect",
                   command |-> command]
  <2>1. command \in Commands
    BY <1>1, <1>4, TrimmedType, PartsType
  <2>2. Dispatch(line) = <<s>>
    BY <1>4 DEF Dispatch
  <2> HIDE DEF command
  <2>3. s \in Steps /\ s.op \in LineOps
    BY <2>1 DEF Steps, LineOps
  <2> QED
    BY <1>4, <2>2, <2>3
<1>5. CASE line # <<>> /\ ~isPipeCommand(line) /\ ~isRedirectionCommand(line)
  <2> DEFINE s == [op |-> "execute", command |-> line]
  <2>1. s \in Steps
    BY <1>1 DEF Steps
  <2>2. Dispatch(line) = <<s>>
    BY <1>5 DEF Dispatch
  <2> QED
    BY <1>5, <2>1, <2>2 DEF LineOps
<1> QED
  BY <1>2, <1>3, <1>4, <1>5

(* The stack of a new line. *)
LEMMA ReadLineDoes ==
  ASSUME TypeOK, ReadLine
  PROVE  /\ TypeOK'
         /\ proc[Smash].state = "shell" /\ proc[Smash].todo = <<>>
         /\ proc'[Smash].state = "shell" /\ proc'[Smash].parent = proc[Smash].parent
         /\ proc'[Smash].side = proc[Smash].side
         /\ proc'[Smash].background = proc[Smash].background
         /\ proc'[Smash].fds = proc[Smash].fds
         /\ proc'[Smash].jobs = proc[Smash].jobs \ Finished
         /\ proc'[Smash].todo \in Seq(Steps)
         /\ \A i \in 1 .. Len(proc'[Smash].todo) :
              proc'[Smash].todo[i].op \in IF i = 1 THEN LineOps ELSE {"quit"}
         /\ \A q \in Procs \ {Smash} :
              \/ q \notin Finished /\ proc'[q] = proc[q]
              \/ q \in Finished /\ proc[q].state = "zombie" /\ Gone(q) /\ proc'[q].state = "none"
         /\ UNCHANGED <<pipes, written, forkFailed>>
<1> DEFINE q == proc[Smash]
<1>1. /\ q.state = "shell" /\ q.todo = <<>> /\ typed \in Nat
      /\ typed' = typed + 1 /\ UNCHANGED <<pipes, written, forkFailed, undefined>>
  BY DEF ReadLine, TypeOK
<1>2. PICK line \in Lines :
        proc' = Reaped([proc EXCEPT
                  ![Smash].jobs = @ \ Finished,
                  ![Smash].todo =
                    Dispatch(line) \o
                    IF line # <<>> /\ line[1] = "quit" THEN <<[op |-> "quit"]>> ELSE <<>>],
                Finished)
  BY DEF ReadLine
<1> DEFINE quit == IF line # <<>> /\ line[1] = "quit" THEN <<[op |-> "quit"]>> ELSE <<>>
           todo == Dispatch(line) \o quit
           r == [q EXCEPT !.jobs = @ \ Finished, !.todo = todo]
<1>3. /\ todo \in Seq(Steps)
      /\ \A i \in 1 .. Len(todo) : todo[i].op \in IF i = 1 THEN LineOps ELSE {"quit"}
  <2>1. [op |-> "quit"] \in Steps
    BY DEF Steps
  <2>2. CASE line = <<>>
    <3>1. todo = <<>> \o <<>>
      BY <2>2, DispatchDoes
    <3>2. todo = <<>>
      BY <3>1, ConcatEmptySeq, EmptySeq
    <3> HIDE DEF todo
    <3> QED
      BY <3>2, EmptySeq
  <2>3. CASE line # <<>>
    <3>1. PICK s \in Steps : s.op \in LineOps /\ Dispatch(line) = <<s>>
      BY <2>3, DispatchDoes
    <3>2. CASE line[1] = "quit"
      <4> DEFINE t == [op |-> "quit"]
      <4>1. todo = <<s>> \o <<t>>
        BY <2>3, <3>1, <3>2
      <4>2. <<s>> \in Seq(Steps) /\ <<t>> \in Seq(Steps)
        BY <2>1, StepSequences
      <4> HIDE DEF todo
      <4>3. /\ todo \in Seq(Steps) /\ Len(todo) = 2
            /\ \A i \in 1 .. 2 : todo[i] = IF i <= 1 THEN <<s>>[i] ELSE <<t>>[i - 1]
        BY <4>1, <4>2, ConcatProperties
      <4>4. todo[1] = s /\ todo[2] = t
        BY <4>3
      <4> QED
        BY <3>1, <4>3, <4>4
    <3>3. CASE line[1] # "quit"
      <4>1. todo = <<s>> \o <<>>
        BY <3>1, <3>3
      <4> HIDE DEF todo
      <4>2. <<s>> \in Seq(Steps)
        BY StepSequences
      <4>3. todo = <<s>>
        BY <4>1, <4>2, ConcatEmptySeq
      <4>4. todo \in Seq(Steps) /\ Len(todo) = 1 /\ todo[1] = s
        BY <4>2, <4>3
      <4> QED
        BY <3>1, <4>4
    <3> QED
      BY <3>2, <3>3
  <2> QED
    BY <2>2, <2>3
<1> HIDE DEF todo
<1>4. q \in Process /\ Smash \in Procs /\ Smash \notin Finished
  BY <1>1, ProcsType DEF TypeOK, Finished
<1>5. /\ r \in Process /\ r.todo = todo /\ r.fds = q.fds /\ r.jobs = q.jobs \ Finished
      /\ r.state = q.state /\ r.parent = q.parent /\ r.side = q.side
      /\ r.background = q.background
  BY <1>3, <1>4 DEF Process
<1>6. proc' = [p \in Procs |-> IF p \in Finished THEN NoProc ELSE IF p = Smash THEN r ELSE proc[p]]
  <2>1. [proc EXCEPT ![Smash].jobs = @ \ Finished, ![Smash].todo = todo] =
        [p \in Procs |-> IF p = Smash THEN r ELSE proc[p]]
    BY <1>4 DEF TypeOK
  <2> QED
    BY <1>2, <2>1 DEF Reaped, todo
<1> HIDE DEF r, quit
<1>7. proc' \in [Procs -> Process] /\ proc'[Smash] = r
  BY <1>4, <1>5, <1>6, NoProcType DEF TypeOK
<1>8. TypeOK'
  BY <1>1, <1>7 DEF TypeOK
<1>9. ASSUME NEW p \in Procs \ {Smash}
      PROVE  \/ p \notin Finished /\ proc'[p] = proc[p]
             \/ p \in Finished /\ proc[p].state = "zombie" /\ Gone(p) /\ proc'[p].state = "none"
  <2>1. CASE p \in Finished
    <3>1. proc'[p] = NoProc /\ proc[p].state = "zombie"
      BY <1>6, <2>1 DEF Finished
    <3> QED
      BY <2>1, <3>1, NoProcType DEF Gone
  <2>2. CASE p \notin Finished
    BY <1>6, <2>2
  <2> QED
    BY <2>1, <2>2
<1>10. /\ proc'[Smash].state = q.state /\ proc'[Smash].parent = q.parent
       /\ proc'[Smash].side = q.side /\ proc'[Smash].background = q.background
  BY <1>5, <1>7
<1> QED
  BY <1>1, <1>3, <1>5, <1>7, <1>8, <1>9, <1>10

-----------------------------------------------------------------------------
(* The inductive invariant.                                                *)

(* The head of p's stack, whether or not p can carry it out. *)
Doing(p, op) == proc[p].todo # <<>> /\ Step(p).op = op

LaterOps == {"execute", "exit", "restore", "wait", "quit"}
ShellOps == {"pipe", "fork second", "quit", "redirect&"}
ChildOps == {"stdout to pipe", "stdin from pipe", "close write end", "read", "exit"}

(* What p may have to do as the i-th of its steps: only the first can be   *)
(* in the middle of a command; pipes are made by the shell itself, and the *)
(* code between a fork and a program is that of a child.                   *)
Fits(p, i, op) ==
  /\ i >= 2 => op \in LaterOps
  /\ op \in ShellOps => p = Smash
  /\ op \in ChildOps => p # Smash

StackFits(p, todo) == \A i \in 1 .. Len(todo) : Fits(p, i, todo[i].op)

Shape ==
  /\ \A p \in Procs : proc[p].todo # <<>> => proc[p].state = "shell"
  /\ \A p \in Procs : StackFits(p, proc[p].todo)
  /\ proc[Smash].side = None

(* Numbers of pipes are given out once. *)
Numbered ==
  /\ \A k \in written : k <= pipes
  /\ \A p \in Procs : proc[p].side[2] <= pipes
  /\ \A p \in Procs, fd \in Fds : proc[p].fds[fd][2] <= pipes
  /\ \A p \in Procs, op \in {"fork second", "list job"} : Doing(p, op) => Step(p).k <= pipes

(* The children that a stack has to wait for or to list. *)
PendingOps == {"wait", "fork second", "list job"}
Pending(todo) == {todo[i].pid : i \in {j \in 1 .. Len(todo) : todo[j].op \in PendingOps}}

ChildrenKnown ==
  (proc[Smash].state = "shell" /\ ~forkFailed) =>
    \A p \in Pids : proc[p].state # "none" /\ proc[p].parent = Smash =>
      p \in proc[Smash].jobs \union Pending(proc[Smash].todo)

(* A parent that is not init is there. *)
ParentLives(p) ==
  proc[p].state # "none" /\ proc[p].parent # InitPid =>
    proc[p].parent # p /\ proc[proc[p].parent].state \in Alive

ParentsLive == \A p \in Pids : ParentLives(p)

(* A shell that is about to list a job holds the writing end of a          *)
(* handshake that nobody has used.                                         *)
Handshakes ==
  /\ \A p \in Procs : Doing(p, "list job") =>
       /\ Step(p).k \notin written
       /\ proc[p].fds[Step(p).pipe[2]] = WriteEnd(Step(p).k)
       /\ Step(p).pipe[1] # Step(p).pipe[2]
  /\ \A p, q \in Procs :
       Doing(p, "list job") /\ Doing(q, "list job") /\ Step(p).k = Step(q).k => p = q

Listing(p, c, k) ==
  Doing(p, "list job") /\ Step(p).pid = c /\ Step(p).k = k

(* A child that waits for its handshake is listed or about to be. *)
Starting(c) == Doing(c, "close write end") \/ Doing(c, "read")

StartersKnown ==
  \A c \in Pids : Starting(c) /\ proc[c].parent # InitPid =>
    \/ c \in proc[proc[c].parent].jobs
    \/ Listing(proc[c].parent, c, Step(c).k)

(* Who may hold the writing end of a pipe that has a second command. *)
MayHold(w, fd, k) ==
  \/ proc[w].side = WriteEnd(k)
  \/ Doing(w, "stdin from pipe") /\ Step(w).pipe[2] = fd

SecondsKnown ==
  \A p, w \in Procs, fd \in Fds :
    proc[p].side[1] = "read" /\ proc[w].fds[fd] = WriteEnd(proc[p].side[2]) =>
      MayHold(w, fd, proc[p].side[2])

FirstsKnown ==
  Doing(Smash, "fork second") =>
    /\ proc[Smash].fds[Step(Smash).pipe[1]] = ReadEnd(Step(Smash).k)
    /\ \A w \in Procs, fd \in Fds :
         proc[w].fds[fd] = WriteEnd(Step(Smash).k) =>
           \/ proc[w].side = WriteEnd(Step(Smash).k)
           \/ w = Smash /\ fd = Step(Smash).pipe[2]

ReadersKnown ==
  \A p \in Procs : Doing(p, "stdin from pipe") => proc[p].fds[Step(p).pipe[1]][1] = "read"

WritersKnown == SecondsKnown /\ FirstsKnown /\ ReadersKnown

(* The descriptors of the command under way. *)
InUse ==
  IF Doing(Smash, "fork second") \/ Doing(Smash, "list job")
    THEN {Step(Smash).pipe[1], Step(Smash).pipe[2]}
    ELSE {}

Restores == {i \in 1 .. Len(proc[Smash].todo) : proc[Smash].todo[i].op = "restore"}

AtMostOne(S) == \A x, y \in S : x = y

(* The shell's descriptors are f, w the pipes that are written, u those in *)
(* use.                                                                    *)
Free(f) == {fd \in Fds : f[fd] = None}

LeftOpen(file, w) == file \in {None, Tty, Directory} \/ (file[1] = "write" /\ file[2] \in w)

(* What the shell has open between two commands, or while one runs. *)
Usual(f, w, u) ==
  /\ f[1] = Tty \/ (f[1] = File /\ AtMostOne(Free(f)) /\ u = {})
  /\ \A d \in Fds \ ({0, 1, 2} \union u) : LeftOpen(f[d], w) \/ (f[d] = File /\ f[1] = File)

(* What it has open while a redirected command runs. *)
Redirected(f, w, u, fd, saved) ==
  /\ f[1] = File /\ f[fd] = File /\ fd \notin {0, 1}
  /\ \/ saved = NoFd /\ Free(f) = {} /\ u = {}
     \/ /\ saved \in Fds /\ f[saved] = Tty
        /\ \A d \in Fds \ ({0, 1, 2, fd} \union u) : LeftOpen(f[d], w)
  /\ \A d \in Fds \ ({0, 1, 2} \union u) : LeftOpen(f[d], w) \/ f[d] = File

PipeHeld ==
  InUse # {} =>
    /\ proc[Smash].fds[Step(Smash).pipe[1]] = ReadEnd(Step(Smash).k)
    /\ proc[Smash].fds[Step(Smash).pipe[2]] = WriteEnd(Step(Smash).k)

RestoresKnown ==
  /\ AtMostOne(Restores)
  /\ Restores = {} => Usual(proc[Smash].fds, written, InUse)
  /\ \A i \in Restores :
       Redirected(proc[Smash].fds, written, InUse,
                  proc[Smash].todo[i].fd, proc[Smash].todo[i].saved)

StdoutKnown ==
  (proc[Smash].state = "shell" /\ ~forkFailed) =>
    /\ proc[Smash].fds[0] = Tty
    /\ PipeHeld
    /\ Doing(Smash, "fork second") \/ Doing(Smash, "redirect") \/ Doing(Smash, "pipe")
         => Restores = {}
    /\ RestoresKnown

-----------------------------------------------------------------------------
(* Stacks again: what a step does to the head, to the operations that are  *)
(* possible, and to the children that are waited for.                      *)

LEMMA TakesDoes ==
  ASSUME TypeOK, NEW p \in Procs, NEW op, NEW steps, Takes(p, op, steps)
  PROVE  LET todo == proc[p].todo
             new == proc'[p].todo
         IN
         /\ new \in Seq(Steps) /\ Len(new) = Len(steps) + Len(todo) - 1
         /\ Len(steps) \in Nat /\ Len(todo) \in Nat /\ Len(todo) >= 1
         /\ todo[1] = Step(p) /\ todo[1].op = op
         /\ \A i \in 1 .. Len(steps) : i \in 1 .. Len(new) /\ new[i] = steps[i]
         /\ \A i \in 2 .. Len(todo) :
              Len(steps) + i - 1 \in 1 .. Len(new) /\ new[Len(steps) + i - 1] = todo[i]
         /\ \A i \in 1 .. Len(new) : i > Len(steps) =>
              i - Len(steps) + 1 \in 2 .. Len(todo) /\ new[i] = todo[i - Len(steps) + 1]
<1> DEFINE todo == proc[p].todo
           new == proc'[p].todo
<1>1. /\ todo \in Seq(Steps) /\ todo # <<>> /\ todo[1] = Step(p) /\ Len(todo) >= 1
      /\ steps \in Seq(Steps) /\ new = steps \o Tail(todo) /\ todo[1].op = op
  BY HeadType DEF Takes
<1> HIDE DEF todo, new
<1>2. Pushed(todo, steps, new)
  BY <1>1, PushDoes
<1>3. Len(steps) \in Nat /\ Len(todo) \in Nat
  BY <1>1
<1>4. \A i \in 1 .. Len(steps) : i \in 1 .. Len(new)
  BY <1>1, <1>2, <1>3 DEF Pushed
<1> QED
  BY <1>1, <1>2, <1>3, <1>4 DEF todo, new, Pushed

LEMMA TakesHead ==
  ASSUME TypeOK, Shape, NEW p \in Procs, NEW op, NEW steps, Takes(p, op, steps)
  PROVE  /\ steps = <<>> => \A o : Doing(p, o)' => o \in LaterOps
         /\ steps # <<>> => proc'[p].todo # <<>> /\ Step(p)' = steps[1]
<1> DEFINE todo == proc[p].todo
           new == proc'[p].todo
<1>1. /\ new \in Seq(Steps) /\ Len(new) = Len(steps) + Len(todo) - 1
      /\ Len(steps) \in Nat /\ Len(todo) \in Nat
      /\ \A i \in 1 .. Len(steps) : i \in 1 .. Len(new) /\ new[i] = steps[i]
      /\ \A i \in 1 .. Len(new) : i > Len(steps) =>
           i - Len(steps) + 1 \in 2 .. Len(todo) /\ new[i] = todo[i - Len(steps) + 1]
  BY TakesDoes
<1>2. \A i \in 2 .. Len(todo) : todo[i].op \in LaterOps
  BY <1>1 DEF Shape, StackFits, Fits
<1>3. Doing(p, op)' = (new # <<>> /\ Head(new).op = op) /\ Step(p)' = Head(new)
  BY DEF Doing, Step
<1>4. new # <<>> => Head(new) = new[1] /\ Len(new) >= 1
  BY <1>1, EmptySeq
<1>5. ASSUME steps = <<>>, NEW o, Doing(p, o)'
      PROVE  o \in LaterOps
  <2>1. Len(steps) = 0
    BY <1>5
  <2>2. new # <<>> /\ Head(new).op = o
    BY <1>5 DEF Doing, Step
  <2> HIDE DEF new, todo
  <2>3. 1 \in 1 .. Len(new)
    BY <1>1, <1>4, <2>2
  <2>4. new[1] = todo[2] /\ 2 \in 2 .. Len(todo)
    <3>1. 1 - Len(steps) + 1 = 2 /\ 1 > Len(steps)
      BY <2>1
    <3> QED
      BY <1>1, <2>3, <3>1
  <2> QED
    BY <1>2, <1>4, <2>2, <2>4
<1>6. ASSUME steps # <<>>
      PROVE  new # <<>> /\ Step(p)' = steps[1]
  <2>1. Len(steps) >= 1
    <3>1. steps \in Seq(Steps)
      BY DEF Takes
    <3> QED
      BY <1>6, <3>1, EmptySeq
  <2>2. Len(new) >= 1 /\ new[1] = steps[1]
    BY <1>1, <2>1
  <2>3. new # <<>>
    BY <2>2, EmptySeq
  <2> QED
    BY <1>3, <1>4, <2>2, <2>3
<1> QED
  BY <1>5, <1>6

LEMMA TakesFits ==
  ASSUME TypeOK, Shape, NEW p \in Procs, NEW op, NEW steps, Takes(p, op, steps),
         StackFits(p, steps)
  PROVE  StackFits(p, proc'[p].todo)
<1> DEFINE todo == proc[p].todo
           new == proc'[p].todo
<1>1. /\ Len(steps) \in Nat /\ Len(new) \in Nat /\ Len(todo) \in Nat
      /\ \A i \in 1 .. Len(steps) : i \in 1 .. Len(new) /\ new[i] = steps[i]
      /\ \A i \in 1 .. Len(new) : i > Len(steps) =>
           i - Len(steps) + 1 \in 2 .. Len(todo) /\ new[i] = todo[i - Len(steps) + 1]
  BY TakesDoes
<1>2. StackFits(p, todo)
  BY DEF Shape
<1> HIDE DEF new, todo
<1> SUFFICES ASSUME NEW i \in 1 .. Len(new) PROVE Fits(p, i, new[i].op)
  BY DEF StackFits, new
<1>3. CASE i <= Len(steps)
  <2>1. i \in 1 .. Len(steps) /\ new[i] = steps[i]
    BY <1>1, <1>3
  <2> QED
    BY <2>1 DEF StackFits
<1>4. CASE i > Len(steps)
  <2> DEFINE j == i - Len(steps) + 1
  <2>1. j \in 2 .. Len(todo) /\ new[i] = todo[j]
    BY <1>1, <1>4
  <2> HIDE DEF j
  <2>2. j \in 1 .. Len(todo) /\ j >= 2
    BY <1>1, <2>1
  <2>3. Fits(p, j, todo[j].op)
    BY <1>2, <2>2 DEF StackFits
  <2> QED
    BY <2>1, <2>2, <2>3 DEF Fits
<1> QED
  BY <1>1, <1>3, <1>4

LEMMA TakesPending ==
  ASSUME TypeOK, NEW p \in Procs, NEW op, NEW steps, Takes(p, op, steps)
  PROVE  /\ \A i \in 1 .. Len(steps) :
              steps[i].op \in PendingOps => steps[i].pid \in Pending(proc'[p].todo)
         /\ \A c \in Pending(proc[p].todo) :
              c \in Pending(proc'[p].todo) \/ (op \in PendingOps /\ c = Step(p).pid)
<1> DEFINE todo == proc[p].todo
           new == proc'[p].todo
<1>1. /\ Len(steps) \in Nat /\ Len(new) \in Nat /\ Len(todo) \in Nat
      /\ todo[1] = Step(p) /\ todo[1].op = op
      /\ \A i \in 1 .. Len(steps) : i \in 1 .. Len(new) /\ new[i] = steps[i]
      /\ \A i \in 2 .. Len(todo) :
              Len(steps) + i - 1 \in 1 .. Len(new) /\ new[Len(steps) + i - 1] = todo[i]
  BY TakesDoes
<1> HIDE DEF new, todo
<1>2. ASSUME NEW i \in 1 .. Len(steps), steps[i].op \in PendingOps
      PROVE  steps[i].pid \in Pending(new)
  BY <1>1, <1>2 DEF Pending
<1>3. ASSUME NEW c \in Pending(todo)
      PROVE  c \in Pending(new) \/ (op \in PendingOps /\ c = Step(p).pid)
  <2>1. PICK i \in 1 .. Len(todo) : todo[i].op \in PendingOps /\ c = todo[i].pid
    BY DEF Pending
  <2>2. CASE i = 1
    BY <1>1, <2>1, <2>2
  <2>3. CASE i >= 2
    <3> DEFINE j == Len(steps) + i - 1
    <3>1. j \in 1 .. Len(new) /\ new[j] = todo[i]
      BY <1>1, <2>3
    <3> HIDE DEF j
    <3> QED
      BY <2>1, <3>1 DEF Pending
  <2> QED
    BY <1>1, <2>2, <2>3
<1> QED
  BY <1>2, <1>3 DEF new, todo

(* The redirections under way, when a step starts none and ends none. *)
LEMMA TakesRestores ==
  ASSUME TypeOK, NEW op, NEW steps, Takes(Smash, op, steps), op # "restore",
         \A i \in 1 .. Len(steps) : steps[i].op # "restore"
  PROVE  /\ Restores = {} <=> Restores' = {}
         /\ AtMostOne(Restores) => AtMostOne(Restores')
         /\ \A i \in Restores' : \E j \in Restores : proc'[Smash].todo[i] = proc[Smash].todo[j]
<1> DEFINE todo == proc[Smash].todo
           new == proc'[Smash].todo
           n == Len(steps)
<1>0. Smash \in Procs
  BY ProcsType
<1>1. /\ n \in Nat /\ Len(new) \in Nat /\ Len(todo) \in Nat
      /\ todo[1].op = op
      /\ \A i \in 1 .. n : new[i] = steps[i]
      /\ \A i \in 2 .. Len(todo) : n + i - 1 \in 1 .. Len(new) /\ new[n + i - 1] = todo[i]
      /\ \A i \in 1 .. Len(new) : i > n =>
           i - n + 1 \in 2 .. Len(todo) /\ new[i] = todo[i - n + 1]
  BY <1>0, TakesDoes
<1>2. /\ Restores = {i \in 1 .. Len(todo) : todo[i].op = "restore"}
      /\ Restores' = {i \in 1 .. Len(new) : new[i].op = "restore"}
  BY DEF Restores
<1> HIDE DEF new, todo, n
<1>3. ASSUME NEW i \in Restores'
      PROVE  i \in Int /\ i - n + 1 \in Restores /\ new[i] = todo[i - n + 1]
  <2>1. i \in 1 .. Len(new) /\ new[i].op = "restore"
    BY <1>2
  <2>2. i > n
    <3>1. CASE i <= n
      <4>1. i \in 1 .. n
        BY <1>1, <2>1, <3>1
      <4> QED
        BY <1>1, <2>1, <4>1 DEF n
    <3> QED
      BY <1>1, <2>1, <3>1
  <2>3. i - n + 1 \in 2 .. Len(todo) /\ new[i] = todo[i - n + 1]
    BY <1>1, <2>1, <2>2
  <2> QED
    BY <1>1, <1>2, <2>1, <2>3
<1>4. ASSUME NEW i \in Restores
      PROVE  n + i - 1 \in Restores'
  <2>1. i \in 1 .. Len(todo) /\ todo[i].op = "restore"
    BY <1>2
  <2>2. i \in 2 .. Len(todo)
    BY <1>1, <2>1
  <2> QED
    BY <1>1, <1>2, <2>1, <2>2
<1>5. Restores = {} <=> Restores' = {}
  BY <1>3, <1>4
<1>6. ASSUME AtMostOne(Restores) PROVE AtMostOne(Restores')
  <2> SUFFICES ASSUME NEW x \in Restores', NEW y \in Restores' PROVE x = y
    BY DEF AtMostOne
  <2>1. x - n + 1 = y - n + 1 /\ x \in Int /\ y \in Int
    BY <1>3, <1>6 DEF AtMostOne
  <2> QED
    BY <1>1, <2>1
<1> QED
  BY <1>3, <1>5, <1>6 DEF new, todo

-----------------------------------------------------------------------------
(* The steps that fork no child, list none and end nothing.                *)

(* Where the descriptors of p are from. *)
Carried(p, fd) ==
  \/ proc'[p].fds[fd] \in {None, File, Directory}
  \/ /\ pipes' = pipes + 1
     /\ proc'[p].fds[fd] \in {ReadEnd(pipes + 1), WriteEnd(pipes + 1)}
  \/ \E e \in Fds :
       /\ proc'[p].fds[fd] = proc[p].fds[e]
       /\ Doing(p, "stdin from pipe") => e # Step(p).pipe[2] \/ e = Step(p).pipe[1]

QuietSteps(p, steps) ==
  /\ \A i \in 1 .. Len(steps) :
       steps[i].op \in (IF i = 1 THEN {"execute", "read"} ELSE {"restore"})
  /\ steps # <<>> /\ steps[1].op = "read" =>
       Step(p).op = "close write end" /\ steps[1].k = Step(p).k

(* What the commands do to the descriptors of the shell. *)
OpensOne(p) ==
  /\ Takes(p, "execute", <<>>)
  /\ \/ proc'[p].fds = proc[p].fds
     \/ \E fd \in Fds : /\ proc[p].fds[fd] = None
                        /\ proc'[p].fds = [proc[p].fds EXCEPT ![fd] = Directory]

RedirectsTo(p, fd, saved) ==
  LET opened == [proc[p].fds EXCEPT ![fd] = File] IN
  /\ Takes(p, "redirect", <<[op |-> "execute", command |-> Step(p).command],
                            [op |-> "restore", fd |-> fd, saved |-> saved]>>)
  /\ proc[p].fds[fd] = None
  /\ \/ /\ saved = NoFd /\ \A d \in Fds : opened[d] # None
        /\ proc'[p].fds = [opened EXCEPT ![1] = File]
     \/ /\ saved \in Fds /\ opened[saved] = None
        /\ proc'[p].fds = [[opened EXCEPT ![saved] = opened[1]] EXCEPT ![1] = File]

Redirects(p) ==
  \/ Takes(p, "redirect", <<>>) /\ proc'[p].fds = proc[p].fds
  \/ \E fd \in Fds, saved \in Fds \union {NoFd} : RedirectsTo(p, fd, saved)

RestoresFrom(p, fd, saved) ==
  /\ Takes(p, "restore", <<>>) /\ fd \in Fds /\ saved \in Fds \union {NoFd}
  /\ \/ /\ saved = NoFd \/ proc[p].fds[saved] = None
        /\ proc'[p].fds = [proc[p].fds EXCEPT ![fd] = None]
     \/ /\ saved # NoFd /\ proc[p].fds[saved] # None
        /\ proc'[p].fds = [[proc[p].fds EXCEPT ![1] = proc[p].fds[saved]] EXCEPT ![fd] = None]

Effect(p) ==
  \/ forkFailed' = TRUE
  \/ Step(p).op \in ChildOps
  \/ OpensOne(p) \/ Redirects(p) \/ RestoresFrom(p, Step(p).fd, Step(p).saved)

Quiet(p) ==
  /\ proc[p].state = "shell" /\ proc[p].todo # <<>>
  /\ OnlyChanges({p}) /\ Same(proc'[p], proc[p])
  /\ UNCHANGED written /\ pipes' \in {pipes, pipes + 1}
  /\ forkFailed' = TRUE \/ (UNCHANGED forkFailed /\ Step(p).op \notin PendingOps)
  /\ Step(p).op # "list job"
  /\ \E steps : Takes(p, Step(p).op, steps) /\ QuietSteps(p, steps)
  /\ \A fd \in Fds : Carried(p, fd)
  /\ Effect(p)

LEMMA NoSteps == ASSUME NEW p PROVE QuietSteps(p, <<>>)
BY DEF QuietSteps

(* p's descriptors may only move when p is not about to close a pipe. *)
LEMMA CarriedOver ==
  ASSUME NEW p, ~Doing(p, "stdin from pipe"), NEW fd \in Fds,
         \/ proc'[p].fds[fd] \in {None, File, Directory}
         \/ \E e \in Fds : proc'[p].fds[fd] = proc[p].fds[e]
  PROVE  Carried(p, fd)
BY DEF Carried

LEMMA FailedForkIsQuiet ==
  ASSUME TypeOK, NEW p \in Procs, NEW op, ForkFailed(p, op), UNCHANGED written,
         op \notin {"list job", "stdin from pipe"},
         \/ UNCHANGED pipes /\ proc'[p].fds = proc[p].fds
         \/ \E pipe \in Pipes : NewPipe(p, pipe)
  PROVE  Quiet(p)
<1>1. /\ proc[p].state = "shell" /\ proc[p].todo # <<>> /\ Step(p).op = op
      /\ OnlyChanges({p}) /\ Same(proc'[p], proc[p]) /\ forkFailed' = TRUE
      /\ Takes(p, Step(p).op, <<>>)
  BY DEF ForkFailed, Takes
<1>2. pipes' \in {pipes, pipes + 1}
  BY DEF NewPipe
<1>3. ~Doing(p, "stdin from pipe")
  BY <1>1 DEF Doing
<1>4. ASSUME NEW fd \in Fds PROVE Carried(p, fd)
  <2>1. CASE proc'[p].fds = proc[p].fds
    BY <1>3, <2>1, CarriedOver
  <2>2. CASE \E pipe \in Pipes : NewPipe(p, pipe)
    <3>1. PICK pipe \in Pipes : NewPipe(p, pipe)
      BY <2>2
    <3>2. proc[p].fds \in [Fds -> Files]
      BY DEF TypeOK, Process
    <3>3. \/ proc'[p].fds[fd] = proc[p].fds[fd]
          \/ proc'[p].fds[fd] \in {ReadEnd(pipes + 1), WriteEnd(pipes + 1)}
      BY <3>1, <3>2 DEF NewPipe
    <3>4. pipes' = pipes + 1
      BY <3>1 DEF NewPipe
    <3> QED
      BY <1>3, <3>3, <3>4 DEF Carried
  <2> QED
    BY <2>1, <2>2
<1> QED
  BY <1>1, <1>2, <1>4, NoSteps DEF Quiet, Effect

LEMMA ExecuteIsQuiet ==
  ASSUME TypeOK, NEW p \in Procs,
         ExecuteNothing(p) \/ ExecutePrinting(p) \/ ExecuteCat(p) \/ ExecuteCd(p)
  PROVE  Quiet(p)
<1>1. /\ OnlyChanges({p}) /\ Takes(p, "execute", <<>>) /\ Same(proc'[p], proc[p])
      /\ UNCHANGED <<pipes, written, forkFailed>>
  BY ExecuteDoes
<1>2. \/ proc'[p].fds = proc[p].fds
      \/ \E fd \in Fds : proc'[p].fds = [proc[p].fds EXCEPT ![fd] = Directory]
  BY ExecuteDoes
<1>3. proc[p].state = "shell" /\ proc[p].todo # <<>> /\ Step(p).op = "execute"
  BY <1>1 DEF Takes
<1>4. ASSUME NEW fd \in Fds PROVE Carried(p, fd)
  <2>1. proc[p].fds \in [Fds -> Files]
    BY DEF TypeOK, Process
  <2>2. proc'[p].fds[fd] = proc[p].fds[fd] \/ proc'[p].fds[fd] = Directory
    BY <1>2, <2>1
  <2>3. ~Doing(p, "stdin from pipe")
    BY <1>3 DEF Doing
  <2> QED
    BY <2>2, <2>3, CarriedOver
<1>5. OpensOne(p)
  BY ExecuteDoes DEF OpensOne
<1> QED
  BY <1>1, <1>3, <1>4, <1>5, NoSteps DEF Quiet, PendingOps, Effect

LEMMA redirectFirstIsQuiet ==
  ASSUME TypeOK, NEW p \in Procs, redirectFirstCommandOutputToPipe(p)
  PROVE  Quiet(p)
<1>1. /\ OnlyChanges({p}) /\ Takes(p, "stdout to pipe", <<>>) /\ Same(proc'[p], proc[p])
      /\ UNCHANGED <<pipes, written, forkFailed>>
  BY redirectFirstDoes
<1>2. \A fd \in Fds : proc'[p].fds[fd] = None \/ \E e \in Fds : proc'[p].fds[fd] = proc[p].fds[e]
  BY redirectFirstDoes
<1>3. proc[p].state = "shell" /\ proc[p].todo # <<>> /\ Step(p).op = "stdout to pipe"
  BY <1>1 DEF Takes
<1>4. ASSUME NEW fd \in Fds PROVE Carried(p, fd)
  <2>1. ~Doing(p, "stdin from pipe")
    BY <1>3 DEF Doing
  <2> QED
    BY <1>2, <2>1, CarriedOver
<1> QED
  BY <1>1, <1>3, <1>4, NoSteps DEF Quiet, PendingOps, Effect, ChildOps

LEMMA redirectSecondIsQuiet ==
  ASSUME TypeOK, NEW p \in Procs, redirectSecondCommandInputToPipe(p)
  PROVE  Quiet(p)
<1>1. /\ OnlyChanges({p}) /\ Takes(p, "stdin from pipe", <<>>) /\ Same(proc'[p], proc[p])
      /\ Step(p).pipe[1] \in Fds
      /\ DupedAndClosed(proc'[p], proc[p], Step(p).pipe, Step(p).pipe[1], 0)
      /\ UNCHANGED <<pipes, written, forkFailed>>
  BY redirectSecondDoes
<1>2. proc[p].state = "shell" /\ proc[p].todo # <<>> /\ Step(p).op = "stdin from pipe"
  BY <1>1 DEF Takes
<1>3. ASSUME NEW fd \in Fds PROVE Carried(p, fd)
  BY <1>1 DEF DupedAndClosed, Carried
<1> QED
  BY <1>1, <1>2, <1>3, NoSteps DEF Quiet, PendingOps, Effect, ChildOps

LEMMA RedirectIsQuiet ==
  ASSUME TypeOK, NEW p \in Procs, Redirect(p)
  PROVE  Quiet(p)
<1>1. /\ OnlyChanges({p}) /\ Same(proc'[p], proc[p]) /\ UNCHANGED <<pipes, written, forkFailed>>
  BY RedirectDoes
<1>2. proc[p].state = "shell" /\ proc[p].todo # <<>> /\ Step(p).op = "redirect"
  BY DEF Redirect, At
<1>3. ~Doing(p, "stdin from pipe")
  BY <1>2 DEF Doing
<1>4. proc[p].fds \in [Fds -> Files] /\ 1 \in Fds
  BY CommandsAssumption DEF TypeOK, Process
<1>0. Redirects(p)
  BY RedirectDoes DEF Redirects, RedirectsTo
<1>5. CASE Takes(p, "redirect", <<>>) /\ proc'[p].fds = proc[p].fds
  <2>1. \A fd \in Fds : Carried(p, fd)
    BY <1>3, <1>5, CarriedOver
  <2> QED
    BY <1>0, <1>1, <1>2, <1>5, <2>1, NoSteps DEF Quiet, PendingOps, Effect
<1>6. CASE ~(Takes(p, "redirect", <<>>) /\ proc'[p].fds = proc[p].fds)
  <2>1. PICK fd \in Fds, saved \in Fds \union {NoFd} :
          LET opened == [proc[p].fds EXCEPT ![fd] = File] IN
          /\ Takes(p, "redirect",
               <<[op |-> "execute", command |-> Step(p).command],
                 [op |-> "restore", fd |-> fd, saved |-> saved]>>)
          /\ \/ proc'[p].fds = [opened EXCEPT ![1] = File]
             \/ /\ saved \in Fds
                /\ proc'[p].fds = [[opened EXCEPT ![saved] = opened[1]] EXCEPT ![1] = File]
    BY <1>6, RedirectDoes
  <2> DEFINE opened == [proc[p].fds EXCEPT ![fd] = File]
             steps == <<[op |-> "execute", command |-> Step(p).command],
                        [op |-> "restore", fd |-> fd, saved |-> saved]>>
  <2>2. /\ Len(steps) = 2 /\ steps[1].op = "execute" /\ steps[2].op = "restore"
    OBVIOUS
  <2>3. Takes(p, "redirect", steps)
    BY <2>1
  <2> HIDE DEF steps
  <2>4. QuietSteps(p, steps)
    BY <2>2 DEF QuietSteps
  <2>5. ASSUME NEW d \in Fds PROVE Carried(p, d)
    <3>1. opened[d] = File \/ opened[d] = proc[p].fds[d]
      BY <1>4
    <3>2. opened[1] = File \/ opened[1] = proc[p].fds[1]
      BY <1>4
    <3>3. proc'[p].fds[d] \in {File, opened[d], opened[1]}
      BY <1>4, <2>1
    <3> HIDE DEF opened
    <3> QED
      BY <1>3, <1>4, <3>1, <3>2, <3>3, CarriedOver
  <2> QED
    BY <1>0, <1>1, <1>2, <2>3, <2>4, <2>5 DEF Quiet, PendingOps, Effect
<1> QED
  BY <1>5, <1>6

LEMMA RestoreIsQuiet ==
  ASSUME TypeOK, NEW p \in Procs, Restore(p)
  PROVE  Quiet(p)
<1> DEFINE fd == Step(p).fd
           saved == Step(p).saved
           fds == proc[p].fds
<1>1. /\ OnlyChanges({p}) /\ Same(proc'[p], proc[p]) /\ UNCHANGED <<pipes, written, forkFailed>>
      /\ Takes(p, "restore", <<>>) /\ fd \in Fds /\ saved \in Fds \union {NoFd}
  BY RestoreDoes
<1>2. \/ proc'[p].fds = [fds EXCEPT ![fd] = None]
      \/ saved # NoFd /\ proc'[p].fds = [[fds EXCEPT ![1] = fds[saved]] EXCEPT ![fd] = None]
  BY RestoreDoes
<1>3. proc[p].state = "shell" /\ proc[p].todo # <<>> /\ Step(p).op = "restore"
  BY <1>1 DEF Takes
<1>4. ASSUME NEW d \in Fds PROVE Carried(p, d)
  <2>1. ~Doing(p, "stdin from pipe")
    BY <1>3 DEF Doing
  <2>2. fds \in [Fds -> Files]
    BY DEF TypeOK, Process
  <2>3. \/ proc'[p].fds[d] = None \/ proc'[p].fds[d] = fds[d]
        \/ saved # NoFd /\ proc'[p].fds[d] = fds[saved]
    BY <1>1, <1>2, <2>2
  <2> QED
    BY <1>1, <2>1, <2>3, CarriedOver
<1>5. RestoresFrom(p, fd, saved)
  BY RestoreDoes DEF RestoresFrom
<1> QED
  BY <1>1, <1>3, <1>4, <1>5, NoSteps DEF Quiet, PendingOps, Effect

LEMMA CloseWriteEndIsQuiet ==
  ASSUME TypeOK, NEW p \in Procs, CloseWriteEnd(p)
  PROVE  Quiet(p)
<1> DEFINE steps == <<[op |-> "read", k |-> Step(p).k, command |-> Step(p).command]>>
           fd == Step(p).pipe[2]
<1>1. /\ OnlyChanges({p}) /\ Same(proc'[p], proc[p]) /\ UNCHANGED <<pipes, written, forkFailed>>
      /\ Takes(p, "close write end", steps)
      /\ fd \in Fds /\ proc'[p].fds = [proc[p].fds EXCEPT ![fd] = None]
  BY CloseWriteEndDoes
<1>2. proc[p].state = "shell" /\ proc[p].todo # <<>> /\ Step(p).op = "close write end"
  BY <1>1 DEF Takes
<1>3. ASSUME NEW d \in Fds PROVE Carried(p, d)
  <2>1. ~Doing(p, "stdin from pipe")
    BY <1>2 DEF Doing
  <2>2. proc[p].fds \in [Fds -> Files]
    BY DEF TypeOK, Process
  <2>3. proc'[p].fds[d] = None \/ proc'[p].fds[d] = proc[p].fds[d]
    BY <1>1, <2>2
  <2> QED
    BY <2>1, <2>3, CarriedOver
<1>4. Len(steps) = 1 /\ steps[1].op = "read" /\ steps[1].k = Step(p).k
  OBVIOUS
<1> HIDE DEF steps
<1>5. QuietSteps(p, steps)
  <2>1. \A i \in 1 .. Len(steps) : i = 1
    BY <1>4
  <2>2. \A i \in 1 .. Len(steps) :
          steps[i].op \in (IF i = 1 THEN {"execute", "read"} ELSE {"restore"})
    BY <1>4, <2>1
  <2> QED
    BY <1>2, <1>4, <2>2 DEF QuietSteps
<1> QED
  BY <1>1, <1>2, <1>3, <1>5 DEF Quiet, PendingOps, Effect, ChildOps

-----------------------------------------------------------------------------
(* The kinds of step there are.                                            *)

FirstForked(p, c, pipe) ==
  /\ Forked(p, c) /\ NewPipe(p, pipe) /\ UNCHANGED written
  /\ Takes(p, "pipe", <<[op |-> "fork second", k |-> pipes + 1, pipe |-> pipe,
                         pid |-> c, second |-> Step(p).second]>>)
  /\ proc'[p].jobs = proc[p].jobs
  /\ proc'[c].state = "shell" /\ proc'[c].fds = proc'[p].fds
  /\ proc'[c].side = WriteEnd(pipes + 1)
  /\ proc'[c].todo = <<[op |-> "stdout to pipe", pipe |-> pipe],
                       [op |-> "execute", command |-> Step(p).first],
                       [op |-> "exit"]>>

SecondForked(p, c) ==
  /\ Forked(p, c) /\ UNCHANGED <<pipes, written>>
  /\ \/ /\ Takes(p, "fork second", <<>>)
        /\ proc'[p].jobs = proc[p].jobs \union {Step(p).pid, c}
     \/ /\ Takes(p, "fork second", <<[op |-> "wait", pid |-> Step(p).pid],
                                     [op |-> "wait", pid |-> c]>>)
        /\ proc'[p].jobs = proc[p].jobs
  /\ Step(p).pipe[1] \in Fds /\ Step(p).pipe[2] \in Fds
  /\ proc'[p].fds = [proc[p].fds EXCEPT ![Step(p).pipe[1]] = None,
                                        ![Step(p).pipe[2]] = None]
  /\ proc'[c].state = "shell" /\ proc'[c].fds = proc[p].fds
  /\ proc'[c].side = ReadEnd(Step(p).k)
  /\ proc'[c].todo = <<[op |-> "stdin from pipe", pipe |-> Step(p).pipe],
                       [op |-> "execute", command |-> Step(p).second],
                       [op |-> "exit"]>>

RedirectionForked(p, c) ==
  /\ Forked(p, c) /\ UNCHANGED <<pipes, written>>
  /\ Takes(p, "redirect&", <<>>)
  /\ proc'[p].jobs = proc[p].jobs \union {c}
  /\ proc'[p].fds = proc[p].fds
  /\ proc'[c].state = "shell" /\ proc'[c].fds = proc[p].fds
  /\ proc'[c].side = proc[p].side
  /\ proc'[c].todo = <<[op |-> "redirect", command |-> Step(p).command],
                       [op |-> "exit"]>>

ForegroundForked(p, c) ==
  /\ Forked(p, c) /\ UNCHANGED <<pipes, written>>
  /\ Takes(p, "execute", <<[op |-> "wait", pid |-> c]>>)
  /\ proc'[p].jobs = proc[p].jobs
  /\ proc'[p].fds = proc[p].fds
  /\ proc'[c].state = "program" /\ ~proc'[c].background
  /\ proc'[c].fds = proc[p].fds /\ proc'[c].side = proc[p].side
  /\ proc'[c].todo = <<>>

BackgroundForked(p, c, pipe) ==
  /\ Forked(p, c) /\ NewPipe(p, pipe) /\ UNCHANGED written
  /\ Takes(p, "execute", <<[op |-> "list job", k |-> pipes + 1, pipe |-> pipe,
                            pid |-> c]>>)
  /\ proc'[p].jobs = proc[p].jobs
  /\ proc'[c].state = "shell" /\ proc'[c].fds = proc'[p].fds
  /\ proc'[c].side = proc[p].side
  /\ proc'[c].todo = <<[op |-> "close write end", k |-> pipes + 1,
                        pipe |-> pipe, command |-> Step(p).command]>>

Listed(p) ==
  /\ OnlyChanges({p}) /\ Takes(p, "list job", <<>>)
  /\ Step(p).pid \in Pids /\ Step(p).pipe[1] \in Fds /\ Step(p).pipe[2] \in Fds
  /\ proc'[p].state = "shell" /\ proc'[p].parent = proc[p].parent
  /\ proc'[p].side = proc[p].side /\ proc'[p].background = proc[p].background
  /\ proc'[p].jobs = proc[p].jobs \union {Step(p).pid}
  /\ proc'[p].fds = [proc[p].fds EXCEPT ![Step(p).pipe[1]] = None]
  /\ written' = written \union {Step(p).k}
  /\ UNCHANGED <<pipes, forkFailed>>

Started(p) ==
  /\ OnlyChanges({p})
  /\ proc[p].state = "shell" /\ proc[p].todo # <<>> /\ Step(p).op = "read"
  /\ ReadReturns(Step(p).k)
  /\ proc'[p].state = "program" /\ proc'[p].todo = <<>> /\ proc'[p].background
  /\ proc'[p].fds = proc[p].fds /\ proc'[p].jobs = proc[p].jobs
  /\ proc'[p].side = proc[p].side /\ proc'[p].parent = proc[p].parent
  /\ UNCHANGED <<pipes, written, forkFailed>>

Leaves(p) ==
  /\ proc[p].state \in Alive
  /\ p = Smash => proc[p].todo # <<>> /\ Step(p).op \in {"quit", "exit"}
  /\ Gone(p) /\ (proc'[p].state = "exited" => p = Smash)
  /\ \/ proc'[p].state = "none"
     \/ proc[p].parent # InitPid /\ proc'[p].parent = proc[p].parent
  /\ \A q \in Procs \ {p} :
       \/ ~ChildOf(q, p) /\ proc'[q] = proc[q]
       \/ ChildOf(q, p) /\ Reaps(q)
       \/ ChildOf(q, p) /\ Adopted(q)
  /\ UNCHANGED <<pipes, written, forkFailed>>

Waited(p, c) ==
  /\ OnlyChanges({p, c}) /\ Takes(p, "wait", <<>>) /\ c = Step(p).pid
  /\ Same(proc'[p], proc[p]) /\ proc'[p].fds = proc[p].fds
  /\ c \in Pids /\ c \in Procs /\ c # p /\ proc[c].state = "zombie"
  /\ Gone(c) /\ proc'[c].state = "none"
  /\ UNCHANGED <<pipes, written, forkFailed>>

NewLine ==
  /\ proc[Smash].state = "shell" /\ proc[Smash].todo = <<>>
  /\ proc'[Smash].state = "shell" /\ proc'[Smash].parent = proc[Smash].parent
  /\ proc'[Smash].side = proc[Smash].side
  /\ proc'[Smash].background = proc[Smash].background
  /\ proc'[Smash].fds = proc[Smash].fds
  /\ proc'[Smash].jobs = proc[Smash].jobs \ Finished
  /\ proc'[Smash].todo \in Seq(Steps)
  /\ \A i \in 1 .. Len(proc'[Smash].todo) :
       proc'[Smash].todo[i].op \in IF i = 1 THEN LineOps ELSE {"quit"}
  /\ \A q \in Procs \ {Smash} :
       \/ q \notin Finished /\ proc'[q] = proc[q]
       \/ q \in Finished /\ proc[q].state = "zombie" /\ Gone(q) /\ proc'[q].state = "none"
  /\ UNCHANGED <<pipes, written, forkFailed>>

Idle == UNCHANGED <<proc, pipes, written, forkFailed>>

Kinds(p) ==
  \/ Idle
  \/ Quiet(p)
  \/ \E c \in Pids, pipe \in Pipes : FirstForked(p, c, pipe) \/ BackgroundForked(p, c, pipe)
  \/ \E c \in Pids : SecondForked(p, c) \/ RedirectionForked(p, c) \/ ForegroundForked(p, c)
  \/ Listed(p)
  \/ Started(p)
  \/ Leaves(p)
  \/ \E c \in Pids : Waited(p, c)

LEMMA PipeForkFirstKinds ==
  ASSUME TypeOK, NEW p \in Procs, PipeForkFirst(p)
  PROVE  TypeOK' /\ Kinds(p)
<1>1. /\ TypeOK' /\ UNCHANGED written
      /\ proc[p].state = "shell" /\ proc[p].todo # <<>> /\ Step(p).op = "pipe"
  BY PipeForkFirstDoes
<1>2. \/ Idle
      \/ \E pipe \in Pipes : NewPipe(p, pipe) /\ ForkFailed(p, "pipe")
      \/ \E c \in Pids, pipe \in Pipes : FirstForked(p, c, pipe)
  BY <1>1, PipeForkFirstDoes DEF FirstForked, Idle
<1>3. CASE \E pipe \in Pipes : NewPipe(p, pipe) /\ ForkFailed(p, "pipe")
  BY <1>1, <1>3, FailedForkIsQuiet DEF Kinds
<1> QED
  BY <1>1, <1>2, <1>3 DEF Kinds

LEMMA PipeForkSecondKinds ==
  ASSUME TypeOK, NEW p \in Procs, PipeForkSecond(p)
  PROVE  TypeOK' /\ Kinds(p)
<1>1. TypeOK' /\ UNCHANGED <<written, pipes>>
  BY PipeForkSecondDoes
<1>2. \/ ForkFailed(p, "fork second") /\ proc'[p].fds = proc[p].fds
      \/ \E c \in Pids : SecondForked(p, c)
  BY PipeForkSecondDoes DEF SecondForked
<1>3. CASE ForkFailed(p, "fork second") /\ proc'[p].fds = proc[p].fds
  BY <1>1, <1>3, FailedForkIsQuiet DEF Kinds
<1> QED
  BY <1>1, <1>2, <1>3 DEF Kinds

LEMMA RedirectBackgroundKinds ==
  ASSUME TypeOK, NEW p \in Procs, RedirectBackground(p)
  PROVE  TypeOK' /\ Kinds(p)
<1>1. TypeOK' /\ UNCHANGED <<written, pipes>>
  BY RedirectBackgroundDoes
<1>2. \/ ForkFailed(p, "redirect&") /\ proc'[p].fds = proc[p].fds
      \/ \E c \in Pids : RedirectionForked(p, c)
  BY RedirectBackgroundDoes DEF RedirectionForked
<1>3. CASE ForkFailed(p, "redirect&") /\ proc'[p].fds = proc[p].fds
  BY <1>1, <1>3, FailedForkIsQuiet DEF Kinds
<1> QED
  BY <1>1, <1>2, <1>3 DEF Kinds

LEMMA runForegroundKinds ==
  ASSUME TypeOK, NEW p \in Procs, runForegroundExternalCommand(p)
  PROVE  TypeOK' /\ Kinds(p)
<1>1. TypeOK' /\ UNCHANGED <<written, pipes>>
  BY runForegroundDoes
<1>2. \/ ForkFailed(p, "execute") /\ proc'[p].fds = proc[p].fds
      \/ \E c \in Pids : ForegroundForked(p, c)
  BY runForegroundDoes DEF ForegroundForked
<1>3. CASE ForkFailed(p, "execute") /\ proc'[p].fds = proc[p].fds
  BY <1>1, <1>3, FailedForkIsQuiet DEF Kinds
<1> QED
  BY <1>1, <1>2, <1>3 DEF Kinds

LEMMA runBackgroundKinds ==
  ASSUME TypeOK, NEW p \in Procs, runBackgroundExternalCommand(p)
  PROVE  TypeOK' /\ Kinds(p)
<1>1. TypeOK' /\ UNCHANGED written
  BY runBackgroundDoes
<1>2. \/ Idle
      \/ \E pipe \in Pipes : NewPipe(p, pipe) /\ ForkFailed(p, "execute")
      \/ \E c \in Pids, pipe \in Pipes : BackgroundForked(p, c, pipe)
  BY <1>1, runBackgroundDoes DEF BackgroundForked, Idle
<1>3. CASE \E pipe \in Pipes : NewPipe(p, pipe) /\ ForkFailed(p, "execute")
  BY <1>1, <1>3, FailedForkIsQuiet DEF Kinds
<1> QED
  BY <1>1, <1>2, <1>3 DEF Kinds

LEMMA EndedKinds ==
  ASSUME TypeOK, NEW p \in Procs, proc' = Ended(p),
         UNCHANGED <<typed, pipes, written, forkFailed, undefined>>,
         proc[p].state \in Alive,
         p = Smash => proc[p].todo # <<>> /\ Step(p).op \in {"quit", "exit"}
  PROVE  TypeOK' /\ Kinds(p)
<1>1. TypeOK' /\ Leaves(p)
  BY EndedDoes DEF Leaves
<1> QED
  BY <1>1 DEF Kinds

(* Every step is of one of the kinds. *)
LEMMA NextKinds ==
  ASSUME TypeOK, [Next]_vars
  PROVE  TypeOK' /\ (NewLine \/ \E p \in Procs : Kinds(p))
<1>1. CASE ReadLine
  BY <1>1, ReadLineDoes DEF NewLine
<1>2. CASE Quit
  <2>1. /\ Smash \in Procs /\ proc' = Ended(Smash)
        /\ UNCHANGED <<typed, pipes, written, forkFailed, undefined>>
        /\ proc[Smash].state \in Alive
        /\ proc[Smash].todo # <<>> /\ Step(Smash).op \in {"quit", "exit"}
    BY <1>2, ProcsType DEF Quit, At, Alive
  <2> QED
    BY <2>1, EndedKinds
<1>3. ASSUME NEW p \in Procs, ShellStep(p)
      PROVE  TypeOK' /\ Kinds(p)
  <2>1. CASE Exit(p)
    <3>1. /\ proc' = Ended(p)
          /\ UNCHANGED <<typed, pipes, written, forkFailed, undefined>>
          /\ proc[p].state \in Alive
          /\ proc[p].todo # <<>> /\ Step(p).op \in {"quit", "exit"}
      BY <2>1 DEF Exit, At, Alive
    <3> QED
      BY <3>1, EndedKinds
  <2>2. CASE Wait(p)
    <3>1. TypeOK' /\ Waited(p, Step(p).pid) /\ Step(p).pid \in Pids
      BY <2>2, WaitDoes DEF Waited
    <3> QED
      BY <3>1 DEF Kinds
  <2>3. CASE PipeForkFirst(p)
    BY <2>3, PipeForkFirstKinds
  <2>4. CASE PipeForkSecond(p)
    BY <2>4, PipeForkSecondKinds
  <2>5. CASE redirectFirstCommandOutputToPipe(p)
    BY <2>5, redirectFirstDoes, redirectFirstIsQuiet DEF Kinds
  <2>6. CASE redirectSecondCommandInputToPipe(p)
    BY <2>6, redirectSecondDoes, redirectSecondIsQuiet DEF Kinds
  <2>7. CASE RedirectBackground(p)
    BY <2>7, RedirectBackgroundKinds
  <2>8. CASE Redirect(p)
    <3>1. TypeOK'
      BY <2>8, RedirectDoes
    <3> QED
      BY <2>8, <3>1, RedirectIsQuiet DEF Kinds
  <2>9. CASE Restore(p)
    <3>1. TypeOK'
      BY <2>9, RestoreDoes
    <3> QED
      BY <2>9, <3>1, RestoreIsQuiet DEF Kinds
  <2>10. CASE ExecuteNothing(p) \/ ExecutePrinting(p) \/ ExecuteCat(p) \/ ExecuteCd(p)
    <3>1. TypeOK'
      BY <2>10, ExecuteDoes
    <3> QED
      BY <2>10, <3>1, ExecuteIsQuiet DEF Kinds
  <2>11. CASE runForegroundExternalCommand(p)
    BY <2>11, runForegroundKinds
  <2>12. CASE runBackgroundExternalCommand(p)
    BY <2>12, runBackgroundKinds
  <2>13. CASE ListJob(p)
    <3>1. TypeOK' /\ Listed(p)
      BY <2>13, ListJobDoes DEF Listed
    <3> QED
      BY <3>1 DEF Kinds
  <2>14. CASE CloseWriteEnd(p)
    <3>1. TypeOK'
      BY <2>14, CloseWriteEndDoes
    <3> QED
      BY <2>14, <3>1, CloseWriteEndIsQuiet DEF Kinds
  <2>15. CASE StartProgram(p)
    <3>1. TypeOK' /\ Started(p)
      BY <2>15, StartProgramDoes DEF Started
    <3> QED
      BY <3>1 DEF Kinds
  <2> QED
    BY <1>3, <2>1, <2>2, <2>3, <2>4, <2>5, <2>6, <2>7, <2>8, <2>9, <2>10, <2>11, <2>12,
       <2>13, <2>14, <2>15 DEF ShellStep
<1>4. ASSUME NEW p \in Pids, Exits(p)
      PROVE  TypeOK' /\ Kinds(p)
  <2>1. /\ p \in Procs /\ p # Smash /\ proc' = Ended(p)
        /\ UNCHANGED <<typed, pipes, written, forkFailed, undefined>>
        /\ proc[p].state \in Alive
    BY <1>4, ProcsType, CommandsAssumption DEF Exits, Alive, Smash
  <2> QED
    BY <2>1, EndedKinds
<1>5. CASE UNCHANGED vars
  <2>1. TypeOK' /\ Idle
    BY <1>5 DEF vars, TypeOK, Idle
  <2> QED
    BY <2>1, ProcsType DEF Kinds
<1> QED
  BY <1>1, <1>2, <1>3, <1>4, <1>5, ProcsType DEF Next, Work

-----------------------------------------------------------------------------
(* Shape.                                                                  *)

LEMMA HeadFits ==
  ASSUME TypeOK, Shape, NEW p \in Procs, proc[p].todo # <<>>
  PROVE  Fits(p, 1, Step(p).op)
<1>1. proc[p].todo[1] = Step(p) /\ 1 \in 1 .. Len(proc[p].todo)
  BY HeadType, LenProperties
<1> QED
  BY <1>1 DEF Shape, StackFits

(* Which operations fit where. *)
LEMMA FitsCases ==
  /\ \A p, i : \A op \in {"execute", "restore", "wait"} : Fits(p, i, op)
  /\ \A p : \A op \in {"redirect", "list job"} : Fits(p, 1, op)
  /\ \A i, p : p # Smash => Fits(p, i, "exit")
  /\ \A p : \A op \in ChildOps : p # Smash => Fits(p, 1, op)
  /\ \A op \in LineOps \union {"fork second"} : Fits(Smash, 1, op)
  /\ \A i : Fits(Smash, i, "quit")
<1> USE DEF LaterOps, ShellOps, ChildOps, LineOps
<1>1. \A p, i : \A op \in {"execute", "restore", "wait"} : Fits(p, i, op)
  BY DEF Fits
<1>2. ASSUME NEW p PROVE Fits(p, 1, "redirect") /\ Fits(p, 1, "list job")
  BY DEF Fits
<1>3. \A i, p : p # Smash => Fits(p, i, "exit")
  BY DEF Fits
<1>4. ASSUME NEW p, p # Smash
      PROVE  /\ Fits(p, 1, "stdout to pipe") /\ Fits(p, 1, "stdin from pipe")
             /\ Fits(p, 1, "close write end") /\ Fits(p, 1, "read") /\ Fits(p, 1, "exit")
  BY <1>4 DEF Fits
<1>5. /\ Fits(Smash, 1, "pipe") /\ Fits(Smash, 1, "redirect") /\ Fits(Smash, 1, "redirect&")
      /\ Fits(Smash, 1, "execute") /\ Fits(Smash, 1, "quit") /\ Fits(Smash, 1, "fork second")
  BY DEF Fits
<1>6. \A i : Fits(Smash, i, "quit")
  BY DEF Fits
<1> QED
  BY <1>1, <1>2, <1>3, <1>4, <1>5, <1>6

LEMMA NothingFits == ASSUME NEW p PROVE StackFits(p, <<>>)
BY DEF StackFits

(* Shape survives when the processes that change are in shape. *)
LEMMA ShapeKept ==
  ASSUME Shape, NEW S, OnlyChanges(S),
         \A q \in S : /\ proc'[q].todo # <<>> => proc'[q].state = "shell"
                      /\ StackFits(q, proc'[q].todo)
                      /\ q = Smash => proc'[q].side = None
  PROVE  Shape'
<1>1. ASSUME NEW q \in Procs
      PROVE  /\ proc'[q].todo # <<>> => proc'[q].state = "shell"
             /\ StackFits(q, proc'[q].todo)
  BY DEF Shape, OnlyChanges
<1>2. proc'[Smash].side = None
  BY ProcsType DEF Shape, OnlyChanges
<1>3. \A q \in Procs : StackFits(q, proc[q].todo)'
  BY <1>1 DEF StackFits, Fits
<1> QED
  BY <1>1, <1>2, <1>3 DEF Shape

LEMMA QuietFits ==
  ASSUME TypeOK, Shape, NEW p \in Procs, proc[p].todo # <<>>, NEW steps, QuietSteps(p, steps)
  PROVE  StackFits(p, steps)
<1> SUFFICES ASSUME NEW i \in 1 .. Len(steps) PROVE Fits(p, i, steps[i].op)
  BY DEF StackFits
<1>1. Fits(p, 1, Step(p).op)
  BY HeadFits
<1>2. steps[i].op \in (IF i = 1 THEN {"execute", "read"} ELSE {"restore"})
  BY DEF QuietSteps
<1>3. CASE i = 1 /\ steps[i].op = "read"
  <2>1. steps # <<>>
    BY <1>3
  <2>2. p # Smash
    BY <1>1, <1>3, <2>1 DEF QuietSteps, Fits, ChildOps
  <2> QED
    BY <1>3, <2>2, FitsCases DEF ChildOps
<1>4. CASE i = 1 /\ steps[i].op = "execute"
  BY <1>4, FitsCases
<1>5. CASE i # 1 /\ steps[i].op = "restore"
  BY <1>5, FitsCases
<1> QED
  BY <1>2, <1>3, <1>4, <1>5

(* A stack of one, two or three steps. *)
LEMMA FewFit ==
  /\ \A p, s : Fits(p, 1, s.op) => StackFits(p, <<s>>)
  /\ \A p, s, t : Fits(p, 1, s.op) /\ Fits(p, 2, t.op) => StackFits(p, <<s, t>>)
  /\ \A p, s, t, u :
       Fits(p, 1, s.op) /\ Fits(p, 2, t.op) /\ Fits(p, 3, u.op) => StackFits(p, <<s, t, u>>)
BY DEF StackFits

LEMMA ShapeForked ==
  ASSUME TypeOK, Shape, NEW p \in Procs, NEW c \in Pids, Forked(p, c),
         proc[p].todo # <<>>, NEW steps, Takes(p, Step(p).op, steps), StackFits(p, steps),
         proc'[c].todo # <<>> => proc'[c].state = "shell", StackFits(c, proc'[c].todo)
  PROVE  Shape'
<1>1. StackFits(p, proc'[p].todo)
  BY TakesFits
<1>2. /\ OnlyChanges({p, c}) /\ c # Smash /\ proc'[p].state = "shell"
      /\ proc'[p].side = proc[p].side
  BY DEF Forked
<1>3. p = Smash => proc'[p].side = None
  BY <1>2 DEF Shape
<1> QED
  BY <1>1, <1>2, <1>3, ShapeKept

LEMMA ShapeStep ==
  ASSUME TypeOK, Shape, NewLine \/ \E p \in Procs : Kinds(p)
  PROVE  Shape'
<1>1. CASE NewLine
  <2>1. StackFits(Smash, proc'[Smash].todo)
    <3> SUFFICES ASSUME NEW i \in 1 .. Len(proc'[Smash].todo)
                 PROVE  Fits(Smash, i, proc'[Smash].todo[i].op)
      BY DEF StackFits
    <3>1. proc'[Smash].todo[i].op \in IF i = 1 THEN LineOps ELSE {"quit"}
      BY <1>1 DEF NewLine
    <3>2. CASE i = 1
      BY <3>1, <3>2, FitsCases
    <3>3. CASE i # 1
      BY <3>1, <3>3, FitsCases
    <3> QED
      BY <3>2, <3>3
  <2>2. proc'[Smash].state = "shell" /\ proc'[Smash].side = None
    BY <1>1 DEF NewLine, Shape
  <2>3. \A q \in Procs \ {Smash} : proc'[q] = proc[q] \/ proc'[q].todo = <<>>
    BY <1>1 DEF NewLine, Gone
  <2> DEFINE S == {q \in Procs : proc'[q].todo = <<>> \/ q = Smash}
  <2>4. OnlyChanges(S)
    BY <2>3 DEF OnlyChanges
  <2>5. \A q \in S : /\ proc'[q].todo # <<>> => proc'[q].state = "shell"
                     /\ StackFits(q, proc'[q].todo)
                     /\ q = Smash => proc'[q].side = None
    BY <2>1, <2>2, NothingFits
  <2> HIDE DEF S
  <2> QED
    BY <2>4, <2>5, ShapeKept
<1>2. ASSUME NEW p \in Procs, Kinds(p)
      PROVE  Shape'
  <2>1. CASE Idle
    BY <2>1 DEF Idle, Shape, StackFits, Fits
  <2>2. CASE Quiet(p)
    <3>1. PICK steps : Takes(p, Step(p).op, steps) /\ QuietSteps(p, steps)
      BY <2>2 DEF Quiet
    <3>2. StackFits(p, proc'[p].todo)
      BY <2>2, <3>1, QuietFits, TakesFits DEF Quiet
    <3>3. /\ OnlyChanges({p}) /\ proc'[p].state = "shell" /\ proc'[p].side = proc[p].side
      BY <2>2 DEF Quiet, Same
    <3> QED
      BY <3>2, <3>3, ShapeKept DEF Shape
  <2>3. ASSUME NEW c \in Pids, NEW pipe \in Pipes, FirstForked(p, c, pipe)
        PROVE  Shape'
    <3> DEFINE s == [op |-> "fork second", k |-> pipes + 1, pipe |-> pipe,
                     pid |-> c, second |-> Step(p).second]
               t == [op |-> "stdout to pipe", pipe |-> pipe]
               u == [op |-> "execute", command |-> Step(p).first]
               v == [op |-> "exit"]
    <3>1. /\ Takes(p, "pipe", <<s>>) /\ Forked(p, c) /\ proc'[c].state = "shell"
          /\ proc'[c].todo = <<t, u, v>> /\ c # Smash
      BY <2>3 DEF FirstForked, Forked
    <3>2. proc[p].todo # <<>> /\ Step(p).op = "pipe"
      BY <3>1 DEF Takes
    <3>3. p = Smash
      BY <3>2, HeadFits DEF Fits, ShellOps
    <3>4. s.op = "fork second" /\ t.op = "stdout to pipe" /\ u.op = "execute" /\ v.op = "exit"
      OBVIOUS
    <3> HIDE DEF s, t, u, v
    <3>5. Fits(p, 1, s.op) /\ Fits(c, 1, t.op) /\ Fits(c, 2, u.op) /\ Fits(c, 3, v.op)
      BY <3>1, <3>3, <3>4, FitsCases DEF ChildOps
    <3> QED
      BY <3>1, <3>2, <3>5, FewFit, ShapeForked
  <2>4. ASSUME NEW c \in Pids, NEW pipe \in Pipes, BackgroundForked(p, c, pipe)
        PROVE  Shape'
    <3> DEFINE s == [op |-> "list job", k |-> pipes + 1, pipe |-> pipe, pid |-> c]
               t == [op |-> "close write end", k |-> pipes + 1, pipe |-> pipe,
                     command |-> Step(p).command]
    <3>1. /\ Takes(p, "execute", <<s>>) /\ Forked(p, c) /\ proc'[c].state = "shell"
          /\ proc'[c].todo = <<t>> /\ c # Smash
      BY <2>4 DEF BackgroundForked, Forked
    <3>2. proc[p].todo # <<>> /\ Step(p).op = "execute"
      BY <3>1 DEF Takes
    <3>3. s.op = "list job" /\ t.op = "close write end"
      OBVIOUS
    <3> HIDE DEF s, t
    <3>4. Fits(p, 1, s.op) /\ Fits(c, 1, t.op)
      BY <3>1, <3>3, FitsCases DEF ChildOps
    <3> QED
      BY <3>1, <3>2, <3>4, FewFit, ShapeForked
  <2>5. ASSUME NEW c \in Pids, SecondForked(p, c)
        PROVE  Shape'
    <3> DEFINE s == [op |-> "wait", pid |-> Step(p).pid]
               r == [op |-> "wait", pid |-> c]
               t == [op |-> "stdin from pipe", pipe |-> Step(p).pipe]
               u == [op |-> "execute", command |-> Step(p).second]
               v == [op |-> "exit"]
    <3>1. /\ Takes(p, "fork second", <<>>) \/ Takes(p, "fork second", <<s, r>>)
          /\ Forked(p, c) /\ proc'[c].state = "shell"
          /\ proc'[c].todo = <<t, u, v>> /\ c # Smash
      BY <2>5 DEF SecondForked, Forked
    <3>2. proc[p].todo # <<>> /\ Step(p).op = "fork second"
      BY <3>1 DEF Takes
    <3>3. /\ s.op = "wait" /\ r.op = "wait"
          /\ t.op = "stdin from pipe" /\ u.op = "execute" /\ v.op = "exit"
      OBVIOUS
    <3> HIDE DEF s, r, t, u, v
    <3>5. /\ Fits(p, 1, s.op) /\ Fits(p, 2, r.op)
          /\ Fits(c, 1, t.op) /\ Fits(c, 2, u.op) /\ Fits(c, 3, v.op)
      BY <3>1, <3>3, FitsCases DEF ChildOps
    <3>4. StackFits(p, <<>>) /\ StackFits(p, <<s, r>>) /\ StackFits(c, <<t, u, v>>)
      BY <3>5, NothingFits, FewFit
    <3> QED
      BY <3>1, <3>2, <3>4, ShapeForked
  <2>6. ASSUME NEW c \in Pids, RedirectionForked(p, c)
        PROVE  Shape'
    <3> DEFINE t == [op |-> "redirect", command |-> Step(p).command]
               u == [op |-> "exit"]
    <3>1. /\ Takes(p, "redirect&", <<>>) /\ Forked(p, c) /\ proc'[c].state = "shell"
          /\ proc'[c].todo = <<t, u>> /\ c # Smash
      BY <2>6 DEF RedirectionForked, Forked
    <3>2. proc[p].todo # <<>> /\ Step(p).op = "redirect&"
      BY <3>1 DEF Takes
    <3>3. t.op = "redirect" /\ u.op = "exit"
      OBVIOUS
    <3> HIDE DEF t, u
    <3>5. Fits(c, 1, t.op) /\ Fits(c, 2, u.op)
      BY <3>1, <3>3, FitsCases
    <3>4. StackFits(p, <<>>) /\ StackFits(c, <<t, u>>)
      BY <3>5, NothingFits, FewFit
    <3> QED
      BY <3>1, <3>2, <3>4, ShapeForked
  <2>7. ASSUME NEW c \in Pids, ForegroundForked(p, c)
        PROVE  Shape'
    <3> DEFINE s == [op |-> "wait", pid |-> c]
    <3>1. Takes(p, "execute", <<s>>) /\ Forked(p, c) /\ proc'[c].todo = <<>>
      BY <2>7 DEF ForegroundForked
    <3>2. proc[p].todo # <<>> /\ Step(p).op = "execute"
      BY <3>1 DEF Takes
    <3>3. s.op = "wait"
      OBVIOUS
    <3> HIDE DEF s
    <3>4. StackFits(p, <<s>>) /\ StackFits(c, <<>>)
      BY <3>3, FitsCases, NothingFits, FewFit
    <3> QED
      BY <3>1, <3>2, <3>4, ShapeForked
  <2>8. CASE Listed(p)
    <3>1. Takes(p, "list job", <<>>) /\ OnlyChanges({p})
      BY <2>8 DEF Listed
    <3>2. StackFits(p, proc'[p].todo)
      BY <3>1, NothingFits, TakesFits
    <3>3. proc'[p].state = "shell" /\ (p = Smash => proc'[p].side = None)
      BY <2>8 DEF Listed, Shape
    <3> QED
      BY <3>1, <3>2, <3>3, ShapeKept
  <2>9. CASE Started(p)
    <3>1. OnlyChanges({p}) /\ proc'[p].todo = <<>> /\ (p = Smash => proc'[p].side = None)
      BY <2>9 DEF Started, Shape
    <3> QED
      BY <3>1, NothingFits, ShapeKept
  <2>10. CASE Leaves(p)
    <3>1. \A q \in Procs :
            /\ proc'[q].todo = <<>> \/ proc'[q].todo = proc[q].todo
            /\ proc'[q].todo # <<>> => proc'[q].state = proc[q].state
            /\ proc'[q].side \in {None, proc[q].side}
      BY <2>10 DEF Leaves, Gone, Adopted, Reaps
    <3>2. \A q \in Procs : StackFits(q, proc'[q].todo)
      BY <3>1, NothingFits DEF Shape
    <3>3. \A q \in Procs : /\ proc'[q].todo # <<>> => proc'[q].state = "shell"
                           /\ q = Smash => proc'[q].side = None
      BY <3>1 DEF Shape
    <3> DEFINE S == Procs
    <3>4. OnlyChanges(S)
      BY DEF OnlyChanges
    <3>5. \A q \in S : /\ proc'[q].todo # <<>> => proc'[q].state = "shell"
                       /\ StackFits(q, proc'[q].todo)
                       /\ q = Smash => proc'[q].side = None
      BY <3>2, <3>3
    <3> HIDE DEF S
    <3> QED
      BY <3>4, <3>5, ShapeKept
  <2>11. ASSUME NEW c \in Pids, Waited(p, c)
         PROVE  Shape'
    <3>1. /\ Takes(p, "wait", <<>>) /\ OnlyChanges({p, c}) /\ proc'[c].todo = <<>>
          /\ proc'[c].side = None
      BY <2>11 DEF Waited, Gone
    <3>2. StackFits(p, proc'[p].todo) /\ StackFits(c, proc'[c].todo)
      BY <3>1, NothingFits, TakesFits
    <3>3. proc'[p].state = "shell" /\ (p = Smash => proc'[p].side = None)
      BY <2>11, <3>1 DEF Waited, Same, Shape, Takes
    <3> QED
      BY <3>1, <3>2, <3>3, ShapeKept
  <2> QED
    BY <1>2, <2>1, <2>2, <2>3, <2>4, <2>5, <2>6, <2>7, <2>8, <2>9, <2>10, <2>11 DEF Kinds
<1> QED
  BY <1>1, <1>2


-----------------------------------------------------------------------------
(* What becomes of a process in a step.                                    *)

(* It runs on; init may have adopted it. *)
Kept(q) ==
  /\ proc'[q].parent \in {proc[q].parent, InitPid}
  /\ proc'[q].state = proc[q].state /\ proc'[q].todo = proc[q].todo
  /\ proc'[q].fds = proc[q].fds /\ proc'[q].jobs = proc[q].jobs
  /\ proc'[q].side = proc[q].side /\ proc'[q].background = proc[q].background

(* It takes a step that makes no child. *)
StepsAlone(q) ==
  Quiet(q) \/ Listed(q) \/ Started(q) \/ (q = Smash /\ NewLine) \/ \E c \in Pids : Waited(q, c)

(* It is the parent, or the child, of a fork. *)
ForksOff(p, c) ==
  \/ \E pipe \in Pipes : FirstForked(p, c, pipe) \/ BackgroundForked(p, c, pipe)
  \/ SecondForked(p, c) \/ RedirectionForked(p, c) \/ ForegroundForked(p, c)

LEMMA SameIsKept == ASSUME NEW q, proc'[q] = proc[q] PROVE Kept(q)
BY DEF Kept

LEMMA Fates ==
  ASSUME NewLine \/ \E p \in Procs : Kinds(p), NEW q \in Procs
  PROVE  \/ Kept(q) \/ Gone(q) \/ StepsAlone(q)
         \/ \E c \in Pids : ForksOff(q, c)
         \/ \E p \in Procs : q \in Pids /\ ForksOff(p, q)
<1>1. CASE NewLine
  BY <1>1, SameIsKept DEF NewLine, StepsAlone
<1>2. ASSUME NEW p \in Procs, Kinds(p)
      PROVE  \/ Kept(q) \/ Gone(q) \/ StepsAlone(q)
             \/ \E c \in Pids : ForksOff(q, c)
             \/ q \in Pids /\ ForksOff(p, q)
  <2>1. CASE Idle
    BY <2>1, SameIsKept DEF Idle
  <2>2. CASE Quiet(p) \/ Listed(p) \/ Started(p)
    <3>1. OnlyChanges({p})
      BY <2>2 DEF Quiet, Listed, Started
    <3>2. q # p => Kept(q)
      BY <3>1, SameIsKept DEF OnlyChanges
    <3> QED
      BY <2>2, <3>2 DEF StepsAlone
  <2>3. ASSUME NEW c \in Pids, ForksOff(p, c)
        PROVE  Kept(q) \/ (\E d \in Pids : ForksOff(q, d)) \/ (q \in Pids /\ ForksOff(p, q))
    <3>1. OnlyChanges({p, c})
      BY <2>3 DEF ForksOff, FirstForked, BackgroundForked, SecondForked, RedirectionForked,
                  ForegroundForked, Forked
    <3>2. q \notin {p, c} => Kept(q)
      BY <3>1, SameIsKept DEF OnlyChanges
    <3> QED
      BY <2>3, <3>2
  <2>4. CASE Leaves(p)
    <3>1. q = p => Gone(q)
      BY <2>4 DEF Leaves
    <3>2. q # p => proc'[q] = proc[q] \/ Gone(q) \/ Adopted(q)
      BY <2>4 DEF Leaves, Reaps
    <3>3. Adopted(q) => Kept(q)
      BY DEF Adopted, Kept
    <3> QED
      BY <3>1, <3>2, <3>3, SameIsKept
  <2>5. ASSUME NEW c \in Pids, Waited(p, c)
        PROVE  Kept(q) \/ Gone(q) \/ StepsAlone(q)
    <3>1. OnlyChanges({p, c}) /\ Gone(c)
      BY <2>5 DEF Waited
    <3>2. q \notin {p, c} => Kept(q)
      BY <3>1, SameIsKept DEF OnlyChanges
    <3>3. q = p => StepsAlone(q)
      BY <2>5 DEF StepsAlone
    <3> QED
      BY <3>1, <3>2, <3>3
  <2> QED
    BY <1>2, <2>1, <2>2, <2>3, <2>4, <2>5 DEF Kinds, ForksOff
<1> QED
  BY <1>1, <1>2

LEMMA KeptHead == ASSUME NEW q, Kept(q) PROVE Step(q)' = Step(q) /\ \A op : Doing(q, op)' <=> Doing(q, op)
BY DEF Kept, Doing, Step

(* The first step of p after one that forks nothing. *)
NextHead(p) ==
  \A op : Doing(p, op)' =>
    \/ op \in LaterOps
    \/ op = "read" /\ Quiet(p) /\ Doing(p, "close write end") /\ Step(p)'.k = Step(p).k
    \/ p = Smash /\ NewLine /\ op \in LineOps

LEMMA QuietHead ==
  ASSUME TypeOK, Shape, NEW p \in Procs, Quiet(p)
  PROVE  NextHead(p)
<1> SUFFICES ASSUME NEW op, Doing(p, op)'
             PROVE  \/ op \in LaterOps
                    \/ op = "read" /\ Doing(p, "close write end") /\ Step(p)'.k = Step(p).k
  BY DEF NextHead
<1>1. PICK steps : Takes(p, Step(p).op, steps) /\ QuietSteps(p, steps)
  BY DEF Quiet
<1>2. CASE steps = <<>>
  BY <1>1, <1>2, TakesHead
<1>3. CASE steps # <<>>
  <2>1. proc'[p].todo # <<>> /\ Step(p)' = steps[1]
    BY <1>1, <1>3, TakesHead
  <2>2. op = steps[1].op
    BY <2>1 DEF Doing
  <2>3. 1 \in 1 .. Len(steps)
    <3>1. steps \in Seq(Steps)
      BY <1>1 DEF Takes
    <3> QED
      BY <1>3, <3>1, EmptySeq
  <2>4. steps[1].op \in {"execute", "read"}
    BY <1>1, <2>3 DEF QuietSteps
  <2>5. CASE op = "read"
    <3>1. Step(p).op = "close write end" /\ steps[1].k = Step(p).k
      BY <1>1, <1>3, <2>2, <2>5 DEF QuietSteps
    <3> QED
      BY <2>1, <2>5, <3>1 DEF Quiet, Doing
  <2> QED
    BY <2>2, <2>4, <2>5 DEF LaterOps
<1> QED
  BY <1>2, <1>3

(* A process that steps alone is not about to fork or to list a job. *)
LEMMA AloneHead ==
  ASSUME TypeOK, Shape, NEW p \in Procs, StepsAlone(p)
  PROVE  NextHead(p)
<1>1. CASE Quiet(p)
  BY <1>1, QuietHead
<1>2. CASE Listed(p)
  BY <1>2, TakesHead DEF Listed, NextHead
<1>3. CASE Started(p)
  BY <1>3 DEF Started, Doing, NextHead
<1>4. CASE p = Smash /\ NewLine
  <2> SUFFICES ASSUME NEW op, Doing(p, op)' PROVE op \in LineOps
    BY <1>4 DEF NextHead
  <2>1. /\ proc'[p].todo \in Seq(Steps) /\ proc'[p].todo # <<>>
        /\ Step(p)' = Head(proc'[p].todo) /\ Step(p)'.op = op
    BY <1>4 DEF NewLine, Doing, Step
  <2>2. 1 \in 1 .. Len(proc'[p].todo) /\ Head(proc'[p].todo) = proc'[p].todo[1]
    BY <2>1, EmptySeq
  <2>3. proc'[p].todo[1].op \in LineOps
    BY <1>4, <2>2 DEF NewLine
  <2> QED
    BY <2>1, <2>2, <2>3
<1>5. ASSUME NEW c \in Pids, Waited(p, c)
      PROVE  NextHead(p)
  BY <1>5, TakesHead DEF Waited, NextHead
<1> QED
  BY <1>1, <1>2, <1>3, <1>4, <1>5 DEF StepsAlone


(* The first steps of the two processes after a fork. *)
LEMMA ParentHead ==
  ASSUME TypeOK, Shape, NEW p \in Procs, NEW c \in Pids
  PROVE  /\ \A pipe : FirstForked(p, c, pipe) => \A op : Doing(p, op)' => op = "fork second"
         /\ \A pipe : BackgroundForked(p, c, pipe) => \A op : Doing(p, op)' => op = "list job"
         /\ SecondForked(p, c) \/ RedirectionForked(p, c) \/ ForegroundForked(p, c) =>
              \A op : Doing(p, op)' => op \in LaterOps
<1>1. ASSUME NEW pipe, FirstForked(p, c, pipe), NEW op, Doing(p, op)'
      PROVE  op = "fork second"
  <2> DEFINE s == [op |-> "fork second", k |-> pipes + 1, pipe |-> pipe,
                   pid |-> c, second |-> Step(p).second]
  <2>1. Takes(p, "pipe", <<s>>) /\ s.op = "fork second"
    BY <1>1 DEF FirstForked
  <2> HIDE DEF s
  <2>2. <<s>> # <<>> /\ <<s>>[1] = s
    OBVIOUS
  <2>3. Step(p)' = s
    BY <2>1, <2>2, TakesHead
  <2> QED
    BY <1>1, <2>1, <2>3 DEF Doing
<1>2. ASSUME NEW pipe, BackgroundForked(p, c, pipe), NEW op, Doing(p, op)'
      PROVE  op = "list job"
  <2> DEFINE s == [op |-> "list job", k |-> pipes + 1, pipe |-> pipe, pid |-> c]
  <2>1. Takes(p, "execute", <<s>>) /\ s.op = "list job"
    BY <1>2 DEF BackgroundForked
  <2> HIDE DEF s
  <2>2. <<s>> # <<>> /\ <<s>>[1] = s
    OBVIOUS
  <2>3. Step(p)' = s
    BY <2>1, <2>2, TakesHead
  <2> QED
    BY <1>2, <2>1, <2>3 DEF Doing
<1>3. ASSUME SecondForked(p, c) \/ RedirectionForked(p, c) \/ ForegroundForked(p, c),
             NEW op, Doing(p, op)'
      PROVE  op \in LaterOps
  <2> DEFINE s == [op |-> "wait", pid |-> Step(p).pid]
             t == [op |-> "wait", pid |-> c]
  <2>1. \E o : Takes(p, o, <<>>) \/ Takes(p, o, <<s, t>>) \/ Takes(p, o, <<t>>)
    BY <1>3 DEF SecondForked, RedirectionForked, ForegroundForked
  <2>2. s.op = "wait" /\ t.op = "wait"
    OBVIOUS
  <2> HIDE DEF s, t
  <2>3. <<s, t>> # <<>> /\ <<s, t>>[1] = s /\ <<t>> # <<>> /\ <<t>>[1] = t
    OBVIOUS
  <2>4. CASE \E o : Takes(p, o, <<>>)
    BY <1>3, <2>4, TakesHead
  <2>5. CASE \E o : Takes(p, o, <<s, t>>) \/ Takes(p, o, <<t>>)
    <3>1. Step(p)' = s \/ Step(p)' = t
      BY <2>3, <2>5, TakesHead
    <3>2. op = "wait"
      BY <1>3, <2>2, <3>1 DEF Doing
    <3> QED
      BY <3>2 DEF LaterOps
  <2> QED
    BY <2>1, <2>4, <2>5
<1> QED
  BY <1>1, <1>2, <1>3

LEMMA ChildHead ==
  ASSUME NEW p, NEW c
  PROVE  /\ \A pipe : FirstForked(p, c, pipe) => \A op : Doing(c, op)' => op = "stdout to pipe"
         /\ \A pipe : BackgroundForked(p, c, pipe) =>
              \A op : Doing(c, op)' => op = "close write end" /\ Step(c)'.k = pipes + 1
         /\ SecondForked(p, c) => \A op : Doing(c, op)' =>
              op = "stdin from pipe" /\ Step(c)'.pipe = Step(p).pipe
         /\ RedirectionForked(p, c) => \A op : Doing(c, op)' => op = "redirect"
         /\ ForegroundForked(p, c) => \A op : ~Doing(c, op)'
<1>1. ASSUME NEW pipe, FirstForked(p, c, pipe), NEW op, Doing(c, op)'
      PROVE  op = "stdout to pipe"
  <2> DEFINE t == [op |-> "stdout to pipe", pipe |-> pipe]
             u == [op |-> "execute", command |-> Step(p).first]
             v == [op |-> "exit"]
  <2>1. proc'[c].todo = <<t, u, v>> /\ t.op = "stdout to pipe"
    BY <1>1 DEF FirstForked
  <2> HIDE DEF t, u, v
  <2>2. Head(<<t, u, v>>) = t
    OBVIOUS
  <2>3. Step(c)' = t
    BY <2>1, <2>2 DEF Step
  <2> QED
    BY <1>1, <2>1, <2>3 DEF Doing
<1>2. ASSUME NEW pipe, BackgroundForked(p, c, pipe), NEW op, Doing(c, op)'
      PROVE  op = "close write end" /\ Step(c)'.k = pipes + 1
  <2> DEFINE t == [op |-> "close write end", k |-> pipes + 1, pipe |-> pipe,
                   command |-> Step(p).command]
  <2>1. proc'[c].todo = <<t>> /\ t.op = "close write end" /\ t.k = pipes + 1
    BY <1>2 DEF BackgroundForked
  <2> HIDE DEF t
  <2>2. Head(<<t>>) = t
    OBVIOUS
  <2>3. Step(c)' = t
    BY <2>1, <2>2 DEF Step
  <2> QED
    BY <1>2, <2>1, <2>3 DEF Doing
<1>3. ASSUME SecondForked(p, c), NEW op, Doing(c, op)'
      PROVE  op = "stdin from pipe" /\ Step(c)'.pipe = Step(p).pipe
  <2> DEFINE t == [op |-> "stdin from pipe", pipe |-> Step(p).pipe]
             u == [op |-> "execute", command |-> Step(p).second]
             v == [op |-> "exit"]
  <2>1. proc'[c].todo = <<t, u, v>> /\ t.op = "stdin from pipe" /\ t.pipe = Step(p).pipe
    BY <1>3 DEF SecondForked
  <2> HIDE DEF t, u, v
  <2>2. Head(<<t, u, v>>) = t
    OBVIOUS
  <2>3. Step(c)' = t
    BY <2>1, <2>2 DEF Step
  <2> QED
    BY <1>3, <2>1, <2>3 DEF Doing
<1>4. ASSUME RedirectionForked(p, c), NEW op, Doing(c, op)'
      PROVE  op = "redirect"
  <2> DEFINE t == [op |-> "redirect", command |-> Step(p).command]
             u == [op |-> "exit"]
  <2>1. proc'[c].todo = <<t, u>> /\ t.op = "redirect"
    BY <1>4 DEF RedirectionForked
  <2> HIDE DEF t, u
  <2>2. Head(<<t, u>>) = t
    OBVIOUS
  <2>3. Step(c)' = t
    BY <2>1, <2>2 DEF Step
  <2> QED
    BY <1>4, <2>1, <2>3 DEF Doing
<1>5. ASSUME ForegroundForked(p, c), NEW op
      PROVE  ~Doing(c, op)'
  BY <1>5 DEF ForegroundForked, Doing
<1> QED
  BY <1>1, <1>2, <1>3, <1>4, <1>5

(* Where the steps come from that the invariants speak of. *)
HeadsKnown(q) ==
  /\ Doing(q, "list job")' =>
       \/ Kept(q) /\ Doing(q, "list job")
       \/ \E c \in Pids, pipe \in Pipes : BackgroundForked(q, c, pipe)
  /\ Doing(q, "fork second")' =>
       \/ Kept(q) /\ Doing(q, "fork second")
       \/ \E c \in Pids, pipe \in Pipes : FirstForked(q, c, pipe)
  /\ Doing(q, "stdin from pipe")' =>
       \/ Kept(q) /\ Doing(q, "stdin from pipe")
       \/ \E p \in Procs : SecondForked(p, q)
  /\ Starting(q)' =>
       \/ Kept(q) /\ Starting(q)
       \/ Quiet(q) /\ Doing(q, "close write end") /\ Step(q)'.k = Step(q).k
       \/ \E p \in Procs, pipe \in Pipes : BackgroundForked(p, q, pipe)

LEMMA Heads ==
  ASSUME TypeOK, Shape, NewLine \/ \E p \in Procs : Kinds(p), NEW q \in Procs
  PROVE  HeadsKnown(q)
<1> DEFINE Special == {"list job", "fork second", "stdin from pipe", "close write end", "read"}
<1>0. (\A op \in Special : ~Doing(q, op)') => HeadsKnown(q)
  BY DEF HeadsKnown, Starting
<1>1. CASE Kept(q)
  BY <1>1, KeptHead DEF HeadsKnown, Starting
<1>2. CASE Gone(q)
  BY <1>0, <1>2 DEF Gone, Doing
<1>3. CASE StepsAlone(q)
  <2>1. NextHead(q)
    BY <1>3, AloneHead
  <2>2. ASSUME NEW op, op \notin LaterOps, op \notin LineOps, op # "read"
        PROVE  ~Doing(q, op)'
    BY <2>1, <2>2 DEF NextHead
  <2>3. /\ "list job" \notin LaterOps \union LineOps
        /\ "fork second" \notin LaterOps \union LineOps
        /\ "stdin from pipe" \notin LaterOps \union LineOps
        /\ "close write end" \notin LaterOps \union LineOps
        /\ "read" \notin LaterOps \union LineOps
    BY DEF LaterOps, LineOps
  <2>4. /\ ~Doing(q, "list job")' /\ ~Doing(q, "fork second")'
        /\ ~Doing(q, "stdin from pipe")' /\ ~Doing(q, "close write end")'
    BY <2>2, <2>3
  <2>5. Doing(q, "read")' =>
          Quiet(q) /\ Doing(q, "close write end") /\ Step(q)'.k = Step(q).k
    BY <2>1, <2>3 DEF NextHead
  <2> QED
    BY <2>4, <2>5 DEF HeadsKnown, Starting
<1>4. ASSUME NEW c \in Pids, ForksOff(q, c)
      PROVE  HeadsKnown(q)
  <2>1. CASE \E pipe \in Pipes : FirstForked(q, c, pipe)
    <3>1. \A op : Doing(q, op)' => op = "fork second"
      BY <2>1, ParentHead
    <3> QED
      BY <2>1, <3>1 DEF HeadsKnown, Starting
  <2>2. CASE \E pipe \in Pipes : BackgroundForked(q, c, pipe)
    <3>1. \A op : Doing(q, op)' => op = "list job"
      BY <2>2, ParentHead
    <3> QED
      BY <2>2, <3>1 DEF HeadsKnown, Starting
  <2>3. CASE SecondForked(q, c) \/ RedirectionForked(q, c) \/ ForegroundForked(q, c)
    <3>1. \A op : Doing(q, op)' => op \in LaterOps
      BY <2>3, ParentHead
    <3>2. \A op \in Special : op \notin LaterOps
      BY DEF LaterOps
    <3> HIDE DEF Special
    <3> QED
      BY <1>0, <3>1, <3>2
  <2> QED
    BY <1>4, <2>1, <2>2, <2>3 DEF ForksOff
<1>5. ASSUME NEW p \in Procs, q \in Pids, ForksOff(p, q)
      PROVE  HeadsKnown(q)
  <2>1. CASE \E pipe \in Pipes : FirstForked(p, q, pipe)
    <3>1. \A op : Doing(q, op)' => op = "stdout to pipe"
      BY <2>1, ChildHead
    <3> QED
      BY <3>1 DEF HeadsKnown, Starting
  <2>2. CASE \E pipe \in Pipes : BackgroundForked(p, q, pipe)
    <3>1. \A op : Doing(q, op)' => op = "close write end"
      BY <2>2, ChildHead
    <3> QED
      BY <2>2, <3>1 DEF HeadsKnown, Starting
  <2>3. CASE SecondForked(p, q)
    <3>1. \A op : Doing(q, op)' => op = "stdin from pipe"
      BY <2>3, ChildHead
    <3> QED
      BY <2>3, <3>1 DEF HeadsKnown, Starting
  <2>4. CASE RedirectionForked(p, q) \/ ForegroundForked(p, q)
    <3>1. \A op : Doing(q, op)' => op = "redirect"
      BY <2>4, ChildHead
    <3> QED
      BY <3>1 DEF HeadsKnown, Starting
  <2> QED
    BY <1>5, <2>1, <2>2, <2>3, <2>4 DEF ForksOff
<1> QED
  BY <1>1, <1>2, <1>3, <1>4, <1>5, Fates


(* The step that the parent has to take after the fork of a new pipe. *)
About(p, op, k, pipe, c) ==
  /\ Doing(p, op)' /\ Step(p)'.k = k /\ Step(p)'.pipe = pipe /\ Step(p)'.pid = c

LEMMA ParentStep ==
  ASSUME TypeOK, Shape, NEW p \in Procs, NEW c \in Pids, NEW pipe
  PROVE  /\ FirstForked(p, c, pipe) => About(p, "fork second", pipes + 1, pipe, c)
         /\ BackgroundForked(p, c, pipe) => About(p, "list job", pipes + 1, pipe, c)
<1>1. ASSUME FirstForked(p, c, pipe)
      PROVE  About(p, "fork second", pipes + 1, pipe, c)
  <2> DEFINE s == [op |-> "fork second", k |-> pipes + 1, pipe |-> pipe,
                   pid |-> c, second |-> Step(p).second]
  <2>1. /\ Takes(p, "pipe", <<s>>) /\ s.op = "fork second"
        /\ s.k = pipes + 1 /\ s.pipe = pipe /\ s.pid = c
    BY <1>1 DEF FirstForked
  <2> HIDE DEF s
  <2>2. <<s>> # <<>> /\ <<s>>[1] = s
    OBVIOUS
  <2>3. Step(p)' = s /\ proc'[p].todo # <<>>
    BY <2>1, <2>2, TakesHead
  <2> QED
    BY <2>1, <2>3 DEF About, Doing
<1>2. ASSUME BackgroundForked(p, c, pipe)
      PROVE  About(p, "list job", pipes + 1, pipe, c)
  <2> DEFINE s == [op |-> "list job", k |-> pipes + 1, pipe |-> pipe, pid |-> c]
  <2>1. /\ Takes(p, "execute", <<s>>) /\ s.op = "list job"
        /\ s.k = pipes + 1 /\ s.pipe = pipe /\ s.pid = c
    BY <1>2 DEF BackgroundForked
  <2> HIDE DEF s
  <2>2. <<s>> # <<>> /\ <<s>>[1] = s
    OBVIOUS
  <2>3. Step(p)' = s /\ proc'[p].todo # <<>>
    BY <2>1, <2>2, TakesHead
  <2> QED
    BY <2>1, <2>3 DEF About, Doing
<1> QED
  BY <1>1, <1>2

-----------------------------------------------------------------------------
(* Numbered: where descriptors and sides are from.                         *)

FileFrom(file) ==
  \/ file \in {None, File, Directory}
  \/ pipes' = pipes + 1 /\ file \in {ReadEnd(pipes + 1), WriteEnd(pipes + 1)}
  \/ \E r \in Procs, e \in Fds : file = proc[r].fds[e]

SideFrom(side) ==
  \/ side = None
  \/ pipes' = pipes + 1 /\ side = WriteEnd(pipes + 1)
  \/ \E r \in Procs : Doing(r, "fork second") /\ side = ReadEnd(Step(r).k)
  \/ \E r \in Procs : side = proc[r].side

(* The descriptors f are those of g, but for one or two. *)
WithOne(f, g, a, x) ==
  \A fd \in Fds : (fd = a /\ f[fd] = x) \/ (fd # a /\ f[fd] = g[fd])

WithTwo(f, g, a, x, b, y) ==
  \A fd \in Fds :
    \/ fd = b /\ f[fd] = y
    \/ fd = a /\ fd # b /\ f[fd] = x
    \/ fd # a /\ fd # b /\ f[fd] = g[fd]

LEMMA FdsOf == ASSUME TypeOK, NEW p \in Procs PROVE proc[p].fds \in [Fds -> Files]
BY DEF TypeOK, Process

LEMMA ExceptOne ==
  ASSUME NEW g \in [Fds -> Files], NEW a \in Fds, NEW x, NEW f, f = [g EXCEPT ![a] = x]
  PROVE  WithOne(f, g, a, x)
BY DEF WithOne

LEMMA ExceptTwo ==
  ASSUME NEW g \in [Fds -> Files], NEW a \in Fds, NEW x, NEW b \in Fds, NEW y,
         NEW f, f = [g EXCEPT ![a] = x, ![b] = y]
  PROVE  WithTwo(f, g, a, x, b, y)
BY DEF WithTwo

LEMMA NewPipeFds ==
  ASSUME TypeOK, NEW p \in Procs, NEW pipe, NewPipe(p, pipe)
  PROVE  WithTwo(proc'[p].fds, proc[p].fds, pipe[1], ReadEnd(pipes + 1),
                 pipe[2], WriteEnd(pipes + 1))
<1> DEFINE x == ReadEnd(pipes + 1)
           y == WriteEnd(pipes + 1)
           a == pipe[1]
           b == pipe[2]
           f == proc'[p].fds
           g == proc[p].fds
<1>1. g \in [Fds -> Files] /\ a \in Fds /\ b \in Fds /\ f = [g EXCEPT ![a] = x, ![b] = y]
  BY FdsOf DEF NewPipe
<1> HIDE DEF x, y, a, b, f, g
<1>2. WithTwo(f, g, a, x, b, y)
  BY <1>1, ExceptTwo
<1> QED
  BY <1>2 DEF x, y, a, b, f, g

LEMMA ListedFds ==
  ASSUME TypeOK, NEW p \in Procs, Listed(p)
  PROVE  WithOne(proc'[p].fds, proc[p].fds, Step(p).pipe[1], None)
<1> DEFINE a == Step(p).pipe[1]
           f == proc'[p].fds
           g == proc[p].fds
<1>1. g \in [Fds -> Files] /\ a \in Fds /\ f = [g EXCEPT ![a] = None]
  BY FdsOf DEF Listed
<1> HIDE DEF a, f, g
<1>2. WithOne(f, g, a, None)
  BY <1>1, ExceptOne
<1> QED
  BY <1>2 DEF a, f, g

LEMMA SecondForkedFds ==
  ASSUME TypeOK, NEW p \in Procs, NEW c, SecondForked(p, c)
  PROVE  WithTwo(proc'[p].fds, proc[p].fds, Step(p).pipe[1], None, Step(p).pipe[2], None)
<1> DEFINE a == Step(p).pipe[1]
           b == Step(p).pipe[2]
           f == proc'[p].fds
           g == proc[p].fds
<1>1. /\ g \in [Fds -> Files] /\ a \in Fds /\ b \in Fds
      /\ f = [g EXCEPT ![a] = None, ![b] = None]
  BY FdsOf DEF SecondForked
<1> HIDE DEF a, b, f, g
<1>2. WithTwo(f, g, a, None, b, None)
  BY <1>1, ExceptTwo
<1> QED
  BY <1>2 DEF a, b, f, g

LEMMA From ==
  ASSUME TypeOK, NewLine \/ \E p \in Procs : Kinds(p), NEW q \in Procs
  PROVE  (\A fd \in Fds : FileFrom(proc'[q].fds[fd])) /\ SideFrom(proc'[q].side)
<1> USE DEF FileFrom, SideFrom
<1>1. CASE Kept(q)
  BY <1>1 DEF Kept
<1>2. CASE Gone(q)
  BY <1>2 DEF Gone
<1>3. CASE StepsAlone(q)
  <2>1. CASE Quiet(q)
    <3>1. \A fd \in Fds : FileFrom(proc'[q].fds[fd])
      BY <2>1 DEF Quiet, Carried
    <3>2. proc'[q].side = proc[q].side
      BY <2>1 DEF Quiet, Same
    <3> QED
      BY <3>1, <3>2
  <2>2. CASE Listed(q)
    <3>1. \A fd \in Fds : proc'[q].fds[fd] = None \/ proc'[q].fds[fd] = proc[q].fds[fd]
      BY <2>2, ListedFds DEF WithOne
    <3> QED
      BY <2>2, <3>1 DEF Listed
  <2>3. CASE Started(q)
    BY <2>3 DEF Started
  <2>4. CASE q = Smash /\ NewLine
    BY <2>4 DEF NewLine
  <2>5. ASSUME NEW c \in Pids, Waited(q, c)
        PROVE  (\A fd \in Fds : FileFrom(proc'[q].fds[fd])) /\ SideFrom(proc'[q].side)
    BY <2>5 DEF Waited, Same
  <2> QED
    BY <1>3, <2>1, <2>2, <2>3, <2>4, <2>5 DEF StepsAlone
<1>4. ASSUME NEW p \in Procs, NEW c \in Pids, ForksOff(p, c)
      PROVE  /\ \A fd \in Fds : FileFrom(proc'[p].fds[fd]) /\ FileFrom(proc'[c].fds[fd])
             /\ SideFrom(proc'[p].side) /\ SideFrom(proc'[c].side)
  <2>1. Forked(p, c)
    BY <1>4 DEF ForksOff, FirstForked, BackgroundForked, SecondForked, RedirectionForked,
                ForegroundForked
  <2>2. SideFrom(proc'[p].side)
    BY <2>1 DEF Forked
  <2>3. ASSUME NEW pipe \in Pipes, FirstForked(p, c, pipe) \/ BackgroundForked(p, c, pipe)
        PROVE  /\ \A fd \in Fds : FileFrom(proc'[p].fds[fd]) /\ FileFrom(proc'[c].fds[fd])
               /\ SideFrom(proc'[c].side)
    <3>1. NewPipe(p, pipe) /\ pipes' = pipes + 1 /\ proc'[c].fds = proc'[p].fds
      BY <2>3 DEF FirstForked, BackgroundForked, NewPipe
    <3>2. ASSUME NEW fd \in Fds PROVE FileFrom(proc'[p].fds[fd])
      <4>1. WithTwo(proc'[p].fds, proc[p].fds, pipe[1], ReadEnd(pipes + 1),
                    pipe[2], WriteEnd(pipes + 1))
        BY <3>1, NewPipeFds
      <4>2. proc'[p].fds[fd] \in {ReadEnd(pipes + 1), WriteEnd(pipes + 1), proc[p].fds[fd]}
        BY <4>1 DEF WithTwo
      <4>3. proc'[p].fds[fd] = proc[p].fds[fd] => FileFrom(proc'[p].fds[fd])
        OBVIOUS
      <4> QED
        BY <3>1, <4>2, <4>3
    <3>3. proc'[c].side = WriteEnd(pipes + 1) \/ proc'[c].side = proc[p].side
      BY <2>3 DEF FirstForked, BackgroundForked
    <3>4. SideFrom(proc'[c].side)
      BY <3>1, <3>3
    <3>5. \A fd \in Fds : FileFrom(proc'[c].fds[fd])
      BY <3>1, <3>2
    <3> HIDE DEF FileFrom, SideFrom
    <3> QED
      BY <3>2, <3>4, <3>5
  <2>4. CASE SecondForked(p, c)
    <3>1. \A fd \in Fds : proc'[p].fds[fd] = None \/ proc'[p].fds[fd] = proc[p].fds[fd]
      BY <2>4, SecondForkedFds DEF WithTwo
    <3>2. proc'[c].fds = proc[p].fds /\ proc'[c].side = ReadEnd(Step(p).k)
      BY <2>4 DEF SecondForked
    <3>3. Doing(p, "fork second")
      BY <2>4 DEF SecondForked, Takes, Doing
    <3> QED
      BY <2>2, <3>1, <3>2, <3>3
  <2>5. CASE RedirectionForked(p, c) \/ ForegroundForked(p, c)
    BY <2>2, <2>5 DEF RedirectionForked, ForegroundForked
  <2> QED
    BY <1>4, <2>2, <2>3, <2>4, <2>5 DEF ForksOff
<1> HIDE DEF FileFrom, SideFrom
<1> QED
  BY <1>1, <1>2, <1>3, <1>4, Fates, ProcsType

LEMMA PipesGrow ==
  ASSUME TypeOK, NewLine \/ \E p \in Procs : Kinds(p)
  PROVE  /\ pipes' \in {pipes, pipes + 1} /\ pipes \in Nat
         /\ \/ UNCHANGED written
            \/ \E p \in Procs : Listed(p) /\ written' = written \union {Step(p).k}
<1>1. CASE NewLine
  BY <1>1 DEF NewLine, TypeOK
<1>2. ASSUME NEW p \in Procs, Kinds(p)
      PROVE  /\ pipes' \in {pipes, pipes + 1}
             /\ UNCHANGED written \/ (Listed(p) /\ written' = written \union {Step(p).k})
  BY <1>2 DEF Kinds, Idle, Quiet, FirstForked, BackgroundForked, NewPipe, SecondForked,
              RedirectionForked, ForegroundForked, Listed, Started, Leaves, Waited
<1> QED
  BY <1>1, <1>2 DEF TypeOK

LEMMA NumberedStep ==
  ASSUME TypeOK, TypeOK', Shape, Numbered, NewLine \/ \E p \in Procs : Kinds(p)
  PROVE  Numbered'
<1>1. pipes \in Nat /\ pipes' \in {pipes, pipes + 1}
  BY PipesGrow
<1>2. /\ None[2] = 0 /\ File[2] = 0 /\ Directory[2] = 0
      /\ \A k : ReadEnd(k)[2] = k /\ WriteEnd(k)[2] = k
  BY DEF None, File, Directory, ReadEnd, WriteEnd
<1>0. /\ \A k \in Nat : k <= pipes => k <= pipes'
      /\ pipes' = pipes + 1 => pipes + 1 <= pipes'
  BY <1>1
<1>3. ASSUME NEW k \in written' PROVE k <= pipes'
  <2>1. CASE k \in written
    <3>1. k \in Nat /\ k <= pipes
      BY <2>1 DEF TypeOK, Numbered
    <3> QED
      BY <1>1, <3>1
  <2>2. CASE k \notin written
    <3>1. PICK p \in Procs : Listed(p) /\ k = Step(p).k
      BY <2>2, PipesGrow
    <3>2. Doing(p, "list job") /\ UNCHANGED pipes
      BY <3>1 DEF Listed, Takes, Doing
    <3> QED
      BY <3>1, <3>2 DEF Numbered
  <2> QED
    BY <2>1, <2>2
<1>4. ASSUME NEW q \in Procs, NEW fd \in Fds PROVE proc'[q].fds[fd][2] <= pipes'
  <2>1. FileFrom(proc'[q].fds[fd])
    BY From
  <2>2. CASE proc'[q].fds[fd] \in {None, File, Directory}
    BY <1>1, <1>2, <2>2
  <2>3. CASE pipes' = pipes + 1 /\ proc'[q].fds[fd] \in {ReadEnd(pipes + 1), WriteEnd(pipes + 1)}
    BY <1>1, <1>2, <2>3
  <2>4. ASSUME NEW r \in Procs, NEW e \in Fds, proc'[q].fds[fd] = proc[r].fds[e]
        PROVE  proc'[q].fds[fd][2] <= pipes'
    <3>1. proc[r].fds[e][2] <= pipes
      BY DEF Numbered
    <3>2. proc[r].fds[e][2] \in Nat
      BY DEF TypeOK, Process, Files
    <3> QED
      BY <1>1, <2>4, <3>1, <3>2
  <2> QED
    BY <2>1, <2>2, <2>3, <2>4 DEF FileFrom
<1>5. ASSUME NEW r \in Procs, NEW op \in {"fork second", "list job"}, Doing(r, op)
      PROVE  Step(r).k \in Nat /\ Step(r).k <= pipes
  <2>1. Step(r) \in Steps /\ Step(r).op = op
    BY <1>5, HeadType DEF Doing
  <2> QED
    BY <1>5, <2>1, StepType DEF Numbered
<1>6. ASSUME NEW q \in Procs PROVE proc'[q].side[2] <= pipes'
  <2>1. SideFrom(proc'[q].side)
    BY From
  <2>2. CASE proc'[q].side = None \/ (pipes' = pipes + 1 /\ proc'[q].side = WriteEnd(pipes + 1))
    BY <1>1, <1>2, <2>2
  <2>3. ASSUME NEW r \in Procs, Doing(r, "fork second"), proc'[q].side = ReadEnd(Step(r).k)
        PROVE  proc'[q].side[2] <= pipes'
    <3>1. Step(r).k \in Nat /\ Step(r).k <= pipes
      BY <1>5, <2>3
    <3>2. proc'[q].side[2] = Step(r).k
      BY <1>2, <2>3
    <3> QED
      BY <1>1, <3>1, <3>2
  <2>4. ASSUME NEW r \in Procs, proc'[q].side = proc[r].side
        PROVE  proc'[q].side[2] <= pipes'
    <3>1. proc[r].side[2] <= pipes
      BY DEF Numbered
    <3>2. proc[r].side[2] \in Nat
      BY DEF TypeOK, Process, Files
    <3> QED
      BY <1>1, <2>4, <3>1, <3>2
  <2> QED
    BY <2>1, <2>2, <2>3, <2>4 DEF SideFrom
<1>7. ASSUME NEW q \in Procs, NEW op \in {"fork second", "list job"}, Doing(q, op)'
      PROVE  Step(q)'.k <= pipes'
  <2>1. HeadsKnown(q)
    BY Heads
  <2>2. CASE Kept(q) /\ Doing(q, op)
    <3>1. Step(q)' = Step(q)
      BY <2>2, KeptHead
    <3>2. Step(q).k \in Nat /\ Step(q).k <= pipes
      BY <1>5, <2>2
    <3>3. Step(q).k <= pipes'
      BY <1>0, <3>2
    <3> QED
      BY <3>1, <3>3
  <2>3. ASSUME NEW c \in Pids, NEW pipe \in Pipes,
               BackgroundForked(q, c, pipe) \/ FirstForked(q, c, pipe)
        PROVE  Step(q)'.k <= pipes'
    <3>1. Step(q)'.k = pipes + 1
      BY <2>3, ParentStep DEF About
    <3>2. pipes' = pipes + 1
      BY <2>3 DEF BackgroundForked, FirstForked, NewPipe
    <3>3. pipes + 1 <= pipes'
      BY <1>0, <3>2
    <3> QED
      BY <3>1, <3>3
  <2> QED
    BY <1>7, <2>1, <2>2, <2>3 DEF HeadsKnown
<1> QED
  BY <1>3, <1>4, <1>6, <1>7 DEF Numbered


-----------------------------------------------------------------------------
(* ParentsLive.                                                            *)

(* Where the children are from. *)
ChildFrom(q) ==
  proc'[q].state # "none" =>
    \/ proc[q].state # "none" /\ proc'[q].parent \in {proc[q].parent, InitPid}
    \/ \E p \in Procs : ForksOff(p, q) /\ proc'[q].parent = p

LEMMA ForksOffForked == ASSUME NEW p, NEW c, ForksOff(p, c) PROVE Forked(p, c)
BY DEF ForksOff, FirstForked, BackgroundForked, SecondForked, RedirectionForked,
       ForegroundForked

LEMMA ChildrenFrom ==
  ASSUME NewLine \/ \E p \in Procs : Kinds(p), NEW q \in Pids
  PROVE  ChildFrom(q)
<1>1. ASSUME proc'[q] = proc[q] PROVE ChildFrom(q)
  BY <1>1 DEF ChildFrom
<1>2. ASSUME proc'[q].state = "none" PROVE ChildFrom(q)
  BY <1>2 DEF ChildFrom
<1>3. q \in Procs /\ q # Smash
  BY CommandsAssumption, ProcsType DEF Smash
<1>4. CASE NewLine
  BY <1>1, <1>2, <1>3, <1>4 DEF NewLine
<1>5. ASSUME NEW p \in Procs, Kinds(p)
      PROVE  ChildFrom(q)
  <2>1. CASE Idle
    BY <1>1, <2>1 DEF Idle
  <2>2. CASE Quiet(p) \/ Listed(p) \/ Started(p)
    <3>1. OnlyChanges({p}) /\ proc[p].state = "shell" /\ proc'[p].parent = proc[p].parent
      BY <2>2 DEF Quiet, Same, Listed, Takes, Started
    <3>2. CASE q = p
      BY <3>1, <3>2 DEF ChildFrom
    <3>3. CASE q # p
      BY <1>1, <1>3, <3>1, <3>3 DEF OnlyChanges
    <3> QED
      BY <3>2, <3>3
  <2>3. ASSUME NEW c \in Pids, ForksOff(p, c)
        PROVE  ChildFrom(q)
    <3>1. Forked(p, c)
      BY <2>3, ForksOffForked
    <3>2. proc[p].state = "shell"
      BY <2>3 DEF ForksOff, FirstForked, BackgroundForked, SecondForked, RedirectionForked,
                  ForegroundForked, Takes
    <3>3. CASE q = c
      BY <2>3, <3>1, <3>3 DEF ChildFrom, Forked
    <3>4. CASE q = p
      BY <3>1, <3>2, <3>4 DEF ChildFrom, Forked
    <3>5. CASE q \notin {p, c}
      BY <1>1, <1>3, <3>1, <3>5 DEF Forked, OnlyChanges
    <3> QED
      BY <3>3, <3>4, <3>5
  <2>4. CASE Leaves(p)
    <3>1. CASE q = p
      <4>1. proc[p].state # "none"
        BY <2>4 DEF Leaves, Alive
      <4>2. proc'[p].state = "none" \/ proc'[p].parent = proc[p].parent
        BY <2>4 DEF Leaves
      <4> QED
        BY <3>1, <4>1, <4>2 DEF ChildFrom
    <3>2. CASE q # p
      <4>1. proc'[q] = proc[q] \/ Reaps(q) \/ (ChildOf(q, p) /\ Adopted(q))
        BY <1>3, <2>4, <3>2 DEF Leaves
      <4> QED
        BY <1>1, <1>2, <4>1 DEF Reaps, ChildOf, Adopted, ChildFrom
    <3> QED
      BY <3>1, <3>2
  <2>5. ASSUME NEW c \in Pids, Waited(p, c)
        PROVE  ChildFrom(q)
    <3>1. /\ OnlyChanges({p, c}) /\ proc'[c].state = "none"
          /\ proc[p].state = "shell" /\ proc'[p].parent = proc[p].parent
      BY <2>5 DEF Waited, Takes, Same
    <3>2. CASE q = p
      BY <3>1, <3>2 DEF ChildFrom
    <3>3. CASE q \notin {p, c}
      BY <1>1, <1>3, <3>1, <3>3 DEF OnlyChanges
    <3> QED
      BY <1>2, <3>1, <3>2, <3>3
  <2> QED
    BY <1>5, <2>1, <2>2, <2>3, <2>4, <2>5 DEF Kinds, ForksOff
<1> QED
  BY <1>4, <1>5

(* Who lives, lives on, unless it leaves. *)
LEMMA LivesOn ==
  ASSUME NewLine \/ \E p \in Procs : Kinds(p), NEW r \in Procs, proc[r].state \in Alive
  PROVE  proc'[r].state \in Alive \/ Leaves(r)
<1> USE DEF Alive
<1>1. CASE NewLine
  BY <1>1 DEF NewLine
<1>2. ASSUME NEW p \in Procs, Kinds(p)
      PROVE  proc'[r].state \in Alive \/ Leaves(r)
  <2>1. CASE Idle
    BY <2>1 DEF Idle
  <2>2. CASE Quiet(p) \/ Listed(p) \/ Started(p)
    <3>1. OnlyChanges({p}) /\ proc'[p].state \in Alive
      BY <2>2 DEF Quiet, Same, Listed, Started
    <3> QED
      BY <3>1 DEF OnlyChanges
  <2>3. ASSUME NEW c \in Pids, ForksOff(p, c)
        PROVE  proc'[r].state \in Alive
    <3>1. OnlyChanges({p, c}) /\ proc'[p].state \in Alive /\ proc[c].state = "none"
      BY <2>3, ForksOffForked DEF Forked
    <3> QED
      BY <3>1 DEF OnlyChanges
  <2>4. CASE Leaves(p)
    <3>1. r # p => proc'[r] = proc[r] \/ Reaps(r) \/ Adopted(r)
      BY <2>4 DEF Leaves
    <3> QED
      BY <2>4, <3>1 DEF Reaps, Adopted
  <2>5. ASSUME NEW c \in Pids, Waited(p, c)
        PROVE  proc'[r].state \in Alive
    <3>1. /\ OnlyChanges({p, c}) /\ proc[c].state = "zombie" /\ proc'[p].state \in Alive
      BY <2>5 DEF Waited, Takes, Same
    <3> QED
      BY <3>1 DEF OnlyChanges
  <2> QED
    BY <1>2, <2>1, <2>2, <2>3, <2>4, <2>5 DEF Kinds, ForksOff
<1> QED
  BY <1>1, <1>2

(* The children of a process that leaves are adopted. *)
LEMMA Orphans ==
  ASSUME NEW r \in Procs, Leaves(r), NEW q \in Pids, q # r, proc[q].state # "none",
         proc[q].parent = r
  PROVE  proc'[q].state = "none" \/ proc'[q].parent = InitPid
<1>1. q \in Procs \ {r} /\ q # Smash
  BY CommandsAssumption, ProcsType DEF Smash
<1>2. ChildOf(q, r)
  BY <1>1 DEF ChildOf
<1> QED
  BY <1>1, <1>2 DEF Leaves, Reaps, Adopted

LEMMA ParentsLiveStep ==
  ASSUME TypeOK, ParentsLive, NewLine \/ \E p \in Procs : Kinds(p)
  PROVE  ParentsLive'
<1> SUFFICES ASSUME NEW q \in Pids, proc'[q].state # "none", proc'[q].parent # InitPid
             PROVE  proc'[q].parent # q /\ proc'[proc'[q].parent].state \in Alive
  BY DEF ParentsLive, ParentLives
<1>1. CASE proc[q].state # "none" /\ proc'[q].parent \in {proc[q].parent, InitPid}
  <2> DEFINE r == proc[q].parent
  <2>1. proc'[q].parent = r /\ r # InitPid
    BY <1>1
  <2>2. r # q /\ proc[r].state \in Alive
    BY <1>1, <2>1 DEF ParentsLive, ParentLives
  <2>3. r \in Procs
    <3>1. q \in Procs
      BY ProcsType
    <3>2. proc[q].parent \in Procs \union {InitPid}
      BY <3>1 DEF TypeOK, Process
    <3> QED
      BY <2>1, <3>2
  <2> HIDE DEF r
  <2>4. ~Leaves(r)
    BY <1>1, <2>1, <2>2, <2>3, Orphans DEF r
  <2>5. proc'[r].state \in Alive
    BY <2>2, <2>3, <2>4, LivesOn
  <2> QED
    BY <2>1, <2>2, <2>5
<1>2. ASSUME NEW p \in Procs, ForksOff(p, q), proc'[q].parent = p
      PROVE  proc'[q].parent # q /\ proc'[proc'[q].parent].state \in Alive
  <2>1. Forked(p, q)
    BY <1>2, ForksOffForked
  <2>2. q # p /\ proc'[p].state = "shell"
    BY <2>1 DEF Forked
  <2> QED
    BY <1>2, <2>2 DEF Alive
<1> QED
  BY <1>1, <1>2, ChildrenFrom DEF ChildFrom


-----------------------------------------------------------------------------
(* ChildrenKnown.                                                          *)

Known(c) == c \in proc[Smash].jobs \union Pending(proc[Smash].todo)

(* The pids that steps waits for or lists, once they are on p's stack. *)
LEMMA StepsPending ==
  ASSUME TypeOK, NEW p \in Procs, NEW op, NEW steps, Takes(p, op, steps),
         NEW i \in 1 .. Len(steps), steps[i].op \in PendingOps
  PROVE  steps[i].pid \in Pending(proc'[p].todo)
BY TakesPending

LEMMA NewChildKnown ==
  ASSUME TypeOK, NEW c \in Pids, ForksOff(Smash, c)
  PROVE  Known(c)'
<1> USE ProcsType
<1>1. ASSUME NEW pipe \in Pipes, FirstForked(Smash, c, pipe) \/ BackgroundForked(Smash, c, pipe)
      PROVE  Known(c)'
  <2> DEFINE s == [op |-> "fork second", k |-> pipes + 1, pipe |-> pipe,
                   pid |-> c, second |-> Step(Smash).second]
             t == [op |-> "list job", k |-> pipes + 1, pipe |-> pipe, pid |-> c]
  <2>1. Takes(Smash, "pipe", <<s>>) \/ Takes(Smash, "execute", <<t>>)
    BY <1>1 DEF FirstForked, BackgroundForked
  <2>2. s.op \in PendingOps /\ t.op \in PendingOps /\ s.pid = c /\ t.pid = c
    BY DEF PendingOps
  <2> HIDE DEF s, t
  <2>3. /\ 1 \in 1 .. Len(<<s>>) /\ <<s>>[1] = s
        /\ 1 \in 1 .. Len(<<t>>) /\ <<t>>[1] = t
    OBVIOUS
  <2>4. CASE Takes(Smash, "pipe", <<s>>)
    <3>1. <<s>>[1].pid \in Pending(proc'[Smash].todo)
      BY <2>2, <2>3, <2>4, StepsPending
    <3> QED
      BY <2>2, <2>3, <3>1 DEF Known
  <2>5. CASE Takes(Smash, "execute", <<t>>)
    <3>1. <<t>>[1].pid \in Pending(proc'[Smash].todo)
      BY <2>2, <2>3, <2>5, StepsPending
    <3> QED
      BY <2>2, <2>3, <3>1 DEF Known
  <2> QED
    BY <2>1, <2>4, <2>5
<1>2. CASE SecondForked(Smash, c) \/ ForegroundForked(Smash, c)
  <2> DEFINE s == [op |-> "wait", pid |-> Step(Smash).pid]
             t == [op |-> "wait", pid |-> c]
  <2>1. \/ c \in proc'[Smash].jobs
        \/ Takes(Smash, "fork second", <<s, t>>) \/ Takes(Smash, "execute", <<t>>)
    BY <1>2 DEF SecondForked, ForegroundForked
  <2>2. t.op \in PendingOps /\ t.pid = c
    BY DEF PendingOps
  <2> HIDE DEF s, t
  <2>3. /\ 2 \in 1 .. Len(<<s, t>>) /\ <<s, t>>[2] = t
        /\ 1 \in 1 .. Len(<<t>>) /\ <<t>>[1] = t
    OBVIOUS
  <2>4. CASE Takes(Smash, "fork second", <<s, t>>)
    <3>1. <<s, t>>[2].pid \in Pending(proc'[Smash].todo)
      BY <2>2, <2>3, <2>4, StepsPending
    <3> QED
      BY <2>2, <2>3, <3>1 DEF Known
  <2>5. CASE Takes(Smash, "execute", <<t>>)
    <3>1. <<t>>[1].pid \in Pending(proc'[Smash].todo)
      BY <2>2, <2>3, <2>5, StepsPending
    <3> QED
      BY <2>2, <2>3, <3>1 DEF Known
  <2> QED
    BY <2>1, <2>4, <2>5 DEF Known
<1>3. CASE RedirectionForked(Smash, c)
  BY <1>3 DEF RedirectionForked, Known
<1> QED
  BY <1>1, <1>2, <1>3 DEF ForksOff

(* A child that the shell knows is forgotten only when it is waited for,   *)
(* or taken off the list after it has ended.                               *)
LEMMA StaysPending ==
  ASSUME TypeOK, NEW op, NEW steps, Takes(Smash, op, steps), NEW c, Known(c),
         proc[Smash].jobs \subseteq proc'[Smash].jobs,
         op \in PendingOps /\ c = Step(Smash).pid => Known(c)'
  PROVE  Known(c)'
<1>1. CASE c \in proc[Smash].jobs
  BY <1>1 DEF Known
<1>2. CASE c \in Pending(proc[Smash].todo)
  <2>1. c \in Pending(proc'[Smash].todo) \/ (op \in PendingOps /\ c = Step(Smash).pid)
    BY <1>2, ProcsType, TakesPending
  <2> QED
    BY <2>1 DEF Known
<1> QED
  BY <1>1, <1>2 DEF Known

LEMMA OldChildKnown ==
  ASSUME TypeOK, NewLine \/ \E p \in Procs : Kinds(p), NEW c \in Pids, Known(c),
         proc'[c].state # "none", proc'[Smash].state = "shell", ~forkFailed'
  PROVE  Known(c)'
<1>0. Smash \in Procs /\ c \in Procs /\ c # Smash
  BY ProcsType, CommandsAssumption DEF Smash
<1>1. CASE Kept(Smash)
  BY <1>1 DEF Kept, Known
<1>2. CASE Gone(Smash)
  BY <1>2 DEF Gone
<1>3. CASE NewLine
  <2>1. c \notin Finished
    BY <1>0, <1>3 DEF NewLine
  <2>2. proc[Smash].todo = <<>>
    BY <1>3 DEF NewLine
  <2>3. Pending(<<>>) = {}
    BY DEF Pending
  <2> QED
    BY <1>3, <2>1, <2>2, <2>3 DEF NewLine, Known
<1>4. CASE Quiet(Smash)
  <2>1. PICK steps : Takes(Smash, Step(Smash).op, steps)
    BY <1>4 DEF Quiet
  <2>2. Step(Smash).op \notin PendingOps /\ proc'[Smash].jobs = proc[Smash].jobs
    BY <1>4 DEF Quiet, Same
  <2> QED
    BY <2>1, <2>2, StaysPending
<1>5. CASE Listed(Smash)
  <2>1. /\ Takes(Smash, "list job", <<>>)
        /\ proc'[Smash].jobs = proc[Smash].jobs \union {Step(Smash).pid}
    BY <1>5 DEF Listed
  <2>2. c = Step(Smash).pid => Known(c)'
    BY <2>1 DEF Known
  <2> QED
    BY <2>1, <2>2, StaysPending
<1>6. CASE Started(Smash)
  BY <1>6 DEF Started
<1>7. ASSUME NEW d \in Pids, Waited(Smash, d)
      PROVE  Known(c)'
  <2>1. /\ Takes(Smash, "wait", <<>>) /\ proc'[Smash].jobs = proc[Smash].jobs
        /\ c # Step(Smash).pid
    BY <1>7 DEF Waited, Same
  <2> QED
    BY <2>1, StaysPending
<1>8. ASSUME NEW d \in Pids, ForksOff(Smash, d)
      PROVE  Known(c)'
  <2>1. CASE SecondForked(Smash, d)
    <3> DEFINE s == [op |-> "wait", pid |-> Step(Smash).pid]
               t == [op |-> "wait", pid |-> d]
    <3>1. \/ /\ Takes(Smash, "fork second", <<>>)
             /\ proc'[Smash].jobs = proc[Smash].jobs \union {Step(Smash).pid, d}
          \/ /\ Takes(Smash, "fork second", <<s, t>>)
             /\ proc'[Smash].jobs = proc[Smash].jobs
      BY <2>1 DEF SecondForked
    <3>2. s.op \in PendingOps /\ s.pid = Step(Smash).pid
      BY DEF PendingOps
    <3> HIDE DEF s, t
    <3>3. 1 \in 1 .. Len(<<s, t>>) /\ <<s, t>>[1] = s
      OBVIOUS
    <3>4. c = Step(Smash).pid => Known(c)'
      <4>1. CASE ~Takes(Smash, "fork second", <<s, t>>)
        BY <3>1, <4>1 DEF Known
      <4>2. CASE Takes(Smash, "fork second", <<s, t>>)
        <5>1. <<s, t>>[1].pid \in Pending(proc'[Smash].todo)
          BY <1>0, <3>2, <3>3, <4>2, StepsPending
        <5> QED
          BY <3>2, <3>3, <5>1 DEF Known
      <4> QED
        BY <4>1, <4>2
    <3> QED
      BY <3>1, <3>4, StaysPending
  <2>2. ASSUME NEW op, NEW steps, Takes(Smash, op, steps), op \notin PendingOps,
               proc[Smash].jobs \subseteq proc'[Smash].jobs
        PROVE  Known(c)'
    BY <2>2, StaysPending
  <2>3. "pipe" \notin PendingOps /\ "execute" \notin PendingOps /\ "redirect&" \notin PendingOps
    BY DEF PendingOps
  <2>4. CASE \E pipe \in Pipes : FirstForked(Smash, d, pipe)
    BY <2>2, <2>3, <2>4 DEF FirstForked
  <2>5. CASE \E pipe \in Pipes : BackgroundForked(Smash, d, pipe)
    BY <2>2, <2>3, <2>5 DEF BackgroundForked
  <2>6. CASE RedirectionForked(Smash, d)
    BY <2>2, <2>3, <2>6 DEF RedirectionForked
  <2>7. CASE ForegroundForked(Smash, d)
    BY <2>2, <2>3, <2>7 DEF ForegroundForked
  <2> QED
    BY <1>8, <2>1, <2>4, <2>5, <2>6, <2>7 DEF ForksOff
<1> QED
  BY <1>0, <1>1, <1>2, <1>3, <1>4, <1>5, <1>6, <1>7, <1>8, Fates, CommandsAssumption
  DEF StepsAlone, Smash

LEMMA ShellBefore ==
  ASSUME NewLine \/ \E p \in Procs : Kinds(p), proc'[Smash].state = "shell"
  PROVE  proc[Smash].state = "shell"
<1>1. CASE Kept(Smash)
  BY <1>1 DEF Kept
<1>2. CASE Gone(Smash)
  BY <1>2 DEF Gone
<1>3. CASE StepsAlone(Smash)
  BY <1>3 DEF StepsAlone, Quiet, Listed, Takes, Started, NewLine, Waited
<1>4. ASSUME NEW c \in Pids, ForksOff(Smash, c)
      PROVE  proc[Smash].state = "shell"
  BY <1>4 DEF ForksOff, FirstForked, BackgroundForked, SecondForked, RedirectionForked,
              ForegroundForked, Takes
<1>5. Smash \in Procs /\ Smash \notin Pids
  BY ProcsType, CommandsAssumption DEF Smash
<1> QED
  BY <1>1, <1>2, <1>3, <1>4, <1>5, Fates

LEMMA FailureStays ==
  ASSUME NewLine \/ \E p \in Procs : Kinds(p), ~forkFailed', TypeOK
  PROVE  ~forkFailed /\ UNCHANGED forkFailed
<1>1. forkFailed \in BOOLEAN
  BY DEF TypeOK
<1>2. CASE NewLine
  BY <1>2 DEF NewLine
<1>3. ASSUME NEW p \in Procs, Kinds(p)
      PROVE  UNCHANGED forkFailed
  <2>1. CASE Quiet(p)
    BY <2>1 DEF Quiet
  <2>2. ASSUME NEW c \in Pids, ForksOff(p, c)
        PROVE  UNCHANGED forkFailed
    <3>1. Forked(p, c)
      BY <2>2, ForksOffForked
    <3> QED
      BY <3>1 DEF Forked
  <2>3. CASE Idle \/ Listed(p) \/ Started(p) \/ Leaves(p) \/ \E c \in Pids : Waited(p, c)
    BY <2>3 DEF Idle, Listed, Started, Leaves, Waited
  <2> QED
    BY <1>3, <2>1, <2>2, <2>3 DEF Kinds, ForksOff
<1> QED
  BY <1>1, <1>2, <1>3

LEMMA ChildrenKnownStep ==
  ASSUME TypeOK, ChildrenKnown, NewLine \/ \E p \in Procs : Kinds(p)
  PROVE  ChildrenKnown'
<1> SUFFICES ASSUME proc'[Smash].state = "shell", ~forkFailed', NEW c \in Pids,
                    proc'[c].state # "none", proc'[c].parent = Smash
             PROVE  Known(c)'
  BY DEF ChildrenKnown, Known
<1>1. proc[Smash].state = "shell" /\ ~forkFailed
  BY ShellBefore, FailureStays
<1>2. CASE proc[c].state # "none" /\ proc'[c].parent \in {proc[c].parent, InitPid}
  <2>1. proc[c].parent = Smash
    BY <1>2 DEF Smash, InitPid
  <2>2. Known(c)
    BY <1>1, <1>2, <2>1 DEF ChildrenKnown, Known
  <2> QED
    BY <2>2, OldChildKnown
<1>3. ASSUME NEW p \in Procs, ForksOff(p, c), proc'[c].parent = p
      PROVE  Known(c)'
  BY <1>3, NewChildKnown
<1> QED
  BY <1>2, <1>3, ChildrenFrom DEF ChildFrom


-----------------------------------------------------------------------------
(* Handshakes.                                                             *)

Handshake(p) ==
  Doing(p, "list job") =>
    /\ Step(p).k \notin written
    /\ proc[p].fds[Step(p).pipe[2]] = WriteEnd(Step(p).k)
    /\ Step(p).pipe[1] # Step(p).pipe[2]

OwnHandshake(p, q) ==
  Doing(p, "list job") /\ Doing(q, "list job") /\ Step(p).k = Step(q).k => p = q

LEMMA ListedIsDone ==
  ASSUME TypeOK, Shape, NEW p \in Procs, Listed(p)
  PROVE  ~Doing(p, "list job")'
<1>1. \A op : Doing(p, op)' => op \in LaterOps
  BY TakesHead DEF Listed
<1>2. "list job" \notin LaterOps
  BY DEF LaterOps
<1> QED
  BY <1>1, <1>2

LEMMA NewJob ==
  ASSUME TypeOK, Shape, NEW p \in Procs, NEW c \in Pids, NEW pipe, BackgroundForked(p, c, pipe)
  PROVE  /\ Doing(p, "list job")' /\ Step(p)'.k = pipes + 1 /\ Step(p)'.pipe = pipe
         /\ Step(p)'.pid = c
BY ParentStep DEF About

LEMMA BackgroundForkedPipe ==
  ASSUME TypeOK, NEW p \in Procs, NEW c, NEW pipe, BackgroundForked(p, c, pipe)
  PROVE  /\ proc'[p].fds[pipe[2]] = WriteEnd(pipes + 1) /\ pipe[1] # pipe[2]
         /\ UNCHANGED written /\ OnlyChanges({p, c}) /\ Doing(p, "execute")
<1>1. /\ NewPipe(p, pipe) /\ UNCHANGED written /\ Forked(p, c)
      /\ Doing(p, "execute")
  BY DEF BackgroundForked, Takes, Doing
<1>2. WithTwo(proc'[p].fds, proc[p].fds, pipe[1], ReadEnd(pipes + 1),
              pipe[2], WriteEnd(pipes + 1))
  BY <1>1, NewPipeFds
<1>3. pipe[1] # pipe[2] /\ pipe[2] \in Fds
  BY <1>1 DEF NewPipe
<1>4. proc'[p].fds[pipe[2]] = WriteEnd(pipes + 1)
  BY <1>2, <1>3 DEF WithTwo
<1> QED
  BY <1>1, <1>3, <1>4 DEF Forked

LEMMA JobNumber ==
  ASSUME TypeOK, Numbered, NEW p \in Procs, Doing(p, "list job")
  PROVE  Step(p).k \in Nat /\ Step(p).k <= pipes
<1>1. Step(p) \in Steps /\ Step(p).op = "list job"
  BY HeadType DEF Doing
<1> QED
  BY <1>1, StepType DEF Numbered

LEMMA HandshakesStep ==
  ASSUME TypeOK, Shape, Numbered, Handshakes, NewLine \/ \E p \in Procs : Kinds(p)
  PROVE  Handshakes'
<1>0. pipes \in Nat /\ ~(pipes + 1 <= pipes) /\ \A k \in written : k <= pipes
  <2>1. pipes \in Nat
    BY DEF TypeOK
  <2>2. ~(pipes + 1 <= pipes)
    BY <2>1
  <2> QED
    BY <2>1, <2>2 DEF Numbered
<1>1. ASSUME NEW p \in Procs, Doing(p, "list job")'
      PROVE  \/ Kept(p) /\ Doing(p, "list job") /\ Step(p)' = Step(p)
             \/ \E c \in Pids, pipe \in Pipes : BackgroundForked(p, c, pipe)
  BY <1>1, Heads, KeptHead DEF HeadsKnown
<1>2. ASSUME NEW p \in Procs
      PROVE  Handshake(p)'
  <2> SUFFICES ASSUME Doing(p, "list job")' PROVE Handshake(p)'
    BY DEF Handshake
  <2>1. CASE Kept(p) /\ Doing(p, "list job") /\ Step(p)' = Step(p)
    <3>1. /\ Step(p).k \notin written /\ proc[p].fds[Step(p).pipe[2]] = WriteEnd(Step(p).k)
          /\ Step(p).pipe[1] # Step(p).pipe[2]
      BY <2>1 DEF Handshakes
    <3>2. Step(p).k \notin written'
      <4>1. ASSUME NEW r \in Procs, Listed(r) PROVE Step(r).k # Step(p).k
        <5>1. Doing(r, "list job") /\ ~Doing(r, "list job")'
          BY <4>1, ListedIsDone DEF Listed, Takes, Doing
        <5> QED
          BY <2>1, <5>1 DEF Handshakes
      <4> QED
        BY <3>1, <4>1, PipesGrow
    <3> QED
      BY <2>1, <3>1, <3>2 DEF Handshake, Kept
  <2>2. ASSUME NEW c \in Pids, NEW pipe \in Pipes, BackgroundForked(p, c, pipe)
        PROVE  Handshake(p)'
    <3>1. Step(p)'.k = pipes + 1 /\ Step(p)'.pipe = pipe
      BY <2>2, NewJob
    <3>2. pipes + 1 \notin written
      BY <1>0
    <3>3. /\ proc'[p].fds[pipe[2]] = WriteEnd(pipes + 1) /\ pipe[1] # pipe[2]
          /\ UNCHANGED written
      BY <2>2, BackgroundForkedPipe
    <3> QED
      BY <3>1, <3>2, <3>3 DEF Handshake
  <2> QED
    BY <1>1, <2>1, <2>2
<1>3. ASSUME NEW p \in Procs, NEW q \in Procs, Doing(p, "list job")', Doing(q, "list job")',
             Step(p)'.k = Step(q)'.k, p # q
      PROVE  FALSE
  <2>1. ASSUME NEW r \in Procs, NEW s \in Procs, r # s, Step(r)'.k = Step(s)'.k,
               NEW c \in Pids, NEW pipe \in Pipes, BackgroundForked(r, c, pipe),
               Kept(s), Doing(s, "list job"), Step(s)' = Step(s)
        PROVE  FALSE
    <3>1. Step(r)'.k = pipes + 1
      BY <2>1, NewJob
    <3>2. Step(s).k \in Nat /\ Step(s).k <= pipes
      BY <2>1, JobNumber
    <3> QED
      BY <1>0, <2>1, <3>1, <3>2
  <2>2. ASSUME NEW c \in Pids, NEW pipe \in Pipes, BackgroundForked(p, c, pipe),
               NEW d \in Pids, NEW pipe2 \in Pipes, BackgroundForked(q, d, pipe2)
        PROVE  FALSE
    <3>1. OnlyChanges({p, c}) /\ Doing(q, "execute")
      BY <2>2, BackgroundForkedPipe
    <3>2. proc[c].state = "none" /\ proc[q].state = "shell"
      BY <2>2 DEF BackgroundForked, Forked, Takes
    <3>3. proc'[q] = proc[q]
      BY <1>3, <3>1, <3>2 DEF OnlyChanges
    <3>4. Step(q)' = Step(q)
      BY <3>3 DEF Step
    <3> QED
      BY <1>3, <3>1, <3>4 DEF Doing
  <2>3. CASE Doing(p, "list job") /\ Doing(q, "list job") /\ Step(p)' = Step(p) /\ Step(q)' = Step(q)
    BY <1>3, <2>3 DEF Handshakes
  <2> QED
    BY <1>1, <1>3, <2>1, <2>2, <2>3
<1>4. \A p, q \in Procs : OwnHandshake(p, q)'
  BY <1>3 DEF OwnHandshake
<1> QED
  BY <1>2, <1>4 DEF Handshakes, Handshake, OwnHandshake

-----------------------------------------------------------------------------
(* StartersKnown and StartsListed.                                         *)

(* A job that has not ended stays on the list of a shell that lives. *)
LEMMA JobStays ==
  ASSUME TypeOK, NewLine \/ \E p \in Procs : Kinds(p), NEW r \in Procs,
         proc[r].state \in Alive, ~Leaves(r),
         NEW c \in Pids, proc[c].state # "zombie", c \in proc[r].jobs
  PROVE  c \in proc'[r].jobs
<1>1. proc'[r].state \in Alive
  BY LivesOn
<1>2. CASE Kept(r)
  BY <1>2 DEF Kept
<1>3. CASE Gone(r)
  BY <1>1, <1>3 DEF Gone, Alive
<1>4. CASE StepsAlone(r)
  <2>1. c \notin Finished
    BY DEF Finished
  <2> QED
    BY <1>4, <2>1 DEF StepsAlone, Quiet, Same, Listed, Started, NewLine, Waited
<1>5. ASSUME NEW d \in Pids, ForksOff(r, d)
      PROVE  c \in proc'[r].jobs
  BY <1>5 DEF ForksOff, FirstForked, BackgroundForked, SecondForked, RedirectionForked,
              ForegroundForked
<1>6. ASSUME NEW p \in Procs, ForksOff(p, r)
      PROVE  FALSE
  <2>1. Forked(p, r)
    BY <1>6, ForksOffForked
  <2> QED
    BY <2>1 DEF Forked, Alive
<1> QED
  BY <1>2, <1>3, <1>4, <1>5, <1>6, Fates

LEMMA ListingStays ==
  ASSUME TypeOK, Shape, NewLine \/ \E p \in Procs : Kinds(p), NEW r \in Procs,
         proc[r].state \in Alive, ~Leaves(r), NEW c \in Pids, NEW k, Listing(r, c, k)
  PROVE  Listing(r, c, k)' \/ c \in proc'[r].jobs
<1>0. proc[r].todo # <<>> /\ Step(r).op = "list job" /\ Step(r).pid = c /\ Step(r).k = k
  BY DEF Listing, Doing
<1>1. proc'[r].state \in Alive
  BY LivesOn
<1>2. CASE Kept(r)
  <2>1. Step(r)' = Step(r) /\ Doing(r, "list job")'
    BY <1>0, <1>2, KeptHead DEF Doing
  <2> QED
    BY <1>0, <2>1 DEF Listing
<1>3. CASE Gone(r)
  BY <1>1, <1>3 DEF Gone, Alive
<1>4. CASE StepsAlone(r)
  <2>1. Listed(r)
    BY <1>0, <1>4 DEF StepsAlone, Quiet, Started, NewLine, Waited, Takes
  <2> QED
    BY <1>0, <2>1 DEF Listed
<1>5. ASSUME NEW d \in Pids, ForksOff(r, d)
      PROVE  FALSE
  BY <1>0, <1>5 DEF ForksOff, FirstForked, BackgroundForked, SecondForked, RedirectionForked,
              ForegroundForked, Takes
<1>6. ASSUME NEW p \in Procs, ForksOff(p, r)
      PROVE  FALSE
  <2>1. Forked(p, r)
    BY <1>6, ForksOffForked
  <2> QED
    BY <2>1 DEF Forked, Alive
<1> QED
  BY <1>2, <1>3, <1>4, <1>5, <1>6, Fates

(* The parent of a child that is not an orphan after the step. *)
LEMMA ParentRuns ==
  ASSUME TypeOK, ParentsLive, NEW c \in Pids, proc[c].state # "none",
         proc'[c].state # "none", proc'[c].parent = proc[c].parent, proc'[c].parent # InitPid
  PROVE  /\ proc[c].parent \in Procs /\ proc[c].parent # c
         /\ proc[proc[c].parent].state \in Alive /\ ~Leaves(proc[c].parent)
<1>1. proc[c].parent \in Procs /\ c \in Procs
  <2>1. c \in Procs
    BY ProcsType
  <2>2. proc[c].parent \in Procs \union {InitPid}
    BY <2>1 DEF TypeOK, Process
  <2> QED
    BY <2>1, <2>2
<1>2. proc[c].parent # c /\ proc[proc[c].parent].state \in Alive
  BY DEF ParentsLive, ParentLives
<1> QED
  BY <1>1, <1>2, Orphans

StarterKnown(c) ==
  Starting(c) /\ proc[c].parent # InitPid =>
    \/ c \in proc[proc[c].parent].jobs
    \/ Listing(proc[c].parent, c, Step(c).k)

LEMMA StartersKnownStep ==
  ASSUME TypeOK, Shape, Shape', ParentsLive, StartersKnown, NewLine \/ \E p \in Procs : Kinds(p)
  PROVE  StartersKnown'
<1> SUFFICES ASSUME NEW c \in Pids, Starting(c)', proc'[c].parent # InitPid
             PROVE  StarterKnown(c)'
  BY DEF StartersKnown, StarterKnown
<1>0. c \in Procs
  BY ProcsType
<1>1. proc'[c].state = "shell"
  BY <1>0 DEF Starting, Doing, Shape
<1>2. ASSUME Starting(c), proc'[c].parent = proc[c].parent, Step(c)'.k = Step(c).k
      PROVE  StarterKnown(c)'
  <2>0. PICK r, k : r = proc[c].parent /\ k = Step(c).k
    OBVIOUS
  <2>1. proc[c].state = "shell"
    BY <1>0, <1>2 DEF Starting, Doing, Shape
  <2>2. r \in Procs /\ proc[r].state \in Alive /\ ~Leaves(r)
    BY <1>1, <1>2, <2>0, <2>1, ParentRuns
  <2>3. r # InitPid /\ proc'[c].parent = r /\ Step(c)'.k = k
    BY <1>2, <2>0
  <2>4. c \in proc[r].jobs \/ Listing(r, c, k)
    BY <1>2, <2>0, <2>3 DEF StartersKnown
  <2>5. CASE c \in proc[r].jobs
    <3>1. c \in proc'[r].jobs
      BY <2>1, <2>2, <2>5, JobStays
    <3> QED
      BY <2>3, <3>1 DEF StarterKnown
  <2>6. CASE Listing(r, c, k)
    <3>1. c \in proc'[r].jobs \/ Listing(r, c, k)'
      BY <2>2, <2>6, ListingStays
    <3> QED
      BY <2>3, <3>1 DEF StarterKnown, Listing
  <2> QED
    BY <2>4, <2>5, <2>6
<1>3. CASE Kept(c) /\ Starting(c)
  <2>1. Step(c)' = Step(c)
    BY <1>3, KeptHead
  <2> QED
    BY <1>2, <1>3, <2>1 DEF Kept
<1>4. CASE Quiet(c) /\ Doing(c, "close write end") /\ Step(c)'.k = Step(c).k
  BY <1>2, <1>4 DEF Quiet, Same, Starting
<1>5. ASSUME NEW p \in Procs, NEW pipe \in Pipes, BackgroundForked(p, c, pipe)
      PROVE  StarterKnown(c)'
  <2>1. /\ Doing(p, "list job")' /\ Step(p)'.k = pipes + 1 /\ Step(p)'.pid = c
    BY <1>5, NewJob
  <2>2. proc'[c].parent = p
    BY <1>5 DEF BackgroundForked, Forked
  <2>3. Step(c)'.k = pipes + 1
    BY <1>5, ChildHead DEF Starting
  <2> QED
    BY <2>1, <2>2, <2>3 DEF StarterKnown, Listing
<1> QED
  BY <1>0, <1>3, <1>4, <1>5, Heads DEF HeadsKnown

LEMMA StartsListedStep ==
  ASSUME TypeOK, Shape, ParentsLive, Handshakes, StartersKnown, StartsListed,
         NewLine \/ \E p \in Procs : Kinds(p)
  PROVE  StartsListed'
<1> SUFFICES ASSUME NEW c \in Pids, proc'[c].state = "program", proc'[c].background,
                    proc'[c].parent # InitPid
             PROVE  c \in proc'[proc'[c].parent].jobs
  BY DEF StartsListed
<1>0. c \in Procs /\ c # Smash
  BY ProcsType, CommandsAssumption DEF Smash
<1> DEFINE r == proc[c].parent
<1>1. CASE Kept(c)
  <2>1. proc[c].state = "program" /\ proc[c].background /\ proc'[c].parent = r /\ r # InitPid
    BY <1>1 DEF Kept
  <2>2. r \in Procs /\ proc[r].state \in Alive /\ ~Leaves(r)
    BY <2>1, ParentRuns
  <2>3. c \in proc[r].jobs
    BY <2>1 DEF StartsListed
  <2> HIDE DEF r
  <2>4. c \in proc'[r].jobs
    BY <2>1, <2>2, <2>3, JobStays
  <2> QED
    BY <2>1, <2>4
<1>2. CASE Gone(c)
  BY <1>2 DEF Gone
<1>3. CASE StepsAlone(c)
  <2>1. Started(c)
    BY <1>0, <1>3 DEF StepsAlone, Quiet, Same, Listed, Waited, Takes
  <2>2. /\ proc[c].state = "shell" /\ proc'[c].parent = r /\ r # InitPid
        /\ Doing(c, "read") /\ ReadReturns(Step(c).k) /\ OnlyChanges({c})
    BY <2>1 DEF Started, Doing
  <2>3. r \in Procs /\ r # c
    BY <2>2, ParentRuns
  <2>4. ~Listing(r, c, Step(c).k)
    <3> SUFFICES ASSUME Listing(r, c, Step(c).k) PROVE FALSE
      OBVIOUS
    <3>1. Doing(r, "list job") /\ Step(r).k = Step(c).k
      BY DEF Listing
    <3>2. Step(c).k \notin written /\ proc[r].fds[Step(r).pipe[2]] = WriteEnd(Step(c).k)
      BY <2>3, <3>1 DEF Handshakes
    <3>3. Step(r) \in Steps /\ Step(r).op = "list job"
      BY <2>3, <3>1, HeadType DEF Doing
    <3>4. Step(r).pipe[2] \in Fds
      BY <3>3, StepType
    <3>5. r \in Holders(WriteEnd(Step(c).k))
      BY <2>3, <3>2, <3>4 DEF Holders
    <3> QED
      BY <2>2, <3>2, <3>5 DEF ReadReturns
  <2>5. c \in proc[r].jobs
    BY <2>2, <2>4 DEF StartersKnown, Starting
  <2>6. proc'[r] = proc[r]
    BY <2>2, <2>3 DEF OnlyChanges
  <2> QED
    BY <2>2, <2>5, <2>6
<1>4. ASSUME NEW d \in Pids, ForksOff(c, d)
      PROVE  FALSE
  <2>1. Forked(c, d)
    BY <1>4, ForksOffForked
  <2> QED
    BY <2>1 DEF Forked
<1>5. ASSUME NEW p \in Procs, ForksOff(p, c)
      PROVE  FALSE
  BY <1>5 DEF ForksOff, FirstForked, BackgroundForked, SecondForked, RedirectionForked,
              ForegroundForked
<1> QED
  BY <1>0, <1>1, <1>2, <1>3, <1>4, <1>5, Fates


-----------------------------------------------------------------------------
(* WritersKnown.                                                           *)

LEMMA Ends ==
  /\ \A k : ReadEnd(k)[1] = "read" /\ ReadEnd(k)[2] = k
  /\ \A k : WriteEnd(k)[1] = "write" /\ WriteEnd(k)[2] = k
  /\ None[1] = "none" /\ File[1] = "file" /\ Directory[1] = "directory" /\ Tty[1] = "tty"
BY DEF ReadEnd, WriteEnd, None, File, Directory, Tty

(* Only the shell makes pipes. *)
LEMMA PipesOfTheShell ==
  ASSUME TypeOK, Shape, NEW p \in Procs, Doing(p, "pipe") \/ Doing(p, "fork second")
  PROVE  p = Smash
BY HeadFits DEF Doing, Fits, ShellOps

LEMMA ForksOffDoing ==
  ASSUME NEW p, NEW c, ForksOff(p, c)
  PROVE  /\ ~Doing(p, "stdin from pipe")
         /\ \/ Doing(p, "pipe") /\ \E pipe \in Pipes : FirstForked(p, c, pipe)
            \/ Doing(p, "fork second") /\ SecondForked(p, c)
            \/ /\ Doing(p, "execute") \/ Doing(p, "redirect&")
               /\ proc'[c].side = proc[p].side
BY DEF ForksOff, FirstForked, BackgroundForked, SecondForked, RedirectionForked,
       ForegroundForked, Takes, Doing

(* Where a writing end is from that was there before the step. *)
FromItself(w, fd, e) ==
  /\ proc'[w].side = proc[w].side
  /\ Doing(w, "stdin from pipe") =>
       (Kept(w) /\ e = fd) \/ e # Step(w).pipe[2] \/ e = Step(w).pipe[1]

FromParent(w, r) ==
  /\ ForksOff(r, w) /\ ~Doing(r, "stdin from pipe")
  /\ r = Smash \/ proc'[w].side = proc[r].side

HeldBefore(w, fd, k) ==
  \E r \in Procs, e \in Fds :
    /\ proc[r].fds[e] = WriteEnd(k)
    /\ (r = w /\ FromItself(w, fd, e)) \/ FromParent(w, r)

(* In a fork, whoever holds an old writing end has it from the parent. *)
LEMMA HeldByParent ==
  ASSUME TypeOK, Numbered, NEW p \in Procs, NEW c \in Pids, ForksOff(p, c),
         NEW k \in Nat, k <= pipes, NEW fd \in Fds,
         proc'[p].fds[fd] = WriteEnd(k) \/ proc'[c].fds[fd] = WriteEnd(k)
  PROVE  proc[p].fds[fd] = WriteEnd(k)
<1>0. pipes \in Nat /\ ~(pipes + 1 <= pipes) /\ k # pipes + 1
  <2>1. pipes \in Nat
    BY DEF TypeOK
  <2> QED
    BY <2>1
<1>1. ReadEnd(pipes + 1) # WriteEnd(k) /\ WriteEnd(pipes + 1) # WriteEnd(k) /\ None # WriteEnd(k)
  <2>1. WriteEnd(pipes + 1)[2] = pipes + 1 /\ WriteEnd(k)[2] = k /\ WriteEnd(k)[1] = "write"
        /\ ReadEnd(pipes + 1)[1] = "read" /\ None[1] = "none"
    BY Ends
  <2> QED
    BY <1>0, <2>1
<1>2. ASSUME NEW pipe \in Pipes, FirstForked(p, c, pipe) \/ BackgroundForked(p, c, pipe)
      PROVE  proc[p].fds[fd] = WriteEnd(k)
  <2>1. NewPipe(p, pipe) /\ proc'[c].fds = proc'[p].fds
    BY <1>2 DEF FirstForked, BackgroundForked
  <2>2. WithTwo(proc'[p].fds, proc[p].fds, pipe[1], ReadEnd(pipes + 1),
                pipe[2], WriteEnd(pipes + 1))
    BY <2>1, NewPipeFds
  <2>3. proc'[p].fds[fd] = WriteEnd(k)
    BY <2>1
  <2> QED
    BY <1>1, <2>2, <2>3 DEF WithTwo
<1>3. CASE SecondForked(p, c)
  <2>1. WithTwo(proc'[p].fds, proc[p].fds, Step(p).pipe[1], None, Step(p).pipe[2], None)
    BY <1>3, SecondForkedFds
  <2>2. proc'[c].fds = proc[p].fds
    BY <1>3 DEF SecondForked
  <2> QED
    BY <1>1, <2>1, <2>2 DEF WithTwo
<1>4. CASE RedirectionForked(p, c) \/ ForegroundForked(p, c)
  BY <1>4 DEF RedirectionForked, ForegroundForked
<1> QED
  BY <1>2, <1>3, <1>4 DEF ForksOff

LEMMA OldEnds ==
  ASSUME TypeOK, Shape, Numbered, NewLine \/ \E p \in Procs : Kinds(p),
         NEW w \in Procs, NEW fd \in Fds, NEW k \in Nat, k <= pipes,
         proc'[w].fds[fd] = WriteEnd(k)
  PROVE  HeldBefore(w, fd, k)
<1>0. WriteEnd(k) \notin {None, File, Directory}
  BY Ends
<1>1. CASE Kept(w)
  BY <1>1 DEF Kept, HeldBefore, FromItself
<1>2. CASE Gone(w)
  BY <1>0, <1>2 DEF Gone
<1>3. CASE StepsAlone(w)
  <2>1. CASE Quiet(w)
    <3>1. Carried(w, fd) /\ proc'[w].side = proc[w].side
      BY <2>1 DEF Quiet, Same
    <3>2. WriteEnd(k) \notin {ReadEnd(pipes + 1), WriteEnd(pipes + 1)}
      <4>1. WriteEnd(pipes + 1)[2] = pipes + 1 /\ WriteEnd(k)[2] = k /\ WriteEnd(k)[1] = "write"
            /\ ReadEnd(pipes + 1)[1] = "read"
        BY Ends
      <4>2. pipes \in Nat
        BY DEF TypeOK
      <4>3. k # pipes + 1
        BY <4>2
      <4> QED
        BY <4>1, <4>3
    <3>3. PICK e \in Fds :
            /\ proc'[w].fds[fd] = proc[w].fds[e]
            /\ Doing(w, "stdin from pipe") => e # Step(w).pipe[2] \/ e = Step(w).pipe[1]
      BY <1>0, <3>1, <3>2 DEF Carried
    <3>4. FromItself(w, fd, e)
      BY <3>1, <3>3 DEF FromItself
    <3> QED
      BY <3>3, <3>4 DEF HeldBefore
  <2>2. CASE ~Quiet(w)
    <3>1. proc'[w].side = proc[w].side /\ ~Doing(w, "stdin from pipe")
      BY <1>3, <2>2 DEF StepsAlone, Listed, Started, NewLine, Waited, Takes, Doing, Same
    <3>2. proc'[w].fds[fd] = proc[w].fds[fd]
      <4>1. CASE Listed(w)
        <5>1. WithOne(proc'[w].fds, proc[w].fds, Step(w).pipe[1], None)
          BY <4>1, ListedFds
        <5> QED
          BY <1>0, <5>1 DEF WithOne
      <4>2. CASE ~Listed(w)
        BY <1>3, <2>2, <4>2 DEF StepsAlone, Started, NewLine, Waited
      <4> QED
        BY <4>1, <4>2
    <3>3. FromItself(w, fd, fd)
      BY <3>1 DEF FromItself
    <3> QED
      BY <3>2, <3>3 DEF HeldBefore
  <2> QED
    BY <2>1, <2>2
<1>4. ASSUME NEW c \in Pids, ForksOff(w, c)
      PROVE  HeldBefore(w, fd, k)
  <2>1. proc[w].fds[fd] = WriteEnd(k)
    BY <1>4, HeldByParent
  <2>2. proc'[w].side = proc[w].side
    <3>1. Forked(w, c)
      BY <1>4, ForksOffForked
    <3> QED
      BY <3>1 DEF Forked
  <2>3. ~Doing(w, "stdin from pipe")
    BY <1>4, ForksOffDoing
  <2> QED
    BY <2>1, <2>2, <2>3 DEF HeldBefore, FromItself
<1>5. ASSUME NEW p \in Procs, w \in Pids, ForksOff(p, w)
      PROVE  HeldBefore(w, fd, k)
  <2>1. proc[p].fds[fd] = WriteEnd(k)
    BY <1>5, HeldByParent
  <2>2. FromParent(w, p)
    <3>1. /\ ~Doing(p, "stdin from pipe")
          /\ Doing(p, "pipe") \/ Doing(p, "fork second") \/ proc'[w].side = proc[p].side
      BY <1>5, ForksOffDoing
    <3> QED
      BY <1>5, <3>1, PipesOfTheShell DEF FromParent
  <2> QED
    BY <2>1, <2>2 DEF HeldBefore
<1> QED
  BY <1>1, <1>2, <1>3, <1>4, <1>5, Fates

-----------------------------------------------------------------------------
(* The three parts of WritersKnown.                                        *)

SecondKnown(k) ==
  \A w \in Procs, fd \in Fds : proc[w].fds[fd] = WriteEnd(k) => MayHold(w, fd, k)

LEMMA SideType == ASSUME TypeOK, NEW p \in Procs PROVE proc[p].side \in Files
BY DEF TypeOK, Process

LEMMA ReadSide ==
  ASSUME NEW file \in Files, file[1] = "read"
  PROVE  file[2] \in Nat /\ file = ReadEnd(file[2])
BY DEF Files, ReadEnd

LEMMA OldSecond ==
  ASSUME TypeOK, Shape, Numbered, ReadersKnown, NewLine \/ \E p \in Procs : Kinds(p),
         NEW k \in Nat, k <= pipes, SecondKnown(k)
  PROVE  SecondKnown(k)'
<1> SUFFICES ASSUME NEW w \in Procs, NEW fd \in Fds, proc'[w].fds[fd] = WriteEnd(k)
             PROVE  MayHold(w, fd, k)'
  BY DEF SecondKnown
<1>1. HeldBefore(w, fd, k)
  BY OldEnds
<1>2. PICK r \in Procs, e \in Fds :
        /\ proc[r].fds[e] = WriteEnd(k)
        /\ (r = w /\ FromItself(w, fd, e)) \/ FromParent(w, r)
  BY <1>1 DEF HeldBefore
<1>3. MayHold(r, e, k)
  BY <1>2 DEF SecondKnown
<1>4. CASE r = w /\ FromItself(w, fd, e)
  <2>1. CASE proc[w].side = WriteEnd(k)
    BY <1>4, <2>1 DEF FromItself, MayHold
  <2>2. CASE Doing(w, "stdin from pipe") /\ Step(w).pipe[2] = e
    <3>1. e # Step(w).pipe[1]
      <4>1. proc[w].fds[Step(w).pipe[1]][1] = "read"
        BY <2>2 DEF ReadersKnown
      <4>2. WriteEnd(k)[1] = "write"
        BY Ends
      <4> QED
        BY <1>2, <1>4, <4>1, <4>2
    <3>2. Kept(w) /\ e = fd
      BY <1>4, <2>2, <3>1 DEF FromItself
    <3>3. Doing(w, "stdin from pipe")' /\ Step(w)' = Step(w)
      BY <2>2, <3>2, KeptHead
    <3> QED
      BY <2>2, <3>2, <3>3 DEF MayHold
  <2> QED
    BY <1>3, <1>4, <2>1, <2>2 DEF MayHold
<1>5. CASE FromParent(w, r)
  <2>1. proc[r].side = WriteEnd(k)
    BY <1>3, <1>5 DEF MayHold, FromParent
  <2>2. r # Smash
    <3>1. WriteEnd(k) # None
      BY Ends
    <3> QED
      BY <2>1, <3>1 DEF Shape
  <2> QED
    BY <1>5, <2>1, <2>2 DEF FromParent, MayHold
<1> QED
  BY <1>2, <1>4, <1>5

(* The second command of a pipe has just been forked. *)
LEMMA NewSecond ==
  ASSUME TypeOK, Shape, Numbered, FirstsKnown, NEW r \in Procs, NEW c \in Pids,
         SecondForked(r, c), NEW k, k = Step(r).k
  PROVE  SecondKnown(k)'
<1> SUFFICES ASSUME NEW w \in Procs, NEW fd \in Fds, proc'[w].fds[fd] = WriteEnd(k)
             PROVE  MayHold(w, fd, k)'
  BY DEF SecondKnown
<1>1. Doing(r, "fork second") /\ Forked(r, c)
  BY DEF SecondForked, Takes, Doing
<1>2. r = Smash
  BY <1>1, PipesOfTheShell
<1>3. ASSUME NEW v \in Procs, NEW e \in Fds, proc[v].fds[e] = WriteEnd(k)
      PROVE  proc[v].side = WriteEnd(k) \/ (v = Smash /\ e = Step(r).pipe[2])
  BY <1>1, <1>2, <1>3 DEF FirstsKnown
<1>4. proc[r].side # WriteEnd(k)
  <2>1. WriteEnd(k) # None
    BY Ends
  <2> QED
    BY <1>2, <2>1 DEF Shape
<1>5. CASE w = c
  <2>1. proc[r].fds[fd] = WriteEnd(k)
    BY <1>5 DEF SecondForked
  <2>2. fd = Step(r).pipe[2]
    BY <1>3, <1>4, <2>1
  <2>3. Doing(c, "stdin from pipe")' /\ Step(c)'.pipe = Step(r).pipe
    <3> DEFINE t == [op |-> "stdin from pipe", pipe |-> Step(r).pipe]
               u == [op |-> "execute", command |-> Step(r).second]
               v == [op |-> "exit"]
    <3>1. proc'[c].todo = <<t, u, v>> /\ t.op = "stdin from pipe" /\ t.pipe = Step(r).pipe
      BY DEF SecondForked
    <3> HIDE DEF t, u, v
    <3>2. Head(<<t, u, v>>) = t /\ <<t, u, v>> # <<>>
      OBVIOUS
    <3>3. Step(c)' = t
      BY <3>1, <3>2 DEF Step
    <3> QED
      BY <3>1, <3>2, <3>3 DEF Doing
  <2> QED
    BY <1>5, <2>2, <2>3 DEF MayHold
<1>6. CASE w = r
  <2>1. WithTwo(proc'[r].fds, proc[r].fds, Step(r).pipe[1], None, Step(r).pipe[2], None)
    BY SecondForkedFds
  <2>2. WriteEnd(k) # None
    BY Ends
  <2>3. proc[r].fds[fd] = WriteEnd(k) /\ fd # Step(r).pipe[2]
    BY <1>6, <2>1, <2>2 DEF WithTwo
  <2> QED
    BY <1>3, <1>4, <2>3
<1>7. CASE w \notin {r, c}
  <2>1. proc'[w] = proc[w]
    BY <1>1, <1>7 DEF Forked, OnlyChanges
  <2>2. proc[w].side = WriteEnd(k)
    BY <1>2, <1>3, <1>7, <2>1
  <2> QED
    BY <2>1, <2>2 DEF MayHold
<1> QED
  BY <1>5, <1>6, <1>7

(* The precise origin of the side of a second command. *)
LEMMA SecondFrom ==
  ASSUME NewLine \/ \E p \in Procs : Kinds(p), NEW q \in Procs, proc'[q].side[1] = "read"
  PROVE  \/ \E r \in Procs : proc'[q].side = proc[r].side
         \/ \E r \in Procs : q \in Pids /\ SecondForked(r, q) /\ proc'[q].side = ReadEnd(Step(r).k)
<1>1. CASE Kept(q)
  BY <1>1 DEF Kept
<1>2. CASE Gone(q)
  BY <1>2, Ends DEF Gone
<1>3. CASE StepsAlone(q)
  BY <1>3 DEF StepsAlone, Quiet, Same, Listed, Started, NewLine, Waited
<1>4. ASSUME NEW c \in Pids, ForksOff(q, c)
      PROVE  proc'[q].side = proc[q].side
  <2>1. Forked(q, c)
    BY <1>4, ForksOffForked
  <2> QED
    BY <2>1 DEF Forked
<1>5. ASSUME NEW p \in Procs, q \in Pids, ForksOff(p, q)
      PROVE  \/ proc'[q].side = proc[p].side
             \/ SecondForked(p, q) /\ proc'[q].side = ReadEnd(Step(p).k)
  <2>1. CASE \E pipe \in Pipes : FirstForked(p, q, pipe)
    <3>1. proc'[q].side = WriteEnd(pipes + 1)
      BY <2>1 DEF FirstForked
    <3> QED
      BY <3>1, Ends
  <2>2. CASE SecondForked(p, q)
    BY <2>2 DEF SecondForked
  <2> QED
    BY <1>5, <2>1, <2>2, ForksOffDoing
<1> QED
  BY <1>1, <1>2, <1>3, <1>4, <1>5, Fates

LEMMA SecondsKnownStep ==
  ASSUME TypeOK, Shape, Numbered, WritersKnown, NewLine \/ \E p \in Procs : Kinds(p)
  PROVE  SecondsKnown'
<1>1. ASSUME NEW q \in Procs, NEW k, proc'[q].side[1] = "read", proc'[q].side[2] = k
      PROVE  SecondKnown(k)'
  <2>1. ASSUME NEW r \in Procs, proc'[q].side = proc[r].side
        PROVE  SecondKnown(k)'
    <3>1. proc[r].side[1] = "read" /\ proc[r].side[2] = k
      BY <1>1, <2>1
    <3>2. k \in Nat /\ k <= pipes
      BY <3>1, SideType, ReadSide DEF Numbered
    <3>3. SecondKnown(k)
      BY <3>1 DEF WritersKnown, SecondsKnown, SecondKnown
    <3> QED
      BY <3>2, <3>3, OldSecond DEF WritersKnown
  <2>2. ASSUME NEW r \in Procs, q \in Pids, SecondForked(r, q),
               proc'[q].side = ReadEnd(Step(r).k)
        PROVE  SecondKnown(k)'
    <3>1. k = Step(r).k
      BY <1>1, <2>2, Ends
    <3> QED
      BY <2>2, <3>1, NewSecond DEF WritersKnown
  <2> QED
    BY <1>1, <2>1, <2>2, SecondFrom
<1> QED
  BY <1>1 DEF SecondsKnown, SecondKnown

LEMMA ReadersKnownStep ==
  ASSUME TypeOK, Shape, WritersKnown, NewLine \/ \E p \in Procs : Kinds(p)
  PROVE  ReadersKnown'
<1> SUFFICES ASSUME NEW q \in Procs, Doing(q, "stdin from pipe")'
             PROVE  proc'[q].fds[Step(q)'.pipe[1]][1] = "read"
  BY DEF ReadersKnown
<1>1. CASE Kept(q) /\ Doing(q, "stdin from pipe")
  <2>1. Step(q)' = Step(q) /\ proc'[q].fds = proc[q].fds
    BY <1>1, KeptHead DEF Kept
  <2>2. proc[q].fds[Step(q).pipe[1]][1] = "read"
    BY <1>1 DEF WritersKnown, ReadersKnown
  <2> QED
    BY <2>1, <2>2
<1>2. ASSUME NEW r \in Procs, SecondForked(r, q)
      PROVE  proc'[q].fds[Step(q)'.pipe[1]][1] = "read"
  <2>1. Doing(r, "fork second") /\ proc'[q].fds = proc[r].fds
    BY <1>2 DEF SecondForked, Takes, Doing
  <2>2. Step(q)'.pipe = Step(r).pipe
    BY <1>2, ChildHead
  <2>3. r = Smash
    BY <2>1, PipesOfTheShell
  <2>4. proc[r].fds[Step(r).pipe[1]] = ReadEnd(Step(r).k)
    BY <2>1, <2>3 DEF WritersKnown, FirstsKnown
  <2>5. ReadEnd(Step(r).k)[1] = "read"
    BY Ends
  <2> QED
    BY <2>1, <2>2, <2>4, <2>5
<1> QED
  BY <1>1, <1>2, Heads DEF HeadsKnown

FirstKnown(k, fd) ==
  \A w \in Procs, e \in Fds :
    proc[w].fds[e] = WriteEnd(k) => proc[w].side = WriteEnd(k) \/ (w = Smash /\ e = fd)

(* The shell is still between its two forks. *)
LEMMA OldFirst ==
  ASSUME TypeOK, Shape, Numbered, NewLine \/ \E p \in Procs : Kinds(p),
         Kept(Smash), Doing(Smash, "fork second"),
         NEW k \in Nat, k <= pipes, NEW fd, FirstKnown(k, fd)
  PROVE  FirstKnown(k, fd)'
<1> SUFFICES ASSUME NEW w \in Procs, NEW e \in Fds, proc'[w].fds[e] = WriteEnd(k)
             PROVE  proc'[w].side = WriteEnd(k) \/ (w = Smash /\ e = fd)
  BY DEF FirstKnown
<1>1. CASE w = Smash
  BY <1>1 DEF Kept, FirstKnown
<1>2. CASE w # Smash
  <2>1. HeldBefore(w, e, k)
    BY OldEnds
  <2>2. PICK r \in Procs, d \in Fds :
          /\ proc[r].fds[d] = WriteEnd(k)
          /\ (r = w /\ FromItself(w, e, d)) \/ FromParent(w, r)
    BY <2>1 DEF HeldBefore
  <2>3. proc[r].side = WriteEnd(k) \/ r = Smash
    BY <2>2 DEF FirstKnown
  <2>4. CASE r = w /\ FromItself(w, e, d)
    BY <1>2, <2>3, <2>4 DEF FromItself
  <2>5. CASE FromParent(w, r)
    <3>1. r # Smash
      <4> SUFFICES ASSUME r = Smash PROVE FALSE
        OBVIOUS
      <4>1. SecondForked(Smash, w)
        <5>1. ForksOff(Smash, w)
          BY <2>5 DEF FromParent
        <5> QED
          BY <5>1, ForksOffDoing DEF Doing
      <4>2. Doing(Smash, "fork second")'
        BY KeptHead
      <4>3. w \in Pids /\ Smash \in Procs
        BY <1>2 DEF Procs
      <4>4. \A op : Doing(Smash, op)' => op \in LaterOps
        BY <4>1, <4>3, ParentHead
      <4>5. "fork second" \notin LaterOps
        BY DEF LaterOps
      <4> QED
        BY <4>2, <4>4, <4>5
    <3> QED
      BY <2>3, <2>5, <3>1 DEF FromParent
  <2> QED
    BY <2>2, <2>4, <2>5
<1> QED
  BY <1>1, <1>2

(* The shell has just made a pipe. *)
LEMMA NewFirst ==
  ASSUME TypeOK, Numbered, NEW c \in Pids, NEW pipe \in Pipes, FirstForked(Smash, c, pipe),
         NEW k, k = pipes + 1
  PROVE  proc'[Smash].fds[pipe[1]] = ReadEnd(k) /\ FirstKnown(k, pipe[2])'
<1>0. Smash \in Procs
  BY ProcsType
<1>1. /\ NewPipe(Smash, pipe) /\ Forked(Smash, c) /\ proc'[c].side = WriteEnd(k)
  BY DEF FirstForked
<1>2. WithTwo(proc'[Smash].fds, proc[Smash].fds, pipe[1], ReadEnd(k), pipe[2], WriteEnd(k))
  BY <1>0, <1>1, NewPipeFds
<1>3. pipe[1] # pipe[2] /\ pipe[1] \in Fds
  BY <1>1 DEF NewPipe
<1>4. proc'[Smash].fds[pipe[1]] = ReadEnd(k)
  BY <1>2, <1>3 DEF WithTwo
<1>5. ASSUME NEW w \in Procs, NEW e \in Fds PROVE proc[w].fds[e] # WriteEnd(k)
  <2>1. proc[w].fds[e][2] <= pipes
    BY DEF Numbered
  <2>2. pipes \in Nat
    BY DEF TypeOK
  <2>3. ~(k <= pipes)
    BY <2>2
  <2>4. WriteEnd(k)[2] = k
    BY Ends
  <2> QED
    BY <2>1, <2>3, <2>4
<1>6. ReadEnd(k) # WriteEnd(k)
  <2>1. ReadEnd(k)[1] = "read" /\ WriteEnd(k)[1] = "write"
    BY Ends
  <2> QED
    BY <2>1
<1>7. ASSUME NEW w \in Procs, NEW e \in Fds, proc'[w].fds[e] = WriteEnd(k)
      PROVE  proc'[w].side = WriteEnd(k) \/ (w = Smash /\ e = pipe[2])
  <2>1. CASE w = c
    BY <1>1, <2>1
  <2>2. CASE w = Smash
    BY <1>0, <1>2, <1>5, <1>6, <1>7, <2>2 DEF WithTwo
  <2>3. CASE w \notin {Smash, c}
    BY <1>1, <1>5, <1>7, <2>3 DEF Forked, OnlyChanges
  <2> QED
    BY <2>1, <2>2, <2>3
<1> QED
  BY <1>4, <1>7 DEF FirstKnown

LEMMA FirstsKnownStep ==
  ASSUME TypeOK, Shape, Numbered, WritersKnown, NewLine \/ \E p \in Procs : Kinds(p)
  PROVE  FirstsKnown'
<1> SUFFICES ASSUME NEW k, k = Step(Smash)'.k, NEW pipe, pipe = Step(Smash)'.pipe,
                    Doing(Smash, "fork second")'
             PROVE  proc'[Smash].fds[pipe[1]] = ReadEnd(k) /\ FirstKnown(k, pipe[2])'
  BY DEF FirstsKnown, FirstKnown
<1>0. Smash \in Procs
  BY ProcsType
<1>1. CASE Kept(Smash) /\ Doing(Smash, "fork second")
  <2>1. /\ k = Step(Smash).k /\ pipe = Step(Smash).pipe
        /\ proc'[Smash].fds = proc[Smash].fds
    BY <1>1, KeptHead DEF Kept
  <2>2. Step(Smash) \in Steps /\ Step(Smash).op = "fork second"
    BY <1>0, <1>1, HeadType DEF Doing
  <2>3. k \in Nat /\ k <= pipes
    BY <1>0, <1>1, <2>1, <2>2, StepType DEF Numbered
  <2>4. proc[Smash].fds[pipe[1]] = ReadEnd(k) /\ FirstKnown(k, pipe[2])
    BY <1>1, <2>1 DEF WritersKnown, FirstsKnown, FirstKnown
  <2> QED
    BY <1>1, <2>1, <2>3, <2>4, OldFirst
<1>2. ASSUME NEW c \in Pids, NEW p \in Pipes, FirstForked(Smash, c, p)
      PROVE  proc'[Smash].fds[pipe[1]] = ReadEnd(k) /\ FirstKnown(k, pipe[2])'
  <2>1. k = pipes + 1 /\ pipe = p
    BY <1>0, <1>2, ParentStep DEF About
  <2> QED
    BY <1>2, <2>1, NewFirst
<1> QED
  BY <1>0, <1>1, <1>2, Heads DEF HeadsKnown


-----------------------------------------------------------------------------
(* StdoutKnown: first what the changes of descriptors preserve.            *)

LEMMA FilesDiffer ==
  /\ None # Tty /\ None # File /\ Tty # File /\ Directory \notin {None, File}
  /\ \A k : ReadEnd(k) \notin {None, Tty, File} /\ WriteEnd(k) \notin {None, Tty, File}
  /\ \A k, l : ReadEnd(k) # WriteEnd(l)
BY DEF None, Tty, File, Directory, ReadEnd, WriteEnd

LEMMA StandardFds == 0 \in Fds /\ 1 \in Fds /\ NoFd \notin Fds
BY CommandsAssumption DEF NoFd

(* From the descriptors f to g, in terms of what the shell may have open.  *)
Carries(f, w, u, g, v, t) ==
  /\ f[0] = Tty => g[0] = Tty
  /\ Usual(f, w, u) => Usual(g, v, t)
  /\ \A fd \in Fds, saved \in Fds \union {NoFd} :
       Redirected(f, w, u, fd, saved) => Redirected(g, v, t, fd, saved)

LEMMA WrittenGrows ==
  ASSUME NEW f, NEW w, NEW v, w \subseteq v, NEW u
  PROVE  Carries(f, w, u, f, v, u)
<1>1. \A file : LeftOpen(file, w) => LeftOpen(file, v)
  BY DEF LeftOpen
<1>2. Usual(f, w, u) => Usual(f, v, u)
  BY <1>1 DEF Usual
<1>3. ASSUME NEW fd, NEW saved, Redirected(f, w, u, fd, saved)
      PROVE  Redirected(f, v, u, fd, saved)
  BY <1>1, <1>3 DEF Redirected
<1> QED
  BY <1>2, <1>3 DEF Carries

LEMMA OpensDirectory ==
  ASSUME NEW f, NEW w, NEW fd \in Fds, f[fd] = None, NEW g, WithOne(g, f, fd, Directory)
  PROVE  Carries(f, w, {}, g, w, {})
<1> USE StandardFds, FilesDiffer
<1>1. \A d \in Fds : g[d] = f[d] \/ (d = fd /\ g[d] = Directory)
  BY DEF WithOne
<1>2. f[0] = Tty => g[0] = Tty
  BY <1>1
<1>3. LeftOpen(Directory, w)
  BY DEF LeftOpen
<1>4. ASSUME Usual(f, w, {}) PROVE Usual(g, w, {})
  <2>1. g[1] = f[1]
    BY <1>1, <1>4 DEF Usual
  <2>2. Free(g) \subseteq Free(f)
    BY <1>1 DEF Free
  <2>3. AtMostOne(Free(f)) => AtMostOne(Free(g))
    BY <2>2 DEF AtMostOne
  <2> QED
    BY <1>1, <1>3, <1>4, <2>1, <2>3 DEF Usual
<1>5. ASSUME NEW d \in Fds, NEW saved, Redirected(f, w, {}, d, saved)
      PROVE  Redirected(g, w, {}, d, saved)
  <2>1. Free(f) # {}
    BY DEF Free
  <2>2. g[1] = f[1] /\ g[d] = f[d] /\ (saved \in Fds /\ f[saved] = Tty => g[saved] = f[saved])
    BY <1>1, <1>5 DEF Redirected
  <2> QED
    BY <1>1, <1>3, <1>5, <2>1, <2>2 DEF Redirected
<1> QED
  BY <1>2, <1>4, <1>5 DEF Carries

(* A pipe is opened while only it is in use afterwards.                    *)
LEMMA OpensPipe ==
  ASSUME NEW f, NEW w, NEW a \in Fds, NEW b \in Fds, a # b, f[a] = None, f[b] = None,
         NEW k, NEW g, WithTwo(g, f, a, ReadEnd(k), b, WriteEnd(k))
  PROVE  Carries(f, w, {}, g, w, {a, b}) /\ g[a] = ReadEnd(k) /\ g[b] = WriteEnd(k)
<1> USE StandardFds, FilesDiffer
<1>1. /\ g[a] = ReadEnd(k) /\ g[b] = WriteEnd(k)
      /\ \A d \in Fds : d \notin {a, b} => g[d] = f[d]
  BY DEF WithTwo
<1>2. f[0] = Tty => g[0] = Tty
  BY <1>1
<1>0. a \in Free(f) /\ b \in Free(f)
  BY DEF Free
<1>3. ASSUME Usual(f, w, {}) PROVE Usual(g, w, {a, b})
  <2>1. f[1] = Tty
    BY <1>0, <1>3 DEF Usual, AtMostOne
  <2>2. g[1] = Tty
    BY <1>1, <2>1
  <2> QED
    BY <1>1, <1>3, <2>1, <2>2 DEF Usual
<1>4. ASSUME NEW d \in Fds, NEW saved, Redirected(f, w, {}, d, saved)
      PROVE  Redirected(g, w, {a, b}, d, saved)
  <2>1. saved \in Fds /\ f[saved] = Tty /\ f[d] = File /\ f[1] = File
    BY <1>0, <1>4 DEF Redirected
  <2>2. g[saved] = Tty /\ g[d] = File /\ g[1] = File
    BY <1>1, <2>1
  <2> QED
    BY <1>1, <1>4, <2>1, <2>2 DEF Redirected
<1> QED
  BY <1>1, <1>2, <1>3, <1>4 DEF Carries

(* A pipe in use is closed, but for a writing end that may have been used. *)
LEMMA ClosesPipe ==
  ASSUME NEW f, NEW w, NEW v, w \subseteq v, NEW a \in Fds, NEW b \in Fds, NEW k,
         f[a] = ReadEnd(k), f[b] = WriteEnd(k), NEW g,
         \/ WithOne(g, f, a, None) /\ k \in v
         \/ WithTwo(g, f, a, None, b, None)
  PROVE  Carries(f, w, {a, b}, g, v, {})
<1> USE StandardFds, FilesDiffer
<1>1. /\ \A d \in Fds : d \notin {a, b} => g[d] = f[d]
      /\ LeftOpen(g[a], v) /\ LeftOpen(g[b], v)
  <2>1. a # b
    OBVIOUS
  <2>2. LeftOpen(None, v) /\ (k \in v => LeftOpen(WriteEnd(k), v))
    BY Ends DEF LeftOpen
  <2> QED
    BY <2>1, <2>2 DEF WithOne, WithTwo
<1>2. f[0] = Tty => g[0] = Tty
  BY <1>1
<1>0. \A file : LeftOpen(file, w) => LeftOpen(file, v)
  BY DEF LeftOpen
<1>3. ASSUME Usual(f, w, {a, b}) PROVE Usual(g, v, {})
  <2>1. f[1] = Tty
    BY <1>3 DEF Usual
  <2>2. g[1] = Tty
    BY <1>1, <2>1
  <2>3. ASSUME NEW d \in Fds \ {0, 1, 2} PROVE LeftOpen(g[d], v)
    BY <1>0, <1>1, <1>3, <2>1 DEF Usual
  <2> QED
    BY <2>2, <2>3 DEF Usual
<1>4. ASSUME NEW d \in Fds, NEW saved, Redirected(f, w, {a, b}, d, saved)
      PROVE  Redirected(g, v, {}, d, saved)
  <2>1. saved \in Fds /\ f[saved] = Tty /\ f[d] = File /\ f[1] = File
    BY <1>4 DEF Redirected
  <2>2. g[saved] = Tty /\ g[d] = File /\ g[1] = File
    BY <1>1, <2>1
  <2>3. ASSUME NEW e \in Fds \ {0, 1, 2, d} PROVE LeftOpen(g[e], v)
    BY <1>0, <1>1, <1>4, <2>1 DEF Redirected
  <2> QED
    BY <1>4, <2>1, <2>2, <2>3 DEF Redirected
<1> QED
  BY <1>2, <1>3, <1>4 DEF Carries

(* The redirection, and the way back. *)
LEMMA RedirectionMade ==
  ASSUME NEW f \in [Fds -> Files], NEW w, f[0] = Tty, Usual(f, w, {}), NEW fd \in Fds,
         f[fd] = None, NEW saved, NEW opened, opened = [f EXCEPT ![fd] = File], NEW g,
         \/ /\ saved = NoFd /\ \A d \in Fds : opened[d] # None
            /\ g = [opened EXCEPT ![1] = File]
         \/ /\ saved \in Fds /\ opened[saved] = None
            /\ g = [[opened EXCEPT ![saved] = opened[1]] EXCEPT ![1] = File]
  PROVE  g[0] = Tty /\ Redirected(g, w, {}, fd, saved)
<1> USE StandardFds, FilesDiffer
<1>1. opened \in [Fds -> Files] /\ \A d \in Fds : opened[d] = IF d = fd THEN File ELSE f[d]
  BY FilesType
<1>2. fd \notin {0, 1}
  BY DEF Usual
<1>3. \A d \in Fds \ {0, 1, 2} : LeftOpen(f[d], w) \/ (f[d] = File /\ f[1] = File)
  BY DEF Usual
<1>4. CASE saved = NoFd
  <2>1. (\A d \in Fds : opened[d] # None) /\ g = [opened EXCEPT ![1] = File]
    BY <1>4
  <2>2. \A d \in Fds : g[d] = IF d = 1 THEN File ELSE opened[d]
    BY <1>1, <2>1
  <2>3. Free(g) = {}
    BY <2>1, <2>2 DEF Free
  <2>4. g[0] = Tty /\ g[1] = File /\ g[fd] = File
    BY <1>1, <1>2, <2>2
  <2>5. \A d \in Fds \ {0, 1, 2} : LeftOpen(g[d], w) \/ g[d] = File
    BY <1>1, <1>3, <2>2
  <2> QED
    BY <1>2, <1>4, <2>3, <2>4, <2>5 DEF Redirected
<1>5. CASE saved \in Fds
  <2>1. opened[saved] = None /\ g = [[opened EXCEPT ![saved] = opened[1]] EXCEPT ![1] = File]
    BY <1>5
  <2>2. saved # fd /\ f[saved] = None /\ saved \notin {0, 1}
    BY <1>1, <1>5, <2>1 DEF Usual
  <2>3. f[1] = Tty
    <3>1. fd \in Free(f) /\ saved \in Free(f)
      BY <1>5, <2>2 DEF Free
    <3> QED
      BY <2>2, <3>1 DEF Usual, AtMostOne
  <2>4. \A d \in Fds : g[d] = IF d = 1 THEN File ELSE IF d = saved THEN opened[1] ELSE opened[d]
    BY <1>1, <2>1
  <2>5. opened[1] = Tty
    BY <1>1, <1>2, <2>3
  <2>6. g[0] = Tty /\ g[1] = File /\ g[fd] = File /\ g[saved] = Tty
    BY <1>1, <1>2, <1>5, <2>2, <2>4, <2>5
  <2>7. \A d \in Fds \ {0, 1, 2, fd} : LeftOpen(g[d], w)
    <3>1. LeftOpen(Tty, w)
      BY DEF LeftOpen
    <3> QED
      BY <1>1, <1>3, <2>3, <2>4, <2>5, <3>1
  <2> QED
    BY <1>2, <1>5, <2>6, <2>7 DEF Redirected
<1> QED
  BY <1>4, <1>5

LEMMA RedirectionUndone ==
  ASSUME NEW f \in [Fds -> Files], NEW w, f[0] = Tty, NEW fd \in Fds,
         NEW saved \in Fds \union {NoFd}, Redirected(f, w, {}, fd, saved), NEW g,
         \/ /\ saved = NoFd \/ f[saved] = None
            /\ g = [f EXCEPT ![fd] = None]
         \/ /\ saved # NoFd /\ f[saved] # None
            /\ g = [[f EXCEPT ![1] = f[saved]] EXCEPT ![fd] = None]
  PROVE  g[0] = Tty /\ Usual(g, w, {})
<1> USE StandardFds, FilesDiffer
<1>1. /\ fd \notin {0, 1} /\ f[1] = File /\ f[fd] = File
      /\ \A d \in Fds \ {0, 1, 2} : LeftOpen(f[d], w) \/ f[d] = File
  BY DEF Redirected
<1>0. LeftOpen(None, w)
  BY DEF LeftOpen
<1>2. CASE saved = NoFd
  <2>1. Free(f) = {}
    BY <1>2 DEF Redirected
  <2>2. \A d \in Fds : g[d] = IF d = fd THEN None ELSE f[d]
    BY <1>2
  <2>3. \A d \in Free(g) : d = fd
    BY <2>1, <2>2 DEF Free
  <2>4. AtMostOne(Free(g))
    BY <2>3 DEF AtMostOne
  <2>5. g[0] = Tty /\ g[1] = File
    BY <1>1, <2>2
  <2> QED
    BY <1>0, <1>1, <2>2, <2>4, <2>5 DEF Usual
<1>3. CASE saved \in Fds
  <2>1. f[saved] = Tty /\ \A d \in Fds \ {0, 1, 2, fd} : LeftOpen(f[d], w)
    BY <1>3 DEF Redirected
  <2>2. g = [[f EXCEPT ![1] = f[saved]] EXCEPT ![fd] = None]
    BY <1>3, <2>1
  <2>3. \A d \in Fds : g[d] = IF d = fd THEN None ELSE IF d = 1 THEN f[saved] ELSE f[d]
    BY <2>2
  <2>4. g[0] = Tty /\ g[1] = Tty
    BY <1>1, <2>1, <2>3
  <2> QED
    BY <1>0, <2>1, <2>3, <2>4 DEF Usual
<1> QED
  BY <1>2, <1>3

(* The redirections under way are still those, after a step that carries   *)
(* the descriptors over.                                                   *)
LEMMA RestoresCarried ==
  ASSUME TypeOK, NEW op, NEW steps, Takes(Smash, op, steps), op # "restore",
         \A i \in 1 .. Len(steps) : steps[i].op # "restore", RestoresKnown,
         Carries(proc[Smash].fds, written, InUse, proc'[Smash].fds, written', InUse')
  PROVE  RestoresKnown'
<1>1. /\ Restores = {} <=> Restores' = {}
      /\ AtMostOne(Restores) => AtMostOne(Restores')
      /\ \A i \in Restores' : \E j \in Restores : proc'[Smash].todo[i] = proc[Smash].todo[j]
  BY TakesRestores
<1>2. AtMostOne(Restores')
  BY <1>1 DEF RestoresKnown
<1>3. Restores' = {} => Usual(proc'[Smash].fds, written', InUse')
  BY <1>1 DEF RestoresKnown, Carries
<1>4. ASSUME NEW i \in Restores'
      PROVE  Redirected(proc'[Smash].fds, written', InUse',
                        proc'[Smash].todo[i].fd, proc'[Smash].todo[i].saved)
  <2>1. PICK j \in Restores : proc'[Smash].todo[i] = proc[Smash].todo[j]
    BY <1>1
  <2>2. proc[Smash].todo[j] \in Steps /\ proc[Smash].todo[j].op = "restore"
    <3>1. proc[Smash].todo \in Seq(Steps)
      BY ProcsType DEF TypeOK, Process
    <3> QED
      BY <3>1 DEF Restores
  <2>3. /\ proc[Smash].todo[j].fd \in Fds
        /\ proc[Smash].todo[j].saved \in Fds \union {NoFd}
    BY <2>2, StepType
  <2>4. Redirected(proc[Smash].fds, written, InUse,
                   proc[Smash].todo[j].fd, proc[Smash].todo[j].saved)
    BY DEF RestoresKnown
  <2>5. Redirected(proc'[Smash].fds, written', InUse',
                   proc[Smash].todo[j].fd, proc[Smash].todo[j].saved)
    BY <2>3, <2>4 DEF Carries
  <2> QED
    BY <2>1, <2>5
<1> QED
  BY <1>2, <1>3, <1>4 DEF RestoresKnown

(* The shell is in the middle of no command, and the next does not need    *)
(* that no redirection is under way.                                       *)
Between ==
  /\ InUse = {} /\ ~Doing(Smash, "fork second")
  /\ ~Doing(Smash, "redirect") /\ ~Doing(Smash, "pipe")

LEMMA LaterIsBetween ==
  ASSUME \A op : Doing(Smash, op)' => op \in LaterOps \union {"read"}
  PROVE  Between'
<1>1. /\ "fork second" \notin LaterOps \union {"read"} /\ "list job" \notin LaterOps \union {"read"}
      /\ "redirect" \notin LaterOps \union {"read"} /\ "pipe" \notin LaterOps \union {"read"}
  BY DEF LaterOps
<1>2. /\ ~Doing(Smash, "fork second")' /\ ~Doing(Smash, "list job")'
      /\ ~Doing(Smash, "redirect")' /\ ~Doing(Smash, "pipe")'
  BY <1>1
<1> QED
  BY <1>2 DEF Between, InUse

LEMMA NothingInUse ==
  ASSUME ~Doing(Smash, "fork second"), ~Doing(Smash, "list job")
  PROVE  InUse = {}
BY DEF InUse

(* What is to be shown of the shell. *)
ShellKnown ==
  /\ proc[Smash].fds[0] = Tty
  /\ PipeHeld
  /\ Doing(Smash, "fork second") \/ Doing(Smash, "redirect") \/ Doing(Smash, "pipe")
       => Restores = {}
  /\ RestoresKnown

LEMMA BetweenSuffices ==
  ASSUME Between', proc'[Smash].fds[0] = Tty, RestoresKnown'
  PROVE  ShellKnown'
BY DEF Between, ShellKnown, PipeHeld

(* A step between commands that makes no redirection and ends none. *)
LEMMA CarriedStep ==
  ASSUME TypeOK, NEW op, NEW steps, Takes(Smash, op, steps), op # "restore",
         \A i \in 1 .. Len(steps) : steps[i].op # "restore", ShellKnown, Between',
         Carries(proc[Smash].fds, written, InUse, proc'[Smash].fds, written', {})
  PROVE  ShellKnown'
<1>1. InUse' = {} /\ RestoresKnown /\ proc[Smash].fds[0] = Tty
  BY DEF Between, ShellKnown
<1>2. RestoresKnown'
  BY <1>1, RestoresCarried
<1>3. proc'[Smash].fds[0] = Tty
  BY <1>1 DEF Carries
<1> QED
  BY <1>2, <1>3, BetweenSuffices

LEMMA QuietShell ==
  ASSUME TypeOK, Shape, Quiet(Smash), ~forkFailed', ShellKnown
  PROVE  ShellKnown'
<1> DEFINE f == proc[Smash].fds
           g == proc'[Smash].fds
<1>0. Smash \in Procs /\ f \in [Fds -> Files] /\ f[0] = Tty /\ RestoresKnown
  BY ProcsType, FdsOf DEF ShellKnown
<1>1. /\ proc[Smash].todo # <<>> /\ Step(Smash).op \notin PendingOps
      /\ written' = written /\ Effect(Smash)
  BY DEF Quiet
<1>2. ~Doing(Smash, "fork second") /\ ~Doing(Smash, "list job")
  BY <1>1 DEF Doing, PendingOps
<1>3. InUse = {}
  BY <1>2, NothingInUse
<1>4. Between'
  <2>1. NextHead(Smash)
    BY <1>0, QuietHead
  <2>2. ~NewLine
    BY <1>1 DEF NewLine
  <2>3. \A op : Doing(Smash, op)' => op \in LaterOps \union {"read"}
    BY <2>1, <2>2 DEF NextHead
  <2> QED
    BY <2>3, LaterIsBetween
<1>5. Step(Smash).op \notin ChildOps
  BY <1>0, <1>1, HeadFits DEF Fits
<1>6. OpensOne(Smash) \/ Redirects(Smash) \/ RestoresFrom(Smash, Step(Smash).fd, Step(Smash).saved)
  BY <1>1, <1>5 DEF Effect
<1> HIDE DEF f, g
<1>7. ASSUME NEW op, Takes(Smash, op, <<>>), op # "restore", Carries(f, written, {}, g, written, {})
      PROVE  ShellKnown'
  <2>1. \A i \in 1 .. Len(<<>>) : <<>>[i].op # "restore"
    OBVIOUS
  <2> QED
    BY <1>1, <1>3, <1>4, <1>7, <2>1, CarriedStep DEF f, g
<1>8. g = f => Carries(f, written, {}, g, written, {})
  BY WrittenGrows
<1>9. CASE OpensOne(Smash)
  <2>1. Takes(Smash, "execute", <<>>)
    BY <1>9 DEF OpensOne
  <2>2. g = f \/ \E fd \in Fds : f[fd] = None /\ g = [f EXCEPT ![fd] = Directory]
    BY <1>9 DEF OpensOne, f, g
  <2>3. ASSUME NEW fd \in Fds, f[fd] = None, g = [f EXCEPT ![fd] = Directory]
        PROVE  Carries(f, written, {}, g, written, {})
    <3>1. WithOne(g, f, fd, Directory)
      BY <1>0, <2>3, ExceptOne
    <3> QED
      BY <2>3, <3>1, OpensDirectory
  <2>4. Carries(f, written, {}, g, written, {})
    BY <1>8, <2>2, <2>3
  <2> QED
    BY <1>7, <2>1, <2>4
<1>10. CASE Redirects(Smash)
  <2>1. CASE Takes(Smash, "redirect", <<>>) /\ g = f
    BY <1>7, <1>8, <2>1
  <2>2. ASSUME NEW fd \in Fds, NEW saved \in Fds \union {NoFd}, RedirectsTo(Smash, fd, saved)
        PROVE  ShellKnown'
    <3> DEFINE s == [op |-> "execute", command |-> Step(Smash).command]
               t == [op |-> "restore", fd |-> fd, saved |-> saved]
               todo == proc[Smash].todo
               new == proc'[Smash].todo
    <3>1. Takes(Smash, "redirect", <<s, t>>)
      BY <2>2 DEF RedirectsTo
    <3>2. s.op = "execute" /\ t.op = "restore" /\ t.fd = fd /\ t.saved = saved
      OBVIOUS
    <3>3. Restores = {}
      <4>1. Doing(Smash, "redirect")
        BY <3>1 DEF Takes, Doing
      <4> QED
        BY <4>1 DEF ShellKnown
    <3> HIDE DEF s, t
    <3>4. g[0] = Tty /\ Redirected(g, written, {}, fd, saved)
      <4> DEFINE opened == [f EXCEPT ![fd] = File]
      <4>1. /\ f[fd] = None
            /\ \/ /\ saved = NoFd /\ \A d \in Fds : opened[d] # None
                  /\ g = [opened EXCEPT ![1] = File]
               \/ /\ saved \in Fds /\ opened[saved] = None
                  /\ g = [[opened EXCEPT ![saved] = opened[1]] EXCEPT ![1] = File]
        BY <2>2 DEF RedirectsTo, f, g
      <4>2. Usual(f, written, {})
        BY <1>0, <1>3, <3>3 DEF RestoresKnown, f
      <4>3. opened = [f EXCEPT ![fd] = File]
        OBVIOUS
      <4> HIDE DEF opened
      <4> QED
        BY <1>0, <4>1, <4>2, <4>3, RedirectionMade
    <3>5. Restores' = {2} /\ new[2] = t
      <4>1. Len(<<s, t>>) = 2 /\ <<s, t>>[1] = s /\ <<s, t>>[2] = t
        OBVIOUS
      <4>2. PICK steps : steps = <<s, t>>
        OBVIOUS
      <4>3. Takes(Smash, "redirect", steps)
        BY <3>1, <4>2
      <4>4. Len(steps) = 2 /\ steps[1] = s /\ steps[2] = t
        BY <4>1, <4>2
      <4>5. /\ new \in Seq(Steps) /\ Len(todo) \in Nat
            /\ \A i \in 1 .. Len(steps) : i \in 1 .. Len(new) /\ new[i] = steps[i]
            /\ \A i \in 1 .. Len(new) : i > Len(steps) =>
                 i - Len(steps) + 1 \in 2 .. Len(todo) /\ new[i] = todo[i - Len(steps) + 1]
        BY <1>0, <4>3, TakesDoes
      <4>6. /\ Len(new) \in Nat
            /\ \A i \in 1 .. 2 : i \in 1 .. Len(new) /\ new[i] = steps[i]
            /\ \A i \in 1 .. Len(new) : i > 2 =>
                 i - 2 + 1 \in 2 .. Len(todo) /\ new[i] = todo[i - 2 + 1]
        <5> HIDE DEF new, todo
        <5> QED
          BY <4>4, <4>5, LenProperties
      <4>7. /\ Restores = {i \in 1 .. Len(todo) : todo[i].op = "restore"}
            /\ Restores' = {i \in 1 .. Len(new) : new[i].op = "restore"}
        BY DEF Restores
      <4>8. Len(todo) \in Nat
        BY <1>0, <3>1, TakesDoes
      <4> HIDE DEF todo, new
      <4>9. new[1] = s /\ new[2] = t /\ 2 \in 1 .. Len(new)
        BY <4>6, <4>4
      <4>10. ASSUME NEW i \in 1 .. Len(new), i > 2 PROVE new[i].op # "restore"
        <5>1. i - 2 + 1 \in 1 .. Len(todo) /\ new[i] = todo[i - 2 + 1]
          BY <4>6, <4>10, <4>8
        <5> QED
          BY <3>3, <4>7, <5>1
      <4>11. \A i \in 1 .. Len(new) : new[i].op = "restore" => i = 2
        <5> TAKE i \in 1 .. Len(new)
        <5>1. i = 1 \/ i = 2 \/ i > 2
          BY <4>6
        <5>2. i = 1 => new[i].op # "restore"
          BY <3>2, <4>9
        <5> QED
          BY <4>10, <5>1, <5>2
      <4> QED
        BY <3>2, <4>7, <4>9, <4>11
    <3>6. AtMostOne(Restores') /\ Restores' # {}
      BY <3>5 DEF AtMostOne
    <3>7. ASSUME NEW i \in Restores'
          PROVE  Redirected(g, written, {}, new[i].fd, new[i].saved)
      BY <3>2, <3>4, <3>5
    <3>8. RestoresKnown'
      BY <1>1, <1>4, <3>6, <3>7 DEF RestoresKnown, Between, g
    <3> QED
      BY <1>4, <3>4, <3>8, BetweenSuffices DEF g
  <2> QED
    BY <1>10, <2>1, <2>2 DEF Redirects, f, g
<1>11. CASE RestoresFrom(Smash, Step(Smash).fd, Step(Smash).saved)
  <2> DEFINE fd == Step(Smash).fd
             saved == Step(Smash).saved
             todo == proc[Smash].todo
             new == proc'[Smash].todo
  <2>1. /\ Takes(Smash, "restore", <<>>) /\ fd \in Fds /\ saved \in Fds \union {NoFd}
        /\ \/ /\ saved = NoFd \/ f[saved] = None
              /\ g = [f EXCEPT ![fd] = None]
           \/ /\ saved # NoFd /\ f[saved] # None
              /\ g = [[f EXCEPT ![1] = f[saved]] EXCEPT ![fd] = None]
    BY <1>11 DEF RestoresFrom, f, g
  <2>2. /\ Len(new) \in Nat /\ Len(todo) \in Nat /\ Len(todo) >= 1
        /\ todo[1] = Step(Smash) /\ todo[1].op = "restore"
        /\ \A i \in 1 .. Len(new) : i > 0 =>
             i - 0 + 1 \in 2 .. Len(todo) /\ new[i] = todo[i - 0 + 1]
    <3>1. PICK steps : steps = <<>> /\ Len(steps) = 0
      OBVIOUS
    <3>2. Takes(Smash, "restore", steps)
      BY <2>1, <3>1
    <3>3. /\ new \in Seq(Steps) /\ Len(todo) \in Nat /\ Len(todo) >= 1
          /\ todo[1] = Step(Smash) /\ todo[1].op = "restore"
          /\ \A i \in 1 .. Len(new) : i > Len(steps) =>
               i - Len(steps) + 1 \in 2 .. Len(todo) /\ new[i] = todo[i - Len(steps) + 1]
      BY <1>0, <3>2, TakesDoes
    <3> HIDE DEF new, todo
    <3> QED
      BY <3>1, <3>3, LenProperties
  <2>3. /\ Restores = {i \in 1 .. Len(todo) : todo[i].op = "restore"}
        /\ Restores' = {i \in 1 .. Len(new) : new[i].op = "restore"}
    BY DEF Restores
  <2>4. Redirected(f, written, {}, todo[1].fd, todo[1].saved) /\ AtMostOne(Restores)
    <3>1. 1 \in Restores
      BY <2>2, <2>3
    <3> QED
      BY <1>0, <1>3, <3>1 DEF RestoresKnown, f
  <2>5. Redirected(f, written, {}, fd, saved)
    BY <2>2, <2>4
  <2> HIDE DEF fd, saved, todo, new
  <2>6. g[0] = Tty /\ Usual(g, written, {})
    BY <1>0, <2>1, <2>5, RedirectionUndone
  <2>7. Restores' = {}
    <3> SUFFICES ASSUME NEW i \in Restores' PROVE FALSE
      OBVIOUS
    <3>1. i \in 1 .. Len(new) /\ new[i].op = "restore"
      BY <2>3
    <3>2. i - 0 + 1 \in 2 .. Len(todo) /\ new[i] = todo[i - 0 + 1]
      BY <2>2, <3>1
    <3>3. i - 0 + 1 \in Restores /\ 1 \in Restores /\ i - 0 + 1 # 1
      BY <2>2, <2>3, <3>1, <3>2
    <3> QED
      BY <2>4, <3>3 DEF AtMostOne
  <2>8. RestoresKnown'
    BY <1>1, <1>4, <2>6, <2>7 DEF RestoresKnown, AtMostOne, Between, g
  <2> QED
    BY <1>4, <2>6, <2>8, BetweenSuffices DEF g
<1> QED
  BY <1>6, <1>9, <1>10, <1>11

LEMMA LineShell ==
  ASSUME TypeOK, NewLine, ShellKnown
  PROVE  ShellKnown'
<1> DEFINE new == proc'[Smash].todo
           f == proc[Smash].fds
<1>1. /\ proc[Smash].todo = <<>> /\ proc'[Smash].fds = f /\ written' = written
      /\ new \in Seq(Steps)
      /\ \A i \in 1 .. Len(new) : new[i].op \in IF i = 1 THEN LineOps ELSE {"quit"}
  BY DEF NewLine
<1>2. Restores = {} /\ InUse = {}
  BY <1>1 DEF Restores, InUse, Doing
<1>3. \A i \in 1 .. Len(new) : new[i].op \notin {"restore", "fork second", "list job"}
  BY <1>1 DEF LineOps
<1>4. Restores' = {}
  BY <1>3 DEF Restores
<1>5. InUse' = {}
  <2>1. new # <<>> => 1 \in 1 .. Len(new) /\ Head(new) = new[1]
    BY <1>1, EmptySeq
  <2>2. Doing(Smash, "fork second")' = (new # <<>> /\ Head(new).op = "fork second")
    BY DEF Doing, Step
  <2>3. Doing(Smash, "list job")' = (new # <<>> /\ Head(new).op = "list job")
    BY DEF Doing, Step
  <2> HIDE DEF new
  <2>4. ~Doing(Smash, "fork second")' /\ ~Doing(Smash, "list job")'
    BY <1>3, <2>1, <2>2, <2>3
  <2> QED
    BY <2>4 DEF InUse
<1>6. Usual(f, written, {}) /\ f[0] = Tty
  BY <1>2 DEF ShellKnown, RestoresKnown
<1>7. RestoresKnown'
  BY <1>1, <1>4, <1>5, <1>6 DEF RestoresKnown, AtMostOne
<1> QED
  BY <1>1, <1>4, <1>5, <1>6, <1>7 DEF ShellKnown, PipeHeld

LEMMA ListedShell ==
  ASSUME TypeOK, Shape, Listed(Smash), ShellKnown
  PROVE  ShellKnown'
<1> DEFINE f == proc[Smash].fds
           g == proc'[Smash].fds
           a == Step(Smash).pipe[1]
           b == Step(Smash).pipe[2]
           k == Step(Smash).k
<1>0. Smash \in Procs
  BY ProcsType
<1>1. /\ Takes(Smash, "list job", <<>>) /\ a \in Fds /\ b \in Fds
      /\ written' = written \union {k} /\ Doing(Smash, "list job")
  BY DEF Listed, Takes, Doing
<1>2. InUse = {a, b} /\ f[a] = ReadEnd(k) /\ f[b] = WriteEnd(k)
  BY <1>1 DEF ShellKnown, PipeHeld, InUse
<1>3. WithOne(g, f, a, None)
  BY <1>0, ListedFds
<1>4. written \subseteq written' /\ k \in written'
  BY <1>1
<1>5. Between'
  <2>1. \A op : Doing(Smash, op)' => op \in LaterOps
    BY <1>0, <1>1, TakesHead
  <2> QED
    BY <2>1, LaterIsBetween
<1> HIDE DEF f, g, a, b, k
<1>6. PICK v : v = written'
  OBVIOUS
<1>7. Carries(f, written, {a, b}, g, v, {})
  BY <1>1, <1>2, <1>3, <1>4, <1>6, ClosesPipe
<1>8. \A i \in 1 .. Len(<<>>) : <<>>[i].op # "restore"
  OBVIOUS
<1> QED
  BY <1>1, <1>2, <1>5, <1>6, <1>7, <1>8, CarriedStep DEF f, g

LEMMA WaitedShell ==
  ASSUME TypeOK, Shape, NEW c, Waited(Smash, c), ShellKnown
  PROVE  ShellKnown'
<1>0. Smash \in Procs
  BY ProcsType
<1>1. /\ Takes(Smash, "wait", <<>>) /\ proc'[Smash].fds = proc[Smash].fds
      /\ written' = written
  BY DEF Waited
<1>2. InUse = {}
  <2>1. ~Doing(Smash, "fork second") /\ ~Doing(Smash, "list job")
    BY <1>1 DEF Takes, Doing
  <2> QED
    BY <2>1, NothingInUse
<1>3. Between'
  <2>1. \A op : Doing(Smash, op)' => op \in LaterOps
    BY <1>0, <1>1, TakesHead
  <2> QED
    BY <2>1, LaterIsBetween
<1>4. Carries(proc[Smash].fds, written, {}, proc'[Smash].fds, written', {})
  BY <1>1, WrittenGrows
<1>5. \A i \in 1 .. Len(<<>>) : <<>>[i].op # "restore"
  OBVIOUS
<1> QED
  BY <1>1, <1>2, <1>3, <1>4, <1>5, CarriedStep

LEMMA ForkedShell ==
  ASSUME TypeOK, Shape, NEW c \in Pids,
         SecondForked(Smash, c) \/ RedirectionForked(Smash, c) \/ ForegroundForked(Smash, c),
         ShellKnown
  PROVE  ShellKnown'
<1> DEFINE f == proc[Smash].fds
           g == proc'[Smash].fds
           a == Step(Smash).pipe[1]
           b == Step(Smash).pipe[2]
           k == Step(Smash).k
           s == [op |-> "wait", pid |-> Step(Smash).pid]
           t == [op |-> "wait", pid |-> c]
<1>0. Smash \in Procs
  BY ProcsType
<1>1. written' = written
  BY DEF SecondForked, RedirectionForked, ForegroundForked
<1>2. Between'
  <2>1. \A op : Doing(Smash, op)' => op \in LaterOps
    BY <1>0, ParentHead
  <2> QED
    BY <2>1, LaterIsBetween
<1>3. Carries(f, written, InUse, g, written, {})
  <2>1. CASE SecondForked(Smash, c)
    <3>1. a \in Fds /\ b \in Fds /\ Doing(Smash, "fork second")
      BY <2>1 DEF SecondForked, Takes, Doing
    <3>2. InUse = {a, b} /\ f[a] = ReadEnd(k) /\ f[b] = WriteEnd(k)
      BY <3>1 DEF ShellKnown, PipeHeld, InUse
    <3>3. WithTwo(g, f, a, None, b, None)
      BY <1>0, <2>1, SecondForkedFds
    <3> HIDE DEF f, g, a, b, k
    <3> QED
      BY <3>1, <3>2, <3>3, ClosesPipe
  <2>2. CASE RedirectionForked(Smash, c) \/ ForegroundForked(Smash, c)
    <3>1. g = f /\ ~Doing(Smash, "fork second") /\ ~Doing(Smash, "list job")
      BY <2>2 DEF RedirectionForked, ForegroundForked, Takes, Doing
    <3>2. InUse = {}
      BY <3>1, NothingInUse
    <3> HIDE DEF f, g
    <3> QED
      BY <3>1, <3>2, WrittenGrows
  <2> QED
    BY <2>1, <2>2
<1>4. \E op, steps :
        /\ Takes(Smash, op, steps) /\ op # "restore"
        /\ \A i \in 1 .. Len(steps) : steps[i].op # "restore"
  <2>1. \/ Takes(Smash, "fork second", <<>>) \/ Takes(Smash, "redirect&", <<>>)
        \/ Takes(Smash, "fork second", <<s, t>>) \/ Takes(Smash, "execute", <<t>>)
    BY DEF SecondForked, RedirectionForked, ForegroundForked
  <2>2. s.op = "wait" /\ t.op = "wait"
    OBVIOUS
  <2> HIDE DEF s, t
  <2>3. /\ \A i \in 1 .. Len(<<>>) : <<>>[i].op # "restore"
        /\ \A i \in 1 .. Len(<<t>>) : <<t>>[i].op # "restore"
    BY <2>2
  <2>4. \A i \in 1 .. Len(<<s, t>>) : <<s, t>>[i].op # "restore"
    <3> TAKE i \in 1 .. Len(<<s, t>>)
    <3>1. i = 1 \/ i = 2
      OBVIOUS
    <3>2. <<s, t>>[i] = s \/ <<s, t>>[i] = t
      BY <3>1
    <3> QED
      BY <2>2, <3>2
  <2> QED
    BY <2>1, <2>3, <2>4
<1> QED
  BY <1>1, <1>2, <1>3, <1>4, CarriedStep

LEMMA OneStep ==
  ASSUME NEW s, s.op # "restore"
  PROVE  \A i \in 1 .. Len(<<s>>) : <<s>>[i].op # "restore"
<1> TAKE i \in 1 .. Len(<<s>>)
<1>1. i = 1
  OBVIOUS
<1>2. <<s>>[i] = s
  BY <1>1
<1> QED
  BY <1>2

LEMMA PipedShell ==
  ASSUME TypeOK, Shape, NEW c \in Pids, NEW pipe \in Pipes,
         FirstForked(Smash, c, pipe) \/ BackgroundForked(Smash, c, pipe), ShellKnown
  PROVE  ShellKnown'
<1> DEFINE f == proc[Smash].fds
           g == proc'[Smash].fds
           a == pipe[1]
           b == pipe[2]
           k == pipes + 1
           s == [op |-> "fork second", k |-> pipes + 1, pipe |-> pipe,
                 pid |-> c, second |-> Step(Smash).second]
           t == [op |-> "list job", k |-> pipes + 1, pipe |-> pipe, pid |-> c]
<1>0. Smash \in Procs
  BY ProcsType
<1>1. /\ written' = written /\ NewPipe(Smash, pipe)
      /\ \/ FirstForked(Smash, c, pipe) /\ Takes(Smash, "pipe", <<s>>)
         \/ BackgroundForked(Smash, c, pipe) /\ Takes(Smash, "execute", <<t>>)
  BY DEF FirstForked, BackgroundForked
<1>2. /\ a \in Fds /\ b \in Fds /\ a # b /\ f[a] = None /\ f[b] = None
      /\ WithTwo(g, f, a, ReadEnd(k), b, WriteEnd(k))
  BY <1>0, <1>1, NewPipeFds DEF NewPipe
<1>3. InUse = {}
  <2>1. ~Doing(Smash, "fork second") /\ ~Doing(Smash, "list job")
    BY <1>1 DEF Takes, Doing
  <2> QED
    BY <2>1, NothingInUse
<1>4. /\ Step(Smash)'.k = k /\ Step(Smash)'.pipe = pipe
      /\ Doing(Smash, "fork second")' \/ Doing(Smash, "list job")'
  BY <1>0, <1>1, ParentStep DEF About
<1>5. InUse' = {a, b}
  BY <1>4 DEF InUse
<1>6. Carries(f, written, {}, g, written, {a, b}) /\ g[a] = ReadEnd(k) /\ g[b] = WriteEnd(k)
  <2> HIDE DEF f, g, a, b, k
  <2> QED
    BY <1>2, OpensPipe
<1>7. PipeHeld'
  BY <1>4, <1>6 DEF PipeHeld
<1>8. /\ \A i \in 1 .. Len(<<s>>) : <<s>>[i].op # "restore"
      /\ \A i \in 1 .. Len(<<t>>) : <<t>>[i].op # "restore"
  <2>1. s.op = "fork second" /\ t.op = "list job"
    OBVIOUS
  <2> HIDE DEF s, t
  <2> QED
    BY <2>1, OneStep
<1>9. RestoresKnown /\ f[0] = Tty
  BY DEF ShellKnown
<1>10. g[0] = Tty
  BY <1>6, <1>9 DEF Carries
<1> HIDE DEF s, t
<1>11. RestoresKnown'
  BY <1>1, <1>3, <1>5, <1>6, <1>8, <1>9, RestoresCarried
<1>12. Doing(Smash, "fork second")' \/ Doing(Smash, "redirect")' \/ Doing(Smash, "pipe")'
         => Restores' = {}
  <2>1. CASE FirstForked(Smash, c, pipe) /\ Takes(Smash, "pipe", <<s>>)
    <3>1. Restores = {}
      <4>1. Doing(Smash, "pipe")
        BY <2>1 DEF Takes, Doing
      <4> QED
        BY <4>1 DEF ShellKnown
    <3>2. Restores = {} <=> Restores' = {}
      BY <1>8, <2>1, TakesRestores
    <3> QED
      BY <3>1, <3>2
  <2>2. CASE BackgroundForked(Smash, c, pipe)
    <3>1. \A op : Doing(Smash, op)' => op = "list job"
      BY <1>0, <2>2, ParentHead
    <3> QED
      BY <3>1
  <2> QED
    BY <1>1, <2>1, <2>2
<1> QED
  BY <1>7, <1>10, <1>11, <1>12 DEF ShellKnown

LEMMA StdoutKnownStep ==
  ASSUME TypeOK, Shape, StdoutKnown, NewLine \/ \E p \in Procs : Kinds(p)
  PROVE  StdoutKnown'
<1> SUFFICES ASSUME proc'[Smash].state = "shell", ~forkFailed' PROVE ShellKnown'
  BY DEF StdoutKnown, ShellKnown
<1>0. Smash \in Procs /\ Smash \notin Pids
  BY ProcsType, CommandsAssumption DEF Smash
<1>1. ShellKnown
  BY ShellBefore, FailureStays DEF StdoutKnown, ShellKnown
<1>2. CASE Kept(Smash)
  <2>1. \A op : Doing(Smash, op)' <=> Doing(Smash, op)
    BY <1>2, KeptHead
  <2>2. Step(Smash)' = Step(Smash)
    BY <1>2, KeptHead
  <2>3. InUse' = InUse
    BY <2>1, <2>2 DEF InUse
  <2>4. Restores' = Restores
    BY <1>2 DEF Kept, Restores
  <2>5. Carries(proc[Smash].fds, written, InUse, proc[Smash].fds, written', InUse)
    <3>1. PICK v : v = written'
      OBVIOUS
    <3>2. written \subseteq v
      BY <3>1, PipesGrow
    <3> QED
      BY <3>1, <3>2, WrittenGrows
  <2>6. proc'[Smash].fds = proc[Smash].fds /\ proc'[Smash].todo = proc[Smash].todo
    BY <1>2 DEF Kept
  <2>7. \A i \in Restores :
          /\ proc[Smash].todo[i].fd \in Fds
          /\ proc[Smash].todo[i].saved \in Fds \union {NoFd}
    <3>1. proc[Smash].todo \in Seq(Steps)
      BY <1>0 DEF TypeOK, Process
    <3>2. \A i \in Restores : proc[Smash].todo[i] \in Steps /\ proc[Smash].todo[i].op = "restore"
      BY <3>1 DEF Restores
    <3> QED
      BY <3>2, StepType
  <2>8. RestoresKnown'
    BY <1>1, <2>3, <2>4, <2>5, <2>6, <2>7 DEF ShellKnown, RestoresKnown, Carries
  <2>9. PipeHeld'
    BY <1>1, <2>2, <2>3, <2>6 DEF ShellKnown, PipeHeld
  <2> QED
    BY <1>1, <2>1, <2>4, <2>6, <2>8, <2>9 DEF ShellKnown
<1>3. CASE Gone(Smash)
  BY <1>3 DEF Gone
<1>4. CASE StepsAlone(Smash)
  <2>1. CASE Started(Smash)
    BY <2>1 DEF Started
  <2> QED
    BY <1>1, <1>4, <2>1, QuietShell, LineShell, ListedShell, WaitedShell DEF StepsAlone
<1>5. ASSUME NEW c \in Pids, ForksOff(Smash, c)
      PROVE  ShellKnown'
  BY <1>1, <1>5, PipedShell, ForkedShell DEF ForksOff
<1> QED
  BY <1>0, <1>2, <1>3, <1>4, <1>5, Fates

-----------------------------------------------------------------------------
(* The theorems.                                                           *)

(* The stacks are those the code can have (Shape), pipes have new numbers  *)
(* (Numbered), children and parents know of each other, a handshake is     *)
(* the business of one parent and one child, and the ends of pipes and the *)
(* shell's descriptors are where the steps under way will look for them.   *)
IInv ==
  /\ TypeOK /\ Shape /\ Numbered
  /\ ParentsLive /\ ChildrenKnown
  /\ Handshakes /\ StartersKnown /\ StartsListed
  /\ WritersKnown
  /\ StdoutKnown

(* Before the first line: a shell with terminals, and nothing else. *)
LEMMA InitDoes ==
  ASSUME Init
  PROVE  /\ TypeOK
         /\ proc[Smash].state = "shell"
         /\ \A p \in Procs : proc[p].todo = <<>> /\ proc[p].side = None
         /\ \A p \in Procs \ {Smash} : proc[p].state = "none"
         /\ \A p \in Procs, fd \in Fds : proc[p].fds[fd] \in {Tty, None}
         /\ proc[Smash].fds[0] = Tty /\ proc[Smash].fds[1] = Tty
         /\ written = {} /\ pipes = 0
<1> DEFINE Shell(n) == [NoProc EXCEPT
               !.state = "shell",
               !.fds = [fd \in Fds |-> IF fd <= 2 + n THEN Tty ELSE None],
               !.directory = "home",
               !.currentDirectory = "home"]
<1>1. PICK n \in Inherited : proc = [p \in Procs |-> IF p # Smash THEN NoProc ELSE Shell(n)]
  BY DEF Init
<1>2. /\ n \in Nat /\ "home" \in Words /\ "shell" \in Alive
      /\ \A fd \in Fds : fd \in Nat
  BY CommandsAssumption DEF Words, Alive
<1>3. [fd \in Fds |-> IF fd <= 2 + n THEN Tty ELSE None] \in [Fds -> Files]
  BY FilesType
<1>4. Shell(n) \in Process /\ Shell(n).state = "shell" /\ Shell(n).todo = <<>>
      /\ Shell(n).side = None
      /\ Shell(n).fds = [fd \in Fds |-> IF fd <= 2 + n THEN Tty ELSE None]
  BY <1>2, <1>3, NoProcType DEF Process
<1> HIDE DEF Shell
<1>5. Smash \in Procs /\ proc[Smash] = Shell(n) /\ \A p \in Procs \ {Smash} : proc[p] = NoProc
  BY <1>1, ProcsType
<1>6. proc \in [Procs -> Process]
  BY <1>1, <1>4, NoProcType
<1>7. TypeOK
  BY <1>6 DEF Init, TypeOK
<1>8. /\ proc[Smash].state = "shell"
      /\ \A p \in Procs : proc[p].todo = <<>> /\ proc[p].side = None
      /\ \A p \in Procs \ {Smash} : proc[p].state = "none"
  BY <1>4, <1>5, NoProcType
<1>9. ASSUME NEW p \in Procs, NEW fd \in Fds PROVE proc[p].fds[fd] \in {Tty, None}
  <2>1. CASE p = Smash
    BY <1>4, <1>5, <2>1
  <2>2. CASE p # Smash
    BY <1>5, <2>2, NoProcType
  <2> QED
    BY <2>1, <2>2
<1>10. proc[Smash].fds[0] = Tty /\ proc[Smash].fds[1] = Tty
  <2>1. 0 \in Fds /\ 1 \in Fds /\ 0 <= 2 + n /\ 1 <= 2 + n
    BY <1>2, StandardFds
  <2> QED
    BY <1>4, <1>5, <2>1
<1> QED
  BY <1>7, <1>8, <1>9, <1>10 DEF Init

LEMMA InitIInv == ASSUME Init PROVE IInv
<1>1. /\ TypeOK
      /\ proc[Smash].state = "shell"
      /\ \A p \in Procs : proc[p].todo = <<>> /\ proc[p].side = None
      /\ \A p \in Procs \ {Smash} : proc[p].state = "none"
      /\ \A p \in Procs, fd \in Fds : proc[p].fds[fd] \in {Tty, None}
      /\ proc[Smash].fds[0] = Tty /\ proc[Smash].fds[1] = Tty
      /\ written = {} /\ pipes = 0
  BY InitDoes
<1>2. Smash \in Procs /\ \A p \in Pids : p \in Procs \ {Smash}
  BY ProcsType, CommandsAssumption DEF Smash
<1>3. \A p \in Procs : \A op : ~Doing(p, op)
  BY <1>1 DEF Doing
<1>4. None[2] = 0 /\ Tty[2] = 0 /\ None[1] = "none"
  BY DEF None, Tty
<1>5. Shape
  <2>1. \A p \in Procs : StackFits(p, proc[p].todo)
    BY <1>1 DEF StackFits
  <2> QED
    BY <1>1, <1>2, <2>1 DEF Shape
<1>6. Numbered
  <2>1. \A p \in Procs : proc[p].side[2] = 0
    BY <1>1, <1>4
  <2>2. \A p \in Procs, fd \in Fds : proc[p].fds[fd][2] = 0
    BY <1>1, <1>4
  <2>3. \A p \in Procs : proc[p].side[2] <= pipes
    BY <1>1, <2>1
  <2>4. \A p \in Procs, fd \in Fds : proc[p].fds[fd][2] <= pipes
    BY <1>1, <2>2
  <2>5. \A k \in written : k <= pipes
    BY <1>1
  <2> QED
    BY <1>3, <2>3, <2>4, <2>5, Zenon DEF Numbered
<1>7. ParentsLive /\ ChildrenKnown
  BY <1>1, <1>2 DEF ParentsLive, ParentLives, ChildrenKnown
<1>8. Handshakes /\ StartersKnown
  BY <1>2, <1>3 DEF Handshakes, StartersKnown, Starting
<1>9. StartsListed
  BY <1>1, <1>2 DEF StartsListed
<1>10. WritersKnown
  <2>1. \A p \in Procs : proc[p].side[1] # "read"
    BY <1>1, <1>4
  <2> QED
    BY <1>2, <1>3, <2>1 DEF WritersKnown, SecondsKnown, FirstsKnown, ReadersKnown
<1>11. StdoutKnown
  <2>1. InUse = {}
    BY <1>2, <1>3 DEF InUse
  <2>2. Restores = {}
    BY <1>1, <1>2 DEF Restores
  <2>3. Usual(proc[Smash].fds, written, {})
    BY <1>1, <1>2 DEF Usual, LeftOpen
  <2> QED
    BY <1>1, <2>1, <2>2, <2>3 DEF StdoutKnown, PipeHeld, RestoresKnown, AtMostOne
<1> QED
  BY <1>1, <1>5, <1>6, <1>7, <1>8, <1>9, <1>10, <1>11 DEF IInv

LEMMA IInvStep == ASSUME IInv, [Next]_vars PROVE IInv'
<1>1. /\ TypeOK /\ Shape /\ Numbered /\ ParentsLive /\ ChildrenKnown /\ Handshakes
      /\ StartersKnown /\ StartsListed /\ WritersKnown /\ StdoutKnown
  BY DEF IInv
<1>2. TypeOK' /\ (NewLine \/ \E p \in Procs : Kinds(p))
  BY <1>1, NextKinds
<1>3. Shape'
  BY <1>1, <1>2, ShapeStep
<1>4. Numbered'
  BY <1>1, <1>2, NumberedStep
<1>5. ParentsLive'
  BY <1>1, <1>2, ParentsLiveStep
<1>6. ChildrenKnown'
  BY <1>1, <1>2, ChildrenKnownStep
<1>7. Handshakes'
  BY <1>1, <1>2, HandshakesStep
<1>8. StartersKnown'
  BY <1>1, <1>2, <1>3, StartersKnownStep
<1>9. StartsListed'
  BY <1>1, <1>2, StartsListedStep
<1>10. WritersKnown'
  <2>1. SecondsKnown'
    BY <1>1, <1>2, SecondsKnownStep
  <2>2. FirstsKnown'
    BY <1>1, <1>2, FirstsKnownStep
  <2>3. ReadersKnown'
    BY <1>1, <1>2, ReadersKnownStep
  <2> QED
    BY <2>1, <2>2, <2>3 DEF WritersKnown
<1>11. StdoutKnown'
  BY <1>1, <1>2, StdoutKnownStep
<1> QED
  BY <1>2, <1>3, <1>4, <1>5, <1>6, <1>7, <1>8, <1>9, <1>10, <1>11 DEF IInv

THEOREM Invariance == Spec => []IInv
<1>1. Init => IInv
  BY InitIInv
<1>2. IInv /\ [Next]_vars => IInv'
  BY IInvStep
<1> QED
  BY <1>1, <1>2, PTL DEF Spec

(* Every process's stack is one that its code can carry out, and every     *)
(* step on it names descriptors, pipes and children that there are: no     *)
(* command works on a pipe, a saved descriptor or a pid that the steps     *)
(* before it did not produce.                                              *)
THEOREM Typing == Spec => []TypeOK
<1>1. IInv => TypeOK
  BY DEF IInv
<1> QED
  BY <1>1, Invariance, PTL

(* At the prompt every child of the shell is in the jobs list: what pipes, *)
(* redirections and commands have forked was waited for, or was listed in  *)
(* this line or before, whatever the children do meanwhile; as long as no  *)
(* fork fails, after which the first child of a pipe is forgotten.         *)
THEOREM NoChildForgotten == Spec => []ChildrenListed
<1>1. IInv => ChildrenListed
  <2> SUFFICES ASSUME IInv, AtPrompt, ~forkFailed, NEW p \in Pids, proc[p].state # "none",
                      proc[p].parent = Smash
               PROVE  p \in proc[Smash].jobs
    BY DEF ChildrenListed
  <2>1. p \in proc[Smash].jobs \union Pending(proc[Smash].todo)
    BY DEF IInv, ChildrenKnown, AtPrompt
  <2>2. Pending(proc[Smash].todo) = {}
    BY DEF AtPrompt, Pending
  <2> QED
    BY <2>1, <2>2
<1> QED
  BY <1>1, Invariance, PTL

(* A background program runs only once its shell has listed it: the        *)
(* message, or the end, of the handshake pipe cannot reach the child       *)
(* before the parent's addJob, since the parent holds a writing end until  *)
(* then and nobody else writes.                                            *)
THEOREM ListedBeforeStart == Spec => []StartsListed
<1>1. IInv => StartsListed
  BY DEF IInv
<1> QED
  BY <1>1, Invariance, PTL

(* The input of a pipe's second command ends with the first command: no    *)
(* process outside the first part holds a writing end once it has made its *)
(* redirections, for any jobs and any number of pipes.                     *)
THEOREM PipeEndsWithFirst == Spec => []OnlyFirstWrites
<1>1. IInv => OnlyFirstWrites
  <2> SUFFICES ASSUME IInv, NEW p \in Procs, proc[p].side[1] = "read",
                      NEW w \in Holders(WriteEnd(proc[p].side[2]))
               PROVE  proc[w].side = WriteEnd(proc[p].side[2]) \/ Redirecting(w)
    BY DEF OnlyFirstWrites
  <2>1. PICK fd \in Fds : w \in Procs /\ proc[w].fds[fd] = WriteEnd(proc[p].side[2])
    BY DEF Holders
  <2>2. MayHold(w, fd, proc[p].side[2])
    BY <2>1 DEF IInv, WritersKnown, SecondsKnown
  <2> QED
    BY <2>2 DEF MayHold, Redirecting, Doing
<1> QED
  BY <1>1, Invariance, PTL

LEMMA AtMostOneIsFew ==
  ASSUME NEW S, IsFiniteSet(S), AtMostOne(S)
  PROVE  Cardinality(S) <= 1
<1>1. Cardinality(S) \in Nat
  BY FS_CardinalityType
<1>2. CASE S = {}
  BY <1>2, FS_EmptySet
<1>3. CASE S # {}
  <2>1. PICK x \in S : TRUE
    BY <1>3
  <2>2. S \ {x} = {}
    BY <2>1 DEF AtMostOne
  <2>3. ~(Cardinality(S) >= 2)
    BY <2>2, TwoOfThem
  <2> QED
    BY <1>1, <2>3
<1> QED
  BY <1>2, <1>3

(* Between two lines the shell's stdin is the terminal, and so is stdout   *)
(* unless a redirection ran out of descriptors; and nothing stays open but *)
(* what the code leaves open: saved copies of stdout, writing ends of      *)
(* handshakes that are over, directories of cat.  This is for any lines,   *)
(* redirections in pipes and in the background among them, as long as no   *)
(* fork fails: the pipe of a failed fork stays open.                       *)
THEOREM StdoutComesBack == Spec => []DescriptorsRestored
<1>1. IInv => DescriptorsRestored
  <2> SUFFICES ASSUME IInv, AtPrompt, ~forkFailed
               PROVE  LET fds == proc[Smash].fds IN
                        /\ fds[0] = Tty
                        /\ fds[1] # Tty =>
                             fds[1] = File /\ Cardinality(FreeFds(proc[Smash])) <= 1
                        /\ \A fd \in Fds \ {0, 1, 2} :
                             \/ fds[fd] \in {None, Tty, Directory}
                             \/ fds[fd] = File /\ fds[1] = File
                             \/ fds[fd][1] = "write" /\ fds[fd][2] \in written
    BY DEF DescriptorsRestored
  <2>1. InUse = {} /\ Restores = {}
    BY DEF AtPrompt, InUse, Restores, Doing
  <2>2. proc[Smash].fds[0] = Tty /\ Usual(proc[Smash].fds, written, {})
    BY <2>1 DEF IInv, StdoutKnown, RestoresKnown, AtPrompt
  <2>3. FreeFds(proc[Smash]) = Free(proc[Smash].fds) /\ IsFiniteSet(FreeFds(proc[Smash]))
    <3>1. proc[Smash] \in Process
      BY ProcsType DEF IInv, TypeOK
    <3> QED
      BY <3>1, FreeFdsType DEF FreeFds, Free
  <2>4. AtMostOne(Free(proc[Smash].fds)) => Cardinality(FreeFds(proc[Smash])) <= 1
    BY <2>3, AtMostOneIsFew
  <2> QED
    BY <2>2, <2>4 DEF Usual, LeftOpen
<1> QED
  BY <1>1, Invariance, PTL
=============================================================================
