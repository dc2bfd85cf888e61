-------------------------------- MODULE Smash --------------------------------
(***************************************************************************)
(* The shell of HW1: its loop, the commands that touch the jobs list, the  *)
(* handlers of Ctrl-C and Ctrl-Z, and the children.                        *)
(*                                                                         *)
(* The handlers run between any two steps of the shell and act on the      *)
(* process in currentPidForegroundProcess, which is set while the shell    *)
(* waits; a step here is the code between two points where a handler or a  *)
(* child can make a difference.  A child ends or stops at any time, and    *)
(* the shell learns of it only from waitpid.                               *)
(***************************************************************************)
EXTENDS JobsList

CONSTANTS
  Pids,       \* the processes the shell may fork, each at most once
  Commands,   \* the commands the user gives, out of CommandKinds
  SelfStops,  \* may a child stop without a signal from this shell?
  CtrlZAgain, \* may Ctrl-Z come for a process that it has put in the list?
  MaxJobs     \* bound: Ctrl-Z comes only while the list is shorter than this
              \* and the counter of ids smaller

CommandKinds ==
  {"run", "start", "fg", "bg", "kill -9", "kill -19", "kill -18", "quit kill"}

ASSUME SmashAssumption ==
  /\ 0 \notin Pids
  /\ Commands \subseteq CommandKinds
  /\ SelfStops \in BOOLEAN
  /\ CtrlZAgain \in BOOLEAN
  /\ MaxJobs \in Nat

(* A process is running; or stopped, and its parent has not been told yet  *)
(* ("stopping") or has ("stopped"); or ended, and not waited for yet       *)
(* ("zombie") or gone ("reaped").                                          *)
ProcStates == {"none", "running", "stopping", "stopped", "zombie", "reaped"}

NoPid == 0
NoJob == [pid |-> NoPid, id |-> 0]

VARIABLES
  proc,      \* the state of each process
  list,      \* the jobs list
  pc,        \* where the shell is
  cur,       \* the process it waits for or is about to, and its job id or 0
  fgPid,     \* currentPidForegroundProcess
  fgJobId,   \* currentJobIdForegroundProcess
  scan,      \* removeFinishedJobs: the position it looks at
  toRemove   \* removeFinishedJobs: jobsToRemove, as ids

vars == <<proc, list, pc, cur, fgPid, fgJobId, scan, toRemove>>

Init ==
  /\ proc = [p \in Pids |-> "none"]
  /\ list = EmptyList
  /\ pc = "prompt"
  /\ cur = NoJob
  /\ fgPid = NoPid
  /\ fgJobId = 0
  /\ scan = 0
  /\ toRemove = <<>>

-----------------------------------------------------------------------------
(* Processes.                                                              *)

(* What a signal makes of a process in state s. *)
Signalled(s, sig) ==
  CASE sig = "KILL" /\ s \in {"running", "stopping", "stopped"} -> "zombie"
    [] sig = "STOP" /\ s = "running" -> "stopping"
    [] sig = "CONT" /\ s \in {"stopping", "stopped"} -> "running"
    [] OTHER -> s

(* kill fails only for a process that was waited for. *)
CanSignal(p) == proc[p] # "reaped"
Signal(p, sig) == proc' = [proc EXCEPT ![p] = Signalled(@, sig)]

(* What waitpid makes of a process it reports. *)
Waited(s) == CASE s = "zombie" -> "reaped" [] s = "stopping" -> "stopped" [] OTHER -> s

Exits(p) ==
  /\ proc[p] = "running"
  /\ proc' = [proc EXCEPT ![p] = "zombie"]
  /\ UNCHANGED <<list, pc, cur, fgPid, fgJobId, scan, toRemove>>

(* By raising SIGSTOP, or for reading from a terminal it does not own. *)
StopsItself(p) ==
  /\ SelfStops
  /\ proc[p] = "running"
  /\ Signal(p, "STOP")
  /\ UNCHANGED <<list, pc, cur, fgPid, fgJobId, scan, toRemove>>

-----------------------------------------------------------------------------
(* The loop of main.                                                       *)

ReadLine ==
  /\ pc = "prompt"
  /\ pc' = "reaping"
  /\ scan' = 1
  /\ toRemove' = <<>>
  /\ UNCHANGED <<proc, list, cur, fgPid, fgJobId>>

(* removeFinishedJobs, first loop: waitpid(WNOHANG) for each entry.  It    *)
(* does not report stops, and fails for a process that was waited for.     *)
ReapNext ==
  /\ pc = "reaping"
  /\ scan <= Len(list.jobs)
  /\ LET job == list.jobs[scan]
     IN IF proc[job.pid] = "zombie"
        THEN /\ proc' = [proc EXCEPT ![job.pid] = "reaped"]
             /\ toRemove' = Append(toRemove, job.id)
        ELSE UNCHANGED <<proc, toRemove>>
  /\ scan' = scan + 1
  /\ UNCHANGED <<list, pc, cur, fgPid, fgJobId>>

ReapDone ==
  /\ pc = "reaping"
  /\ scan > Len(list.jobs)
  /\ scan' = 0
  /\ pc' = "removing"
  /\ UNCHANGED <<proc, list, cur, fgPid, fgJobId, toRemove>>

(* removeFinishedJobs, second loop. *)
RemoveNext ==
  /\ pc = "removing"
  /\ toRemove # <<>>
  /\ list' = removeJobById(list, Head(toRemove))
  /\ toRemove' = Tail(toRemove)
  /\ UNCHANGED <<proc, pc, cur, fgPid, fgJobId, scan>>

RemoveDone ==
  /\ pc = "removing"
  /\ toRemove = <<>>
  /\ pc' = "command"
  /\ UNCHANGED <<proc, list, cur, fgPid, fgJobId, scan, toRemove>>

(* A command that neither forks, signals nor changes the list, or one that *)
(* is refused; quit without kill is one, and ends the loop.                *)
OtherCommand ==
  /\ pc = "command"
  /\ pc' \in {"prompt", "exited"}
  /\ UNCHANGED <<proc, list, cur, fgPid, fgJobId, scan, toRemove>>

-----------------------------------------------------------------------------
(* External commands.                                                      *)

(* runForegroundExternalCommand up to the return of fork. *)
RunForeground ==
  /\ pc = "command" /\ "run" \in Commands
  /\ \E p \in Pids :
       /\ proc[p] = "none"
       /\ proc' = [proc EXCEPT ![p] = "running"]
       /\ cur' = [pid |-> p, id |-> 0]
  /\ pc' = "forked"
  /\ UNCHANGED <<list, fgPid, fgJobId, scan, toRemove>>

SetForeground ==
  /\ pc = "forked"
  /\ fgPid' = cur.pid
  /\ pc' = "waiting"
  /\ UNCHANGED <<proc, list, cur, fgJobId, scan, toRemove>>

(* runBackgroundExternalCommand: the child starts its program only after   *)
(* it was added.                                                           *)
StartBackground ==
  /\ pc = "command" /\ "start" \in Commands
  /\ \E p \in Pids :
       /\ proc[p] = "none"
       /\ proc' = [proc EXCEPT ![p] = "running"]
       /\ list' = addJob(list, p, FALSE)
  /\ pc' = "prompt"
  /\ UNCHANGED <<cur, fgPid, fgJobId, scan, toRemove>>

(* waitpid(WUNTRACED) returns: the process ended or stopped, or it is no   *)
(* child any more.                                                         *)
WaitReturns ==
  /\ pc = "waiting"
  /\ proc[cur.pid] \in {"zombie", "stopping", "reaped"}
  /\ proc' = [proc EXCEPT ![cur.pid] = Waited(@)]
  /\ pc' = "returned"
  /\ UNCHANGED <<list, cur, fgPid, fgJobId, scan, toRemove>>

(* Slip: the pid is reset to the value that a failed wait returns. *)
BugResetToError ==
  /\ pc = "returned"
  /\ fgPid' = -1
  /\ fgJobId' = 0
  /\ cur' = NoJob
  /\ pc' = "prompt"
  /\ UNCHANGED <<proc, list, scan, toRemove>>

(* fg restores the values it found, an external command resets the pid:    *)
(* both are 0, for the prompt is given with no process in the foreground.  *)
ResetForeground ==
  /\ pc = "returned"
  /\ fgPid' = NoPid
  /\ fgJobId' = 0
  /\ cur' = NoJob
  /\ pc' = "prompt"
  /\ UNCHANGED <<proc, list, scan, toRemove>>

-----------------------------------------------------------------------------
(* Built-in commands.                                                      *)

(* Slip: fg never sends SIGCONT. *)
BugFgWithoutContinue ==
  /\ pc = "command" /\ "fg" \in Commands
  /\ \E job \in NamedJobs(list) \union getLastJob(list) :
       /\ list' = removeJobByPid(list, job.pid)
       /\ fgPid' = job.pid
       /\ cur' = [pid |-> job.pid, id |-> job.id]
       /\ pc' = "fgJobId"
       /\ UNCHANGED proc
  /\ UNCHANGED <<fgJobId, scan, toRemove>>

(* fg up to the point where currentPidForegroundProcess is set. *)
Fg ==
  /\ pc = "command" /\ "fg" \in Commands
  /\ \E job \in NamedJobs(list) \union getLastJob(list) :
       \/ /\ job.stopped /\ ~CanSignal(job.pid)
          /\ pc' = "prompt"
          /\ UNCHANGED <<proc, list, cur, fgPid>>
       \/ /\ job.stopped => CanSignal(job.pid)
          /\ IF job.stopped THEN Signal(job.pid, "CONT") ELSE UNCHANGED proc
          /\ list' = removeJobByPid(list, job.pid)
          /\ fgPid' = job.pid
          /\ cur' = [pid |-> job.pid, id |-> job.id]
          /\ pc' = "fgJobId"
  /\ UNCHANGED <<fgJobId, scan, toRemove>>

SetForegroundJobId ==
  /\ pc = "fgJobId"
  /\ fgJobId' = cur.id
  /\ pc' = "waiting"
  /\ UNCHANGED <<proc, list, cur, fgPid, scan, toRemove>>

(* Slip: bg never sends SIGCONT. *)
BugBgWithoutContinue ==
  /\ pc = "command" /\ "bg" \in Commands
  /\ \E job \in NamedJobs(list) \union getLastStoppedJob(list) :
       /\ job.stopped
       /\ list' = addRetainedJob(removeJobByPid(list, job.pid), job.id, job.pid, FALSE)
  /\ pc' = "prompt"
  /\ UNCHANGED <<proc, cur, fgPid, fgJobId, scan, toRemove>>

(* bg: the entry is replaced by one that is not stopped, and again by a    *)
(* stopped one when SIGCONT cannot be sent.                                *)
Bg ==
  /\ pc = "command" /\ "bg" \in Commands
  /\ \E job \in NamedJobs(list) \union getLastStoppedJob(list) :
       /\ job.stopped
       /\ LET resumed ==
                addRetainedJob(removeJobByPid(list, job.pid), job.id, job.pid, FALSE)
          IN list' = IF CanSignal(job.pid) THEN resumed
                     ELSE addRetainedJob(removeJobByPid(resumed, job.pid),
                                         job.id, job.pid, TRUE)
       /\ Signal(job.pid, "CONT")
  /\ pc' = "prompt"
  /\ UNCHANGED <<cur, fgPid, fgJobId, scan, toRemove>>

(* The signal a kill command names, out of 1 to 32 those that matter here; *)
(* arguments that areParamsValid refuses make it an OtherCommand.          *)
KillSignals ==
  [c \in {"kill -9", "kill -19", "kill -18"} |->
     CASE c = "kill -9" -> "KILL" [] c = "kill -19" -> "STOP" [] c = "kill -18" -> "CONT"]

(* kill: the list is not told. *)
Kill ==
  /\ pc = "command"
  /\ \E job \in NamedJobs(list), c \in Commands \intersect DOMAIN KillSignals :
       Signal(job.pid, KillSignals[c])
  /\ pc' = "prompt"
  /\ UNCHANGED <<list, cur, fgPid, fgJobId, scan, toRemove>>

(* quit kill: killAllJobs, and the end of the loop. *)
QuitKill ==
  /\ pc = "command" /\ "quit kill" \in Commands
  /\ LET listed == {job.pid : job \in ToSet(list.jobs)}
     IN proc' = [p \in Pids |-> IF p \in listed THEN Signalled(proc[p], "KILL")
                                ELSE proc[p]]
  /\ pc' = "exited"
  /\ UNCHANGED <<list, cur, fgPid, fgJobId, scan, toRemove>>

-----------------------------------------------------------------------------
(* The signal handlers.                                                    *)

handleIntSignal ==
  /\ pc # "exited" /\ fgPid # NoPid
  /\ Signal(fgPid, "KILL")
  /\ UNCHANGED <<list, pc, cur, fgPid, fgJobId, scan, toRemove>>

(* Slip: the process is stopped and not added to the list. *)
BugStpDoesNotAdd ==
  /\ pc # "exited" /\ fgPid # NoPid
  /\ Signal(fgPid, "STOP")
  /\ UNCHANGED <<list, pc, cur, fgPid, fgJobId, scan, toRemove>>

handleStpSignal ==
  /\ pc # "exited" /\ fgPid # NoPid
  /\ CanSignal(fgPid)
  /\ Signal(fgPid, "STOP")
  /\ list' = IF fgJobId # 0 THEN addRetainedJob(list, fgJobId, fgPid, TRUE)
             ELSE addJob(list, fgPid, TRUE)
  /\ UNCHANGED <<pc, cur, fgPid, fgJobId, scan, toRemove>>

(* Bounds on the user, not on the handler, which has no such guards: how   *)
(* often Ctrl-Z comes.                                                     *)
CtrlZComes ==
  /\ CtrlZAgain \/ PositionOfPid(list, fgPid) = 0
  /\ Len(list.jobs) < MaxJobs /\ list.maxJobId < MaxJobs

(* initSignalHandlers installs them with SA_RESTART: the call that one     *)
(* interrupts, waitpid above all, goes on afterwards.                      *)
SignalHandlers ==
  \/ handleIntSignal
  \/ CtrlZComes /\ handleStpSignal

-----------------------------------------------------------------------------
ShellStep ==
  \/ ReadLine
  \/ ReapNext
  \/ ReapDone
  \/ RemoveNext
  \/ RemoveDone
  \/ OtherCommand
  \/ RunForeground
  \/ SetForeground
  \/ StartBackground
  \/ WaitReturns
  \/ ResetForeground
  \/ Fg
  \/ SetForegroundJobId
  \/ Bg
  \/ Kill
  \/ QuitKill

Next ==
  \/ ShellStep
  \/ SignalHandlers
  \/ \E p \in Pids : Exits(p) \/ StopsItself(p)

(* The shell goes on when it can, and a program that the shell waits for   *)
(* and that is not stopped ends in the end.                                *)
Fairness ==
  /\ WF_vars(SetForeground \/ SetForegroundJobId \/ WaitReturns \/ ResetForeground)
  /\ WF_vars(pc = "waiting" /\ Exits(cur.pid))

Spec == Init /\ [][Next]_vars
FairSpec == Spec /\ Fairness

-----------------------------------------------------------------------------
(* Properties.                                                             *)

Pcs == {"prompt", "reaping", "removing", "command", "forked", "fgJobId",
        "waiting", "returned", "exited"}

TypeOK ==
  /\ proc \in [Pids -> ProcStates]
  /\ list \in [jobs : Seq([id : Nat, pid : Pids, stopped : BOOLEAN]), maxJobId : Nat]
  /\ pc \in Pcs
  /\ cur \in [pid : Pids \union {NoPid}, id : Nat]
  /\ fgPid \in Pids \union {NoPid}
  /\ fgJobId \in Nat
  /\ scan \in Nat
  /\ toRemove \in Seq(Nat)

(* Ids increase along the list and the counter is the last one, whatever   *)
(* ends, is killed or is stopped in whatever order: so a new job never     *)
(* takes an id in use, and eraseJob is right to look at the end of the     *)
(* list.  This is so as long as no job is resumed by fg or bg, which put   *)
(* an entry back without raising the counter (JobsList.cpp:44-50).         *)
IdsIncreasing ==
  /\ \A i, j \in 1 .. Len(list.jobs) : i < j => list.jobs[i].id < list.jobs[j].id
  /\ list.maxJobId = IF list.jobs = <<>> THEN 0 ELSE list.jobs[Len(list.jobs)].id

Listed == {list.jobs[i].pid : i \in 1 .. Len(list.jobs)}
Children == {p \in Pids : proc[p] \notin {"none", "reaped"}}
Waiting == pc \in {"forked", "fgJobId", "waiting"}

(* The shell can deal with every child it has: each one is in the list or  *)
(* is the one it is waiting for.                                           *)
EveryChildTracked ==
  pc # "exited" =>
    Children \subseteq Listed \union (IF Waiting THEN {cur.pid} ELSE {})

(* removeFinishedJobs takes only processes off the list that have ended.   *)
RemovesOnlyFinished ==
  [][pc = "removing" => \A p \in Listed \ Listed' : proc[p] = "reaped"]_vars

(* fg waits in vain for a process whose stop it was told of before, unless *)
(* it first resumes it, which it does only for an entry that is marked     *)
(* stopped: such a process never has an entry that is not.                 *)
StoppedIsMarked ==
  \A i \in 1 .. Len(list.jobs) :
    proc[list.jobs[i].pid] = "stopped" => list.jobs[i].stopped

(* A job that fg took from the list goes back under the id it had there.   *)
(* (SmallShell.cpp:213; the code breaks it, see smash_retain_violation.)   *)
RetainsId ==
  cur.id # 0 =>
    \A i \in 1 .. Len(list.jobs) :
      list.jobs[i].pid = cur.pid => list.jobs[i].id = cur.id

(* As long as Ctrl-Z is not repeated for a process that is in the list     *)
(* (CtrlZAgain = FALSE), the prompt comes back after every foreground      *)
(* command, in every order of Ctrl-Z, Ctrl-C, kill, fg and bg.  Without    *)
(* that it is false: a second Ctrl-Z lists the process twice, bg unmarks   *)
(* one entry, fg takes an unmarked one while the process is stopped, sends *)
(* no SIGCONT, and waits for a stop that was reported before.              *)
PromptReturns ==
  pc \in {"forked", "fgJobId", "waiting", "returned"} ~> pc \in {"prompt", "exited"}
=============================================================================
