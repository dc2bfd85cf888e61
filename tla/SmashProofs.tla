---------------------------- MODULE SmashProofs ----------------------------
(***************************************************************************)
(* Theorems about the shell, for any number of processes.                  *)
(***************************************************************************)
EXTENDS Smash, JobsListTheorems

-----------------------------------------------------------------------------
(* Type correctness.                                                       *)

(* A signal leads from a state of a process to a state. *)
LEMMA SignalledType ==
  ASSUME NEW s \in ProcStates, NEW sig \in {"KILL", "STOP", "CONT"}
  PROVE  Signalled(s, sig) \in ProcStates
BY DEF Signalled, ProcStates

(* So do all the states after a signal to one process. *)
LEMMA SignalType ==
  ASSUME proc \in [Pids -> ProcStates], NEW STATE p, NEW sig \in {"KILL", "STOP", "CONT"},
         Signal(p, sig)
  PROVE  proc' \in [Pids -> ProcStates]
BY SignalledType DEF Signal

LEMMA KillSignalsOne ==
  ASSUME Kill
  PROVE  \E job \in NamedJobs(list), sig \in {"KILL", "STOP", "CONT"} : Signal(job.pid, sig)
<1>1. \A c \in DOMAIN KillSignals : KillSignals[c] \in {"KILL", "STOP", "CONT"}
  BY DEF KillSignals
<1>2. PICK job \in NamedJobs(list), c \in Commands \intersect DOMAIN KillSignals :
        Signal(job.pid, KillSignals[c])
  BY DEF Kill
<1> QED
  BY <1>1, <1>2

(* removeFinishedJobs looks at positions that exist. *)
ScanStarted == pc = "reaping" => scan >= 1

(* Every step keeps the scan at a position. *)
LEMMA ScanStep ==
  ASSUME TypeOK, ScanStarted, [Next]_vars
  PROVE  ScanStarted'
<1>1. CASE ReadLine \/ ReapNext
  BY <1>1 DEF ScanStarted, ReadLine, ReapNext, TypeOK
<1>2. CASE \/ ReapDone \/ RemoveDone \/ OtherCommand \/ RunForeground \/ SetForeground
           \/ StartBackground \/ WaitReturns \/ ResetForeground
           \/ SetForegroundJobId \/ Kill \/ QuitKill
  <2>1. pc' # "reaping"
    BY <1>2, Zenon DEF ReapDone, RemoveDone, OtherCommand, RunForeground, SetForeground,
       StartBackground, WaitReturns, ResetForeground, SetForegroundJobId, Kill, QuitKill
  <2> QED
    BY <2>1 DEF ScanStarted
<1>3. CASE Fg
  BY <1>3 DEF Fg, ScanStarted
<1>4. CASE Bg
  <2>1. pc' = "prompt"
    BY <1>4 DEF Bg
  <2> QED
    BY <2>1 DEF ScanStarted
<1>5. CASE RemoveNext \/ handleIntSignal \/ handleStpSignal \/ UNCHANGED vars
  BY <1>5 DEF RemoveNext, handleIntSignal, handleStpSignal, vars, ScanStarted
<1>6. CASE \E p \in Pids : Exits(p) \/ StopsItself(p)
  BY <1>6 DEF Exits, StopsItself, ScanStarted
<1> QED
  BY <1>1, <1>2, <1>3, <1>4, <1>5, <1>6 DEF Next, ShellStep, SignalHandlers

(* Every step keeps the types. *)
LEMMA TypeStep ==
  ASSUME TypeOK, ScanStarted, [Next]_vars
  PROVE  TypeOK'
<1>1. /\ proc \in [Pids -> ProcStates]
      /\ list \in Lists(Pids)
      /\ cur \in [pid : Pids \union {NoPid}, id : Nat]
      /\ fgPid \in Pids \union {NoPid}
      /\ fgJobId \in Nat /\ scan \in Nat /\ toRemove \in Seq(Nat) /\ pc \in Pcs
  BY DEF TypeOK, Lists, Jobs
<1>2. SUFFICES /\ proc' \in [Pids -> ProcStates]
               /\ list' \in Lists(Pids)
               /\ cur' \in [pid : Pids \union {NoPid}, id : Nat]
               /\ fgPid' \in Pids \union {NoPid}
               /\ fgJobId' \in Nat /\ scan' \in Nat /\ toRemove' \in Seq(Nat)
               /\ pc' \in Pcs
  BY DEF TypeOK, Lists, Jobs
<1>3. \A i \in 1 .. Len(list.jobs) :
        list.jobs[i].id \in Nat /\ list.jobs[i].pid \in Pids
  BY <1>1, Entries
<1>4. \A job \in NamedJobs(list) \union getLastJob(list) \union getLastStoppedJob(list) :
        job.id \in Nat /\ job.pid \in Pids
  <2> TAKE job \in NamedJobs(list) \union getLastJob(list) \union getLastStoppedJob(list)
  <2>1. CASE job \in NamedJobs(list)
    BY <1>1, <1>3, <2>1, NamedJobsListed
  <2>2. CASE job \in getLastJob(list) \union getLastStoppedJob(list)
    BY <1>1, <1>3, <2>2, LastJobsListed
  <2> QED
    BY <2>1, <2>2
<1>a. CASE ReadLine
  BY <1>1, <1>a DEF ReadLine, Pcs
<1>b. CASE ReapNext
  <2> DEFINE job == list.jobs[scan]
  <2>1. proc' \in [Pids -> ProcStates]
    BY <1>1, <1>b DEF ReapNext, ProcStates
  <2>2. job.id \in Nat
    BY <1>1, <1>3, <1>b DEF ReapNext, ScanStarted
  <2>3. toRemove' = toRemove \/ toRemove' = Append(toRemove, job.id)
    BY <1>b DEF ReapNext
  <2> HIDE DEF job
  <2>4. Append(toRemove, job.id) \in Seq(Nat)
    BY <1>1, <2>2, AppendProperties
  <2>5. toRemove' \in Seq(Nat)
    BY <1>1, <2>3, <2>4
  <2>6. scan' = scan + 1 /\ UNCHANGED <<list, pc, cur, fgPid, fgJobId>>
    BY <1>b DEF ReapNext
  <2> QED
    BY <1>1, <2>1, <2>5, <2>6
<1>c. CASE ReapDone
  BY <1>1, <1>c DEF ReapDone, Pcs
<1>d. CASE RemoveNext
  <2>1. list' \in Lists(Pids)
    BY <1>1, <1>d, RemoveByIdProperties DEF RemoveNext
  <2>2. toRemove' \in Seq(Nat)
    BY <1>1, <1>d, HeadTailProperties DEF RemoveNext
  <2> QED
    BY <1>1, <1>d, <2>1, <2>2 DEF RemoveNext, Pcs
<1>e. CASE RemoveDone \/ OtherCommand
  BY <1>1, <1>e DEF RemoveDone, OtherCommand, Pcs
<1>f. CASE RunForeground
  BY <1>1, <1>f DEF RunForeground, Pcs, ProcStates
<1>g. CASE SetForeground
  BY <1>1, <1>g DEF SetForeground, Pcs
<1>h. CASE StartBackground
  <2>1. list' \in Lists(Pids)
    <3>1. PICK p \in Pids : list' = addJob(list, p, FALSE)
      BY <1>h DEF StartBackground
    <3> QED
      BY <1>1, <3>1, AddProperties
  <2> QED
    BY <1>1, <1>h, <2>1 DEF StartBackground, Pcs, ProcStates
<1>i. CASE WaitReturns
  BY <1>1, <1>i DEF WaitReturns, Waited, Pcs, ProcStates
<1>j. CASE ResetForeground
  BY <1>1, <1>j DEF ResetForeground, NoJob, Pcs
<1>k. CASE Fg
  <2>1. PICK job \in NamedJobs(list) \union getLastJob(list) :
          \/ /\ pc' = "prompt"
             /\ UNCHANGED <<proc, list, cur, fgPid>>
          \/ /\ Signal(job.pid, "CONT") \/ UNCHANGED proc
             /\ list' = removeJobByPid(list, job.pid)
             /\ fgPid' = job.pid
             /\ cur' = [pid |-> job.pid, id |-> job.id]
             /\ pc' = "fgJobId"
    BY <1>k DEF Fg
  <2>2. job.id \in Nat /\ job.pid \in Pids
    BY <1>4
  <2>3. proc' \in [Pids -> ProcStates]
    BY <1>1, <2>1, SignalType
  <2>4. list' \in Lists(Pids)
    BY <1>1, <2>1, RemoveByPidType
  <2>5. UNCHANGED <<fgJobId, scan, toRemove>>
    BY <1>k DEF Fg
  <2> QED
    BY <1>1, <2>1, <2>2, <2>3, <2>4, <2>5 DEF Pcs
<1>l. CASE SetForegroundJobId
  BY <1>1, <1>l DEF SetForegroundJobId, Pcs
<1>m. CASE Bg
  <2>1. PICK job \in NamedJobs(list) \union getLastStoppedJob(list) :
          /\ LET resumed ==
                   addRetainedJob(removeJobByPid(list, job.pid), job.id, job.pid, FALSE)
             IN list' = IF CanSignal(job.pid) THEN resumed
                        ELSE addRetainedJob(removeJobByPid(resumed, job.pid),
                                            job.id, job.pid, TRUE)
          /\ Signal(job.pid, "CONT")
    BY <1>m DEF Bg
  <2>2. job.id \in Nat /\ job.pid \in Pids
    BY <1>4
  <2> DEFINE resumed ==
               addRetainedJob(removeJobByPid(list, job.pid), job.id, job.pid, FALSE)
  <2>3. resumed \in Lists(Pids)
    BY <1>1, <2>2, RemoveByPidType, AddRetainedType
  <2>4. addRetainedJob(removeJobByPid(resumed, job.pid), job.id, job.pid, TRUE)
          \in Lists(Pids)
    BY <2>2, <2>3, RemoveByPidType, AddRetainedType
  <2>5. list' \in Lists(Pids)
    BY <2>1, <2>3, <2>4
  <2>6. proc' \in [Pids -> ProcStates]
    BY <1>1, <2>1, SignalType
  <2> QED
    BY <1>1, <1>m, <2>5, <2>6 DEF Bg, Pcs
<1>n. CASE Kill
  <2>1. proc' \in [Pids -> ProcStates]
    BY <1>1, <1>n, KillSignalsOne, SignalType
  <2> QED
    BY <1>1, <1>n, <2>1 DEF Kill, Pcs
<1>o. CASE QuitKill
  <2>1. proc' \in [Pids -> ProcStates]
    BY <1>1, <1>o, SignalledType DEF QuitKill
  <2> QED
    BY <1>1, <1>o, <2>1 DEF QuitKill, Pcs
<1>p. CASE handleIntSignal
  <2>1. proc' \in [Pids -> ProcStates]
    BY <1>1, <1>p, SignalType DEF handleIntSignal
  <2> QED
    BY <1>1, <1>p, <2>1 DEF handleIntSignal
<1>q. CASE handleStpSignal
  <2>1. proc' \in [Pids -> ProcStates]
    BY <1>1, <1>q, SignalType DEF handleStpSignal
  <2>2. fgPid \in Pids
    BY <1>1, <1>q DEF handleStpSignal
  <2>3. list' \in Lists(Pids)
    BY <1>1, <1>q, <2>2, AddProperties, AddRetainedType DEF handleStpSignal
  <2> QED
    BY <1>1, <1>q, <2>1, <2>3 DEF handleStpSignal
<1>r. ASSUME NEW p \in Pids, Exits(p) \/ StopsItself(p)
      PROVE  proc' \in [Pids -> ProcStates]
  BY <1>1, <1>r, SignalType DEF Exits, StopsItself, ProcStates
<1>s. CASE \E p \in Pids : Exits(p) \/ StopsItself(p)
  BY <1>1, <1>r, <1>s DEF Exits, StopsItself
<1>t. CASE UNCHANGED vars
  BY <1>1, <1>t DEF vars
<1> QED
  BY <1>a, <1>b, <1>c, <1>d, <1>e, <1>f, <1>g, <1>h, <1>i, <1>j, <1>k, <1>l, <1>m,
     <1>n, <1>o, <1>p, <1>q, <1>s, <1>t DEF Next, ShellStep, SignalHandlers

(* Every reachable state has the types of TypeOK, whatever the commands:   *)
(* job ids and the counter stay natural numbers through every removal.     *)
THEOREM SmashTypeCorrect == Spec => []TypeOK
<1>1. Init => TypeOK /\ ScanStarted
  BY DEF Init, TypeOK, EmptyList, NoJob, ProcStates, Pcs, ScanStarted
<1> QED
  BY <1>1, TypeStep, ScanStep, PTL DEF Spec

-----------------------------------------------------------------------------
(* The jobs list of a shell whose user gives no fg and no bg.              *)

NothingResumed == Commands \intersect {"fg", "bg"} = {}

(* No process in the foreground has an id to be put back under. *)
NoJobId == cur.id = 0 /\ fgJobId = 0 /\ pc # "fgJobId"

(* A handler finds a process only while the shell waits, and ids to remove *)
(* are pending only before a command: Ctrl-Z does not meet them.           *)
HandlersApart ==
  /\ fgPid # NoPid => pc \in {"waiting", "returned"}
  /\ toRemove # <<>> => pc \in {"reaping", "removing"}

(* What has a collected id has ended. *)
CollectedEnded ==
  \A k \in 1 .. Len(toRemove) : \A i \in 1 .. Len(list.jobs) :
    list.jobs[i].id = toRemove[k] => proc[list.jobs[i].pid] = "reaped"

ListInv ==
  /\ TypeOK
  /\ ScanStarted
  /\ IdsIncreasing
  /\ NoJobId
  /\ HandlersApart
  /\ CollectedEnded

(* The types of the variables, with the lists of JobsListTheorems. *)
LEMMA TypesOfState ==
  ASSUME TypeOK
  PROVE  /\ proc \in [Pids -> ProcStates]
         /\ list \in Lists(Pids)
         /\ fgPid \in Pids \union {NoPid}
         /\ toRemove \in Seq(Nat)
         /\ scan \in Nat
BY DEF TypeOK, Lists, Jobs

(* What one removal of removeFinishedJobs keeps and does not add. *)
LEMMA RemoveNextKeeps ==
  ASSUME TypeOK, RemoveNext
  PROVE  /\ \A j \in 1 .. Len(list.jobs) :
              list.jobs[j].id # Head(toRemove) =>
                \E k \in 1 .. Len(list'.jobs) : list'.jobs[k] = list.jobs[j]
         /\ \A k \in 1 .. Len(list'.jobs) :
              \E j \in 1 .. Len(list.jobs) : list'.jobs[k] = list.jobs[j]
<1>1. list \in Lists(Pids)
  BY TypesOfState
<1>2. list' = removeJobById(list, Head(toRemove))
  BY DEF RemoveNext
<1>3. Without(list, Head(toRemove), removeJobById(list, Head(toRemove)))
  BY <1>1, RemoveByIdProperties
<1>4. Without(list, Head(toRemove), list')
  BY <1>2, <1>3
<1> QED
  BY <1>4 DEF Without

(* Without fg and bg the list changes in three places. *)
LEMMA ListChanges ==
  ASSUME NothingResumed, NoJobId, [Next]_vars
  PROVE  ~ Fg /\ ~ Bg /\ ~ SetForegroundJobId
         /\ (RemoveNext \/ StartBackground \/ handleStpSignal \/ UNCHANGED list)
<1>1. ~ Fg /\ ~ Bg /\ ~ SetForegroundJobId
  BY DEF NothingResumed, Fg, Bg, SetForegroundJobId, NoJobId
<1>2. ASSUME NEW p \in Pids, Exits(p) \/ StopsItself(p)
      PROVE  UNCHANGED list
  BY <1>2 DEF Exits, StopsItself
<1> QED
  BY <1>1, <1>2, Zenon DEF Next, ShellStep, SignalHandlers, vars, ReadLine, ReapNext, ReapDone, RemoveDone,
     OtherCommand, RunForeground, SetForeground, WaitReturns, ResetForeground, Kill,
     QuitKill, handleIntSignal

(* Without fg no process in the foreground has a job id. *)
LEMMA NoJobIdStep ==
  ASSUME NothingResumed, NoJobId, [Next]_vars
  PROVE  NoJobId'
<1>1. ~ Fg /\ ~ Bg /\ ~ SetForegroundJobId
  BY ListChanges
<1>2. CASE \/ ReadLine \/ ReapNext \/ ReapDone \/ RemoveNext \/ RemoveDone
           \/ OtherCommand \/ SetForeground \/ StartBackground \/ WaitReturns
           \/ Kill \/ QuitKill \/ handleIntSignal \/ handleStpSignal
           \/ UNCHANGED vars
  BY <1>2 DEF NoJobId, ReadLine, ReapNext, ReapDone, RemoveNext, RemoveDone, OtherCommand,
     SetForeground, StartBackground, WaitReturns, Kill, QuitKill, handleIntSignal,
     handleStpSignal, vars
<1>3. CASE RunForeground \/ ResetForeground
  BY <1>3 DEF NoJobId, RunForeground, ResetForeground, NoJob
<1>4. CASE \E p \in Pids : Exits(p) \/ StopsItself(p)
  BY <1>4 DEF NoJobId, Exits, StopsItself
<1> QED
  BY <1>1, <1>2, <1>3, <1>4 DEF Next, ShellStep, SignalHandlers

(* Every step keeps the handlers and the removals apart. *)
LEMMA HandlersApartStep ==
  ASSUME NothingResumed, TypeOK, NoJobId, HandlersApart, [Next]_vars
  PROVE  HandlersApart'
<1>1. ~ Fg /\ ~ Bg /\ ~ SetForegroundJobId
  BY ListChanges
<1>2. CASE ReadLine \/ ReapNext \/ ReapDone
  BY <1>2 DEF HandlersApart, ReadLine, ReapNext, ReapDone
<1>3. CASE RemoveNext \/ RemoveDone
  BY <1>3 DEF HandlersApart, RemoveNext, RemoveDone
<1>4. CASE OtherCommand \/ RunForeground \/ SetForeground \/ StartBackground \/ Kill \/ QuitKill
  BY <1>4 DEF HandlersApart, OtherCommand, RunForeground, SetForeground, StartBackground,
     Kill, QuitKill
<1>5. CASE WaitReturns \/ ResetForeground
  BY <1>5 DEF HandlersApart, WaitReturns, ResetForeground
<1>6. CASE handleIntSignal \/ handleStpSignal \/ UNCHANGED vars
  BY <1>6 DEF HandlersApart, handleIntSignal, handleStpSignal, vars
<1>7. CASE \E p \in Pids : Exits(p) \/ StopsItself(p)
  BY <1>7 DEF HandlersApart, Exits, StopsItself
<1> QED
  BY <1>1, <1>2, <1>3, <1>4, <1>5, <1>6, <1>7 DEF Next, ShellStep, SignalHandlers

(* Every step keeps the ids increasing. *)
LEMMA IdsStep ==
  ASSUME NothingResumed, TypeOK, NoJobId, IdsIncreasing, [Next]_vars
  PROVE  IdsIncreasing'
<1>1. list \in Lists(Pids) /\ Ordered(list)
  BY TypesOfState DEF IdsIncreasing, Ordered
<1>2. SUFFICES Ordered(list')
  BY DEF IdsIncreasing, Ordered
<1>3. CASE RemoveNext
  BY <1>1, <1>3, RemoveByIdProperties DEF RemoveNext
<1>4. CASE StartBackground
  <2>1. PICK p \in Pids : list' = addJob(list, p, FALSE)
    BY <1>4 DEF StartBackground
  <2> QED
    BY <1>1, <2>1, AddOrdered
<1>5. CASE handleStpSignal
  <2>1. fgPid \in Pids /\ list' = addJob(list, fgPid, TRUE)
    BY <1>5, TypesOfState DEF handleStpSignal, NoJobId
  <2> QED
    BY <1>1, <2>1, AddOrdered
<1>6. CASE UNCHANGED list
  BY <1>1, <1>6
<1> QED
  BY <1>3, <1>4, <1>5, <1>6, ListChanges

(* A process that was waited for stays so. *)
LEMMA ReapedStays ==
  ASSUME TypeOK, [Next]_vars, NEW p \in Pids, proc[p] = "reaped", NothingResumed, NoJobId
  PROVE  proc'[p] = "reaped"
<1>1. proc \in [Pids -> ProcStates]
  BY TypesOfState
<1>2. ASSUME NEW STATE q, NEW sig \in {"KILL", "STOP", "CONT"}, Signal(q, sig)
      PROVE  proc'[p] = "reaped"
  BY <1>1, <1>2 DEF Signal, Signalled
<1>3. ~ Fg /\ ~ Bg /\ ~ SetForegroundJobId
  BY ListChanges
<1>4. CASE \/ ReadLine \/ ReapDone \/ RemoveNext \/ RemoveDone \/ OtherCommand
           \/ SetForeground \/ ResetForeground \/ UNCHANGED vars
  BY <1>4 DEF ReadLine, ReapDone, RemoveNext, RemoveDone, OtherCommand, SetForeground,
     ResetForeground, vars
<1>5. CASE ReapNext
  BY <1>1, <1>5 DEF ReapNext
<1>6. CASE RunForeground \/ StartBackground
  BY <1>1, <1>6 DEF RunForeground, StartBackground
<1>7. CASE WaitReturns
  BY <1>1, <1>7 DEF WaitReturns, Waited
<1>8. CASE Kill \/ handleIntSignal \/ handleStpSignal
  BY <1>2, <1>8, KillSignalsOne DEF handleIntSignal, handleStpSignal
<1>9. CASE QuitKill
  BY <1>9 DEF QuitKill, Signalled
<1>10. ASSUME NEW q \in Pids, Exits(q) \/ StopsItself(q)
       PROVE  proc'[p] = "reaped"
  BY <1>1, <1>2, <1>10 DEF Exits, StopsItself
<1> QED
  BY <1>3, <1>4, <1>5, <1>6, <1>7, <1>8, <1>9, <1>10 DEF Next, ShellStep, SignalHandlers

(* Every step keeps collected ids to ended processes. *)
LEMMA CollectedStep ==
  ASSUME NothingResumed, ListInv, [Next]_vars
  PROVE  CollectedEnded'
<1> USE DEF ListInv
<1>1. /\ list \in Lists(Pids) /\ list' \in Lists(Pids)
      /\ toRemove \in Seq(Nat) /\ scan \in Nat /\ proc \in [Pids -> ProcStates]
  BY TypesOfState, TypeStep DEF TypeOK, Lists, Jobs
<1>2. /\ \A i \in 1 .. Len(list.jobs) : list.jobs[i].pid \in Pids
      /\ \A i \in 1 .. Len(list.jobs) : list.jobs[i].id \in Nat
  BY <1>1, Entries
<1>3. \A p \in Pids : proc[p] = "reaped" => proc'[p] = "reaped"
  BY ReapedStays
<1>4. CASE toRemove' = <<>>
  BY <1>4 DEF CollectedEnded
<1>5. CASE UNCHANGED <<list, toRemove>>
  BY <1>2, <1>3, <1>5 DEF CollectedEnded
<1>6. CASE ReapNext
  <2> DEFINE job == list.jobs[scan]
  <2>1. scan \in 1 .. Len(list.jobs) /\ UNCHANGED list
    BY <1>1, <1>6 DEF ReapNext, ScanStarted
  <2>2. CASE UNCHANGED toRemove
    BY <1>5, <2>1, <2>2
  <2>3. CASE /\ proc' = [proc EXCEPT ![job.pid] = "reaped"]
             /\ toRemove' = Append(toRemove, job.id)
    <3> SUFFICES ASSUME NEW k \in 1 .. Len(toRemove'), NEW i \in 1 .. Len(list.jobs),
                        list.jobs[i].id = toRemove'[k]
                 PROVE  proc'[list.jobs[i].pid] = "reaped"
      BY <2>1 DEF CollectedEnded
    <3>1. job.id \in Nat /\ job.pid \in Pids
      BY <1>2, <2>1
    <3> HIDE DEF job
    <3>2. /\ Len(toRemove') = Len(toRemove) + 1
          /\ \A l \in 1 .. Len(toRemove) : toRemove'[l] = toRemove[l]
          /\ toRemove'[Len(toRemove) + 1] = job.id
      BY <1>1, <2>3, <3>1, AppendProperties
    <3>3. CASE k \in 1 .. Len(toRemove)
      <4>1. list.jobs[i].id = toRemove[k]
        BY <3>2, <3>3
      <4>2. proc[list.jobs[i].pid] = "reaped"
        BY <3>3, <4>1 DEF CollectedEnded
      <4> QED
        BY <1>2, <1>3, <4>2
    <3>4. CASE k = Len(toRemove) + 1
      <4>1. list.jobs[i].id = job.id
        BY <3>2, <3>4
      <4>2. i = scan
        <5>1. ~ (i < scan) /\ ~ (scan < i)
          BY <1>2, <2>1, <4>1 DEF IdsIncreasing, job
        <5> QED
          BY <2>1, <5>1
      <4> QED
        BY <1>1, <2>3, <3>1, <4>2 DEF job
    <3> QED
      BY <1>1, <3>2, <3>3, <3>4
  <2> QED
    BY <1>6, <2>2, <2>3 DEF ReapNext
<1>7. CASE RemoveNext
  <2>1. /\ Len(toRemove') = Len(toRemove) - 1
        /\ \A k \in 1 .. Len(toRemove') : toRemove'[k] = toRemove[k + 1]
    BY <1>1, <1>7, HeadTailProperties DEF RemoveNext
  <2>2. /\ \A i \in 1 .. Len(list'.jobs) :
             \E j \in 1 .. Len(list.jobs) : list'.jobs[i] = list.jobs[j]
        /\ UNCHANGED proc
    BY <1>7, RemoveNextKeeps DEF RemoveNext
  <2> SUFFICES ASSUME NEW k \in 1 .. Len(toRemove'), NEW i \in 1 .. Len(list'.jobs),
                      list'.jobs[i].id = toRemove'[k]
               PROVE  proc'[list'.jobs[i].pid] = "reaped"
    BY DEF CollectedEnded
  <2>3. PICK j \in 1 .. Len(list.jobs) : list'.jobs[i] = list.jobs[j]
    BY <2>2
  <2>4. k + 1 \in 1 .. Len(toRemove) /\ toRemove'[k] = toRemove[k + 1]
    BY <1>1, <2>1
  <2>5. proc[list.jobs[j].pid] = "reaped"
    BY <2>3, <2>4 DEF CollectedEnded
  <2> QED
    BY <2>2, <2>3, <2>5
<1>8. CASE StartBackground
  BY <1>4, <1>8 DEF StartBackground, HandlersApart
<1>9. CASE handleStpSignal
  BY <1>4, <1>9 DEF handleStpSignal, HandlersApart
<1>10. CASE ReadLine
  BY <1>4, <1>10 DEF ReadLine
<1>11. CASE \/ ReapDone \/ RemoveDone \/ OtherCommand \/ RunForeground
            \/ SetForeground \/ WaitReturns \/ ResetForeground \/ Kill \/ QuitKill
            \/ handleIntSignal \/ UNCHANGED vars
  <2>1. UNCHANGED <<list, toRemove>>
    BY <1>11 DEF ReapDone, RemoveDone, OtherCommand, RunForeground, SetForeground,
       WaitReturns, ResetForeground, Kill, QuitKill, handleIntSignal, vars
  <2> QED
    BY <1>5, <2>1
<1>12. CASE \E p \in Pids : Exits(p) \/ StopsItself(p)
  <2>1. UNCHANGED <<list, toRemove>>
    BY <1>12 DEF Exits, StopsItself
  <2> QED
    BY <1>5, <2>1
<1>13. ~ Fg /\ ~ Bg /\ ~ SetForegroundJobId
  BY ListChanges
<1> QED
  BY <1>6, <1>7, <1>8, <1>9, <1>10, <1>11, <1>12, <1>13 DEF Next, ShellStep, SignalHandlers

(* The inductive invariant of the jobs list. *)
THEOREM ListInvariance == ASSUME NothingResumed PROVE Spec => []ListInv
<1>1. Init => ListInv
  BY DEF Init, ListInv, TypeOK, EmptyList, NoJob, NoPid, ProcStates, Pcs, ScanStarted,
     IdsIncreasing, NoJobId, HandlersApart, CollectedEnded
<1>2. ListInv /\ [Next]_vars => ListInv'
  BY TypeStep, ScanStep, IdsStep, NoJobIdStep, HandlersApartStep, CollectedStep DEF ListInv
<1> QED
  BY <1>1, <1>2, PTL DEF Spec

(* Ids stay unique and sorted, and the counter stays the greatest, in any  *)
(* order of ends, kills, Ctrl-C and Ctrl-Z: JobsList.cpp:154-164 is right. *)
THEOREM IdsStayIncreasing == ASSUME NothingResumed PROVE Spec => []IdsIncreasing
BY ListInvariance, PTL DEF ListInv

(* The list loses only entries of processes that have ended, although they *)
(* are collected by id in one loop and removed in another.                 *)
THEOREM OnlyFinishedRemoved == ASSUME NothingResumed PROVE Spec => RemovesOnlyFinished
<1>1. ASSUME ListInv, [Next]_vars, pc = "removing", NEW p \in Listed \ Listed'
      PROVE  proc[p] = "reaped"
  <2> USE DEF ListInv
  <2>1. list \in Lists(Pids) /\ toRemove \in Seq(Nat)
    BY <1>1, TypesOfState
  <2>2. ~ UNCHANGED list
    BY <1>1 DEF Listed
  <2>3. RemoveNext
    BY <1>1, <2>2, ListChanges DEF StartBackground, handleStpSignal, HandlersApart
  <2>4. PICK i \in 1 .. Len(list.jobs) : p = list.jobs[i].pid
    BY <1>1 DEF Listed
  <2>5. list.jobs[i].id = Head(toRemove)
    <3> SUFFICES ASSUME list.jobs[i].id # Head(toRemove)
                 PROVE  p \in Listed'
      BY <1>1
    <3>1. PICK k \in 1 .. Len(list'.jobs) : list'.jobs[k] = list.jobs[i]
      BY <1>1, <2>3, RemoveNextKeeps DEF ListInv
    <3> QED
      BY <2>4, <3>1 DEF Listed
  <2>6. 1 \in 1 .. Len(toRemove) /\ Head(toRemove) = toRemove[1]
    BY <2>1, <2>3, EmptySeq DEF RemoveNext
  <2> QED
    BY <1>1, <2>4, <2>5, <2>6 DEF CollectedEnded
<1>2. ListInv /\ [Next]_vars
        => [pc = "removing" => \A p \in Listed \ Listed' : proc[p] = "reaped"]_vars
  BY <1>1
<1> QED
  BY <1>2, ListInvariance, PTL DEF Spec, RemovesOnlyFinished

-----------------------------------------------------------------------------
(* The children of such a shell, when they stop only on a signal from it.  *)

(* What was stopped is in the list: by Ctrl-Z, which adds it, or by kill,  *)
(* which is given the id of an entry.                                      *)
StoppedListed ==
  \A p \in Pids : proc[p] \in {"stopping", "stopped"} => p \in Listed

ChildInv == ListInv /\ StoppedListed /\ EveryChildTracked

(* What leaves the list has ended. *)
LEMMA ListedStays ==
  ASSUME NothingResumed, ListInv, [Next]_vars, NEW p \in Listed
  PROVE  p \in Listed' \/ (RemoveNext /\ proc[p] = "reaped")
<1> USE DEF ListInv
<1>1. list \in Lists(Pids) /\ toRemove \in Seq(Nat)
  BY TypesOfState
<1>2. PICK i \in 1 .. Len(list.jobs) : p = list.jobs[i].pid
  BY DEF Listed
<1>3. CASE RemoveNext
  <2>1. CASE list.jobs[i].id = Head(toRemove)
    <3>1. 1 \in 1 .. Len(toRemove) /\ Head(toRemove) = toRemove[1]
      BY <1>1, <1>3, EmptySeq DEF RemoveNext
    <3> QED
      BY <1>2, <1>3, <2>1, <3>1 DEF CollectedEnded
  <2>2. CASE list.jobs[i].id # Head(toRemove)
    <3>1. PICK k \in 1 .. Len(list'.jobs) : list'.jobs[k] = list.jobs[i]
      BY <1>3, <2>2, RemoveNextKeeps
    <3> QED
      BY <1>2, <3>1 DEF Listed
  <2> QED
    BY <2>1, <2>2
<1>4. ASSUME NEW q \in Pids, NEW stopped \in BOOLEAN, list' = addJob(list, q, stopped)
      PROVE  p \in Listed'
  <2>1. /\ Len(list'.jobs) = Len(list.jobs) + 1
        /\ list'.jobs[i] = list.jobs[i]
    BY <1>1, <1>4, AddProperties
  <2>2. i \in 1 .. Len(list'.jobs)
    BY <1>1, <2>1, Entries
  <2> QED
    BY <1>2, <2>1, <2>2 DEF Listed
<1>5. CASE StartBackground
  BY <1>4, <1>5 DEF StartBackground
<1>6. CASE handleStpSignal
  <2>1. fgPid \in Pids /\ list' = addJob(list, fgPid, TRUE)
    BY <1>6, TypesOfState DEF handleStpSignal, NoJobId
  <2> QED
    BY <1>4, <2>1
<1>7. CASE UNCHANGED list
  BY <1>2, <1>7 DEF Listed
<1> QED
  BY <1>3, <1>5, <1>6, <1>7, ListChanges

(* The process that an addition is for is in the list. *)
LEMMA AddedListed ==
  ASSUME TypeOK, NEW STATE p, p \in Pids, NEW stopped \in BOOLEAN,
         list' = addJob(list, p, stopped)
  PROVE  p \in Listed'
<1>1. list \in Lists(Pids)
  BY TypesOfState
<1>2. /\ Len(list'.jobs) = Len(list.jobs) + 1
      /\ list'.jobs[Len(list.jobs) + 1] = Job(list.maxJobId + 1, p, stopped)
  BY <1>1, AddProperties
<1>3. Len(list.jobs) + 1 \in 1 .. Len(list'.jobs) /\ list.maxJobId + 1 \in Nat
  BY <1>1, <1>2, Entries
<1>4. Job(list.maxJobId + 1, p, stopped).pid = p
  BY DEF Job
<1> QED
  BY <1>2, <1>3, <1>4 DEF Listed

(* Every step keeps what is stopped in the list. *)
LEMMA StoppedListedStep ==
  ASSUME NothingResumed, ~SelfStops, ListInv, StoppedListed, [Next]_vars
  PROVE  StoppedListed'
<1> USE DEF ListInv
<1>1. /\ proc \in [Pids -> ProcStates] /\ list \in Lists(Pids)
      /\ fgPid \in Pids \union {NoPid}
  BY TypesOfState
<1> SUFFICES ASSUME NEW p \in Pids, proc'[p] \in {"stopping", "stopped"}
             PROVE  p \in Listed'
  BY DEF StoppedListed
<1>2. ASSUME proc[p] \in {"stopping", "stopped"}
      PROVE  p \in Listed'
  BY <1>2, ListedStays DEF StoppedListed
<1>3. ASSUME proc[p] \notin {"stopping", "stopped"}
      PROVE  p \in Listed'
  <2>1. ~ Fg /\ ~ Bg /\ ~ SetForegroundJobId
    BY ListChanges
  <2>2. CASE \/ ReadLine \/ ReapDone \/ RemoveNext \/ RemoveDone \/ OtherCommand
             \/ SetForeground \/ ResetForeground \/ UNCHANGED vars
    BY <1>3, <2>2 DEF ReadLine, ReapDone, RemoveNext, RemoveDone, OtherCommand,
       SetForeground, ResetForeground, vars
  <2>3. CASE ReapNext
    BY <1>1, <1>3, <2>3 DEF ReapNext
  <2>4. CASE RunForeground \/ StartBackground
    BY <1>1, <1>3, <2>4 DEF RunForeground, StartBackground
  <2>5. CASE WaitReturns
    BY <1>1, <1>3, <2>5 DEF WaitReturns, Waited
  <2>6. CASE Kill
    <3>1. PICK job \in NamedJobs(list), sig \in {"KILL", "STOP", "CONT"} :
            Signal(job.pid, sig)
      BY <2>6, KillSignalsOne
    <3>2. UNCHANGED list
      BY <2>6 DEF Kill
    <3>3. p = job.pid
      BY <1>1, <1>3, <3>1 DEF Signal
    <3> QED
      BY <1>1, <3>2, <3>3, NamedJobsListed DEF Listed
  <2>7. CASE QuitKill
    BY <1>3, <2>7 DEF QuitKill, Signalled
  <2>8. CASE handleIntSignal
    BY <1>1, <1>3, <2>8 DEF handleIntSignal, Signal, Signalled
  <2>9. CASE handleStpSignal
    <3>1. fgPid \in Pids /\ list' = addJob(list, fgPid, TRUE)
      BY <1>1, <2>9 DEF handleStpSignal, NoJobId
    <3>2. p = fgPid
      BY <1>1, <1>3, <2>9 DEF handleStpSignal, Signal
    <3> QED
      BY <3>1, <3>2, AddedListed
  <2>10. ASSUME NEW q \in Pids, Exits(q) \/ StopsItself(q)
         PROVE  FALSE
    BY <1>1, <1>3, <2>10 DEF Exits, StopsItself
  <2> QED
    BY <2>1, <2>2, <2>3, <2>4, <2>5, <2>6, <2>7, <2>8, <2>9, <2>10 DEF Next, ShellStep, SignalHandlers
<1> QED
  BY <1>2, <1>3

(* Every step keeps every child in the list or waited for. *)
LEMMA TrackedStep ==
  ASSUME NothingResumed, ~SelfStops, ChildInv, [Next]_vars
  PROVE  EveryChildTracked'
<1> USE DEF ListInv, ChildInv
<1>1. proc \in [Pids -> ProcStates] /\ list \in Lists(Pids)
  BY TypesOfState
<1> SUFFICES ASSUME pc' # "exited", NEW p \in Children'
             PROVE  p \in Listed' \/ (Waiting' /\ p = cur'.pid)
  BY DEF EveryChildTracked
<1>2. p \in Pids /\ proc'[p] \notin {"none", "reaped"}
  BY DEF Children
<1>3. ASSUME p \in Listed PROVE p \in Listed'
  BY <1>2, <1>3, ListedStays DEF RemoveNext
<1>4. ASSUME p \in Children, UNCHANGED <<pc, cur>>
      PROVE  p \in Listed' \/ (Waiting' /\ p = cur'.pid)
  BY <1>3, <1>4 DEF EveryChildTracked, Waiting
<1>5. ASSUME p \in Children, ~Waiting, pc # "exited"
      PROVE  p \in Listed'
  BY <1>3, <1>5 DEF EveryChildTracked
<1>6. ASSUME proc[p] \notin {"none", "reaped"} PROVE p \in Children
  BY <1>2, <1>6 DEF Children
<1>7. ~ Fg /\ ~ Bg /\ ~ SetForegroundJobId
  BY ListChanges
<1>8. CASE ReadLine \/ ReapDone \/ RemoveNext \/ RemoveDone \/ OtherCommand
  BY <1>2, <1>5, <1>6, <1>8 DEF ReadLine, ReapDone, RemoveNext, RemoveDone, OtherCommand,
     Waiting
<1>9. CASE ReapNext
  BY <1>1, <1>2, <1>5, <1>6, <1>9 DEF ReapNext, Waiting
<1>10. CASE RunForeground
  BY <1>1, <1>2, <1>5, <1>6, <1>10 DEF RunForeground, Waiting
<1>11. CASE SetForeground
  BY <1>2, <1>3, <1>6, <1>11 DEF SetForeground, Waiting, EveryChildTracked
<1>12. CASE StartBackground
  <2>1. PICK q \in Pids : /\ proc' = [proc EXCEPT ![q] = "running"]
                          /\ list' = addJob(list, q, FALSE)
    BY <1>12 DEF StartBackground
  <2>2. q \in Listed'
    BY <2>1, AddedListed
  <2>3. p # q => p \in Children
    BY <1>1, <1>2, <1>6, <2>1
  <2> QED
    BY <1>5, <1>12, <2>2, <2>3 DEF StartBackground, Waiting
<1>13. CASE WaitReturns
  <2>1. CASE p = cur.pid
    <3>1. proc[p] \in {"zombie", "stopping", "reaped"} /\ proc'[p] = Waited(proc[p])
      BY <1>1, <1>2, <1>13, <2>1 DEF WaitReturns
    <3>2. proc[p] = "stopping"
      BY <1>2, <3>1 DEF Waited
    <3> QED
      BY <1>2, <1>3, <3>2 DEF StoppedListed
  <2>2. CASE p # cur.pid
    <3>1. p \in Children
      BY <1>1, <1>2, <1>6, <1>13, <2>2 DEF WaitReturns
    <3> QED
      BY <1>3, <1>13, <2>2, <3>1 DEF EveryChildTracked, WaitReturns
  <2> QED
    BY <2>1, <2>2
<1>14. CASE ResetForeground
  BY <1>2, <1>5, <1>6, <1>14 DEF ResetForeground, Waiting
<1>15. ASSUME NEW STATE q, NEW sig \in {"KILL", "STOP", "CONT"}, Signal(q, sig)
       PROVE  p \in Children
  <2>1. proc[p] = "none" => Signalled(proc[p], sig) = "none"
    BY DEF Signalled
  <2>2. proc[p] = "reaped" => Signalled(proc[p], sig) = "reaped"
    BY DEF Signalled
  <2> QED
    BY <1>1, <1>2, <1>6, <1>15, <2>1, <2>2 DEF Signal
<1>16. CASE Kill
  <2>1. p \in Children
    BY <1>15, <1>16, KillSignalsOne
  <2> QED
    BY <1>5, <1>16, <2>1 DEF Kill, Waiting
<1>17. CASE QuitKill
  BY <1>17 DEF QuitKill
<1>18. CASE handleIntSignal \/ handleStpSignal
  <2>1. p \in Children
    BY <1>15, <1>18 DEF handleIntSignal, handleStpSignal
  <2> QED
    BY <1>4, <1>18, <2>1 DEF handleIntSignal, handleStpSignal
<1>19. ASSUME NEW q \in Pids, Exits(q) \/ StopsItself(q)
       PROVE  p \in Listed' \/ (Waiting' /\ p = cur'.pid)
  <2>1. /\ proc[q] = "running" /\ proc' = [proc EXCEPT ![q] = "zombie"]
        /\ UNCHANGED <<pc, cur>>
    BY <1>19 DEF Exits, StopsItself
  <2>2. p \in Children
    BY <1>1, <1>2, <1>6, <2>1
  <2> QED
    BY <1>4, <2>1, <2>2
<1>20. CASE UNCHANGED vars
  BY <1>2, <1>4, <1>6, <1>20 DEF vars
<1> QED
  BY <1>7, <1>8, <1>9, <1>10, <1>11, <1>12, <1>13, <1>14, <1>16, <1>17, <1>18, <1>19,
     <1>20 DEF Next, ShellStep, SignalHandlers

(* No child is lost: each one that was not waited for is in the list or is *)
(* the one the shell waits for.                                            *)
THEOREM NoChildLost ==
  ASSUME NothingResumed, ~SelfStops PROVE Spec => []EveryChildTracked
<1>1. Init => ChildInv
  <2>1. Init => StoppedListed /\ EveryChildTracked
    BY DEF Init, StoppedListed, EveryChildTracked, Children
  <2>2. Init => ListInv
    BY DEF Init, ListInv, TypeOK, EmptyList, NoJob, NoPid, ProcStates, Pcs, ScanStarted,
       IdsIncreasing, NoJobId, HandlersApart, CollectedEnded
  <2> QED
    BY <2>1, <2>2 DEF ChildInv
<1>2. ChildInv /\ [Next]_vars => ChildInv'
  BY TypeStep, ScanStep, IdsStep, NoJobIdStep, HandlersApartStep, CollectedStep,
     StoppedListedStep, TrackedStep DEF ListInv, ChildInv
<1>3. ChildInv => EveryChildTracked
  BY DEF ChildInv
<1> QED
  BY <1>1, <1>2, <1>3, PTL DEF Spec

-----------------------------------------------------------------------------
(* The shell with every command, fg and bg included: whatever the user     *)
(* stops, resumes and kills, an entry of a process whose stop the shell    *)
(* was told of is marked stopped.                                          *)

-----------------------------------------------------------------------------
(* More about the operations of the list.                                  *)

(* No process has two entries. *)
Once(l) ==
  \A i, j \in 1 .. Len(l.jobs) : l.jobs[i].pid = l.jobs[j].pid => i = j

(* The lists of one entry for each process at most. *)
Lists1(S) == {l \in Lists(S) : Once(l)}

Absent(pid, l) == \A i \in 1 .. Len(l.jobs) : l.jobs[i].pid # pid

(* All entries of m are entries of l. *)
From(l, m) ==
  \A k \in 1 .. Len(m.jobs) : \E j \in 1 .. Len(l.jobs) : m.jobs[k] = l.jobs[j]

(* All are, but for those of one process that are marked in one way. *)
Grown(l, m, pid, stopped) ==
  \A k \in 1 .. Len(m.jobs) :
    \/ \E j \in 1 .. Len(l.jobs) : m.jobs[k] = l.jobs[j]
    \/ m.jobs[k].pid = pid /\ m.jobs[k].stopped = stopped

(* An erased entry was the only one of its process, and no entry is new. *)
LEMMA EraseKeeps ==
  ASSUME NEW S, NEW l \in Lists1(S), NEW i \in 1 .. Len(l.jobs)
  PROVE  /\ eraseJob(l, i) \in Lists1(S)
         /\ From(l, eraseJob(l, i))
         /\ Absent(l.jobs[i].pid, eraseJob(l, i))
<1> DEFINE n == Len(l.jobs)
           m == eraseJob(l, i)
<1>1. l \in Lists(S) /\ Once(l)
  BY DEF Lists1
<1>2. /\ n \in Nat
      /\ m \in Lists(S)
      /\ Len(m.jobs) = n - 1
      /\ \A k \in 1 .. n - 1 : m.jobs[k] = IF k < i THEN l.jobs[k] ELSE l.jobs[k + 1]
  BY <1>1, Entries, EraseProperties
<1> HIDE DEF m
<1>3. \A k \in 1 .. Len(m.jobs) :
        \E j \in 1 .. n : /\ m.jobs[k] = l.jobs[j]
                          /\ j # i
                          /\ j = IF k < i THEN k ELSE k + 1
  <2> TAKE k \in 1 .. Len(m.jobs)
  <2>1. CASE k < i
    BY <1>2, <2>1
  <2>2. CASE ~ (k < i)
    BY <1>2, <2>2
  <2> QED
    BY <2>1, <2>2
<1>4. From(l, m)
  BY <1>3 DEF From
<1>5. Absent(l.jobs[i].pid, m)
  BY <1>1, <1>3 DEF Absent, Once
<1>6. Once(m)
  <2> SUFFICES ASSUME NEW a \in 1 .. Len(m.jobs), NEW b \in 1 .. Len(m.jobs),
                      m.jobs[a].pid = m.jobs[b].pid
               PROVE  a = b
    BY DEF Once
  <2>1. PICK ja \in 1 .. n : m.jobs[a] = l.jobs[ja] /\ ja = IF a < i THEN a ELSE a + 1
    BY <1>3
  <2>2. PICK jb \in 1 .. n : m.jobs[b] = l.jobs[jb] /\ jb = IF b < i THEN b ELSE b + 1
    BY <1>3
  <2>3. ja = jb
    BY <1>1, <2>1, <2>2 DEF Once
  <2> QED
    BY <1>2, <2>1, <2>2, <2>3
<1> QED
  BY <1>2, <1>4, <1>5, <1>6 DEF m, Lists1

(* Removals, whether they find what they look for or not. *)
LEMMA RemoveKeeps ==
  ASSUME NEW S, NEW l \in Lists1(S), NEW x
  PROVE  /\ removeJobById(l, x) \in Lists1(S)
         /\ From(l, removeJobById(l, x))
         /\ removeJobByPid(l, x) \in Lists1(S)
         /\ From(l, removeJobByPid(l, x))
         /\ Absent(x, removeJobByPid(l, x))
<1>1. l \in Lists(S)
  BY DEF Lists1
<1>2. From(l, l)
  BY DEF From
<1>3. removeJobById(l, x) \in Lists1(S) /\ From(l, removeJobById(l, x))
  <2>1. CASE PositionOfId(l, x) = 0
    BY <1>2, <2>1 DEF removeJobById
  <2>2. CASE PositionOfId(l, x) # 0
    <3>1. /\ PositionOfId(l, x) \in 1 .. Len(l.jobs)
          /\ removeJobById(l, x) = eraseJob(l, PositionOfId(l, x))
      BY <1>1, <2>2, PositionOfIdProperties DEF removeJobById
    <3> QED
      BY <3>1, EraseKeeps
  <2> QED
    BY <2>1, <2>2
<1>4. CASE PositionOfPid(l, x) = 0
  <2>1. removeJobByPid(l, x) = l /\ Absent(x, l)
    BY <1>1, <1>4, PositionOfPidProperties DEF removeJobByPid, Absent
  <2> QED
    BY <1>2, <1>3, <2>1
<1>5. CASE PositionOfPid(l, x) # 0
  <2>1. /\ PositionOfPid(l, x) \in 1 .. Len(l.jobs)
        /\ l.jobs[PositionOfPid(l, x)].pid = x
        /\ removeJobByPid(l, x) = eraseJob(l, PositionOfPid(l, x))
    BY <1>1, <1>5, PositionOfPidProperties DEF removeJobByPid
  <2> QED
    BY <1>3, <2>1, EraseKeeps
<1> QED
  BY <1>4, <1>5

(* One entry more, of a process that had none. *)
LEMMA OneMore ==
  ASSUME NEW S, NEW l \in Lists1(S), NEW m \in Lists(S), NEW pid, NEW stopped,
         Absent(pid, l),
         NEW i \in 1 .. Len(l.jobs) + 1,
         Len(m.jobs) = Len(l.jobs) + 1,
         m.jobs[i].pid = pid, m.jobs[i].stopped = stopped,
         \A k \in 1 .. Len(m.jobs) :
           k # i => m.jobs[k] = l.jobs[IF k < i THEN k ELSE k - 1]
  PROVE  m \in Lists1(S) /\ Grown(l, m, pid, stopped)
<1>1. l \in Lists(S) /\ Once(l) /\ Len(l.jobs) \in Nat
  BY Entries DEF Lists1
<1>2. \A k \in 1 .. Len(m.jobs) :
        k # i => \E j \in 1 .. Len(l.jobs) : /\ m.jobs[k] = l.jobs[j]
                                            /\ j = IF k < i THEN k ELSE k - 1
  <2> TAKE k \in 1 .. Len(m.jobs)
  <2> HAVE k # i
  <2>1. (IF k < i THEN k ELSE k - 1) \in 1 .. Len(l.jobs)
    BY <1>1
  <2> QED
    BY <2>1
<1>3. Grown(l, m, pid, stopped)
  BY <1>2 DEF Grown
<1>4. Once(m)
  <2> SUFFICES ASSUME NEW a \in 1 .. Len(m.jobs), NEW b \in 1 .. Len(m.jobs),
                      m.jobs[a].pid = m.jobs[b].pid
               PROVE  a = b
    BY DEF Once
  <2>1. \A k \in 1 .. Len(m.jobs) : k # i => m.jobs[k].pid # m.jobs[i].pid
    BY <1>2 DEF Absent
  <2>2. CASE a # i /\ b # i
    <3>1. PICK ja \in 1 .. Len(l.jobs) : m.jobs[a] = l.jobs[ja] /\ ja = IF a < i THEN a ELSE a - 1
      BY <1>2, <2>2
    <3>2. PICK jb \in 1 .. Len(l.jobs) : m.jobs[b] = l.jobs[jb] /\ jb = IF b < i THEN b ELSE b - 1
      BY <1>2, <2>2
    <3>3. ja = jb
      BY <1>1, <3>1, <3>2 DEF Once
    <3> QED
      BY <1>1, <2>2, <3>1, <3>2, <3>3
  <2> QED
    BY <2>1, <2>2
<1> QED
  BY <1>3, <1>4 DEF Lists1

(* addJob without an id. *)
LEMMA AddKeeps ==
  ASSUME NEW S, NEW l \in Lists1(S), NEW pid \in S, NEW stopped \in BOOLEAN,
         Absent(pid, l)
  PROVE  /\ addJob(l, pid, stopped) \in Lists1(S)
         /\ Grown(l, addJob(l, pid, stopped), pid, stopped)
<1> DEFINE m == addJob(l, pid, stopped)
           n == Len(l.jobs)
<1>1. l \in Lists(S) /\ l.maxJobId \in Nat /\ n \in Nat
  BY Entries DEF Lists1
<1>2. /\ m \in Lists(S)
      /\ Len(m.jobs) = n + 1
      /\ \A k \in 1 .. n : m.jobs[k] = l.jobs[k]
      /\ m.jobs[n + 1] = Job(l.maxJobId + 1, pid, stopped)
  BY <1>1, AddProperties
<1>3. m.jobs[n + 1].pid = pid /\ m.jobs[n + 1].stopped = stopped
  BY <1>2 DEF Job
<1> HIDE DEF m
<1> DEFINE i == n + 1
<1>4. i \in 1 .. Len(l.jobs) + 1
  BY <1>1
<1>6. ASSUME NEW k \in 1 .. Len(m.jobs), k # i
      PROVE  m.jobs[k] = l.jobs[IF k < i THEN k ELSE k - 1]
  <2>1. k \in 1 .. n /\ k < i
    BY <1>1, <1>2, <1>6
  <2> QED
    BY <1>2, <2>1
<1>7. m.jobs[i].pid = pid /\ m.jobs[i].stopped = stopped
  BY <1>3
<1> HIDE DEF i
<1>5. m \in Lists1(S) /\ Grown(l, m, pid, stopped)
  BY <1>2, <1>4, <1>6, <1>7, OneMore
<1> QED
  BY <1>5 DEF m

(* The entries of InsertAt. *)
LEMMA InsertAtProperties ==
  ASSUME NEW R, NEW s \in Seq(R), NEW i \in 1 .. Len(s) + 1, NEW e \in R
  PROVE  /\ Len(InsertAt(s, i, e)) = Len(s) + 1
         /\ InsertAt(s, i, e)[i] = e
         /\ \A k \in 1 .. Len(s) + 1 :
              k # i => InsertAt(s, i, e)[k] = s[IF k < i THEN k ELSE k - 1]
<1> DEFINE a == SubSeq(s, 1, i - 1)
           b == SubSeq(s, i, Len(s))
           c == a \o <<e>>
<1>1. \A k \in 1 .. Len(s) : s[k] \in R
  BY ElementOfSeq
<1>2. /\ a \in Seq(R)
      /\ Len(a) = i - 1
      /\ \A k \in 1 .. i - 1 : a[k] = s[k]
  BY <1>1, SubSeqProperties
<1>3. /\ b \in Seq(R)
      /\ Len(b) = Len(s) - i + 1
      /\ \A k \in 1 .. Len(s) - i + 1 : b[k] = s[k + i - 1]
  BY <1>1, SubSeqProperties
<1>4. <<e>> \in Seq(R) /\ Len(<<e>>) = 1 /\ <<e>>[1] = e
  OBVIOUS
<1>5. /\ c \in Seq(R)
      /\ Len(c) = i
      /\ c[i] = e
      /\ \A k \in 1 .. i - 1 : c[k] = s[k]
  <2>1. /\ c \in Seq(R)
        /\ Len(c) = Len(a) + 1
        /\ \A k \in 1 .. Len(a) + 1 :
             c[k] = IF k <= Len(a) THEN a[k] ELSE <<e>>[k - Len(a)]
    BY <1>2, <1>4, ConcatProperties
  <2> HIDE DEF a, c
  <2>2. Len(a) = i - 1 /\ i \in Nat /\ i >= 1
    BY <1>2
  <2>3. c[i] = <<e>>[i - Len(a)]
    BY <2>1, <2>2
  <2>4. \A k \in 1 .. i - 1 : c[k] = a[k]
    BY <2>1, <2>2
  <2>5. i - Len(a) = 1 /\ Len(c) = i
    BY <2>1, <2>2
  <2>6. c[i] = e
    BY <1>4, <2>3, <2>5
  <2>7. \A k \in 1 .. i - 1 : c[k] = s[k]
    BY <1>2, <2>4
  <2> QED
    BY <2>1, <2>5, <2>6, <2>7
<1> HIDE DEF c
<1>6. /\ Len(c \o b) = Len(c) + Len(b)
      /\ \A k \in 1 .. Len(c) + Len(b) :
           (c \o b)[k] = IF k <= Len(c) THEN c[k] ELSE b[k - Len(c)]
  BY <1>3, <1>5, ConcatProperties
<1>7. InsertAt(s, i, e) = c \o b
  BY DEF InsertAt, c
<1> HIDE DEF a, b
<1>8. Len(c \o b) = Len(s) + 1 /\ (c \o b)[i] = e
  BY <1>3, <1>5, <1>6
<1>9. ASSUME NEW k \in 1 .. Len(s) + 1, k # i
      PROVE  (c \o b)[k] = s[IF k < i THEN k ELSE k - 1]
  <2>1. CASE k < i
    BY <1>3, <1>5, <1>6, <2>1
  <2>2. CASE ~ (k < i)
    <3>1. (c \o b)[k] = b[k - i] /\ k - i \in 1 .. Len(s) - i + 1
      BY <1>3, <1>5, <1>6, <1>9, <2>2
    <3>2. b[k - i] = s[k - i + i - 1]
      BY <1>3, <3>1
    <3> QED
      BY <2>2, <3>1, <3>2
  <2> QED
    BY <2>1, <2>2
<1> QED
  BY <1>7, <1>8, <1>9

(* addJob with an id adds one entry or, finding no place, none. *)
LEMMA AddRetainedKeeps ==
  ASSUME NEW S, NEW l \in Lists1(S), NEW id \in Nat, NEW pid \in S,
         NEW stopped \in BOOLEAN, Absent(pid, l)
  PROVE  /\ addRetainedJob(l, id, pid, stopped) \in Lists1(S)
         /\ Grown(l, addRetainedJob(l, id, pid, stopped), pid, stopped)
<1> DEFINE jobs == l.jobs
           m == addRetainedJob(l, id, pid, stopped)
           job == Job(id, pid, stopped)
           places == {i \in DOMAIN jobs :
                        /\ i = Len(jobs) \/ jobs[i + 1].id > id
                        /\ jobs[i].id < id}
<1>1. l \in Lists(S) /\ jobs \in Seq(Jobs(S)) /\ Len(jobs) \in Nat
      /\ DOMAIN jobs = 1 .. Len(jobs) /\ Once(l)
  BY Entries DEF Lists1
<1>2. job \in Jobs(S) /\ job.pid = pid /\ job.stopped = stopped
  BY JobType
<1>3. m \in Lists(S)
  BY <1>1, AddRetainedType
<1>4. CASE jobs = <<>> \/ jobs[1].id > id
  <2>1. m.jobs = <<job>> \o jobs
    BY <1>1, <1>4 DEF addRetainedJob, Lists
  <2> HIDE DEF m, job, jobs
  <2>2. <<job>> \in Seq(Jobs(S)) /\ Len(<<job>>) = 1 /\ <<job>>[1] = job
    BY <1>2
  <2>3. /\ Len(m.jobs) = 1 + Len(jobs)
        /\ \A k \in 1 .. 1 + Len(jobs) :
             m.jobs[k] = IF k <= 1 THEN <<job>>[k] ELSE jobs[k - 1]
    BY <1>1, <2>1, <2>2, ConcatProperties
  <2>4. m.jobs[1] = job
    BY <1>1, <2>2, <2>3
  <2> QED
    BY <1>1, <1>2, <1>3, <2>3, <2>4, OneMore DEF m, jobs
<1>5. CASE ~ (jobs = <<>> \/ jobs[1].id > id) /\ places = {}
  <2>1. m.jobs = jobs
    BY <1>5 DEF addRetainedJob
  <2> QED
    BY <1>1, <1>3, <2>1 DEF Lists1, Once, Grown
<1>6. CASE ~ (jobs = <<>> \/ jobs[1].id > id) /\ places # {}
  <2> DEFINE i == Min(places) + 1
  <2>1. m.jobs = InsertAt(jobs, i, job)
    BY <1>6 DEF addRetainedJob
  <2>2. i \in 1 .. Len(jobs) + 1
    <3>1. places \subseteq Nat /\ places \subseteq 1 .. Len(jobs)
      BY <1>1
    <3>2. Min(places) \in places
      BY <1>6, <3>1, MinNat
    <3> QED
      BY <1>1, <3>1, <3>2
  <2> HIDE DEF m, job, jobs, i
  <2>3. /\ Len(m.jobs) = Len(jobs) + 1
        /\ m.jobs[i] = job
        /\ \A k \in 1 .. Len(jobs) + 1 :
             k # i => m.jobs[k] = jobs[IF k < i THEN k ELSE k - 1]
    BY <1>1, <1>2, <2>1, <2>2, InsertAtProperties
  <2> QED
    BY <1>1, <1>2, <1>3, <2>2, <2>3, OneMore DEF m, jobs
<1> QED
  BY <1>4, <1>5, <1>6

-----------------------------------------------------------------------------
(* The invariant.                                                          *)

InForeground == pc \in {"forked", "fgJobId", "waiting", "returned"}

(* The handlers act on the process that the command waits for. *)
ForegroundIsCur == fgPid # NoPid => fgPid = cur.pid /\ InForeground

(* Both it and the processes in the list were forked. *)
Forked ==
  /\ InForeground => cur.pid \in Pids /\ proc[cur.pid] # "none"
  /\ \A i \in 1 .. Len(list.jobs) : proc[list.jobs[i].pid] # "none"

(* The process in the foreground has an entry only after Ctrl-Z. *)
CurIsMarked ==
  InForeground =>
    \A i \in 1 .. Len(list.jobs) : list.jobs[i].pid = cur.pid => list.jobs[i].stopped

(* The inductive invariant behind StoppedIsMarked. *)
StopInv ==
  /\ TypeOK
  /\ ScanStarted
  /\ Once(list)
  /\ ForegroundIsCur
  /\ Forked
  /\ CurIsMarked
  /\ StoppedIsMarked

(* fork aside, no process comes into being, and only a wait that reports a *)
(* stop makes a process one whose stop was reported.                       *)
LEMMA StatesStep ==
  ASSUME TypeOK, [Next]_vars, NEW p \in Pids
  PROVE  /\ proc[p] # "none" => proc'[p] # "none"
         /\ proc'[p] = "stopped" /\ proc[p] # "stopped"
              => WaitReturns /\ p = cur.pid
<1>1. proc \in [Pids -> ProcStates]
  BY TypesOfState
<1> DEFINE Kept == /\ proc[p] # "none" => proc'[p] # "none"
                   /\ proc'[p] = "stopped" => proc[p] = "stopped"
<1>2. ASSUME NEW STATE q, NEW sig \in {"KILL", "STOP", "CONT"}, Signal(q, sig)
      PROVE  Kept
  BY <1>1, <1>2 DEF Signal, Signalled
<1>3. CASE \/ ReadLine \/ ReapDone \/ RemoveNext \/ RemoveDone \/ OtherCommand
           \/ SetForeground \/ ResetForeground \/ SetForegroundJobId \/ UNCHANGED vars
  BY <1>3 DEF ReadLine, ReapDone, RemoveNext, RemoveDone, OtherCommand, SetForeground,
     ResetForeground, SetForegroundJobId, vars
<1>4. CASE ReapNext
  BY <1>1, <1>4 DEF ReapNext
<1>5. CASE RunForeground \/ StartBackground
  BY <1>1, <1>5 DEF RunForeground, StartBackground
<1>6. CASE WaitReturns
  BY <1>1, <1>6 DEF WaitReturns, Waited
<1>7. CASE Fg
  <2>1. (\E job \in NamedJobs(list) \union getLastJob(list) : Signal(job.pid, "CONT"))
        \/ UNCHANGED proc
    BY <1>7 DEF Fg
  <2> QED
    BY <1>2, <2>1
<1>8. CASE Bg
  <2>1. \E job \in NamedJobs(list) \union getLastStoppedJob(list) : Signal(job.pid, "CONT")
    BY <1>8 DEF Bg
  <2> QED
    BY <1>2, <2>1
<1>9. CASE Kill
  BY <1>2, <1>9, KillSignalsOne
<1>10. CASE QuitKill
  BY <1>1, <1>10 DEF QuitKill, Signalled
<1>11. CASE handleIntSignal \/ handleStpSignal
  BY <1>2, <1>11 DEF handleIntSignal, handleStpSignal
<1>12. CASE \E q \in Pids : Exits(q) \/ StopsItself(q)
  BY <1>1, <1>2, <1>12 DEF Exits, StopsItself
<1> QED
  BY <1>3, <1>4, <1>5, <1>6, <1>7, <1>8, <1>9, <1>10, <1>11, <1>12
  DEF Next, ShellStep, SignalHandlers

(* The process whose entry fg and bg choose. *)
LEMMA ChosenListed ==
  ASSUME TypeOK, NEW job \in NamedJobs(list) \union getLastJob(list) \union getLastStoppedJob(list)
  PROVE  \E i \in 1 .. Len(list.jobs) :
           job = list.jobs[i] /\ job.pid \in Pids /\ job.id \in Nat
<1>1. list \in Lists(Pids)
  BY TypesOfState
<1>2. \E i \in 1 .. Len(list.jobs) : job = list.jobs[i]
  BY <1>1, NamedJobsListed, LastJobsListed
<1> QED
  BY <1>1, <1>2, Entries

(* How the list changes. *)
ListStep ==
  \/ /\ list' \in Lists1(Pids) /\ From(list, list')
     /\ UNCHANGED <<cur, fgPid>> /\ (InForeground' <=> InForeground)
  \/ /\ list' \in Lists1(Pids) /\ From(list, list') /\ pc' = "fgJobId"
     /\ fgPid' = cur'.pid /\ cur'.pid \in Pids /\ proc[cur'.pid] # "none"
     /\ Absent(cur'.pid, list')
  \/ \E p \in Pids, stopped \in BOOLEAN :
       /\ list' \in Lists1(Pids)
       /\ \A k \in 1 .. Len(list'.jobs) :
            \/ \E j \in 1 .. Len(list.jobs) : list'.jobs[k] = list.jobs[j]
            \/ list'.jobs[k].pid = p /\ list'.jobs[k].stopped = stopped
       /\ proc'[p] # "none"
       /\ UNCHANGED <<cur, fgPid>>
       /\ ~stopped => pc' = "prompt" /\ proc'[p] # "stopped" /\ ~InForeground
       /\ stopped => UNCHANGED pc \/ (pc' = "prompt" /\ ~InForeground)
  \/ /\ UNCHANGED <<list, fgPid>> /\ RunForeground
     /\ cur'.pid \in Pids /\ proc[cur'.pid] = "none" /\ proc'[cur'.pid] = "running"
     /\ pc' = "forked"
  \/ /\ UNCHANGED <<list, cur>> /\ pc = "forked" /\ fgPid' = cur.pid /\ pc' = "waiting"
  \/ UNCHANGED list /\ fgPid' = NoPid /\ pc' = "prompt"

(* Every step changes it so, with Ctrl-Z given once. *)
LEMMA ListStepHolds ==
  ASSUME ~CtrlZAgain, StopInv, [Next]_vars
  PROVE  ListStep
<1> USE DEF StopInv
<1>1. /\ proc \in [Pids -> ProcStates] /\ list \in Lists(Pids) /\ list \in Lists1(Pids)
      /\ fgPid \in Pids \union {NoPid}
  BY TypesOfState DEF Lists1
<1>2. From(list, list)
  BY DEF From
<1>3. ASSUME UNCHANGED <<list, cur, fgPid>>, InForeground' <=> InForeground
      PROVE  ListStep
  BY <1>1, <1>2, <1>3 DEF ListStep
<1>a. CASE \/ ReadLine \/ ReapNext \/ ReapDone \/ RemoveDone \/ OtherCommand
           \/ SetForegroundJobId \/ WaitReturns \/ Kill \/ QuitKill \/ handleIntSignal
           \/ UNCHANGED vars \/ \E p \in Pids : Exits(p) \/ StopsItself(p)
  <2>1. UNCHANGED <<list, cur, fgPid>>
    BY <1>a, Zenon DEF ReadLine, ReapNext, ReapDone, RemoveDone, OtherCommand, SetForegroundJobId,
       WaitReturns, Kill, QuitKill, handleIntSignal, Exits, StopsItself, vars
  <2>2. InForeground' <=> InForeground
    BY <1>a DEF ReadLine, ReapNext, ReapDone, RemoveDone, OtherCommand, SetForegroundJobId,
       WaitReturns, Kill, QuitKill, handleIntSignal, Exits, StopsItself, vars, InForeground
  <2> QED
    BY <1>3, <2>1, <2>2
<1>b. CASE RemoveNext
  <2>1. list' \in Lists1(Pids) /\ From(list, list')
    BY <1>1, <1>b, RemoveKeeps DEF RemoveNext
  <2> QED
    BY <1>b, <2>1 DEF RemoveNext, ListStep, InForeground
<1>c. CASE RunForeground
  <2>1. PICK p \in Pids : /\ proc[p] = "none"
                          /\ proc' = [proc EXCEPT ![p] = "running"]
                          /\ cur' = [pid |-> p, id |-> 0]
    BY <1>c DEF RunForeground
  <2>2. cur'.pid = p /\ proc'[p] = "running"
    BY <1>1, <2>1
  <2>3. UNCHANGED <<list, fgPid>> /\ pc' = "forked"
    BY <1>c DEF RunForeground
  <2> QED
    BY <1>c, <2>1, <2>2, <2>3 DEF ListStep
<1>d. CASE SetForeground
  BY <1>d DEF SetForeground, ListStep
<1>e. CASE ResetForeground
  BY <1>e DEF ResetForeground, ListStep
<1>f. CASE StartBackground
  <2>1. PICK p \in Pids : /\ proc[p] = "none"
                          /\ proc' = [proc EXCEPT ![p] = "running"]
                          /\ list' = addJob(list, p, FALSE)
    BY <1>f DEF StartBackground
  <2>2. Absent(p, list)
    BY <2>1 DEF Forked, Absent
  <2>3. list' \in Lists1(Pids) /\ Grown(list, list', p, FALSE)
    BY <1>1, <2>1, <2>2, AddKeeps
  <2>4. proc'[p] = "running" /\ pc' = "prompt" /\ UNCHANGED <<cur, fgPid>> /\ ~InForeground
    BY <1>1, <1>f, <2>1 DEF StartBackground, InForeground
  <2> QED
    BY <2>3, <2>4 DEF ListStep, Grown
<1>g. CASE Fg
  <2>1. PICK job \in NamedJobs(list) \union getLastJob(list) :
          \/ pc' = "prompt" /\ UNCHANGED <<proc, list, cur, fgPid>>
          \/ /\ list' = removeJobByPid(list, job.pid)
             /\ fgPid' = job.pid
             /\ cur' = [pid |-> job.pid, id |-> job.id]
             /\ pc' = "fgJobId"
    BY <1>g DEF Fg
  <2>2. job.pid \in Pids /\ proc[job.pid] # "none"
    BY ChosenListed DEF Forked
  <2>3. CASE pc' = "prompt" /\ UNCHANGED <<proc, list, cur, fgPid>>
    BY <1>3, <1>g, <2>3 DEF Fg, InForeground
  <2>4. CASE /\ list' = removeJobByPid(list, job.pid)
             /\ fgPid' = job.pid
             /\ cur' = [pid |-> job.pid, id |-> job.id]
             /\ pc' = "fgJobId"
    <3>1. list' \in Lists1(Pids) /\ From(list, list') /\ Absent(job.pid, list')
      BY <1>1, <2>4, RemoveKeeps
    <3>2. cur'.pid = job.pid
      BY <2>4
    <3> QED
      BY <2>2, <2>4, <3>1, <3>2 DEF ListStep
  <2> QED
    BY <2>1, <2>3, <2>4
<1>h. CASE Bg
  <2>1. PICK job \in NamedJobs(list) \union getLastStoppedJob(list) :
          /\ LET resumed ==
                   addRetainedJob(removeJobByPid(list, job.pid), job.id, job.pid, FALSE)
             IN list' = IF CanSignal(job.pid) THEN resumed
                        ELSE addRetainedJob(removeJobByPid(resumed, job.pid),
                                            job.id, job.pid, TRUE)
          /\ Signal(job.pid, "CONT")
    BY <1>h DEF Bg
  <2>2. job.pid \in Pids /\ job.id \in Nat /\ proc[job.pid] # "none"
    BY ChosenListed DEF Forked
  <2>3. proc'[job.pid] \notin {"none", "stopped"}
    BY <1>1, <2>1, <2>2 DEF Signal, Signalled
  <2>4. pc' = "prompt" /\ UNCHANGED <<cur, fgPid>> /\ ~InForeground
    BY <1>h DEF Bg, InForeground
  <2> DEFINE removed == removeJobByPid(list, job.pid)
             resumed == addRetainedJob(removed, job.id, job.pid, FALSE)
             again == removeJobByPid(resumed, job.pid)
             marked == addRetainedJob(again, job.id, job.pid, TRUE)
  <2>5. /\ removed \in Lists1(Pids) /\ From(list, removed) /\ Absent(job.pid, removed)
    BY <1>1, RemoveKeeps
  <2>6. resumed \in Lists1(Pids) /\ Grown(removed, resumed, job.pid, FALSE)
    BY <2>2, <2>5, AddRetainedKeeps
  <2>7. again \in Lists1(Pids) /\ From(resumed, again) /\ Absent(job.pid, again)
    BY <2>6, RemoveKeeps
  <2>8. marked \in Lists1(Pids) /\ Grown(again, marked, job.pid, TRUE)
    BY <2>2, <2>7, AddRetainedKeeps
  <2>9. list' = resumed \/ list' = marked
    BY <2>1
  <2> HIDE DEF removed, resumed, again, marked
  <2>10. Grown(list, resumed, job.pid, FALSE)
    BY <2>5, <2>6 DEF Grown, From
  <2>11. From(list, again)
    <3> SUFFICES ASSUME NEW k \in 1 .. Len(again.jobs)
                 PROVE  \E j \in 1 .. Len(list.jobs) : again.jobs[k] = list.jobs[j]
      BY DEF From
    <3>1. PICK j \in 1 .. Len(resumed.jobs) : again.jobs[k] = resumed.jobs[j]
      BY <2>7 DEF From
    <3>2. resumed.jobs[j].pid # job.pid
      BY <2>7, <3>1 DEF Absent
    <3> QED
      BY <2>10, <3>1, <3>2 DEF Grown
  <2>12. Grown(list, marked, job.pid, TRUE)
    BY <2>8, <2>11 DEF Grown, From
  <2>13. CASE list' = resumed
    BY <2>2, <2>3, <2>4, <2>6, <2>10, <2>13 DEF ListStep, Grown
  <2>14. CASE list' = marked
    BY <2>2, <2>3, <2>4, <2>8, <2>12, <2>14 DEF ListStep, Grown
  <2> QED
    BY <2>9, <2>13, <2>14
<1>i. CASE CtrlZComes /\ handleStpSignal
  <2>1. fgPid \in Pids /\ fgPid # NoPid /\ PositionOfPid(list, fgPid) = 0
    BY <1>1, <1>i DEF CtrlZComes, handleStpSignal
  <2>2. Absent(fgPid, list)
    BY <1>1, <2>1, PositionOfPidProperties DEF Absent
  <2>3. list' \in Lists1(Pids) /\ Grown(list, list', fgPid, TRUE)
    <3>1. fgJobId \in Nat
      BY DEF TypeOK
    <3>2. CASE list' = addRetainedJob(list, fgJobId, fgPid, TRUE)
      BY <1>1, <2>1, <2>2, <3>1, <3>2, AddRetainedKeeps
    <3>3. CASE list' = addJob(list, fgPid, TRUE)
      BY <1>1, <2>1, <2>2, <3>3, AddKeeps
    <3> QED
      BY <1>i, <3>2, <3>3 DEF handleStpSignal
  <2>4. proc'[fgPid] # "none"
    BY <2>1, StatesStep DEF Forked, ForegroundIsCur
  <2>5. UNCHANGED <<pc, cur, fgPid>>
    BY <1>i DEF handleStpSignal
  <2> QED
    BY <2>1, <2>3, <2>4, <2>5 DEF ListStep, Grown
<1> QED
  BY <1>a, <1>b, <1>c, <1>d, <1>e, <1>f, <1>g, <1>h, <1>i DEF Next, ShellStep, SignalHandlers

(* Every step keeps the invariant. *)
LEMMA StopInvStep == ~CtrlZAgain /\ StopInv /\ [Next]_vars => StopInv'
<1> SUFFICES ASSUME ~CtrlZAgain, StopInv, [Next]_vars
             PROVE  StopInv'
  OBVIOUS
<1>1. TypeOK' /\ ScanStarted'
  BY TypeStep, ScanStep DEF StopInv
<1>2. ListStep
  BY ListStepHolds
<1>3. /\ list \in Lists(Pids) /\ list \in Lists1(Pids)
      /\ \A i \in 1 .. Len(list.jobs) : list.jobs[i].pid \in Pids
  BY TypesOfState, Entries DEF StopInv, Lists1
<1>4. \A p \in Pids : proc[p] # "none" => proc'[p] # "none"
  BY StatesStep DEF StopInv
<1>5. \A p \in Pids : proc'[p] = "stopped" /\ proc[p] # "stopped" =>
        p = cur.pid /\ pc = "waiting" /\ UNCHANGED list
  BY StatesStep DEF StopInv, WaitReturns
<1>6. Once(list')
  BY <1>2, <1>3 DEF ListStep, Lists1
<1>7. ForegroundIsCur'
  <2>1. ForegroundIsCur
    BY DEF StopInv
  <2>2. pc = "forked" => InForeground
    BY DEF InForeground
  <2>3. pc' \in {"fgJobId", "forked", "waiting"} => InForeground'
    BY DEF InForeground
  <2>4. UNCHANGED pc => (InForeground' <=> InForeground)
    BY DEF InForeground
  <2>5. CASE RunForeground
    BY <2>1, <2>5 DEF RunForeground, ForegroundIsCur, InForeground
  <2> QED
    BY <1>2, <2>1, <2>2, <2>3, <2>4, <2>5, SmashAssumption DEF ListStep, ForegroundIsCur
<1>8. Forked'
  <2>1. InForeground' => cur'.pid \in Pids /\ proc'[cur'.pid] # "none"
    BY <1>2, <1>4 DEF ListStep, StopInv, Forked, InForeground
  <2>2. \A i \in 1 .. Len(list'.jobs) : proc'[list'.jobs[i].pid] # "none"
    BY <1>2, <1>3, <1>4 DEF ListStep, From, StopInv, Forked
  <2> QED
    BY <2>1, <2>2 DEF Forked
<1>9. CurIsMarked'
  <2> SUFFICES ASSUME InForeground', NEW i \in 1 .. Len(list'.jobs),
                      list'.jobs[i].pid = cur'.pid
               PROVE  list'.jobs[i].stopped
    BY DEF CurIsMarked
  <2> QED
    BY <1>2 DEF ListStep, From, Absent, StopInv, CurIsMarked, Forked, InForeground
<1>10. StoppedIsMarked'
  <2> SUFFICES ASSUME NEW i \in 1 .. Len(list'.jobs), proc'[list'.jobs[i].pid] = "stopped"
               PROVE  list'.jobs[i].stopped
    BY DEF StoppedIsMarked
  <2>1. ASSUME NEW j \in 1 .. Len(list.jobs), list'.jobs[i] = list.jobs[j]
        PROVE  list'.jobs[i].stopped
    <3>1. CASE proc[list.jobs[j].pid] = "stopped"
      BY <2>1, <3>1 DEF StopInv, StoppedIsMarked
    <3>2. CASE proc[list.jobs[j].pid] # "stopped"
      <4>1. list.jobs[j].pid = cur.pid /\ InForeground
        BY <1>3, <1>5, <2>1, <3>2 DEF InForeground
      <4> QED
        BY <2>1, <4>1 DEF StopInv, CurIsMarked
    <3> QED
      BY <3>1, <3>2
  <2>2. ASSUME ~ \E j \in 1 .. Len(list.jobs) : list'.jobs[i] = list.jobs[j]
        PROVE  list'.jobs[i].stopped
    BY <1>2, <2>2 DEF ListStep, From
  <2> QED
    BY <2>1, <2>2
<1> QED
  BY <1>1, <1>6, <1>7, <1>8, <1>9, <1>10 DEF StopInv

(* With every command of the shell, as long as Ctrl-Z is not repeated for  *)
(* a process that is in the list: fg never waits for a process whose stop  *)
(* it was told of without resuming it first.                               *)
THEOREM StoppedMarked == ASSUME ~CtrlZAgain PROVE Spec => []StoppedIsMarked
<1>1. Init => StopInv
  BY DEF Init, StopInv, TypeOK, EmptyList, NoJob, NoPid, ProcStates, Pcs, ScanStarted,
     Once, ForegroundIsCur, Forked, CurIsMarked, StoppedIsMarked, InForeground
<1>2. StopInv /\ [Next]_vars => StopInv'
  BY StopInvStep
<1>3. StopInv => StoppedIsMarked
  BY DEF StopInv
<1> QED
  BY <1>1, <1>2, <1>3, PTL DEF Spec
=============================================================================
