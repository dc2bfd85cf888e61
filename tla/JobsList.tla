------------------------------ MODULE JobsList ------------------------------
(***************************************************************************)
(* The jobs list of the shell (HW1/JobsList.cpp) as operators on a value   *)
(* [jobs, maxJobId]: the vector of entries, and the counter the next job   *)
(* takes its id from.  An entry has the fields id, pid and stopped of the  *)
(* struct JobEntry; its command line and start time are left out.          *)
(***************************************************************************)
EXTENDS Integers, SequencesExt

EmptyList == [jobs |-> <<>>, maxJobId |-> 0]

Job(id, pid, stopped) == [id |-> id, pid |-> pid, stopped |-> stopped]

(* The position of the first entry with this id, and with this process; 0  *)
(* when there is none.                                                     *)
PositionOfId(list, id) == SelectInSeq(list.jobs, LAMBDA job : job.id = id)
PositionOfPid(list, pid) == SelectInSeq(list.jobs, LAMBDA job : job.pid = pid)

(* The entries that fg and bg choose from: the one that getJobById finds   *)
(* for some id, and the one taken when no id is given.                     *)
NamedJobs(list) ==
  {job \in ToSet(list.jobs) : job = list.jobs[PositionOfId(list, job.id)]}
getLastJob(list) == IF list.jobs = <<>> THEN {} ELSE {Last(list.jobs)}
getLastStoppedJob(list) ==
  LET stopped == {i \in DOMAIN list.jobs : list.jobs[i].stopped}
  IN IF stopped = {} THEN {} ELSE {list.jobs[Max(stopped)]}

(* addJob(pid, command, isStopped): a new id, at the end. *)
addJob(list, pid, stopped) ==
  [jobs |-> Append(list.jobs, Job(list.maxJobId + 1, pid, stopped)),
   maxJobId |-> list.maxJobId + 1]

(* addJob(jobId, pid, command, isStopped): the entry goes behind the first *)
(* one with a smaller id that is last or followed by a greater id, and is  *)
(* not added when there is none.  The counter is raised only inside the    *)
(* loop, once an entry was passed, and never before a first entry.         *)
addRetainedJob(list, id, pid, stopped) ==
  LET jobs == list.jobs
      places == {i \in DOMAIN jobs :
                   /\ i = Len(jobs) \/ jobs[i + 1].id > id
                   /\ jobs[i].id < id}
      passed == IF places = {} THEN Len(jobs) ELSE Min(places) - 1
  IN IF jobs = <<>> \/ jobs[1].id > id
     THEN [list EXCEPT !.jobs = <<Job(id, pid, stopped)>> \o jobs]
     ELSE [jobs |-> IF places = {} THEN jobs
                    ELSE InsertAt(jobs, Min(places) + 1, Job(id, pid, stopped)),
           maxJobId |-> IF passed > 0 /\ id >= list.maxJobId THEN id
                        ELSE list.maxJobId]

(* Slip: the counter is taken from the last entry, the one that goes. *)
BugEraseLast(list, i) ==
  [jobs |-> RemoveAt(list.jobs, i),
   maxJobId |-> IF list.jobs[i].id # list.maxJobId THEN list.maxJobId
                ELSE IF Len(list.jobs) = 1 THEN 0
                ELSE list.jobs[Len(list.jobs)].id]

(* eraseJob: when the greatest id goes, the last but one is the greatest. *)
eraseJob(list, i) ==
  [jobs |-> RemoveAt(list.jobs, i),
   maxJobId |-> IF list.jobs[i].id # list.maxJobId THEN list.maxJobId
                ELSE IF Len(list.jobs) = 1 THEN 0
                ELSE list.jobs[Len(list.jobs) - 1].id]

(* Slip: erases the entry behind the one that was found. *)
BugRemoveNext(list, id) ==
  LET i == PositionOfId(list, id)
  IN IF i = 0 THEN list
     ELSE eraseJob(list, IF i < Len(list.jobs) THEN i + 1 ELSE i)

removeJobById(list, id) ==
  LET i == PositionOfId(list, id)
  IN IF i = 0 THEN list ELSE eraseJob(list, i)

removeJobByPid(list, pid) ==
  LET i == PositionOfPid(list, pid)
  IN IF i = 0 THEN list ELSE eraseJob(list, i)
=============================================================================
