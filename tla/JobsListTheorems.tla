-------------------------- MODULE JobsListTheorems --------------------------
(***************************************************************************)
(* What the operations on the jobs list return, for every list.            *)
(***************************************************************************)
EXTENDS JobsList, TLAPS, SequenceTheorems, WellFoundedInduction

-----------------------------------------------------------------------------
(* Smallest and greatest elements, and sequences with an element removed   *)
(* or inserted.                                                            *)

(* A non-empty set of naturals has a smallest element, which Min is. *)
LEMMA MinNat ==
  ASSUME NEW S, S \subseteq Nat, S # {}
  PROVE  /\ Min(S) \in S
         /\ \A x \in S : Min(S) <= x
<1> DEFINE Less == OpToRel(<, Nat)
<1>1. \A x, y \in Nat : y < x => <<y, x>> \in Less
  BY Zenon DEF OpToRel
<1>2. IsWellFoundedOn(Less, Nat)
  BY NatLessThanWellFounded, Zenon
<1> HIDE DEF Less
<1>3. PICK x \in S : \A y \in S : ~ (<<y, x>> \in Less)
  BY <1>2, WFMin, Zenon
<1>4. \A y \in S : x <= y
  <2> SUFFICES ASSUME NEW y \in S PROVE x <= y
    OBVIOUS
  <2>1. x \in Nat /\ y \in Nat
    OBVIOUS
  <2>2. ~ (y < x)
    BY <1>1, <1>3, <2>1, Zenon
  <2> QED
    BY <2>1, <2>2
<1> QED
  BY <1>4 DEF Min

(* A non-empty set of numbers up to n has a greatest element: Max. *)
LEMMA MaxNat ==
  ASSUME NEW n \in Nat, NEW S, S \subseteq 1 .. n, S # {}
  PROVE  Max(S) \in S
<1> DEFINE T == {n - x : x \in S}
<1>1. T \subseteq Nat /\ T # {}
  <2>1. \A x \in S : x \in Int /\ n - x \in Nat
    OBVIOUS
  <2> QED
    BY <2>1
<1>2. Min(T) \in T /\ \A y \in T : Min(T) <= y
  BY <1>1, MinNat
<1>3. PICK x \in S : Min(T) = n - x
  BY <1>2
<1>4. \A y \in S : x >= y
  <2> TAKE y \in S
  <2>1. n - y \in T
    OBVIOUS
  <2>2. n - x <= n - y
    BY <1>2, <1>3, <2>1
  <2> QED
    BY <2>2
<1> QED
  BY <1>4 DEF Max

(* The length and the elements of RemoveAt, behind vector::erase. *)
LEMMA RemoveAtProperties ==
  ASSUME NEW R, NEW s \in Seq(R), NEW i \in 1 .. Len(s)
  PROVE  /\ RemoveAt(s, i) \in Seq(R)
         /\ Len(RemoveAt(s, i)) = Len(s) - 1
         /\ \A k \in 1 .. Len(s) - 1 :
              RemoveAt(s, i)[k] = IF k < i THEN s[k] ELSE s[k + 1]
<1> DEFINE a == SubSeq(s, 1, i - 1)
           b == SubSeq(s, i + 1, Len(s))
<1>1. \A k \in 1 .. Len(s) : s[k] \in R
  BY ElementOfSeq
<1>2. /\ a \in Seq(R)
      /\ Len(a) = i - 1
      /\ \A k \in 1 .. i - 1 : a[k] = s[k]
  BY <1>1, SubSeqProperties
<1>3. /\ b \in Seq(R)
      /\ Len(b) = Len(s) - i
      /\ \A k \in 1 .. Len(s) - i : b[k] = s[k + i]
  BY <1>1, SubSeqProperties
<1>4. /\ a \o b \in Seq(R)
      /\ Len(a \o b) = Len(a) + Len(b)
      /\ \A k \in 1 .. Len(a) + Len(b) :
           (a \o b)[k] = IF k <= Len(a) THEN a[k] ELSE b[k - Len(a)]
  BY <1>2, <1>3, ConcatProperties
<1> HIDE DEF a, b
<1>5. ASSUME NEW k \in 1 .. Len(s) - 1
      PROVE  (a \o b)[k] = IF k < i THEN s[k] ELSE s[k + 1]
  BY <1>2, <1>3, <1>4
<1>6. Len(a \o b) = Len(s) - 1
  BY <1>2, <1>3, <1>4
<1>7. RemoveAt(s, i) = a \o b
  BY DEF RemoveAt, a, b
<1> QED
  BY <1>4, <1>5, <1>6, <1>7

(* InsertAt, behind vector::insert, yields a sequence of the same kind. *)
LEMMA InsertAtType ==
  ASSUME NEW R, NEW s \in Seq(R), NEW i \in 1 .. Len(s) + 1, NEW e \in R
  PROVE  InsertAt(s, i, e) \in Seq(R)
<1>1. \A k \in 1 .. Len(s) : s[k] \in R
  BY ElementOfSeq
<1>2. SubSeq(s, 1, i - 1) \in Seq(R)
  BY <1>1, SubSeqProperties
<1>3. SubSeq(s, i, Len(s)) \in Seq(R)
  BY <1>1, SubSeqProperties
<1>4. <<e>> \in Seq(R)
  OBVIOUS
<1> QED
  BY <1>2, <1>3, <1>4, ConcatProperties DEF InsertAt

-----------------------------------------------------------------------------
(* The operations of the jobs list.                                        *)

Jobs(S) == [id : Nat, pid : S, stopped : BOOLEAN]
Lists(S) == [jobs : Seq(Jobs(S)), maxJobId : Nat]

(* The parts of a list and the fields of its entries. *)
LEMMA Entries ==
  ASSUME NEW S, NEW list \in Lists(S)
  PROVE  /\ list.jobs \in Seq(Jobs(S))
         /\ list.maxJobId \in Nat
         /\ Len(list.jobs) \in Nat
         /\ DOMAIN list.jobs = 1 .. Len(list.jobs)
         /\ \A k \in 1 .. Len(list.jobs) :
              /\ list.jobs[k] \in Jobs(S)
              /\ list.jobs[k].id \in Nat
              /\ list.jobs[k].pid \in S
<1>1. /\ list.jobs \in Seq(Jobs(S))
      /\ list.maxJobId \in Nat
      /\ Len(list.jobs) \in Nat
      /\ DOMAIN list.jobs = 1 .. Len(list.jobs)
  BY DEF Lists
<1>2. \A k \in 1 .. Len(list.jobs) : list.jobs[k] \in Jobs(S)
  BY <1>1, ElementOfSeq
<1>3. \A job \in Jobs(S) : job.id \in Nat /\ job.pid \in S
  BY DEF Jobs
<1> QED
  BY <1>1, <1>2, <1>3

(* A new entry and its fields. *)
LEMMA JobType ==
  ASSUME NEW S, NEW id \in Nat, NEW pid \in S, NEW stopped \in BOOLEAN
  PROVE  /\ Job(id, pid, stopped) \in Jobs(S)
         /\ Job(id, pid, stopped).id = id
         /\ Job(id, pid, stopped).pid = pid
         /\ Job(id, pid, stopped).stopped = stopped
BY DEF Job, Jobs

(* Position 0 says that no entry has the id; any other has one. *)
LEMMA PositionOfIdProperties ==
  ASSUME NEW S, NEW list \in Lists(S), NEW id
  PROVE  LET i == PositionOfId(list, id)
         IN /\ i = 0 => \A j \in 1 .. Len(list.jobs) : list.jobs[j].id # id
            /\ i # 0 => i \in 1 .. Len(list.jobs) /\ list.jobs[i].id = id
<1> DEFINE found == {i \in 1 .. Len(list.jobs) : list.jobs[i].id = id}
<1>1. PositionOfId(list, id) = IF found # {} THEN Min(found) ELSE 0
  BY DEF PositionOfId, SelectInSeq
<1>2. found \subseteq Nat
  OBVIOUS
<1>3. found # {} => Min(found) \in found
  BY <1>2, MinNat
<1> QED
  BY <1>1, <1>3

(* Position 0 says that no entry has the process; any other has one. *)
LEMMA PositionOfPidProperties ==
  ASSUME NEW S, NEW list \in Lists(S), NEW pid
  PROVE  LET i == PositionOfPid(list, pid)
         IN /\ i = 0 => \A j \in 1 .. Len(list.jobs) : list.jobs[j].pid # pid
            /\ i # 0 => i \in 1 .. Len(list.jobs) /\ list.jobs[i].pid = pid
<1> DEFINE found == {i \in 1 .. Len(list.jobs) : list.jobs[i].pid = pid}
<1>1. PositionOfPid(list, pid) = IF found # {} THEN Min(found) ELSE 0
  BY DEF PositionOfPid, SelectInSeq
<1>2. found \subseteq Nat
  OBVIOUS
<1>3. found # {} => Min(found) \in found
  BY <1>2, MinNat
<1> QED
  BY <1>1, <1>3

(* Ids increase along the list and the counter is the last one. *)
Ordered(list) ==
  /\ \A i, j \in 1 .. Len(list.jobs) : i < j => list.jobs[i].id < list.jobs[j].id
  /\ list.maxJobId = IF list.jobs = <<>> THEN 0 ELSE list.jobs[Len(list.jobs)].id

(* eraseJob takes one entry out and leaves the others in their order. *)
LEMMA EraseProperties ==
  ASSUME NEW S, NEW list \in Lists(S), NEW i \in 1 .. Len(list.jobs)
  PROVE  LET erased == eraseJob(list, i)
         IN /\ erased \in Lists(S)
            /\ Len(erased.jobs) = Len(list.jobs) - 1
            /\ \A k \in 1 .. Len(list.jobs) - 1 :
                 erased.jobs[k] = IF k < i THEN list.jobs[k] ELSE list.jobs[k + 1]
<1> DEFINE jobs == list.jobs
           erased == eraseJob(list, i)
<1>1. jobs \in Seq(Jobs(S)) /\ list.maxJobId \in Nat /\ Len(jobs) \in Nat
  BY DEF Lists
<1>2. i \in 1 .. Len(jobs) /\ \A k \in 1 .. Len(jobs) : jobs[k].id \in Nat
  BY Entries
<1>3. /\ erased.jobs = RemoveAt(jobs, i)
      /\ erased.maxJobId = IF jobs[i].id # list.maxJobId THEN list.maxJobId
                           ELSE IF Len(jobs) = 1 THEN 0 ELSE jobs[Len(jobs) - 1].id
      /\ erased = [jobs |-> erased.jobs, maxJobId |-> erased.maxJobId]
  BY DEF eraseJob
<1> HIDE DEF erased, jobs
<1>4. erased.maxJobId \in Nat
  <2> DEFINE n == Len(jobs)
  <2>1. n # 1 => n - 1 \in 1 .. n
    <3>1. n \in Nat /\ i \in 1 .. n
      BY <1>1, <1>2
    <3> HIDE DEF n
    <3> QED
      BY <3>1
  <2>2. Len(jobs) # 1 => jobs[Len(jobs) - 1].id \in Nat
    BY <1>2, <2>1
  <2> QED
    BY <1>1, <1>3, <2>2
<1>5. /\ RemoveAt(jobs, i) \in Seq(Jobs(S))
      /\ Len(RemoveAt(jobs, i)) = Len(jobs) - 1
      /\ \A k \in 1 .. Len(jobs) - 1 :
           RemoveAt(jobs, i)[k] = IF k < i THEN jobs[k] ELSE jobs[k + 1]
  BY <1>1, <1>2, RemoveAtProperties
<1>6. erased \in Lists(S)
  BY <1>3, <1>4, <1>5 DEF Lists
<1> QED
  BY <1>3, <1>5, <1>6 DEF erased, jobs

(* eraseJob finds the greatest id that is left, if the list was sorted. *)
LEMMA EraseOrdered ==
  ASSUME NEW S, NEW list \in Lists(S), NEW i \in 1 .. Len(list.jobs), Ordered(list)
  PROVE  Ordered(eraseJob(list, i))
<1> DEFINE jobs == list.jobs
           n == Len(jobs)
           erased == eraseJob(list, i)
           rest == erased.jobs
<1>1. n \in Nat /\ n # 0 /\ i \in 1 .. n /\ \A k \in 1 .. n : jobs[k].id \in Nat
  BY Entries
<1>2. /\ rest \in Seq(Jobs(S))
      /\ Len(rest) = n - 1
      /\ \A k \in 1 .. n - 1 : rest[k] = IF k < i THEN jobs[k] ELSE jobs[k + 1]
  BY EraseProperties, Entries
<1>3. erased.maxJobId = IF jobs[i].id # list.maxJobId THEN list.maxJobId
                        ELSE IF n = 1 THEN 0 ELSE jobs[n - 1].id
  BY DEF eraseJob
<1>4. /\ \A k, l \in 1 .. n : k < l => jobs[k].id < jobs[l].id
      /\ list.maxJobId = jobs[n].id
  BY <1>1, EmptySeq DEF Ordered
<1>5. Ordered(erased) <=>
        /\ \A k, l \in 1 .. Len(rest) : k < l => rest[k].id < rest[l].id
        /\ erased.maxJobId = IF rest = <<>> THEN 0 ELSE rest[Len(rest)].id
  BY DEF Ordered
<1> HIDE DEF rest, erased, n, jobs
<1>6. ASSUME NEW k \in 1 .. n - 1, NEW l \in 1 .. n - 1, k < l
      PROVE  rest[k].id < rest[l].id
  <2>1. k + 1 \in 1 .. n /\ l + 1 \in 1 .. n /\ k \in 1 .. n /\ l \in 1 .. n
    BY <1>1
  <2>2. /\ rest[k] = IF k < i THEN jobs[k] ELSE jobs[k + 1]
        /\ rest[l] = IF l < i THEN jobs[l] ELSE jobs[l + 1]
    BY <1>2
  <2>3. /\ jobs[k].id < jobs[l].id
        /\ jobs[k].id < jobs[l + 1].id
        /\ jobs[k + 1].id < jobs[l + 1].id
    BY <1>1, <1>4, <1>6, <2>1
  <2>4. CASE k < i
    BY <2>2, <2>3, <2>4
  <2>5. CASE ~ (k < i)
    <3>1. ~ (l < i)
      BY <1>1, <1>6, <2>5
    <3> QED
      BY <2>2, <2>3, <2>5, <3>1
  <2> QED
    BY <2>4, <2>5
<1>7. rest = <<>> <=> n = 1
  BY <1>1, <1>2, EmptySeq
<1>8. n # 1 => erased.maxJobId = rest[n - 1].id
  <2> SUFFICES ASSUME n # 1 PROVE erased.maxJobId = rest[n - 1].id
    OBVIOUS
  <2>1. n - 1 \in 1 .. n - 1 /\ n - 1 \in 1 .. n /\ n \in 1 .. n
    BY <1>1
  <2>2. CASE i = n
    BY <1>1, <1>2, <1>3, <1>4, <2>1, <2>2
  <2>3. CASE i # n
    <3>1. jobs[i].id < jobs[n].id
      BY <1>1, <1>4, <2>1, <2>3
    <3>2. erased.maxJobId = jobs[n].id
      BY <1>1, <1>3, <1>4, <2>1, <3>1
    <3>3. rest[n - 1] = jobs[n]
      BY <1>1, <1>2, <2>1, <2>3
    <3> QED
      BY <3>2, <3>3
  <2> QED
    BY <2>2, <2>3
<1>9. n = 1 => erased.maxJobId = 0
  BY <1>1, <1>3, <1>4
<1>10. Ordered(erased)
  BY <1>1, <1>2, <1>5, <1>6, <1>7, <1>8, <1>9
<1> QED
  BY <1>10 DEF erased

(* Entries with another id stay, and nothing is added. *)
Without(list, id, removed) ==
  /\ \A j \in 1 .. Len(list.jobs) :
       list.jobs[j].id # id =>
         \E k \in 1 .. Len(removed.jobs) : removed.jobs[k] = list.jobs[j]
  /\ \A k \in 1 .. Len(removed.jobs) :
       \E j \in 1 .. Len(list.jobs) : removed.jobs[k] = list.jobs[j]

(* removeJobById yields a list without the id, at most, and in order. *)
LEMMA RemoveByIdProperties ==
  ASSUME NEW S, NEW list \in Lists(S), NEW id
  PROVE  /\ removeJobById(list, id) \in Lists(S)
         /\ Ordered(list) => Ordered(removeJobById(list, id))
         /\ Without(list, id, removeJobById(list, id))
<1> DEFINE i == PositionOfId(list, id)
           n == Len(list.jobs)
           removed == removeJobById(list, id)
<1>1. n \in Nat /\ (i # 0 => i \in 1 .. n /\ list.jobs[i].id = id)
  BY Entries, PositionOfIdProperties
<1>2. removed = IF i = 0 THEN list ELSE eraseJob(list, i)
  BY DEF removeJobById
<1>3. CASE i = 0
  BY <1>2, <1>3 DEF Without
<1>4. CASE i # 0
  <2>1. i \in 1 .. n /\ removed = eraseJob(list, i)
    BY <1>1, <1>2, <1>4
  <2>2. /\ removed \in Lists(S)
        /\ Len(removed.jobs) = n - 1
        /\ \A k \in 1 .. n - 1 :
             removed.jobs[k] = IF k < i THEN list.jobs[k] ELSE list.jobs[k + 1]
    BY <2>1, EraseProperties
  <2>3. Ordered(list) => Ordered(removed)
    BY <2>1, EraseOrdered
  <2> HIDE DEF removed, i, n
  <2>4. ASSUME NEW j \in 1 .. n, list.jobs[j].id # id
        PROVE  \E k \in 1 .. n - 1 : removed.jobs[k] = list.jobs[j]
    <3>1. j # i
      BY <1>1, <1>4, <2>4
    <3>2. CASE j < i
      <4>1. j \in 1 .. n - 1
        BY <1>1, <2>1, <3>2
      <4> QED
        BY <2>2, <3>2, <4>1
    <3>3. CASE j > i
      <4>1. j - 1 \in 1 .. n - 1 /\ ~ (j - 1 < i) /\ (j - 1) + 1 = j
        BY <1>1, <2>1, <3>3
      <4> QED
        BY <2>2, <4>1
    <3> QED
      BY <1>1, <2>1, <3>1, <3>2, <3>3
  <2>5. ASSUME NEW k \in 1 .. n - 1
        PROVE  \E j \in 1 .. n : removed.jobs[k] = list.jobs[j]
    <3>1. k \in 1 .. n /\ k + 1 \in 1 .. n
      BY <1>1
    <3> QED
      BY <2>2, <3>1
  <2> QED
    BY <2>2, <2>3, <2>4, <2>5 DEF removed, n, Without
<1> QED
  BY <1>3, <1>4

(* Removal by process yields a list. *)
LEMMA RemoveByPidType ==
  ASSUME NEW S, NEW list \in Lists(S), NEW pid
  PROVE  removeJobByPid(list, pid) \in Lists(S)
<1>1. PositionOfPid(list, pid) # 0 => PositionOfPid(list, pid) \in 1 .. Len(list.jobs)
  BY PositionOfPidProperties
<1> QED
  BY <1>1, EraseProperties DEF removeJobByPid

(* addJob without an id: one entry more, at the end, with a new id. *)
LEMMA AddProperties ==
  ASSUME NEW S, NEW list \in Lists(S), NEW pid \in S, NEW stopped \in BOOLEAN
  PROVE  LET added == addJob(list, pid, stopped)
             n == Len(list.jobs)
         IN /\ added \in Lists(S)
            /\ added.jobs # <<>>
            /\ Len(added.jobs) = n + 1
            /\ \A k \in 1 .. n : added.jobs[k] = list.jobs[k]
            /\ added.jobs[n + 1] = Job(list.maxJobId + 1, pid, stopped)
            /\ added.maxJobId = list.maxJobId + 1
<1> DEFINE job == Job(list.maxJobId + 1, pid, stopped)
<1>1. list.jobs \in Seq(Jobs(S)) /\ list.maxJobId \in Nat
  BY DEF Lists
<1>2. job \in Jobs(S)
  BY <1>1, JobType
<1> HIDE DEF job
<1>3. /\ Append(list.jobs, job) \in Seq(Jobs(S))
      /\ Append(list.jobs, job) # <<>>
      /\ Len(Append(list.jobs, job)) = Len(list.jobs) + 1
      /\ \A k \in 1 .. Len(list.jobs) : Append(list.jobs, job)[k] = list.jobs[k]
      /\ Append(list.jobs, job)[Len(list.jobs) + 1] = job
  BY <1>1, <1>2, AppendProperties
<1>4. addJob(list, pid, stopped)
        = [jobs |-> Append(list.jobs, job), maxJobId |-> list.maxJobId + 1]
  BY DEF addJob, job
<1>5. addJob(list, pid, stopped) \in Lists(S)
  BY <1>1, <1>3, <1>4 DEF Lists
<1> QED
  BY <1>3, <1>4, <1>5 DEF job

(* addJob without an id keeps the list sorted. *)
LEMMA AddOrdered ==
  ASSUME NEW S, NEW list \in Lists(S), NEW pid \in S, NEW stopped \in BOOLEAN,
         Ordered(list)
  PROVE  Ordered(addJob(list, pid, stopped))
<1> DEFINE added == addJob(list, pid, stopped)
           jobs == list.jobs
           n == Len(jobs)
<1>1. jobs \in Seq(Jobs(S)) /\ list.maxJobId \in Nat /\ n \in Nat
  BY Entries
<1>2. \A k \in 1 .. n : jobs[k].id \in Nat
  BY Entries
<1>3. /\ added.jobs # <<>>
      /\ Len(added.jobs) = n + 1
      /\ \A k \in 1 .. n : added.jobs[k] = jobs[k]
      /\ added.jobs[n + 1].id = list.maxJobId + 1
      /\ added.maxJobId = list.maxJobId + 1
  BY <1>1, AddProperties, JobType
<1>4. /\ \A k, l \in 1 .. n : k < l => jobs[k].id < jobs[l].id
      /\ n > 0 => list.maxJobId = jobs[n].id
  BY <1>1, EmptySeq DEF Ordered
<1> HIDE DEF added, jobs
<1>5. \A k \in 1 .. n : jobs[k].id <= list.maxJobId
  <2> SUFFICES ASSUME NEW k \in 1 .. n PROVE jobs[k].id <= list.maxJobId
    OBVIOUS
  <2>1. n \in 1 .. n /\ list.maxJobId = jobs[n].id
    BY <1>1, <1>4
  <2>2. CASE k = n
    BY <1>2, <2>1, <2>2
  <2>3. CASE k < n
    BY <1>2, <1>4, <2>1, <2>3
  <2> QED
    BY <1>1, <2>2, <2>3
<1>6. ASSUME NEW k \in 1 .. n + 1, NEW l \in 1 .. n + 1, k < l
      PROVE  added.jobs[k].id < added.jobs[l].id
  <2>1. k \in 1 .. n
    BY <1>1, <1>6
  <2>2. CASE l = n + 1
    BY <1>1, <1>2, <1>3, <1>5, <2>1, <2>2
  <2>3. CASE l \in 1 .. n
    BY <1>3, <1>4, <1>6, <2>1, <2>3
  <2> QED
    BY <1>1, <2>2, <2>3
<1> QED
  BY <1>1, <1>3, <1>6 DEF Ordered, added

(* addJob with an id yields a list, wherever the entry goes. *)
LEMMA AddRetainedType ==
  ASSUME NEW S, NEW list \in Lists(S), NEW id \in Nat, NEW pid \in S,
         NEW stopped \in BOOLEAN
  PROVE  addRetainedJob(list, id, pid, stopped) \in Lists(S)
<1> DEFINE jobs == list.jobs
           job == Job(id, pid, stopped)
           places == {i \in DOMAIN jobs :
                        /\ i = Len(jobs) \/ jobs[i + 1].id > id
                        /\ jobs[i].id < id}
           passed == IF places = {} THEN Len(jobs) ELSE Min(places) - 1
           inserted == IF places = {} THEN jobs
                       ELSE InsertAt(jobs, Min(places) + 1, job)
           raised == IF passed > 0 /\ id >= list.maxJobId THEN id ELSE list.maxJobId
<1>1. /\ jobs \in Seq(Jobs(S)) /\ list.maxJobId \in Nat /\ Len(jobs) \in Nat
      /\ DOMAIN jobs = 1 .. Len(jobs)
  BY DEF Lists
<1>2. job \in Jobs(S)
  BY JobType
<1>3. CASE jobs = <<>> \/ jobs[1].id > id
  <2>1. addRetainedJob(list, id, pid, stopped) = [list EXCEPT !.jobs = <<job>> \o jobs]
    BY <1>3 DEF addRetainedJob
  <2> HIDE DEF job, jobs
  <2>2. <<job>> \in Seq(Jobs(S))
    BY <1>2
  <2>3. <<job>> \o jobs \in Seq(Jobs(S))
    BY <1>1, <2>2, ConcatProperties
  <2> QED
    BY <1>1, <2>1, <2>3 DEF Lists
<1>4. CASE ~ (jobs = <<>> \/ jobs[1].id > id)
  <2>1. addRetainedJob(list, id, pid, stopped) = [jobs |-> inserted, maxJobId |-> raised]
    BY <1>4 DEF addRetainedJob
  <2>2. places # {} => Min(places) \in 1 .. Len(jobs)
    <3>1. places \subseteq Nat /\ places \subseteq 1 .. Len(jobs)
      BY <1>1
    <3> QED
      BY <3>1, MinNat
  <2> HIDE DEF job, jobs, places
  <2>3. inserted \in Seq(Jobs(S))
    <3>1. places # {} => Min(places) + 1 \in 1 .. Len(jobs) + 1
      BY <1>1, <2>2
    <3> QED
      BY <1>1, <1>2, <3>1, InsertAtType
  <2>4. raised \in Nat
    BY <1>1
  <2> QED
    BY <2>1, <2>3, <2>4 DEF Lists
<1> QED
  BY <1>3, <1>4

(* What getJobById finds is an entry of the list. *)
LEMMA NamedJobsListed ==
  ASSUME NEW S, NEW list \in Lists(S), NEW job \in NamedJobs(list)
  PROVE  \E i \in 1 .. Len(list.jobs) : job = list.jobs[i]
BY DEF NamedJobs, ToSet, Lists

(* What getLastJob and getLastStoppedJob find is an entry of the list. *)
LEMMA LastJobsListed ==
  ASSUME NEW S, NEW list \in Lists(S),
         NEW job \in getLastJob(list) \union getLastStoppedJob(list)
  PROVE  \E i \in 1 .. Len(list.jobs) : job = list.jobs[i]
<1> DEFINE stopped == {i \in DOMAIN list.jobs : list.jobs[i].stopped}
<1>1. list.jobs \in Seq(Jobs(S)) /\ Len(list.jobs) \in Nat
  BY DEF Lists
<1>2. CASE job \in getLastJob(list)
  <2>1. list.jobs # <<>> /\ job = list.jobs[Len(list.jobs)]
    BY <1>2 DEF getLastJob, Last
  <2> QED
    BY <1>1, <2>1, EmptySeq
<1>3. CASE job \in getLastStoppedJob(list)
  <2>1. stopped # {} /\ job = list.jobs[Max(stopped)]
    BY <1>3 DEF getLastStoppedJob
  <2>2. stopped \subseteq 1 .. Len(list.jobs)
    BY <1>1
  <2>3. Max(stopped) \in stopped
    BY <1>1, <2>1, <2>2, MaxNat
  <2> QED
    BY <2>1, <2>2, <2>3
<1> QED
  BY <1>2, <1>3
=============================================================================
