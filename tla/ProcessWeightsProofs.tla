----------------------- MODULE ProcessWeightsProofs -------------------------
(***************************************************************************)
(* Theorems about the system calls on the tree of processes, for any       *)
(* number of processes and any weights.                                    *)
(***************************************************************************)
EXTENDS ProcessWeights, SequenceTheorems, FiniteSetTheorems, WellFoundedInduction, TLAPS

(* Every nonempty set of natural numbers has a least element. *)
LEMMA LeastElement ==
  ASSUME NEW S, S \subseteq Nat, S # {}
  PROVE  \E x \in S : \A y \in S : x <= y
<1> DEFINE R == OpToRel(<, Nat)
<1>1. \A x, y \in Nat : y < x => <<y, x>> \in R
  BY Zenon DEF OpToRel
<1>2. IsWellFoundedOn(R, Nat)
  BY NatLessThanWellFounded, Zenon
<1> HIDE DEF R
<1>3. PICK x \in S : \A y \in S : ~ (<<y, x>> \in R)
  BY <1>2, WFMin, Zenon
<1>4. ASSUME NEW y \in S PROVE x <= y
  <2>1. x \in Nat /\ y \in Nat
    OBVIOUS
  <2>2. ~ (y < x)
    BY <1>1, <1>3, <2>1, Zenon
  <2> QED
    BY <2>1, <2>2
<1> QED
  BY <1>4

(* So Min takes it. *)
LEMMA MinNat ==
  ASSUME NEW S, S \subseteq Nat, S # {}
  PROVE  Min(S) \in S /\ \A x \in S : Min(S) <= x
BY LeastElement DEF Min

-----------------------------------------------------------------------------
(* The way up from a process, along parents that came before it.           *)

Falls(parent) ==
  parent \in [Pids -> Pids] /\ \A p \in Pids : p # Swapper => parent[p] < p

LEMMA PidsAre ==
  /\ Pids = 0 .. MaxPid
  /\ Pids \subseteq Nat
  /\ \A n \in Nat : n <= MaxPid <=> n \in Pids
  /\ {Swapper, init_pid} \subseteq Pids
  /\ Swapper = 0 /\ init_pid = 1
  /\ MaxPid \in Nat
BY WeightsAssumption DEF Pids, Swapper, init_pid

(* What fails for no process before the first one for which it fails. *)
LEMMA NoFirst ==
  ASSUME NEW Bad, Bad \subseteq Pids, \A p \in Bad : \E q \in Bad : q < p
  PROVE  Bad = {}
<1> SUFFICES ASSUME Bad # {} PROVE FALSE
  OBVIOUS
<1>1. Bad \subseteq Nat
  BY PidsAre
<1>2. PICK p \in Bad : \A q \in Bad : p <= q
  BY <1>1, LeastElement
<1>3. PICK q \in Bad : q < p
  OBVIOUS
<1> QED
  BY <1>1, <1>2, <1>3

(* g is the function of AncestorsOf for the processes up to n. *)
Ways(parent, n, g) ==
  g = [q \in 0 .. n |-> {q} \union (IF q = Swapper THEN {} ELSE g[parent[q]])]

LEMMA WaysBegin ==
  ASSUME NEW parent, Falls(parent)
  PROVE  \E g : Ways(parent, 0, g)
<1> DEFINE g == [q \in 0 .. 0 |-> {0}]
<1>1. Ways(parent, 0, g)
  BY DEF Ways, Swapper
<1> QED
  BY <1>1

LEMMA WaysGoOn ==
  ASSUME NEW parent, Falls(parent), NEW n \in Nat, n < MaxPid, NEW h, Ways(parent, n, h)
  PROVE  \E g : Ways(parent, n + 1, g)
<1> DEFINE m == n + 1
           e == {m} \union h[parent[m]]
           g == [q \in 0 .. m |-> IF q = m THEN e ELSE h[q]]
<1>1. m \in Pids /\ parent[m] \in 0 .. n /\ m # Swapper
  BY PidsAre DEF Falls, Swapper
<1>2. ASSUME NEW q \in 0 .. m
      PROVE  g[q] = {q} \union (IF q = Swapper THEN {} ELSE g[parent[q]])
  <2>1. CASE q = m
    BY <1>1, <2>1
  <2>2. CASE q # m
    <3>1. q \in 0 .. n /\ q \in Pids
      BY <2>2, PidsAre
    <3>2. h[q] = {q} \union (IF q = Swapper THEN {} ELSE h[parent[q]])
      BY <3>1 DEF Ways
    <3>3. q # Swapper => parent[q] \in 0 .. n /\ parent[q] # m
      BY <3>1, PidsAre DEF Falls, Swapper
    <3> QED
      BY <3>1, <3>2, <3>3, <2>2
  <2> QED
    BY <2>1, <2>2
<1>3. g = [q \in 0 .. m |-> {q} \union (IF q = Swapper THEN {} ELSE g[parent[q]])]
  BY <1>2
<1>4. Ways(parent, n + 1, g)
  BY <1>3 DEF Ways
<1> QED
  BY <1>4

LEMMA WaysAre ==
  ASSUME NEW parent, Falls(parent)
  PROVE  \E g : Ways(parent, MaxPid, g)
<1> DEFINE Bad == {n \in Pids : ~ \E g : Ways(parent, n, g)}
<1>1. ASSUME NEW n \in Bad PROVE \E m \in Bad : m < n
  <2>1. n # 0
    BY WaysBegin
  <2>2. n \in Nat /\ n - 1 \in Nat /\ n - 1 < n /\ n - 1 < MaxPid /\ n - 1 \in Pids
    BY <2>1, PidsAre
  <2>3. n - 1 \in Bad
    <3> SUFFICES ASSUME NEW h, Ways(parent, n - 1, h) PROVE FALSE
      BY <2>2
    <3>1. \E g : Ways(parent, n - 1 + 1, g)
      BY <2>2, WaysGoOn
    <3>2. n - 1 + 1 = n
      BY <2>2
    <3> QED
      BY <3>1, <3>2
  <2> QED
    BY <2>2, <2>3
<1> HIDE DEF Bad
<1>2. Bad = {}
  BY <1>1, NoFirst DEF Bad
<1> QED
  BY <1>2, PidsAre DEF Bad

(* A process, and the ancestors of its parent. *)
LEMMA Ancestors ==
  ASSUME NEW parent, Falls(parent), NEW p \in Pids
  PROVE  AncestorsOf(p, parent) =
           {p} \union (IF p = Swapper THEN {} ELSE AncestorsOf(parent[p], parent))
<1> DEFINE Way(g) ==
             g = [q \in Pids |-> {q} \union (IF q = Swapper THEN {} ELSE g[parent[q]])]
           up == CHOOSE g : Way(g)
<1>1. \E g : Way(g)
  BY WaysAre, PidsAre DEF Ways
<1>2. Way(up)
  <2> HIDE DEF Way
  <2> QED
    BY <1>1
<1>3. \A q : AncestorsOf(q, parent) = up[q]
  BY DEF AncestorsOf
<1> HIDE DEF up
<1>4. up[p] = {p} \union (IF p = Swapper THEN {} ELSE up[parent[p]])
  BY <1>2
<1> QED
  BY <1>3, <1>4

(* They came before it. *)
LEMMA AncestorsBefore ==
  ASSUME NEW parent, Falls(parent), NEW p \in Pids
  PROVE  p \in AncestorsOf(p, parent) /\ AncestorsOf(p, parent) \subseteq 0 .. p
<1> DEFINE Bad == {q \in Pids : ~ (AncestorsOf(q, parent) \subseteq 0 .. q)}
<1>1. ASSUME NEW q \in Bad PROVE \E r \in Bad : r < q
  <2>1. q \in Nat
    BY PidsAre
  <2>2. AncestorsOf(q, parent) =
          {q} \union (IF q = Swapper THEN {} ELSE AncestorsOf(parent[q], parent))
    BY Ancestors
  <2>3. q # Swapper
    BY <2>1, <2>2
  <2>4. parent[q] \in Pids /\ parent[q] \in Nat /\ parent[q] < q
    BY <2>3, PidsAre DEF Falls
  <2>5. ~ (AncestorsOf(parent[q], parent) \subseteq 0 .. parent[q])
    BY <2>1, <2>2, <2>3, <2>4
  <2> QED
    BY <2>4, <2>5
<1> HIDE DEF Bad
<1>2. Bad = {}
  BY <1>1, NoFirst DEF Bad
<1>3. AncestorsOf(p, parent) \subseteq 0 .. p
  BY <1>2 DEF Bad
<1> QED
  BY <1>3, Ancestors

(* The parent of an ancestor is one. *)
LEMMA AncestorsUp ==
  ASSUME NEW parent, Falls(parent), NEW p \in Pids,
         NEW a \in AncestorsOf(p, parent), a # Swapper
  PROVE  parent[a] \in AncestorsOf(p, parent)
<1> DEFINE Bad == {q \in Pids : a \in AncestorsOf(q, parent)
                                /\ parent[a] \notin AncestorsOf(q, parent)}
<1>1. ASSUME NEW q \in Bad PROVE \E r \in Bad : r < q
  <2>1. AncestorsOf(q, parent) =
          {q} \union (IF q = Swapper THEN {} ELSE AncestorsOf(parent[q], parent))
    BY Ancestors
  <2>2. q # Swapper
    BY <2>1
  <2>3. parent[q] \in Pids /\ parent[q] < q
    BY <2>2 DEF Falls
  <2>4. parent[q] \in AncestorsOf(parent[q], parent)
    BY <2>3, AncestorsBefore
  <2>5. a # q
    BY <2>1, <2>2, <2>4
  <2> QED
    BY <2>1, <2>2, <2>3, <2>5
<1> HIDE DEF Bad
<1>2. Bad = {}
  BY <1>1, NoFirst DEF Bad
<1> QED
  BY <1>2 DEF Bad

(* Parents that change outside U only, which is closed under parents, do   *)
(* not change the ancestors of a member of U.                              *)
LEMMA AncestorsSame ==
  ASSUME NEW parent, NEW parent2, Falls(parent), Falls(parent2),
         NEW U, U \subseteq Pids,
         \A q \in U : parent[q] \in U /\ parent2[q] = parent[q],
         NEW p \in U
  PROVE  AncestorsOf(p, parent2) = AncestorsOf(p, parent)
<1> DEFINE Bad == {q \in U : AncestorsOf(q, parent2) # AncestorsOf(q, parent)}
<1>1. ASSUME NEW q \in Bad PROVE \E r \in Bad : r < q
  <2>1. q \in Pids
    OBVIOUS
  <2>2. /\ AncestorsOf(q, parent) =
             {q} \union (IF q = Swapper THEN {} ELSE AncestorsOf(parent[q], parent))
        /\ AncestorsOf(q, parent2) =
             {q} \union (IF q = Swapper THEN {} ELSE AncestorsOf(parent2[q], parent2))
    BY <2>1, Ancestors
  <2>3. q # Swapper
    BY <2>2
  <2>4. parent[q] \in U /\ parent2[q] = parent[q] /\ parent[q] < q
    BY <2>1, <2>3 DEF Falls
  <2> QED
    BY <2>2, <2>4
<1>2. Bad \subseteq Pids
  OBVIOUS
<1> HIDE DEF Bad
<1>3. Bad = {}
  BY <1>1, <1>2, NoFirst
<1> QED
  BY <1>3 DEF Bad

(* Some parents are replaced by init.  A process other than init that is   *)
(* an ancestor of p after that, and was one of q on the way up from p, is  *)
(* above q still, and q above p.                                           *)
LEMMA AncestorsCut ==
  ASSUME NEW parent, NEW parent2, Falls(parent), Falls(parent2),
         \A r \in Pids : parent2[r] \in {parent[r], init_pid},
         parent2[Swapper] = parent[Swapper],
         NEW p \in Pids, NEW q \in AncestorsOf(p, parent),
         NEW a \in AncestorsOf(q, parent) \ {q, Swapper, init_pid},
         a \in AncestorsOf(p, parent2)
  PROVE  q \in AncestorsOf(p, parent2) /\ a \in AncestorsOf(q, parent2)
<1> DEFINE Bad == {r \in Pids :
             /\ q \in AncestorsOf(r, parent)
             /\ a \in AncestorsOf(r, parent2)
             /\ ~ (q \in AncestorsOf(r, parent2) /\ a \in AncestorsOf(q, parent2))}
<1>1. AncestorsOf(init_pid, parent2) \subseteq {Swapper, init_pid}
  BY PidsAre, AncestorsBefore
<1>2. p \in Pids /\ q \in Pids /\ q \in Nat /\ a \in Nat /\ a < q
  <2>1. AncestorsOf(p, parent) \subseteq 0 .. p /\ p \in Nat
    BY PidsAre, AncestorsBefore
  <2>2. q \in Nat /\ q \in Pids
    BY <2>1, PidsAre
  <2>3. AncestorsOf(q, parent) \subseteq 0 .. q
    BY <2>2, AncestorsBefore
  <2> QED
    BY <2>2, <2>3
<1>3. ASSUME NEW r \in Bad PROVE \E s \in Bad : s < r
  <2>1. /\ AncestorsOf(r, parent) =
             {r} \union (IF r = Swapper THEN {} ELSE AncestorsOf(parent[r], parent))
        /\ AncestorsOf(r, parent2) =
             {r} \union (IF r = Swapper THEN {} ELSE AncestorsOf(parent2[r], parent2))
    BY Ancestors
  <2>2. r # q
    BY <2>1
  <2>3. AncestorsOf(r, parent) \subseteq 0 .. r /\ r \in Nat
    BY PidsAre, AncestorsBefore
  <2>4. q < r /\ r # Swapper
    BY <2>2, <2>3, <1>2, PidsAre
  <2>5. a \in AncestorsOf(parent2[r], parent2)
    BY <2>1, <2>3, <2>4, <1>2
  <2>6. parent2[r] # init_pid
    BY <2>5, <1>1
  <2>7. parent2[r] = parent[r] /\ parent[r] \in Pids /\ parent[r] < r
    BY <2>4, <2>6 DEF Falls
  <2>8. q \in AncestorsOf(parent[r], parent)
    BY <2>1, <2>2, <2>4
  <2> QED
    BY <2>1, <2>4, <2>5, <2>7, <2>8
<1> HIDE DEF Bad
<1>4. Bad = {}
  BY <1>3, NoFirst DEF Bad
<1> QED
  BY <1>2, <1>4 DEF Bad

-----------------------------------------------------------------------------
(* Types, and the shape of the tree.                                       *)

(* Processes that there were, those that have been released included. *)
Used == {p \in Pids : state[p] # "unused"}

(* Pids are used in order, and the parent of a process or of a listed child came before it. *)
Rooted ==
  /\ Falls(real_parent)
  /\ real_parent[Swapper] = Swapper
  /\ {Swapper, init_pid} \subseteq Used
  /\ \A p \in Pids : real_parent[p] \in Used
  /\ \A p, q \in Pids : p < q /\ q \in Used => p \in Used
  /\ \A p \in Pids : \A q \in Members(p) : p < q

(* The walk down stands at a process. *)
Somewhere == call.name = "sum" => call.path # <<>>

Shape == TypeOK /\ Rooted /\ Somewhere

SumCalls == [name : {"sum"}, caller : Pids, path : Seq(Pids), down : BOOLEAN, total : Nat]
HeaviestCalls ==
  [name : {"heaviest"}, caller : Pids, current_task : Pids, max_pid : Pids,
   max_weight : Values]
FoundCalls == [name : {"found"}, caller : Pids, max_pid : Pids, max_weight : Values]

LEMMA CallsAre ==
  /\ \A c \in Calls :
       /\ c.name = "sum" => c \in SumCalls
       /\ c.name = "heaviest" => c \in HeaviestCalls
       /\ c.name = "found" => c \in FoundCalls
       /\ c.name \in {"none", "sum", "summed", "heaviest", "found", "childless", "lost"}
       /\ c.name \in {"sum", "summed", "lost", "heaviest", "found"} => c.caller \in Pids
  /\ SumCalls \subseteq Calls /\ HeaviestCalls \subseteq Calls /\ FoundCalls \subseteq Calls
  /\ Idle \in Calls /\ Idle.name = "none"
  /\ \A p \in Pids :
       /\ [name |-> "childless", caller |-> p] \in Calls
       /\ [name |-> "lost", caller |-> p] \in Calls
       /\ \A t \in Nat : [name |-> "summed", caller |-> p, total |-> t] \in Calls
BY DEF Calls, Idle, SumCalls, HeaviestCalls, FoundCalls

LEMMA ValuesAre == Values \subseteq Nat /\ 0 \in Values
<1>1. \A w \in Weights : w \in Int
  BY WeightsAssumption
<1>2. \A w \in Values : w \in Nat
  BY <1>1 DEF Values
<1> QED
  BY <1>2 DEF Values

LEMMA ChildAt ==
  ASSUME TypeOK, NEW p \in Pids
  PROVE  /\ children[p] \in Seq(Pids)
         /\ \A i \in 1 .. Len(children[p]) : children[p][i] \in Members(p)
         /\ Members(p) = {children[p][i] : i \in 1 .. Len(children[p])}
         /\ Members(p) \subseteq Pids
         /\ DOMAIN children[p] = 1 .. Len(children[p])
         /\ Len(children[p]) \in Nat
<1>1. children[p] \in Seq(Pids)
  BY DEF TypeOK
<1>2. \A i \in 1 .. Len(children[p]) : children[p][i] \in Pids
  BY <1>1, ElementOfSeq
<1>3. DOMAIN children[p] = 1 .. Len(children[p]) /\ Len(children[p]) \in Nat
  BY <1>1
<1> QED
  BY <1>1, <1>2, <1>3 DEF Members, ToSet

(* Processes listed before or after a change of one list. *)
LEMMA AppendMembers ==
  ASSUME NEW s \in Seq(Pids), NEW t \in Seq(Pids)
  PROVE  s \o t \in Seq(Pids) /\ ToSet(s \o t) = ToSet(s) \union ToSet(t)
<1>1. /\ s \o t \in Seq(Pids)
      /\ Len(s \o t) = Len(s) + Len(t)
      /\ \A i \in 1 .. Len(s) + Len(t) :
           (s \o t)[i] = IF i <= Len(s) THEN s[i] ELSE t[i - Len(s)]
  BY ConcatProperties
<1>2. /\ Len(s) \in Nat /\ Len(t) \in Nat
      /\ DOMAIN s = 1 .. Len(s) /\ DOMAIN t = 1 .. Len(t)
      /\ DOMAIN (s \o t) = 1 .. Len(s) + Len(t)
  BY <1>1
<1> DEFINE u == s \o t
<1> HIDE DEF u
<1>3. ASSUME NEW e PROVE e \in ToSet(u) <=> e \in ToSet(s) \union ToSet(t)
  <2>1. ASSUME NEW i \in 1 .. Len(s) PROVE i \in DOMAIN u /\ u[i] = s[i]
    BY <1>1, <1>2 DEF u
  <2>2. ASSUME NEW i \in 1 .. Len(t) PROVE Len(s) + i \in DOMAIN u /\ u[Len(s) + i] = t[i]
    <3> DEFINE j == Len(s) + i
    <3>1. j \in 1 .. Len(s) + Len(t) /\ ~ (j <= Len(s)) /\ j - Len(s) = i
      BY <1>2
    <3> HIDE DEF j
    <3> QED
      BY <1>1, <1>2, <3>1 DEF u, j
  <2>3. ASSUME NEW i \in DOMAIN u PROVE u[i] \in ToSet(s) \union ToSet(t)
    <3>1. i \in 1 .. Len(s) + Len(t)
      BY <1>2 DEF u
    <3>2. CASE i <= Len(s)
      BY <1>1, <1>2, <3>1, <3>2 DEF u, ToSet
    <3>3. CASE ~ (i <= Len(s))
      <4>1. i - Len(s) \in 1 .. Len(t)
        BY <1>2, <3>1, <3>3
      <4> QED
        BY <1>1, <1>2, <3>1, <3>3, <4>1 DEF u, ToSet
    <3> QED
      BY <3>2, <3>3
  <2> QED
    BY <1>2, <2>1, <2>2, <2>3 DEF ToSet
<1> QED
  BY <1>1, <1>3 DEF u

LEMMA RemoveMembers ==
  ASSUME NEW s \in Seq(Pids), NEW i \in DOMAIN s
  PROVE  RemoveAt(s, i) \in Seq(Pids) /\ ToSet(RemoveAt(s, i)) \subseteq ToSet(s)
<1> DEFINE a == SubSeq(s, 1, i - 1)
           b == SubSeq(s, i + 1, Len(s))
<1>1. /\ Len(s) \in Nat /\ DOMAIN s = 1 .. Len(s) /\ i \in Int
      /\ \A k \in 1 .. Len(s) : s[k] \in Pids
  BY ElementOfSeq
<1>2. /\ a \in Seq(Pids)
      /\ Len(a) = i - 1
      /\ \A k \in 1 .. i - 1 : a[k] = s[k]
  BY <1>1, SubSeqProperties
<1>3. /\ b \in Seq(Pids)
      /\ Len(b) = Len(s) - i
      /\ \A k \in 1 .. Len(s) - i : b[k] = s[k + i]
  BY <1>1, SubSeqProperties
<1>4. RemoveAt(s, i) = a \o b
  BY DEF RemoveAt
<1> HIDE DEF a, b
<1>5. a \o b \in Seq(Pids) /\ ToSet(a \o b) = ToSet(a) \union ToSet(b)
  BY <1>2, <1>3, AppendMembers
<1>6. ToSet(a) \subseteq ToSet(s)
  BY <1>1, <1>2 DEF ToSet
<1>7. ToSet(b) \subseteq ToSet(s)
  <2>1. DOMAIN b = 1 .. Len(s) - i
    BY <1>3
  <2>2. \A k \in 1 .. Len(s) - i : k + i \in DOMAIN s
    BY <1>1
  <2> QED
    BY <1>3, <2>1, <2>2 DEF ToSet
<1> QED
  BY <1>4, <1>5, <1>6, <1>7

(* What changes of the history keep its types. *)
LEMMA HistoryType ==
  ASSUME TypeOK, NEW unlinked \in BOOLEAN, Observe(unlinked)
  PROVE  kept' \subseteq kept /\ kept' \subseteq Pids /\ disturbed' \in BOOLEAN
BY DEF TypeOK, Observe

LEMMA SeenType ==
  ASSUME TypeOK, NEW p \in Pids, NEW w \in Values, ObserveWeight(p, w)
  PROVE  seen' \subseteq Pids \X Values
BY DEF TypeOK, ObserveWeight

LEMMA RelativesType ==
  ASSUME Falls(real_parent), NEW name, NEW p \in Pids
  PROVE  Relatives(name, p, real_parent, children) \subseteq Pids
<1>1. AncestorsOf(p, real_parent) \subseteq 0 .. p /\ p \in 0 .. MaxPid /\ MaxPid \in Nat
  BY AncestorsBefore, PidsAre
<1>2. 0 .. p \subseteq Pids
  BY <1>1, PidsAre
<1> QED
  BY <1>1, <1>2 DEF Relatives, DescendantsOf

LEMMA InitShape == Init => Shape
<1> SUFFICES ASSUME Init PROVE Shape
  OBVIOUS
<1>1. TypeOK
  <2>1. <<init_pid>> \in Seq(Pids) /\ <<>> \in Seq(Pids)
    <3>1. init_pid \in Pids
      BY PidsAre
    <3> HIDE DEF Pids
    <3> QED
      BY <3>1
  <2>2. children \in [Pids -> Seq(Pids)]
    BY <2>1 DEF Init
  <2>3. /\ state \in [Pids -> {"unused", "alive", "zombie", "released"}]
        /\ real_parent \in [Pids -> Pids]
        /\ weight \in [Pids -> Values]
    BY PidsAre, ValuesAre DEF Init
  <2> QED
    BY <2>2, <2>3, CallsAre DEF Init, TypeOK
<1>2. \A p \in Pids : Members(p) = IF p = Swapper THEN {init_pid} ELSE {}
  BY PidsAre DEF Init, Members, ToSet
<1>3. Rooted
  BY <1>2, PidsAre DEF Init, Rooted, Falls, Used
<1> QED
  BY <1>1, <1>3, CallsAre DEF Init, Shape, Somewhere

-----------------------------------------------------------------------------
(* Each step keeps the types and the shape of the tree.                    *)

(* A tree of which only lists have changed, whose members came later than  *)
(* the process of the list, and states of processes that are used.         *)
LEMMA SameParents ==
  ASSUME Rooted, real_parent' = real_parent, Used' = Used,
         \A p \in Pids : \A q \in Members(p)' : p < q
  PROVE  Rooted'
BY DEF Rooted, Falls

LEMMA SameTree ==
  ASSUME Rooted, UNCHANGED tree
  PROVE  Rooted'
BY DEF Rooted, Falls, Used, Members, tree

LEMMA ForkShape ==
  ASSUME Shape, NEW p \in Pids, Fork(p)
  PROVE  Shape'
<1>1. PICK c \in Pids :
        /\ Alive(p) /\ p # Swapper
        /\ state[c] = "unused" /\ \A q \in Pids : q < c => state[q] # "unused"
        /\ state' = [state EXCEPT ![c] = "alive"]
        /\ real_parent' = [real_parent EXCEPT ![c] = p]
        /\ children' = [children EXCEPT ![p] = Append(@, c)]
        /\ weight' = [weight EXCEPT ![c] = weight[p]]
        /\ ObserveWeight(c, weight[p])
        /\ Observe(FALSE)
        /\ UNCHANGED call
  BY DEF Fork
<1>2. TypeOK /\ Rooted /\ Somewhere
  BY DEF Shape
<1>3. c \in Nat /\ p \in Nat /\ p < c /\ c \notin Used /\ p \in Used
  <2>1. c \notin Used /\ p \in Used
    BY <1>1, PidsAre DEF Used, Alive
  <2>2. ~ (c < p)
    BY <1>2, <2>1 DEF Rooted
  <2> QED
    BY <2>1, <2>2, PidsAre
<1>4. TypeOK'
  <2>1. Append(children[p], c) \in Seq(Pids)
    BY <1>2 DEF TypeOK
  <2>2. /\ state' \in [Pids -> {"unused", "alive", "zombie", "released"}]
        /\ real_parent' \in [Pids -> Pids]
        /\ children' \in [Pids -> Seq(Pids)]
        /\ weight' \in [Pids -> Values]
        /\ weight[p] \in Values
    BY <1>1, <1>2, <2>1 DEF TypeOK
  <2>3. kept' \subseteq Pids /\ disturbed' \in BOOLEAN
    BY <1>1, <1>2, HistoryType
  <2>4. seen' \subseteq Pids \X Values
    BY <1>1, <1>2, <2>2, SeenType
  <2>5. call' \in Calls
    BY <1>1, <1>2 DEF TypeOK
  <2> QED
    BY <2>2, <2>3, <2>4, <2>5 DEF TypeOK
<1>5. Used' = Used \union {c}
  BY <1>1, <1>2 DEF Used, TypeOK
<1>6. \A q \in Pids : Members(q)' = IF q = p THEN Members(p) \union {c} ELSE Members(q)
  <2>1. children[p] \in Seq(Pids) /\ <<c>> \in Seq(Pids)
    BY <1>2 DEF TypeOK
  <2>2. children'[p] = children[p] \o <<c>>
    BY <1>1, <1>2, <2>1 DEF TypeOK
  <2>3. ToSet(children[p] \o <<c>>) = ToSet(children[p]) \union ToSet(<<c>>)
    BY <2>1, AppendMembers
  <2>4. ToSet(<<c>>) = {c}
    BY DEF ToSet
  <2>5. \A q \in Pids \ {p} : children'[q] = children[q]
    BY <1>1, <1>2 DEF TypeOK
  <2> QED
    BY <2>2, <2>3, <2>4, <2>5 DEF Members
<1>7. Rooted'
  <2>1. Falls(real_parent)'
    BY <1>1, <1>2, <1>3, PidsAre DEF Rooted, Falls
  <2>2. real_parent'[Swapper] = Swapper
    BY <1>1, <1>2, <1>3, PidsAre DEF Rooted, TypeOK
  <2>3. {Swapper, init_pid} \subseteq Used'
    BY <1>2, <1>5 DEF Rooted
  <2>4. \A q \in Pids : real_parent'[q] \in Used'
    BY <1>1, <1>2, <1>3, <1>5 DEF Rooted, TypeOK
  <2>5. \A q, r \in Pids : q < r /\ r \in Used' => q \in Used'
    <3>1. \A q \in Pids : q < c => q \in Used
      BY <1>1 DEF Used
    <3> QED
      BY <1>2, <1>5, <3>1 DEF Rooted
  <2>6. \A q \in Pids : \A r \in Members(q)' : q < r
    BY <1>2, <1>3, <1>6 DEF Rooted
  <2> QED
    BY <2>1, <2>2, <2>3, <2>4, <2>5, <2>6 DEF Rooted
<1>8. Somewhere'
  BY <1>1, <1>2 DEF Somewhere
<1> QED
  BY <1>4, <1>7, <1>8 DEF Shape

LEMMA ExitShape ==
  ASSUME Shape, NEW p \in Pids, Exit(p)
  PROVE  Shape'
<1>1. TypeOK /\ Rooted /\ Somewhere
  BY DEF Shape
<1>2. /\ Alive(p) /\ p > init_pid
      /\ state' = [state EXCEPT ![p] = "zombie"]
      /\ real_parent' = [q \in Pids |-> IF q \in Members(p) THEN init_pid ELSE real_parent[q]]
      /\ children' = [children EXCEPT ![p] = <<>>, ![init_pid] = @ \o children[p]]
      /\ Observe(children[p] # <<>>)
      /\ UNCHANGED <<weight, call, seen>>
  BY DEF Exit
<1>3. p # init_pid /\ p # Swapper /\ init_pid \in Pids /\ Swapper \in Pids
  BY <1>2, PidsAre
<1>4. /\ children[init_pid] \o children[p] \in Seq(Pids)
      /\ ToSet(children[init_pid] \o children[p]) = Members(init_pid) \union Members(p)
  BY <1>1, <1>3, AppendMembers DEF TypeOK, Members
<1>5. /\ children'[p] = <<>>
      /\ children'[init_pid] = children[init_pid] \o children[p]
      /\ \A q \in Pids \ {p, init_pid} : children'[q] = children[q]
      /\ DOMAIN children' = Pids /\ children' = [q \in Pids |-> children'[q]]
  BY <1>1, <1>2, <1>3 DEF TypeOK
<1>6. TypeOK'
  <2>1. /\ state' \in [Pids -> {"unused", "alive", "zombie", "released"}]
        /\ real_parent' \in [Pids -> Pids]
        /\ weight' \in [Pids -> Values]
        /\ call' \in Calls /\ seen' \subseteq Pids \X Values
    BY <1>1, <1>2, <1>3 DEF TypeOK
  <2>2. ASSUME NEW q \in Pids PROVE children'[q] \in Seq(Pids)
    <3>1. children'[p] \in Seq(Pids)
      BY <1>5
    <3>2. children[q] \in Seq(Pids)
      BY <1>1 DEF TypeOK
    <3> QED
      BY <1>4, <1>5, <3>1, <3>2
  <2>3. children' \in [Pids -> Seq(Pids)]
    BY <1>5, <2>2
  <2>4. kept' \subseteq Pids /\ disturbed' \in BOOLEAN
    BY <1>1, <1>2, HistoryType
  <2> QED
    BY <2>1, <2>3, <2>4 DEF TypeOK
<1>7. Used' = Used
  <2>1. state[p] # "unused"
    BY <1>2 DEF Alive
  <2> QED
    BY <1>1, <1>2, <2>1 DEF Used, TypeOK
<1>8. \A q \in Members(p) : q \in Pids /\ init_pid < q /\ q # Swapper
  BY <1>1, <1>2, ChildAt, PidsAre DEF Rooted
<1>9. Rooted'
  <2>1. Falls(real_parent)'
    BY <1>1, <1>2, <1>3, <1>8, PidsAre DEF Rooted, Falls
  <2>2. real_parent'[Swapper] = Swapper
    BY <1>1, <1>2, <1>3, <1>8 DEF Rooted
  <2>3. \A q \in Pids : real_parent'[q] \in Used'
    BY <1>1, <1>2, <1>7 DEF Rooted
  <2>4. ASSUME NEW q \in Pids, NEW r \in Members(q)' PROVE q < r
    <3>1. CASE q = p
      BY <1>5, <3>1 DEF Members, ToSet
    <3>2. CASE q = init_pid
      <4>1. r \in Members(init_pid) \union Members(p)
        BY <1>4, <1>5, <3>2 DEF Members
      <4> QED
        BY <1>1, <1>3, <1>8, <3>2, <4>1 DEF Rooted
    <3>3. CASE q \notin {p, init_pid}
      BY <1>1, <1>5, <3>3 DEF Rooted, Members
    <3> QED
      BY <3>1, <3>2, <3>3
  <2> QED
    BY <1>1, <1>7, <2>1, <2>2, <2>3, <2>4 DEF Rooted
<1>10. Somewhere'
  BY <1>1, <1>2 DEF Somewhere
<1> QED
  BY <1>6, <1>9, <1>10 DEF Shape

LEMMA WaitShape ==
  ASSUME Shape, NEW p \in Pids, Wait(p)
  PROVE  Shape'
<1>1. TypeOK /\ Rooted /\ Somewhere
  BY DEF Shape
<1>2. PICK i \in DOMAIN children[p] :
        /\ Alive(p) /\ state[children[p][i]] = "zombie"
        /\ state' = [state EXCEPT ![children[p][i]] = "released"]
        /\ children' = [children EXCEPT ![p] = RemoveAt(@, i)]
        /\ UNCHANGED <<real_parent, weight, call, seen>>
        /\ Observe(TRUE)
  BY DEF Wait
<1>3. /\ children[p] \in Seq(Pids)
      /\ children[p][i] \in Pids
  BY <1>1, ChildAt
<1>4. /\ RemoveAt(children[p], i) \in Seq(Pids)
      /\ ToSet(RemoveAt(children[p], i)) \subseteq ToSet(children[p])
  BY <1>3, RemoveMembers
<1>5. TypeOK'
  <2>1. /\ state' \in [Pids -> {"unused", "alive", "zombie", "released"}]
        /\ real_parent' \in [Pids -> Pids]
        /\ children' \in [Pids -> Seq(Pids)]
        /\ weight' \in [Pids -> Values]
        /\ call' \in Calls /\ seen' \subseteq Pids \X Values
    BY <1>1, <1>2, <1>3, <1>4 DEF TypeOK
  <2>2. kept' \subseteq Pids /\ disturbed' \in BOOLEAN
    BY <1>1, <1>2, HistoryType
  <2> QED
    BY <2>1, <2>2 DEF TypeOK
<1>6. Used' = Used
  BY <1>1, <1>2, <1>3 DEF Used, TypeOK
<1>7. \A q \in Pids : Members(q)' \subseteq Members(q)
  BY <1>1, <1>2, <1>4 DEF Members, TypeOK
<1>8. Rooted'
  BY <1>1, <1>2, <1>6, <1>7, SameParents DEF Rooted
<1>9. Somewhere'
  BY <1>1, <1>2 DEF Somewhere
<1> QED
  BY <1>5, <1>8, <1>9 DEF Shape

LEMMA SetWeightShape ==
  ASSUME Shape, NEW p \in Pids, NEW w \in Weights, sys_set_weight(p, w)
  PROVE  Shape'
<1>1. TypeOK /\ Rooted /\ Somewhere
  BY DEF Shape
<1>2. w \in Values
  BY DEF sys_set_weight, Values
<1>3. TypeOK'
  <2>1. seen' \subseteq Pids \X Values
    BY <1>1, <1>2, SeenType DEF sys_set_weight
  <2> QED
    BY <1>1, <1>2, <2>1 DEF sys_set_weight, TypeOK, tree
<1>4. Rooted' /\ Somewhere'
  BY <1>1, SameTree DEF sys_set_weight, Somewhere
<1> QED
  BY <1>3, <1>4 DEF Shape

(* A call begins. *)
LEMMA BeginShape ==
  ASSUME Shape, NEW p \in Pids, NEW c \in Calls, Begin(p, c),
         c.name = "sum" => c.path # <<>>
  PROVE  Shape'
<1>1. TypeOK /\ Rooted /\ Falls(real_parent)
  BY DEF Shape, Rooted
<1>2. kept' \subseteq Pids
  BY <1>1, RelativesType DEF Begin
<1>3. seen' \subseteq Pids \X Values
  BY <1>1 DEF Begin, TypeOK
<1>4. TypeOK'
  BY <1>1, <1>2, <1>3 DEF Begin, TypeOK, tree
<1>5. Rooted' /\ Somewhere'
  BY <1>1, SameTree DEF Begin, Somewhere
<1> QED
  BY <1>4, <1>5 DEF Shape

(* A call goes on or returns. *)
LEMMA GoOnShape ==
  ASSUME Shape, UNCHANGED <<tree, weight, history>>, call' \in Calls,
         call'.name = "sum" => call'.path # <<>>
  PROVE  Shape'
<1>1. TypeOK /\ Rooted
  BY DEF Shape
<1>2. TypeOK'
  BY <1>1 DEF TypeOK, tree, history
<1>3. Rooted' /\ Somewhere'
  BY <1>1, SameTree DEF Somewhere
<1> QED
  BY <1>2, <1>3 DEF Shape

LEMMA SumShape ==
  ASSUME Shape, NEW p \in Pids, sys_get_children_sum(p)
  PROVE  Shape'
<1> DEFINE c == [name |-> "sum", caller |-> p, path |-> <<Head(children[p])>>,
                 down |-> TRUE, total |-> 0]
<1>1. children[p] \in Seq(Pids) /\ children[p] # <<>>
  BY DEF sys_get_children_sum, Shape, TypeOK
<1>2. Head(children[p]) \in Pids
  BY <1>1, HeadTailProperties
<1>3. <<Head(children[p])>> \in Seq(Pids) /\ <<Head(children[p])>> # <<>>
  BY <1>2
<1>4. c \in Calls
  BY <1>3, CallsAre DEF SumCalls
<1>5. Begin(p, c) /\ c.path # <<>>
  BY <1>3 DEF sys_get_children_sum
<1> HIDE DEF c
<1> QED
  BY <1>4, <1>5, BeginShape

LEMMA HeaviestShape ==
  ASSUME Shape, NEW p \in Pids, sys_get_heaviest_ancestor(p)
  PROVE  Shape'
<1> DEFINE c == [name |-> "heaviest", caller |-> p, current_task |-> p,
                 max_pid |-> p, max_weight |-> weight[p]]
<1>1. c \in HeaviestCalls
  BY DEF Shape, TypeOK, HeaviestCalls
<1>2. c \in Calls /\ c.name # "sum"
  BY <1>1, CallsAre
<1>3. Begin(p, c)
  BY DEF sys_get_heaviest_ancestor
<1> HIDE DEF c
<1> QED
  BY <1>2, <1>3, BeginShape

LEMMA NoChildrenShape ==
  ASSUME Shape, NEW p \in Pids, NoChildren(p)
  PROVE  Shape'
<1>1. call' \in Calls /\ call'.name # "sum" /\ UNCHANGED <<tree, weight, history>>
  BY CallsAre DEF NoChildren
<1> QED
  BY <1>1, GoOnShape

(* The place of a walk down. *)
LEMMA PathAt ==
  ASSUME Shape, call.name = "sum"
  PROVE  /\ call \in SumCalls
         /\ call.path \in Seq(Pids) /\ Len(call.path) \in Nat \ {0}
         /\ \A i \in 1 .. Len(call.path) : call.path[i] \in Pids
         /\ Last(call.path) \in Pids
         /\ Front(call.path) \in Seq(Pids)
         /\ Len(Front(call.path)) = Len(call.path) - 1
         /\ \A i \in 1 .. Len(call.path) - 1 : Front(call.path)[i] = call.path[i]
         /\ Father \in Pids
<1>1. call \in SumCalls /\ call.path # <<>>
  BY CallsAre DEF Shape, TypeOK, Somewhere
<1> DEFINE s == call.path
<1>2. s \in Seq(Pids) /\ call.caller \in Pids
  BY <1>1 DEF SumCalls
<1>3. Len(s) \in Nat \ {0}
  BY <1>1, <1>2
<1>4. \A i \in 1 .. Len(s) : s[i] \in Pids
  BY <1>2, ElementOfSeq
<1> HIDE DEF s
<1>5. SubSeq(s, 1, Len(s) - 1) \in Seq(Pids)
      /\ Len(SubSeq(s, 1, Len(s) - 1)) = Len(s) - 1
      /\ \A i \in 1 .. Len(s) - 1 : SubSeq(s, 1, Len(s) - 1)[i] = s[i]
  BY <1>3, <1>4, SubSeqProperties
<1>6. Father \in Pids
  <2>1. Father = IF Len(s) = 1 THEN call.caller ELSE s[Len(s) - 1]
    BY DEF Father, s
  <2>2. Len(s) # 1 => Len(s) - 1 \in 1 .. Len(s)
    <3>1. \A n \in Nat \ {0} : n # 1 => n - 1 \in 1 .. n
      OBVIOUS
    <3> QED
      BY <1>3, <3>1, Zenon
  <2> QED
    BY <1>2, <1>4, <2>1, <2>2
<1> QED
  BY <1>1, <1>2, <1>3, <1>4, <1>5, <1>6 DEF s, Last, Front

LEMMA SumDownShape ==
  ASSUME Shape, SumDown
  PROVE  Shape'
<1> DEFINE first == children[Last(call.path)]
<1>1. call.name = "sum" /\ UNCHANGED <<tree, weight, history>>
  BY DEF SumDown
<1>2. call \in SumCalls /\ call.path \in Seq(Pids) /\ call.path # <<>> /\ Last(call.path) \in Pids
  BY <1>1, PathAt
<1>3. first \in Seq(Pids)
  BY <1>2 DEF Shape, TypeOK
<1>4. call' \in SumCalls /\ call'.path # <<>>
  <2>1. CASE first = <<>>
    <3>1. call' = [call EXCEPT !.down = FALSE]
      BY <2>1 DEF SumDown
    <3> QED
      BY <1>2, <3>1 DEF SumCalls
  <2>2. CASE first # <<>>
    <3>1. call' = [call EXCEPT !.path = Append(@, Head(first))]
      BY <2>2 DEF SumDown
    <3>2. Head(first) \in Pids
      BY <1>3, <2>2, HeadTailProperties
    <3> HIDE DEF first
    <3>3. Append(call.path, Head(first)) \in Seq(Pids) /\ Append(call.path, Head(first)) # <<>>
      BY <1>2, <3>2
    <3> QED
      BY <1>2, <3>1, <3>3 DEF SumCalls
  <2> QED
    BY <2>1, <2>2
<1> QED
  BY <1>1, <1>4, GoOnShape, CallsAre

LEMMA NextPosIs ==
  ASSUME NEW s \in Seq(Pids), NEW q
  PROVE  NextPos(s, q) \in Nat \ {0}
<1> DEFINE I == {i \in 1 .. Len(s) : s[i] = q}
<1>1. SelectInSeq(s, LAMBDA e : e = q) = IF I # {} THEN Min(I) ELSE 0
  BY DEF SelectInSeq
<1>2. I \subseteq Nat
  OBVIOUS
<1> HIDE DEF I
<1>3. I # {} => Min(I) \in Nat
  BY <1>2, MinNat
<1> QED
  BY <1>1, <1>3 DEF NextPos

LEMMA SumUpShape ==
  ASSUME Shape, SumUp
  PROVE  Shape'
<1> DEFINE siblings == children[Father]
           task == Last(call.path)
           next == NextPos(siblings, task)
<1>1. call.name = "sum" /\ UNCHANGED <<tree, weight, history>>
  BY DEF SumUp
<1>2. /\ call \in SumCalls
      /\ Len(call.path) \in Nat \ {0} /\ task \in Pids
      /\ Front(call.path) \in Seq(Pids) /\ Len(Front(call.path)) = Len(call.path) - 1
      /\ Father \in Pids
  BY <1>1, PathAt
<1>3. siblings \in Seq(Pids) /\ next \in Nat \ {0}
  BY <1>2, NextPosIs DEF Shape, TypeOK
<1>4. Added \in Nat
  <2>1. weight[task] \in Nat
    BY <1>2, ValuesAre DEF Shape, TypeOK
  <2>2. call.total \in Nat
    BY <1>2 DEF SumCalls
  <2> QED
    BY <2>1, <2>2 DEF Added
<1>5. call' = IF next <= Len(siblings)
                THEN [call EXCEPT !.path = Append(Front(@), siblings[next]),
                                  !.down = TRUE, !.total = Added]
              ELSE IF Len(call.path) = 1
                THEN [name |-> "summed", caller |-> call.caller, total |-> Added]
              ELSE [call EXCEPT !.path = Front(@), !.total = Added]
  BY DEF SumUp
<1> HIDE DEF siblings, next
<1>6. call' \in Calls /\ (call'.name = "sum" => call'.path # <<>>)
  <2>1. CASE next <= Len(siblings)
    <3>1. siblings[next] \in Pids
      BY <1>3, <2>1, ElementOfSeq
    <3>2. Append(Front(call.path), siblings[next]) \in Seq(Pids)
          /\ Append(Front(call.path), siblings[next]) # <<>>
      BY <1>2, <3>1
    <3>3. call' = [call EXCEPT !.path = Append(Front(@), siblings[next]),
                               !.down = TRUE, !.total = Added]
      BY <1>5, <2>1
    <3>4. call' \in SumCalls /\ call'.path # <<>>
      BY <1>2, <1>4, <3>2, <3>3 DEF SumCalls
    <3> QED
      BY <3>4, CallsAre
  <2>2. CASE ~ (next <= Len(siblings)) /\ Len(call.path) = 1
    <3>1. call' = [name |-> "summed", caller |-> call.caller, total |-> Added]
      BY <1>5, <2>2
    <3>2. call.caller \in Pids
      BY <1>2 DEF SumCalls
    <3> QED
      BY <1>4, <3>1, <3>2, CallsAre
  <2>3. CASE ~ (next <= Len(siblings)) /\ Len(call.path) # 1
    <3>1. call' = [call EXCEPT !.path = Front(@), !.total = Added]
      BY <1>5, <2>3
    <3>2. Front(call.path) # <<>>
      <4>1. Len(Front(call.path)) # 0
        BY <1>2, <2>3
      <4> QED
        BY <4>1
    <3>3. call' \in SumCalls /\ call'.path # <<>>
      BY <1>2, <1>4, <3>1, <3>2 DEF SumCalls
    <3> QED
      BY <3>3, CallsAre
  <2> QED
    BY <2>1, <2>2, <2>3
<1> QED
  BY <1>1, <1>6, GoOnShape

LEMMA SumLostShape ==
  ASSUME Shape, SumLost
  PROVE  Shape'
<1>1. call.name = "sum" /\ call' = [name |-> "lost", caller |-> call.caller]
      /\ UNCHANGED <<tree, weight, history>>
  BY DEF SumLost
<1>2. call.caller \in Pids
  BY <1>1, PathAt DEF SumCalls
<1>3. call' \in Calls /\ call'.name # "sum"
  BY <1>1, <1>2, CallsAre
<1> QED
  BY <1>1, <1>3, GoOnShape

(* What a turn of the loop of get_heaviest_ancestor yields. *)
Turned(task, max_pid, max_weight) ==
  /\ task = real_parent[call.current_task]
  /\ \/ /\ weight[task] > call.max_weight
        /\ max_pid = task /\ max_weight = weight[task]
     \/ /\ weight[task] <= call.max_weight
        /\ max_pid = call.max_pid /\ max_weight = call.max_weight
  /\ \/ /\ task = init_pid
        /\ call' = [name |-> "found", caller |-> call.caller,
                    max_pid |-> max_pid, max_weight |-> max_weight]
     \/ /\ task # init_pid
        /\ call' = [call EXCEPT !.current_task = task, !.max_pid = max_pid,
                                !.max_weight = max_weight]

LEMMA ClimbTurns ==
  ASSUME Shape, Climb
  PROVE  /\ call \in HeaviestCalls
         /\ UNCHANGED <<tree, weight, history>>
         /\ \E task \in Pids, max_pid \in Pids, max_weight \in Values :
              Turned(task, max_pid, max_weight)
<1> DEFINE task == real_parent[call.current_task]
           heavier == IsHeavier(weight[task], call.max_weight)
           max_pid == IF heavier THEN task ELSE call.max_pid
           max_weight == IF heavier THEN weight[task] ELSE call.max_weight
<1>1. call \in HeaviestCalls /\ UNCHANGED <<tree, weight, history>>
  BY CallsAre DEF Climb, Shape, TypeOK
<1>2. call.current_task \in Pids /\ call.max_pid \in Pids /\ call.max_weight \in Values
  BY <1>1 DEF HeaviestCalls
<1>3. task \in Pids /\ weight[task] \in Values
  BY <1>2 DEF Shape, TypeOK
<1>4. max_pid \in Pids /\ max_weight \in Values
  BY <1>2, <1>3
<1>5. call' = IF IsInit(task)
                THEN [name |-> "found", caller |-> call.caller,
                      max_pid |-> max_pid, max_weight |-> max_weight]
              ELSE [call EXCEPT !.current_task = task, !.max_pid = max_pid,
                                !.max_weight = max_weight]
  BY DEF Climb
<1>6. \/ /\ weight[task] > call.max_weight
         /\ max_pid = task /\ max_weight = weight[task]
      \/ /\ weight[task] <= call.max_weight
         /\ max_pid = call.max_pid /\ max_weight = call.max_weight
  <2>1. weight[task] \in Nat /\ call.max_weight \in Nat
    BY <1>2, <1>3, ValuesAre
  <2> QED
    BY <2>1 DEF IsHeavier
<1> HIDE DEF max_pid, max_weight
<1>7. Turned(task, max_pid, max_weight)
  BY <1>5, <1>6 DEF Turned, IsInit
<1> HIDE DEF task
<1> QED
  BY <1>1, <1>3, <1>4, <1>7

LEMMA ClimbShape ==
  ASSUME Shape, Climb
  PROVE  Shape'
<1>1. call \in HeaviestCalls /\ UNCHANGED <<tree, weight, history>>
  BY ClimbTurns
<1>2. PICK task \in Pids, max_pid \in Pids, max_weight \in Values :
        Turned(task, max_pid, max_weight)
  BY ClimbTurns
<1>3. \/ call' = [name |-> "found", caller |-> call.caller,
                  max_pid |-> max_pid, max_weight |-> max_weight]
      \/ call' = [call EXCEPT !.current_task = task, !.max_pid = max_pid,
                              !.max_weight = max_weight]
  BY <1>2 DEF Turned
<1>4. call' \in FoundCalls \/ call' \in HeaviestCalls
  <2>1. CASE call' = [name |-> "found", caller |-> call.caller,
                      max_pid |-> max_pid, max_weight |-> max_weight]
    <3>1. call.caller \in Pids
      BY <1>1 DEF HeaviestCalls
    <3> QED
      BY <2>1, <3>1 DEF FoundCalls
  <2>2. CASE call' = [call EXCEPT !.current_task = task, !.max_pid = max_pid,
                                  !.max_weight = max_weight]
    BY <1>1, <2>2 DEF HeaviestCalls
  <2> QED
    BY <1>3, <2>1, <2>2
<1>5. call' \in Calls /\ call'.name # "sum"
  BY <1>4, CallsAre DEF FoundCalls, HeaviestCalls
<1> QED
  BY <1>1, <1>5, GoOnShape

LEMMA ReturnShape ==
  ASSUME Shape, Return
  PROVE  Shape'
<1>1. TypeOK /\ Rooted
  BY DEF Shape
<1>2. TypeOK'
  BY <1>1, CallsAre DEF Return, TypeOK, tree
<1>3. Rooted' /\ Somewhere'
  BY <1>1, SameTree, CallsAre DEF Return, Somewhere
<1> QED
  BY <1>2, <1>3 DEF Shape

LEMMA StutterShape ==
  ASSUME Shape, UNCHANGED vars
  PROVE  Shape'
<1>1. call' \in Calls /\ call' = call /\ UNCHANGED <<tree, weight, history>>
  BY DEF Shape, TypeOK, vars
<1> QED
  BY <1>1, GoOnShape DEF Shape, Somewhere

LEMMA NextShape ==
  ASSUME Shape, [Next]_vars
  PROVE  Shape'
<1>1. ASSUME NEW p \in Pids, Fork(p) \/ Exit(p) \/ Wait(p)
      PROVE  Shape'
  BY <1>1, ForkShape, ExitShape, WaitShape
<1>2. ASSUME NEW p \in Pids, NEW w \in Weights, sys_set_weight(p, w)
      PROVE  Shape'
  BY <1>2, SetWeightShape
<1>3. ASSUME NEW p \in Pids,
             sys_get_children_sum(p) \/ NoChildren(p) \/ sys_get_heaviest_ancestor(p)
      PROVE  Shape'
  BY <1>3, SumShape, NoChildrenShape, HeaviestShape
<1>4. ASSUME Walk PROVE Shape'
  BY <1>4, SumDownShape, SumUpShape, SumLostShape, ClimbShape DEF Walk
<1> QED
  BY <1>1, <1>2, <1>3, <1>4, ReturnShape, StutterShape DEF Next

(* The fields of processes and calls have their types: a weight is never   *)
(* negative, whatever is given to set_weight (sys_set_weight refuses it)   *)
(* and whoever inherits it, and neither are the sums.                      *)
THEOREM Typing == Spec => []TypeOK
<1>1. Init => Shape
  BY InitShape
<1>2. Shape /\ [Next]_vars => Shape'
  BY NextShape
<1>3. Shape => TypeOK
  BY DEF Shape
<1> QED
  BY <1>1, <1>2, <1>3, PTL DEF Spec

-----------------------------------------------------------------------------
(* The walk up.                                                            *)

(* Whatever weight the walk may meet has been noted. *)
SeenNow == InCall => \A p \in Used : <<p, weight[p]>> \in seen

(* The best so far is as good as p, in a weight that p has had. *)
Beaten(p) == \E w \in Values :
  /\ <<p, w>> \in seen
  /\ w <= call.max_weight

(* The walk will come to p. *)
Ahead(p) ==
  \/ p = init_pid
  \/ /\ call.current_task \in AncestorsOf(call.caller, real_parent)
     /\ p \in AncestorsOf(call.current_task, real_parent) \ {call.current_task}

Best ==
  /\ <<call.max_pid, call.max_weight>> \in seen
  /\ kept \subseteq AncestorsOf(call.caller, real_parent) \ {Swapper}

(* Of those that were ancestors all along, the ones that the walk will not *)
(* come to are beaten; when it has ended all are.                          *)
Climbing == call.name = "heaviest" =>
  /\ Best
  /\ {call.current_task, call.caller} \subseteq Used
  /\ \A p \in kept : Beaten(p) \/ Ahead(p)

Top == call.name = "found" =>
  /\ Best
  /\ call.caller \in Used
  /\ \A p \in kept : Beaten(p)

Noted == SeenNow /\ Climbing /\ Top

IInv == Shape /\ Noted

LEMMA HeaviestFields ==
  ASSUME Shape
  PROVE  /\ call.name = "heaviest" =>
              /\ call.caller \in Pids /\ call.current_task \in Pids
              /\ call.max_pid \in Pids /\ call.max_weight \in Values
         /\ call.name = "found" =>
              call.caller \in Pids /\ call.max_pid \in Pids /\ call.max_weight \in Values
BY CallsAre DEF Shape, TypeOK, HeaviestCalls, FoundCalls

LEMMA BeatenStays ==
  ASSUME NEW p, Beaten(p), call' = call, seen \subseteq seen'
  PROVE  Beaten(p)'
BY DEF Beaten

(* A step of another process: it takes from those kept whoever is no       *)
(* longer an ancestor.                                                     *)
LEMMA OthersKeep ==
  ASSUME IInv, call' = call, seen \subseteq seen', kept' \subseteq kept, Used \subseteq Used',
         call.name \in {"heaviest", "found"} =>
           kept' \subseteq AncestorsOf(call.caller, real_parent') \ {Swapper},
         call.name = "heaviest" => \A p \in kept' : Ahead(p) => Ahead(p)'
  PROVE  Climbing' /\ Top'
<1>1. ASSUME call.name = "heaviest" PROVE Climbing'
  <2>1. Best /\ {call.current_task, call.caller} \subseteq Used
        /\ \A p \in kept : Beaten(p) \/ Ahead(p)
    BY <1>1 DEF IInv, Noted, Climbing
  <2>2. Best'
    BY <1>1, <2>1 DEF Best
  <2>3. \A p \in kept' : Beaten(p)' \/ Ahead(p)'
    BY <1>1, <2>1, BeatenStays
  <2> QED
    BY <2>1, <2>2, <2>3 DEF Climbing
<1>2. ASSUME call.name = "found" PROVE Top'
  <2>1. Best /\ call.caller \in Used /\ \A p \in kept : Beaten(p)
    BY <1>2 DEF IInv, Noted, Top
  <2>2. Best'
    BY <1>2, <2>1 DEF Best
  <2>3. \A p \in kept' : Beaten(p)'
    BY <2>1, BeatenStays
  <2> QED
    BY <2>1, <2>2, <2>3 DEF Top
<1> QED
  BY <1>1, <1>2 DEF Climbing, Top

(* What Observe leaves during this call. *)
LEMMA ObserveKeeps ==
  ASSUME NEW unlinked, Observe(unlinked), call' = call
  PROVE  /\ kept' \subseteq kept
         /\ call.name \in {"heaviest", "found"} =>
              kept' \subseteq AncestorsOf(call.caller, real_parent') \ {Swapper}
BY DEF Observe, InCall, Relatives

LEMMA AheadSame ==
  ASSUME NEW p, Ahead(p), call' = call,
         AncestorsOf(call.caller, real_parent') = AncestorsOf(call.caller, real_parent),
         AncestorsOf(call.current_task, real_parent')
           = AncestorsOf(call.current_task, real_parent)
  PROVE  Ahead(p)'
BY DEF Ahead

LEMMA ForkNoted ==
  ASSUME IInv, Shape', NEW p \in Pids, Fork(p)
  PROVE  Noted'
<1>1. PICK c \in Pids :
        /\ Alive(p) /\ state[c] = "unused"
        /\ state' = [state EXCEPT ![c] = "alive"]
        /\ real_parent' = [real_parent EXCEPT ![c] = p]
        /\ weight' = [weight EXCEPT ![c] = weight[p]]
        /\ ObserveWeight(c, weight[p])
        /\ Observe(FALSE)
        /\ call' = call
  BY DEF Fork
<1>2. Shape /\ TypeOK /\ Rooted /\ Rooted' /\ SeenNow
  BY DEF IInv, Noted, Shape
<1>3. Used' = Used \union {c} /\ c \notin Used /\ Used \subseteq Pids
  BY <1>1, <1>2 DEF Used, TypeOK
<1>4. seen \subseteq seen'
  BY <1>1 DEF ObserveWeight
<1>5. SeenNow'
  <2>1. InCall => <<c, weight'[c]>> \in seen'
    BY <1>1, <1>2 DEF ObserveWeight, TypeOK
  <2>2. \A q \in Used : weight'[q] = weight[q]
    BY <1>1, <1>2, <1>3 DEF TypeOK
  <2>3. InCall' <=> InCall
    BY <1>1 DEF InCall
  <2> QED
    BY <1>2, <1>3, <1>4, <2>1, <2>2, <2>3 DEF SeenNow
<1>6. ASSUME NEW q \in Used
      PROVE  AncestorsOf(q, real_parent') = AncestorsOf(q, real_parent)
  <2>1. \A r \in Used : real_parent[r] \in Used /\ real_parent'[r] = real_parent[r]
    BY <1>1, <1>2, <1>3 DEF Rooted, TypeOK
  <2>2. Falls(real_parent) /\ Falls(real_parent')
    BY <1>2 DEF Rooted
  <2> QED
    BY <1>3, <2>1, <2>2, AncestorsSame
<1>7. call.name = "heaviest" => \A q \in kept' : Ahead(q) => Ahead(q)'
  <2> SUFFICES ASSUME call.name = "heaviest" PROVE \A q : Ahead(q) => Ahead(q)'
    OBVIOUS
  <2>1. call.current_task \in Used /\ call.caller \in Used
    BY DEF IInv, Noted, Climbing
  <2> QED
    BY <1>1, <1>6, <2>1, AheadSame
<1>8. Climbing' /\ Top'
  BY <1>1, <1>3, <1>4, <1>7, ObserveKeeps, OthersKeep
<1> QED
  BY <1>5, <1>8 DEF Noted

LEMMA ExitNoted ==
  ASSUME IInv, Shape', NEW p \in Pids, Exit(p)
  PROVE  Noted'
<1>1. /\ Alive(p) /\ p > init_pid
      /\ state' = [state EXCEPT ![p] = "zombie"]
      /\ real_parent' = [q \in Pids |-> IF q \in Members(p) THEN init_pid ELSE real_parent[q]]
      /\ Observe(children[p] # <<>>)
      /\ weight' = weight /\ call' = call /\ seen' = seen
  BY DEF Exit
<1>2. Shape /\ TypeOK /\ Rooted /\ Rooted' /\ SeenNow
  BY DEF IInv, Noted, Shape
<1>3. Used' = Used
  BY <1>1, <1>2 DEF Used, TypeOK, Alive
<1>4. SeenNow'
  BY <1>1, <1>2, <1>3 DEF SeenNow, InCall
<1>5. ASSUME call.name = "heaviest", NEW q \in kept', Ahead(q)
      PROVE  Ahead(q)'
  <2>1. CASE q = init_pid
    BY <2>1 DEF Ahead
  <2>2. CASE q # init_pid
    <3>1. /\ call.current_task \in AncestorsOf(call.caller, real_parent)
          /\ q \in AncestorsOf(call.current_task, real_parent) \ {call.current_task}
      BY <1>5, <2>2 DEF Ahead
    <3>2. q \in AncestorsOf(call.caller, real_parent') \ {Swapper}
      BY <1>1, <1>5, ObserveKeeps
    <3>3. Falls(real_parent) /\ Falls(real_parent')
      BY <1>2 DEF Rooted
    <3>4. real_parent'[Swapper] = real_parent[Swapper]
      BY <1>2 DEF Rooted
    <3>5. \A r \in Pids : real_parent'[r] \in {real_parent[r], init_pid}
      BY <1>1
    <3>6. call.caller \in Pids
      BY <1>2, <1>5, HeaviestFields
    <3>7. /\ call.current_task \in AncestorsOf(call.caller, real_parent')
          /\ q \in AncestorsOf(call.current_task, real_parent')
      BY <2>2, <3>1, <3>2, <3>3, <3>4, <3>5, <3>6, AncestorsCut
    <3> QED
      BY <1>1, <3>1, <3>7 DEF Ahead
  <2> QED
    BY <2>1, <2>2
<1>6. Climbing' /\ Top'
  BY <1>1, <1>3, <1>5, ObserveKeeps, OthersKeep
<1> QED
  BY <1>4, <1>6 DEF Noted

(* The parents stay, and so does what the walk will come to. *)
LEMMA WaitNoted ==
  ASSUME IInv, Shape', NEW p \in Pids, Wait(p)
  PROVE  Noted'
<1>1. PICK i \in DOMAIN children[p] :
        /\ state[children[p][i]] = "zombie"
        /\ state' = [state EXCEPT ![children[p][i]] = "released"]
        /\ real_parent' = real_parent /\ weight' = weight /\ call' = call /\ seen' = seen
        /\ Observe(TRUE)
  BY DEF Wait
<1>2. Shape /\ TypeOK /\ SeenNow
  BY DEF IInv, Noted, Shape
<1>3. children[p][i] \in Pids
  BY <1>2, ChildAt
<1>4. Used' = Used
  BY <1>1, <1>2, <1>3 DEF Used, TypeOK
<1>5. SeenNow'
  BY <1>1, <1>2, <1>4 DEF SeenNow, InCall
<1>6. \A q \in kept' : Ahead(q) => Ahead(q)'
  BY <1>1, AheadSame
<1>7. Climbing' /\ Top'
  BY <1>1, <1>4, <1>6, ObserveKeeps, OthersKeep
<1> QED
  BY <1>5, <1>7 DEF Noted

LEMMA SetWeightNoted ==
  ASSUME IInv, Shape', NEW p \in Pids, NEW w \in Weights, sys_set_weight(p, w)
  PROVE  Noted'
<1>1. /\ weight' = [weight EXCEPT ![p] = w]
      /\ ObserveWeight(p, w)
      /\ state' = state /\ real_parent' = real_parent
      /\ call' = call /\ kept' = kept
  BY DEF sys_set_weight, tree
<1>2. Shape /\ TypeOK /\ SeenNow
  BY DEF IInv, Noted, Shape
<1>3. Used' = Used /\ Used \subseteq Pids /\ seen \subseteq seen'
  BY <1>1 DEF Used, ObserveWeight
<1>4. SeenNow'
  <2>1. InCall => <<p, w>> \in seen'
    BY <1>1 DEF ObserveWeight
  <2>2. \A q \in Used : weight'[q] = IF q = p THEN w ELSE weight[q]
    BY <1>1, <1>2, <1>3 DEF TypeOK
  <2>3. InCall' <=> InCall
    BY <1>1 DEF InCall
  <2> QED
    BY <1>2, <1>3, <2>1, <2>2, <2>3 DEF SeenNow
<1>5. \A q \in kept' : Ahead(q) => Ahead(q)'
  BY <1>1, AheadSame
<1>6. call.name \in {"heaviest", "found"} =>
        kept' \subseteq AncestorsOf(call.caller, real_parent') \ {Swapper}
  BY <1>1 DEF IInv, Noted, Climbing, Top, Best
<1>7. Climbing' /\ Top'
  BY <1>1, <1>3, <1>5, <1>6, OthersKeep
<1> QED
  BY <1>4, <1>7 DEF Noted

(* A step of a call that does not walk up. *)
LEMMA ElsewhereNoted ==
  ASSUME IInv, Shape', UNCHANGED <<tree, weight, history>>,
         call'.name \notin {"heaviest", "found"}, InCall' => InCall
  PROVE  Noted'
<1>1. SeenNow'
  BY DEF IInv, Noted, SeenNow, Used, tree, history
<1> QED
  BY <1>1 DEF Noted, Climbing, Top

LEMMA BeginSeen ==
  ASSUME NEW p, NEW c, Begin(p, c)
  PROVE  /\ SeenNow'
         /\ \A q \in Used : <<q, weight[q]>> \in seen'
         /\ p \in Pids => p \in Used
<1>1. /\ state' = state /\ weight' = weight /\ Alive(p)
      /\ seen' = {<<q, weight[q]>> : q \in {r \in Pids : state[r] # "unused"}}
  BY DEF Begin, tree
<1> QED
  BY <1>1 DEF SeenNow, Used, Alive

LEMMA SumNoted ==
  ASSUME IInv, Shape', NEW p \in Pids, sys_get_children_sum(p)
  PROVE  Noted'
<1> DEFINE c == [name |-> "sum", caller |-> p, path |-> <<Head(children[p])>>,
                 down |-> TRUE, total |-> 0]
<1>1. Begin(p, c) /\ c.name = "sum"
  BY DEF sys_get_children_sum
<1> HIDE DEF c
<1>2. call'.name = "sum"
  BY <1>1 DEF Begin
<1> QED
  BY <1>1, <1>2, BeginSeen DEF Noted, Climbing, Top

(* The caller is the best at first; its other ancestors are ahead. *)
LEMMA HeaviestNoted ==
  ASSUME IInv, Shape', NEW p \in Pids, sys_get_heaviest_ancestor(p)
  PROVE  Noted'
<1> DEFINE c == [name |-> "heaviest", caller |-> p, current_task |-> p,
                 max_pid |-> p, max_weight |-> weight[p]]
<1>1. Begin(p, c)
  BY DEF sys_get_heaviest_ancestor
<1>2. c.name = "heaviest" /\ c.caller = p /\ c.current_task = p /\ c.max_pid = p
      /\ c.max_weight = weight[p]
  OBVIOUS
<1> HIDE DEF c
<1>3. /\ state' = state /\ real_parent' = real_parent /\ weight' = weight /\ call' = c
      /\ kept' = AncestorsOf(p, real_parent) \ {Swapper}
  BY <1>1, <1>2 DEF Begin, tree, Relatives
<1>4. SeenNow' /\ p \in Used /\ <<p, weight[p]>> \in seen'
  BY <1>1, BeginSeen
<1>5. /\ weight[p] \in Values /\ weight[p] \in Nat /\ p \in Nat
      /\ Falls(real_parent)
  BY ValuesAre, PidsAre DEF IInv, Shape, TypeOK, Rooted
<1>6. Beaten(p)'
  <2>1. weight[p] <= weight[p]
    BY <1>5
  <2> QED
    BY <1>2, <1>3, <1>4, <1>5, <2>1 DEF Beaten
<1>7. \A q \in kept' : q # p => Ahead(q)'
  <2>1. p \in AncestorsOf(p, real_parent)
    BY <1>5, AncestorsBefore
  <2> QED
    BY <1>2, <1>3, <2>1 DEF Ahead
<1>8. Best'
  BY <1>2, <1>3, <1>4 DEF Best
<1>9. Used' = Used
  BY <1>3 DEF Used
<1>10. Climbing'
  BY <1>2, <1>3, <1>4, <1>6, <1>7, <1>8, <1>9 DEF Climbing
<1> QED
  BY <1>2, <1>3, <1>4, <1>10 DEF Noted, Top

(* A turn of the loop: the next one up is beaten or is the best. *)
LEMMA ClimbNoted ==
  ASSUME IInv, Shape', Climb
  PROVE  Noted'
<1>1. call \in HeaviestCalls /\ UNCHANGED <<tree, weight, history>> /\ Shape /\ Rooted
      /\ SeenNow /\ TypeOK
  BY ClimbTurns DEF IInv, Noted, Shape
<1>2. PICK task \in Pids, max_pid \in Pids, max_weight \in Values :
        Turned(task, max_pid, max_weight)
  BY ClimbTurns DEF IInv
<1>3. call.name = "heaviest" /\ call.current_task \in Pids /\ call.caller \in Pids
      /\ call.max_pid \in Pids /\ call.max_weight \in Values
  BY <1>1 DEF HeaviestCalls
<1>4. /\ Best
      /\ {call.current_task, call.caller} \subseteq Used
      /\ \A p \in kept : Beaten(p) \/ Ahead(p)
  BY <1>3 DEF IInv, Noted, Climbing
<1>5. task = real_parent[call.current_task] /\ task \in Used
  BY <1>1, <1>2, <1>3 DEF Turned, Rooted
<1>6. /\ call'.name = IF task = init_pid THEN "found" ELSE "heaviest"
      /\ call'.caller = call.caller
      /\ call'.max_pid = max_pid /\ call'.max_weight = max_weight
      /\ task # init_pid => call'.current_task = task
  <2>1. CASE task = init_pid
    BY <1>2, <2>1 DEF Turned
  <2>2. CASE task # init_pid
    BY <1>1, <1>2, <2>2 DEF Turned, HeaviestCalls
  <2> QED
    BY <2>1, <2>2
<1>7. /\ state' = state /\ real_parent' = real_parent /\ weight' = weight
      /\ kept' = kept /\ seen' = seen /\ Used' = Used
  BY <1>1 DEF tree, history, Used
<1>8. <<task, weight[task]>> \in seen /\ weight[task] \in Values
  BY <1>1, <1>3, <1>5 DEF SeenNow, InCall, TypeOK
<1>9. /\ weight[task] \in Nat /\ call.max_weight \in Nat /\ max_weight \in Nat
      /\ task \in Nat /\ call.current_task \in Nat /\ call.max_pid \in Nat /\ max_pid \in Nat
  BY <1>2, <1>3, <1>8, ValuesAre, PidsAre
<1>10. Falls(real_parent)
  BY <1>1 DEF Rooted
<1>12. \/ weight[task] > call.max_weight /\ max_pid = task /\ max_weight = weight[task]
       \/ weight[task] <= call.max_weight
          /\ max_pid = call.max_pid /\ max_weight = call.max_weight
  BY <1>2 DEF Turned
<1>13. SeenNow'
  BY <1>1, <1>3, <1>7 DEF SeenNow, InCall
<1>14. Best'
  BY <1>4, <1>6, <1>7, <1>8, <1>12 DEF Best
<1>15. ASSUME NEW p \in kept, Beaten(p) PROVE Beaten(p)'
  <2>1. PICK w \in Values : /\ <<p, w>> \in seen
                            /\ w <= call.max_weight
    BY <1>15 DEF Beaten
  <2>2. w \in Nat
    BY ValuesAre
  <2>3. w <= max_weight
    BY <1>9, <1>12, <2>1, <2>2
  <2> QED
    BY <1>6, <1>7, <2>1, <2>3 DEF Beaten
<1>16. Beaten(task)'
  <2>1. weight[task] <= max_weight
    BY <1>9, <1>12
  <2> QED
    BY <1>6, <1>7, <1>8, <2>1 DEF Beaten
<1>17. ASSUME NEW p \in kept, Ahead(p), p # init_pid
       PROVE  p = task \/ (task # init_pid /\ Ahead(p)')
  <2>1. /\ call.current_task \in AncestorsOf(call.caller, real_parent)
        /\ p \in AncestorsOf(call.current_task, real_parent) \ {call.current_task}
    BY <1>17 DEF Ahead
  <2>2. call.current_task # Swapper /\ p \in AncestorsOf(task, real_parent)
    BY <1>3, <1>5, <1>10, <2>1, Ancestors
  <2>3. task \in AncestorsOf(call.caller, real_parent)
    BY <1>3, <1>5, <1>10, <2>1, <2>2, AncestorsUp
  <2>4. p # Swapper
    BY <1>4 DEF Best
  <2>5. task # init_pid \/ p = task
    <3>1. AncestorsOf(init_pid, real_parent) \subseteq 0 .. 1
      BY <1>10, PidsAre, AncestorsBefore
    <3> QED
      BY <1>17, <2>2, <2>4, <3>1, PidsAre
  <2> QED
    BY <1>6, <1>7, <2>2, <2>3, <2>5 DEF Ahead
<1>18. CASE task = init_pid
  <2>1. \A p \in kept : Beaten(p)'
    BY <1>4, <1>15, <1>16, <1>17, <1>18, PidsAre
  <2> QED
    BY <1>4, <1>6, <1>7, <1>13, <1>14, <1>18, <2>1 DEF Noted, Climbing, Top
<1>19. CASE task # init_pid
  <2>1. \A p \in kept : Beaten(p)' \/ Ahead(p)'
    <3>1. \A p \in kept : p # Swapper
      BY <1>4 DEF Best
    <3>2. Ahead(init_pid)'
      BY DEF Ahead
    <3> QED
      BY <1>4, <1>15, <1>16, <1>17, <3>1, <3>2
  <2> QED
    BY <1>4, <1>5, <1>6, <1>7, <1>13, <1>14, <1>19, <2>1 DEF Noted, Climbing, Top
<1> QED
  BY <1>18, <1>19

LEMMA NextNoted ==
  ASSUME IInv, Shape', [Next]_vars
  PROVE  Noted'
<1>1. ASSUME NEW p \in Pids, Fork(p) \/ Exit(p) \/ Wait(p)
      PROVE  Noted'
  BY <1>1, ForkNoted, ExitNoted, WaitNoted
<1>2. ASSUME NEW p \in Pids, NEW w \in Weights, sys_set_weight(p, w)
      PROVE  Noted'
  BY <1>2, SetWeightNoted
<1>3. ASSUME NEW p \in Pids, sys_get_children_sum(p) \/ sys_get_heaviest_ancestor(p)
      PROVE  Noted'
  BY <1>3, SumNoted, HeaviestNoted
<1>4. ASSUME NEW p \in Pids, NoChildren(p)
      PROVE  Noted'
  <2>1. call'.name = "childless" /\ UNCHANGED <<tree, weight, history>>
    BY <1>4 DEF NoChildren
  <2> QED
    BY <2>1, ElsewhereNoted DEF InCall
<1>5. ASSUME SumDown \/ SumUp \/ SumLost
      PROVE  Noted'
  <2>1. call.name = "sum" /\ UNCHANGED <<tree, weight, history>>
    BY <1>5 DEF SumDown, SumUp, SumLost
  <2>2. call \in SumCalls
    BY <2>1, PathAt DEF IInv
  <2>3. call'.name \in {"sum", "summed", "lost"}
    <3>1. CASE SumDown
      BY <2>1, <2>2, <3>1 DEF SumDown, SumCalls
    <3>2. CASE SumUp
      BY <2>1, <2>2, <3>2 DEF SumUp, SumCalls
    <3>3. CASE SumLost
      BY <3>3 DEF SumLost
    <3> QED
      BY <1>5, <3>1, <3>2, <3>3
  <2> QED
    BY <2>1, <2>3, ElsewhereNoted DEF InCall
<1>6. ASSUME Return PROVE Noted'
  <2>1. call'.name = "none"
    BY <1>6, CallsAre DEF Return
  <2> QED
    BY <2>1 DEF Noted, SeenNow, InCall, Climbing, Top
<1>7. ASSUME UNCHANGED vars PROVE Noted'
  <2>1. /\ call' = call /\ UNCHANGED <<tree, weight, history>>
        /\ state' = state /\ real_parent' = real_parent /\ weight' = weight
        /\ kept' = kept /\ seen' = seen
    BY <1>7 DEF vars, tree, history
  <2>2. SeenNow' <=> SeenNow
    BY <2>1 DEF SeenNow, InCall, Used
  <2>3. Climbing' /\ Top'
    <3>1. call.name \in {"heaviest", "found"} =>
            kept' \subseteq AncestorsOf(call.caller, real_parent') \ {Swapper}
      BY <2>1 DEF IInv, Noted, Climbing, Top, Best
    <3>2. \A p \in kept' : Ahead(p) => Ahead(p)'
      BY <2>1, AheadSame
    <3>3. Used' = Used
      BY <2>1 DEF Used
    <3> QED
      BY <2>1, <3>1, <3>2, <3>3, OthersKeep
  <2> QED
    BY <2>2, <2>3 DEF Noted, IInv
<1> QED
  BY <1>1, <1>2, <1>3, <1>4, <1>5, <1>6, <1>7, ClimbNoted DEF Next, Walk

(* What is noted includes what the result is compared with. *)
LEMMA TopIsHeaviest ==
  ASSUME IInv
  PROVE  HeaviestIsFound
<1> SUFFICES ASSUME call.name = "found"
             PROVE  /\ <<call.max_pid, call.max_weight>> \in seen
                    /\ \A p \in kept : Min(WeightsOf(p)) <= call.max_weight
  BY DEF HeaviestIsFound
<1>1. Best /\ \A p \in kept : Beaten(p)
  BY DEF IInv, Noted, Top
<1>2. call.max_weight \in Nat /\ seen \subseteq Pids \X Values
  BY HeaviestFields, ValuesAre DEF IInv, Shape, TypeOK
<1>3. ASSUME NEW p \in kept
      PROVE  Min(WeightsOf(p)) <= call.max_weight
  <2>1. PICK w \in Values : /\ <<p, w>> \in seen
                            /\ w <= call.max_weight
    BY <1>1 DEF Beaten
  <2>2. WeightsOf(p) \subseteq Nat /\ w \in WeightsOf(p)
    <3>1. \A t \in seen : t[2] \in Values
      BY <1>2
    <3>2. <<p, w>>[1] = p /\ <<p, w>>[2] = w
      OBVIOUS
    <3>3. \A t \in seen : t[2] \in Nat
      BY <3>1, ValuesAre
    <3>4. WeightsOf(p) \subseteq Nat
      BY <3>3, Zenon DEF WeightsOf
    <3>5. w \in WeightsOf(p)
      BY <2>1, <3>2, Zenon DEF WeightsOf
    <3> QED
      BY <3>4, <3>5
  <2>3. Min(WeightsOf(p)) \in Nat /\ Min(WeightsOf(p)) <= w /\ w \in Nat
    BY <2>2, MinNat
  <2> HIDE DEF WeightsOf
  <2> QED
    BY <1>2, <2>1, <2>3
<1> QED
  BY <1>1, <1>3 DEF Best

LEMMA InitIInv == Init => IInv
<1>1. Init => call.name = "none"
  BY CallsAre DEF Init
<1> QED
  BY <1>1, InitShape DEF IInv, Noted, SeenNow, InCall, Climbing, Top

LEMMA NextIInv ==
  ASSUME IInv, [Next]_vars
  PROVE  IInv'
<1>1. Shape'
  BY NextShape DEF IInv
<1>2. Noted'
  BY <1>1, NextNoted
<1> QED
  BY <1>1, <1>2 DEF IInv

(* get_heaviest_ancestor, whatever forks, exits and sets its weight while  *)
(* the loop runs, returns a process with a weight it had during the call;  *)
(* no one that was an ancestor of the caller all along was heavier         *)
(* throughout.                                                             *)
THEOREM HeaviestReturned == Spec => []HeaviestIsFound
<1>1. IInv /\ [Next]_vars => IInv'
  BY NextIInv
<1> QED
  BY <1>1, InitIInv, TopIsHeaviest, PTL DEF Spec

-----------------------------------------------------------------------------
(* Sums over finite sets.                                                  *)

Some(s) == CHOOSE x \in s : TRUE

(* g has the sums of f over the subsets of S of at most n members. *)
Sums(f, S, n, g) ==
  g = [s \in {t \in SUBSET S : Cardinality(t) <= n} |->
         IF s = {} THEN 0 ELSE f[Some(s)] + g[s \ {Some(s)}]]

LEMMA SubsetLess ==
  ASSUME NEW S, IsFiniteSet(S), NEW s \in SUBSET S, NEW x \in s
  PROVE  /\ s \ {x} \in SUBSET S
         /\ IsFiniteSet(s) /\ Cardinality(s) \in Nat \ {0}
         /\ Cardinality(s \ {x}) = Cardinality(s) - 1
<1>1. IsFiniteSet(s)
  BY FS_Subset
<1>2. Cardinality(s) \in Nat /\ Cardinality(s \ {x}) \in Nat
  BY <1>1, FS_RemoveElement, FS_CardinalityType
<1>3. Cardinality(s \ {x}) = Cardinality(s) - 1
  BY <1>1, FS_RemoveElement
<1>4. s \ {x} \in SUBSET S
  OBVIOUS
<1>5. Cardinality(s) # 0
  BY <1>2, <1>3
<1> QED
  BY <1>1, <1>2, <1>3, <1>4, <1>5

LEMMA SomeIn ==
  ASSUME NEW s, s # {}
  PROVE  Some(s) \in s
BY DEF Some

LEMMA SumsBegin ==
  ASSUME NEW f, NEW S, IsFiniteSet(S)
  PROVE  \E g : Sums(f, S, 0, g)
<1> DEFINE D == {t \in SUBSET S : Cardinality(t) <= 0}
           g == [s \in D |-> 0]
<1>1. ASSUME NEW s \in D PROVE s = {}
  <2> SUFFICES ASSUME s # {} PROVE FALSE
    OBVIOUS
  <2>1. Cardinality(s) \in Nat \ {0}
    BY SomeIn, SubsetLess
  <2> QED
    BY <2>1
<1>2. g = [s \in D |-> IF s = {} THEN 0 ELSE f[Some(s)] + g[s \ {Some(s)}]]
  <2> HIDE DEF D
  <2> QED
    BY <1>1
<1>3. Sums(f, S, 0, g)
  BY <1>2 DEF Sums
<1> QED
  BY <1>3

LEMMA SumsGoOn ==
  ASSUME NEW f, NEW S, IsFiniteSet(S), NEW n \in Nat, NEW h, Sums(f, S, n, h)
  PROVE  \E g : Sums(f, S, n + 1, g)
<1> DEFINE D == {t \in SUBSET S : Cardinality(t) <= n + 1}
           C == {t \in SUBSET S : Cardinality(t) <= n}
           g == [s \in D |-> IF s = {} THEN 0 ELSE f[Some(s)] + h[s \ {Some(s)}]]
<1>1. h = [s \in C |-> IF s = {} THEN 0 ELSE f[Some(s)] + h[s \ {Some(s)}]]
  BY DEF Sums
<1>2. ASSUME NEW s \in D, s # {}
      PROVE  s \ {Some(s)} \in C
  <2>1. Some(s) \in s /\ s \in SUBSET S
    BY <1>2, SomeIn
  <2>2. s \ {Some(s)} \in SUBSET S /\ Cardinality(s) \in Nat
        /\ Cardinality(s \ {Some(s)}) = Cardinality(s) - 1
    BY <2>1, SubsetLess
  <2> QED
    BY <2>2
<1>3. C \subseteq D
  <2>1. \A t \in SUBSET S : Cardinality(t) \in Nat
    BY FS_Subset, FS_CardinalityType
  <2> QED
    BY <2>1
<1> HIDE DEF C, D
<1>4. \A s \in C : g[s] = h[s]
  BY <1>1, <1>3
<1>5. g = [s \in D |-> IF s = {} THEN 0 ELSE f[Some(s)] + g[s \ {Some(s)}]]
  <2>1. \A s \in D : s # {} => g[s \ {Some(s)}] = h[s \ {Some(s)}]
    BY <1>2, <1>4
  <2> DEFINE k == g
  <2>2. k = [s \in D |-> IF s = {} THEN 0 ELSE f[Some(s)] + h[s \ {Some(s)}]]
    OBVIOUS
  <2>3. \A s \in D : s # {} => k[s \ {Some(s)}] = h[s \ {Some(s)}]
    BY <2>1
  <2> HIDE DEF k
  <2>4. k = [s \in D |-> IF s = {} THEN 0 ELSE f[Some(s)] + k[s \ {Some(s)}]]
    BY <2>2, <2>3
  <2> QED
    BY <2>4 DEF k
<1>6. Sums(f, S, n + 1, g)
  BY <1>5 DEF Sums, D
<1> QED
  BY <1>6

LEMMA SumsAre ==
  ASSUME NEW f, NEW S, IsFiniteSet(S), NEW n \in Nat
  PROVE  \E g : Sums(f, S, n, g)
<1> DEFINE Bad == {m \in Nat : ~ \E g : Sums(f, S, m, g)}
<1>1. ASSUME NEW m \in Bad PROVE \E k \in Bad : k < m
  <2>1. m # 0
    BY SumsBegin
  <2>2. m - 1 \in Nat /\ m - 1 < m /\ m - 1 + 1 = m
    BY <2>1
  <2>3. m - 1 \in Bad
    <3> SUFFICES ASSUME NEW h, Sums(f, S, m - 1, h) PROVE FALSE
      BY <2>2
    <3> QED
      BY <2>2, SumsGoOn
  <2> QED
    BY <2>2, <2>3
<1>2. Bad \subseteq Nat
  OBVIOUS
<1> HIDE DEF Bad
<1>3. Bad = {}
  <2> SUFFICES ASSUME Bad # {} PROVE FALSE
    OBVIOUS
  <2>1. PICK m \in Bad : \A k \in Bad : m <= k
    BY <1>2, LeastElement
  <2>2. PICK k \in Bad : k < m
    BY <1>1
  <2> QED
    BY <1>2, <2>1, <2>2
<1> QED
  BY <1>3 DEF Bad

(* g has the sums of f over all subsets of S. *)
SumsOf(f, S, g) ==
  g = [s \in SUBSET S |-> IF s = {} THEN 0 ELSE f[Some(s)] + g[s \ {Some(s)}]]

LEMMA SumUnfolds ==
  ASSUME NEW f, NEW S, IsFiniteSet(S)
  PROVE  \E g : SumsOf(f, S, g) /\ SumFunctionOnSet(f, S) = g[S]
<1> DEFINE Sum(g) == g = [s \in SUBSET S |->
                            IF s = {} THEN 0 ELSE f[Some(s)] + g[s \ {Some(s)}]]
           iter == CHOOSE g : Sum(g)
<1>1. \E g : Sum(g)
  <2>1. Cardinality(S) \in Nat
    BY FS_CardinalityType
  <2>2. {t \in SUBSET S : Cardinality(t) <= Cardinality(S)} = SUBSET S
    BY FS_Subset
  <2>3. PICK g : Sums(f, S, Cardinality(S), g)
    BY <2>1, SumsAre
  <2>4. Sum(g)
    BY <2>2, <2>3, Zenon DEF Sums
  <2> QED
    BY <2>4
<1>2. Sum(iter)
  <2> HIDE DEF Sum
  <2> QED
    BY <1>1
<1>3. SumFunctionOnSet(f, S) = iter[S]
  BY DEF SumFunctionOnSet, FoldFunctionOnSet, MapThenFoldSet, Some
<1>4. SumsOf(f, S, iter)
  BY <1>2 DEF SumsOf
<1> QED
  BY <1>3, <1>4

(* What fails for no set before a smallest one for which it fails. *)
LEMMA NoSmallest ==
  ASSUME NEW S, IsFiniteSet(S), NEW Bad, Bad \subseteq SUBSET S,
         \A t \in Bad : t # {} /\ \E x \in t : t \ {x} \in Bad
  PROVE  Bad = {}
<1> SUFFICES ASSUME Bad # {} PROVE FALSE
  OBVIOUS
<1> DEFINE N == {Cardinality(t) : t \in Bad}
<1>1. \A t \in Bad : Cardinality(t) \in Nat
  BY FS_Subset, FS_CardinalityType
<1>2. N \subseteq Nat /\ N # {}
  BY <1>1
<1> HIDE DEF N
<1>3. PICK n \in N : \A m \in N : n <= m
  BY <1>2, LeastElement
<1>4. PICK t \in Bad : n = Cardinality(t)
  BY <1>3 DEF N
<1>5. PICK x \in t : t \ {x} \in Bad
  BY <1>4
<1>6. Cardinality(t \ {x}) = Cardinality(t) - 1 /\ Cardinality(t) \in Nat
  BY <1>1, SubsetLess
<1>7. Cardinality(t \ {x}) \in N
  BY <1>5 DEF N
<1>8. n <= Cardinality(t \ {x})
  BY <1>3, <1>7
<1> QED
  BY <1>4, <1>6, <1>8

(* g and h sum f over the same subsets alike. *)
LEMMA SumsAgree ==
  ASSUME NEW f, NEW S, IsFiniteSet(S), NEW T \in SUBSET S, NEW g, NEW h,
         SumsOf(f, S, g), SumsOf(f, T, h)
  PROVE  \A s \in SUBSET T : g[s] = h[s]
<1> DEFINE Bad == {s \in SUBSET T : g[s] # h[s]}
<1>1. ASSUME NEW s \in Bad PROVE s # {} /\ \E x \in s : s \ {x} \in Bad
  <2>1. s \in SUBSET S /\ s \in SUBSET T
    OBVIOUS
  <2>2. /\ g[s] = IF s = {} THEN 0 ELSE f[Some(s)] + g[s \ {Some(s)}]
        /\ h[s] = IF s = {} THEN 0 ELSE f[Some(s)] + h[s \ {Some(s)}]
    BY <2>1, Zenon DEF SumsOf
  <2>3. s # {}
    BY <2>2
  <2>4. Some(s) \in s
    BY <2>3, SomeIn
  <2>5. s \ {Some(s)} \in Bad
    BY <2>1, <2>2, <2>3
  <2> QED
    BY <2>3, <2>4, <2>5
<1>2. IsFiniteSet(T)
  BY FS_Subset
<1>3. Bad \subseteq SUBSET T
  OBVIOUS
<1> HIDE DEF Bad
<1>4. Bad = {}
  BY <1>1, <1>2, <1>3, NoSmallest
<1> QED
  BY <1>4 DEF Bad

LEMMA SumEmpty ==
  ASSUME NEW f
  PROVE  SumFunctionOnSet(f, {}) = 0
<1>1. PICK g : SumsOf(f, {}, g) /\ SumFunctionOnSet(f, {}) = g[{}]
  BY FS_EmptySet, SumUnfolds
<1> QED
  BY <1>1 DEF SumsOf

LEMMA SumSome ==
  ASSUME NEW f, NEW S, IsFiniteSet(S), S # {}
  PROVE  SumFunctionOnSet(f, S) = f[Some(S)] + SumFunctionOnSet(f, S \ {Some(S)})
<1> DEFINE T == S \ {Some(S)}
<1>1. T \in SUBSET S /\ IsFiniteSet(T)
  BY FS_Subset
<1>2. PICK g : SumsOf(f, S, g) /\ SumFunctionOnSet(f, S) = g[S]
  BY SumUnfolds
<1>3. PICK h : SumsOf(f, T, h) /\ SumFunctionOnSet(f, T) = h[T]
  BY <1>1, SumUnfolds
<1>4. g[S] = IF S = {} THEN 0 ELSE f[Some(S)] + g[S \ {Some(S)}]
  <2>1. S \in SUBSET S
    OBVIOUS
  <2> QED
    BY <1>2, <2>1, Zenon DEF SumsOf
<1> HIDE DEF T
<1>5. g[T] = h[T]
  <2>1. T \in SUBSET T
    OBVIOUS
  <2>2. \A s \in SUBSET T : g[s] = h[s]
    BY <1>1, <1>2, <1>3, SumsAgree
  <2> QED
    BY <2>1, <2>2
<1> QED
  BY <1>2, <1>3, <1>4, <1>5 DEF T

LEMMA SumNat ==
  ASSUME NEW f, NEW S, IsFiniteSet(S), \A x \in S : f[x] \in Nat
  PROVE  SumFunctionOnSet(f, S) \in Nat
<1> DEFINE Bad == {s \in SUBSET S : SumFunctionOnSet(f, s) \notin Nat}
<1>1. ASSUME NEW s \in Bad PROVE s # {} /\ \E x \in s : s \ {x} \in Bad
  <2>1. s # {} /\ s \in SUBSET S /\ IsFiniteSet(s)
    <3>1. s \in SUBSET S /\ SumFunctionOnSet(f, s) \notin Nat
      OBVIOUS
    <3>2. s # {}
      BY <3>1, SumEmpty
    <3> QED
      BY <3>1, <3>2, FS_Subset
  <2>2. Some(s) \in s
    BY <2>1, SomeIn
  <2>3. SumFunctionOnSet(f, s) = f[Some(s)] + SumFunctionOnSet(f, s \ {Some(s)})
    BY <2>1, SumSome
  <2>4. f[Some(s)] \in Nat /\ s \ {Some(s)} \in SUBSET S
    BY <2>1, <2>2
  <2> QED
    BY <2>1, <2>2, <2>3, <2>4
<1>2. Bad \subseteq SUBSET S
  OBVIOUS
<1> HIDE DEF Bad
<1>3. Bad = {}
  BY <1>1, <1>2, NoSmallest
<1> QED
  BY <1>3 DEF Bad

(* Any member can be taken first. *)
LEMMA SumRemove ==
  ASSUME NEW f, NEW S, IsFiniteSet(S), \A x \in S : f[x] \in Nat, NEW x \in S
  PROVE  SumFunctionOnSet(f, S) = f[x] + SumFunctionOnSet(f, S \ {x})
<1> DEFINE Sum(s) == SumFunctionOnSet(f, s)
           Bad == {s \in SUBSET S : \E y \in s : Sum(s) # f[y] + Sum(s \ {y})}
<1>1. ASSUME NEW s \in Bad PROVE s # {} /\ \E y \in s : s \ {y} \in Bad
  <2>1. PICK a \in s : Sum(s) # f[a] + Sum(s \ {a})
    OBVIOUS
  <2> DEFINE b == Some(s)
             t == s \ {b}
             u == s \ {a}
             v == s \ {a, b}
  <2>2. s # {} /\ s \in SUBSET S /\ IsFiniteSet(s)
    BY FS_Subset
  <2>3. b \in s
    BY <2>2, SomeIn
  <2>4. Sum(s) = f[b] + Sum(t)
    BY <2>2, SumSome
  <2>5. a # b
    BY <2>1, <2>4
  <2>6. /\ t \in SUBSET S /\ u \in SUBSET S /\ v \in SUBSET S /\ IsFiniteSet(v)
        /\ t \ {a} = v /\ u \ {b} = v /\ a \in t /\ b \in u
    BY <2>2, <2>3, <2>5, FS_Subset
  <2>7. f[a] \in Nat /\ f[b] \in Nat /\ Sum(v) \in Nat
    BY <2>2, <2>3, <2>6, SumNat
  <2>8. ASSUME Sum(t) = f[a] + Sum(v), Sum(u) = f[b] + Sum(v) PROVE FALSE
    <3>1. Sum(s) = f[b] + (f[a] + Sum(v)) /\ Sum(s) # f[a] + (f[b] + Sum(v))
      BY <2>1, <2>4, <2>8
    <3> HIDE DEF Sum, b, v
    <3> QED
      BY <2>7, <3>1
  <2>9. t \in Bad \/ u \in Bad
    <3> HIDE DEF Sum, b, v, t, u
    <3>1. (\E y \in t : Sum(t) # f[y] + Sum(t \ {y}))
          \/ (\E y \in u : Sum(u) # f[y] + Sum(u \ {y}))
      BY <2>6, <2>8
    <3> QED
      BY <2>6, <3>1
  <2> QED
    BY <2>2, <2>3, <2>9
<1>2. Bad \subseteq SUBSET S
  OBVIOUS
<1> HIDE DEF Bad
<1>3. Bad = {}
  BY <1>1, <1>2, NoSmallest
<1>4. S \in SUBSET S
  OBVIOUS
<1> QED
  BY <1>3, <1>4 DEF Bad

(* A sum over more members, of numbers that are not less, is not less. *)
LEMMA SumLeq ==
  ASSUME NEW f, NEW h, NEW S, IsFiniteSet(S), NEW T, T \subseteq S,
         \A x \in T : f[x] \in Nat /\ f[x] <= h[x],
         \A x \in S : h[x] \in Nat
  PROVE  SumFunctionOnSet(f, T) <= SumFunctionOnSet(h, S)
<1> DEFINE F(s) == SumFunctionOnSet(f, s \intersect T)
           H(s) == SumFunctionOnSet(h, s)
           Bad == {s \in SUBSET S : ~ (F(s) <= H(s))}
<1>1. ASSUME NEW s \in Bad PROVE s # {} /\ \E x \in s : s \ {x} \in Bad
  <2>1. s \in SUBSET S /\ IsFiniteSet(s) /\ ~ (F(s) <= H(s))
    BY FS_Subset
  <2>2. s # {}
    <3>1. F({}) = 0 /\ H({}) = 0
      <4>1. {} \intersect T = {}
        OBVIOUS
      <4> QED
        BY <4>1, SumEmpty
    <3> QED
      BY <2>1, <3>1
  <2>3. PICK x \in s : TRUE
    BY <2>2
  <2> DEFINE r == s \ {x}
  <2>4. r \in SUBSET S /\ IsFiniteSet(r) /\ IsFiniteSet(r \intersect T)
        /\ IsFiniteSet(s \intersect T)
    BY <2>1, FS_Subset
  <2>5. H(s) = h[x] + H(r) /\ h[x] \in Nat
    BY <2>1, <2>3, SumRemove
  <2>6. F(s) = (IF x \in T THEN f[x] ELSE 0) + F(r)
    <3>1. CASE x \in T
      <4>1. (s \intersect T) \ {x} = r \intersect T /\ x \in s \intersect T
        BY <2>3, <3>1
      <4>2. \A y \in s \intersect T : f[y] \in Nat
        OBVIOUS
      <4>3. SumFunctionOnSet(f, s \intersect T)
              = f[x] + SumFunctionOnSet(f, (s \intersect T) \ {x})
        BY <2>4, <4>1, <4>2, SumRemove
      <4> QED
        BY <3>1, <4>1, <4>3
    <3>2. CASE x \notin T
      <4>1. s \intersect T = r \intersect T
        BY <3>2
      <4>2. F(r) \in Nat
        BY <2>4, SumNat
      <4> QED
        BY <3>2, <4>1, <4>2
    <3> QED
      BY <3>1, <3>2
  <2>7. F(r) \in Nat /\ H(r) \in Nat
    BY <2>4, SumNat
  <2>8. x \in T => f[x] \in Nat /\ f[x] <= h[x]
    OBVIOUS
  <2>9. ~ (F(r) <= H(r))
    <3> HIDE DEF F, H, r
    <3> QED
      BY <2>1, <2>5, <2>6, <2>7, <2>8
  <2> QED
    BY <2>2, <2>3, <2>4, <2>9
<1>2. Bad \subseteq SUBSET S
  OBVIOUS
<1> HIDE DEF Bad
<1>3. Bad = {}
  BY <1>1, <1>2, NoSmallest
<1>4. F(S) <= H(S)
  BY <1>3 DEF Bad
<1>5. S \intersect T = T
  OBVIOUS
<1> QED
  BY <1>4, <1>5

-----------------------------------------------------------------------------
(* The walk down.  The weights that processes had during it.               *)

Least == [p \in Pids |-> IF WeightsOf(p) = {} THEN 0 ELSE Min(WeightsOf(p))]
Greatest == [p \in Pids |-> IF WeightsOf(p) = {} THEN 0 ELSE Max(WeightsOf(p))]

Total(f, S) == SumFunctionOnSet(f, S)

(* The processes of done have been added, to total. *)
Between(total, done) ==
  /\ Total(Least, kept \intersect done) <= total
  /\ total <= Total(Greatest, done)

LEMMA PidsFinite == IsFiniteSet(Pids) /\ \A S \in SUBSET Pids : IsFiniteSet(S)
<1>1. IsFiniteSet(0 .. MaxPid)
  BY PidsAre, FS_Interval
<1> QED
  BY <1>1, PidsAre, FS_Subset

(* A finite set of naturals has a greatest element, which Max is. *)
LEMMA MaxNat ==
  ASSUME NEW S, IsFiniteSet(S), S \subseteq Nat, S # {}
  PROVE  Max(S) \in S /\ \A x \in S : x <= Max(S)
<1> DEFINE Bad == {t \in SUBSET S : t # {} /\ ~ \E m \in t : \A x \in t : x <= m}
<1>1. ASSUME NEW t \in Bad PROVE t # {} /\ \E x \in t : t \ {x} \in Bad
  <2>1. t # {} /\ t \in SUBSET S /\ ~ \E m \in t : \A x \in t : x <= m
    OBVIOUS
  <2>2. PICK y \in t : TRUE
    BY <2>1
  <2>3. t \ {y} # {}
    <3> SUFFICES ASSUME t \ {y} = {} PROVE FALSE
      OBVIOUS
    <3>1. t = {y} /\ y \in Nat
      BY <2>1, <2>2
    <3> QED
      BY <2>1, <3>1
  <2>4. ASSUME NEW m \in t \ {y}, \A x \in t \ {y} : x <= m PROVE FALSE
    <3>1. m \in Nat /\ y \in Nat /\ t \subseteq Nat
      BY <2>1
    <3>2. CASE y <= m
      BY <2>1, <2>4, <3>2
    <3>3. CASE ~ (y <= m)
      <4>1. \A x \in t : x <= y
        BY <2>4, <3>1, <3>3
      <4> QED
        BY <2>1, <2>2, <4>1
    <3> QED
      BY <3>2, <3>3
  <2> QED
    BY <2>1, <2>2, <2>3, <2>4
<1>2. Bad \subseteq SUBSET S
  OBVIOUS
<1> HIDE DEF Bad
<1>3. Bad = {}
  BY <1>1, <1>2, NoSmallest
<1>4. PICK m \in S : \A x \in S : x <= m
  BY <1>3 DEF Bad
<1>5. \A x \in S : m >= x
  BY <1>4
<1>6. \A x \in S : Max(S) >= x /\ Max(S) \in S
  BY <1>5 DEF Max
<1> QED
  BY <1>4, <1>6

LEMMA WeightsAre ==
  ASSUME TypeOK, IsFiniteSet(seen), NEW p
  PROVE  /\ IsFiniteSet(WeightsOf(p)) /\ WeightsOf(p) \subseteq Nat
         /\ \A w : <<p, w>> \in seen => w \in WeightsOf(p)
<1> DEFINE S == {t \in seen : t[1] = p}
           f == [t \in S |-> t[2]]
<1>1. IsFiniteSet(S)
  BY FS_Subset
<1>2. WeightsOf(p) = {t[2] : t \in S}
  BY Zenon DEF WeightsOf
<1>3. f \in Surjection(S, WeightsOf(p))
  BY <1>2 DEF Surjection
<1>4. IsFiniteSet(WeightsOf(p))
  BY <1>1, <1>3, FS_Surjection DEF ExistsSurjection
<1>5. \A t \in seen : t[2] \in Nat
  BY ValuesAre DEF TypeOK
<1>6. WeightsOf(p) \subseteq Nat
  BY <1>2, <1>5, Zenon
<1>7. ASSUME NEW w, <<p, w>> \in seen PROVE w \in WeightsOf(p)
  <2>1. <<p, w>>[1] = p /\ <<p, w>>[2] = w
    OBVIOUS
  <2> QED
    BY <1>7, <2>1, Zenon DEF WeightsOf
<1> QED
  BY <1>4, <1>6, <1>7

LEMMA LeastGreatest ==
  ASSUME TypeOK, IsFiniteSet(seen), NEW p \in Pids
  PROVE  /\ Least[p] \in Nat /\ Greatest[p] \in Nat
         /\ \A w : <<p, w>> \in seen => Least[p] <= w /\ w <= Greatest[p] /\ w \in Nat
<1>1. /\ IsFiniteSet(WeightsOf(p)) /\ WeightsOf(p) \subseteq Nat
      /\ \A w : <<p, w>> \in seen => w \in WeightsOf(p)
  BY WeightsAre
<1>2. /\ Least[p] = IF WeightsOf(p) = {} THEN 0 ELSE Min(WeightsOf(p))
      /\ Greatest[p] = IF WeightsOf(p) = {} THEN 0 ELSE Max(WeightsOf(p))
  BY DEF Least, Greatest
<1> QED
  BY <1>1, <1>2, MinNat, MaxNat

(* What is noted later makes the bounds wider. *)
LEMMA LeastFalls ==
  ASSUME TypeOK, TypeOK', IsFiniteSet(seen), IsFiniteSet(seen)', seen \subseteq seen',
         NEW p \in Pids
  PROVE  /\ Greatest[p] <= Greatest'[p]
         /\ \A w : <<p, w>> \in seen => Least'[p] <= Least[p]
<1>1. /\ IsFiniteSet(WeightsOf(p)) /\ WeightsOf(p) \subseteq Nat
      /\ \A w : <<p, w>> \in seen => w \in WeightsOf(p)
  BY WeightsAre
<1>2. /\ IsFiniteSet(WeightsOf(p)') /\ WeightsOf(p)' \subseteq Nat
  <2>1. (TypeOK /\ IsFiniteSet(seen) => IsFiniteSet(WeightsOf(p)) /\ WeightsOf(p) \subseteq Nat)'
    BY WeightsAre, PTL
  <2> QED
    BY <2>1
<1>3. WeightsOf(p) \subseteq WeightsOf(p)'
  BY Zenon DEF WeightsOf
<1>4. /\ Least[p] = IF WeightsOf(p) = {} THEN 0 ELSE Min(WeightsOf(p))
      /\ Greatest[p] = IF WeightsOf(p) = {} THEN 0 ELSE Max(WeightsOf(p))
  BY DEF Least, Greatest
<1>5. /\ Least'[p] = IF WeightsOf(p)' = {} THEN 0 ELSE Min(WeightsOf(p)')
      /\ Greatest'[p] = IF WeightsOf(p)' = {} THEN 0 ELSE Max(WeightsOf(p)')
  BY DEF Least, Greatest
<1> DEFINE U == WeightsOf(p)
           V == WeightsOf(p)'
<1> HIDE DEF U, V
<1>6. /\ U # {} => Max(U) \in U /\ Max(U) \in Nat /\ Min(U) \in U
      /\ V # {} => /\ Max(V) \in Nat /\ \A x \in V : x <= Max(V)
                   /\ \A x \in V : Min(V) <= x
  BY <1>1, <1>2, MinNat, MaxNat DEF U, V
<1>7. U \subseteq V
  BY <1>3 DEF U, V
<1>8. Greatest[p] = (IF U = {} THEN 0 ELSE Max(U)) /\ Greatest'[p] = (IF V = {} THEN 0 ELSE Max(V))
      /\ Least[p] = (IF U = {} THEN 0 ELSE Min(U)) /\ Least'[p] = (IF V = {} THEN 0 ELSE Min(V))
      /\ \A w : <<p, w>> \in seen => U # {}
  BY <1>1, <1>4, <1>5 DEF U, V
<1>9. Greatest[p] <= Greatest'[p]
  BY <1>6, <1>7, <1>8
<1>10. ASSUME NEW w, <<p, w>> \in seen PROVE Least'[p] <= Least[p]
  BY <1>6, <1>7, <1>8, <1>10
<1> QED
  BY <1>9, <1>10

LEMMA BoundsType ==
  TypeOK /\ IsFiniteSet(seen) => \A p \in Pids : Least[p] \in Nat /\ Greatest[p] \in Nat
BY LeastGreatest

LEMMA BoundsNat ==
  ASSUME TypeOK, IsFiniteSet(seen), NEW S \in SUBSET Pids
  PROVE  Total(Least, S) \in Nat /\ Total(Greatest, S) \in Nat
<1>1. \A p \in S : Least[p] \in Nat /\ Greatest[p] \in Nat
  BY LeastGreatest
<1> QED
  BY <1>1, PidsFinite, SumNat DEF Total

(* The walk adds one more. *)
LEMMA BetweenMore ==
  ASSUME TypeOK, IsFiniteSet(seen), NEW done \in SUBSET Pids, NEW p \in Pids \ done,
         NEW w, <<p, w>> \in seen, NEW total \in Nat, Between(total, done)
  PROVE  Between(total + w, done \union {p})
<1> DEFINE S == kept \intersect done
           T == kept \intersect (done \union {p})
           more == done \union {p}
<1>1. Least[p] \in Nat /\ Greatest[p] \in Nat /\ Least[p] <= w /\ w <= Greatest[p] /\ w \in Nat
  BY LeastGreatest
<1>2. /\ \A q \in T : Least[q] \in Nat
      /\ \A q \in more : Greatest[q] \in Nat
  BY LeastGreatest
<1>3. IsFiniteSet(S) /\ IsFiniteSet(T) /\ IsFiniteSet(more) /\ S \in SUBSET Pids
  BY PidsFinite
<1>4. Total(Least, S) \in Nat /\ Total(Greatest, done) \in Nat
  BY <1>3, BoundsNat
<1>5. Total(Least, T) = (IF p \in kept THEN Least[p] ELSE 0) + Total(Least, S)
  <2>1. CASE p \in kept
    <3>1. p \in T /\ T \ {p} = S
      BY <2>1
    <3> HIDE DEF T, S
    <3>2. SumFunctionOnSet(Least, T) = Least[p] + SumFunctionOnSet(Least, T \ {p})
      BY <1>2, <1>3, <3>1, SumRemove
    <3>3. SumFunctionOnSet(Least, T) = Least[p] + SumFunctionOnSet(Least, S)
      BY <3>1, <3>2, Zenon
    <3> QED
      BY <1>1, <2>1, <3>3 DEF Total
  <2>2. CASE p \notin kept
    <3>1. T = S
      BY <2>2
    <3> HIDE DEF S, T
    <3>2. Total(Least, T) = Total(Least, S)
      BY <3>1
    <3> QED
      BY <1>4, <2>2, <3>2
  <2> QED
    BY <2>1, <2>2
<1>6. Total(Greatest, more) = Greatest[p] + Total(Greatest, done)
  <2>1. p \in more /\ more \ {p} = done
    OBVIOUS
  <2> HIDE DEF more
  <2> QED
    BY <1>2, <1>3, <2>1, SumRemove DEF Total
<1>7. Total(Least, S) <= total /\ total <= Total(Greatest, done)
  BY DEF Between
<1>8. Total(Least, T) <= total + w /\ total + w <= Total(Greatest, more)
  <2> HIDE DEF S, T, more
  <2> QED
    BY <1>1, <1>4, <1>5, <1>6, <1>7
<1> QED
  BY <1>8 DEF Between

(* More weights are noted, more processes done and fewer kept. *)
LEMMA BetweenStays ==
  ASSUME TypeOK, TypeOK', IsFiniteSet(seen), IsFiniteSet(seen)', seen \subseteq seen',
         NEW done \in SUBSET Pids, NEW done2 \in SUBSET Pids, done \subseteq done2,
         kept' \intersect done2 \subseteq kept \intersect done,
         \A p \in kept : \E w : <<p, w>> \in seen,
         NEW total \in Nat, Between(total, done)
  PROVE  Between(total, done2)'
<1> DEFINE S == kept \intersect done
           S2 == kept' \intersect done2
<1>1. /\ IsFiniteSet(S) /\ IsFiniteSet(S2) /\ IsFiniteSet(done) /\ IsFiniteSet(done2)
      /\ S \in SUBSET Pids /\ S2 \in SUBSET Pids
  BY PidsFinite
<1>2. \A p \in Pids : Least[p] \in Nat /\ Greatest[p] \in Nat
  BY LeastGreatest
<1>3. \A p \in Pids : Least'[p] \in Nat /\ Greatest'[p] \in Nat
  <2>1. (TypeOK /\ IsFiniteSet(seen) =>
           \A p \in Pids : Least[p] \in Nat /\ Greatest[p] \in Nat)'
    BY BoundsType, PTL
  <2> QED
    BY <2>1
<1>4. \A p \in S2 : Least'[p] \in Nat /\ Least'[p] <= Least[p]
  BY <1>3, LeastFalls
<1>5. \A p \in done : Greatest[p] \in Nat /\ Greatest[p] <= Greatest'[p]
  BY <1>2, LeastFalls
<1>6. Total(Least', S2) <= Total(Least, S)
  <2>1. S2 \subseteq S /\ \A p \in S : Least[p] \in Nat
    BY <1>2
  <2> HIDE DEF S, S2
  <2> QED
    BY <1>1, <1>4, <2>1, SumLeq DEF Total
<1>7. Total(Greatest, done) <= Total(Greatest', done2)
  <2>1. \A p \in done2 : Greatest'[p] \in Nat
    BY <1>3
  <2> QED
    BY <1>1, <1>5, <2>1, SumLeq DEF Total
<1>8. /\ Total(Least, S) \in Nat /\ Total(Greatest, done) \in Nat
      /\ Total(Least', S2) \in Nat /\ Total(Greatest', done2) \in Nat
  <2>1. Total(Least, S) \in Nat /\ Total(Greatest, done) \in Nat
    BY <1>1, BoundsNat
  <2>2. \A p \in S2 : Least'[p] \in Nat
    BY <1>4
  <2>3. \A p \in done2 : Greatest'[p] \in Nat
    BY <1>3
  <2> HIDE DEF S, S2
  <2> QED
    BY <1>1, <2>1, <2>2, <2>3, SumNat DEF Total
<1>9. Total(Least, S) <= total /\ total <= Total(Greatest, done)
  BY DEF Between
<1>10. Total(Least', S2) <= total /\ total <= Total(Greatest', done2)
  <2> HIDE DEF S, S2
  <2> QED
    BY <1>6, <1>7, <1>8, <1>9
<1> QED
  BY <1>10 DEF Between, Total

-----------------------------------------------------------------------------
(* The lists.                                                              *)

(* A process is listed once, under its parent. *)
Listed == \A p \in Pids :
  /\ \A i, j \in DOMAIN children[p] : children[p][i] = children[p][j] => i = j
  /\ \A q \in Members(p) : real_parent[q] = p /\ q \in Used

Once(s) == \A i, j \in DOMAIN s : s[i] = s[j] => i = j

LEMMA OnceConcat ==
  ASSUME NEW s \in Seq(Pids), NEW t \in Seq(Pids), Once(s), Once(t),
         ToSet(s) \intersect ToSet(t) = {}
  PROVE  Once(s \o t)
<1>1. /\ s \o t \in Seq(Pids)
      /\ Len(s \o t) = Len(s) + Len(t)
      /\ \A i \in 1 .. Len(s) + Len(t) :
           (s \o t)[i] = IF i <= Len(s) THEN s[i] ELSE t[i - Len(s)]
  BY ConcatProperties
<1>2. /\ Len(s) \in Nat /\ Len(t) \in Nat
      /\ DOMAIN s = 1 .. Len(s) /\ DOMAIN t = 1 .. Len(t)
      /\ DOMAIN (s \o t) = 1 .. Len(s) + Len(t)
  BY <1>1
<1> DEFINE u == s \o t
<1> HIDE DEF u
<1> SUFFICES ASSUME NEW i \in DOMAIN u, NEW j \in DOMAIN u, u[i] = u[j] PROVE i = j
  BY DEF Once, u
<1>3. i \in 1 .. Len(s) + Len(t) /\ j \in 1 .. Len(s) + Len(t)
  BY <1>2 DEF u
<1>4. u[i] = (IF i <= Len(s) THEN s[i] ELSE t[i - Len(s)])
      /\ u[j] = (IF j <= Len(s) THEN s[j] ELSE t[j - Len(s)])
  BY <1>1, <1>3 DEF u
<1>5. /\ i <= Len(s) => i \in DOMAIN s
      /\ ~ (i <= Len(s)) => i - Len(s) \in DOMAIN t
      /\ j <= Len(s) => j \in DOMAIN s
      /\ ~ (j <= Len(s)) => j - Len(s) \in DOMAIN t
  BY <1>2, <1>3
<1>6. \A a \in DOMAIN s, b \in DOMAIN t : s[a] # t[b]
  BY DEF ToSet
<1>7. CASE i <= Len(s) /\ j <= Len(s)
  BY <1>4, <1>5, <1>7 DEF Once
<1>8. CASE ~ (i <= Len(s)) /\ ~ (j <= Len(s))
  <2>1. i - Len(s) = j - Len(s)
    BY <1>4, <1>5, <1>8 DEF Once
  <2> QED
    BY <1>2, <1>3, <2>1
<1>9. CASE i <= Len(s) /\ ~ (j <= Len(s))
  BY <1>4, <1>5, <1>6, <1>9
<1>10. CASE ~ (i <= Len(s)) /\ j <= Len(s)
  BY <1>4, <1>5, <1>6, <1>10
<1> QED
  BY <1>7, <1>8, <1>9, <1>10

LEMMA OnceRemove ==
  ASSUME NEW s \in Seq(Pids), NEW i \in DOMAIN s, Once(s)
  PROVE  Once(RemoveAt(s, i))
<1> DEFINE a == SubSeq(s, 1, i - 1)
           b == SubSeq(s, i + 1, Len(s))
<1>1. /\ Len(s) \in Nat /\ DOMAIN s = 1 .. Len(s) /\ i \in 1 .. Len(s)
      /\ \A k \in 1 .. Len(s) : s[k] \in Pids
  BY ElementOfSeq
<1>2. /\ a \in Seq(Pids)
      /\ Len(a) = i - 1
      /\ \A k \in 1 .. i - 1 : a[k] = s[k]
  BY <1>1, SubSeqProperties
<1>3. /\ b \in Seq(Pids)
      /\ Len(b) = Len(s) - i
      /\ \A k \in 1 .. Len(s) - i : b[k] = s[k + i]
  BY <1>1, SubSeqProperties
<1>4. RemoveAt(s, i) = a \o b
  BY DEF RemoveAt
<1> HIDE DEF a, b
<1>5. DOMAIN a = 1 .. i - 1 /\ DOMAIN b = 1 .. Len(s) - i
  BY <1>2, <1>3
<1>6. /\ \A k \in 1 .. i - 1 : k \in DOMAIN s
      /\ \A k \in 1 .. Len(s) - i : k + i \in DOMAIN s
  BY <1>1
<1>7. Once(a)
  BY <1>2, <1>5, <1>6 DEF Once
<1>8. Once(b)
  <2> SUFFICES ASSUME NEW k \in 1 .. Len(s) - i, NEW m \in 1 .. Len(s) - i, b[k] = b[m]
               PROVE  k = m
    BY <1>5 DEF Once
  <2>1. k + i = m + i
    BY <1>3, <1>6 DEF Once
  <2> QED
    BY <1>1, <2>1
<1>9. ToSet(a) \intersect ToSet(b) = {}
  <2> SUFFICES ASSUME NEW k \in 1 .. i - 1, NEW m \in 1 .. Len(s) - i, a[k] = b[m]
               PROVE  FALSE
    BY <1>5 DEF ToSet
  <2>1. k = m + i
    BY <1>2, <1>3, <1>6 DEF Once
  <2> QED
    BY <1>1, <2>1
<1> QED
  BY <1>2, <1>3, <1>4, <1>7, <1>8, <1>9, OnceConcat

LEMMA ListedOnce ==
  Listed <=> \A p \in Pids : /\ Once(children[p])
                             /\ \A q \in Members(p) : real_parent[q] = p /\ q \in Used
BY DEF Listed, Once

LEMMA ListedThen ==
  ASSUME \A p \in Pids : Once(children'[p]),
         \A p \in Pids : \A q \in Members(p)' : real_parent'[q] = p /\ q \in Used'
  PROVE  Listed'
BY DEF Listed, Once

LEMMA InitListed == Init => Listed
<1> SUFFICES ASSUME Init PROVE Listed
  OBVIOUS
<1>1. TypeOK /\ Rooted
  BY InitShape DEF Shape
<1>2. \A p \in Pids : children[p] = IF p = Swapper THEN <<init_pid>> ELSE <<>>
  BY DEF Init
<1>3. \A p \in Pids : Once(children[p])
  BY <1>2 DEF Once
<1>4. \A p \in Pids : Members(p) = IF p = Swapper THEN {init_pid} ELSE {}
  BY <1>2 DEF Members, ToSet
<1>5. real_parent[init_pid] = Swapper
  BY PidsAre DEF Init
<1> QED
  BY <1>1, <1>3, <1>4, <1>5, ListedOnce DEF Rooted

-----------------------------------------------------------------------------
(* Where the walk down is: at the end of a path from its caller.           *)

Path(caller, path) == caller \in Pids \ {Swapper} /\ path \in Seq(Pids) /\ path # <<>>

(* The father of the i-th process of the path, and all that are on it. *)
Over(caller, path, i) == IF i = 1 THEN caller ELSE path[i - 1]
On(caller, path) == {path[i] : i \in 1 .. Len(path)} \union {caller}

(* Of the children of p, those before x have been done. *)
PlacedAt(p, x, done) ==
  \E k \in DOMAIN children[p] :
    /\ children[p][k] = x
    /\ \A j \in DOMAIN children[p] : children[p][j] \in done <=> j < k

Placed(caller, path, done) ==
  \A i \in 1 .. Len(path) : PlacedAt(Over(caller, path, i), path[i], done)

(* With a process all below it have been done; its parent is on the path   *)
(* if it has not been.                                                     *)
Closed(on, done) ==
  \A q \in done : /\ Members(q) \subseteq done
                  /\ real_parent[q] \in done \union on
                  /\ q \in Members(real_parent[q])

(* done is what the walk has added when it stands at the end of path. *)
Traversed(caller, path, down, done) ==
  /\ done \subseteq Pids \ On(caller, path)
  /\ Placed(caller, path, done)
  /\ Closed(On(caller, path), done)
  /\ IF down THEN Members(Last(path)) \intersect done = {}
     ELSE Members(Last(path)) \subseteq done

LEMMA PathIs ==
  ASSUME NEW c, NEW s, Path(c, s)
  PROVE  /\ Len(s) \in Nat \ {0}
         /\ \A i \in 1 .. Len(s) : s[i] \in Pids /\ Over(c, s, i) \in Pids
                                   /\ s[i] \in On(c, s) /\ Over(c, s, i) \in On(c, s)
         /\ Last(s) = s[Len(s)] /\ Last(s) \in Pids /\ Last(s) \in On(c, s)
         /\ c \in On(c, s) /\ On(c, s) \subseteq Pids
         /\ Len(s) \in 1 .. Len(s)
<1>1. s \in Seq(Pids) /\ s # <<>> /\ c \in Pids
  BY DEF Path
<1>2. Len(s) \in Nat \ {0}
  BY <1>1
<1>3. \A i \in 1 .. Len(s) : s[i] \in Pids
  BY <1>1, ElementOfSeq
<1>4. Len(s) \in 1 .. Len(s)
  BY <1>2
<1>5. ASSUME NEW i \in 1 .. Len(s) PROVE Over(c, s, i) \in Pids /\ Over(c, s, i) \in On(c, s)
  <2>1. i # 1 => i - 1 \in 1 .. Len(s)
    BY <1>2
  <2> QED
    BY <1>1, <1>3, <2>1 DEF Over, On
<1> QED
  BY <1>1, <1>2, <1>3, <1>4, <1>5 DEF On, Last

(* Each process of the path is a child of the one before, and came later   *)
(* than all before it.                                                     *)
LEMMA PathRises ==
  ASSUME Shape, Listed, NEW c, NEW s, Path(c, s), NEW d, Placed(c, s, d)
  PROVE  /\ \A i \in 1 .. Len(s) : /\ s[i] \in Members(Over(c, s, i))
                                   /\ real_parent[s[i]] = Over(c, s, i)
                                   /\ s[i] \in Used
                                   /\ c < s[i]
         /\ \A i \in 1 .. Len(s) : \A j \in 1 .. i - 1 : s[j] < s[i]
<1>1. /\ Len(s) \in Nat \ {0} /\ c \in Nat
      /\ \A i \in 1 .. Len(s) : s[i] \in Pids /\ s[i] \in Nat
                                /\ Over(c, s, i) \in Pids /\ Over(c, s, i) \in Nat
  BY PathIs, PidsAre DEF Path
<1>2. ASSUME NEW i \in 1 .. Len(s)
      PROVE  /\ s[i] \in Members(Over(c, s, i))
             /\ real_parent[s[i]] = Over(c, s, i)
             /\ s[i] \in Used
             /\ Over(c, s, i) < s[i]
  <2>1. s[i] \in Members(Over(c, s, i))
    BY DEF Placed, PlacedAt, Members, ToSet
  <2> QED
    BY <1>1, <2>1 DEF Listed, Shape, Rooted
<1> DEFINE Bad == {i \in 1 .. Len(s) : ~ (c < s[i] /\ \A j \in 1 .. i - 1 : s[j] < s[i])}
<1>3. ASSUME NEW i \in Bad PROVE \E j \in Bad : j < i
  <2>1. i \in 1 .. Len(s) /\ ~ (c < s[i] /\ \A j \in 1 .. i - 1 : s[j] < s[i])
    OBVIOUS
  <2>2. i # 1
    BY <1>2, <2>1 DEF Over
  <2>3. i - 1 \in 1 .. Len(s) /\ i - 1 < i
    BY <1>1, <2>1, <2>2
  <2>4. s[i - 1] < s[i]
    BY <1>2, <2>1, <2>2 DEF Over
  <2>5. i - 1 \in Bad
    <3> SUFFICES ASSUME c < s[i - 1] /\ \A j \in 1 .. (i - 1) - 1 : s[j] < s[i - 1]
                 PROVE  FALSE
      BY <2>3
    <3>1. c < s[i]
      BY <1>1, <2>1, <2>3, <2>4
    <3>2. ASSUME NEW j \in 1 .. i - 1 PROVE s[j] < s[i]
      <4>1. CASE j = i - 1
        BY <2>4, <4>1
      <4>2. CASE j # i - 1
        <5>1. j \in 1 .. (i - 1) - 1 /\ j \in 1 .. Len(s)
          BY <2>1, <4>2
        <5>2. s[j] < s[i - 1]
          BY <5>1
        <5> QED
          BY <1>1, <2>1, <2>3, <2>4, <5>1, <5>2
      <4> QED
        BY <4>1, <4>2
    <3> QED
      BY <2>1, <3>1, <3>2
  <2> QED
    BY <2>3, <2>5
<1>4. Bad \subseteq Nat
  OBVIOUS
<1> HIDE DEF Bad
<1>5. Bad = {}
  <2> SUFFICES ASSUME Bad # {} PROVE FALSE
    OBVIOUS
  <2>1. PICK i \in Bad : \A j \in Bad : i <= j
    BY <1>4, LeastElement
  <2>2. PICK j \in Bad : j < i
    BY <1>3
  <2> QED
    BY <1>4, <2>1, <2>2
<1> QED
  BY <1>2, <1>5 DEF Bad

(* The last one is a child of its father only, and a father of none. *)
LEMMA PathEnds ==
  ASSUME Shape, Listed, NEW c, NEW s, Path(c, s), NEW d, Placed(c, s, d)
  PROVE  /\ Last(s) \in Members(Over(c, s, Len(s)))
         /\ real_parent[Last(s)] = Over(c, s, Len(s))
         /\ Last(s) \in Used
         /\ Last(s) # c /\ Last(s) # Swapper
         /\ \A i \in 1 .. Len(s) : i # Len(s) => s[i] # Last(s)
         /\ \A i \in 1 .. Len(s) : Over(c, s, i) # Last(s)
         /\ \A i \in 1 .. Len(s) : i # Len(s) => Over(c, s, i) # Over(c, s, Len(s))
         /\ \A x \in On(c, s) : x <= Last(s)
<1> DEFINE n == Len(s)
<1>1. /\ n \in Nat \ {0} /\ c \in Nat /\ c # Swapper
      /\ \A i \in 1 .. n : s[i] \in Nat
      /\ Last(s) = s[n] /\ n \in 1 .. n
  BY PathIs, PidsAre DEF Path
<1>2. /\ \A i \in 1 .. n : /\ s[i] \in Members(Over(c, s, i))
                           /\ real_parent[s[i]] = Over(c, s, i)
                           /\ s[i] \in Used
                           /\ c < s[i]
      /\ \A i \in 1 .. n : \A j \in 1 .. i - 1 : s[j] < s[i]
  BY PathRises
<1> HIDE DEF n
<1>3. \A i \in 1 .. n : i # n => i \in 1 .. n - 1 /\ s[i] < s[n]
  BY <1>1, <1>2
<1>4. Last(s) # c /\ Last(s) # Swapper
  BY <1>1, <1>2, PidsAre
<1>5. ASSUME NEW i \in 1 .. n PROVE Over(c, s, i) < s[n]
  <2>1. CASE i = 1
    BY <1>1, <1>2, <2>1 DEF Over
  <2>2. CASE i # 1
    <3>1. i - 1 \in 1 .. n /\ i - 1 # n
      BY <1>1, <2>2
    <3> QED
      BY <1>3, <2>2, <3>1 DEF Over
  <2> QED
    BY <2>1, <2>2
<1>6. ASSUME NEW i \in 1 .. n, i # n PROVE Over(c, s, i) # Over(c, s, n)
  <2>1. n # 1 /\ n - 1 \in 1 .. n /\ Over(c, s, n) = s[n - 1]
    BY <1>1, <1>6 DEF Over
  <2>2. CASE i = 1
    BY <1>1, <1>2, <2>1, <2>2 DEF Over
  <2>3. CASE i # 1
    <3>1. i - 1 \in 1 .. (n - 1) - 1 /\ i - 1 \in 1 .. n
      BY <1>1, <1>6, <2>3
    <3>2. s[i - 1] < s[n - 1]
      BY <1>2, <2>1, <3>1
    <3> QED
      BY <1>1, <2>1, <2>3, <3>1, <3>2 DEF Over
  <2> QED
    BY <2>2, <2>3
<1>7. \A x \in On(c, s) : x <= Last(s)
  BY <1>1, <1>2, <1>3 DEF On, n
<1>8. \A i \in 1 .. n : Over(c, s, i) # Last(s)
  <2>1. \A i \in 1 .. n : Over(c, s, i) \in Nat
    BY PathIs, PidsAre DEF n
  <2> QED
    BY <1>1, <1>5, <2>1
<1>9. \A i \in 1 .. n : i # n => s[i] # Last(s)
  BY <1>1, <1>3
<1> QED
  BY <1>1, <1>2, <1>4, <1>6, <1>7, <1>8, <1>9 DEF n

(* The walk begins at the first child of its caller. *)
LEMMA TraversedFirst ==
  ASSUME Shape, Listed, NEW c \in Pids \ {Swapper}, children[c] # <<>>
  PROVE  Path(c, <<Head(children[c])>>) /\ Traversed(c, <<Head(children[c])>>, TRUE, {})
<1> DEFINE h == Head(children[c])
           s == <<h>>
<1>1. /\ children[c] \in Seq(Pids) /\ Len(children[c]) \in Nat /\ c \in Pids
      /\ DOMAIN children[c] = 1 .. Len(children[c])
  BY ChildAt DEF Shape
<1>2. h = children[c][1] /\ 1 \in DOMAIN children[c] /\ h \in Pids
  <2>1. h = children[c][1] /\ 1 \in DOMAIN children[c]
    BY <1>1
  <2> QED
    BY <1>1, <2>1, ElementOfSeq
<1> HIDE DEF h
<1>3. s \in Seq(Pids) /\ s # <<>> /\ Len(s) = 1 /\ s[1] = h /\ Last(s) = h
  BY <1>2 DEF Last
<1> HIDE DEF s
<1>4. Path(c, s)
  BY <1>3 DEF Path
<1>5. PlacedAt(c, h, {})
  <2>1. \A j \in DOMAIN children[c] : ~ (j < 1)
    BY <1>1
  <2> QED
    BY <1>2, <2>1 DEF PlacedAt
<1>6. Placed(c, s, {})
  <2>1. \A i \in 1 .. Len(s) : i = 1
    BY <1>3
  <2> QED
    BY <1>3, <1>5, <2>1 DEF Placed, Over
<1>7. Traversed(c, s, TRUE, {})
  BY <1>6 DEF Traversed, Closed
<1> QED
  BY <1>4, <1>7 DEF s, h

(* It goes down to the first child, *)
LEMMA TraversedDown ==
  ASSUME Shape, Listed, NEW c, NEW s, Path(c, s), NEW d, Traversed(c, s, TRUE, d),
         children[Last(s)] # <<>>
  PROVE  /\ Path(c, Append(s, Head(children[Last(s)])))
         /\ Traversed(c, Append(s, Head(children[Last(s)])), TRUE, d)
<1> DEFINE n == Len(s)
           t == Last(s)
           h == Head(children[t])
           s2 == Append(s, h)
<1>1. /\ n \in Nat \ {0} /\ s \in Seq(Pids) /\ c \in Pids \ {Swapper}
      /\ \A i \in 1 .. n : s[i] \in Pids
      /\ t = s[n] /\ t \in Pids /\ On(c, s) \subseteq Pids /\ n \in 1 .. n
  BY PathIs DEF Path
<1>2. /\ children[t] \in Seq(Pids) /\ Len(children[t]) \in Nat
      /\ DOMAIN children[t] = 1 .. Len(children[t])
      /\ \A i \in 1 .. Len(children[t]) : children[t][i] \in Members(t)
      /\ Members(t) \subseteq Pids
  BY <1>1, ChildAt DEF Shape
<1>3. h = children[t][1] /\ 1 \in DOMAIN children[t] /\ h \in Members(t) /\ h \in Pids
  <2>1. h = children[t][1] /\ 1 \in DOMAIN children[t]
    BY <1>2
  <2> QED
    BY <1>2, <2>1
<1> HIDE DEF t, h
<1>4. /\ s2 \in Seq(Pids) /\ s2 # <<>> /\ Len(s2) = n + 1 /\ s2[n + 1] = h
      /\ \A i \in 1 .. n : s2[i] = s[i]
  BY <1>1, <1>3
<1>5. Path(c, s2) /\ Last(s2) = h
  BY <1>1, <1>4 DEF Path, Last
<1> HIDE DEF s2, n
<1>6. /\ d \subseteq Pids \ On(c, s) /\ Placed(c, s, d) /\ Closed(On(c, s), d)
      /\ Members(t) \intersect d = {}
  BY DEF Traversed, t
<1>7. \A x \in On(c, s) : x <= t
  BY <1>6, PathEnds DEF t
<1>8. t < h /\ real_parent[h] = t
  BY <1>1, <1>3 DEF Shape, Rooted, Listed
<1>9. h \notin On(c, s) /\ h \notin d
  BY <1>1, <1>3, <1>6, <1>7, <1>8, PidsAre
<1>10. On(c, s2) = On(c, s) \union {h}
  <2>1. \A i \in 1 .. n + 1 : i \in 1 .. n \/ i = n + 1
    BY <1>1
  <2>2. 1 .. n \subseteq 1 .. n + 1 /\ n + 1 \in 1 .. n + 1
    BY <1>1
  <2> QED
    BY <1>4, <2>1, <2>2 DEF On, n
<1>11. Placed(c, s2, d)
  <2> SUFFICES ASSUME NEW i \in 1 .. n + 1
               PROVE  PlacedAt(Over(c, s2, i), s2[i], d)
    BY <1>4 DEF Placed
  <2>1. CASE i \in 1 .. n
    <3>1. i # 1 => i - 1 \in 1 .. n
      BY <1>1, <2>1
    <3>2. Over(c, s2, i) = Over(c, s, i)
      BY <1>4, <3>1 DEF Over
    <3> QED
      BY <1>4, <1>6, <2>1, <3>2 DEF Placed, n
  <2>2. CASE i = n + 1
    <3>1. i # 1 /\ i - 1 = n /\ Over(c, s2, i) = t /\ s2[i] = h
      BY <1>1, <1>4, <2>2 DEF Over
    <3>2. \A j \in DOMAIN children[t] : children[t][j] \notin d /\ ~ (j < 1)
      BY <1>2, <1>6
    <3> QED
      BY <1>3, <3>1, <3>2 DEF PlacedAt
  <2> QED
    BY <1>1, <2>1, <2>2
<1>12. Closed(On(c, s2), d)
  BY <1>6, <1>10 DEF Closed
<1>13. Members(h) \intersect d = {}
  <2> SUFFICES ASSUME NEW x \in Members(h), x \in d PROVE FALSE
    OBVIOUS
  <2>1. real_parent[x] = h
    BY <1>3 DEF Listed
  <2> QED
    BY <1>6, <1>9, <2>1 DEF Closed
<1>14. Traversed(c, s2, TRUE, d)
  BY <1>5, <1>6, <1>9, <1>10, <1>11, <1>12, <1>13 DEF Traversed
<1> QED
  BY <1>5, <1>14 DEF s2, h, t

(* and turns where there is none. *)
LEMMA TraversedLeaf ==
  ASSUME NEW c, NEW s, NEW d, Traversed(c, s, TRUE, d), children[Last(s)] = <<>>
  PROVE  Traversed(c, s, FALSE, d)
<1>1. Members(Last(s)) = {}
  BY DEF Members, ToSet
<1> QED
  BY <1>1 DEF Traversed

LEMMA NextPosAt ==
  ASSUME NEW s \in Seq(Pids), Once(s), NEW k \in DOMAIN s
  PROVE  NextPos(s, s[k]) = k + 1
<1> DEFINE I == {i \in 1 .. Len(s) : s[i] = s[k]}
<1>1. SelectInSeq(s, LAMBDA e : e = s[k]) = IF I # {} THEN Min(I) ELSE 0
  BY DEF SelectInSeq
<1>2. DOMAIN s = 1 .. Len(s)
  OBVIOUS
<1>3. I = {k} /\ I \subseteq Nat
  BY <1>2 DEF Once
<1> HIDE DEF I
<1>4. Min(I) = k
  BY <1>3, MinNat
<1> QED
  BY <1>1, <1>3, <1>4 DEF NextPos

(* What it adds, on its way up, is the end of the path. *)
LEMMA TraversedTakes ==
  ASSUME Shape, Listed, NEW c, NEW s, Path(c, s), NEW d, Traversed(c, s, FALSE, d)
  PROVE  LET n == Len(s)
             t == Last(s)
             f == Over(c, s, n)
         IN /\ t \notin d /\ d \union {t} \subseteq Pids \ (On(c, s) \ {t})
            /\ \A i \in 1 .. n : i # n => PlacedAt(Over(c, s, i), s[i], d \union {t})
            /\ Closed(On(c, s) \ {t}, d \union {t})
            /\ \E k \in DOMAIN children[f] :
                 /\ children[f][k] = t /\ NextPos(children[f], t) = k + 1
                 /\ \A j \in DOMAIN children[f] :
                      children[f][j] \in d \union {t} <=> j <= k
<1> DEFINE n == Len(s)
           t == Last(s)
           f == Over(c, s, n)
           d2 == d \union {t}
<1>1. /\ n \in Nat \ {0} /\ t = s[n] /\ t \in Pids /\ On(c, s) \subseteq Pids /\ n \in 1 .. n
      /\ t \in On(c, s) /\ f \in Pids /\ f \in On(c, s)
      /\ \A i \in 1 .. n : s[i] \in Pids /\ Over(c, s, i) \in Pids
  BY PathIs
<1>2. /\ d \subseteq Pids \ On(c, s) /\ Placed(c, s, d) /\ Closed(On(c, s), d)
      /\ Members(t) \subseteq d
  BY DEF Traversed
<1>3. /\ t \in Members(f) /\ real_parent[t] = f
      /\ \A i \in 1 .. n : Over(c, s, i) # t
      /\ \A i \in 1 .. n : i # n => Over(c, s, i) # f
  BY <1>2, PathEnds
<1> HIDE DEF n, t, f
<1>4. t \notin d /\ d2 \subseteq Pids \ (On(c, s) \ {t})
  BY <1>1, <1>2
<1>5. ASSUME NEW i \in 1 .. n, i # n PROVE PlacedAt(Over(c, s, i), s[i], d2)
  <2> DEFINE p == Over(c, s, i)
  <2>1. p \in Pids /\ p # f
    BY <1>1, <1>3, <1>5
  <2>2. PlacedAt(p, s[i], d)
    BY <1>2 DEF Placed, n
  <2> HIDE DEF p
  <2>3. \A j \in DOMAIN children[p] : children[p][j] # t
    BY <1>3, <2>1 DEF Listed, Members, ToSet
  <2>4. \A j \in DOMAIN children[p] : children[p][j] \in d2 <=> children[p][j] \in d
    BY <2>3
  <2> HIDE DEF d2
  <2>5. PlacedAt(p, s[i], d2)
    BY <2>2, <2>4 DEF PlacedAt
  <2> QED
    BY <2>5 DEF p
<1>6. Closed(On(c, s) \ {t}, d2)
  <2> SUFFICES ASSUME NEW q \in d2
               PROVE  /\ Members(q) \subseteq d2
                      /\ real_parent[q] \in d2 \union (On(c, s) \ {t})
                      /\ q \in Members(real_parent[q])
    BY DEF Closed
  <2>1. CASE q \in d
    BY <1>2, <2>1 DEF Closed
  <2>2. CASE q = t
    <3>1. f # t
      BY <1>1, <1>3 DEF f
    <3> QED
      BY <1>1, <1>2, <1>3, <2>2, <3>1
  <2> QED
    BY <2>1, <2>2
<1>7. \E k \in DOMAIN children[f] :
        /\ children[f][k] = t /\ NextPos(children[f], t) = k + 1
        /\ \A j \in DOMAIN children[f] : children[f][j] \in d2 <=> j <= k
  <2>1. PlacedAt(f, t, d)
    BY <1>1, <1>2 DEF Placed, f, n
  <2>2. PICK k \in DOMAIN children[f] :
          /\ children[f][k] = t
          /\ \A j \in DOMAIN children[f] : children[f][j] \in d <=> j < k
    BY <2>1 DEF PlacedAt
  <2>3. /\ children[f] \in Seq(Pids) /\ Once(children[f])
        /\ DOMAIN children[f] = 1 .. Len(children[f])
    BY <1>1, ChildAt, ListedOnce DEF Shape
  <2>4. NextPos(children[f], t) = k + 1
    BY <2>2, <2>3, NextPosAt
  <2>5. ASSUME NEW j \in DOMAIN children[f]
        PROVE  children[f][j] \in d2 <=> j <= k
    <3>1. children[f][j] = t <=> j = k
      BY <2>2, <2>3 DEF Once
    <3>2. j \in Int /\ k \in Int
      BY <2>3
    <3>3. j <= k <=> j < k \/ j = k
      BY <3>2
    <3> QED
      BY <2>2, <3>1, <3>3
  <2> QED
    BY <2>2, <2>4, <2>5
<1> QED
  BY <1>4, <1>5, <1>6, <1>7 DEF n, t, f

LEMMA PredecessorIn == \A n \in Nat \ {0} : n # 1 => n - 1 \in 1 .. n
OBVIOUS

(* The path without its last process, and with another in its place. *)
LEMMA FrontIs ==
  ASSUME NEW c, NEW s, Path(c, s)
  PROVE  /\ Front(s) \in Seq(Pids) /\ Len(Front(s)) = Len(s) - 1
         /\ \A i \in 1 .. Len(s) - 1 : Front(s)[i] = s[i]
<1> DEFINE n == Len(s)
<1>1. n \in Nat \ {0} /\ \A i \in 1 .. n : s[i] \in Pids
  BY PathIs
<1> HIDE DEF n
<1>2. /\ n - 1 \in Int /\ 1 \in Int /\ \A i \in 1 .. n - 1 : s[i] \in Pids
      /\ (IF 1 <= n - 1 THEN (n - 1) - 1 + 1 ELSE 0) = n - 1
      /\ (n - 1) - 1 + 1 = n - 1 /\ \A i \in 1 .. n - 1 : 1 + i - 1 = i
  BY <1>1
<1>3. /\ SubSeq(s, 1, n - 1) \in Seq(Pids)
      /\ Len(SubSeq(s, 1, n - 1)) = IF 1 <= n - 1 THEN (n - 1) - 1 + 1 ELSE 0
      /\ \A i \in 1 .. (n - 1) - 1 + 1 : SubSeq(s, 1, n - 1)[i] = s[1 + i - 1]
  BY <1>2, SubSeqProperties
<1>4. /\ SubSeq(s, 1, n - 1) \in Seq(Pids)
      /\ Len(SubSeq(s, 1, n - 1)) = n - 1
      /\ \A i \in 1 .. n - 1 : SubSeq(s, 1, n - 1)[i] = s[i]
  <2> DEFINE u == SubSeq(s, 1, n - 1)
  <2> HIDE DEF u
  <2>1. /\ u \in Seq(Pids)
        /\ Len(u) = IF 1 <= n - 1 THEN (n - 1) - 1 + 1 ELSE 0
        /\ \A i \in 1 .. (n - 1) - 1 + 1 : u[i] = s[1 + i - 1]
    BY <1>3 DEF u
  <2>2. u \in Seq(Pids) /\ Len(u) = n - 1 /\ \A i \in 1 .. n - 1 : u[i] = s[i]
    BY <1>1, <1>2, <2>1
  <2> QED
    BY <2>2 DEF u
<1> QED
  BY <1>4 DEF Front, n

LEMMA ReplaceLast ==
  ASSUME NEW c, NEW s, Path(c, s), NEW r \in Pids
  PROVE  LET s2 == Append(Front(s), r)
         IN /\ s2 \in Seq(Pids) /\ s2 # <<>> /\ Len(s2) = Len(s) /\ s2[Len(s)] = r
            /\ \A i \in 1 .. Len(s) - 1 : s2[i] = s[i]
<1> DEFINE n == Len(s)
           u == Front(s)
<1>1. n \in Nat \ {0}
  BY PathIs
<1>2. u \in Seq(Pids) /\ Len(u) = n - 1 /\ \A i \in 1 .. n - 1 : u[i] = s[i]
  BY FrontIs
<1> HIDE DEF n, u
<1>3. Append(u, r) \in Seq(Pids) /\ Append(u, r) # <<>> /\ Len(Append(u, r)) = Len(u) + 1
      /\ Append(u, r)[Len(u) + 1] = r /\ \A i \in 1 .. Len(u) : Append(u, r)[i] = u[i]
  BY <1>2
<1>4. Len(u) + 1 = n
  BY <1>1, <1>2
<1> QED
  BY <1>2, <1>3, <1>4 DEF n, u

(* It moves on to the next child of the same father, *)
LEMMA TraversedNext ==
  ASSUME Shape, Listed, NEW c, NEW s, Path(c, s), NEW d, Traversed(c, s, FALSE, d),
         NextPos(children[Over(c, s, Len(s))], Last(s)) <= Len(children[Over(c, s, Len(s))])
  PROVE  LET siblings == children[Over(c, s, Len(s))]
             s2 == Append(Front(s), siblings[NextPos(siblings, Last(s))])
         IN Path(c, s2) /\ Traversed(c, s2, TRUE, d \union {Last(s)})
<1> DEFINE n == Len(s)
           t == Last(s)
           f == Over(c, s, n)
           m == NextPos(children[f], t)
           r == children[f][m]
           s2 == Append(Front(s), r)
           d2 == d \union {t}
<1>1. /\ n \in Nat \ {0} /\ s \in Seq(Pids) /\ c \in Pids \ {Swapper}
      /\ t = s[n] /\ t \in Pids /\ On(c, s) \subseteq Pids /\ n \in 1 .. n
      /\ t \in On(c, s) /\ f \in Pids /\ f \in On(c, s)
      /\ \A i \in 1 .. n : s[i] \in Pids /\ Over(c, s, i) \in Pids
  BY PathIs DEF Path
<1>2. /\ Closed(On(c, s), d) /\ Placed(c, s, d) /\ d \subseteq Pids \ On(c, s)
  BY DEF Traversed
<1>3. /\ t \in Members(f) /\ real_parent[t] = f /\ t # c
      /\ \A i \in 1 .. n : i # n => s[i] # t
      /\ \A i \in 1 .. n : i # n => Over(c, s, i) # f
      /\ \A i \in 1 .. n : real_parent[s[i]] = Over(c, s, i) /\ c < s[i]
  BY <1>2, PathEnds, PathRises
<1>4. /\ t \notin d /\ d2 \subseteq Pids \ (On(c, s) \ {t})
      /\ \A i \in 1 .. n : i # n => PlacedAt(Over(c, s, i), s[i], d2)
      /\ Closed(On(c, s) \ {t}, d2)
      /\ \E k \in DOMAIN children[f] :
           /\ children[f][k] = t /\ NextPos(children[f], t) = k + 1
           /\ \A j \in DOMAIN children[f] : children[f][j] \in d2 <=> j <= k
  BY TraversedTakes
<1>5. m <= Len(children[f])
  OBVIOUS
<1>6. c <= f /\ c \in Nat /\ f \in Nat
  <2>1. n # 1 => n - 1 \in 1 .. n
    BY <1>1, PredecessorIn, Zenon
  <2>2. c \in Nat /\ f \in Nat
    BY <1>1, PidsAre
  <2> QED
    BY <1>3, <2>1, <2>2 DEF Over
<1> HIDE DEF t, f, d2
<1>7. PICK k \in DOMAIN children[f] :
        /\ children[f][k] = t /\ m = k + 1
        /\ \A j \in DOMAIN children[f] : children[f][j] \in d2 <=> j <= k
  BY <1>4
<1> HIDE DEF m
<1>8. /\ children[f] \in Seq(Pids) /\ Len(children[f]) \in Nat
      /\ DOMAIN children[f] = 1 .. Len(children[f])
      /\ \A i \in 1 .. Len(children[f]) : children[f][i] \in Members(f)
      /\ Members(f) \subseteq Pids
  BY <1>1, ChildAt DEF Shape
<1>9. m \in DOMAIN children[f] /\ r \in Members(f) /\ r \in Pids /\ r \notin d2 /\ k \in Nat
      /\ real_parent[r] = f /\ f < r
  <2>1. k \in Nat /\ m \in DOMAIN children[f] /\ ~ (m <= k)
    BY <1>5, <1>7, <1>8
  <2>2. r \in Members(f) /\ r \in Pids /\ r \notin d2
    BY <1>7, <1>8, <2>1
  <2> QED
    BY <1>1, <2>1, <2>2 DEF Listed, Shape, Rooted
<1> HIDE DEF r
<1>10. r # t /\ r # f /\ r \notin d /\ r \notin On(c, s)
  <2>1. r # t /\ r \notin d
    BY <1>9 DEF d2
  <2>2. r # f /\ r # c
    BY <1>6, <1>9, PidsAre
  <2>3. \A i \in 1 .. n : s[i] # r
    <3> SUFFICES ASSUME NEW i \in 1 .. n, s[i] = r PROVE FALSE
      OBVIOUS
    <3>1. i # n
      BY <1>1, <2>1
    <3> QED
      BY <1>3, <1>9, <3>1
  <2> QED
    BY <2>1, <2>2, <2>3 DEF On, n
<1>11. n \in Nat \ {0}
  BY <1>1
<1>12. /\ s2 \in Seq(Pids) /\ s2 # <<>> /\ Len(s2) = n /\ s2[n] = r
       /\ \A i \in 1 .. n - 1 : s2[i] = s[i]
  BY <1>9, ReplaceLast
<1> HIDE DEF n
<1> HIDE DEF s2
<1>13. Path(c, s2) /\ Last(s2) = r
  BY <1>1, <1>12 DEF Path, Last
<1>14. \A i \in 1 .. n : i # n => i \in 1 .. n - 1
  BY <1>1
<1>15. On(c, s2) = (On(c, s) \ {t}) \union {r}
  <2>1. \A x \in On(c, s2) : x \in (On(c, s) \ {t}) \union {r}
    BY <1>3, <1>12, <1>14 DEF On, n
  <2>2. \A x \in On(c, s) : x # t => x \in On(c, s2)
    BY <1>1, <1>12, <1>14 DEF On, n
  <2>3. r \in On(c, s2)
    BY <1>1, <1>12 DEF On
  <2> QED
    BY <2>1, <2>2, <2>3
<1>16. \A i \in 1 .. n : Over(c, s2, i) = Over(c, s, i)
  <2>1. \A i \in 1 .. n : i # 1 => i - 1 \in 1 .. n - 1
    BY <1>1
  <2> QED
    BY <1>12, <2>1 DEF Over
<1>17. Placed(c, s2, d2)
  <2> SUFFICES ASSUME NEW i \in 1 .. n
               PROVE  PlacedAt(Over(c, s2, i), s2[i], d2)
    BY <1>12 DEF Placed
  <2>1. CASE i # n
    BY <1>4, <1>12, <1>14, <1>16, <2>1
  <2>2. CASE i = n
    <3>1. Over(c, s2, i) = f /\ s2[i] = r
      BY <1>1, <1>12, <1>16, <2>2 DEF f
    <3>2. \A j \in DOMAIN children[f] : j <= k <=> j < m
      BY <1>7, <1>8
    <3> QED
      BY <1>7, <1>9, <3>1, <3>2 DEF PlacedAt, r
  <2> QED
    BY <2>1, <2>2
<1>18. Closed(On(c, s2), d2) /\ d2 \subseteq Pids \ On(c, s2)
  BY <1>4, <1>9, <1>15 DEF Closed
<1>19. Members(r) \intersect d2 = {}
  <2> SUFFICES ASSUME NEW x \in Members(r), x \in d2 PROVE FALSE
    OBVIOUS
  <2>1. real_parent[x] = r
    BY <1>9 DEF Listed
  <2>2. x # t
    BY <1>3, <1>10, <2>1
  <2>3. x \in d
    BY <2>2 DEF d2
  <2> QED
    BY <1>2, <1>10, <2>1, <2>3 DEF Closed
<1>20. Traversed(c, s2, TRUE, d2)
  BY <1>13, <1>17, <1>18, <1>19 DEF Traversed
<1> QED
  BY <1>13, <1>20 DEF s2, d2, r, m, f, t, n

(* or after the last child goes up to the father, *)
LEMMA TraversedUp ==
  ASSUME Shape, Listed, NEW c, NEW s, Path(c, s), NEW d, Traversed(c, s, FALSE, d),
         ~ (NextPos(children[Over(c, s, Len(s))], Last(s)) <= Len(children[Over(c, s, Len(s))])),
         Len(s) # 1
  PROVE  Path(c, Front(s)) /\ Traversed(c, Front(s), FALSE, d \union {Last(s)})
<1> DEFINE n == Len(s)
           t == Last(s)
           f == Over(c, s, n)
           s2 == Front(s)
           d2 == d \union {t}
<1>1. /\ n \in Nat \ {0, 1} /\ s \in Seq(Pids) /\ c \in Pids \ {Swapper}
      /\ t = s[n] /\ On(c, s) \subseteq Pids /\ f \in Pids
      /\ \A i \in 1 .. n : s[i] \in Pids
  BY PathIs DEF Path
<1>2. Placed(c, s, d)
  BY DEF Traversed
<1>3. /\ t # c
      /\ \A i \in 1 .. n : i # n => s[i] # t
  BY <1>2, PathEnds
<1>4. /\ d2 \subseteq Pids \ (On(c, s) \ {t})
      /\ \A i \in 1 .. n : i # n => PlacedAt(Over(c, s, i), s[i], d2)
      /\ Closed(On(c, s) \ {t}, d2)
      /\ \E k \in DOMAIN children[f] :
           /\ children[f][k] = t /\ NextPos(children[f], t) = k + 1
           /\ \A j \in DOMAIN children[f] : children[f][j] \in d2 <=> j <= k
  BY TraversedTakes
<1>5. ~ (NextPos(children[f], t) <= Len(children[f]))
  OBVIOUS
<1>6. f = s[n - 1]
  BY <1>1 DEF Over
<1> HIDE DEF t, f, d2
<1>7. Members(f) \subseteq d2
  <2>1. PICK k \in DOMAIN children[f] :
          /\ NextPos(children[f], t) = k + 1
          /\ \A j \in DOMAIN children[f] : children[f][j] \in d2 <=> j <= k
    BY <1>4
  <2>2. DOMAIN children[f] = 1 .. Len(children[f]) /\ Len(children[f]) \in Nat
        /\ Members(f) = {children[f][i] : i \in 1 .. Len(children[f])}
    BY <1>1, ChildAt DEF Shape
  <2>3. \A j \in DOMAIN children[f] : j <= k
    BY <1>5, <2>1, <2>2
  <2> QED
    BY <2>1, <2>2, <2>3
<1>8. s2 \in Seq(Pids) /\ Len(s2) = n - 1
      /\ \A i \in 1 .. n - 1 : s2[i] = s[i]
  BY FrontIs
<1> HIDE DEF s2, n
<1>9. Path(c, s2) /\ Last(s2) = f
  <2>1. Len(s2) # 0 /\ n - 1 \in 1 .. n - 1
    BY <1>1, <1>8
  <2>2. s2 # <<>>
    BY <2>1
  <2> QED
    BY <1>1, <1>6, <1>8, <2>1, <2>2 DEF Path, Last
<1>10. /\ \A i \in 1 .. n : i # n => i \in 1 .. n - 1
       /\ \A i \in 1 .. n - 1 : i \in 1 .. n /\ i # n
  BY <1>1
<1>11. On(c, s2) = On(c, s) \ {t}
  <2>1. \A x \in On(c, s2) : x \in On(c, s) \ {t}
    BY <1>3, <1>8, <1>10 DEF On, n
  <2>2. \A x \in On(c, s) : x # t => x \in On(c, s2)
    BY <1>1, <1>8, <1>10 DEF On, n
  <2> QED
    BY <2>1, <2>2
<1>12. Placed(c, s2, d2)
  <2>1. \A i \in 1 .. n - 1 : i # 1 => i - 1 \in 1 .. n - 1
    BY <1>1
  <2>2. \A i \in 1 .. n - 1 : Over(c, s2, i) = Over(c, s, i)
    BY <1>8, <2>1 DEF Over
  <2> QED
    BY <1>4, <1>8, <1>10, <2>2 DEF Placed
<1>13. Traversed(c, s2, FALSE, d2)
  BY <1>4, <1>7, <1>9, <1>11, <1>12 DEF Traversed
<1> QED
  BY <1>9, <1>13 DEF s2, d2, t

(* and returns when all descendants of its caller have been added. *)
LEMMA TraversedAll ==
  ASSUME Shape, Listed, NEW c, NEW s, Path(c, s), NEW d, Traversed(c, s, FALSE, d),
         ~ (NextPos(children[Over(c, s, Len(s))], Last(s)) <= Len(children[Over(c, s, Len(s))])),
         Len(s) = 1
  PROVE  DescendantsOf(c, real_parent, children) = d \union {Last(s)}
<1> DEFINE t == Last(s)
           d2 == d \union {t}
           D == DescendantsOf(c, real_parent, children)
           A(p) == AncestorsOf(p, real_parent)
<1>1. c \in Pids \ {Swapper} /\ t = s[1] /\ Over(c, s, 1) = c /\ t \in Pids
  BY PathIs DEF Path, Over
<1>2. /\ t \notin d /\ d2 \subseteq Pids \ (On(c, s) \ {t})
      /\ Closed(On(c, s) \ {t}, d2)
      /\ \E k \in DOMAIN children[c] :
           /\ children[c][k] = t /\ NextPos(children[c], t) = k + 1
           /\ \A j \in DOMAIN children[c] : children[c][j] \in d2 <=> j <= k
  <2> DEFINE f == Over(c, s, Len(s))
  <2>1. /\ t \notin d /\ d2 \subseteq Pids \ (On(c, s) \ {t})
        /\ Closed(On(c, s) \ {t}, d2)
        /\ \E k \in DOMAIN children[f] :
             /\ children[f][k] = t /\ NextPos(children[f], t) = k + 1
             /\ \A j \in DOMAIN children[f] : children[f][j] \in d2 <=> j <= k
    BY TraversedTakes
  <2>2. f = c
    BY <1>1
  <2> HIDE DEF f, t, d2
  <2> QED
    BY <2>1, <2>2
<1>3. On(c, s) \ {t} = {c}
  <2>1. Last(s) # c
    BY PathEnds DEF Traversed
  <2> QED
    BY <1>1, <2>1 DEF On
<1>4. ~ (NextPos(children[c], t) <= Len(children[c]))
  BY <1>1
<1> HIDE DEF t, d2
<1>5. Members(c) \subseteq d2
  <2>1. PICK k \in DOMAIN children[c] :
          /\ NextPos(children[c], t) = k + 1
          /\ \A j \in DOMAIN children[c] : children[c][j] \in d2 <=> j <= k
    BY <1>2
  <2>2. DOMAIN children[c] = 1 .. Len(children[c]) /\ Len(children[c]) \in Nat
        /\ Members(c) = {children[c][i] : i \in 1 .. Len(children[c])}
    BY <1>1, ChildAt DEF Shape
  <2>3. \A j \in DOMAIN children[c] : j <= k
    BY <1>4, <2>1, <2>2
  <2> QED
    BY <2>1, <2>2, <2>3
<1>6. d2 \subseteq Pids \ {c} /\ Closed({c}, d2)
  BY <1>2, <1>3
<1>7. Falls(real_parent) /\ c # Swapper /\ c \in Pids
  BY <1>1 DEF Shape, Rooted
<1>8. \A q : q \in D <=> /\ q \in Pids \ {c, Swapper}
                         /\ c \in A(q)
                         /\ \A r \in A(q) \ A(c) : r \in Members(real_parent[r])
  BY DEF DescendantsOf, Members
<1> HIDE DEF D
<1>9. ASSUME NEW q \in Pids, q # Swapper
      PROVE  /\ A(q) = {q} \union A(real_parent[q])
             /\ real_parent[q] \in Pids /\ real_parent[q] < q
             /\ q \in Nat /\ real_parent[q] \in Nat
  BY <1>7, <1>9, Ancestors, PidsAre DEF Falls
<1>10. \A q \in Pids : q \in A(q) /\ \A r \in A(q) : r \in Nat /\ q \in Nat /\ r <= q
  BY <1>7, AncestorsBefore, PidsAre
<1> HIDE DEF A
<1>11. D \subseteq d2
  <2> DEFINE Bad == {q \in D : q \notin d2}
  <2>1. ASSUME NEW q \in Bad PROVE \E p \in Bad : p < q
    <3>1. /\ q \in Pids \ {c, Swapper} /\ c \in A(q) /\ q \notin d2
          /\ \A r \in A(q) \ A(c) : r \in Members(real_parent[r])
      BY <1>8
    <3> DEFINE p == real_parent[q]
    <3>2. A(q) = {q} \union A(p) /\ p \in Pids /\ p < q
      BY <1>9, <3>1
    <3>3. c \in A(p) /\ c <= p /\ c \in Nat /\ p \in Nat
      BY <1>10, <3>1, <3>2
    <3>4. q \notin A(c)
      BY <1>7, <1>10, <3>1, <3>2, <3>3
    <3>5. q \in Members(p)
      BY <3>1, <3>2, <3>4
    <3>6. p # c
      BY <1>5, <3>1, <3>5
    <3>7. p \notin d2
      BY <1>6, <3>1, <3>5 DEF Closed
    <3>8. p # Swapper
      BY <1>7, <3>3, <3>6, PidsAre
    <3>9. p \in D
      BY <1>8, <3>1, <3>2, <3>3, <3>6, <3>8
    <3> QED
      BY <3>2, <3>7, <3>9
  <2>2. Bad \subseteq Pids
    BY <1>8
  <2> HIDE DEF Bad
  <2>3. Bad = {}
    BY <2>1, <2>2, NoFirst
  <2> QED
    BY <2>3 DEF Bad
<1>12. d2 \subseteq D
  <2> DEFINE Bad == {q \in d2 : q \notin D}
  <2>1. ASSUME NEW q \in Bad PROVE \E p \in Bad : p < q
    <3>1. /\ q \in Pids \ {c} /\ q \in d2 /\ q \notin D
          /\ real_parent[q] \in d2 \union {c} /\ q \in Members(real_parent[q])
      BY <1>6 DEF Closed
    <3> DEFINE p == real_parent[q]
    <3>2. p \in Pids /\ p < q /\ q # Swapper
      <4>1. p \in Pids
        BY <1>6, <1>7, <3>1
      <4>2. p < q
        BY <3>1, <4>1 DEF Shape, Rooted
      <4> QED
        BY <4>1, <4>2, PidsAre
    <3>3. A(q) = {q} \union A(p)
      BY <1>9, <3>1, <3>2
    <3>4. p \notin D
      <4>1. CASE p \in D
        <5>1. c \in A(p) /\ \A r \in A(p) \ A(c) : r \in Members(real_parent[r])
          BY <1>8, <4>1
        <5>2. q \in D
          BY <1>8, <3>1, <3>2, <3>3, <5>1
        <5> QED
          BY <3>1, <5>2
      <4> QED
        BY <4>1
    <3>5. p # c
      <4>1. CASE p = c
        <5>1. c \in A(q) /\ \A r \in A(q) \ A(c) : r = q
          BY <1>7, <1>10, <3>3, <4>1
        <5>2. q \in D
          BY <1>8, <3>1, <3>2, <5>1
        <5> QED
          BY <3>1, <5>2
      <4> QED
        BY <4>1
    <3> QED
      BY <3>1, <3>2, <3>4, <3>5
  <2>2. Bad \subseteq Pids
    BY <1>6
  <2> HIDE DEF Bad
  <2>3. Bad = {}
    BY <2>1, <2>2, NoFirst
  <2> QED
    BY <2>3 DEF Bad
<1> QED
  BY <1>11, <1>12 DEF D, d2, t

-----------------------------------------------------------------------------
(* What a fork does to the walk.                                           *)

(* c, the child of p, is new. *)
Forked(p, c) ==
  /\ c \in Pids /\ c \notin Used /\ p \in Used
  /\ Used' = Used \union {c}
  /\ real_parent' = [real_parent EXCEPT ![c] = p]
  /\ children' = [children EXCEPT ![p] = Append(@, c)]
  /\ weight' = [weight EXCEPT ![c] = weight[p]]
  /\ ObserveWeight(c, weight[p])
  /\ Observe(FALSE)
  /\ call' = call

LEMMA ForkForks ==
  ASSUME Shape, NEW p \in Pids, Fork(p)
  PROVE  \E c : Forked(p, c)
<1>1. PICK c \in Pids :
        /\ Alive(p) /\ p # Swapper /\ state[c] = "unused"
        /\ state' = [state EXCEPT ![c] = "alive"]
        /\ real_parent' = [real_parent EXCEPT ![c] = p]
        /\ children' = [children EXCEPT ![p] = Append(@, c)]
        /\ weight' = [weight EXCEPT ![c] = weight[p]]
        /\ ObserveWeight(c, weight[p])
        /\ Observe(FALSE)
        /\ call' = call
  BY DEF Fork
<1>2. Used' = Used \union {c}
  BY <1>1 DEF Used, Shape, TypeOK
<1>3. c \notin Used /\ p \in Used
  BY <1>1 DEF Used, Alive
<1>4. Forked(p, c)
  BY <1>1, <1>2, <1>3 DEF Forked
<1> QED
  BY <1>4

LEMMA ForkLists ==
  ASSUME Shape, Listed, NEW p \in Pids, NEW c, Forked(p, c)
  PROVE  /\ p # c /\ c \in Pids /\ c \notin Used /\ p \in Used
         /\ Used' = Used \union {c}
         /\ real_parent'[c] = p
         /\ \A q \in Pids : q # c => real_parent'[q] = real_parent[q]
         /\ children'[p] = Append(children[p], c)
         /\ \A q \in Pids : q # p => children'[q] = children[q]
         /\ \A q \in Pids : Members(q)' = IF q = p THEN Members(p) \union {c} ELSE Members(q)
         /\ \A q \in Pids : c \notin Members(q)
         /\ Members(c) = {}
<1>1. /\ c \in Pids /\ c \notin Used /\ p \in Used
      /\ Used' = Used \union {c}
      /\ real_parent' = [real_parent EXCEPT ![c] = p]
      /\ children' = [children EXCEPT ![p] = Append(@, c)]
  BY DEF Forked
<1>2. real_parent \in [Pids -> Pids] /\ children \in [Pids -> Seq(Pids)]
  BY DEF Shape, TypeOK
<1>3. /\ children'[p] = Append(children[p], c)
      /\ \A q \in Pids : q # p => children'[q] = children[q]
      /\ real_parent'[c] = p
      /\ \A q \in Pids : q # c => real_parent'[q] = real_parent[q]
  BY <1>1, <1>2
<1>4. \A q \in Pids : Members(q)' = IF q = p THEN Members(p) \union {c} ELSE Members(q)
  <2>1. children[p] \in Seq(Pids) /\ <<c>> \in Seq(Pids)
    BY <1>1, <1>2
  <2>2. children'[p] = children[p] \o <<c>>
    BY <1>3, <2>1
  <2>3. ToSet(children[p] \o <<c>>) = ToSet(children[p]) \union ToSet(<<c>>)
    BY <2>1, AppendMembers
  <2>4. ToSet(<<c>>) = {c}
    BY DEF ToSet
  <2> QED
    BY <1>3, <2>2, <2>3, <2>4 DEF Members
<1>5. \A q \in Pids : c \notin Members(q)
  BY <1>1 DEF Listed
<1>6. Members(c) = {}
  <2> SUFFICES ASSUME NEW q \in Members(c) PROVE FALSE
    OBVIOUS
  <2>1. q \in Pids /\ real_parent[q] = c
    BY <1>1, ChildAt DEF Shape, Listed
  <2> QED
    BY <1>1, <2>1 DEF Shape, Rooted
<1> QED
  BY <1>1, <1>3, <1>4, <1>5, <1>6

LEMMA ForkListed ==
  ASSUME Shape, Listed, NEW p \in Pids, NEW c, Forked(p, c)
  PROVE  Listed'
<1>1. /\ c \in Pids /\ c \notin Used /\ p \in Used
      /\ Used' = Used \union {c}
      /\ real_parent'[c] = p
      /\ \A q \in Pids : q # c => real_parent'[q] = real_parent[q]
      /\ children'[p] = Append(children[p], c)
      /\ \A q \in Pids : q # p => children'[q] = children[q]
      /\ \A q \in Pids : Members(q)' = IF q = p THEN Members(p) \union {c} ELSE Members(q)
      /\ \A q \in Pids : c \notin Members(q)
  BY ForkLists
<1>2. Once(children'[p])
  <2>1. children[p] \in Seq(Pids) /\ Once(children[p]) /\ <<c>> \in Seq(Pids)
    BY <1>1, ListedOnce DEF Shape, TypeOK
  <2>2. Once(<<c>>) /\ ToSet(<<c>>) = {c}
    BY DEF Once, ToSet
  <2>3. ToSet(children[p]) \intersect {c} = {}
    BY <1>1 DEF Members
  <2>4. Once(children[p] \o <<c>>)
    BY <2>1, <2>2, <2>3, OnceConcat
  <2>5. Append(children[p], c) = children[p] \o <<c>>
    BY <2>1
  <2> QED
    BY <1>1, <2>4, <2>5
<1>3. ASSUME NEW q \in Pids PROVE Once(children'[q])
  <2>1. Once(children[q])
    BY ListedOnce
  <2> QED
    BY <1>1, <1>2, <2>1
<1>4. ASSUME NEW q \in Pids, NEW r \in Members(q)' PROVE real_parent'[r] = q /\ r \in Used'
  <2>1. CASE r = c
    BY <1>1, <1>4, <2>1
  <2>2. CASE r # c
    <3>1. r \in Members(q) /\ r \in Pids
      BY <1>1, <1>4, <2>2, ChildAt DEF Shape
    <3> QED
      BY <1>1, <2>2, <3>1 DEF Listed
  <2> QED
    BY <2>1, <2>2
<1> QED
  BY <1>3, <1>4, ListedThen

(* The new process has been done if all its siblings have. *)
LEMMA ForkTraversed ==
  ASSUME Shape, Listed, NEW p \in Pids, NEW c, Forked(p, c),
         NEW a \in Used, NEW s, Path(a, s), NEW down, NEW d, Traversed(a, s, down, d)
  PROVE  \E d2 : d \subseteq d2 /\ d2 \subseteq d \union {c} /\ Traversed(a, s, down, d2)'
<1> DEFINE n == Len(s)
           t == Last(s)
           d2 == IF p \in d \/ (p = t /\ ~ down) THEN d \union {c} ELSE d
<1>1. /\ p # c /\ c \in Pids /\ c \notin Used /\ p \in Used
      /\ real_parent'[c] = p
      /\ \A q \in Pids : q # c => real_parent'[q] = real_parent[q]
      /\ children'[p] = Append(children[p], c)
      /\ \A q \in Pids : q # p => children'[q] = children[q]
      /\ \A q \in Pids : Members(q)' = IF q = p THEN Members(p) \union {c} ELSE Members(q)
      /\ \A q \in Pids : c \notin Members(q)
      /\ Members(c) = {}
  BY ForkLists
<1>2. /\ n \in Nat \ {0} /\ t \in Pids /\ t \in On(a, s) /\ On(a, s) \subseteq Pids
      /\ \A i \in 1 .. n : s[i] \in Pids /\ Over(a, s, i) \in Pids
                           /\ Over(a, s, i) \in On(a, s)
  BY PathIs
<1>3. /\ d \subseteq Pids \ On(a, s) /\ Placed(a, s, d) /\ Closed(On(a, s), d)
      /\ IF down THEN Members(t) \intersect d = {} ELSE Members(t) \subseteq d
  BY DEF Traversed
<1>4. /\ \A i \in 1 .. n : s[i] \in Used /\ s[i] \in Members(Over(a, s, i))
      /\ \A i \in 1 .. n : Over(a, s, i) # t
  BY <1>3, PathRises, PathEnds
<1>5. c \notin On(a, s)
  BY <1>1, <1>4 DEF On, n
<1>6. c \notin d
  <2> SUFFICES ASSUME c \in d PROVE FALSE
    OBVIOUS
  <2>1. c \in Members(real_parent[c]) /\ real_parent[c] \in Pids
    BY <1>1, <1>3 DEF Closed, Shape, TypeOK
  <2> QED
    BY <1>1, <2>1
<1> HIDE DEF t, n
<1>7. ASSUME NEW i \in 1 .. n PROVE PlacedAt(Over(a, s, i), s[i], d2)'
  <2> DEFINE f == Over(a, s, i)
  <2>1. f \in Pids /\ f \in On(a, s) /\ f # t /\ f \notin d
    BY <1>2, <1>3, <1>4
  <2> HIDE DEF f
  <2>2. PICK k \in DOMAIN children[f] :
          /\ children[f][k] = s[i]
          /\ \A j \in DOMAIN children[f] : children[f][j] \in d <=> j < k
    BY <1>3 DEF Placed, PlacedAt, f, n
  <2>3. /\ children[f] \in Seq(Pids) /\ Len(children[f]) \in Nat
        /\ DOMAIN children[f] = 1 .. Len(children[f])
        /\ \A j \in DOMAIN children[f] : children[f][j] # c
    BY <1>1, <2>1, ChildAt DEF Shape
  <2>4. \A j \in DOMAIN children[f] : children[f][j] \in d2 <=> children[f][j] \in d
    BY <2>3
  <2>5. CASE f # p
    <3>1. children'[f] = children[f]
      BY <1>1, <2>1, <2>5
    <3> HIDE DEF d2
    <3>2. \A j \in DOMAIN children[f] : children[f][j] \in d2 <=> j < k
      BY <2>2, <2>4
    <3>3. \E m \in DOMAIN children'[f] :
            /\ children'[f][m] = s[i]
            /\ \A j \in DOMAIN children'[f] : children'[f][j] \in d2 <=> j < m
      BY <2>2, <3>1, <3>2
    <3> QED
      BY <3>3 DEF PlacedAt, f
  <2>6. CASE f = p
    <3>1. d2 = d
      BY <2>1, <2>6
    <3> DEFINE u == Append(children[f], c)
               m == Len(children[f])
    <3>2. u = children'[f]
      BY <1>1, <2>6
    <3>3. /\ DOMAIN u = 1 .. m + 1 /\ u[m + 1] = c
          /\ \A j \in 1 .. m : u[j] = children[f][j]
      BY <1>1, <2>3
    <3> HIDE DEF u, m, d2
    <3>4. m \in Nat /\ k \in 1 .. m /\ DOMAIN children[f] = 1 .. m
      BY <2>3 DEF m
    <3>5. k \in DOMAIN u /\ u[k] = s[i]
      BY <2>2, <3>3, <3>4
    <3>6. ASSUME NEW j \in DOMAIN u PROVE u[j] \in d2 <=> j < k
      <4>1. CASE j \in 1 .. m
        BY <2>2, <3>1, <3>3, <3>4, <4>1
      <4>2. CASE j = m + 1
        BY <1>6, <3>1, <3>3, <3>4, <4>2
      <4> QED
        BY <3>3, <3>4, <4>1, <4>2
    <3>7. \E x \in DOMAIN children'[f] :
            /\ children'[f][x] = s[i]
            /\ \A j \in DOMAIN children'[f] : children'[f][j] \in d2 <=> j < x
      BY <3>2, <3>5, <3>6
    <3> QED
      BY <3>7 DEF PlacedAt, f
  <2> QED
    BY <2>5, <2>6
<1>8. Placed(a, s, d2)'
  <2> HIDE DEF d2
  <2> QED
    BY <1>7 DEF Placed, n
<1>9. ASSUME NEW q \in d2
      PROVE  /\ Members(q)' \subseteq d2
             /\ real_parent'[q] \in d2 \union On(a, s)
             /\ q \in Members(real_parent[q])'
  <2>1. CASE q \in d
    <3>1. /\ Members(q) \subseteq d /\ real_parent[q] \in d \union On(a, s)
          /\ q \in Members(real_parent[q]) /\ q \in Pids /\ q # c
      BY <1>3, <1>6, <2>1 DEF Closed
    <3>2. real_parent'[q] = real_parent[q] /\ real_parent[q] \in Pids
      BY <1>1, <3>1 DEF Shape, TypeOK
    <3>3. Members(q)' \subseteq d2
      BY <1>1, <2>1, <3>1
    <3>4. q \in Members(real_parent[q])'
      <4> DEFINE f == real_parent[q]
      <4>1. q \in Members(f)'
        BY <1>1, <3>1, <3>2
      <4> QED
        BY <3>2, <4>1 DEF Members
    <3> QED
      BY <3>1, <3>2, <3>3, <3>4
  <2>2. CASE q \notin d
    <3>1. q = c /\ (p \in d \/ p = t)
      BY <2>2
    <3>2. p \in Pids /\ p \in d2 \union On(a, s)
      BY <1>2, <3>1
    <3>3. Members(c)' = {}
      BY <1>1
    <3>4. c \in Members(p)'
      BY <1>1
    <3> HIDE DEF d2
    <3>5. real_parent'[q] = p
      BY <1>1, <3>1
    <3>6. Members(q)' \subseteq d2 /\ q \in Members(real_parent[q])'
      BY <3>1, <3>3, <3>4, <3>5 DEF Members
    <3> QED
      BY <3>2, <3>5, <3>6
  <2> QED
    BY <2>1, <2>2
<1>10. IF down THEN Members(t)' \intersect d2 = {} ELSE Members(t)' \subseteq d2
  <2>1. CASE down
    <3>1. Members(t) \intersect d = {} /\ t \notin d /\ c \notin Members(t)
      BY <1>1, <1>2, <1>3, <2>1
    <3>2. CASE p = t
      <4>1. d2 = d /\ Members(t)' = Members(t) \union {c}
        BY <1>1, <1>2, <2>1, <3>1, <3>2
      <4> QED
        BY <1>6, <2>1, <3>1, <4>1
    <3>3. CASE p # t
      <4>1. Members(t)' = Members(t)
        BY <1>1, <1>2, <3>3
      <4> QED
        BY <2>1, <3>1, <4>1
    <3> QED
      BY <3>2, <3>3
  <2>2. CASE ~ down
    <3>1. Members(t) \subseteq d
      BY <1>3, <2>2
    <3> QED
      BY <1>1, <1>2, <2>2, <3>1
  <2> QED
    BY <2>1, <2>2
<1>11. d2 \subseteq Pids \ On(a, s)
  BY <1>1, <1>3, <1>5
<1>12. Traversed(a, s, down, d2)'
  <2> HIDE DEF d2
  <2>1. Closed(On(a, s), d2)'
    BY <1>9 DEF Closed, On
  <2> QED
    BY <1>8, <1>10, <1>11, <2>1 DEF Traversed, t, On
<1>13. d \subseteq d2 /\ d2 \subseteq d \union {c}
  OBVIOUS
<1> QED
  BY <1>12, <1>13

-----------------------------------------------------------------------------
(* The walk down, while the tree changes.                                  *)

Below == DescendantsOf(call.caller, real_parent, children)

(* Those that were below the caller all along. *)
KeptBelow == call.name \in {"sum", "summed"} =>
  /\ call.caller \in Used \ {Swapper}
  /\ kept \subseteq Below \intersect Used

(* The walk has traversed a part of the tree, and has its weights in total. *)
Adding == call.name = "sum" /\ ~ disturbed =>
  \E done \in SUBSET Pids :
    /\ Traversed(call.caller, call.path, call.down, done)
    /\ Between(call.total, done)

Summed == call.name = "summed" /\ ~ disturbed => Between(call.total, Below)

Lost == call.name = "lost" => disturbed

Walking == Listed /\ IsFiniteSet(seen) /\ KeptBelow /\ Adding /\ Summed /\ Lost

SumInv == IInv /\ Walking

LEMMA SumFields ==
  ASSUME Shape
  PROVE  /\ call.name = "sum" => /\ call.caller \in Pids /\ call.path \in Seq(Pids)
                                 /\ call.path # <<>> /\ call.down \in BOOLEAN
                                 /\ call.total \in Nat
         /\ call.name = "summed" => call.caller \in Pids /\ call.total \in Nat
<1>1. call.name = "sum" => call \in SumCalls
  BY CallsAre DEF Shape, TypeOK
<1>2. call.name = "summed" => call \in [name : {"summed"}, caller : Pids, total : Nat]
  BY DEF Shape, TypeOK, Calls, Idle
<1> QED
  BY <1>1, <1>2 DEF Shape, Somewhere, SumCalls

(* Who is below another process is listed. *)
LEMMA BelowListed ==
  ASSUME Shape, Listed, NEW a \in Pids, NEW q \in DescendantsOf(a, real_parent, children)
  PROVE  /\ q \in Used /\ q \in Pids
         /\ \A r \in AncestorsOf(q, real_parent) \ AncestorsOf(a, real_parent) :
              /\ r \in Pids /\ real_parent[r] \in Pids /\ r \in Used
              /\ r \in Members(real_parent[r])
<1>1. /\ q \in Pids /\ q # a /\ a \in AncestorsOf(q, real_parent)
      /\ \A r \in AncestorsOf(q, real_parent) \ AncestorsOf(a, real_parent) :
           r \in Members(real_parent[r])
  BY DEF DescendantsOf, Members
<1>2. Falls(real_parent) /\ real_parent \in [Pids -> Pids]
  BY DEF Shape, Rooted, Falls
<1>3. /\ q \in AncestorsOf(q, real_parent) /\ AncestorsOf(q, real_parent) \subseteq 0 .. q
      /\ AncestorsOf(a, real_parent) \subseteq 0 .. a
  BY <1>1, <1>2, AncestorsBefore
<1>4. q \in Nat /\ a \in Nat /\ q <= MaxPid
  BY <1>1, PidsAre
<1>5. q \notin AncestorsOf(a, real_parent)
  <2>1. a \in 0 .. q
    BY <1>1, <1>3
  <2>2. q \notin 0 .. a
    BY <1>1, <1>4, <2>1
  <2> QED
    BY <1>3, <2>2
<1>6. \A r \in 0 .. q : r \in Nat /\ r <= MaxPid
  BY <1>4, PidsAre
<1>7. ASSUME NEW r \in AncestorsOf(q, real_parent) \ AncestorsOf(a, real_parent)
      PROVE  r \in Pids /\ real_parent[r] \in Pids /\ r \in Used
             /\ r \in Members(real_parent[r])
  <2>1. r \in Pids
    BY <1>3, <1>6, PidsAre
  <2>2. real_parent[r] \in Pids /\ r \in Members(real_parent[r])
    BY <1>1, <1>2, <2>1
  <2>3. r \in Used
    BY <2>2 DEF Listed
  <2> QED
    BY <2>1, <2>2, <2>3
<1> QED
  BY <1>1, <1>3, <1>5, <1>7

LEMMA BelowUsed ==
  ASSUME Shape, Listed, NEW a \in Pids
  PROVE  /\ DescendantsOf(a, real_parent, children) \subseteq Used
         /\ DescendantsOf(a, real_parent, children) \in SUBSET Pids
BY BelowListed

(* A fork leaves everyone below whom they were. *)
LEMMA ForkBelow ==
  ASSUME Shape, Shape', Listed, NEW p \in Pids, NEW c, Forked(p, c), NEW a \in Used
  PROVE  DescendantsOf(a, real_parent, children) \subseteq
           DescendantsOf(a, real_parent', children')
<1>1. /\ Used' = Used \union {c} /\ c \notin Used
      /\ \A q \in Pids : q # c => real_parent'[q] = real_parent[q]
      /\ \A q \in Pids : Members(q)' = IF q = p THEN Members(p) \union {c} ELSE Members(q)
  BY ForkLists
<1>2. Used \subseteq Pids /\ a \in Pids
  BY DEF Used
<1>3. \A q \in Used : real_parent[q] \in Used /\ real_parent'[q] = real_parent[q]
  BY <1>1, <1>2 DEF Shape, Rooted
<1>4. Falls(real_parent) /\ Falls(real_parent')
  BY DEF Shape, Rooted
<1>5. \A q \in Used : AncestorsOf(q, real_parent') = AncestorsOf(q, real_parent)
  BY <1>2, <1>3, <1>4, AncestorsSame
<1>6. ASSUME NEW q \in DescendantsOf(a, real_parent, children)
      PROVE  q \in DescendantsOf(a, real_parent', children')
  <2>1. /\ q \in Used /\ q \in Pids
        /\ \A r \in AncestorsOf(q, real_parent) \ AncestorsOf(a, real_parent) :
             /\ r \in Pids /\ real_parent[r] \in Pids /\ r \in Used
             /\ r \in Members(real_parent[r])
    BY <1>2, BelowListed
  <2>2. q \in Pids \ {a, Swapper} /\ a \in AncestorsOf(q, real_parent)
    BY DEF DescendantsOf
  <2>3. ASSUME NEW r \in AncestorsOf(q, real_parent) \ AncestorsOf(a, real_parent)
        PROVE  r \in ToSet(children'[real_parent'[r]])
    <3>1. real_parent[r] \in Pids /\ real_parent'[r] = real_parent[r]
          /\ r \in Members(real_parent[r])
      BY <1>3, <2>1
    <3>2. \A f \in Pids : r \in Members(f) => r \in ToSet(children'[f])
      <4>1. ASSUME NEW f \in Pids, r \in Members(f) PROVE r \in Members(f)'
        BY <1>1, <4>1
      <4> QED
        BY <4>1 DEF Members
    <3> QED
      BY <3>1, <3>2
  <2> QED
    BY <1>5, <2>1, <2>2, <2>3 DEF DescendantsOf
<1> QED
  BY <1>6

(* What a step of another process does to the walk. *)
LEMMA OthersWalk ==
  ASSUME SumInv, Shape', Listed', IsFiniteSet(seen)', call' = call, seen \subseteq seen',
         kept' \subseteq kept, Used \subseteq Used', disturbed => disturbed',
         call.name \in {"sum", "summed"} => kept' \subseteq Below',
         call.name = "sum" /\ ~ disturbed' =>
           \A d \in SUBSET Pids : Traversed(call.caller, call.path, call.down, d) =>
             \E d2 \in SUBSET Pids :
               /\ d \subseteq d2 /\ d2 \intersect Used \subseteq d
               /\ Traversed(call.caller, call.path, call.down, d2)',
         call.name = "summed" /\ ~ disturbed' => Below \subseteq Below'
  PROVE  Walking'
<1>1. Shape /\ TypeOK /\ TypeOK' /\ Listed /\ IsFiniteSet(seen) /\ SeenNow
      /\ KeptBelow /\ Adding /\ Summed /\ Lost
  BY DEF SumInv, IInv, Walking, Noted, Shape
<1>2. KeptBelow'
  BY <1>1 DEF KeptBelow
<1>3. Lost'
  BY <1>1 DEF Lost
<1>4. ASSUME call.name \in {"sum", "summed"} PROVE \A p \in kept : \E w : <<p, w>> \in seen
  <2>1. kept \subseteq Used /\ InCall
    BY <1>1, <1>4 DEF KeptBelow, InCall
  <2> QED
    BY <1>1, <2>1 DEF SeenNow
<1>5. ASSUME call.name \in {"sum", "summed"}, NEW t \in Nat,
             NEW d \in SUBSET Pids, NEW d2 \in SUBSET Pids, d \subseteq d2,
             kept' \intersect d2 \subseteq kept \intersect d, Between(t, d)
      PROVE  Total(Least', kept' \intersect d2) <= t /\ t <= Total(Greatest', d2)
  <2>1. Between(t, d2)'
    BY <1>1, <1>4, <1>5, BetweenStays
  <2> QED
    BY <2>1 DEF Between, Total
<1>6. ASSUME call.name = "sum", ~ disturbed' PROVE Adding'
  <2>1. PICK d \in SUBSET Pids :
          /\ Traversed(call.caller, call.path, call.down, d)
          /\ Between(call.total, d)
    BY <1>1, <1>6 DEF Adding
  <2>2. PICK d2 \in SUBSET Pids :
          /\ d \subseteq d2 /\ d2 \intersect Used \subseteq d
          /\ Traversed(call.caller, call.path, call.down, d2)'
    BY <1>6, <2>1
  <2>3. kept \subseteq Used
    BY <1>1, <1>6 DEF KeptBelow
  <2>4. kept' \intersect d2 \subseteq kept \intersect d
    BY <2>2, <2>3
  <2>5. call.total \in Nat
    BY <1>1, <1>6, SumFields
  <2>6. Total(Least', kept' \intersect d2) <= call.total /\ call.total <= Total(Greatest', d2)
    BY <1>5, <1>6, <2>1, <2>2, <2>4, <2>5
  <2>7. Between(call.total, d2)'
    BY <2>6 DEF Between, Total
  <2> QED
    BY <2>2, <2>7 DEF Adding
<1>7. ASSUME call.name = "summed", ~ disturbed' PROVE Summed'
  <2>1. Below \in SUBSET Pids /\ Below' \in SUBSET Pids /\ Below \subseteq Below'
    BY <1>7 DEF Below, DescendantsOf
  <2>2. kept \subseteq Below
    BY <1>1, <1>7 DEF KeptBelow
  <2>3. call.total \in Nat /\ Between(call.total, Below)
    BY <1>1, <1>7, SumFields DEF Summed
  <2>4. kept' \intersect Below' \subseteq kept \intersect Below
    BY <2>2
  <2>5. Total(Least', kept' \intersect Below') <= call.total
        /\ call.total <= Total(Greatest', Below')
    BY <1>5, <1>7, <2>1, <2>3, <2>4
  <2>6. Between(call.total, Below)'
    BY <2>5 DEF Between, Total
  <2> QED
    BY <2>6 DEF Summed
<1>8. Adding' /\ Summed'
  BY <1>6, <1>7 DEF Adding, Summed
<1> QED
  BY <1>2, <1>3, <1>8 DEF Walking

(* What Observe leaves during a walk down. *)
LEMMA ObserveBelow ==
  ASSUME NEW unlinked, Observe(unlinked), call' = call
  PROVE  /\ kept' \subseteq kept /\ (disturbed => disturbed')
         /\ call.name \in {"sum", "summed"} => kept' \subseteq Below'
         /\ call.name \in {"sum", "summed"} /\ unlinked => disturbed'
BY DEF Observe, InCall, Relatives, Below

LEMMA SeenGrows ==
  ASSUME IsFiniteSet(seen), NEW p, NEW w, ObserveWeight(p, w)
  PROVE  seen \subseteq seen' /\ IsFiniteSet(seen')
<1>1. IsFiniteSet(seen \union {<<p, w>>})
  BY FS_AddElement
<1> QED
  BY <1>1 DEF ObserveWeight

LEMMA ForkWalking ==
  ASSUME SumInv, Shape', NEW p \in Pids, Fork(p)
  PROVE  Walking'
<1>1. Shape /\ Listed /\ IsFiniteSet(seen) /\ KeptBelow
  BY DEF SumInv, IInv, Walking
<1>2. PICK c : Forked(p, c)
  BY <1>1, ForkForks
<1>3. /\ c \in Pids /\ c \notin Used /\ Used' = Used \union {c} /\ call' = call
      /\ ObserveWeight(c, weight[p]) /\ Observe(FALSE)
  BY <1>2 DEF Forked
<1>4. Listed'
  BY <1>1, <1>2, ForkListed
<1>5. seen \subseteq seen' /\ IsFiniteSet(seen')
  BY <1>1, <1>3, SeenGrows
<1>6. /\ kept' \subseteq kept /\ (disturbed => disturbed')
      /\ call.name \in {"sum", "summed"} => kept' \subseteq Below'
  BY <1>3, ObserveBelow
<1>7. ASSUME call.name = "sum", NEW d \in SUBSET Pids,
             Traversed(call.caller, call.path, call.down, d)
      PROVE  \E d2 \in SUBSET Pids :
               /\ d \subseteq d2 /\ d2 \intersect Used \subseteq d
               /\ Traversed(call.caller, call.path, call.down, d2)'
  <2>1. PICK a, s, down : a = call.caller /\ s = call.path /\ down = call.down
    OBVIOUS
  <2>2. a \in Used /\ Path(a, s) /\ Traversed(a, s, down, d)
    BY <1>1, <1>7, <2>1, SumFields DEF KeptBelow, Path
  <2>3. PICK d2 : d \subseteq d2 /\ d2 \subseteq d \union {c} /\ Traversed(a, s, down, d2)'
    BY <1>1, <1>2, <2>2, ForkTraversed
  <2>4. d2 \in SUBSET Pids /\ d2 \intersect Used \subseteq d
    BY <1>3, <2>3
  <2>5. a = call'.caller /\ s = call'.path /\ down = call'.down
    BY <1>3, <2>1
  <2>6. Traversed(call.caller, call.path, call.down, d2)'
    BY <2>3, <2>5 DEF Traversed, Placed, PlacedAt, Closed, Members
  <2> QED
    BY <2>3, <2>4, <2>6
<1>8. call.name = "summed" => Below \subseteq Below'
  <2>1. call.name = "summed" => call.caller \in Used
    BY <1>1 DEF KeptBelow
  <2> QED
    BY <1>1, <1>2, <1>3, <2>1, ForkBelow DEF Below
<1> QED
  BY <1>3, <1>4, <1>5, <1>6, <1>7, <1>8, OthersWalk

(* A step that leaves the lists alone. *)
LEMMA LeavesLists ==
  ASSUME SumInv, Shape', IsFiniteSet(seen)', call' = call, seen \subseteq seen',
         kept' \subseteq kept, Used' = Used, disturbed => disturbed',
         call.name \in {"sum", "summed"} => kept' \subseteq Below',
         real_parent' = real_parent, children' = children
  PROVE  Walking'
<1>1. Listed
  BY DEF SumInv, Walking
<1>2. \A q \in Pids : Members(q)' = Members(q)
  BY DEF Members
<1>3. Listed'
  BY <1>1, <1>2 DEF Listed
<1>4. Below' = Below
  BY DEF Below
<1>5. ASSUME NEW d, Traversed(call.caller, call.path, call.down, d)
      PROVE  Traversed(call.caller, call.path, call.down, d)'
  BY <1>5 DEF Traversed, Placed, PlacedAt, Closed, Members
<1> QED
  BY <1>3, <1>4, <1>5, OthersWalk

LEMMA WeightWalking ==
  ASSUME SumInv, Shape', NEW p \in Pids, NEW w \in Weights, sys_set_weight(p, w)
  PROVE  Walking'
<1>1. /\ real_parent' = real_parent /\ children' = children /\ state' = state
      /\ call' = call /\ kept' = kept /\ disturbed' = disturbed /\ ObserveWeight(p, w)
  BY DEF sys_set_weight, tree
<1>2. IsFiniteSet(seen) /\ KeptBelow
  BY DEF SumInv, Walking
<1>3. seen \subseteq seen' /\ IsFiniteSet(seen')
  BY <1>1, <1>2, SeenGrows
<1>4. Used' = Used /\ Below' = Below
  BY <1>1 DEF Used, Below
<1> QED
  BY <1>1, <1>2, <1>3, <1>4, LeavesLists DEF KeptBelow

(* When a list changes otherwise, the walk is disturbed. *)
LEMMA DisturbedWalking ==
  ASSUME SumInv, Shape', Listed', call' = call, seen' = seen, Used' = Used,
         Observe(TRUE)
  PROVE  Walking'
<1>1. IsFiniteSet(seen)
  BY DEF SumInv, Walking
<1>2. /\ kept' \subseteq kept /\ (disturbed => disturbed')
      /\ call.name \in {"sum", "summed"} => kept' \subseteq Below' /\ disturbed'
  BY ObserveBelow
<1> QED
  BY <1>1, <1>2, OthersWalk

LEMMA ExitWalking ==
  ASSUME SumInv, Shape', NEW p \in Pids, Exit(p)
  PROVE  Walking'
<1>1. /\ state[p] = "alive" /\ p # init_pid /\ p \in Pids /\ init_pid \in Pids
      /\ state' = [state EXCEPT ![p] = "zombie"]
      /\ real_parent' = [q \in Pids |-> IF q \in Members(p) THEN init_pid ELSE real_parent[q]]
      /\ children' = [children EXCEPT ![p] = <<>>, ![init_pid] = @ \o children[p]]
      /\ Observe(children[p] # <<>>)
      /\ call' = call /\ seen' = seen
  BY PidsAre DEF Exit, Alive
<1>2. Shape /\ TypeOK /\ Listed /\ IsFiniteSet(seen)
  BY DEF SumInv, IInv, Walking, Shape
<1>3. Used' = Used
  BY <1>1, <1>2 DEF Used, TypeOK
<1>4. /\ children[p] \in Seq(Pids) /\ children[init_pid] \in Seq(Pids)
      /\ real_parent \in [Pids -> Pids] /\ children \in [Pids -> Seq(Pids)]
  BY <1>1, <1>2 DEF TypeOK
<1>5. CASE children[p] = <<>>
  <2>1. Members(p) = {}
    BY <1>5 DEF Members, ToSet
  <2>2. real_parent' = real_parent
    BY <1>1, <1>4, <2>1
  <2>3. children[init_pid] \o children[p] = children[init_pid]
    BY <1>4, <1>5
  <2>4. children' = children
    BY <1>1, <1>4, <1>5, <2>3
  <2>5. /\ kept' \subseteq kept /\ (disturbed => disturbed')
        /\ call.name \in {"sum", "summed"} => kept' \subseteq Below'
    BY <1>1, ObserveBelow
  <2> QED
    BY <1>1, <1>2, <1>3, <2>2, <2>4, <2>5, LeavesLists
<1>6. CASE children[p] # <<>>
  <2>1. Observe(TRUE)
    BY <1>1, <1>6
  <2>2. /\ children'[p] = <<>>
        /\ children'[init_pid] = children[init_pid] \o children[p]
        /\ \A q \in Pids : q # p /\ q # init_pid => children'[q] = children[q]
    BY <1>1, <1>4
  <2>3. /\ Members(p)' = {}
        /\ Members(init_pid)' = Members(init_pid) \union Members(p)
        /\ \A q \in Pids : q # p /\ q # init_pid => Members(q)' = Members(q)
    <3>1. ToSet(<<>>) = {}
      BY DEF ToSet
    <3>2. ToSet(children[init_pid] \o children[p])
            = ToSet(children[init_pid]) \union ToSet(children[p])
      BY <1>4, AppendMembers
    <3> QED
      BY <2>2, <3>1, <3>2 DEF Members
  <2>4. \A q \in Pids : /\ Once(children[q])
                        /\ Members(q) \subseteq Pids
                        /\ \A r \in Members(q) : real_parent[r] = q /\ r \in Used
    BY <1>2, ListedOnce, ChildAt
  <2>5. Members(init_pid) \intersect Members(p) = {}
    BY <1>1, <2>4
  <2>6. Once(children[init_pid] \o children[p])
    BY <1>1, <1>4, <2>4, <2>5, OnceConcat DEF Members
  <2>7. Once(<<>>)
    BY DEF Once
  <2>8. \A q \in Pids : Once(children'[q])
    BY <2>2, <2>4, <2>6, <2>7
  <2>9. ASSUME NEW q \in Pids, NEW r \in Members(q)' PROVE real_parent'[r] = q /\ r \in Used'
    <3>1. CASE q = p
      BY <2>3, <2>9, <3>1
    <3>2. CASE q = init_pid
      BY <1>1, <1>3, <2>3, <2>4, <2>9, <3>2
    <3>3. CASE q # p /\ q # init_pid
      BY <1>1, <1>3, <2>3, <2>4, <2>9, <3>3
    <3> QED
      BY <3>1, <3>2, <3>3
  <2>10. Listed'
    BY <2>8, <2>9, ListedThen
  <2> QED
    BY <1>1, <1>3, <2>1, <2>10, DisturbedWalking
<1> QED
  BY <1>5, <1>6

LEMMA WaitWalking ==
  ASSUME SumInv, Shape', NEW p \in Pids, Wait(p)
  PROVE  Walking'
<1>1. PICK i \in DOMAIN children[p] :
        /\ state[children[p][i]] = "zombie"
        /\ state' = [state EXCEPT ![children[p][i]] = "released"]
        /\ children' = [children EXCEPT ![p] = RemoveAt(@, i)]
        /\ real_parent' = real_parent /\ call' = call /\ seen' = seen
        /\ Observe(TRUE)
  BY DEF Wait
<1>2. Shape /\ TypeOK /\ Listed /\ IsFiniteSet(seen)
  BY DEF SumInv, IInv, Walking, Shape
<1>3. Used' = Used
  BY <1>1, <1>2 DEF Used, TypeOK
<1>4. children[p] \in Seq(Pids) /\ children \in [Pids -> Seq(Pids)]
  BY <1>2 DEF TypeOK
<1>5. /\ children'[p] = RemoveAt(children[p], i)
      /\ \A q \in Pids : q # p => children'[q] = children[q]
  BY <1>1, <1>4
<1>6. \A q \in Pids : /\ Once(children[q])
                      /\ \A r \in Members(q) : real_parent[r] = q /\ r \in Used
  BY <1>2, ListedOnce
<1>7. \A q \in Pids : Once(children'[q])
  <2>1. Once(RemoveAt(children[p], i))
    BY <1>4, <1>6, OnceRemove
  <2> QED
    BY <1>5, <1>6, <2>1
<1>8. \A q \in Pids : Members(q)' \subseteq Members(q)
  <2>1. ToSet(RemoveAt(children[p], i)) \subseteq ToSet(children[p])
    BY <1>4, RemoveMembers
  <2> QED
    BY <1>5, <2>1 DEF Members
<1>9. \A q \in Pids : \A r \in Members(q)' : real_parent'[r] = q /\ r \in Used'
  BY <1>1, <1>3, <1>6, <1>8
<1>10. Listed'
  BY <1>7, <1>9, ListedThen
<1> QED
  BY <1>1, <1>3, <1>10, DisturbedWalking

-----------------------------------------------------------------------------
(* The steps of the walk itself.                                           *)

LEMMA ListedSame ==
  ASSUME SumInv, UNCHANGED tree
  PROVE  Listed' /\ Used' = Used
         /\ \A p : DescendantsOf(p, real_parent', children')
                     = DescendantsOf(p, real_parent, children)
<1>1. Listed /\ real_parent' = real_parent /\ children' = children /\ state' = state
  BY DEF SumInv, Walking, tree
<1>2. Used' = Used /\ \A q \in Pids : Members(q)' = Members(q)
  BY <1>1 DEF Used, Members
<1> QED
  BY <1>1, <1>2 DEF Listed

LEMMA SeenFinite ==
  ASSUME NEW S \in SUBSET Pids
  PROVE  IsFiniteSet({<<q, weight[q]>> : q \in S})
<1> DEFINE T == {<<q, weight[q]>> : q \in S}
           f == [q \in S |-> <<q, weight[q]>>]
<1>1. f \in Surjection(S, T)
  BY DEF Surjection
<1> HIDE DEF T
<1>2. IsFiniteSet(T)
  BY <1>1, PidsFinite, FS_Surjection DEF ExistsSurjection
<1> QED
  BY <1>2 DEF T

(* No walk down is under way after the step. *)
LEMMA NoWalk ==
  ASSUME SumInv, UNCHANGED tree, IsFiniteSet(seen'),
         call'.name \notin {"sum", "summed", "lost"}
  PROVE  Walking'
BY ListedSame DEF Walking, KeptBelow, Adding, Summed, Lost

(* The walk down is under way after the step, and has done d. *)
LEMMA WalkThen ==
  ASSUME SumInv, UNCHANGED <<tree, weight>>, IsFiniteSet(seen'), KeptBelow',
         call'.name = "sum",
         ~ disturbed' =>
           \E d \in SUBSET Pids :
             /\ Traversed(call'.caller, call'.path, call'.down, d)
             /\ Between(call.total, d)'
  PROVE  Walking'
<1>1. Listed'
  BY ListedSame
<1>2. children' = children /\ real_parent' = real_parent
  BY DEF tree
<1>3. ASSUME ~ disturbed' PROVE Adding'
  <2>1. PICK d \in SUBSET Pids :
          /\ Traversed(call'.caller, call'.path, call'.down, d)
          /\ Between(call.total, d)'
    BY <1>3
  <2>2. Traversed(call.caller, call.path, call.down, d)'
    BY <1>2, <2>1 DEF Traversed, Placed, PlacedAt, Closed, Members
  <2> QED
    BY <2>1, <2>2 DEF Adding
<1> QED
  BY <1>1, <1>3 DEF Walking, Adding, Summed, Lost

LEMMA SumBeginWalking ==
  ASSUME SumInv, NEW p \in Pids, sys_get_children_sum(p)
  PROVE  Walking'
<1> DEFINE h == <<Head(children[p])>>
           c == [name |-> "sum", caller |-> p, path |-> h, down |-> TRUE, total |-> 0]
<1>1. /\ children[p] # <<>> /\ state[p] = "alive" /\ p # Swapper
      /\ call' = c
      /\ kept' = DescendantsOf(p, real_parent, children)
      /\ seen' = {<<q, weight[q]>> : q \in {r \in Pids : state[r] # "unused"}}
      /\ UNCHANGED tree /\ weight' = weight
  BY DEF sys_get_children_sum, Begin, Alive, Relatives
<1>2. Shape /\ Listed
  BY DEF SumInv, IInv, Walking
<1>3. /\ c.name = "sum" /\ c.caller = p /\ c.path = h /\ c.down = TRUE /\ c.total = 0
  OBVIOUS
<1> HIDE DEF c, h
<1>4. IsFiniteSet(seen')
  BY <1>1, SeenFinite
<1>5. p \in Used /\ kept' \subseteq Used
  BY <1>1, <1>2, BelowUsed DEF Used
<1>6. KeptBelow'
  BY <1>1, <1>3, <1>5, ListedSame DEF KeptBelow, Below
<1>7. Traversed(p, h, TRUE, {})
  BY <1>1, <1>2, TraversedFirst DEF h
<1>8. Between(0, {})'
  <2>1. kept' \intersect {} = {}
    OBVIOUS
  <2> QED
    BY <2>1, SumEmpty DEF Between, Total
<1>9. Between(call.total, {})'
  BY <1>1, <1>3, <1>8 DEF Between
<1> QED
  BY <1>1, <1>3, <1>4, <1>6, <1>7, <1>9, WalkThen

LEMMA SumDownWalking ==
  ASSUME SumInv, SumDown
  PROVE  Walking'
<1>1. Shape /\ Listed /\ IsFiniteSet(seen) /\ KeptBelow /\ Adding
  BY DEF SumInv, IInv, Walking
<1>2. call.name = "sum" /\ call.down /\ UNCHANGED <<tree, weight, history>>
  BY DEF SumDown
<1>3. /\ kept' = kept /\ seen' = seen /\ disturbed' = disturbed /\ UNCHANGED tree
      /\ weight' = weight
  BY <1>2 DEF history
<1>4. /\ call.caller \in Pids /\ call.path \in Seq(Pids) /\ call.path # <<>>
      /\ call.down = TRUE /\ call.total \in Nat /\ call \in SumCalls
      /\ call.caller \in Used \ {Swapper} /\ kept \subseteq Below \intersect Used
  BY <1>1, <1>2, SumFields, CallsAre DEF KeptBelow, Shape, TypeOK
<1> DEFINE first == children[Last(call.path)]
           more == Append(call.path, Head(first))
<1>5. /\ call'.name = "sum" /\ call'.caller = call.caller /\ call'.total = call.total
      /\ IF first = <<>> THEN call'.path = call.path /\ call'.down = FALSE
         ELSE call'.path = more /\ call'.down = TRUE
  BY <1>2, <1>4 DEF SumDown, SumCalls
<1>6. KeptBelow'
  BY <1>3, <1>4, <1>5, ListedSame DEF KeptBelow, Below
<1>7. ASSUME ~ disturbed
      PROVE  \E d \in SUBSET Pids :
               /\ Traversed(call'.caller, call'.path, call'.down, d)
               /\ Between(call.total, d)'
  <2>1. PICK d \in SUBSET Pids :
          Traversed(call.caller, call.path, TRUE, d) /\ Between(call.total, d)
    BY <1>1, <1>2, <1>4, <1>7 DEF Adding
  <2>2. Between(call.total, d)'
    <3>1. Between(call.total, d) <=> (Total(Least', kept' \intersect d) <= call.total
                                      /\ call.total <= Total(Greatest', d))
      BY <1>3 DEF Between, Least, Greatest, WeightsOf
    <3> QED
      BY <1>5, <2>1, <3>1 DEF Between, Total
  <2>3. Path(call.caller, call.path)
    BY <1>4 DEF Path
  <2>4. CASE first = <<>>
    BY <1>5, <2>1, <2>2, <2>4, TraversedLeaf
  <2>5. CASE first # <<>>
    <3>1. Traversed(call.caller, more, TRUE, d)
      BY <1>1, <2>1, <2>3, <2>5, TraversedDown
    <3> QED
      BY <1>5, <2>2, <2>5, <3>1
  <2> QED
    BY <2>4, <2>5
<1> QED
  BY <1>1, <1>3, <1>5, <1>6, <1>7, WalkThen

(* The walk adds the process it stands at. *)
LEMMA SumAdds ==
  ASSUME SumInv, call.name = "sum", ~ call.down, ~ disturbed
  PROVE  \E d \in SUBSET Pids :
           /\ Path(call.caller, call.path)
           /\ Traversed(call.caller, call.path, FALSE, d)
           /\ d \union {Last(call.path)} \in SUBSET Pids
           /\ Between(Added, d \union {Last(call.path)})
           /\ Last(call.path) \in Members(Father)
<1>1. Shape /\ TypeOK /\ Listed /\ IsFiniteSet(seen) /\ KeptBelow /\ Adding /\ SeenNow
  BY DEF SumInv, IInv, Walking, Shape, Noted
<1>2. /\ call.caller \in Pids /\ call.path \in Seq(Pids) /\ call.path # <<>>
      /\ call.down = FALSE /\ call.total \in Nat /\ call.caller \in Used \ {Swapper}
  BY <1>1, SumFields DEF KeptBelow
<1>3. Path(call.caller, call.path)
  BY <1>2 DEF Path
<1>4. PICK d \in SUBSET Pids :
        Traversed(call.caller, call.path, FALSE, d) /\ Between(call.total, d)
  BY <1>1, <1>2 DEF Adding
<1> DEFINE t == Last(call.path)
<1>5. /\ t \in Members(Over(call.caller, call.path, Len(call.path)))
      /\ t \in Used
  BY <1>1, <1>3, <1>4, PathEnds DEF Traversed
<1>6. t \in Pids /\ t \in On(call.caller, call.path)
  BY <1>3, PathIs
<1>7. t \notin d
  BY <1>4, <1>6 DEF Traversed
<1>8. <<t, weight[t]>> \in seen
  BY <1>1, <1>5 DEF SeenNow, InCall
<1> HIDE DEF t
<1>9. Between(call.total + weight[t], d \union {t})
  BY <1>1, <1>2, <1>4, <1>6, <1>7, <1>8, BetweenMore
<1> QED
  BY <1>3, <1>4, <1>5, <1>6, <1>9 DEF t, Added, Father, Over

LEMMA SumUpWalking ==
  ASSUME SumInv, SumUp
  PROVE  Walking'
<1> DEFINE task == Last(call.path)
           siblings == children[Father]
           next == NextPos(siblings, task)
           more == Append(Front(call.path), siblings[next])
<1>1. Shape /\ Listed /\ IsFiniteSet(seen) /\ KeptBelow
  BY DEF SumInv, IInv, Walking
<1>2. call.name = "sum" /\ ~ call.down /\ UNCHANGED <<tree, weight, history>>
  BY DEF SumUp
<1>3. /\ kept' = kept /\ seen' = seen /\ disturbed' = disturbed /\ UNCHANGED tree
      /\ weight' = weight
  BY <1>2 DEF history
<1>4. /\ call.caller \in Pids /\ call \in SumCalls
      /\ call.caller \in Used \ {Swapper} /\ kept \subseteq Below \intersect Used
  BY <1>1, <1>2, SumFields, CallsAre DEF KeptBelow, Shape, TypeOK
<1>5. call' = IF next <= Len(siblings)
                THEN [call EXCEPT !.path = more, !.down = TRUE, !.total = Added]
              ELSE IF Len(call.path) = 1
                THEN [name |-> "summed", caller |-> call.caller, total |-> Added]
              ELSE [call EXCEPT !.path = Front(call.path), !.total = Added]
  BY <1>4 DEF SumUp, SumCalls
<1>6. /\ \A total, done : Between(total, done) =>
           Total(Least', kept' \intersect done) <= total /\ total <= Total(Greatest', done)
  BY <1>3 DEF Between, Least, Greatest, WeightsOf
<1>7. Father = Over(call.caller, call.path, Len(call.path))
  BY DEF Father, Over
<1> DEFINE Done(d) == /\ Path(call.caller, call.path)
                      /\ Traversed(call.caller, call.path, FALSE, d)
                      /\ d \union {task} \in SUBSET Pids
                      /\ Between(Added, d \union {task})
<1>8. ~ disturbed => \E d \in SUBSET Pids : Done(d)
  BY <1>2, SumAdds
<1> HIDE DEF task, siblings, next, more
<1>9. CASE next <= Len(siblings)
  <2>1. /\ call'.name = "sum" /\ call'.caller = call.caller /\ call'.path = more
        /\ call'.down = TRUE /\ call'.total = Added
    BY <1>4, <1>5, <1>9 DEF SumCalls
  <2>2. KeptBelow'
    BY <1>3, <1>4, <2>1, ListedSame DEF KeptBelow, Below
  <2>3. ASSUME ~ disturbed
        PROVE  \E d \in SUBSET Pids :
                 /\ Traversed(call'.caller, call'.path, call'.down, d)
                 /\ Between(call.total, d)'
    <3>1. PICK d \in SUBSET Pids : Done(d)
      BY <1>8, <2>3
    <3>2. Traversed(call.caller, more, TRUE, d \union {task})
      BY <1>1, <1>7, <1>9, <3>1, TraversedNext DEF siblings, next, more, task
    <3>3. PICK e \in SUBSET Pids : e = d \union {task}
      BY <3>1
    <3>4. Between(Added, e)
      BY <3>1, <3>3
    <3>5. Between(call.total, e)'
      BY <1>6, <2>1, <3>4 DEF Between, Total
    <3> QED
      BY <2>1, <3>2, <3>3, <3>5
  <2> QED
    BY <1>1, <1>3, <2>1, <2>2, <2>3, WalkThen
<1>10. CASE ~ (next <= Len(siblings)) /\ Len(call.path) = 1
  <2>1. call'.name = "summed" /\ call'.caller = call.caller /\ call'.total = Added
    BY <1>5, <1>10
  <2>2. Below' = Below
    BY <1>3, <2>1, ListedSame DEF Below
  <2>3. KeptBelow'
    BY <1>3, <1>4, <2>1, <2>2, ListedSame DEF KeptBelow
  <2>4. ASSUME ~ disturbed PROVE Between(call.total, Below)'
    <3>1. PICK d \in SUBSET Pids : Done(d)
      BY <1>8, <2>4
    <3>2. Below = d \union {task}
      BY <1>1, <1>7, <1>10, <3>1, TraversedAll DEF siblings, next, task, Below
    <3>3. Between(Added, Below)
      BY <3>1, <3>2
    <3>4. Total(Least', kept' \intersect Below) <= Added /\ Added <= Total(Greatest', Below)
      BY <1>6, <3>3
    <3> QED
      BY <2>1, <2>2, <3>4 DEF Between, Total
  <2> QED
    BY <1>1, <1>3, <2>1, <2>3, <2>4, ListedSame DEF Walking, Adding, Summed, Lost
<1>11. CASE ~ (next <= Len(siblings)) /\ Len(call.path) # 1
  <2>1. /\ call'.name = "sum" /\ call'.caller = call.caller /\ call'.path = Front(call.path)
        /\ call'.down = FALSE /\ call'.total = Added
    BY <1>2, <1>4, <1>5, <1>11 DEF SumCalls
  <2>2. KeptBelow'
    BY <1>3, <1>4, <2>1, ListedSame DEF KeptBelow, Below
  <2>3. ASSUME ~ disturbed
        PROVE  \E d \in SUBSET Pids :
                 /\ Traversed(call'.caller, call'.path, call'.down, d)
                 /\ Between(call.total, d)'
    <3>1. PICK d \in SUBSET Pids : Done(d)
      BY <1>8, <2>3
    <3>2. Traversed(call.caller, Front(call.path), FALSE, d \union {task})
      BY <1>1, <1>7, <1>11, <3>1, TraversedUp DEF siblings, next, task
    <3>3. PICK e \in SUBSET Pids : e = d \union {task}
      BY <3>1
    <3>4. Between(Added, e)
      BY <3>1, <3>3
    <3>5. Between(call.total, e)'
      BY <1>6, <2>1, <3>4 DEF Between, Total
    <3> QED
      BY <2>1, <3>2, <3>3, <3>5
  <2> QED
    BY <1>1, <1>3, <2>1, <2>2, <2>3, WalkThen
<1> QED
  BY <1>9, <1>10, <1>11

(* Undisturbed, the walk meets the ends of the lists it looks for. *)
LEMMA SumLostWalking ==
  ASSUME SumInv, SumLost
  PROVE  Walking'
<1>1. /\ call.name = "sum" /\ ~ call.down /\ Last(call.path) \notin Members(Father)
      /\ call'.name = "lost" /\ UNCHANGED tree /\ seen' = seen /\ disturbed' = disturbed
  BY DEF SumLost, history
<1>2. disturbed
  BY <1>1, SumAdds
<1>3. IsFiniteSet(seen)
  BY DEF SumInv, Walking
<1> QED
  BY <1>1, <1>2, <1>3, ListedSame DEF Walking, KeptBelow, Adding, Summed, Lost

-----------------------------------------------------------------------------
LEMMA InitWalking == Init => SumInv
<1> SUFFICES ASSUME Init PROVE SumInv
  OBVIOUS
<1>1. IInv
  BY InitIInv
<1>2. call.name = "none" /\ seen = {}
  BY DEF Init, Idle
<1> QED
  BY <1>1, <1>2, InitListed, FS_EmptySet
  DEF SumInv, Walking, KeptBelow, Adding, Summed, Lost

LEMMA NextWalking ==
  ASSUME SumInv, [Next]_vars
  PROVE  SumInv'
<1>1. IInv
  BY DEF SumInv
<1>2. IInv' /\ Shape'
  BY <1>1, NextIInv DEF IInv
<1>3. IsFiniteSet(seen)
  BY DEF SumInv, Walking
<1>4. Walking'
  <2>1. ASSUME NEW p \in Pids, Fork(p) PROVE Walking'
    BY <1>2, <2>1, ForkWalking
  <2>2. ASSUME NEW p \in Pids, Exit(p) PROVE Walking'
    BY <1>2, <2>2, ExitWalking
  <2>3. ASSUME NEW p \in Pids, Wait(p) PROVE Walking'
    BY <1>2, <2>3, WaitWalking
  <2>4. ASSUME NEW p \in Pids, NEW w \in Weights, sys_set_weight(p, w) PROVE Walking'
    BY <1>2, <2>4, WeightWalking
  <2>5. ASSUME NEW p \in Pids, sys_get_children_sum(p) PROVE Walking'
    BY <2>5, SumBeginWalking
  <2>6. ASSUME NEW p \in Pids, NoChildren(p) PROVE Walking'
    <3>1. UNCHANGED tree /\ seen' = seen /\ call'.name = "childless"
      BY <2>6 DEF NoChildren, history
    <3> QED
      BY <1>3, <3>1, NoWalk
  <2>7. ASSUME NEW p \in Pids, sys_get_heaviest_ancestor(p) PROVE Walking'
    <3>1. /\ UNCHANGED tree /\ call'.name = "heaviest"
          /\ seen' = {<<q, weight[q]>> : q \in {r \in Pids : state[r] # "unused"}}
      BY <2>7 DEF sys_get_heaviest_ancestor, Begin
    <3> QED
      BY <3>1, SeenFinite, NoWalk
  <2>8. ASSUME Climb PROVE Walking'
    <3>1. UNCHANGED tree /\ seen' = seen /\ call.name = "heaviest"
      BY <2>8 DEF Climb, history
    <3>2. call \in HeaviestCalls
      BY <1>1, <3>1, CallsAre DEF IInv, Shape, TypeOK
    <3>3. call'.name \in {"heaviest", "found"}
      BY <2>8, <3>2 DEF Climb, HeaviestCalls
    <3> QED
      BY <1>3, <3>1, <3>3, NoWalk
  <2>9. ASSUME Return PROVE Walking'
    <3>1. UNCHANGED tree /\ seen' = {} /\ call'.name = "none"
      BY <2>9 DEF Return, Idle
    <3> QED
      BY <3>1, FS_EmptySet, NoWalk
  <2>10. ASSUME UNCHANGED vars PROVE Walking'
    <3>1. /\ real_parent' = real_parent /\ children' = children /\ call' = call
          /\ seen' = seen /\ kept' = kept /\ disturbed' = disturbed
          /\ Used' = Used /\ Below' = Below
      BY <2>10 DEF vars, tree, history, Used, Below
    <3>2. KeptBelow
      BY DEF SumInv, Walking
    <3> QED
      BY <1>2, <1>3, <3>1, <3>2, LeavesLists DEF KeptBelow
  <2> QED
    BY <2>1, <2>2, <2>3, <2>4, <2>5, <2>6, <2>7, <2>8, <2>9, <2>10,
       SumDownWalking, SumUpWalking, SumLostWalking DEF Next, Walk
<1> QED
  BY <1>2, <1>4 DEF SumInv

(* What the caller gets lies between the two sums over its descendants. *)
LEMMA SumOfDescendants == SumInv => SumIsOfDescendants
<1> SUFFICES ASSUME SumInv PROVE SumIsOfDescendants
  OBVIOUS
<1>1. Shape /\ TypeOK /\ Listed /\ IsFiniteSet(seen) /\ KeptBelow /\ Summed /\ Lost
      /\ SeenNow
  BY DEF SumInv, IInv, Walking, Shape, Noted
<1>2. ASSUME call.name = "summed", ~ disturbed
      PROVE  /\ SumFunction([p \in kept |-> Min(WeightsOf(p))]) <= call.total
             /\ call.total <= SumFunction([p \in Below |-> Max(WeightsOf(p))])
  <2> DEFINE low == [p \in kept |-> Min(WeightsOf(p))]
             high == [p \in Below |-> Max(WeightsOf(p))]
  <2>1. /\ call.caller \in Pids /\ call.total \in Nat
        /\ kept \subseteq Below \intersect Used
        /\ Between(call.total, Below)
    BY <1>1, <1>2, SumFields DEF KeptBelow, Summed
  <2>2. Below \subseteq Used /\ Below \in SUBSET Pids /\ kept \in SUBSET Pids
    BY <1>1, <2>1, BelowUsed DEF Below
  <2>3. \A p \in Used : <<p, weight[p]>> \in seen
    BY <1>1, <1>2 DEF SeenNow, InCall
  <2>4. ASSUME NEW p \in Below
        PROVE  /\ Least[p] = Min(WeightsOf(p)) /\ Greatest[p] = Max(WeightsOf(p))
               /\ Least[p] \in Nat /\ Greatest[p] \in Nat
    <3>1. p \in Pids /\ WeightsOf(p) # {}
      BY <1>1, <2>2, <2>3, WeightsAre
    <3> QED
      BY <1>1, <3>1, LeastGreatest DEF Least, Greatest
  <2>5. /\ IsFiniteSet(kept) /\ IsFiniteSet(Below)
        /\ Total(Least, kept) \in Nat /\ Total(Greatest, Below) \in Nat
    BY <1>1, <2>2, PidsFinite, BoundsNat
  <2>6. kept \intersect Below = kept
    BY <2>1
  <2>7. \A p \in kept : low[p] = Least[p] /\ low[p] \in Nat /\ low[p] <= Least[p]
                        /\ Least[p] \in Nat
    BY <2>1, <2>4
  <2>8. \A p \in Below : high[p] = Greatest[p] /\ high[p] \in Nat /\ Greatest[p] <= high[p]
                         /\ Greatest[p] \in Nat
    BY <2>4
  <2>9. SumFunction(low) = Total(low, kept) /\ SumFunction(high) = Total(high, Below)
    BY DEF SumFunction, Total, SumFunctionOnSet, FoldFunction, FoldFunctionOnSet
  <2> HIDE DEF low, high
  <2>10. Total(low, kept) <= Total(Least, kept) /\ Total(Greatest, Below) <= Total(high, Below)
    BY <2>5, <2>7, <2>8, SumLeq DEF Total
  <2>11. Total(low, kept) \in Nat /\ Total(high, Below) \in Nat
    BY <2>5, <2>7, <2>8, SumNat DEF Total
  <2>12. Total(Least, kept) <= call.total /\ call.total <= Total(Greatest, Below)
    BY <2>1, <2>6 DEF Between
  <2>13. SumFunction(low) <= call.total /\ call.total <= SumFunction(high)
    BY <2>1, <2>5, <2>9, <2>10, <2>11, <2>12
  <2> QED
    BY <2>13 DEF low, high
<1> QED
  BY <1>1, <1>2 DEF SumIsOfDescendants, Lost, Below

(* Whatever is forked, exits, is waited for or changes its weight during   *)
(* get_children_sum, its result is the sum over the descendants that it    *)
(* had: each of those it had all along once, at a weight it had, and no    *)
(* process that is not one.  Only a list that lost a process makes it stray. *)
THEOREM SumReturned == Spec => []SumIsOfDescendants
<1>1. SumInv /\ [Next]_vars => SumInv'
  BY NextWalking
<1> QED
  BY <1>1, InitWalking, SumOfDescendants, PTL DEF Spec
=============================================================================
