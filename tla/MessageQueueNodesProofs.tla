---------------------- MODULE MessageQueueNodesProofs -----------------------
(***************************************************************************)
(* Theorems about the list of nodes of HW3/message_queue.c and the heap it *)
(* lives in, for any pool, any capacity, policy and number of arrivals,    *)
(* and with every malloc that may fail.                                    *)
(*                                                                         *)
(* The lemmas go from the heap up: who owns its blocks (Owns), the list in *)
(* it (Linked, Rep), what each malloc, free and assignment does to both,   *)
(* the loops of putHandleDropRandom, and then one lemma for each critical  *)
(* section.  The theorems are at the end.                                  *)
(***************************************************************************)
EXTENDS MessageQueueNodes, SequenceTheorems, FiniteSetTheorems,
        WellFoundedInduction, TLAPS

(* What holds of 0 and goes from n to n + 1 holds of every number: the set *)
(* S stands for the property.                                              *)
LEMMA Counting ==
  ASSUME NEW S, 0 \in S, \A n \in Nat : n \in S => n + 1 \in S
  PROVE  \A n \in Nat : n \in S
<1> DEFINE R == OpToRel(<, Nat)
           Bad == {n \in Nat : n \notin S}
<1>1. \A x, y \in Nat : y < x => <<y, x>> \in R
  BY Zenon DEF OpToRel
<1>2. IsWellFoundedOn(R, Nat)
  BY NatLessThanWellFounded, Zenon
<1> SUFFICES ASSUME Bad # {} PROVE FALSE
  OBVIOUS
<1>3. Bad \subseteq Nat
  OBVIOUS
<1> HIDE DEF R
<1>4. PICK x \in Bad : \A y \in Bad : ~ (<<y, x>> \in R)
  <2> HIDE DEF Bad
  <2> QED
    BY <1>2, <1>3, WFMin, Zenon
<1>5. x \in Nat /\ x # 0 /\ x - 1 \in Nat /\ x - 1 < x
  BY <1>4
<1>6. x - 1 \in Bad
  BY <1>4, <1>5
<1> QED
  BY <1>1, <1>3, <1>4, <1>5, <1>6, Zenon

-----------------------------------------------------------------------------
(* A finite set of integers in order.                                      *)

Rank(S, a) == Cardinality({b \in S : b < a})
Nth(S, i) == CHOOSE a \in S : Rank(S, a) = i - 1

LEMMA RankIs ==
  ASSUME NEW S, S \subseteq Int, IsFiniteSet(S), NEW a \in S
  PROVE  /\ Rank(S, a) \in 0 .. Cardinality(S) - 1
         /\ \A b \in S : a < b => Rank(S, a) < Rank(S, b)
<1> DEFINE Below(x) == {b \in S : b < x}
<1>1. \A x : Below(x) \in SUBSET S
  OBVIOUS
<1>2. \A x \in S : /\ IsFiniteSet(Below(x)) /\ Cardinality(Below(x)) \in Nat
                   /\ IsFiniteSet(Below(x) \union {x})
                   /\ Cardinality(Below(x) \union {x}) = Cardinality(Below(x)) + 1
  <2> TAKE x \in S
  <2>1. x \notin Below(x)
    OBVIOUS
  <2>2. IsFiniteSet(Below(x))
    <3> HIDE DEF Below
    <3> QED
      BY <1>1, FS_Subset
  <2> HIDE DEF Below
  <2> QED
    BY <2>1, <2>2, FS_CardinalityType, FS_AddElement
<1>3. Below(a) \union {a} \in SUBSET S
  OBVIOUS
<1>4. Cardinality(Below(a)) + 1 <= Cardinality(S) /\ Cardinality(S) \in Nat
  <2> HIDE DEF Below
  <2> QED
    BY <1>2, <1>3, FS_Subset, FS_CardinalityType
<1>5. ASSUME NEW b \in S, a < b
      PROVE  Cardinality(Below(a)) + 1 <= Cardinality(Below(b))
  <2>1. Below(a) \union {a} \in SUBSET Below(b)
    <3>1. \A c \in S : c \in Int /\ (c < a => c < b)
      BY <1>5
    <3> QED
      BY <1>5, <3>1
  <2>2. IsFiniteSet(Below(b)) /\ Cardinality(Below(a) \union {a}) = Cardinality(Below(a)) + 1
    BY <1>2
  <2> HIDE DEF Below
  <2>3. Cardinality(Below(a) \union {a}) <= Cardinality(Below(b))
    BY <2>1, <2>2, FS_Subset
  <2> QED
    BY <2>2, <2>3
<1>6. \A x : Rank(S, x) = Cardinality(Below(x))
  BY DEF Rank
<1> HIDE DEF Below
<1>7. Rank(S, a) \in 0 .. Cardinality(S) - 1
  <2>1. Rank(S, a) = Cardinality(Below(a)) /\ Cardinality(Below(a)) \in Nat
    BY <1>2, <1>6
  <2> QED
    BY <1>4, <2>1
<1>8. ASSUME NEW b \in S, a < b
      PROVE  Rank(S, a) < Rank(S, b)
  <2>1. /\ Rank(S, a) = Cardinality(Below(a)) /\ Cardinality(Below(a)) \in Nat
        /\ Rank(S, b) = Cardinality(Below(b)) /\ Cardinality(Below(b)) \in Nat
    BY <1>2, <1>6
  <2>2. Cardinality(Below(a)) + 1 <= Cardinality(Below(b))
    BY <1>5, <1>8
  <2> QED
    BY <2>1, <2>2
<1> QED
  BY <1>7, <1>8

(* Every rank is taken, by one element. *)
LEMMA NthIs ==
  ASSUME NEW S, S \subseteq Int, IsFiniteSet(S)
  PROVE  /\ Cardinality(S) \in Nat
         /\ \A i \in 1 .. Cardinality(S) : Nth(S, i) \in S
         /\ \A i, j \in 1 .. Cardinality(S) : i < j => Nth(S, i) < Nth(S, j)
         /\ \A a \in S : \E i \in 1 .. Cardinality(S) : a = Nth(S, i)
<1> DEFINE n == Cardinality(S)
           f == [a \in S |-> Rank(S, a)]
<1>1. n \in Nat
  BY FS_CardinalityType
<1>2. \A a \in S : /\ Rank(S, a) \in 0 .. n - 1
                   /\ \A b \in S : a < b => Rank(S, a) < Rank(S, b)
  BY RankIs
<1>3. \A a, b \in S : Rank(S, a) = Rank(S, b) => a = b
  <2> SUFFICES ASSUME NEW a \in S, NEW b \in S, Rank(S, a) = Rank(S, b)
               PROVE  a = b
    OBVIOUS
  <2>1. a \in Int /\ b \in Int /\ ~ (a < b) /\ ~ (b < a)
    BY <1>1, <1>2
  <2> QED
    BY <2>1
<1>4. f \in Surjection(S, 0 .. n - 1)
  <2>1. f \in Injection(S, 0 .. n - 1)
    BY <1>2, <1>3 DEF Injection, IsInjective
  <2>2. IsFiniteSet(0 .. n - 1) /\ Cardinality(0 .. n - 1) = n
    <3>1. n - 1 \in Int /\ 0 \in Int
      BY <1>1
    <3> HIDE DEF n
    <3>2. /\ IsFiniteSet(0 .. n - 1)
          /\ Cardinality(0 .. n - 1) = IF 0 > n - 1 THEN 0 ELSE n - 1 - 0 + 1
      BY <3>1, FS_Interval
    <3> QED
      BY <1>1, <3>2
  <2> HIDE DEF f
  <2> QED
    BY <2>1, <2>2, FS_Injection
<1>5. ASSUME NEW i \in 1 .. n
      PROVE  Nth(S, i) \in S /\ Rank(S, Nth(S, i)) = i - 1
  <2>1. i - 1 \in 0 .. n - 1
    BY <1>1
  <2>2. \E a \in S : Rank(S, a) = i - 1
    BY <1>4, <2>1 DEF Surjection
  <2> QED
    BY <2>2 DEF Nth
<1>6. ASSUME NEW i \in 1 .. n, NEW j \in 1 .. n, i < j
      PROVE  Nth(S, i) < Nth(S, j)
  <2>1. Nth(S, i) \in Int /\ Nth(S, j) \in Int
    BY <1>5
  <2>2. Nth(S, i) # Nth(S, j)
    BY <1>1, <1>5, <1>6
  <2>3. ~ (Nth(S, j) < Nth(S, i))
    <3>1. Nth(S, j) \in S /\ Nth(S, i) \in S
      BY <1>5
    <3>2. Nth(S, j) < Nth(S, i) => Rank(S, Nth(S, j)) < Rank(S, Nth(S, i))
      BY <1>2, <3>1
    <3> QED
      BY <1>1, <1>5, <1>6, <3>2
  <2> QED
    BY <2>1, <2>2, <2>3
<1>7. ASSUME NEW a \in S
      PROVE  \E i \in 1 .. n : a = Nth(S, i)
  <2>1. Rank(S, a) + 1 \in 1 .. n /\ Rank(S, a) + 1 - 1 = Rank(S, a)
    BY <1>1, <1>2
  <2> DEFINE i == Rank(S, a) + 1
  <2>2. i \in 1 .. n /\ i - 1 = Rank(S, a)
    <3>1. Rank(S, a) \in Int
      BY <1>1, <1>2
    <3> QED
      BY <2>1, <3>1
  <2> HIDE DEF i
  <2>3. Nth(S, i) \in S /\ Rank(S, Nth(S, i)) = Rank(S, a)
    BY <1>5, <2>2
  <2>4. a = Nth(S, i)
    BY <1>3, <2>3
  <2> QED
    BY <2>2, <2>4
<1> QED
  BY <1>1, <1>5, <1>6, <1>7

AreFree(h, k, a) ==
  /\ DOMAIN a = 1 .. k
  /\ \A i \in 1 .. k : a[i] \in Nat \ {0} /\ a[i] \notin DOMAIN h
  /\ \A i, j \in 1 .. k : i # j => a[i] # a[j]

(* malloc hands out addresses that are free, and different ones. *)
LEMMA FreeBlocksAre ==
  ASSUME NEW h, IsFiniteSet(DOMAIN h), NEW from \in Nat \ {0}, NEW k \in Nat
  PROVE  AreFree(h, k, FreeBlocks(h, from, k))
<1> DEFINE n == Cardinality(DOMAIN h)
           all == from .. from + n + k
           free == all \ DOMAIN h
           a == FreeBlocks(h, from, k)
<1>1. n \in Nat
  BY FS_CardinalityType
<1>2. IsFiniteSet(all) /\ Cardinality(all) = n + k + 1
  <2>1. from \in Int /\ from + n + k \in Int /\ ~ (from > from + n + k)
        /\ from + n + k - from + 1 = n + k + 1
    BY <1>1
  <2> DEFINE b == from + n + k
  <2> HIDE DEF b
  <2>2. IsFiniteSet(from .. b)
        /\ Cardinality(from .. b) = IF from > b THEN 0 ELSE b - from + 1
    BY <2>1, FS_Interval DEF b
  <2>3. ~ (from > b)
    BY <2>1 DEF b
  <2>4. Cardinality(from .. b) = b - from + 1
    BY <2>2, <2>3
  <2>5. b - from + 1 = n + k + 1
    BY <1>1, <2>1 DEF b
  <2> QED
    BY <2>2, <2>4, <2>5 DEF b
<1>3. /\ IsFiniteSet(free)
      /\ Cardinality(free) = Cardinality(all) - Cardinality(all \cap DOMAIN h)
  <2> HIDE DEF all
  <2> QED
    BY <1>2, FS_Difference
<1>4. Cardinality(all \cap DOMAIN h) <= n /\ Cardinality(all \cap DOMAIN h) \in Nat
  <2> HIDE DEF all
  <2> QED
    BY FS_Intersection, FS_CardinalityType
<1>5. Cardinality(free) \in Nat /\ k <= Cardinality(free)
  <2> HIDE DEF free, all, n
  <2> QED
    BY <1>1, <1>2, <1>3, <1>4
<1>6. free \subseteq Nat \ {0} /\ free \subseteq Int /\ free \cap DOMAIN h = {}
  BY <1>1
<1>7. /\ \A i \in 1 .. Cardinality(free) : Nth(free, i) \in free
      /\ \A i, j \in 1 .. Cardinality(free) : i < j => Nth(free, i) < Nth(free, j)
  <2> HIDE DEF free
  <2> QED
    BY <1>3, <1>6, NthIs
<1>8. a = [i \in 1 .. k |-> Nth(free, i)]
  BY DEF FreeBlocks, Nth, Rank
<1> HIDE DEF free, a
<1>9. \A i \in 1 .. k : i \in 1 .. Cardinality(free) /\ a[i] = Nth(free, i)
  BY <1>5, <1>8
<1>10. \A i, j \in 1 .. k : i # j => a[i] # a[j]
  <2> SUFFICES ASSUME NEW i \in 1 .. k, NEW j \in 1 .. k, i # j, a[i] = a[j]
               PROVE  FALSE
    OBVIOUS
  <2>1. i < j \/ j < i
    OBVIOUS
  <2>2. a[i] \in Int /\ a[j] \in Int
    BY <1>6, <1>7, <1>9
  <2>3. a[i] < a[j] \/ a[j] < a[i]
    BY <1>7, <1>9, <2>1
  <2> QED
    BY <2>2, <2>3
<1>11. DOMAIN a = 1 .. k
  BY <1>8
<1> QED
  BY <1>6, <1>7, <1>9, <1>10, <1>11 DEF AreFree, a

-----------------------------------------------------------------------------
(* Who owns the blocks of a heap h: the nodes N with their messages, the   *)
(* messages H with metadata of their own, and the messages C without.      *)

Nodes == [next : Nat, message : Nat]
Messages == [content : Nat, metaData : Nat]

IsNode(h, a) == a \in DOMAIN h /\ h[a] \in Nodes
IsMessage(h, a) == a \in DOMAIN h /\ h[a] \in Messages
IsMetaData(h, a) == a \in DOMAIN h /\ h[a] = MetaData

MessagesOf(h, N) == {h[n].message : n \in N}
MetaDataOf(h, M) == {h[m].metaData : m \in M}

(* The messages that have metadata to themselves. *)
Paired(h, N, H) == MessagesOf(h, N) \union H

Owned(h, N, H, C) ==
  N \union Paired(h, N, H) \union C \union MetaDataOf(h, Paired(h, N, H))

Kinds(h, N, H, C) ==
  /\ \A n \in N : IsNode(h, n)
  /\ \A m \in Paired(h, N, H) \union C : IsMessage(h, m)
  /\ \A m \in Paired(h, N, H) : IsMetaData(h, h[m].metaData)

OneOwner(h, N, H, C) ==
  /\ \A n, o \in N : h[n].message = h[o].message => n = o
  /\ \A m, o \in Paired(h, N, H) : h[m].metaData = h[o].metaData => m = o
  /\ MessagesOf(h, N) \cap H = {}
  /\ Paired(h, N, H) \cap C = {}

Owns(h, N, H, C) == Kinds(h, N, H, C) /\ OneOwner(h, N, H, C)

(* A block is of one kind. *)
LEMMA OneKind ==
  ASSUME NEW h, NEW a
  PROVE  /\ ~ (IsNode(h, a) /\ IsMessage(h, a))
         /\ ~ (IsNode(h, a) /\ IsMetaData(h, a))
         /\ ~ (IsMessage(h, a) /\ IsMetaData(h, a))
<1>1. ASSUME NEW b, b \in Nodes PROVE b \notin Messages /\ b # MetaData
  BY <1>1 DEF Nodes, Messages, MetaData
<1>2. ASSUME NEW b, b \in Messages PROVE b # MetaData
  BY <1>2 DEF Messages, MetaData
<1> QED
  BY <1>1, <1>2 DEF IsNode, IsMessage, IsMetaData

(* The four sets of blocks are disjoint. *)
LEMMA OwnersApart ==
  ASSUME NEW h, NEW N, NEW H, NEW C, Owns(h, N, H, C)
  PROVE  /\ N \cap (Paired(h, N, H) \union C) = {}
         /\ N \cap MetaDataOf(h, Paired(h, N, H)) = {}
         /\ (Paired(h, N, H) \union C) \cap MetaDataOf(h, Paired(h, N, H)) = {}
         /\ Owned(h, N, H, C) \subseteq DOMAIN h
<1>1. \A d \in MetaDataOf(h, Paired(h, N, H)) : IsMetaData(h, d)
  BY DEF Owns, Kinds, MetaDataOf
<1>2. /\ \A n \in N : IsNode(h, n)
      /\ \A m \in Paired(h, N, H) \union C : IsMessage(h, m)
  BY DEF Owns, Kinds
<1>3. Owned(h, N, H, C) \subseteq DOMAIN h
  BY <1>1, <1>2 DEF Owned, IsNode, IsMessage, IsMetaData
<1> QED
  BY <1>1, <1>2, <1>3, OneKind

(* The blocks that N, H and C own in h are in g, as far as owning goes. *)
Keeps(h, g, N, H, C) ==
  /\ \A n \in N : IsNode(g, n) /\ g[n].message = h[n].message
  /\ \A a \in Owned(h, N, H, C) \ N : a \in DOMAIN g /\ g[a] = h[a]

LEMMA OwnsLess ==
  ASSUME NEW h, NEW N, NEW H, NEW C, Owns(h, N, H, C),
         NEW N2 \in SUBSET N, NEW H2 \in SUBSET H, NEW C2 \in SUBSET C
  PROVE  Owns(h, N2, H2, C2)
<1>1. MessagesOf(h, N2) \subseteq MessagesOf(h, N)
  BY DEF MessagesOf
<1>2. Paired(h, N2, H2) \subseteq Paired(h, N, H)
  BY <1>1 DEF Paired
<1> QED
  BY <1>1, <1>2 DEF Owns, Kinds, OneOwner

LEMMA OwnsKept ==
  ASSUME NEW h, NEW N, NEW H, NEW C, Owns(h, N, H, C), NEW g, Keeps(h, g, N, H, C)
  PROVE  Owns(g, N, H, C) /\ Owned(g, N, H, C) = Owned(h, N, H, C)
<1>1. MessagesOf(g, N) = MessagesOf(h, N)
  BY DEF MessagesOf, Keeps
<1>2. Paired(g, N, H) = Paired(h, N, H)
  BY <1>1 DEF Paired
<1>3. \A m \in Paired(h, N, H) \union C : m \in DOMAIN g /\ g[m] = h[m]
  BY OwnersApart DEF Keeps, Owned
<1>4. \A m \in Paired(h, N, H) : IsMetaData(g, h[m].metaData)
  <2>1. \A d \in MetaDataOf(h, Paired(h, N, H)) : d \in DOMAIN g /\ g[d] = h[d]
    BY OwnersApart DEF Keeps, Owned
  <2> QED
    BY <2>1 DEF Owns, Kinds, IsMetaData, MetaDataOf
<1>5. MetaDataOf(g, Paired(h, N, H)) = MetaDataOf(h, Paired(h, N, H))
  BY <1>3 DEF MetaDataOf
<1>6. Owned(g, N, H, C) = Owned(h, N, H, C)
  BY <1>2, <1>5 DEF Owned
<1>7. Kinds(g, N, H, C)
  BY <1>2, <1>3, <1>4 DEF Owns, Kinds, Keeps, IsMessage
<1>8. OneOwner(g, N, H, C)
  BY <1>1, <1>2, <1>3 DEF Owns, OneOwner, Keeps
<1> QED
  BY <1>6, <1>7, <1>8 DEF Owns

(* free: the owners that give up blocks, and those blocks, go together. *)
LEMMA OwnsFreed ==
  ASSUME NEW h, NEW N, NEW H, NEW C, Owns(h, N, H, C),
         NEW N2 \in SUBSET N, NEW H2 \in SUBSET H, NEW C2 \in SUBSET C,
         NEW B, B \cap Owned(h, N2, H2, C2) = {}
  PROVE  /\ Owns(Freed(h, B), N2, H2, C2)
         /\ Owned(Freed(h, B), N2, H2, C2) = Owned(h, N2, H2, C2)
<1> DEFINE g == Freed(h, B)
<1>1. DOMAIN g = DOMAIN h \ B /\ \A a \in DOMAIN g : g[a] = h[a]
  BY DEF Freed, Restrict
<1>2. Owns(h, N2, H2, C2)
  BY OwnsLess
<1>3. Owned(h, N2, H2, C2) \subseteq DOMAIN g
  BY <1>1, <1>2, OwnersApart
<1> HIDE DEF g
<1>4. Keeps(h, g, N2, H2, C2)
  <2>1. \A n \in N2 : n \in DOMAIN g
    BY <1>3 DEF Owned
  <2>2. \A n \in N2 : IsNode(h, n)
    BY <1>2 DEF Owns, Kinds
  <2> QED
    BY <1>1, <1>3, <2>1, <2>2 DEF Keeps, IsNode
<1> QED
  BY <1>2, <1>4, OwnsKept DEF g

(* Nodes, with their messages and metadata, leave N. *)
NodeBlocks(h, D) == UNION {BlocksOf(h, n) : n \in D}

LEMMA NodeBlocksAre ==
  ASSUME NEW h, NEW D
  PROVE  NodeBlocks(h, D) = D \union MessagesOf(h, D) \union MetaDataOf(h, MessagesOf(h, D))
BY DEF NodeBlocks, BlocksOf, MessagesOf, MetaDataOf

LEMMA NodesLeave ==
  ASSUME NEW h, NEW N, NEW H, NEW C, Owns(h, N, H, C), NEW D \in SUBSET N
  PROVE  Owned(h, N \ D, H, C) = Owned(h, N, H, C) \ NodeBlocks(h, D)
<1> DEFINE M == Paired(h, N, H)
           MD == MessagesOf(h, D)
           M2 == Paired(h, N \ D, H)
<1>1. M2 = M \ MD
  BY DEF Owns, OneOwner, Paired, MessagesOf
<1>2. MD \subseteq M
  BY DEF Paired, MessagesOf
<1>3. MetaDataOf(h, M2) = MetaDataOf(h, M) \ MetaDataOf(h, MD)
  <2> \A m, o \in M : h[m].metaData = h[o].metaData => m = o
    BY DEF Owns, OneOwner
  <2> HIDE DEF M, MD, M2
  <2> QED
    BY <1>1, <1>2 DEF MetaDataOf
<1>4. MetaDataOf(h, MD) \subseteq MetaDataOf(h, M)
  BY <1>2 DEF MetaDataOf
<1>5. M \cap C = {}
  BY DEF Owns, OneOwner
<1>6. /\ N \cap (M \union C) = {} /\ N \cap MetaDataOf(h, M) = {}
      /\ (M \union C) \cap MetaDataOf(h, M) = {}
  BY OwnersApart
<1>7. Owned(h, N, H, C) = N \union M \union C \union MetaDataOf(h, M)
  BY DEF Owned
<1>8. Owned(h, N \ D, H, C) = (N \ D) \union M2 \union C \union MetaDataOf(h, M2)
  BY DEF Owned
<1>9. NodeBlocks(h, D) = D \union MD \union MetaDataOf(h, MD)
  BY NodeBlocksAre
<1> HIDE DEF M, MD, M2
<1> QED
  BY <1>1, <1>2, <1>3, <1>4, <1>5, <1>6, <1>7, <1>8, <1>9

(* A held message leaves with its metadata. *)
LEMMA HeldLeaves ==
  ASSUME NEW h, NEW N, NEW H, NEW C, Owns(h, N, H, C), NEW m \in H
  PROVE  /\ Owned(h, N, H \ {m}, C) = Owned(h, N, H, C) \ {m, h[m].metaData}
         /\ {m, h[m].metaData} \cap Owned(h, N, H \ {m}, C) = {}
<1> DEFINE M == Paired(h, N, H)
           M2 == Paired(h, N, H \ {m})
<1>1. M2 = M \ {m} /\ m \in M
  BY DEF Owns, OneOwner, Paired
<1>2. MetaDataOf(h, M2) = MetaDataOf(h, M) \ {h[m].metaData}
  <2> \A p, o \in M : h[p].metaData = h[o].metaData => p = o
    BY DEF Owns, OneOwner
  <2> HIDE DEF M, M2
  <2> QED
    BY <1>1 DEF MetaDataOf
<1>3. h[m].metaData \in MetaDataOf(h, M)
  BY <1>1 DEF MetaDataOf
<1>4. M \cap C = {}
  BY DEF Owns, OneOwner
<1>5. /\ N \cap (M \union C) = {} /\ N \cap MetaDataOf(h, M) = {}
      /\ (M \union C) \cap MetaDataOf(h, M) = {}
  BY OwnersApart
<1>6. Owned(h, N, H, C) = N \union M \union C \union MetaDataOf(h, M)
  BY DEF Owned
<1>7. Owned(h, N, H \ {m}, C) = N \union M2 \union C \union MetaDataOf(h, M2)
  BY DEF Owned
<1> HIDE DEF M, M2
<1> QED
  BY <1>1, <1>2, <1>3, <1>4, <1>5, <1>6, <1>7

(* The message of the connection leaves. *)
LEMMA ConnectionLeaves ==
  ASSUME NEW h, NEW N, NEW H, NEW C, Owns(h, N, H, C)
  PROVE  Owned(h, N, H, {}) = Owned(h, N, H, C) \ C
<1>1. Paired(h, N, H) \cap C = {} /\ N \cap C = {}
      /\ C \cap MetaDataOf(h, Paired(h, N, H)) = {}
  BY OwnersApart DEF Owns, OneOwner
<1> QED
  BY <1>1 DEF Owned

(* The message of a node n changes hands, and n is left without one. *)
LEMMA MessageTaken ==
  ASSUME NEW h, NEW N, NEW H, NEW C, Owns(h, N, H, C), NEW n \in N
  PROVE  /\ Owns(h, N \ {n}, H \union {h[n].message}, C)
         /\ Owned(h, N \ {n}, H \union {h[n].message}, C) = Owned(h, N, H, C) \ {n}
         /\ h[n].message \notin H
<1> DEFINE m == h[n].message
<1>1. MessagesOf(h, N \ {n}) = MessagesOf(h, N) \ {m} /\ m \in MessagesOf(h, N)
  BY DEF Owns, OneOwner, MessagesOf
<1>2. m \notin H
  BY <1>1 DEF Owns, OneOwner
<1>3. Paired(h, N \ {n}, H \union {m}) = Paired(h, N, H)
  BY <1>1 DEF Paired
<1>4. Kinds(h, N \ {n}, H \union {m}, C)
  BY <1>3 DEF Owns, Kinds
<1>5. OneOwner(h, N \ {n}, H \union {m}, C)
  BY <1>1, <1>3 DEF Owns, OneOwner
<1>6. n \notin Paired(h, N, H) \union C \union MetaDataOf(h, Paired(h, N, H))
  BY OwnersApart
<1>7. Owned(h, N \ {n}, H \union {m}, C) = Owned(h, N, H, C) \ {n}
  BY <1>3, <1>6 DEF Owned
<1> QED
  BY <1>2, <1>4, <1>5, <1>7 DEF Owns

(* One block more. *)
With(h, a, v) == Malloc(h, [b \in {a} |-> v])

Copies(h, N, H, C, m, a, g) ==
  /\ Owns(g, N, (H \ {m}) \union {a}, C)
  /\ Owned(g, N, (H \ {m}) \union {a}, C) = (Owned(h, N, H, C) \ {m}) \union {a}
  /\ a \notin Owned(h, N, H, C)

(* A held message m is copied to a fresh block a, and the copy is held.    *)
LEMMA MessageCopied ==
  ASSUME NEW h, NEW N, NEW H, NEW C, Owns(h, N, H, C), NEW m \in H,
         NEW a, a \notin DOMAIN h
  PROVE  Copies(h, N, H, C, m, a, With(h, a, h[m]))
<1> DEFINE g == With(h, a, h[m])
           M == Paired(h, N, H)
           G == (H \ {m}) \union {a}
           M2 == Paired(g, N, G)
<1>1. /\ DOMAIN g = DOMAIN h \union {a}
      /\ g[a] = h[m]
      /\ \A b \in DOMAIN h : g[b] = h[b]
  BY DEF With, Malloc
<1>2. Owned(h, N, H, C) \subseteq DOMAIN h /\ a \notin Owned(h, N, H, C)
  BY OwnersApart
<1>3. m \in M /\ M \subseteq DOMAIN h /\ N \subseteq DOMAIN h /\ C \subseteq DOMAIN h
      /\ MetaDataOf(h, M) \subseteq DOMAIN h /\ H \subseteq M
  BY <1>2 DEF Owned, Paired
<1> HIDE DEF g
<1>4. MessagesOf(g, N) = MessagesOf(h, N)
  BY <1>1, <1>3 DEF MessagesOf
<1>5. M2 = (M \ {m}) \union {a} /\ m \notin MessagesOf(h, N)
  BY <1>4 DEF Owns, OneOwner, Paired
<1>6. MetaDataOf(g, M2) = MetaDataOf(h, M)
  <2> HIDE DEF M, M2
  <2> QED
    BY <1>1, <1>3, <1>5 DEF MetaDataOf
<1>7. a \notin M /\ a \notin C
  BY <1>3
<1>8. /\ \A n \in N : IsNode(h, n)
      /\ \A o \in M \union C : IsMessage(h, o)
      /\ \A o \in M : IsMetaData(h, h[o].metaData)
      /\ \A n, o \in N : h[n].message = h[o].message => n = o
      /\ \A p, o \in M : h[p].metaData = h[o].metaData => p = o
      /\ MessagesOf(h, N) \cap H = {}
      /\ M \cap C = {}
      /\ MessagesOf(h, N) \subseteq M
  BY DEF Owns, Kinds, OneOwner, Paired
<1> HIDE DEF M, M2, G
<1>9. Kinds(g, N, G, C)
  <2>1. \A n \in N : IsNode(g, n)
    BY <1>1, <1>8 DEF IsNode
  <2>2. \A o \in M2 \union C : IsMessage(g, o)
    BY <1>1, <1>3, <1>5, <1>8 DEF IsMessage
  <2>3. \A o \in M2 : IsMetaData(g, g[o].metaData)
    BY <1>1, <1>3, <1>5, <1>8 DEF IsMetaData
  <2> QED
    BY <2>1, <2>2, <2>3 DEF Kinds, M2
<1>10. OneOwner(g, N, G, C)
  <2>1. \A n, o \in N : g[n].message = g[o].message => n = o
    BY <1>1, <1>3, <1>8
  <2>2. \A p, o \in M2 : g[p].metaData = g[o].metaData => p = o
    BY <1>1, <1>3, <1>5, <1>7, <1>8
  <2>3. MessagesOf(g, N) \cap G = {}
    BY <1>3, <1>4, <1>7, <1>8 DEF G
  <2>4. M2 \cap C = {}
    BY <1>5, <1>7, <1>8
  <2> QED
    BY <2>1, <2>2, <2>3, <2>4 DEF OneOwner, M2
<1>11. Owned(g, N, G, C) = (Owned(h, N, H, C) \ {m}) \union {a}
  <2>1. /\ N \cap (M \union C) = {}
        /\ (M \union C) \cap MetaDataOf(h, M) = {}
    BY OwnersApart DEF M
  <2>2. Owned(h, N, H, C) = N \union M \union C \union MetaDataOf(h, M)
    BY DEF Owned, M
  <2>3. Owned(g, N, G, C) = N \union M2 \union C \union MetaDataOf(g, M2)
    BY DEF Owned, M2
  <2> QED
    BY <1>3, <1>5, <1>6, <1>8, <2>1, <2>2, <2>3
<1> QED
  BY <1>2, <1>9, <1>10, <1>11 DEF Copies, Owns, g, G

(* What MQPut and its caller allocate: metadata a1, the caller's message   *)
(* a2, the copy a3 and the node a4 that owns it.                           *)
Fresh(h, a1, a2, a3, a4) ==
  /\ {a1, a2, a3, a4} \subseteq Nat \ {0} /\ {a1, a2, a3, a4} \cap DOMAIN h = {}
  /\ a1 # a2 /\ a1 # a3 /\ a1 # a4 /\ a2 # a3 /\ a2 # a4 /\ a3 # a4

Allocated(h, g, m, a1, a2, a3, a4) ==
  /\ DOMAIN g = DOMAIN h \union {a1, a2, a3, a4}
  /\ \A b \in DOMAIN h : g[b] = h[b]
  /\ g[a1] = MetaData /\ g[a2] = Message(m, a1) /\ g[a3] = Message(m, a1)
  /\ g[a4] = Node(NULL, a3)

LEMMA MessageAllocated ==
  ASSUME NEW h, NEW N, NEW H, Owns(h, N, H, {}), NEW m \in Nat,
         NEW a1, NEW a2, NEW a3, NEW a4, Fresh(h, a1, a2, a3, a4),
         NEW g, Allocated(h, g, m, a1, a2, a3, a4)
  PROVE  /\ Owns(g, N \union {a4}, H, {a2})
         /\ Owned(g, N \union {a4}, H, {a2}) = Owned(h, N, H, {}) \union {a1, a2, a3, a4}
         /\ Owned(h, N, H, {}) \cap {a1, a2, a3, a4} = {}
<1> DEFINE M == Paired(h, N, H)
           M2 == Paired(g, N \union {a4}, H)
<1>1. Owned(h, N, H, {}) \subseteq DOMAIN h
  BY OwnersApart
<1>2. /\ M \subseteq DOMAIN h /\ N \subseteq DOMAIN h /\ H \subseteq M
      /\ MetaDataOf(h, M) \subseteq DOMAIN h
  BY <1>1 DEF Owned, Paired
<1>3. /\ g[a4] \in Nodes /\ g[a4].message = a3
      /\ g[a3] \in Messages /\ g[a3].metaData = a1 /\ g[a2] \in Messages
      /\ {a1, a2, a3, a4} \subseteq DOMAIN g
  BY DEF Fresh, Allocated, Nodes, Messages, Node, Message, NULL
<1>4. MessagesOf(g, N \union {a4}) = MessagesOf(h, N) \union {a3}
  BY <1>2, <1>3 DEF MessagesOf, Allocated
<1>5. M2 = M \union {a3}
  BY <1>4 DEF Paired
<1>6. MetaDataOf(g, M2) = MetaDataOf(h, M) \union {a1}
  <2> HIDE DEF M, M2
  <2> QED
    BY <1>2, <1>3, <1>5 DEF MetaDataOf, Allocated
<1>7. /\ \A n \in N : IsNode(h, n)
      /\ \A o \in M : IsMessage(h, o)
      /\ \A o \in M : IsMetaData(h, h[o].metaData)
      /\ \A n, o \in N : h[n].message = h[o].message => n = o
      /\ \A p, o \in M : h[p].metaData = h[o].metaData => p = o
      /\ MessagesOf(h, N) \cap H = {}
      /\ MessagesOf(h, N) \subseteq M
  BY DEF Owns, Kinds, OneOwner, Paired
<1>8. /\ {a1, a2, a3, a4} \cap DOMAIN h = {}
      /\ a1 # a2 /\ a1 # a3 /\ a1 # a4 /\ a2 # a3 /\ a2 # a4 /\ a3 # a4
  BY DEF Fresh
<1>9. /\ DOMAIN g = DOMAIN h \union {a1, a2, a3, a4}
      /\ \A b \in DOMAIN h : g[b] = h[b]
      /\ g[a1] = MetaData
  BY DEF Allocated
<1>10. Owned(g, N \union {a4}, H, {a2}) = Owned(h, N, H, {}) \union {a1, a2, a3, a4}
  BY <1>5, <1>6 DEF Owned
<1>11. \A n \in N : h[n].message \in M
  BY DEF Paired, MessagesOf
<1>12. \A o \in M : h[o].metaData \in MetaDataOf(h, M)
  BY DEF MetaDataOf
<1> HIDE DEF M, M2
<1>13. Kinds(g, N \union {a4}, H, {a2})
  <2>1. \A n \in N \union {a4} : IsNode(g, n)
    BY <1>3, <1>7, <1>9 DEF IsNode
  <2>2. \A o \in M2 \union {a2} : IsMessage(g, o)
    BY <1>2, <1>3, <1>5, <1>7, <1>9 DEF IsMessage
  <2>3. \A o \in M2 : IsMetaData(g, g[o].metaData)
    BY <1>2, <1>3, <1>5, <1>7, <1>9 DEF IsMetaData
  <2> QED
    BY <2>1, <2>2, <2>3 DEF Kinds, M2
<1>14. OneOwner(g, N \union {a4}, H, {a2})
  <2>1. \A n, o \in N \union {a4} : g[n].message = g[o].message => n = o
    BY <1>2, <1>3, <1>7, <1>8, <1>9, <1>11
  <2>2. \A p, o \in M2 : g[p].metaData = g[o].metaData => p = o
    BY <1>2, <1>3, <1>5, <1>7, <1>8, <1>9, <1>12
  <2>3. MessagesOf(g, N \union {a4}) \cap H = {}
    BY <1>2, <1>4, <1>7, <1>8
  <2>4. M2 \cap {a2} = {}
    BY <1>2, <1>5, <1>8
  <2> QED
    BY <2>1, <2>2, <2>3, <2>4 DEF OneOwner, M2
<1> QED
  BY <1>1, <1>8, <1>10, <1>13, <1>14 DEF Owns

(* tail->next = n, or prev->next = iterator->next. *)
LEMMA OwnsLinked ==
  ASSUME NEW h, NEW N, NEW H, NEW C, Owns(h, N, H, C), NEW t \in N, NEW n \in Nat
  PROVE  LET g == [h EXCEPT ![t].next = n] IN
         /\ Owns(g, N, H, C)
         /\ Owned(g, N, H, C) = Owned(h, N, H, C)
         /\ DOMAIN g = DOMAIN h
         /\ Keeps(h, g, N, H, C)
<1> DEFINE g == [h EXCEPT ![t].next = n]
<1>1. h[t] \in Nodes /\ t \in DOMAIN h
  BY DEF Owns, Kinds, IsNode
<1>2. /\ DOMAIN g = DOMAIN h
      /\ g[t] \in Nodes /\ g[t].message = h[t].message
      /\ \A a \in DOMAIN h : a # t => g[a] = h[a]
  BY <1>1 DEF Nodes
<1> HIDE DEF g
<1>3. Owned(h, N, H, C) \subseteq DOMAIN h
  BY OwnersApart
<1>4. Keeps(h, g, N, H, C)
  <2>1. \A o \in N : IsNode(h, o)
    BY DEF Owns, Kinds
  <2> QED
    BY <1>2, <1>3, <2>1 DEF Keeps, IsNode
<1> QED
  BY <1>2, <1>4, OwnsKept DEF g

-----------------------------------------------------------------------------
(* The list: the nodes of q, each leading to the next one.                 *)

Linked(h, q) ==
  /\ q \in Seq(Nat \ {0})
  /\ \A i, j \in 1 .. Len(q) : q[i] = q[j] => i = j
  /\ \A i \in 1 .. Len(q) : h[q[i]].next = IF i < Len(q) THEN q[i + 1] ELSE NULL

Ends(q, first, last) ==
  IF q = <<>> THEN first = NULL /\ last = NULL
  ELSE first = q[1] /\ last = q[Len(q)]

-----------------------------------------------------------------------------
(* The inductive invariant.                                                *)

(* The node and the message of a put that waits, the messages of workers. *)
Waiting == {newNode} \ {NULL}
Connection == {connectionMessage} \ {NULL}
Held == {message[w] : w \in Workers} \ {NULL}

(* The types that the steps need, and one holder for every message held. *)
TypeInv ==
  /\ capacity \in Nat \ {0}
  /\ arrivals \in Nat
  /\ message \in [Workers -> Nat]
  /\ \A v, w \in Workers : message[v] = message[w] /\ message[v] # NULL => v = w

(* A put waits with its node, and with the message its caller holds. *)
PutInv ==
  /\ newNode \in Nat /\ connectionMessage \in Nat
  /\ (newNode = NULL) <=> (putState = "running")
  /\ (connectionMessage = NULL) <=> (putState = "running")
  /\ putRetCode = "MQ_ERR_MEMORY_FAIL" => putState = "running"
  /\ putState # "running" =>
       heap[newNode].next = NULL /\ ContentOf(heap, newNode) = arrivals

HeapOK(h) == IsFiniteSet(DOMAIN h) /\ DOMAIN h \subseteq Nat \ {0}

ListIs(q) == Linked(heap, q) /\ size = Len(q) /\ Ends(q, head, tail)

Sound == ~lockLeaked /\ ~faulted /\ putRetCode # "MQ_ERR_MEMORY_FAIL"

(* Every block that a list q, a put and the workers hold has one owner,    *)
(* and until a malloc fails there is no other block.                       *)
BlocksInv(q) ==
  /\ ToSet(q) \cap Waiting = {}
  /\ Owns(heap, ToSet(q) \union Waiting, Held, Connection)
  /\ Sound => DOMAIN heap = Owned(heap, ToSet(q) \union Waiting, Held, Connection)

IInv == TypeInv /\ PutInv /\ HeapOK(heap) /\ ListIs(Chain) /\ BlocksInv(Chain)

-----------------------------------------------------------------------------
(* Steps of the representation: a heap h holds the list q and the nodes X  *)
(* that are in no list.                                                    *)

Rep(h, q, X, H, C) ==
  /\ HeapOK(h)
  /\ Linked(h, q)
  /\ ToSet(q) \cap X = {}
  /\ Owns(h, ToSet(q) \union X, H, C)

BlocksFor(h, q, X, H, C) == Owned(h, ToSet(q) \union X, H, C)

SameContents(h, g, N) == \A n \in N : ContentOf(g, n) = ContentOf(h, n)

LEMMA KeptContents ==
  ASSUME NEW h, NEW N, NEW H, NEW C, Owns(h, N, H, C), NEW g, Keeps(h, g, N, H, C)
  PROVE  SameContents(h, g, N)
<1> SUFFICES ASSUME NEW n \in N PROVE ContentOf(g, n) = ContentOf(h, n)
  BY DEF SameContents
<1>1. g[n].message = h[n].message
  BY DEF Keeps
<1>2. h[n].message \in Owned(h, N, H, C) /\ h[n].message \notin N
  <2>1. h[n].message \in Paired(h, N, H)
    BY DEF Paired, MessagesOf
  <2> QED
    BY <2>1, OwnersApart DEF Owned
<1> QED
  BY <1>1, <1>2 DEF Keeps, ContentOf

LEMMA LinkedElements ==
  ASSUME NEW h, NEW q, Linked(h, q)
  PROVE  /\ Len(q) \in Nat /\ DOMAIN q = 1 .. Len(q)
         /\ \A i \in 1 .. Len(q) : q[i] \in Nat \ {0} /\ q[i] \in ToSet(q)
         /\ ToSet(q) \subseteq Nat \ {0}
         /\ q \in Seq(Nat)
BY LenProperties, ElementOfSeq, SeqMonotonic DEF Linked, ToSet

(* Nothing that is owned changes. *)
LEMMA RepKept ==
  ASSUME NEW h, NEW q, NEW X, NEW H, NEW C, Rep(h, q, X, H, C),
         NEW g, HeapOK(g), \A a \in BlocksFor(h, q, X, H, C) : a \in DOMAIN g /\ g[a] = h[a]
  PROVE  /\ Rep(g, q, X, H, C)
         /\ BlocksFor(g, q, X, H, C) = BlocksFor(h, q, X, H, C)
         /\ SameContents(h, g, ToSet(q) \union X)
<1> DEFINE N == ToSet(q) \union X
<1>1. Owns(h, N, H, C) /\ Owned(h, N, H, C) = BlocksFor(h, q, X, H, C)
  BY DEF Rep, BlocksFor
<1>2. N \subseteq Owned(h, N, H, C)
  BY DEF Owned
<1>3. \A n \in N : IsNode(h, n)
  BY <1>1 DEF Owns, Kinds
<1> HIDE DEF N
<1>4. Keeps(h, g, N, H, C)
  BY <1>1, <1>2, <1>3 DEF Keeps, IsNode
<1>5. Owns(g, N, H, C) /\ Owned(g, N, H, C) = Owned(h, N, H, C) /\ SameContents(h, g, N)
  BY <1>1, <1>4, OwnsKept, KeptContents
<1>6. \A i \in 1 .. Len(q) : g[q[i]] = h[q[i]]
  BY <1>1, <1>2, LinkedElements DEF Rep, N
<1>7. Linked(g, q)
  BY <1>6 DEF Rep, Linked
<1> QED
  BY <1>1, <1>5, <1>7 DEF Rep, N, BlocksFor

(* Fewer owners. *)
LEMMA RepLess ==
  ASSUME NEW h, NEW q, NEW X, NEW H, NEW C, Rep(h, q, X, H, C),
         NEW X2 \in SUBSET X, NEW H2 \in SUBSET H, NEW C2 \in SUBSET C
  PROVE  Rep(h, q, X2, H2, C2)
<1>1. ToSet(q) \union X2 \in SUBSET (ToSet(q) \union X)
  OBVIOUS
<1>2. Owns(h, ToSet(q) \union X2, H2, C2)
  BY <1>1, OwnsLess DEF Rep
<1> QED
  BY <1>2 DEF Rep

LEMMA HeapFreed ==
  ASSUME NEW h, HeapOK(h), NEW B
  PROVE  /\ HeapOK(Freed(h, B))
         /\ DOMAIN Freed(h, B) = DOMAIN h \ B
         /\ \A a \in DOMAIN h \ B : Freed(h, B)[a] = h[a]
<1>1. DOMAIN Freed(h, B) = DOMAIN h \ B
      /\ \A a \in DOMAIN h \ B : Freed(h, B)[a] = h[a]
  BY DEF Freed, Restrict
<1>2. IsFiniteSet(DOMAIN h \ B)
  BY FS_Difference DEF HeapOK
<1> QED
  BY <1>1, <1>2 DEF HeapOK

Grows(h, a, v, g) ==
  /\ HeapOK(g)
  /\ DOMAIN g = DOMAIN h \union {a}
  /\ g[a] = v
  /\ \A b \in DOMAIN h : b # a => g[b] = h[b]

LEMMA HeapMalloc ==
  ASSUME NEW h, HeapOK(h), NEW a \in Nat \ {0}, NEW v
  PROVE  Grows(h, a, v, With(h, a, v))
<1> DEFINE g == With(h, a, v)
<1>1. /\ DOMAIN g = DOMAIN h \union {a}
      /\ g[a] = v
      /\ \A b \in DOMAIN h : b # a => g[b] = h[b]
  BY DEF With, Malloc
<1>2. IsFiniteSet(DOMAIN h \union {a})
  BY FS_AddElement DEF HeapOK
<1> HIDE DEF g
<1>3. HeapOK(g)
  BY <1>1, <1>2 DEF HeapOK
<1> QED
  BY <1>1, <1>3 DEF g, Grows

(* The owners of g are those of h without B, and hold the same. *)
Shrinks(h, q, X, H, C, B, g, p, Y, G, D) ==
  /\ Rep(g, p, Y, G, D)
  /\ BlocksFor(g, p, Y, G, D) = BlocksFor(h, q, X, H, C) \ B
  /\ SameContents(h, g, ToSet(p) \union Y)
  /\ DOMAIN g = DOMAIN h \ B
  /\ \A y \in Y : g[y] = h[y]

Unowned(B, h, q, X, H, C) == B \cap BlocksFor(h, q, X, H, C) = {}

(* free of blocks B that nobody owns. *)
LEMMA RepFreed ==
  ASSUME NEW h, NEW q, NEW X, NEW H, NEW C, Rep(h, q, X, H, C),
         NEW B, Unowned(B, h, q, X, H, C)
  PROVE  Shrinks(h, q, X, H, C, B, Freed(h, B), q, X, H, C)
<1>1. /\ HeapOK(Freed(h, B))
      /\ DOMAIN Freed(h, B) = DOMAIN h \ B
      /\ \A a \in DOMAIN h \ B : Freed(h, B)[a] = h[a]
  BY HeapFreed DEF Rep
<1>2. BlocksFor(h, q, X, H, C) \subseteq DOMAIN h
  BY OwnersApart DEF Rep, BlocksFor
<1>3. \A a \in BlocksFor(h, q, X, H, C) : a \in DOMAIN Freed(h, B) /\ Freed(h, B)[a] = h[a]
  BY <1>1, <1>2 DEF Unowned
<1>4. X \subseteq BlocksFor(h, q, X, H, C)
  BY DEF BlocksFor, Owned
<1>5. /\ Rep(Freed(h, B), q, X, H, C)
      /\ BlocksFor(Freed(h, B), q, X, H, C) = BlocksFor(h, q, X, H, C)
      /\ SameContents(h, Freed(h, B), ToSet(q) \union X)
  BY <1>1, <1>3, RepKept
<1> QED
  BY <1>1, <1>3, <1>4, <1>5 DEF Shrinks, Unowned

Prepares(h, q, H, m, a1, a2, a3, a4, g) ==
  /\ Rep(g, q, {a4}, H, {a2})
  /\ BlocksFor(g, q, {a4}, H, {a2}) = BlocksFor(h, q, {}, H, {}) \union {a1, a2, a3, a4}
  /\ SameContents(h, g, ToSet(q))
  /\ ContentOf(g, a4) = m /\ g[a4].next = NULL
  /\ a2 \in Nat \ {0} /\ a4 \in Nat \ {0}
  /\ Unowned({a2, a3, a4}, g, q, {}, H, {})

(* What startServer and MQPut allocate. *)
LEMMA RepAllocated ==
  ASSUME NEW h, NEW q, NEW H, Rep(h, q, {}, H, {}), NEW m \in Nat,
         NEW a1, NEW a2, NEW a3, NEW a4, Fresh(h, a1, a2, a3, a4),
         NEW g, Allocated(h, g, m, a1, a2, a3, a4)
  PROVE  Prepares(h, q, H, m, a1, a2, a3, a4, g)
<1> DEFINE N == ToSet(q)
<1>1. Owns(h, N, H, {}) /\ N \union {} = N
  BY DEF Rep
<1> HIDE DEF N
<1>2. /\ Owns(g, N \union {a4}, H, {a2})
      /\ Owned(g, N \union {a4}, H, {a2}) = Owned(h, N, H, {}) \union {a1, a2, a3, a4}
      /\ Owned(h, N, H, {}) \cap {a1, a2, a3, a4} = {}
  BY <1>1, MessageAllocated
<1>3. Owned(h, N, H, {}) \subseteq DOMAIN h
  BY <1>1, OwnersApart
<1>4. HeapOK(g)
  <2>1. IsFiniteSet({a1, a2, a3, a4})
    <3>1. IsFiniteSet({a1} \union {a2}) /\ IsFiniteSet({a3} \union {a4})
      BY FS_Singleton, FS_Union
    <3>2. {a1, a2, a3, a4} = ({a1} \union {a2}) \union ({a3} \union {a4})
      OBVIOUS
    <3>3. IsFiniteSet(({a1} \union {a2}) \union ({a3} \union {a4}))
      BY <3>1, FS_Union
    <3> QED
      BY <3>2, <3>3
  <2> QED
    BY <2>1, FS_Union DEF Rep, HeapOK, Allocated, Fresh
<1>5. \A a \in BlocksFor(h, q, {}, H, {}) : a \in DOMAIN g /\ g[a] = h[a]
  BY <1>1, <1>3 DEF Allocated, BlocksFor, N
<1>6. /\ Rep(g, q, {}, H, {}) /\ SameContents(h, g, ToSet(q) \union {})
      /\ BlocksFor(g, q, {}, H, {}) = BlocksFor(h, q, {}, H, {})
  BY <1>4, <1>5, RepKept
<1>7. a4 \notin N
  BY <1>2 DEF Owned
<1>8. Rep(g, q, {a4}, H, {a2})
  BY <1>2, <1>6, <1>7 DEF Rep, N
<1>9. g[a4].message = a3 /\ g[a4].next = NULL /\ g[a3].content = m /\ g[a3].metaData = a1
  BY DEF Allocated, Node, Message
<1>10. Unowned({a2, a3, a4}, g, q, {}, H, {})
  BY <1>1, <1>2, <1>6 DEF Unowned, BlocksFor, N
<1> QED
  BY <1>2, <1>6, <1>8, <1>9, <1>10 DEF BlocksFor, N, ContentOf, Fresh, Prepares

Lengthens(h, q, n, H, C, g) ==
  /\ Rep(g, Append(q, n), {}, H, C)
  /\ BlocksFor(g, Append(q, n), {}, H, C) = BlocksFor(h, q, {n}, H, C)
  /\ SameContents(h, g, ToSet(q) \union {n})
  /\ DOMAIN g = DOMAIN h

(* The new node goes behind the tail. *)
LEMMA LinkedBehind ==
  ASSUME NEW h, NEW q, NEW n, NEW H, NEW C, Rep(h, q, {n}, H, C), h[n].next = NULL,
         n \in Nat \ {0}
  PROVE  Lengthens(h, q, n, H, C, IF q = <<>> THEN h ELSE [h EXCEPT ![q[Len(q)]].next = n])
<1> DEFINE g == IF q = <<>> THEN h ELSE [h EXCEPT ![q[Len(q)]].next = n]
           r == Append(q, n)
           N == ToSet(q) \union {n}
<1>1. /\ Len(q) \in Nat /\ DOMAIN q = 1 .. Len(q)
      /\ \A i \in 1 .. Len(q) : q[i] \in Nat \ {0} /\ q[i] \in ToSet(q)
      /\ ToSet(q) = {q[i] : i \in 1 .. Len(q)}
      /\ q \in Seq(Nat \ {0})
  BY LinkedElements DEF Rep, Linked, ToSet
<1>2. /\ r \in Seq(Nat \ {0})
      /\ Len(r) = Len(q) + 1
      /\ \A i \in 1 .. Len(q) : r[i] = q[i]
      /\ r[Len(q) + 1] = n
      /\ DOMAIN r = 1 .. Len(q) + 1
  BY <1>1, AppendProperties, LenProperties
<1>3. ToSet(r) = N
  <2>1. 1 .. Len(q) + 1 = (1 .. Len(q)) \union {Len(q) + 1}
    BY <1>1
  <2> QED
    BY <1>1, <1>2, <2>1 DEF ToSet
<1>4. n \notin ToSet(q) /\ Owns(h, N, H, C)
  BY DEF Rep
<1>5. \A i \in 1 .. Len(q) : h[q[i]] \in Nodes /\ q[i] \in DOMAIN h
  BY <1>1, <1>4 DEF Owns, Kinds, IsNode
<1>6. /\ \A i, j \in 1 .. Len(q) : q[i] = q[j] => i = j
      /\ \A i \in 1 .. Len(q) : h[q[i]].next = IF i < Len(q) THEN q[i + 1] ELSE NULL
  BY DEF Rep, Linked
<1>7. /\ Owns(g, N, H, C) /\ Owned(g, N, H, C) = Owned(h, N, H, C)
      /\ DOMAIN g = DOMAIN h /\ SameContents(h, g, N)
  <2>1. CASE q = <<>>
    BY <1>4, <2>1 DEF SameContents
  <2>2. CASE q # <<>>
    <3> DEFINE t == q[Len(q)]
               f == [h EXCEPT ![t].next = n]
    <3>1. t \in N /\ n \in Nat
      BY <1>1, <2>2, EmptySeq
    <3> HIDE DEF t
    <3>3. /\ Owns(f, N, H, C) /\ Owned(f, N, H, C) = Owned(h, N, H, C)
          /\ DOMAIN f = DOMAIN h /\ Keeps(h, f, N, H, C)
      <4> HIDE DEF N
      <4> QED
        BY <1>4, <3>1, OwnsLinked
    <3>5. SameContents(h, f, N)
      <4> HIDE DEF f, N
      <4> QED
        BY <1>4, <3>3, KeptContents
    <3> QED
      BY <2>2, <3>3, <3>5 DEF t
  <2> QED
    BY <2>1, <2>2
<1>8. g[n].next = NULL
  <2>1. CASE q = <<>>
    BY <2>1
  <2>2. CASE q # <<>>
    <3>1. q[Len(q)] # n
      BY <1>1, <1>4, <2>2, EmptySeq
    <3>2. n \in DOMAIN h
      BY <1>4 DEF Owns, Kinds, IsNode
    <3> QED
      BY <2>2, <3>1, <3>2
  <2> QED
    BY <2>1, <2>2
<1>9. ASSUME NEW i \in 1 .. Len(q)
      PROVE  g[q[i]].next = r[i + 1]
  <2>1. q # <<>> /\ Len(q) \in 1 .. Len(q)
    BY <1>1, <1>9, EmptySeq
  <2>2. CASE i = Len(q)
    BY <1>2, <1>5, <2>1, <2>2 DEF Nodes
  <2>3. CASE i # Len(q)
    <3>1. q[i] # q[Len(q)]
      BY <1>6, <2>1, <2>3
    <3>3. i < Len(q) /\ i + 1 \in 1 .. Len(q)
      <4>1. Len(q) \in Nat
        BY <1>1
      <4> QED
        BY <2>3, <4>1
    <3>2. g[q[i]] = h[q[i]]
      BY <1>5, <2>1, <3>1
    <3> QED
      BY <1>2, <1>6, <3>2, <3>3
  <2> QED
    BY <2>2, <2>3
<1> HIDE DEF g, r
<1>10. Linked(g, r)
  <2>1. \A i, j \in 1 .. Len(r) : r[i] = r[j] => i = j
    BY <1>1, <1>2, <1>4, <1>6, SMTT(30)
  <2>2. ASSUME NEW i \in 1 .. Len(r)
        PROVE  g[r[i]].next = IF i < Len(r) THEN r[i + 1] ELSE NULL
    <3>1. CASE i = Len(q) + 1
      BY <1>1, <1>2, <1>8, <3>1
    <3>2. CASE i # Len(q) + 1
      <4>1. i \in 1 .. Len(q) /\ i < Len(r) /\ r[i] = q[i]
        BY <1>1, <1>2, <3>2
      <4> QED
        BY <1>9, <4>1
    <3> QED
      BY <3>1, <3>2
  <2> QED
    BY <1>2, <2>1, <2>2 DEF Linked
<1>11. HeapOK(g)
  BY <1>7 DEF Rep, HeapOK
<1> QED
  BY <1>3, <1>7, <1>10, <1>11 DEF Rep, BlocksFor, Lengthens, g, r

(* Nodes leave the list, relinked in f to p, and are freed with what they own. *)
LEMMA RepDropped ==
  ASSUME NEW h, NEW q, NEW X, NEW H, NEW C, Rep(h, q, X, H, C),
         NEW f, DOMAIN f = DOMAIN h, Keeps(h, f, ToSet(q) \union X, H, C),
         \A x \in X : f[x] = h[x],
         NEW p, Linked(f, p), ToSet(p) \subseteq ToSet(q),
         NEW B, B = NodeBlocks(h, ToSet(q) \ ToSet(p))
  PROVE  Shrinks(h, q, X, H, C, B, Freed(f, B), p, X, H, C)
<1> DEFINE N == ToSet(q) \union X
           D == ToSet(q) \ ToSet(p)
<1>1. Owns(h, N, H, C) /\ N \ D = ToSet(p) \union X /\ D \in SUBSET N /\ ToSet(p) \cap X = {}
  BY DEF Rep
<1>2. Keeps(h, f, N, H, C) /\ B = NodeBlocks(h, D)
  OBVIOUS
<1>3. HeapOK(f)
  BY DEF Rep, HeapOK
<1> HIDE DEF N, D
<1>4. Owns(f, N, H, C) /\ Owned(f, N, H, C) = Owned(h, N, H, C) /\ SameContents(h, f, N)
  BY <1>1, <1>2, OwnsKept, KeptContents
<1>5. B = NodeBlocks(f, D)
  <2>1. MessagesOf(f, D) = MessagesOf(h, D)
    BY <1>1, <1>2 DEF MessagesOf, Keeps
  <2>2. MessagesOf(h, D) \subseteq Paired(h, N, H)
    BY <1>1 DEF MessagesOf, Paired
  <2>3. \A m \in Paired(h, N, H) : f[m] = h[m]
    BY <1>1, <1>2, OwnersApart DEF Keeps, Owned
  <2>4. MetaDataOf(f, MessagesOf(f, D)) = MetaDataOf(h, MessagesOf(h, D))
    BY <2>1, <2>2, <2>3 DEF MetaDataOf
  <2> QED
    BY <1>2, <2>1, <2>4, NodeBlocksAre
<1>6. Owned(f, N \ D, H, C) = Owned(f, N, H, C) \ B
  BY <1>1, <1>4, <1>5, NodesLeave
<1>7. Owns(f, N \ D, H, C)
  BY <1>1, <1>4, OwnsLess
<1>8. Rep(f, p, X, H, C) /\ BlocksFor(f, p, X, H, C) = Owned(h, N, H, C) \ B
  BY <1>1, <1>3, <1>4, <1>6, <1>7 DEF Rep, BlocksFor
<1>9. Unowned(B, f, p, X, H, C)
  BY <1>8 DEF Unowned
<1>10. Shrinks(f, p, X, H, C, B, Freed(f, B), p, X, H, C)
  BY <1>8, <1>9, RepFreed
<1>11. SameContents(h, Freed(f, B), ToSet(p) \union X)
  BY <1>1, <1>4, <1>10 DEF SameContents, Shrinks
<1>12. BlocksFor(Freed(f, B), p, X, H, C) = BlocksFor(h, q, X, H, C) \ B
  BY <1>8, <1>10 DEF Shrinks, BlocksFor, N
<1> QED
  BY <1>10, <1>11, <1>12 DEF Shrinks

LEMMA KeepsItself ==
  ASSUME NEW h, NEW N, NEW H, NEW C, Owns(h, N, H, C)
  PROVE  Keeps(h, h, N, H, C)
BY OwnersApart DEF Keeps, Owns, Kinds

(* The elements of a list without its head. *)
LEMMA LinkedTail ==
  ASSUME NEW h, NEW q, Linked(h, q), q # <<>>
  PROVE  /\ Linked(h, Tail(q))
         /\ Len(Tail(q)) = Len(q) - 1
         /\ q[1] \in ToSet(q) /\ q[1] \in Nat \ {0}
         /\ ToSet(Tail(q)) = ToSet(q) \ {q[1]}
         /\ \A i \in 1 .. Len(Tail(q)) : Tail(q)[i] = q[i + 1]
         /\ \A t : Ends(q, q[1], t) =>
              Ends(Tail(q), h[q[1]].next, IF Len(q) = 1 THEN h[q[1]].next ELSE t)
<1> DEFINE p == Tail(q)
<1>1. Len(q) \in Nat \ {0} /\ DOMAIN q = 1 .. Len(q) /\ q \in Seq(Nat \ {0})
  BY EmptySeq, LenProperties DEF Linked
<1>2. /\ p \in Seq(Nat \ {0})
      /\ Len(p) = Len(q) - 1
      /\ DOMAIN p = 1 .. Len(q) - 1
      /\ \A i \in 1 .. Len(p) : p[i] = q[i + 1]
  BY <1>1, HeadTailProperties, LenProperties
<1> HIDE DEF p
<1>3. Len(q) \in Nat \ {0} /\ 1 \in 1 .. Len(q)
  BY <1>1
<1>4. \A i \in 1 .. Len(p) : i + 1 \in 1 .. Len(q) /\ i + 1 # 1
  BY <1>2, <1>3
<1>5. /\ \A i, j \in 1 .. Len(q) : q[i] = q[j] => i = j
      /\ \A i \in 1 .. Len(q) : h[q[i]].next = IF i < Len(q) THEN q[i + 1] ELSE NULL
  BY DEF Linked
<1>6. ToSet(p) = ToSet(q) \ {q[1]}
  <2>1. ASSUME NEW i \in 1 .. Len(p) PROVE p[i] \in ToSet(q) \ {q[1]}
    <3>1. p[i] = q[i + 1] /\ i + 1 \in 1 .. Len(q) /\ i + 1 # 1
      BY <1>2, <1>4
    <3>2. q[i + 1] # q[1]
      BY <1>3, <1>5, <3>1
    <3>3. q[i + 1] \in ToSet(q)
      BY <1>1, <3>1 DEF ToSet
    <3> QED
      BY <3>1, <3>2, <3>3
  <2>2. ASSUME NEW i \in 1 .. Len(q), q[i] # q[1] PROVE q[i] \in ToSet(p)
    <3>1. i # 1 /\ i - 1 \in 1 .. Len(p) /\ (i - 1) + 1 = i
      BY <1>2, <1>3, <2>2
    <3>2. p[i - 1] = q[i]
      BY <1>2, <3>1
    <3> QED
      BY <1>2, <3>1, <3>2 DEF ToSet
  <2>3. ToSet(p) = {p[i] : i \in 1 .. Len(p)} /\ ToSet(q) = {q[i] : i \in 1 .. Len(q)}
    BY <1>1, <1>2 DEF ToSet
  <2> QED
    BY <2>1, <2>2, <2>3
<1>7. Linked(h, p)
  <2>1. \A i, j \in 1 .. Len(p) : p[i] = p[j] => i = j
    <3> SUFFICES ASSUME NEW i \in 1 .. Len(p), NEW j \in 1 .. Len(p), p[i] = p[j]
                 PROVE  i = j
      OBVIOUS
    <3>1. i + 1 = j + 1
      <4>1. i + 1 \in 1 .. Len(q) /\ j + 1 \in 1 .. Len(q) /\ q[i + 1] = q[j + 1]
        BY <1>2, <1>4
      <4> QED
        BY <1>5, <4>1, Zenon
    <3> QED
      BY <3>1
  <2>2. ASSUME NEW i \in 1 .. Len(p)
        PROVE  h[p[i]].next = IF i < Len(p) THEN p[i + 1] ELSE NULL
    <3>1. h[p[i]].next = IF i + 1 < Len(q) THEN q[i + 1 + 1] ELSE NULL
      <4>1. p[i] = q[i + 1] /\ i + 1 \in 1 .. Len(q)
        BY <1>2, <1>4
      <4> QED
        BY <1>5, <4>1, Zenon
    <3>2. (i < Len(p)) <=> (i + 1 < Len(q))
      BY <1>2, <1>3
    <3>3. i < Len(p) => i + 1 \in 1 .. Len(p)
      BY <1>2, <1>3
    <3> QED
      BY <1>2, <3>1, <3>2, <3>3
  <2> QED
    BY <1>2, <2>1, <2>2 DEF Linked
<1>8. ASSUME NEW t, Ends(q, q[1], t)
      PROVE  Ends(p, h[q[1]].next, IF Len(q) = 1 THEN h[q[1]].next ELSE t)
  <2>1. t = q[Len(q)]
    BY <1>8 DEF Ends
  <2>2. CASE Len(q) = 1
    <3>1. h[q[1]].next = NULL
      BY <1>3, <1>5, <2>2
    <3>2. p = <<>>
      BY <1>2, <2>2, EmptySeq
    <3> QED
      BY <2>2, <3>1, <3>2 DEF Ends
  <2>3. CASE Len(q) # 1
    <3>1. /\ Len(p) \in 1 .. Len(p) /\ Len(p) + 1 = Len(q) /\ p # <<>>
          /\ 1 \in 1 .. Len(p) /\ 1 < Len(q)
      BY <1>2, <1>3, <2>3, EmptySeq
    <3>2. h[q[1]].next = q[2] /\ p[1] = q[2] /\ p[Len(p)] = q[Len(q)]
      BY <1>2, <1>3, <1>5, <3>1
    <3> QED
      BY <2>1, <2>3, <3>1, <3>2 DEF Ends
  <2> QED
    BY <2>2, <2>3
<1> QED
  BY <1>1, <1>2, <1>3, <1>6, <1>7, <1>8, ElementOfSeq DEF p, ToSet

(* putHandleDropHead. *)
LEMMA HeadDropped ==
  ASSUME NEW h, NEW q, NEW X, NEW H, NEW C, Rep(h, q, X, H, C), q # <<>>
  PROVE  LET B == BlocksOf(h, q[1])
         IN  Shrinks(h, q, X, H, C, B, Freed(h, B), Tail(q), X, H, C)
<1>1. /\ Linked(h, Tail(q)) /\ q[1] \in ToSet(q)
      /\ ToSet(Tail(q)) = ToSet(q) \ {q[1]}
  BY LinkedTail DEF Rep
<1>2. ToSet(q) \ ToSet(Tail(q)) = {q[1]} /\ ToSet(Tail(q)) \subseteq ToSet(q)
  BY <1>1
<1>3. BlocksOf(h, q[1]) = NodeBlocks(h, {q[1]})
  BY DEF NodeBlocks
<1>4. Keeps(h, h, ToSet(q) \union X, H, C)
  BY KeepsItself DEF Rep
<1> QED
  BY <1>1, <1>2, <1>3, <1>4, RepDropped

(* putHandleDropTail: the new node goes, and the message of its caller. *)
LEMMA NewcomerDropped ==
  ASSUME NEW h, NEW q, NEW n, NEW H, NEW C, Rep(h, q, {n}, H, C)
  PROVE  LET B == BlocksOf(h, n) \union C
         IN  Shrinks(h, q, {n}, H, C, B, Freed(h, B), q, {}, H, {})
<1> DEFINE N == ToSet(q) \union {n}
           B == BlocksOf(h, n) \union C
<1>1. Owns(h, N, H, C) /\ n \notin ToSet(q)
  BY DEF Rep
<1>2. N \ {n} = ToSet(q) \union {} /\ {n} \in SUBSET N
  BY <1>1
<1>3. BlocksFor(h, q, {n}, H, C) = Owned(h, N, H, C)
  BY DEF BlocksFor
<1> HIDE DEF N
<1>4. NodeBlocks(h, {n}) = BlocksOf(h, n)
  BY DEF NodeBlocks
<1>5. Owned(h, N \ {n}, H, C) = Owned(h, N, H, C) \ BlocksOf(h, n)
  BY <1>1, <1>2, <1>4, NodesLeave
<1>6. Owns(h, N \ {n}, H, C)
  BY <1>1, OwnsLess
<1>7. Owned(h, N \ {n}, H, {}) = Owned(h, N \ {n}, H, C) \ C
  BY <1>6, ConnectionLeaves
<1>8. Rep(h, q, {}, H, {})
  BY RepLess
<1>9. BlocksFor(h, q, {}, H, {}) = Owned(h, N, H, C) \ B
  BY <1>2, <1>5, <1>7 DEF BlocksFor
<1>10. Unowned(B, h, q, {}, H, {})
  BY <1>9 DEF Unowned
<1> HIDE DEF B
<1>11. Shrinks(h, q, {}, H, {}, B, Freed(h, B), q, {}, H, {})
  BY <1>8, <1>10, RepFreed
<1> QED
  BY <1>3, <1>9, <1>11 DEF B, Shrinks

(* The caller frees its message at the return of MQPut. *)
LEMMA ConnectionFreed ==
  ASSUME NEW h, NEW q, NEW X, NEW H, NEW C, Rep(h, q, X, H, C)
  PROVE  Shrinks(h, q, X, H, C, C, Freed(h, C), q, X, H, {})
<1>1. Rep(h, q, X, H, {})
  BY RepLess
<1>2. BlocksFor(h, q, X, H, {}) = BlocksFor(h, q, X, H, C) \ C
  BY ConnectionLeaves DEF Rep, BlocksFor
<1>3. Unowned(C, h, q, X, H, {})
  BY <1>2 DEF Unowned
<1>4. Shrinks(h, q, X, H, {}, C, Freed(h, C), q, X, H, {})
  BY <1>1, <1>3, RepFreed
<1> QED
  BY <1>2, <1>4 DEF Shrinks

(* A worker frees the message m that it holds, and its metadata. *)
LEMMA HeldFreed ==
  ASSUME NEW h, NEW q, NEW X, NEW H, NEW C, Rep(h, q, X, H, C), NEW m \in H
  PROVE  LET B == {m, h[m].metaData}
         IN  Shrinks(h, q, X, H, C, B, Freed(h, B), q, X, H \ {m}, C)
<1> DEFINE B == {m, h[m].metaData}
<1>1. Rep(h, q, X, H \ {m}, C)
  BY RepLess
<1>2. /\ BlocksFor(h, q, X, H \ {m}, C) = BlocksFor(h, q, X, H, C) \ B
      /\ B \cap BlocksFor(h, q, X, H \ {m}, C) = {}
  BY HeldLeaves DEF Rep, BlocksFor
<1> HIDE DEF B
<1>3. Unowned(B, h, q, X, H \ {m}, C)
  BY <1>2 DEF Unowned
<1>4. Shrinks(h, q, X, H \ {m}, C, B, Freed(h, B), q, X, H \ {m}, C)
  BY <1>1, <1>3, RepFreed
<1> QED
  BY <1>2, <1>4 DEF Shrinks, B

(* MQGet: the message of the head is copied into a, and is freed with it. *)
Takes(h, q, X, H, C, a, g) ==
  LET gone == {q[1], h[q[1]].message} IN
  /\ Rep(g, Tail(q), X, H \union {a}, C)
  /\ BlocksFor(g, Tail(q), X, H \union {a}, C) = (BlocksFor(h, q, X, H, C) \ gone) \union {a}
  /\ SameContents(h, g, ToSet(Tail(q)) \union X)
  /\ DOMAIN g = (DOMAIN h \ gone) \union {a}
  /\ \A x \in X : g[x] = h[x]
  /\ a \notin H

(* The head out of the list, its message still there. *)
LEMMA HeadUnlinked ==
  ASSUME NEW h, NEW q, NEW X, NEW H, NEW C, Rep(h, q, X, H, C), q # <<>>
  PROVE  LET n == q[1]
             m == h[n].message IN
         /\ Rep(h, Tail(q), X, H \union {m}, C)
         /\ BlocksFor(h, Tail(q), X, H \union {m}, C) = BlocksFor(h, q, X, H, C) \ {n}
         /\ m \notin H /\ m \in DOMAIN h /\ n # m
<1> DEFINE n == q[1]
           m == h[n].message
           N == ToSet(q) \union X
<1>1. /\ Linked(h, Tail(q)) /\ n \in ToSet(q)
      /\ ToSet(Tail(q)) = ToSet(q) \ {n}
  BY LinkedTail DEF Rep
<1>2. Owns(h, N, H, C) /\ ToSet(q) \cap X = {}
  BY DEF Rep
<1>3. n \in N /\ N \ {n} = ToSet(Tail(q)) \union X
  BY <1>1, <1>2
<1>4. BlocksFor(h, q, X, H, C) = Owned(h, N, H, C)
  BY DEF BlocksFor
<1> HIDE DEF N, n
<1>5. /\ Owns(h, N \ {n}, H \union {m}, C)
      /\ Owned(h, N \ {n}, H \union {m}, C) = Owned(h, N, H, C) \ {n}
      /\ m \notin H
  BY <1>2, <1>3, MessageTaken
<1>6. m \in DOMAIN h /\ n # m
  <2>1. m \in Paired(h, N, H)
    BY <1>3 DEF Paired, MessagesOf
  <2> QED
    BY <1>2, <1>3, <2>1, OwnersApart DEF Owned
<1>7. Rep(h, Tail(q), X, H \union {m}, C)
  BY <1>1, <1>2, <1>3, <1>5 DEF Rep
<1> QED
  BY <1>3, <1>4, <1>5, <1>6, <1>7 DEF n, BlocksFor

LEMMA HeadTaken ==
  ASSUME NEW h, NEW q, NEW X, NEW H, NEW C, Rep(h, q, X, H, C), q # <<>>,
         NEW a, a \in Nat \ {0}, a \notin DOMAIN h
  PROVE  LET n == q[1]
             m == h[n].message
         IN  Takes(h, q, X, H, C, a, Freed(With(h, a, h[m]), {n, m}))
<1> DEFINE n == q[1]
           m == h[n].message
           f == With(h, a, h[m])
           p == Tail(q)
           H1 == H \union {m}
           N == ToSet(p) \union X
           G == H \union {a}
<1>1. /\ Rep(h, p, X, H1, C)
      /\ BlocksFor(h, p, X, H1, C) = BlocksFor(h, q, X, H, C) \ {n}
      /\ m \notin H /\ m \in DOMAIN h /\ n # m
  BY HeadUnlinked
<1>2. HeapOK(h) /\ Linked(h, p) /\ ToSet(p) \cap X = {} /\ Owns(h, N, H1, C)
      /\ BlocksFor(h, p, X, H1, C) = Owned(h, N, H1, C)
  BY <1>1 DEF Rep, BlocksFor
<1>3. /\ HeapOK(f)
      /\ DOMAIN f = DOMAIN h \union {a}
      /\ \A b \in DOMAIN h : b # a => f[b] = h[b]
  <2>1. Grows(h, a, h[m], f)
    BY <1>2, HeapMalloc
  <2> QED
    BY <2>1 DEF Grows
<1>4. (H1 \ {m}) \union {a} = G /\ m \in H1
  BY <1>1
<1> HIDE DEF n, m, f, p, H1, N, G
<1>5. /\ Owns(f, N, G, C)
      /\ Owned(f, N, G, C) = (Owned(h, N, H1, C) \ {m}) \union {a}
      /\ a \notin Owned(h, N, H1, C)
  <2>1. Copies(h, N, H1, C, m, a, f)
    BY <1>2, <1>4, MessageCopied DEF f
  <2> QED
    BY <1>4, <2>1 DEF Copies
<1>6. Owned(h, N, H1, C) \subseteq DOMAIN h /\ N \subseteq Owned(h, N, H1, C)
  BY <1>2, OwnersApart DEF Owned
<1>7. \A o \in N : f[o] = h[o]
  BY <1>3, <1>6
<1>8. Linked(f, p)
  <2>1. \A i \in 1 .. Len(p) : f[p[i]] = h[p[i]]
    BY <1>2, <1>7, LinkedElements DEF N
  <2> QED
    BY <1>2, <2>1 DEF Linked
<1>9. Rep(f, p, X, G, C) /\ BlocksFor(f, p, X, G, C) = Owned(f, N, G, C)
  BY <1>2, <1>3, <1>5, <1>8 DEF Rep, BlocksFor, N
<1>10. Unowned({n, m}, f, p, X, G, C)
  <2>1. n \notin Owned(h, N, H1, C) /\ n \in DOMAIN h
    <3>1. n \in ToSet(q)
      BY LinkedTail DEF Rep, n
    <3>2. n \in DOMAIN h
      BY <3>1 DEF Rep, Owns, Kinds, IsNode
    <3> QED
      BY <1>1, <1>2, <3>2
  <2>2. n # a /\ m # a
    BY <1>1, <2>1
  <2> QED
    BY <1>5, <1>9, <2>1, <2>2 DEF Unowned
<1>11. Shrinks(f, p, X, G, C, {n, m}, Freed(f, {n, m}), p, X, G, C)
  BY <1>9, <1>10, RepFreed
<1> DEFINE g == Freed(f, {n, m})
<1>12. /\ Rep(g, p, X, G, C)
       /\ BlocksFor(g, p, X, G, C) = Owned(f, N, G, C) \ {n, m}
       /\ SameContents(f, g, N)
       /\ DOMAIN g = DOMAIN f \ {n, m}
       /\ \A x \in X : g[x] = f[x]
  BY <1>9, <1>11 DEF Shrinks, N
<1> HIDE DEF g
<1>13. SameContents(h, f, N)
  <2>1. h[m] \in Messages
    BY <1>2, <1>4 DEF Owns, Kinds, IsMessage, Paired
  <2>2. \A o \in N : f[o].message = h[o].message /\ h[o].message \in DOMAIN h
    <3>1. \A o \in N : h[o].message \in Paired(h, N, H1)
      BY DEF Paired, MessagesOf
    <3> QED
      BY <1>6, <1>7, <3>1 DEF Owned
  <2>3. \A o \in N : f[h[o].message] = h[h[o].message]
    BY <1>3, <2>2
  <2> QED
    BY <2>2, <2>3 DEF SameContents, ContentOf
<1>14. SameContents(h, g, N)
  BY <1>12, <1>13 DEF SameContents
<1>15. a # n /\ a # m
  BY <1>1, <1>10, <1>5, <1>9 DEF Unowned
<1>16. a \notin H
  BY <1>6, <1>5 DEF Owned, Paired, H1
<1>17. BlocksFor(g, p, X, G, C) = (BlocksFor(h, q, X, H, C) \ {n, m}) \union {a}
  BY <1>1, <1>2, <1>5, <1>12, <1>15
<1>18. DOMAIN g = (DOMAIN h \ {n, m}) \union {a}
  BY <1>3, <1>12, <1>15
<1>19. \A x \in X : g[x] = h[x]
  BY <1>7, <1>12 DEF N
<1>20. Takes(h, q, X, H, C, a, g)
  BY <1>12, <1>14, <1>16, <1>17, <1>18, <1>19 DEF Takes, G, N, p, n, m
<1> QED
  BY <1>20 DEF g, f, n, m

Loses(h, q, X, H, C, g) ==
  /\ Rep(g, Tail(q), X, H, C)
  /\ SameContents(h, g, ToSet(Tail(q)) \union X)
  /\ \A x \in X : g[x] = h[x]

(* The same without memory for the copy: the metadata stay behind. *)
LEMMA HeadLost ==
  ASSUME NEW h, NEW q, NEW X, NEW H, NEW C, Rep(h, q, X, H, C), q # <<>>
  PROVE  Loses(h, q, X, H, C, Freed(h, {q[1], h[q[1]].message}))
<1> DEFINE n == q[1]
           m == h[n].message
           p == Tail(q)
           H1 == H \union {m}
<1>1. /\ Rep(h, p, X, H1, C)
      /\ BlocksFor(h, p, X, H1, C) = BlocksFor(h, q, X, H, C) \ {n}
      /\ m \notin H /\ m \in DOMAIN h /\ n # m
  BY HeadUnlinked
<1>2. H1 \ {m} = H /\ m \in H1
  BY <1>1
<1> HIDE DEF n, m, p, H1
<1>3. Owned(h, ToSet(p) \union X, H1 \ {m}, C)
        = Owned(h, ToSet(p) \union X, H1, C) \ {m, h[m].metaData}
  BY <1>1, <1>2, HeldLeaves DEF Rep
<1>4. Rep(h, p, X, H, C)
  BY <1>1, <1>2, RepLess
<1>5. Unowned({n, m}, h, p, X, H, C)
  BY <1>1, <1>2, <1>3 DEF Unowned, BlocksFor
<1>6. Shrinks(h, p, X, H, C, {n, m}, Freed(h, {n, m}), p, X, H, C)
  BY <1>4, <1>5, RepFreed
<1> QED
  BY <1>6 DEF Shrinks, Loses, n, m, p

-----------------------------------------------------------------------------
(* The walk from head along next finds the list.                           *)

Firsts(q, i) == [j \in 1 .. i |-> q[j]]

LEMMA FirstsAre ==
  ASSUME NEW q \in Seq(Nat \ {0}), NEW i \in 1 .. Len(q)
  PROVE  /\ Firsts(q, 0) = <<>>
         /\ Firsts(q, i) = Append(Firsts(q, i - 1), q[i])
         /\ i > 1 => Last(Firsts(q, i - 1)) = q[i - 1]
         /\ Firsts(q, Len(q)) = q
<1>1. Len(q) \in Nat /\ i \in Nat /\ i - 1 \in Nat /\ q \in [1 .. Len(q) -> Nat \ {0}]
  BY LenProperties
<1> DEFINE p == Firsts(q, i - 1)
           r == Firsts(q, i)
<1>2. p \in Seq(Nat \ {0}) /\ Len(p) = i - 1
  <2>1. p \in [1 .. i - 1 -> Nat \ {0}]
    BY <1>1 DEF Firsts
  <2> HIDE DEF p
  <2>2. p \in Seq(Nat \ {0})
    BY <1>1, <2>1, IsASeq
  <2>3. DOMAIN p = 1 .. i - 1 /\ DOMAIN p = 1 .. Len(p) /\ Len(p) \in Nat
    BY <2>1, <2>2, LenProperties
  <2> QED
    BY <1>1, <2>2, <2>3
<1>3. /\ Len(Append(p, q[i])) = i
      /\ DOMAIN Append(p, q[i]) = 1 .. i
      /\ Append(p, q[i]) = [j \in DOMAIN Append(p, q[i]) |-> Append(p, q[i])[j]]
      /\ \A j \in 1 .. i - 1 : Append(p, q[i])[j] = p[j]
      /\ Append(p, q[i])[i] = q[i]
  <2> HIDE DEF p
  <2>1. q[i] \in Nat \ {0}
    BY <1>1
  <2>2. /\ Append(p, q[i]) \in Seq(Nat \ {0})
        /\ Len(Append(p, q[i])) = Len(p) + 1
        /\ \A j \in 1 .. Len(p) : Append(p, q[i])[j] = p[j]
        /\ Append(p, q[i])[Len(p) + 1] = q[i]
    BY <1>2, <2>1, AppendProperties
  <2>3. Append(p, q[i]) \in [1 .. Len(Append(p, q[i])) -> Nat \ {0}]
    BY <2>2, LenProperties
  <2> QED
    BY <1>1, <1>2, <2>2, <2>3
<1>4. Append(p, q[i]) = r
  <2>1. \A j \in 1 .. i : Append(p, q[i])[j] = q[j]
    <3> SUFFICES ASSUME NEW j \in 1 .. i PROVE Append(p, q[i])[j] = q[j]
      OBVIOUS
    <3>1. CASE j = i
      BY <1>3, <3>1
    <3>2. CASE j # i
      <4>1. j \in 1 .. i - 1
        BY <1>1, <3>2
      <4>2. Append(p, q[i])[j] = p[j]
        BY <1>3, <4>1
      <4>3. p[j] = q[j]
        BY <4>1 DEF Firsts
      <4> QED
        BY <4>2, <4>3
    <3> QED
      BY <3>1, <3>2
  <2> HIDE DEF p
  <2>2. Append(p, q[i]) = [j \in 1 .. i |-> q[j]]
    BY <1>3, <2>1
  <2> QED
    BY <2>2 DEF Firsts
<1>5. Firsts(q, 0) = <<>>
  BY DEF Firsts
<1>6. ASSUME i > 1 PROVE Last(p) = q[i - 1]
  <2>1. i - 1 \in 1 .. i - 1
    BY <1>1, <1>6
  <2>2. p[i - 1] = q[i - 1]
    BY <2>1 DEF Firsts
  <2> HIDE DEF p
  <2> QED
    BY <1>2, <2>2 DEF Last
<1>7. Firsts(q, Len(q)) = q
  BY <1>1 DEF Firsts
<1> QED
  BY <1>4, <1>5, <1>6, <1>7

LEMMA ChainIs == \A q : ListIs(q) => Chain = q
<1> SUFFICES ASSUME NEW q, ListIs(q) PROVE Chain = q
  OBVIOUS
<1> DEFINE Step(f, i) == IF i = 1 THEN head ELSE heap[Last(f[i - 1])].next
           Walk(f) == f = [i \in 0 .. size |->
                             IF i = 0 THEN <<>> ELSE Append(f[i - 1], Step(f, i))]
           walk == CHOOSE f : Walk(f)
           g == [i \in 0 .. size |-> Firsts(q, i)]
<1>1. /\ q \in Seq(Nat \ {0}) /\ size = Len(q) /\ size \in Nat
      /\ \A i \in 1 .. Len(q) : heap[q[i]].next = IF i < Len(q) THEN q[i + 1] ELSE NULL
      /\ Ends(q, head, tail)
  BY LenProperties DEF ListIs, Linked
<1>2. ASSUME NEW i \in 1 .. size
      PROVE  g[i] = Append(g[i - 1], Step(g, i))
  <2>1. i \in 1 .. Len(q) /\ i - 1 \in 0 .. size /\ i \in 0 .. size
    BY <1>1
  <2>2. g[i] = Firsts(q, i) /\ g[i - 1] = Firsts(q, i - 1)
    BY <2>1
  <2>3. /\ Firsts(q, i) = Append(Firsts(q, i - 1), q[i])
        /\ i > 1 => Last(Firsts(q, i - 1)) = q[i - 1]
    BY <1>1, <2>1, FirstsAre
  <2>4. Step(g, i) = q[i]
    <3>1. CASE i = 1
      <4>1. q # <<>>
        BY <1>1, <2>1, EmptySeq
      <4> QED
        BY <1>1, <3>1, <4>1 DEF Ends
    <3>2. CASE i # 1
      <4>1. i > 1 /\ i - 1 \in 1 .. Len(q) /\ i - 1 < Len(q) /\ i - 1 + 1 = i
        BY <1>1, <2>1, <3>2
      <4>2. heap[q[i - 1]].next = q[i]
        BY <1>1, <4>1
      <4>3. Last(g[i - 1]) = q[i - 1]
        BY <2>2, <2>3, <4>1
      <4> QED
        BY <3>2, <4>2, <4>3
    <3> QED
      BY <3>1, <3>2
  <2> QED
    BY <2>2, <2>3, <2>4
<1>3. g[0] = <<>>
  BY <1>1 DEF Firsts
<1>4. Walk(g)
  <2>1. \A i \in 0 .. size : g[i] = IF i = 0 THEN <<>> ELSE Append(g[i - 1], Step(g, i))
    <3> TAKE i \in 0 .. size
    <3>1. i # 0 => i \in 1 .. size
      BY <1>1
    <3> HIDE DEF g, Step
    <3> QED
      BY <1>2, <1>3, <3>1
  <2>2. g = [i \in 0 .. size |-> g[i]]
    OBVIOUS
  <2> HIDE DEF g, Step
  <2> QED
    BY <2>1, <2>2
<1>5. Walk(walk)
  <2> HIDE DEF Walk
  <2> QED
    BY <1>4
<1>6. Chain = walk[size]
  BY DEF Chain
<1> HIDE DEF walk, g
<1>7. \A i \in 0 .. size :
        walk[i] = IF i = 0 THEN <<>> ELSE Append(walk[i - 1], Step(walk, i))
  BY <1>5
<1> DEFINE S == {i \in Nat : i <= size => walk[i] = g[i]}
<1>8. 0 \in S
  BY <1>1, <1>3, <1>7
<1>9. ASSUME NEW i \in Nat, i \in S PROVE i + 1 \in S
  <2> SUFFICES ASSUME i + 1 <= size PROVE walk[i + 1] = g[i + 1]
    OBVIOUS
  <2>1. i + 1 \in 1 .. size /\ i + 1 \in 0 .. size /\ i + 1 # 0 /\ (i + 1) - 1 = i /\ i <= size
    BY <1>1
  <2>2. walk[i] = g[i]
    BY <1>9, <2>1
  <2>3. walk[i + 1] = Append(walk[(i + 1) - 1], Step(walk, i + 1))
    BY <1>7, <2>1
  <2>4. g[i + 1] = Append(g[(i + 1) - 1], Step(g, i + 1))
    BY <1>2, <2>1
  <2> QED
    BY <2>1, <2>2, <2>3, <2>4
<1> HIDE DEF S
<1>10. \A i \in Nat : i \in S
  BY <1>8, <1>9, Counting
<1>11. walk[size] = g[size]
  BY <1>1, <1>10 DEF S
<1>12. g[size] = q
  <2>1. g[size] = Firsts(q, size)
    BY <1>1 DEF g
  <2>2. CASE size = 0
    <3>1. q = <<>>
      BY <1>1, <2>2, EmptySeq
    <3>2. Firsts(q, 0) = <<>>
      BY DEF Firsts
    <3> QED
      BY <2>1, <2>2, <3>1, <3>2
  <2>3. CASE size # 0
    <3>1. size \in 1 .. Len(q)
      BY <1>1, <2>3
    <3> QED
      BY <1>1, <2>1, <3>1, FirstsAre
  <2> QED
    BY <2>2, <2>3
<1> QED
  BY <1>6, <1>11, <1>12

-----------------------------------------------------------------------------
(* What the list holds.                                                    *)

ContentsOf(h, q) == [i \in 1 .. Len(q) |-> ContentOf(h, q[i])]

LEMMA ContentsSeq ==
  ASSUME NEW h, NEW q, NEW X, NEW H, NEW C, Rep(h, q, X, H, C)
  PROVE  /\ ContentsOf(h, q) \in Seq(Nat)
         /\ Len(ContentsOf(h, q)) = Len(q)
         /\ \A i \in 1 .. Len(q) : ContentsOf(h, q)[i] = ContentOf(h, q[i])
         /\ \A n \in ToSet(q) \union X : ContentOf(h, n) \in Nat
<1> DEFINE s == ContentsOf(h, q)
<1>1. /\ Len(q) \in Nat
      /\ \A i \in 1 .. Len(q) : q[i] \in ToSet(q)
  BY LinkedElements DEF Rep
<1>2. \A n \in ToSet(q) \union X : ContentOf(h, n) \in Nat
  <2> TAKE n \in ToSet(q) \union X
  <2>1. h[n].message \in Paired(h, ToSet(q) \union X, H)
    BY DEF Paired, MessagesOf
  <2>2. h[h[n].message] \in Messages
    BY <2>1 DEF Rep, Owns, Kinds, IsMessage
  <2> QED
    BY <2>2 DEF ContentOf, Messages
<1>3. s \in [1 .. Len(q) -> Nat]
  BY <1>1, <1>2 DEF ContentsOf
<1>4. s \in Seq(Nat) /\ \A i \in 1 .. Len(q) : s[i] = ContentOf(h, q[i])
  BY <1>1, <1>3, IsASeq DEF ContentsOf
<1> HIDE DEF s
<1>5. Len(s) = Len(q)
  BY <1>1, <1>3, <1>4, LenProperties
<1> QED
  BY <1>2, <1>4, <1>5 DEF s

LEMMA SameContentsOf ==
  ASSUME NEW h, NEW g, NEW q, NEW X, NEW H, NEW C, Rep(h, q, X, H, C),
         NEW N, SameContents(h, g, N), ToSet(q) \subseteq N
  PROVE  ContentsOf(g, q) = ContentsOf(h, q)
<1>1. \A i \in 1 .. Len(q) : q[i] \in N
  BY LinkedElements DEF Rep
<1> QED
  BY <1>1 DEF SameContents, ContentsOf

LEMMA ContentsAppended ==
  ASSUME NEW h, NEW g, NEW q, NEW n \in Nat \ {0}, NEW H, NEW C, Rep(h, q, {n}, H, C),
         SameContents(h, g, ToSet(q) \union {n})
  PROVE  ContentsOf(g, Append(q, n)) = Append(ContentsOf(h, q), ContentOf(h, n))
<1> DEFINE r == Append(q, n)
           s == ContentsOf(h, q)
           m == ContentOf(h, n)
           t == ContentsOf(g, r)
<1>1. /\ q \in Seq(Nat \ {0}) /\ Len(q) \in Nat
      /\ \A i \in 1 .. Len(q) : q[i] \in ToSet(q)
  BY LinkedElements DEF Rep, Linked
<1>2. /\ Len(r) = Len(q) + 1
      /\ \A i \in 1 .. Len(q) : r[i] = q[i]
      /\ r[Len(q) + 1] = n
  BY <1>1, AppendProperties
<1>3. /\ s \in Seq(Nat) /\ Len(s) = Len(q) /\ m \in Nat
      /\ \A i \in 1 .. Len(q) : s[i] = ContentOf(h, q[i])
  BY ContentsSeq
<1> HIDE DEF r, s, m
<1>4. /\ Append(s, m) \in Seq(Nat) /\ Len(Append(s, m)) = Len(q) + 1
      /\ \A i \in 1 .. Len(q) : Append(s, m)[i] = s[i]
      /\ Append(s, m)[Len(q) + 1] = m
  BY <1>3, AppendProperties
<1>5. \A i \in 1 .. Len(q) + 1 : t[i] = Append(s, m)[i]
  <2> TAKE i \in 1 .. Len(q) + 1
  <2>1. t[i] = ContentOf(g, r[i])
    BY <1>2 DEF ContentsOf
  <2>2. CASE i = Len(q) + 1
    BY <1>2, <1>4, <2>1, <2>2 DEF SameContents, m
  <2>3. CASE i # Len(q) + 1
    <3>1. i \in 1 .. Len(q)
      BY <1>1, <2>3
    <3>2. t[i] = ContentOf(g, q[i]) /\ Append(s, m)[i] = ContentOf(h, q[i])
      BY <1>2, <1>3, <1>4, <2>1, <3>1
    <3> QED
      BY <1>1, <3>1, <3>2 DEF SameContents
  <2> QED
    BY <2>2, <2>3
<1>6. Append(s, m) = [i \in 1 .. Len(q) + 1 |-> Append(s, m)[i]]
  <2>1. Append(s, m) \in [1 .. Len(Append(s, m)) -> Nat]
    BY <1>4, LenProperties
  <2> QED
    BY <1>4, <2>1
<1>7. t = [i \in 1 .. Len(q) + 1 |-> t[i]]
  BY <1>2 DEF ContentsOf
<1> HIDE DEF t
<1>8. t = Append(s, m)
  BY <1>5, <1>6, <1>7
<1> QED
  BY <1>8 DEF t, r, s, m

LEMMA ContentsTail ==
  ASSUME NEW h, NEW g, NEW q, NEW X, NEW H, NEW C, Rep(h, q, X, H, C), q # <<>>,
         SameContents(h, g, ToSet(Tail(q)) \union X)
  PROVE  /\ ContentsOf(g, Tail(q)) = Tail(ContentsOf(h, q))
         /\ Head(ContentsOf(h, q)) = ContentOf(h, q[1])
         /\ ContentsOf(h, q) # <<>>
<1> DEFINE p == Tail(q)
           s == ContentsOf(h, q)
           t == ContentsOf(g, p)
<1>1. /\ Len(p) = Len(q) - 1 /\ Linked(h, p)
      /\ \A i \in 1 .. Len(p) : p[i] = q[i + 1]
  BY LinkedTail DEF Rep
<1>2. /\ s \in Seq(Nat) /\ Len(s) = Len(q)
      /\ \A i \in 1 .. Len(q) : s[i] = ContentOf(h, q[i])
  BY ContentsSeq
<1>3. Len(q) \in Nat \ {0}
  BY EmptySeq, LenProperties DEF Rep, Linked
<1>4. \A i \in 1 .. Len(p) : p[i] \in ToSet(p)
  BY <1>1, LinkedElements
<1> HIDE DEF p, s
<1>5. s # <<>> /\ Head(s) = ContentOf(h, q[1])
  <2>1. s # <<>>
    BY <1>2, <1>3, EmptySeq
  <2> QED
    BY <1>2, <1>3, <2>1, HeadTailProperties
<1>6. /\ Tail(s) \in Seq(Nat) /\ Len(Tail(s)) = Len(p)
      /\ \A i \in 1 .. Len(p) : Tail(s)[i] = s[i + 1]
  BY <1>1, <1>2, <1>5, HeadTailProperties
<1>7. \A i \in 1 .. Len(p) : t[i] = Tail(s)[i]
  <2> TAKE i \in 1 .. Len(p)
  <2>1. i + 1 \in 1 .. Len(q)
    BY <1>1, <1>3
  <2>2. t[i] = ContentOf(g, p[i])
    BY DEF ContentsOf
  <2> QED
    BY <1>1, <1>2, <1>4, <1>6, <2>1, <2>2 DEF SameContents, p
<1>8. Tail(s) = [i \in 1 .. Len(p) |-> Tail(s)[i]]
  <2>1. Tail(s) \in [1 .. Len(Tail(s)) -> Nat]
    BY <1>6, LenProperties
  <2> QED
    BY <1>6, <2>1
<1>9. t = [i \in 1 .. Len(p) |-> t[i]]
  BY DEF ContentsOf
<1> HIDE DEF t
<1>10. t = Tail(s)
  BY <1>7, <1>8, <1>9
<1> QED
  BY <1>5, <1>10 DEF t, p, s

LEMMA ContentsAre == \A q : ListIs(q) => Contents = ContentsOf(heap, q)
<1> SUFFICES ASSUME NEW q, ListIs(q) PROVE Contents = ContentsOf(heap, q)
  OBVIOUS
<1>1. Chain = q
  BY ChainIs
<1>2. DOMAIN q = 1 .. Len(q)
  BY LenProperties DEF ListIs, Linked
<1> QED
  BY <1>1, <1>2 DEF Contents, ContentsOf

-----------------------------------------------------------------------------
(* The invariant in terms of the list, before a step and after it.         *)

LEMMA Now ==
  ASSUME IInv, NEW q, q = Chain
  PROVE  /\ Rep(heap, q, Waiting, Held, Connection)
         /\ size = Len(q) /\ Ends(q, head, tail)
         /\ Sound => DOMAIN heap = BlocksFor(heap, q, Waiting, Held, Connection)
         /\ Contents = ContentsOf(heap, q)
         /\ q \in Seq(Nat \ {0}) /\ Len(q) \in Nat
         /\ Linked(heap, q)
<1>1. ListIs(q) /\ BlocksInv(q) /\ HeapOK(heap)
  BY DEF IInv
<1>2. Contents = ContentsOf(heap, q)
  BY <1>1, ContentsAre
<1>3. q \in Seq(Nat \ {0}) /\ Len(q) \in Nat
  BY <1>1, LenProperties DEF ListIs, Linked
<1> QED
  BY <1>1, <1>2, <1>3 DEF ListIs, BlocksInv, Rep, BlocksFor

Then(p) ==
  /\ Rep(heap', p, Waiting', Held', Connection')
  /\ size' = Len(p) /\ Ends(p, head', tail')
  /\ Sound' => DOMAIN heap' = BlocksFor(heap', p, Waiting', Held', Connection')

LEMMA After ==
  ASSUME TypeInv', PutInv', NEW p, Then(p)
  PROVE  IInv' /\ Contents' = ContentsOf(heap', p)
<1>1. Linked(heap', p) /\ size' = Len(p) /\ Ends(p, head', tail')
  BY DEF Then, Rep
<1>2. ListIs(p)'
  BY <1>1 DEF ListIs
<1>3. (\A q : ListIs(q) => Chain = q)'
  BY ChainIs, PTL
<1>4. (\A q : ListIs(q) => Contents = ContentsOf(heap, q))'
  BY ContentsAre, PTL
<1>5. Chain' = p
  BY <1>2, <1>3
<1>6. Contents' = ContentsOf(heap', p)
  BY <1>2, <1>4
<1>7. BlocksInv(p)'
  BY DEF Then, Rep, BlocksInv, BlocksFor
<1>8. ListIs(Chain)'
  BY <1>1, <1>5 DEF ListIs
<1>9. BlocksInv(Chain)'
  BY <1>5, <1>7 DEF BlocksInv
<1>10. HeapOK(heap')
  BY DEF Then, Rep
<1> QED
  BY <1>6, <1>8, <1>9, <1>10 DEF IInv

-----------------------------------------------------------------------------
(* putHandleDropRandom.  Positions count from 1 here: Gone holds the       *)
(* positions to drop, and k of them have been dealt with.                  *)

Behind(q, k) == IF k < Len(q) THEN q[k + 1] ELSE NULL

(* The nodes of q are in f what they are in h, next apart. *)
Relinked(h, f, q) ==
  /\ DOMAIN f = DOMAIN h
  /\ \A j \in 1 .. Len(q) : f[q[j]] \in Nodes /\ f[q[j]].message = h[q[j]].message
  /\ \A a \in DOMAIN h : (\A j \in 1 .. Len(q) : a # q[j]) => f[a] = h[a]

(* Kept positions that have become neighbours are linked, e is the last.   *)
Joined(h, f, q, Gone, k, e) ==
  /\ e \in 1 .. k /\ e \notin Gone
  /\ \A j \in 1 .. k : e < j => j \in Gone
  /\ f[q[e]].next = Behind(q, k)
  /\ \A j, y \in 1 .. k :
       /\ j < y /\ j \notin Gone /\ y \notin Gone
       /\ \A z \in 1 .. k : j < z /\ z < y => z \in Gone
       => f[q[j]].next = q[y]
  /\ \A j \in 1 .. Len(q) : j > k => f[q[j]] = h[q[j]]

(* The dropped nodes, in a sequence s. *)
Listed(q, Gone, k, s) ==
  /\ s \in Seq(Nat)
  /\ \A i, j \in 1 .. Len(s) : s[i] = s[j] => i = j
  /\ ToSet(s) = {q[j] : j \in Gone \cap (1 .. k)}

(* The record of the loop. *)
IsLoop(r) == \E p, i, f, d : r = [prev |-> p, iterator |-> i, heap |-> f, gone |-> d]

LoopInv(h, q, Gone, k, r) ==
  /\ IsLoop(r)
  /\ r.iterator = Behind(q, k)
  /\ Relinked(h, r.heap, q)
  /\ \E e \in 1 .. k : r.prev = q[e] /\ Joined(h, r.heap, q, Gone, k, e)
  /\ Listed(q, Gone, k, r.gone)

(* A list in the heap, its nodes nodes. *)
Chained(h, q) ==
  /\ Linked(h, q)
  /\ \A j \in 1 .. Len(q) : q[j] \in DOMAIN h /\ h[q[j]] \in Nodes

LEMMA ChainedFacts ==
  ASSUME NEW h, NEW q, Chained(h, q)
  PROVE  /\ Len(q) \in Nat
         /\ \A i, j \in 1 .. Len(q) : q[i] = q[j] => i = j
         /\ \A i \in 1 .. Len(q) : /\ q[i] \in Nat \ {0} /\ q[i] \in DOMAIN h
                                   /\ h[q[i]] \in Nodes
                                   /\ h[q[i]].next = Behind(q, i)
         /\ \A i \in Nat : Behind(q, i) \in Nat
<1>1. /\ Len(q) \in Nat
      /\ \A i, j \in 1 .. Len(q) : q[i] = q[j] => i = j
      /\ \A i \in 1 .. Len(q) : q[i] \in Nat \ {0}
  BY LenProperties DEF Chained, Linked
<1>2. \A i \in 1 .. Len(q) : h[q[i]].next = Behind(q, i)
  BY DEF Chained, Linked, Behind
<1>3. ASSUME NEW i \in Nat PROVE Behind(q, i) \in Nat
  <2>1. i < Len(q) => i + 1 \in 1 .. Len(q)
    BY <1>1
  <2> QED
    BY <1>1, <2>1 DEF Behind, NULL
<1> QED
  BY <1>1, <1>2, <1>3 DEF Chained

(* What a step does to each field. *)
Fields(r, p, i, f, d) ==
  r.prev = p /\ r.iterator = i /\ r.heap = f /\ r.gone = d /\ IsLoop(r)

LEMMA LoopSteps ==
  ASSUME NEW r, IsLoop(r)
  PROVE  /\ Fields([r EXCEPT !.prev = r.iterator, !.iterator = r.heap[@].next],
                   r.iterator, r.heap[r.iterator].next, r.heap, r.gone)
         /\ Fields(Unlink(r), r.prev, r.heap[r.iterator].next,
                   [r.heap EXCEPT ![r.prev].next = r.heap[r.iterator].next],
                   Append(r.gone, r.iterator))
<1>1. PICK p, i, f, d : r = [prev |-> p, iterator |-> i, heap |-> f, gone |-> d]
  BY DEF IsLoop
<1>2. r.prev = p /\ r.iterator = i /\ r.heap = f /\ r.gone = d
  BY <1>1
<1>3. ASSUME NEW n, NEW s, s = [r EXCEPT !.prev = i, !.iterator = n]
      PROVE  Fields(s, i, n, f, d)
  <2>1. s.prev = i /\ s.iterator = n /\ s.heap = f /\ s.gone = d
    BY <1>1, <1>3
  <2>2. s = [prev |-> i, iterator |-> n, heap |-> f, gone |-> d]
    BY <1>1, <1>3
  <2> QED
    BY <2>1, <2>2, Zenon DEF IsLoop, Fields
<1>4. ASSUME NEW n, NEW g, NEW e, NEW s,
             s = [r EXCEPT !.heap = g, !.iterator = n, !.gone = e]
      PROVE  Fields(s, p, n, g, e)
  <2>1. s.prev = p /\ s.iterator = n /\ s.heap = g /\ s.gone = e
    BY <1>1, <1>4
  <2>2. s = [prev |-> p, iterator |-> n, heap |-> g, gone |-> e]
    BY <1>1, <1>4
  <2> QED
    BY <2>1, <2>2, Zenon DEF IsLoop, Fields
<1> DEFINE n == f[i].next
           g == [f EXCEPT ![p].next = n]
           t == Append(d, i)
<1>5. /\ Unlink(r) = [r EXCEPT !.heap = g, !.iterator = n, !.gone = t]
      /\ [r EXCEPT !.prev = r.iterator, !.iterator = r.heap[@].next]
         = [r EXCEPT !.prev = i, !.iterator = n]
      /\ n = r.heap[r.iterator].next
      /\ g = [r.heap EXCEPT ![r.prev].next = r.heap[r.iterator].next]
      /\ t = Append(r.gone, r.iterator)
  BY <1>2 DEF Unlink
<1> HIDE DEF n, g, t
<1>6. Fields([r EXCEPT !.prev = i, !.iterator = n], i, n, f, d)
  BY <1>3
<1>7. Fields([r EXCEPT !.heap = g, !.iterator = n, !.gone = t], p, n, g, t)
  BY <1>4
<1> QED
  BY <1>2, <1>5, <1>6, <1>7

(* A kept node: prev follows. *)
LEMMA LoopKeeps ==
  ASSUME NEW h, NEW q, Chained(h, q), NEW Gone, NEW k \in Nat, k < Len(q),
         NEW r, LoopInv(h, q, Gone, k, r), k + 1 \notin Gone
  PROVE  LoopInv(h, q, Gone, k + 1,
                 [r EXCEPT !.prev = r.iterator, !.iterator = r.heap[@].next])
<1> DEFINE f == r.heap
           s == [r EXCEPT !.prev = r.iterator, !.iterator = r.heap[@].next]
<1>1. Len(q) \in Nat /\ k + 1 \in 1 .. Len(q) /\ k + 1 > k
  BY ChainedFacts
<1>2. r.iterator = q[k + 1]
  BY <1>1 DEF LoopInv, Behind
<1>3. PICK e \in 1 .. k : r.prev = q[e] /\ Joined(h, f, q, Gone, k, e)
  BY DEF LoopInv
<1>4. f[q[k + 1]] = h[q[k + 1]]
  BY <1>1, <1>3 DEF Joined
<1>5. f[q[k + 1]].next = Behind(q, k + 1)
  <2>1. \A i \in 1 .. Len(q) : h[q[i]].next = Behind(q, i)
    BY DEF Chained, Linked, Behind
  <2> QED
    BY <1>1, <1>4, <2>1, Zenon
<1>6. Fields(s, q[k + 1], Behind(q, k + 1), f, r.gone)
  <2>1. Fields(s, r.iterator, r.heap[r.iterator].next, r.heap, r.gone)
    BY LoopSteps DEF LoopInv
  <2> QED
    BY <1>2, <1>5, <2>1
<1> HIDE DEF f, s
<1>7. Relinked(h, f, q) /\ Listed(q, Gone, k, r.gone)
  BY DEF LoopInv, f
<1>8. Listed(q, Gone, k + 1, r.gone)
  <2>1. Gone \cap (1 .. k + 1) = Gone \cap (1 .. k)
    BY <1>1
  <2> QED
    BY <1>7, <2>1 DEF Listed
<1>9. Joined(h, f, q, Gone, k + 1, k + 1)
  <2>1. \A j \in 1 .. k + 1 : k + 1 < j => j \in Gone
    OBVIOUS
  <2>2. ASSUME NEW j \in 1 .. k + 1, NEW y \in 1 .. k + 1,
               j < y, j \notin Gone, y \notin Gone,
               \A z \in 1 .. k + 1 : j < z /\ z < y => z \in Gone
        PROVE  f[q[j]].next = q[y]
    <3>1. j \in 1 .. k
      BY <2>2
    <3>2. CASE y = k + 1
      <4>1. j = e
        <5>1. ~ (e < j)
          BY <1>3, <2>2, <3>1 DEF Joined
        <5>2. ~ (j < e)
          BY <1>3, <2>2, <3>1, <3>2 DEF Joined
        <5> QED
          BY <3>1, <5>1, <5>2
      <4>2. f[q[e]].next = Behind(q, k)
        BY <1>3 DEF Joined
      <4> QED
        BY <1>1, <3>2, <4>1, <4>2 DEF Behind
    <3>3. CASE y # k + 1
      <4>1. y \in 1 .. k /\ \A z \in 1 .. k : j < z /\ z < y => z \in Gone
        BY <2>2, <3>3
      <4> QED
        BY <1>3, <2>2, <3>1, <4>1 DEF Joined
    <3> QED
      BY <3>2, <3>3
  <2>3. \A j \in 1 .. Len(q) : j > k + 1 => f[q[j]] = h[q[j]]
    BY <1>1, <1>3 DEF Joined
  <2>4. k + 1 \in 1 .. k + 1
    OBVIOUS
  <2> QED
    BY <1>5, <2>1, <2>2, <2>3, <2>4 DEF Joined
<1>10. k + 1 \in 1 .. k + 1
  OBVIOUS
<1>11. /\ s.prev = q[k + 1] /\ s.iterator = Behind(q, k + 1)
       /\ s.heap = f /\ s.gone = r.gone /\ IsLoop(s)
  BY <1>6 DEF Fields
<1> QED
  BY <1>7, <1>8, <1>9, <1>10, <1>11 DEF LoopInv, s

(* A marked node: it is unlinked behind prev. *)
LEMMA LoopUnlinks ==
  ASSUME NEW h, NEW q, Chained(h, q), NEW Gone, NEW k \in Nat, k < Len(q),
         NEW r, LoopInv(h, q, Gone, k, r), k + 1 \in Gone
  PROVE  LoopInv(h, q, Gone, k + 1, Unlink(r))
<1> DEFINE f == r.heap
           s == Unlink(r)
           c == q[k + 1]
<1>1. Len(q) \in Nat /\ k + 1 \in 1 .. Len(q) /\ k + 1 > k
  BY ChainedFacts
<1>2. r.iterator = c /\ c \in Nat
  BY <1>1, ChainedFacts DEF LoopInv, Behind
<1>3. PICK e \in 1 .. k : r.prev = q[e] /\ Joined(h, f, q, Gone, k, e)
  BY DEF LoopInv
<1>4. f[c].next = Behind(q, k + 1) /\ Behind(q, k + 1) \in Nat
  <2>1. f[c] = h[c]
    BY <1>1, <1>3 DEF Joined
  <2>2. h[c].next = Behind(q, k + 1) /\ k + 1 \in Nat
    <3>1. \A i \in 1 .. Len(q) : h[q[i]].next = Behind(q, i)
      BY DEF Chained, Linked, Behind
    <3>2. h[c].next = Behind(q, k + 1)
      BY <1>1, <3>1, Zenon
    <3> QED
      BY <3>2
  <2>3. Behind(q, k + 1) \in Nat
    BY <2>2, ChainedFacts
  <2> QED
    BY <2>1, <2>2, <2>3
<1> DEFINE v == Behind(q, k + 1)
           g == [f EXCEPT ![q[e]].next = v]
<1>5. Fields(s, q[e], v, g, Append(r.gone, c))
  <2>1. Fields(s, r.prev, r.heap[r.iterator].next,
               [r.heap EXCEPT ![r.prev].next = r.heap[r.iterator].next],
               Append(r.gone, r.iterator))
    BY LoopSteps DEF LoopInv
  <2>2. r.prev = q[e] /\ r.iterator = c /\ r.heap[c].next = v
    BY <1>2, <1>3, <1>4
  <2> HIDE DEF s, c, v
  <2>3. r.heap[r.iterator].next = v
    BY <2>2
  <2>4. [r.heap EXCEPT ![r.prev].next = r.heap[r.iterator].next] = g
    BY <2>2, <2>3, Zenon
  <2> HIDE DEF g
  <2> QED
    BY <2>1, <2>2, <2>3, <2>4, Zenon
<1>6. Relinked(h, f, q) /\ Listed(q, Gone, k, r.gone)
  BY DEF LoopInv
<1>7. /\ e \in 1 .. Len(q) /\ q[e] \in DOMAIN f /\ f[q[e]] \in Nodes
      /\ \A j \in 1 .. Len(q) : q[j] \in DOMAIN f
      /\ \A j \in 1 .. Len(q) : j # e => q[j] # q[e]
  <2>1. e \in 1 .. Len(q)
    BY <1>1
  <2>2. \A j \in 1 .. Len(q) : q[j] \in DOMAIN f /\ f[q[j]] \in Nodes
    BY <1>6 DEF Chained, Relinked
  <2>3. \A i, j \in 1 .. Len(q) : q[i] = q[j] => i = j
    BY DEF Chained, Linked
  <2> QED
    BY <2>1, <2>2, <2>3
<1> HIDE DEF f, s, c, v
<1>8. /\ DOMAIN g = DOMAIN f
      /\ g[q[e]] \in Nodes /\ g[q[e]].next = v /\ g[q[e]].message = f[q[e]].message
      /\ \A a \in DOMAIN f : a # q[e] => g[a] = f[a]
  BY <1>4, <1>7 DEF Nodes, v
<1> HIDE DEF g
<1>9. Relinked(h, g, q)
  BY <1>6, <1>7, <1>8 DEF Relinked
<1>10. Joined(h, g, q, Gone, k + 1, e)
  <2>1. e \in 1 .. k + 1 /\ e \notin Gone
    BY <1>3 DEF Joined
  <2>2. ASSUME NEW j \in 1 .. k + 1, e < j PROVE j \in Gone
    <3>1. j # k + 1 => j \in 1 .. k
      OBVIOUS
    <3> QED
      BY <1>3, <2>2, <3>1 DEF Joined
  <2>3. ASSUME NEW j \in 1 .. k + 1, NEW y \in 1 .. k + 1,
               j < y, j \notin Gone, y \notin Gone,
               \A z \in 1 .. k + 1 : j < z /\ z < y => z \in Gone
        PROVE  g[q[j]].next = q[y]
    <3>1. j \in 1 .. k /\ y \in 1 .. k
      BY <2>3
    <3>2. \A z \in 1 .. k : j < z /\ z < y => z \in Gone
      BY <2>3
    <3>3. f[q[j]].next = q[y]
      BY <1>3, <2>3, <3>1, <3>2 DEF Joined
    <3>4. j # e
      <4>1. ~ (e < y)
        BY <1>3, <2>3, <3>1 DEF Joined
      <4> QED
        BY <2>3, <3>1, <4>1
    <3>5. j \in 1 .. Len(q)
      BY <1>1, <3>1
    <3> QED
      BY <1>7, <1>8, <3>3, <3>4, <3>5
  <2>4. ASSUME NEW j \in 1 .. Len(q), j > k + 1 PROVE g[q[j]] = h[q[j]]
    <3>1. j > k /\ j # e
      BY <1>1, <2>4
    <3>2. f[q[j]] = h[q[j]]
      BY <1>3, <3>1 DEF Joined
    <3> QED
      BY <1>7, <1>8, <3>1, <3>2
  <2>5. g[q[e]].next = Behind(q, k + 1)
    BY <1>8 DEF v
  <2> QED
    BY <2>1, <2>2, <2>3, <2>4, <2>5 DEF Joined
<1>11. Listed(q, Gone, k + 1, Append(r.gone, c))
  <2> DEFINE t == Append(r.gone, c)
  <2>1. /\ r.gone \in Seq(Nat) /\ Len(r.gone) \in Nat
        /\ \A i, j \in 1 .. Len(r.gone) : r.gone[i] = r.gone[j] => i = j
        /\ ToSet(r.gone) = {q[j] : j \in Gone \cap (1 .. k)}
        /\ DOMAIN r.gone = 1 .. Len(r.gone)
    BY <1>6, LenProperties DEF Listed
  <2>2. /\ t \in Seq(Nat) /\ Len(t) = Len(r.gone) + 1
        /\ \A i \in 1 .. Len(r.gone) : t[i] = r.gone[i]
        /\ t[Len(r.gone) + 1] = c
        /\ DOMAIN t = 1 .. Len(r.gone) + 1
    BY <1>2, <2>1, AppendProperties, LenProperties
  <2> HIDE DEF t
  <2>3. c \notin ToSet(r.gone)
    <3>1. ASSUME NEW j \in 1 .. k PROVE q[j] # c
      <4>1. j \in 1 .. Len(q) /\ j # k + 1
        BY <1>1
      <4> QED
        BY <1>1, <4>1, ChainedFacts DEF c
    <3> QED
      BY <2>1, <3>1
  <2>4. \A i \in 1 .. Len(r.gone) : r.gone[i] # c
    BY <2>1, <2>3 DEF ToSet
  <2>5. ASSUME NEW i \in 1 .. Len(t), NEW j \in 1 .. Len(t), t[i] = t[j] PROVE i = j
    <3>1. /\ i \in 1 .. Len(r.gone) \/ i = Len(r.gone) + 1
          /\ j \in 1 .. Len(r.gone) \/ j = Len(r.gone) + 1
      <4>1. Len(r.gone) \in Nat /\ Len(t) = Len(r.gone) + 1
        BY <2>1, <2>2
      <4> QED
        BY <4>1
    <3>2. CASE i \in 1 .. Len(r.gone) /\ j \in 1 .. Len(r.gone)
      BY <2>1, <2>2, <2>5, <3>2
    <3>3. CASE i \in 1 .. Len(r.gone) /\ j = Len(r.gone) + 1
      BY <2>2, <2>4, <2>5, <3>3
    <3>4. CASE i = Len(r.gone) + 1 /\ j \in 1 .. Len(r.gone)
      BY <2>2, <2>4, <2>5, <3>4
    <3> QED
      BY <3>1, <3>2, <3>3, <3>4
  <2>6. ToSet(t) = ToSet(r.gone) \union {c}
    <3>1. /\ \A i \in 1 .. Len(r.gone) : i \in 1 .. Len(r.gone) + 1
          /\ \A i \in 1 .. Len(r.gone) + 1 : i \in 1 .. Len(r.gone) \/ i = Len(r.gone) + 1
          /\ Len(r.gone) + 1 \in 1 .. Len(r.gone) + 1
      BY <2>1
    <3>2. ASSUME NEW x PROVE x \in ToSet(t) <=> \E i \in 1 .. Len(r.gone) + 1 : x = t[i]
      BY <2>2 DEF ToSet
    <3>3. ASSUME NEW x
          PROVE x \in ToSet(r.gone) <=> \E i \in 1 .. Len(r.gone) : x = r.gone[i]
      BY <2>1 DEF ToSet
    <3>4. /\ \A i \in 1 .. Len(r.gone) : t[i] = r.gone[i]
          /\ t[Len(r.gone) + 1] = c
      BY <2>2
    <3> HIDE DEF c
    <3>5. ASSUME NEW x \in ToSet(t) PROVE x \in ToSet(r.gone) \union {c}
      BY <3>1, <3>2, <3>3, <3>4
    <3>6. ASSUME NEW x \in ToSet(r.gone) \union {c} PROVE x \in ToSet(t)
      BY <3>1, <3>2, <3>3, <3>4
    <3> QED
      BY <3>5, <3>6
  <2>7. Gone \cap (1 .. k + 1) = (Gone \cap (1 .. k)) \union {k + 1}
    OBVIOUS
  <2>8. ToSet(t) = {q[j] : j \in Gone \cap (1 .. k + 1)}
    BY <2>1, <2>6, <2>7 DEF c
  <2> QED
    BY <2>2, <2>5, <2>8 DEF Listed, t
<1>12. /\ s.prev = q[e] /\ s.iterator = Behind(q, k + 1)
       /\ s.heap = g /\ s.gone = Append(r.gone, c) /\ IsLoop(s)
  BY <1>5 DEF Fields, v
<1>13. e \in 1 .. k + 1
  OBVIOUS
<1> QED
  BY <1>9, <1>10, <1>11, <1>12, <1>13 DEF LoopInv, s

(* One iteration of the second loop, at position i. *)
LoopStep(r, i, marks) ==
  IF i \in marks THEN Unlink(r)
  ELSE [r EXCEPT !.prev = r.iterator, !.iterator = r.heap[@].next]

Runs(f, start, first, n, marks) ==
  f = [i \in first .. n |-> IF i = first THEN start ELSE LoopStep(f[i - 1], i, marks)]

LEMMA RunsExist ==
  ASSUME NEW start, NEW first \in Nat, NEW marks
  PROVE  \A d \in Nat : \E f : Runs(f, start, first, first + d, marks)
<1> DEFINE S == {d \in Nat : \E f : Runs(f, start, first, first + d, marks)}
<1>1. 0 \in S
  <2> DEFINE f == [i \in first .. first + 0 |-> start]
  <2>1. Runs(f, start, first, first + 0, marks)
    BY DEF Runs
  <2> QED
    BY <2>1
<1>2. ASSUME NEW d \in Nat, d \in S PROVE d + 1 \in S
  <2>1. PICK f : Runs(f, start, first, first + d, marks)
    BY <1>2
  <2> DEFINE n == first + (d + 1)
             v == LoopStep(f[n - 1], n, marks)
             g == [i \in first .. n |-> IF i = n THEN v ELSE f[i]]
  <2>2. /\ n \in Nat /\ first < n /\ n - 1 \in first .. n /\ n - 1 # n
        /\ \A i \in first .. n : i # n => i \in first .. first + d
        /\ \A i \in first .. n : i # first => i - 1 \in first .. n /\ i - 1 # n
    OBVIOUS
  <2>3. /\ f[first] = start
        /\ \A i \in first .. first + d : i # first => f[i] = LoopStep(f[i - 1], i, marks)
    BY <2>1 DEF Runs
  <2>4. \A i \in first .. n :
          g[i] = IF i = first THEN start ELSE LoopStep(g[i - 1], i, marks)
    <3> TAKE i \in first .. n
    <3> HIDE DEF n, v
    <3>1. CASE i = n
      <4>1. g[i] = v /\ i # first /\ g[i - 1] = f[n - 1]
        BY <2>2, <3>1
      <4> QED
        BY <3>1, <4>1 DEF v
    <3>2. CASE i # n
      <4>1. g[i] = f[i] /\ i \in first .. first + d
        BY <2>2, <3>2
      <4>2. i # first => g[i - 1] = f[i - 1]
        BY <2>2
      <4> HIDE DEF g
      <4> QED
        BY <2>3, <4>1, <4>2
    <3> QED
      BY <3>1, <3>2
  <2>5. g = [i \in first .. n |-> g[i]]
    OBVIOUS
  <2>6. Runs(g, start, first, n, marks)
    <3> HIDE DEF n, v, g
    <3> QED
      BY <2>4, <2>5 DEF Runs
  <2> QED
    BY <2>6
<1> HIDE DEF S
<1>3. \A d \in Nat : d \in S
  BY <1>1, <1>2, Counting
<1> QED
  BY <1>3 DEF S

(* The positions of marks count from 0, those of Gone from 1. *)
Marked(marks, Gone, N) ==
  \A i \in Nat : i < N => (i \in marks <=> i + 1 \in Gone)

LEMMA RunsKeep ==
  ASSUME NEW h, NEW q, Chained(h, q), NEW Gone, NEW marks, Marked(marks, Gone, Len(q)),
         NEW first \in Nat, NEW start, LoopInv(h, q, Gone, first + 1, start),
         NEW n \in Nat, first <= n, n < Len(q), NEW f, Runs(f, start, first, n, marks)
  PROVE  LoopInv(h, q, Gone, n + 1, f[n])
<1> DEFINE S == {d \in Nat : first + d <= n => LoopInv(h, q, Gone, first + d + 1, f[first + d])}
<1>1. /\ Len(q) \in Nat
      /\ f[first] = start
      /\ \A i \in first .. n : i # first => f[i] = LoopStep(f[i - 1], i, marks)
  <2>1. Len(q) \in Nat
    BY ChainedFacts
  <2>2. /\ f[first] = start
        /\ \A i \in first .. n : i # first => f[i] = LoopStep(f[i - 1], i, marks)
    BY DEF Runs
  <2> QED
    BY <2>1, <2>2
<1>2. 0 \in S
  <2>1. first + 0 = first
    OBVIOUS
  <2> QED
    BY <1>1, <2>1
<1>3. ASSUME NEW d \in Nat, d \in S PROVE d + 1 \in S
  <2> SUFFICES ASSUME first + (d + 1) <= n
               PROVE  LoopInv(h, q, Gone, first + (d + 1) + 1, f[first + (d + 1)])
    OBVIOUS
  <2> DEFINE k == first + d + 1
             r == f[first + d]
  <2>1. /\ k \in Nat /\ k < Len(q) /\ k \in first .. n /\ k # first
        /\ k - 1 = first + d /\ first + (d + 1) = k /\ first + d <= n
    BY <1>1
  <2>2. LoopInv(h, q, Gone, k, r)
    BY <1>3, <2>1
  <2>3. f[k] = LoopStep(r, k, marks)
    BY <1>1, <2>1
  <2> HIDE DEF k, r
  <2>4. CASE k \in marks
    <3>1. k + 1 \in Gone
      BY <2>1, <2>4 DEF Marked
    <3>2. LoopInv(h, q, Gone, k + 1, Unlink(r))
      BY <2>1, <2>2, <3>1, LoopUnlinks
    <3> QED
      BY <2>1, <2>3, <2>4, <3>2 DEF LoopStep
  <2>5. CASE k \notin marks
    <3>1. k + 1 \notin Gone
      BY <2>1, <2>5 DEF Marked
    <3>2. LoopInv(h, q, Gone, k + 1,
                  [r EXCEPT !.prev = r.iterator, !.iterator = r.heap[@].next])
      BY <2>1, <2>2, <3>1, LoopKeeps
    <3> QED
      BY <2>1, <2>3, <2>5, <3>2 DEF LoopStep
  <2> QED
    BY <2>4, <2>5
<1> HIDE DEF S
<1>4. \A d \in Nat : d \in S
  BY <1>2, <1>3, Counting
<1>5. n - first \in Nat /\ first + (n - first) = n /\ n <= n
  OBVIOUS
<1>6. n - first \in S
  BY <1>4, <1>5
<1> QED
  BY <1>5, <1>6 DEF S

(* Where the second loop starts: the nodes up to the first kept one. *)
LEMMA LoopStarts ==
  ASSUME NEW h, NEW q, Chained(h, q), NEW Gone, NEW first \in Nat, first < Len(q),
         first + 1 \notin Gone, \A j \in 1 .. first : j \in Gone,
         NEW r, r = [prev |-> q[first + 1], iterator |-> h[q[first + 1]].next,
                     heap |-> h, gone |-> [j \in 1 .. first |-> q[j]]]
  PROVE  LoopInv(h, q, Gone, first + 1, r)
<1> DEFINE k == first + 1
           s == [j \in 1 .. first |-> q[j]]
<1>1. Len(q) \in Nat /\ k \in 1 .. Len(q) /\ k \in 1 .. k /\ first < k
  BY ChainedFacts
<1>2. /\ \A i, j \in 1 .. Len(q) : q[i] = q[j] => i = j
      /\ \A i \in 1 .. Len(q) : /\ q[i] \in Nat \ {0} /\ q[i] \in DOMAIN h
                                /\ h[q[i]] \in Nodes
                                /\ h[q[i]].next = Behind(q, i)
  BY ChainedFacts
<1>3. Fields(r, q[k], Behind(q, k), h, s)
  <2>1. h[q[k]].next = Behind(q, k)
    BY <1>1, <1>2
  <2>2. r = [prev |-> q[k], iterator |-> Behind(q, k), heap |-> h, gone |-> s]
    BY <2>1
  <2>3. IsLoop(r)
    BY <2>2, Zenon DEF IsLoop
  <2> HIDE DEF k, s
  <2> QED
    BY <2>2, <2>3 DEF Fields
<1>4. Relinked(h, h, q)
  BY <1>2 DEF Relinked
<1>5. Joined(h, h, q, Gone, k, k)
  <2>1. ASSUME NEW j \in 1 .. k, NEW y \in 1 .. k, j < y, j \notin Gone
        PROVE  FALSE
    BY <1>1, <2>1
  <2>2. \A j \in 1 .. k : ~ (k < j)
    BY <1>1
  <2>3. h[q[k]].next = Behind(q, k)
    BY <1>1, <1>2
  <2> QED
    BY <1>1, <2>1, <2>2, <2>3 DEF Joined
<1>6. Listed(q, Gone, k, s)
  <2>1. \A j \in 1 .. first : j \in 1 .. Len(q) /\ q[j] \in Nat
    BY <1>1, <1>2
  <2>2. s \in Seq(Nat) /\ Len(s) = first /\ DOMAIN s = 1 .. first
    <3>1. s \in [1 .. first -> Nat]
      BY <2>1
    <3> HIDE DEF s
    <3> QED
      BY <3>1, IsASeq, LenProperties
  <2>3. \A i, j \in 1 .. Len(s) : s[i] = s[j] => i = j
    BY <1>2, <2>1, <2>2
  <2>4. Gone \cap (1 .. k) = 1 .. first
    BY <1>1
  <2>5. ToSet(s) = {q[j] : j \in 1 .. first}
    BY <2>2 DEF ToSet
  <2> HIDE DEF s
  <2> QED
    BY <2>2, <2>3, <2>4, <2>5 DEF Listed
<1> QED
  BY <1>1, <1>3, <1>4, <1>5, <1>6 DEF LoopInv, Fields

(* The nodes at the positions K of q. *)
At(q, K) == [i \in 1 .. Cardinality(K) |-> q[Nth(K, i)]]

(* They are the list that the second loop leaves, from first to q[e]. *)
Leaves(f, q, K, first, e) ==
  LET p == At(q, K) IN
  /\ Cardinality(K) \in Nat \ {0} /\ Len(p) = Cardinality(K)
  /\ Linked(f, p)
  /\ ToSet(p) = {q[j] : j \in K}
  /\ p[1] = q[first] /\ p[Len(p)] = q[e]
  /\ f[q[e]].next = NULL

LEMMA KeptList ==
  ASSUME NEW h, NEW q, Chained(h, q), NEW f, NEW Gone, NEW e,
         Joined(h, f, q, Gone, Len(q), e),
         NEW K, K = (1 .. Len(q)) \ Gone,
         NEW first \in K, \A j \in K : first <= j
  PROVE  Leaves(f, q, K, first, e)
<1> DEFINE N == Len(q)
           n == Cardinality(K)
           p == At(q, K)
<1>1. /\ N \in Nat
      /\ \A i, j \in 1 .. N : q[i] = q[j] => i = j
      /\ \A i \in 1 .. N : q[i] \in Nat \ {0}
  BY ChainedFacts
<1>2. /\ K \subseteq 1 .. N /\ K \subseteq Int
      /\ \A j \in 1 .. N : j \notin Gone <=> j \in K
  BY <1>1
<1>3. IsFiniteSet(K)
  <2>1. IsFiniteSet(1 .. N)
    BY <1>1, FS_Interval
  <2> HIDE DEF N
  <2> QED
    BY <1>2, <2>1, FS_Subset
<1>4. /\ n \in Nat
      /\ \A i \in 1 .. n : Nth(K, i) \in K
      /\ \A i, j \in 1 .. n : i < j => Nth(K, i) < Nth(K, j)
      /\ \A a \in K : \E i \in 1 .. n : a = Nth(K, i)
  <2>1. K \subseteq Int /\ IsFiniteSet(K)
    BY <1>2, <1>3
  <2> HIDE DEF N, p
  <2> QED
    BY <2>1, NthIs, ZenonT(40)
<1>5. n # 0
  <2>1. PICK i \in 1 .. n : first = Nth(K, i)
    BY <1>4
  <2> QED
    BY <1>4, <2>1
<1>6. e \in K /\ \A j \in K : j <= e
  <2>1. e \in 1 .. N /\ e \notin Gone /\ \A j \in 1 .. N : e < j => j \in Gone
    BY DEF Joined
  <2> QED
    BY <1>1, <1>2, <2>1
<1>7. f[q[e]].next = NULL
  BY <1>1 DEF Joined, Behind
<1>8. /\ p \in Seq(Nat \ {0}) /\ Len(p) = n /\ DOMAIN p = 1 .. n
      /\ \A i \in 1 .. n : p[i] = q[Nth(K, i)]
  <2>1. p \in [1 .. n -> Nat \ {0}]
    BY <1>1, <1>2, <1>4 DEF At
  <2>2. p \in Seq(Nat \ {0})
    <3> HIDE DEF p, n
    <3> QED
      BY <1>4, <2>1, IsASeq
  <2>3. Len(p) = n
    BY <1>4, <2>1, <2>2, LenProperties
  <2> QED
    BY <2>1, <2>2, <2>3 DEF At
<1> HIDE DEF p, n, N
<1>9. ASSUME NEW i \in 1 .. n, NEW j \in 1 .. n, p[i] = p[j] PROVE i = j
  <2>1. Nth(K, i) = Nth(K, j)
    <3>1. q[Nth(K, i)] = q[Nth(K, j)]
      BY <1>8, <1>9
    <3>2. Nth(K, i) \in 1 .. N /\ Nth(K, j) \in 1 .. N
      BY <1>2, <1>4
    <3> QED
      BY <1>1, <3>1, <3>2
  <2>2. ~ (i < j) /\ ~ (j < i)
    <3>1. Nth(K, i) \in Int /\ Nth(K, j) \in Int
      BY <1>2, <1>4
    <3>2. /\ i < j => Nth(K, i) < Nth(K, j)
          /\ j < i => Nth(K, j) < Nth(K, i)
      BY <1>4
    <3> QED
      BY <2>1, <3>1, <3>2
  <2> QED
    BY <1>4, <2>2
<1>10. ASSUME NEW i \in 1 .. n, i < n PROVE f[p[i]].next = p[i + 1]
  <2> DEFINE a == Nth(K, i)
             b == Nth(K, i + 1)
  <2>1. i + 1 \in 1 .. n /\ i < i + 1 /\ i \in Nat
    BY <1>4, <1>10
  <2>2. a \in K /\ b \in K /\ a < b
    BY <1>4, <2>1
  <2>3. ASSUME NEW z \in 1 .. N, a < z, z < b PROVE z \in Gone
    <3> SUFFICES ASSUME z \in K PROVE FALSE
      BY <1>2
    <3>1. PICK x \in 1 .. n : z = Nth(K, x)
      BY <1>4
    <3>2. ~ (x < i) /\ x # i
      <4>1. a \in Int /\ z \in Int
        BY <1>2, <2>2
      <4>2. x < i => Nth(K, x) < Nth(K, i)
        BY <1>4
      <4> HIDE DEF b
      <4> QED
        BY <2>3, <3>1, <4>1, <4>2
    <3>3. ~ (i + 1 < x) /\ x # i + 1
      <4>1. b \in Int /\ z \in Int
        BY <1>2, <2>2
      <4>2. i + 1 < x => Nth(K, i + 1) < Nth(K, x)
        BY <1>4, <2>1
      <4> HIDE DEF a
      <4> QED
        BY <2>3, <3>1, <4>1, <4>2
    <3> QED
      BY <2>1, <3>2, <3>3
  <2>4. a \in 1 .. N /\ b \in 1 .. N /\ a \notin Gone /\ b \notin Gone
    BY <1>2, <2>2
  <2>5. p[i] = q[a] /\ p[i + 1] = q[b]
    BY <1>8, <2>1
  <2> HIDE DEF a, b
  <2>6. f[q[a]].next = q[b]
    BY <2>2, <2>3, <2>4 DEF Joined, N
  <2> QED
    BY <2>5, <2>6
<1>11. Nth(K, n) = e
  <2>1. PICK i \in 1 .. n : e = Nth(K, i)
    BY <1>4, <1>6
  <2>2. CASE i = n
    BY <2>1, <2>2
  <2>3. CASE i # n
    <3>1. n \in 1 .. n /\ i < n
      BY <1>4, <1>5, <2>3
    <3>2. Nth(K, i) < Nth(K, n) /\ Nth(K, n) \in K
      BY <1>4, <3>1
    <3>3. Nth(K, n) <= e /\ Nth(K, n) \in Int /\ e \in Int
      BY <1>2, <1>6, <3>2
    <3> QED
      BY <2>1, <3>2, <3>3
  <2> QED
    BY <2>2, <2>3
<1>12. Nth(K, 1) = first
  <2>1. PICK i \in 1 .. n : first = Nth(K, i)
    BY <1>4
  <2>2. CASE i = 1
    BY <2>1, <2>2
  <2>3. CASE i # 1
    <3>1. 1 \in 1 .. n /\ 1 < i
      BY <1>4, <1>5, <2>3
    <3>2. Nth(K, 1) < Nth(K, i) /\ Nth(K, 1) \in K
      BY <1>4, <3>1
    <3>3. first <= Nth(K, 1) /\ Nth(K, 1) \in Int /\ first \in Int
      BY <1>2, <3>2
    <3> QED
      BY <2>1, <3>2, <3>3
  <2> QED
    BY <2>2, <2>3
<1>13. 1 \in 1 .. n /\ n \in 1 .. n
  BY <1>4, <1>5
<1>14. p[1] = q[first] /\ p[n] = q[e]
  BY <1>8, <1>11, <1>12, <1>13
<1>15. Linked(f, p)
  <2>1. ASSUME NEW i \in 1 .. n
        PROVE  f[p[i]].next = IF i < n THEN p[i + 1] ELSE NULL
    <3>1. CASE i < n
      BY <1>10, <3>1
    <3>2. CASE ~ (i < n)
      <4>1. i = n
        BY <1>4, <3>2
      <4> QED
        BY <1>7, <1>14, <3>2, <4>1
    <3> QED
      BY <3>1, <3>2
  <2> QED
    BY <1>8, <1>9, <2>1 DEF Linked
<1>16. ToSet(p) = {q[j] : j \in K}
  <2>1. ToSet(p) = {p[i] : i \in 1 .. n}
    BY <1>8 DEF ToSet
  <2>2. ASSUME NEW i \in 1 .. n PROVE p[i] \in {q[j] : j \in K}
    BY <1>4, <1>8
  <2>3. ASSUME NEW j \in K PROVE q[j] \in {p[i] : i \in 1 .. n}
    <3>1. PICK i \in 1 .. n : j = Nth(K, i)
      BY <1>4
    <3> QED
      BY <1>8, <3>1
  <2> QED
    BY <2>1, <2>2, <2>3
<1> QED
  BY <1>4, <1>5, <1>7, <1>8, <1>14, <1>15, <1>16 DEF Leaves, p, n

(* As many images as arguments. *)
LEMMA OneToOne ==
  ASSUME NEW S, IsFiniteSet(S), NEW T, NEW f \in [S -> T],
         \A x, y \in S : f[x] = f[y] => x = y,
         \A t \in T : \E x \in S : f[x] = t
  PROVE  IsFiniteSet(T) /\ Cardinality(T) = Cardinality(S)
<1>1. f \in Bijection(S, T)
  BY DEF Bijection, Injection, Surjection, IsInjective
<1>2. ExistsBijection(S, T)
  BY <1>1 DEF ExistsBijection
<1> QED
  BY <1>2, FS_Bijection

LEMMA UpTo ==
  ASSUME NEW n \in Nat
  PROVE  IsFiniteSet(1 .. n) /\ Cardinality(1 .. n) = n
<1>1. n \in Int /\ 1 \in Int
  OBVIOUS
<1>2. IsFiniteSet(1 .. n) /\ Cardinality(1 .. n) = IF 1 > n THEN 0 ELSE n - 1 + 1
  BY <1>1, FS_Interval
<1>3. Cardinality(1 .. n) = n
  BY <1>2
<1> QED
  BY <1>2, <1>3

LEMMA SizeOfSeq ==
  ASSUME NEW s \in Seq(Nat), \A i, j \in 1 .. Len(s) : s[i] = s[j] => i = j
  PROVE  IsFiniteSet(ToSet(s)) /\ Cardinality(ToSet(s)) = Len(s)
<1> DEFINE S == 1 .. Len(s)
           T == ToSet(s)
<1>1. Len(s) \in Nat /\ s \in [S -> Nat] /\ DOMAIN s = S
  BY LenProperties
<1>2. s \in [S -> T] /\ \A t \in T : \E x \in S : s[x] = t
  BY <1>1 DEF ToSet
<1>3. IsFiniteSet(S) /\ Cardinality(S) = Len(s)
  BY <1>1, UpTo
<1>4. \A i, j \in S : s[i] = s[j] => i = j
  OBVIOUS
<1> HIDE DEF S, T
<1>5. IsFiniteSet(T) /\ Cardinality(T) = Cardinality(S)
  BY <1>2, <1>3, <1>4, OneToOne
<1> QED
  BY <1>3, <1>5 DEF T

(* Min of the model, for numbers. *)
LEMMA MinIs ==
  ASSUME NEW S, S \subseteq Int, IsFiniteSet(S), S # {}
  PROVE  Min(S) \in S /\ \A y \in S : Min(S) <= y
<1>1. PICK a \in S : TRUE
  OBVIOUS
<1>2. /\ Cardinality(S) \in Nat
      /\ \A i \in 1 .. Cardinality(S) : Nth(S, i) \in S
      /\ \A i, j \in 1 .. Cardinality(S) : i < j => Nth(S, i) < Nth(S, j)
      /\ \A y \in S : \E i \in 1 .. Cardinality(S) : y = Nth(S, i)
  BY NthIs
<1>3. 1 \in 1 .. Cardinality(S)
  <2>1. PICK i \in 1 .. Cardinality(S) : a = Nth(S, i)
    BY <1>2
  <2> QED
    BY <1>2, <2>1
<1>4. ASSUME NEW y \in S PROVE Nth(S, 1) <= y
  <2>1. PICK i \in 1 .. Cardinality(S) : y = Nth(S, i)
    BY <1>2
  <2>2. i = 1 \/ 1 < i
    BY <1>2
  <2>3. Nth(S, 1) \in Int /\ y \in Int
    BY <1>2, <1>3
  <2>4. 1 < i => Nth(S, 1) < Nth(S, i)
    BY <1>2, <1>3
  <2> QED
    BY <2>1, <2>2, <2>3, <2>4
<1> QED
  BY <1>2, <1>3, <1>4 DEF Min

(* The walk from head to the first kept node. *)
Walked(f, h, a, first) ==
  f = [i \in 0 .. first |-> IF i = 0 THEN a ELSE h[f[i - 1]].next]

LEMMA WalkIs ==
  ASSUME NEW h, NEW q, Chained(h, q), NEW first \in Nat, first < Len(q)
  PROVE  /\ \E f : Walked(f, h, q[1], first)
         /\ \A f : Walked(f, h, q[1], first) => \A i \in 0 .. first : f[i] = q[i + 1]
<1> DEFINE g == [i \in 0 .. first |-> q[i + 1]]
<1>1. Len(q) \in Nat
  BY ChainedFacts
<1>2. ASSUME NEW i \in 0 .. first, i # 0 PROVE h[q[i]].next = q[i + 1]
  <2>1. i \in 1 .. Len(q) /\ i < Len(q)
    BY <1>1, <1>2
  <2>2. \A j \in 1 .. Len(q) : h[q[j]].next = Behind(q, j)
    BY DEF Chained, Linked, Behind
  <2>3. h[q[i]].next = Behind(q, i)
    BY <2>1, <2>2, Zenon
  <2> QED
    BY <2>1, <2>3 DEF Behind
<1>3. Walked(g, h, q[1], first)
  <2>1. \A i \in 0 .. first : g[i] = IF i = 0 THEN q[1] ELSE h[g[i - 1]].next
    <3> TAKE i \in 0 .. first
    <3>1. CASE i = 0
      BY <3>1
    <3>2. CASE i # 0
      <4>1. i - 1 \in 0 .. first /\ i - 1 + 1 = i
        BY <3>2
      <4>2. g[i] = q[i + 1] /\ g[i - 1] = q[i]
        BY <4>1
      <4> HIDE DEF g
      <4> QED
        BY <1>2, <3>2, <4>2
    <3> QED
      BY <3>1, <3>2
  <2>2. g = [i \in 0 .. first |-> g[i]]
    OBVIOUS
  <2> HIDE DEF g
  <2> QED
    BY <2>1, <2>2 DEF Walked
<1>4. ASSUME NEW f, Walked(f, h, q[1], first) PROVE \A i \in 0 .. first : f[i] = q[i + 1]
  <2> DEFINE S == {i \in Nat : i <= first => f[i] = q[i + 1]}
  <2>1. /\ f[0] = q[1]
        /\ \A i \in 0 .. first : i # 0 => f[i] = h[f[i - 1]].next
    BY <1>4 DEF Walked
  <2>2. 0 \in S
    BY <2>1
  <2>3. ASSUME NEW i \in Nat, i \in S PROVE i + 1 \in S
    <3> SUFFICES ASSUME i + 1 <= first PROVE f[i + 1] = q[(i + 1) + 1]
      OBVIOUS
    <3>1. i + 1 \in 0 .. first /\ i + 1 # 0 /\ (i + 1) - 1 = i /\ i <= first
      OBVIOUS
    <3>2. f[i] = q[i + 1]
      BY <2>3, <3>1
    <3>3. f[i + 1] = h[f[i]].next
      BY <2>1, <3>1
    <3> QED
      BY <1>2, <3>1, <3>2, <3>3
  <2> HIDE DEF S
  <2>4. \A i \in Nat : i \in S
    BY <2>2, <2>3, Counting
  <2> QED
    BY <2>4 DEF S
<1> QED
  BY <1>3, <1>4

(* What putHandleDropRandom leaves, with the positions K of q kept.        *)
RandomlyDropped(h, q, X, H, C, K, l) ==
  LET p == At(q, K) IN
  /\ \E B : Shrinks(h, q, X, H, C, B, l.heap, p, X, H, C)
  /\ l.size = Len(p) /\ Len(p) = Cardinality(K)
  /\ Ends(p, l.head, l.tail)
  /\ ToSet(l.dropped) = {ContentOf(h, q[j]) : j \in (1 .. Len(q)) \ K}

(* The state of the loops, with their positions, at the end. *)
LoopsEnd(h, q, Gone, K, end, first, e) ==
  /\ Leaves(end.heap, q, K, first, e)
  /\ end.prev = q[e]
  /\ Relinked(h, end.heap, q)
  /\ Listed(q, Gone, Len(q), end.gone)

(* Only the next of nodes in the list is another. *)
OnlyNext(h, f, q, X, H, C) ==
  /\ DOMAIN f = DOMAIN h
  /\ Keeps(h, f, ToSet(q) \union X, H, C)
  /\ \A x \in X : f[x] = h[x]

LEMMA RelinkedKeeps ==
  ASSUME NEW h, NEW q, NEW X, NEW H, NEW C, Rep(h, q, X, H, C), NEW f, Relinked(h, f, q)
  PROVE  OnlyNext(h, f, q, X, H, C)
<1> DEFINE N == ToSet(q) \union X
<1>1. /\ Owns(h, N, H, C) /\ ToSet(q) \cap X = {}
      /\ \A i \in 1 .. Len(q) : q[i] \in ToSet(q)
      /\ ToSet(q) = {q[i] : i \in 1 .. Len(q)}
  BY LinkedElements DEF Rep, ToSet
<1>2. Kinds(h, N, H, C) /\ Owned(h, N, H, C) \subseteq DOMAIN h
  BY <1>1, OwnersApart DEF Owns
<1>3. DOMAIN f = DOMAIN h
  BY DEF Relinked
<1>4. ASSUME NEW a \in DOMAIN h, a \notin ToSet(q) PROVE f[a] = h[a]
  BY <1>1, <1>4 DEF Relinked
<1>5. ASSUME NEW x \in X PROVE f[x] = h[x] /\ x \in DOMAIN h /\ h[x] \in Nodes
  <2>1. x \notin ToSet(q) /\ x \in N
    BY <1>1
  <2>2. x \in DOMAIN h /\ h[x] \in Nodes
    BY <1>2, <2>1 DEF Kinds, IsNode
  <2> QED
    BY <1>4, <2>1, <2>2
<1>6. ASSUME NEW n \in N PROVE IsNode(f, n) /\ f[n].message = h[n].message
  <2>1. n \in DOMAIN h
    BY <1>2 DEF Kinds, IsNode
  <2>2. CASE n \in X
    BY <1>3, <1>5, <2>2 DEF IsNode
  <2>3. CASE n \notin X
    <3>1. PICK j \in 1 .. Len(q) : n = q[j]
      BY <1>1, <2>3
    <3> QED
      BY <1>3, <2>1, <3>1 DEF Relinked, IsNode
  <2> QED
    BY <2>2, <2>3
<1>7. \A a \in Owned(h, N, H, C) \ N : a \in DOMAIN f /\ f[a] = h[a]
  BY <1>2, <1>3, <1>4
<1> QED
  BY <1>3, <1>5, <1>6, <1>7 DEF Keeps, OnlyNext

(* What putHandleDropRandom returns then. *)
LeftBy(h, q, end, first, l) ==
  /\ l.head = q[first] /\ l.tail = end.prev /\ l.size = Len(q) - Len(end.gone)
  /\ l.heap = Freed(end.heap, UNION {BlocksOf(h, g) : g \in ToSet(end.gone)})
  /\ l.dropped = [j \in DOMAIN end.gone |-> ContentOf(h, end.gone[j])]

LEMMA DropsRandomly ==
  ASSUME NEW h, NEW q, NEW X, NEW H, NEW C, Rep(h, q, X, H, C),
         NEW Gone, Gone \subseteq 1 .. Len(q), NEW K, K = (1 .. Len(q)) \ Gone,
         NEW end, NEW first, NEW e, LoopsEnd(h, q, Gone, K, end, first, e),
         NEW l, LeftBy(h, q, end, first, l)
  PROVE  RandomlyDropped(h, q, X, H, C, K, l) /\ Cardinality(Gone) = Len(end.gone)
<1> DEFINE p == At(q, K)
           f == end.heap
           B == UNION {BlocksOf(h, g) : g \in ToSet(end.gone)}
           N == Len(q)
<1>1. /\ N \in Nat /\ DOMAIN q = 1 .. N
      /\ \A i, j \in 1 .. N : q[i] = q[j] => i = j
      /\ ToSet(q) = {q[j] : j \in 1 .. N}
  BY LinkedElements DEF Rep, Linked, ToSet
<1>2. /\ Cardinality(K) \in Nat \ {0} /\ Len(p) = Cardinality(K)
      /\ Linked(f, p)
      /\ ToSet(p) = {q[j] : j \in K}
      /\ p[1] = q[first] /\ p[Len(p)] = q[e]
  BY DEF LoopsEnd, Leaves
<1>3. Relinked(h, f, q) /\ end.prev = q[e]
  BY DEF LoopsEnd
<1>4. /\ end.gone \in Seq(Nat)
      /\ \A i, j \in 1 .. Len(end.gone) : end.gone[i] = end.gone[j] => i = j
      /\ ToSet(end.gone) = {q[j] : j \in Gone}
  <2>1. Gone \cap (1 .. Len(q)) = Gone
    OBVIOUS
  <2> QED
    BY <2>1 DEF LoopsEnd, Listed
<1>5. ToSet(q) \ ToSet(p) = ToSet(end.gone) /\ ToSet(p) \subseteq ToSet(q)
  <2> HIDE DEF N, p
  <2>1. \A j \in 1 .. N : j \in K <=> j \notin Gone
    BY DEF N
  <2>2. K \subseteq 1 .. N /\ Gone \subseteq 1 .. N
    BY DEF N
  <2>3. ASSUME NEW j \in 1 .. N PROVE q[j] \in ToSet(p) <=> j \in K
    BY <1>1, <1>2, <2>2
  <2>4. ASSUME NEW j \in 1 .. N PROVE q[j] \in ToSet(end.gone) <=> j \in Gone
    BY <1>1, <1>4, <2>2
  <2>5. ToSet(p) \subseteq ToSet(q)
    BY <1>1, <1>2, <2>2
  <2>6. ToSet(end.gone) \subseteq ToSet(q)
    BY <1>1, <1>4, <2>2
  <2>7. \A a \in ToSet(q) : a \notin ToSet(p) <=> a \in ToSet(end.gone)
    BY <1>1, <2>1, <2>3, <2>4
  <2> QED
    BY <2>5, <2>6, <2>7
<1>6. B = NodeBlocks(h, ToSet(q) \ ToSet(p))
  <2> HIDE DEF p
  <2> QED
    BY <1>5 DEF NodeBlocks
<1>7. OnlyNext(h, f, q, X, H, C)
  <2> HIDE DEF f
  <2> QED
    BY <1>3, RelinkedKeeps
<1> HIDE DEF p, f, B, N
<1>8. Shrinks(h, q, X, H, C, B, Freed(f, B), p, X, H, C)
  BY <1>2, <1>5, <1>6, <1>7, RepDropped DEF OnlyNext
<1>9. Cardinality(Gone) = Len(end.gone)
  <2>1. IsFiniteSet(Gone)
    <3>1. IsFiniteSet(1 .. N)
      BY <1>1, UpTo
    <3> QED
      BY <3>1, FS_Subset DEF N
  <2>2. Cardinality(ToSet(end.gone)) = Len(end.gone)
    BY <1>4, SizeOfSeq
  <2> DEFINE T == ToSet(end.gone)
             o == [j \in Gone |-> q[j]]
  <2>3. o \in [Gone -> T] /\ \A t \in T : \E x \in Gone : o[x] = t
    BY <1>4
  <2>4. \A x, y \in Gone : o[x] = o[y] => x = y
    BY <1>1 DEF N
  <2> HIDE DEF T, o
  <2>5. Cardinality(T) = Cardinality(Gone)
    BY <2>1, <2>3, <2>4, OneToOne
  <2> QED
    BY <2>2, <2>5 DEF T
<1>10. Cardinality(K) = N - Cardinality(Gone)
  <2>1. /\ IsFiniteSet(1 .. N) /\ Cardinality(1 .. N) = N
    BY <1>1, UpTo
  <2>2. Gone \in SUBSET (1 .. N) /\ K \in SUBSET (1 .. N) /\ Gone \union K = 1 .. N /\ Gone \cap K = {}
    BY DEF N
  <2>3. /\ IsFiniteSet(Gone) /\ IsFiniteSet(K)
    BY <2>1, <2>2, FS_Subset
  <2>4. Cardinality(Gone \union K) = Cardinality(Gone) + Cardinality(K) - Cardinality(Gone \cap K)
    BY <2>3, FS_Union
  <2>5. Cardinality(Gone) \in Nat /\ Cardinality(K) \in Nat /\ Cardinality(Gone \cap K) = 0
    BY <2>2, <2>3, FS_CardinalityType, FS_EmptySet
  <2>6. Cardinality(Gone \union K) = N
    BY <2>1, <2>2
  <2> QED
    BY <1>1, <2>4, <2>5, <2>6
<1>11. l.size = Len(p)
  BY <1>2, <1>9, <1>10 DEF N, LeftBy
<1>12. Ends(p, l.head, l.tail)
  <2>1. p # <<>>
    BY <1>2
  <2> QED
    BY <1>2, <1>3, <2>1 DEF Ends, LeftBy
<1>13. ToSet(l.dropped) = {ContentOf(h, q[j]) : j \in (1 .. Len(q)) \ K}
  <2>1. (1 .. Len(q)) \ K = Gone
    OBVIOUS
  <2> DEFINE s == end.gone
             c(n) == ContentOf(h, n)
  <2>2. ToSet(s) = {s[i] : i \in DOMAIN s}
    BY DEF ToSet
  <2>3. ToSet(l.dropped) = {c(s[i]) : i \in DOMAIN s}
    BY DEF ToSet, LeftBy
  <2> DEFINE T == ToSet(s)
  <2>0. T = {q[j] : j \in Gone} /\ T = {s[i] : i \in DOMAIN s}
    BY <1>4, <2>2
  <2> HIDE DEF s, c, T
  <2>4. ASSUME NEW j \in Gone PROVE \E i \in DOMAIN s : s[i] = q[j]
    <3>1. q[j] \in {q[k] : k \in Gone}
      OBVIOUS
    <3>2. q[j] \in {s[i] : i \in DOMAIN s}
      BY <2>0, <3>1, Zenon
    <3> QED
      BY <3>2
  <2>5. ASSUME NEW i \in DOMAIN s PROVE \E j \in Gone : s[i] = q[j]
    <3>1. s[i] \in {s[k] : k \in DOMAIN s}
      OBVIOUS
    <3>2. s[i] \in {q[j] : j \in Gone}
      BY <2>0, <3>1, Zenon
    <3> QED
      BY <3>2
  <2>6. {c(s[i]) : i \in DOMAIN s} = {c(q[j]) : j \in Gone}
    BY <2>4, <2>5
  <2> QED
    BY <2>1, <2>3, <2>6 DEF c
<1>14. l.heap = Freed(f, B)
  BY DEF f, B, LeftBy
<1> QED
  BY <1>2, <1>8, <1>9, <1>11, <1>12, <1>13, <1>14 DEF RandomlyDropped, p

(* putHandleDropRandom on a full list, whichever positions are marked. *)
LEMMA RandomDropped ==
  ASSUME NEW h, NEW q, NEW X, NEW H, NEW C, Rep(h, q, X, H, C),
         capacity \in Nat \ {0}, Len(q) = capacity, size = capacity, Ends(q, head, tail),
         NEW marks \in getRandomIndexes(randomDropCount)
  PROVE  \E K \in SUBSET (1 .. capacity) :
           /\ Cardinality(K) = capacity - randomDropCount
           /\ RandomlyDropped(h, q, X, H, C, K, putHandleDropRandom(h, marks))
<1> DEFINE N == capacity
           S == (0 .. N - 1) \ marks
           first == Min(S)
           Gone == {j \in 1 .. N : j - 1 \in marks}
           K == (1 .. N) \ Gone
           node == CHOOSE f : Walked(f, h, head, first)
           start == [prev |-> node[first], iterator |-> h[node[first]].next, heap |-> h,
                     gone |-> [j \in 1 .. first |-> node[j - 1]]]
           loop == CHOOSE f : Runs(f, start, first, N - 1, marks)
           end == loop[N - 1]
           l == putHandleDropRandom(h, marks)
<1>1. l = [head |-> node[first],
           tail |-> TailAfter(end),
           size |-> size - Len(end.gone),
           heap |-> Freed(end.heap, UNION {BlocksOf(h, g) : g \in ToSet(end.gone)}),
           dropped |-> [j \in DOMAIN end.gone |-> ContentOf(h, end.gone[j])]]
  BY DEF putHandleDropRandom, Walked, Runs, LoopStep
<1>2. /\ Chained(h, q) /\ head = q[1]
      /\ N \in Nat \ {0}
  <2>1. Linked(h, q) /\ \A i \in 1 .. Len(q) : q[i] \in ToSet(q)
    BY LinkedElements DEF Rep
  <2>2. \A n \in ToSet(q) : n \in DOMAIN h /\ h[n] \in Nodes
    BY DEF Rep, Owns, Kinds, IsNode
  <2>3. q # <<>>
    <3>1. Len(<<>>) = 0
      BY EmptySeq
    <3> QED
      BY <3>1
  <2> QED
    BY <2>1, <2>2, <2>3 DEF Chained, Ends
<1>3. /\ marks \subseteq 0 .. N - 1 /\ Cardinality(marks) = randomDropCount
      /\ randomDropCount \in Nat /\ randomDropCount < N
  <2>1. marks \subseteq 0 .. N - 1 /\ Cardinality(marks) = randomDropCount
    BY DEF getRandomIndexes, kSubset
  <2>2. randomDropCount \in Nat /\ randomDropCount < N
    BY <1>2 DEF randomDropCount
  <2> QED
    BY <2>1, <2>2
<1> HIDE DEF l, end, loop, start, node, first
<1>4. S \subseteq Int /\ IsFiniteSet(S) /\ S # {}
  <2>1. N \in Int /\ 0 \in Int /\ N - 1 \in Int /\ S \subseteq Int
    BY <1>2
  <2>2. /\ IsFiniteSet(0 .. N - 1)
        /\ Cardinality(0 .. N - 1) = IF 0 > N - 1 THEN 0 ELSE N - 1 - 0 + 1
    BY <2>1, FS_Interval
  <2>3. Cardinality(0 .. N - 1) = N
    BY <1>2, <2>2
  <2>4. IsFiniteSet(S)
    BY <2>2, FS_Subset
  <2>5. ASSUME S = {} PROVE FALSE
    <3>1. marks = 0 .. N - 1
      BY <1>3, <2>5
    <3>2. Cardinality(marks) = N
      BY <2>3, <3>1
    <3> QED
      BY <1>2, <1>3, <3>2
  <2> QED
    BY <2>1, <2>4, <2>5
<1>5. first \in S /\ \A y \in S : first <= y
  BY <1>4, MinIs DEF first
<1>6. /\ first \in Nat /\ first < N /\ first < Len(q) /\ first <= N - 1
      /\ N - 1 \in Nat /\ N - 1 < Len(q) /\ (N - 1) + 1 = N
      /\ N - 1 - first \in Nat /\ first + (N - 1 - first) = N - 1
  BY <1>2, <1>5
<1>7. /\ Gone \subseteq 1 .. N /\ first + 1 \in K
      /\ \A j \in K : first + 1 <= j
      /\ \A j \in 1 .. first : j \in Gone
  <2>1. first + 1 \in 1 .. N /\ (first + 1) - 1 = first
    BY <1>6
  <2>2. ASSUME NEW j \in 1 .. N, j \notin Gone PROVE first + 1 <= j
    <3>1. j - 1 \in S /\ first <= j - 1
      BY <1>2, <1>5, <2>2
    <3> QED
      BY <1>6, <3>1
  <2>3. ASSUME NEW j \in 1 .. first PROVE j \in Gone
    <3>1. j \in 1 .. N /\ ~ (first + 1 <= j)
      BY <1>6
    <3> QED
      BY <2>2, <3>1
  <2>4. first + 1 \in K
    BY <1>5, <2>1
  <2> QED
    BY <2>2, <2>3, <2>4
<1>8. Marked(marks, Gone, Len(q))
  <2>1. ASSUME NEW i \in Nat, i < N PROVE i \in marks <=> i + 1 \in Gone
    <3>1. i + 1 \in 1 .. N /\ (i + 1) - 1 = i
      BY <1>2, <2>1
    <3> QED
      BY <3>1
  <2> QED
    BY <2>1 DEF Marked
<1>9. \A i \in 0 .. first : node[i] = q[i + 1]
  <2>1. Walked(node, h, q[1], first)
    <3>1. \E f : Walked(f, h, q[1], first)
      BY <1>2, <1>6, WalkIs
    <3> QED
      BY <1>2, <3>1 DEF node
  <2> QED
    BY <1>2, <1>6, <2>1, WalkIs
<1>10. start = [prev |-> q[first + 1], iterator |-> h[q[first + 1]].next, heap |-> h,
                gone |-> [j \in 1 .. first |-> q[j]]]
  <2>1. first \in 0 .. first /\ \A j \in 1 .. first : j - 1 \in 0 .. first /\ j - 1 + 1 = j
    BY <1>6
  <2>2. node[first] = q[first + 1] /\ \A j \in 1 .. first : node[j - 1] = q[j]
    BY <1>9, <2>1
  <2>3. [j \in 1 .. first |-> node[j - 1]] = [j \in 1 .. first |-> q[j]]
    BY <2>2
  <2> QED
    BY <2>2, <2>3 DEF start
<1> HIDE DEF S, K, Gone, N
<1>11. LoopInv(h, q, Gone, first + 1, start)
  <2>1. first + 1 \notin Gone
    BY <1>7 DEF K
  <2> QED
    BY <1>2, <1>6, <1>7, <1>10, <2>1, LoopStarts
<1>12. Runs(loop, start, first, N - 1, marks)
  <2>1. \A d \in Nat : \E f : Runs(f, start, first, first + d, marks)
    BY <1>6, RunsExist
  <2>2. \E f : Runs(f, start, first, N - 1, marks)
    BY <1>6, <2>1
  <2> QED
    BY <2>2 DEF loop
<1>13. LoopInv(h, q, Gone, N, end)
  <2>1. LoopInv(h, q, Gone, (N - 1) + 1, loop[N - 1])
    BY <1>2, <1>6, <1>8, <1>11, <1>12, RunsKeep
  <2> QED
    BY <1>6, <2>1 DEF end
<1>14. K = (1 .. Len(q)) \ Gone /\ Len(q) = N /\ Gone \subseteq 1 .. Len(q)
  BY <1>7 DEF K, N
<1>15. PICK e \in 1 .. N : end.prev = q[e] /\ Joined(h, end.heap, q, Gone, Len(q), e)
  BY <1>13, <1>14 DEF LoopInv
<1>16. Leaves(end.heap, q, K, first + 1, e)
  BY <1>2, <1>7, <1>14, <1>15, KeptList
<1>17. LoopsEnd(h, q, Gone, K, end, first + 1, e)
  BY <1>13, <1>14, <1>15, <1>16 DEF LoopsEnd, LoopInv
<1>18. TailAfter(end) = end.prev
  BY <1>15, <1>16 DEF TailAfter, Leaves
<1>19. LeftBy(h, q, end, first + 1, l)
  <2>1. node[first] = q[first + 1]
    BY <1>6, <1>9
  <2> QED
    BY <1>1, <1>14, <1>18, <2>1 DEF LeftBy, N
<1>20. RandomlyDropped(h, q, X, H, C, K, l) /\ Cardinality(Gone) = Len(end.gone)
  BY <1>14, <1>17, <1>19, DropsRandomly
<1>21. Cardinality(K) = N - randomDropCount
  <2> DEFINE o == [j \in Gone |-> j - 1]
  <2>1. IsFiniteSet(Gone)
    <3>1. IsFiniteSet(1 .. N)
      BY <1>2, UpTo
    <3> QED
      BY <1>7, <3>1, FS_Subset
  <2>2. \A j \in Gone : j \in Int /\ j - 1 \in marks
    BY DEF Gone
  <2>3. o \in [Gone -> marks] /\ \A x, y \in Gone : o[x] = o[y] => x = y
    BY <2>2
  <2>4. ASSUME NEW t \in marks PROVE \E x \in Gone : o[x] = t
    <3>1. t + 1 \in Gone /\ (t + 1) - 1 = t
      BY <1>2, <1>3 DEF Gone, N
    <3>2. o[t + 1] = t
      BY <3>1
    <3> QED
      BY <3>1, <3>2
  <2> HIDE DEF o
  <2>5. Cardinality(marks) = Cardinality(Gone)
    BY <2>1, <2>3, <2>4, OneToOne
  <2>6. Cardinality(K) = Len(At(q, K)) /\ l.size = Len(At(q, K))
    BY <1>20 DEF RandomlyDropped
  <2> QED
    BY <1>3, <1>14, <1>19, <1>20, <2>5, <2>6 DEF LeftBy
<1>22. K \in SUBSET (1 .. capacity)
  BY DEF K, N
<1> QED
  BY <1>20, <1>21, <1>22 DEF l, N

-----------------------------------------------------------------------------
(* MQPut.  The list p of a record l, and beside it the new node n that     *)
(* holds m and the message c of the caller.                                *)

IsList(l) ==
  \E hd, tl, s, f, d : l = [head |-> hd, tail |-> tl, size |-> s, heap |-> f, dropped |-> d]

NodeReady(h, n, c, m) ==
  /\ n \in Nat \ {0} /\ c \in Nat \ {0}
  /\ h[n].next = NULL /\ ContentOf(h, n) = m

ListReady(p, l, n, c, m) ==
  /\ IsList(l)
  /\ NodeReady(l.heap, n, c, m)
  /\ Rep(l.heap, p, {n}, Held, {c})
  /\ l.size = Len(p) /\ Ends(p, l.head, l.tail)
  /\ DOMAIN l.heap = BlocksFor(l.heap, p, {n}, Held, {c})

LEMMA ListIsRecord ==
  ASSUME NEW l, IsList(l), NEW g
  PROVE  LET k == [l EXCEPT !.heap = g]
         IN  k.heap = g /\ k.head = l.head /\ k.tail = l.tail /\ k.size = l.size
<1>1. PICK hd, tl, s, f, d :
        l = [head |-> hd, tail |-> tl, size |-> s, heap |-> f, dropped |-> d]
  BY DEF IsList
<1> QED
  BY <1>1

(* What the types say of a step that changes neither queue nor workers. *)
LEMMA TypesStay ==
  ASSUME TypeInv, UNCHANGED <<config, message>>, arrivals' \in Nat
  PROVE  TypeInv' /\ Held' = Held
BY DEF TypeInv, Held, config

LEMMA Inserts ==
  ASSUME NEW p, NEW l, NEW n, NEW c, NEW m, ListReady(p, l, n, c, m), NEW result,
         TypeInv', Held' = Held, PutInsert(l, n, c, result)
  PROVE  IInv' /\ Monitor!PutInsert(ContentsOf(l.heap, p), m, ToSet(l.dropped), result)
<1> DEFINE h == l.heap
           g == Freed(h, {c})
           f == IF p = <<>> THEN g ELSE [g EXCEPT ![p[Len(p)]].next = n]
           r == Append(p, n)
<1>1. /\ Rep(h, p, {n}, Held, {c})
      /\ n \in Nat \ {0} /\ h[n].next = NULL /\ ContentOf(h, n) = m
      /\ l.size = Len(p) /\ Ends(p, l.head, l.tail)
      /\ DOMAIN h = BlocksFor(h, p, {n}, Held, {c})
  BY DEF ListReady, NodeReady
<1>2. Linked(h, p) /\ p \in Seq(Nat \ {0}) /\ Len(p) \in Nat
  BY <1>1, LenProperties DEF Rep, Linked
<1>3. /\ size' = Len(p) + 1 /\ tail' = n
      /\ IF l.size = 0 THEN head' = n /\ heap' = g
         ELSE head' = l.head /\ heap' = [g EXCEPT ![l.tail].next = n]
      /\ Return(l, result)
  <2> DEFINE k == [l EXCEPT !.heap = g]
  <2>1. k.heap = g /\ k.head = l.head /\ k.tail = l.tail /\ k.size = l.size
    BY ListIsRecord DEF ListReady
  <2>2. Link(k, n)
    BY DEF PutInsert
  <2>3. Return(l, result)
    BY DEF PutInsert
  <2> HIDE DEF k, g
  <2> QED
    BY <1>1, <2>1, <2>2, <2>3 DEF Link
<1> HIDE DEF h, g
<1>4. Shrinks(h, p, {n}, Held, {c}, {c}, g, p, {n}, Held, {})
  BY <1>1, ConnectionFreed DEF g
<1>5. /\ Rep(g, p, {n}, Held, {}) /\ g[n].next = NULL
      /\ DOMAIN g = BlocksFor(g, p, {n}, Held, {})
      /\ SameContents(h, g, ToSet(p) \union {n})
  BY <1>1, <1>4 DEF Shrinks
<1>6. Lengthens(g, p, n, Held, {}, f)
  <2> HIDE DEF r
  <2> QED
    BY <1>1, <1>5, LinkedBehind
<1>7. heap' = f /\ head' = (IF p = <<>> THEN n ELSE p[1])
  <2>1. p = <<>> <=> Len(p) = 0
    BY <1>2, EmptySeq
  <2>2. p # <<>> => l.head = p[1] /\ l.tail = p[Len(p)]
    BY <1>1 DEF Ends
  <2> QED
    BY <1>1, <1>3, <2>1, <2>2
<1> HIDE DEF f
<1>8. /\ newNode' = NULL /\ connectionMessage' = NULL /\ putState' = "running"
      /\ droppedContents' = l.dropped /\ putRetCode' = result
      /\ SignalPut /\ UNCHANGED lockLeaked
  BY <1>3 DEF Return
<1>9. Waiting' = {} /\ Connection' = {}
  BY <1>8 DEF Waiting, Connection
<1>10. PutInv'
  BY <1>8 DEF PutInv, NULL
<1>11. /\ r # <<>> /\ Len(r) = Len(p) + 1 /\ r[1] = (IF p = <<>> THEN n ELSE p[1])
       /\ r[Len(r)] = n
  <2>1. /\ Len(r) = Len(p) + 1 /\ r[Len(p) + 1] = n
        /\ \A i \in 1 .. Len(p) : r[i] = p[i]
    BY <1>1, <1>2, AppendProperties
  <2>2. p # <<>> => 1 \in 1 .. Len(p)
    BY <1>2, EmptySeq
  <2>3. p = <<>> => Len(p) = 0
    BY EmptySeq
  <2>4. r # <<>>
    BY <1>2, <2>1, EmptySeq
  <2> HIDE DEF r
  <2> QED
    BY <2>1, <2>2, <2>3, <2>4
<1>12. Ends(r, head', tail')
  BY <1>3, <1>7, <1>11 DEF Ends
<1> HIDE DEF r
<1>13. Rep(f, r, {}, Held, {}) /\ DOMAIN f = BlocksFor(f, r, {}, Held, {})
  BY <1>5, <1>6 DEF Lengthens, r
<1>14. Then(r)
  BY <1>3, <1>7, <1>9, <1>11, <1>12, <1>13, SMTT(30) DEF Then
<1>15. IInv' /\ Contents' = ContentsOf(f, r)
  BY <1>7, <1>10, <1>14, After
<1>16. ContentsOf(f, r) = Append(ContentsOf(g, p), ContentOf(g, n))
  <2>1. SameContents(g, f, ToSet(p) \union {n})
    BY <1>6 DEF Lengthens
  <2> QED
    BY <1>1, <1>5, <2>1, ContentsAppended, ZenonT(40) DEF r
<1>17. ContentsOf(g, p) = ContentsOf(h, p) /\ ContentOf(g, n) = m
  <2>1. ContentOf(g, n) = m
    BY <1>1, <1>5 DEF SameContents
  <2>2. ContentsOf(g, p) = ContentsOf(h, p)
    BY <1>1, <1>5, SameContentsOf
  <2> QED
    BY <2>1, <2>2
<1>18. Contents' = Append(ContentsOf(h, p), m)
  BY <1>15, <1>16, <1>17
<1>19. Monitor!PutInsert(ContentsOf(h, p), m, ToSet(l.dropped), result)
  BY <1>8, <1>18 DEF Monitor!PutInsert, Monitor!SignalPut, SignalPut, Monitor!Blocked, Blocked
<1> QED
  BY <1>15, <1>19 DEF h

(* The same before the loop of MQPut: the heap h with what it allocated.   *)
PutReady(q, h, n, c, m) ==
  /\ NodeReady(h, n, c, m)
  /\ Rep(h, q, {n}, Held, {c})
  /\ size = Len(q) /\ Ends(q, head, tail)
  /\ DOMAIN h = BlocksFor(h, q, {n}, Held, {c})
  /\ Contents = ContentsOf(h, q)

(* What the list of records l holds, and what it has dropped. *)
Holds(l, p, kept, drops) == ContentsOf(l.heap, p) = kept /\ ToSet(l.dropped) = drops

LEMMA NothingIn == ToSet(<<>>) = {}
BY DEF ToSet

LEMMA OnlyIn ==
  ASSUME NEW a
  PROVE  ToSet(<<a>>) = {a}
BY DEF ToSet

LEMMA WholeReady ==
  ASSUME NEW q, NEW h, NEW n, NEW c, NEW m, PutReady(q, h, n, c, m)
  PROVE  ListReady(q, Whole(h), n, c, m) /\ Holds(Whole(h), q, Contents, {})
<1> DEFINE l == Whole(h)
<1>1. l = [head |-> head, tail |-> tail, size |-> size, heap |-> h, dropped |-> <<>>]
  BY DEF Whole
<1>2. l.head = head /\ l.tail = tail /\ l.size = size /\ l.heap = h /\ l.dropped = <<>>
  BY <1>1
<1>3. IsList(l)
  BY <1>1, Zenon DEF IsList
<1> HIDE DEF l
<1> QED
  BY <1>2, <1>3, NothingIn DEF PutReady, ListReady, Holds, l

LEMMA HeadReady ==
  ASSUME NEW q, NEW h, NEW n, NEW c, NEW m, PutReady(q, h, n, c, m), q # <<>>
  PROVE  /\ ListReady(Tail(q), putHandleDropHead(h), n, c, m)
         /\ Holds(putHandleDropHead(h), Tail(q), Tail(Contents), {Head(Contents)})
<1> DEFINE l == putHandleDropHead(h)
           g == Freed(h, BlocksOf(h, head))
           next == h[head].next
           last == IF size = 1 THEN next ELSE tail
           p == Tail(q)
<1>1. l = [head |-> next, tail |-> last, size |-> size - 1, heap |-> g,
           dropped |-> <<ContentOf(h, head)>>]
  BY DEF putHandleDropHead, DropBlocks
<1>2. /\ l.head = next /\ l.tail = last /\ l.size = size - 1 /\ l.heap = g
      /\ l.dropped = <<ContentOf(h, head)>>
  BY <1>1
<1>3. IsList(l)
  BY <1>1, Zenon DEF IsList
<1> HIDE DEF l
<1>4. /\ Rep(h, q, {n}, Held, {c}) /\ Linked(h, q) /\ head = q[1]
      /\ NodeReady(h, n, c, m) /\ DOMAIN h = BlocksFor(h, q, {n}, Held, {c})
      /\ size = Len(q) /\ Ends(q, q[1], tail)
  BY DEF PutReady, Rep, Ends
<1>5. Shrinks(h, q, {n}, Held, {c}, BlocksOf(h, q[1]), g, p, {n}, Held, {c})
  BY <1>4, HeadDropped
<1>6. Len(p) = size - 1 /\ Ends(p, next, last)
  <2>1. /\ Len(p) = Len(q) - 1
        /\ \A t : Ends(q, q[1], t) =>
             Ends(p, h[q[1]].next, IF Len(q) = 1 THEN h[q[1]].next ELSE t)
    BY <1>4, LinkedTail
  <2> HIDE DEF p
  <2> QED
    BY <1>4, <2>1
<1> HIDE DEF g, p
<1>7. /\ Rep(g, p, {n}, Held, {c}) /\ DOMAIN g = BlocksFor(g, p, {n}, Held, {c})
      /\ g[n] = h[n] /\ SameContents(h, g, ToSet(p) \union {n})
  BY <1>4, <1>5 DEF Shrinks
<1>8. NodeReady(g, n, c, m)
  BY <1>4, <1>7 DEF NodeReady, SameContents
<1>9. ListReady(p, l, n, c, m)
  BY <1>2, <1>3, <1>6, <1>7, <1>8 DEF ListReady
<1>10. /\ ContentsOf(g, p) = Tail(ContentsOf(h, q))
       /\ Head(ContentsOf(h, q)) = ContentOf(h, q[1])
  BY <1>4, <1>7, ContentsTail DEF p
<1>11. Holds(l, p, Tail(Contents), {Head(Contents)})
  BY <1>2, <1>4, <1>10, OnlyIn DEF Holds, PutReady
<1> QED
  BY <1>9, <1>11 DEF l, p

(* The survivors of a random drop. *)
Remaining(keep) == [i \in 1 .. capacity - randomDropCount |-> Contents[keep[i]]]
Discarded(keep) == {Contents[i] : i \in (1 .. capacity) \ {keep[j] : j \in DOMAIN keep}}

RandomlyReady(l, n, c, m) ==
  \E p : \E keep \in Monitor!Survivors :
    ListReady(p, l, n, c, m) /\ Holds(l, p, Remaining(keep), Discarded(keep))

LEMMA RandomReady ==
  ASSUME NEW q, NEW h, NEW n, NEW c, NEW m, PutReady(q, h, n, c, m),
         capacity \in Nat \ {0}, size = capacity,
         NEW marks \in getRandomIndexes(randomDropCount)
  PROVE  RandomlyReady(putHandleDropRandom(h, marks), n, c, m)
<1> DEFINE l == putHandleDropRandom(h, marks)
           z == capacity - randomDropCount
<1>1. /\ Rep(h, q, {n}, Held, {c}) /\ NodeReady(h, n, c, m)
      /\ DOMAIN h = BlocksFor(h, q, {n}, Held, {c})
      /\ Len(q) = capacity /\ Ends(q, head, tail) /\ Contents = ContentsOf(h, q)
  BY DEF PutReady
<1>2. IsList(l)
  BY Zenon DEF putHandleDropRandom, IsList
<1> HIDE DEF l
<1>3. PICK K \in SUBSET (1 .. capacity) :
        Cardinality(K) = z /\ RandomlyDropped(h, q, {n}, Held, {c}, K, l)
  BY <1>1, RandomDropped DEF l
<1> DEFINE p == At(q, K)
           keep == [i \in 1 .. z |-> Nth(K, i)]
<1>4. PICK B : Shrinks(h, q, {n}, Held, {c}, B, l.heap, p, {n}, Held, {c})
  BY <1>3 DEF RandomlyDropped
<1>5. /\ l.size = Len(p) /\ Len(p) = z /\ Ends(p, l.head, l.tail)
      /\ ToSet(l.dropped) = {ContentOf(h, q[j]) : j \in (1 .. Len(q)) \ K}
  BY <1>3 DEF RandomlyDropped
<1>6. /\ K \subseteq Int /\ IsFiniteSet(K) /\ K \subseteq 1 .. capacity
  <2>1. IsFiniteSet(1 .. capacity)
    BY UpTo
  <2>2. IsFiniteSet(K)
    BY <2>1, FS_Subset
  <2> QED
    BY <2>2
<1>7. /\ z \in Nat
      /\ \A i \in 1 .. z : Nth(K, i) \in K
      /\ \A i, j \in 1 .. z : i < j => Nth(K, i) < Nth(K, j)
      /\ \A a \in K : \E i \in 1 .. z : a = Nth(K, i)
  <2> HIDE DEF z
  <2> QED
    BY <1>3, <1>6, NthIs
<1> HIDE DEF z
<1>8. keep \in Monitor!Survivors
  <2>1. keep \in [1 .. z -> 1 .. capacity]
    BY <1>6, <1>7
  <2>2. \A i, j \in 1 .. z : i < j => keep[i] < keep[j]
    BY <1>7
  <2> HIDE DEF keep
  <2> QED
    BY <2>1, <2>2 DEF Monitor!Survivors, Monitor!randomDropCount, randomDropCount, z
<1>9. {keep[j] : j \in DOMAIN keep} = K
  BY <1>7
<1>10. \A i \in 1 .. z : p[i] = q[Nth(K, i)] /\ keep[i] = Nth(K, i)
  BY <1>3 DEF At
<1> HIDE DEF p, keep
<1>11. ListReady(p, l, n, c, m)
  <2>1. /\ Rep(l.heap, p, {n}, Held, {c})
        /\ DOMAIN l.heap = BlocksFor(l.heap, p, {n}, Held, {c})
        /\ l.heap[n] = h[n] /\ SameContents(h, l.heap, ToSet(p) \union {n})
    BY <1>1, <1>4 DEF Shrinks
  <2>2. NodeReady(l.heap, n, c, m)
    BY <1>1, <2>1 DEF NodeReady, SameContents
  <2> QED
    BY <1>2, <1>5, <2>1, <2>2 DEF ListReady
<1>12. \A j \in 1 .. capacity : Contents[j] = ContentOf(h, q[j])
  BY <1>1 DEF ContentsOf
<1>13. ContentsOf(l.heap, p) = [i \in 1 .. z |-> Contents[keep[i]]]
  <2>1. ASSUME NEW i \in 1 .. z PROVE ContentOf(l.heap, p[i]) = Contents[keep[i]]
    <3>1. p[i] \in ToSet(p)
      BY <1>5, <1>4, LinkedElements DEF Shrinks, Rep
    <3>2. ContentOf(l.heap, p[i]) = ContentOf(h, p[i])
      BY <1>4, <3>1 DEF Shrinks, SameContents
    <3>3. Nth(K, i) \in 1 .. capacity
      BY <1>6, <1>7
    <3> QED
      BY <1>10, <1>12, <3>2, <3>3
  <2> QED
    BY <1>5, <2>1 DEF ContentsOf
<1>14. ToSet(l.dropped) = {Contents[i] : i \in (1 .. capacity) \ {keep[j] : j \in DOMAIN keep}}
  BY <1>1, <1>5, <1>9, <1>12
<1>15. Holds(l, p, Remaining(keep), Discarded(keep))
  BY <1>13, <1>14, Zenon DEF Holds, Remaining, Discarded, z
<1> QED
  BY <1>8, <1>11, <1>15, Zenon DEF RandomlyReady, l

(* The put waits with what it has allocated. *)
LEMMA Waits ==
  ASSUME TypeInv', Held' = Held, NEW q, NEW h, NEW n, NEW c, NEW m,
         PutReady(q, h, n, c, m), arrivals' = m, putRetCode # "MQ_ERR_MEMORY_FAIL",
         putHandleBlock(h, n, c)
  PROVE  IInv' /\ Monitor!PutHandleBlock
<1>1. /\ NodeReady(h, n, c, m) /\ Rep(h, q, {n}, Held, {c})
      /\ DOMAIN h = BlocksFor(h, q, {n}, Held, {c})
      /\ size = Len(q) /\ Ends(q, head, tail) /\ Contents = ContentsOf(h, q)
  BY DEF PutReady
<1>2. /\ putState' = "blocked" /\ heap' = h /\ newNode' = n /\ connectionMessage' = c
      /\ droppedContents' = <<>>
      /\ UNCHANGED <<size, head, tail, lockLeaked, putRetCode, getState>>
  BY DEF putHandleBlock
<1>3. Waiting' = {n} /\ Connection' = {c}
  BY <1>1, <1>2 DEF Waiting, Connection, NodeReady, NULL
<1>4. PutInv'
  BY <1>1, <1>2 DEF PutInv, NodeReady, ContentOf, NULL
<1>5. Then(q)
  BY <1>1, <1>2, <1>3 DEF Then
<1>6. IInv' /\ Contents' = ContentsOf(h, q)
  BY <1>2, <1>4, <1>5, After
<1>7. Monitor!PutHandleBlock
  BY <1>1, <1>2, <1>6, NothingIn DEF Monitor!PutHandleBlock
<1> QED
  BY <1>6, <1>7

(* The list stays, and the put returns without its node. *)
LEMMA Refused ==
  ASSUME TypeInv', Held' = Held, NEW q, NEW h, NEW n, NEW c, NEW m,
         PutReady(q, h, n, c, m), putState = "running", putHandleDropTail(h, n, c)
  PROVE  IInv' /\ Monitor!PutHandleDropTail(m)
<1> DEFINE B == BlocksOf(h, n) \union {c}
           g == Freed(h, B)
           l == [dropped |-> <<ContentOf(h, n)>>]
<1>1. /\ NodeReady(h, n, c, m) /\ Rep(h, q, {n}, Held, {c})
      /\ DOMAIN h = BlocksFor(h, q, {n}, Held, {c})
      /\ size = Len(q) /\ Ends(q, head, tail) /\ Contents = ContentsOf(h, q)
  BY DEF PutReady
<1>2. heap' = g /\ Return(l, "MQ_DROP") /\ UNCHANGED <<size, head, tail>>
  BY DEF putHandleDropTail
<1>3. /\ newNode' = NULL /\ connectionMessage' = NULL /\ putState' = "running"
      /\ droppedContents' = <<m>> /\ putRetCode' = "MQ_DROP"
      /\ SignalPut /\ UNCHANGED lockLeaked
  BY <1>1, <1>2 DEF Return, NodeReady
<1>4. Shrinks(h, q, {n}, Held, {c}, B, g, q, {}, Held, {})
  BY <1>1, NewcomerDropped
<1> HIDE DEF B, g, l
<1>5. /\ Rep(g, q, {}, Held, {}) /\ DOMAIN g = BlocksFor(g, q, {}, Held, {})
      /\ SameContents(h, g, ToSet(q))
  BY <1>1, <1>4 DEF Shrinks
<1>6. Waiting' = {} /\ Connection' = {} /\ PutInv'
  BY <1>3 DEF Waiting, Connection, PutInv, NULL
<1>7. Then(q)
  BY <1>1, <1>2, <1>5, <1>6 DEF Then
<1>8. IInv' /\ Contents' = ContentsOf(g, q)
  BY <1>2, <1>6, <1>7, After
<1>9. ContentsOf(g, q) = ContentsOf(h, q)
  BY <1>1, <1>5, SameContentsOf
<1>10. Monitor!PutHandleDropTail(m)
  BY <1>1, <1>2, <1>3, <1>8, <1>9, OnlyIn
     DEF Monitor!PutHandleDropTail, Monitor!SignalPut, SignalPut, Monitor!Blocked, Blocked
<1> QED
  BY <1>8, <1>10

(* A call that fails leaves the list as it is, whatever it leaks. *)
LEMMA Fails ==
  ASSUME TypeInv', Held' = Held, NEW q, size = Len(q), Ends(q, head, tail),
         PutInv, putState = "running",
         Rep(heap', q, {}, Held, {}), Contents = ContentsOf(heap', q),
         putRetCode' = "MQ_ERR_MEMORY_FAIL",
         UNCHANGED <<size, head, tail, caller, putState>>
  PROVE  IInv' /\ UNCHANGED Contents
<1>1. newNode' = NULL /\ connectionMessage' = NULL /\ putState' = "running"
  BY DEF PutInv, caller
<1>2. Waiting' = {} /\ Connection' = {} /\ PutInv'
  BY <1>1 DEF Waiting, Connection, PutInv, NULL
<1>3. Then(q)
  BY <1>2 DEF Then, Sound
<1>4. IInv' /\ Contents' = ContentsOf(heap', q)
  BY <1>2, <1>3, After
<1> QED
  BY <1>4

LEMMA NoMarks ==
  ASSUME TypeInv', Held' = Held, NEW q, NEW h, NEW n, NEW c, NEW m,
         PutReady(q, h, n, c, m), PutInv, putState = "running", RandomIndexesFail(h, c)
  PROVE  IInv' /\ Monitor!PutHandleDropRandomFails
<1> DEFINE g == Freed(h, {c})
<1>1. /\ Rep(h, q, {n}, Held, {c})
      /\ size = Len(q) /\ Ends(q, head, tail) /\ Contents = ContentsOf(h, q)
  BY DEF PutReady
<1>2. Shrinks(h, q, {n}, Held, {c}, {c}, g, q, {n}, Held, {})
  BY <1>1, ConnectionFreed
<1>3. /\ heap' = g /\ MallocMayFail /\ lockLeaked' = TRUE
      /\ putRetCode' = "MQ_ERR_MEMORY_FAIL" /\ droppedContents' = <<>>
      /\ UNCHANGED <<size, head, tail, caller, putState, getState>>
  BY DEF RandomIndexesFail
<1> HIDE DEF g
<1>4. Rep(g, q, {n}, Held, {}) /\ SameContents(h, g, ToSet(q) \union {n})
  BY <1>2 DEF Shrinks
<1>5. Rep(g, q, {}, Held, {})
  BY <1>4, RepLess
<1>6. ContentsOf(g, q) = ContentsOf(h, q)
  BY <1>1, <1>4, SameContentsOf
<1>7. IInv' /\ UNCHANGED Contents
  BY <1>1, <1>3, <1>5, <1>6, Fails
<1>8. Monitor!PutHandleDropRandomFails
  BY <1>3, <1>7, NothingIn DEF Monitor!PutHandleDropRandomFails
<1> QED
  BY <1>7, <1>8

(* The loop of MQPut. *)
LEMMA PutSteps ==
  ASSUME TypeInv, TypeInv', Held' = Held, PutInv,
         NEW q, NEW h, NEW n, NEW c, NEW m,
         PutReady(q, h, n, c, m), arrivals' = m, putRetCode # "MQ_ERR_MEMORY_FAIL",
         schedPolicy = "BLOCK" \/ putState = "running",
         PutOrHandleFull(h, n, c)
  PROVE  IInv' /\ Monitor!PutOrHandleFull(m)
<1>1. size = Len(q) /\ Contents = ContentsOf(h, q) /\ Rep(h, q, {n}, Held, {c})
  BY DEF PutReady
<1>2. Len(Contents) = size
  BY <1>1, ContentsSeq
<1>3. capacity \in Nat \ {0}
  BY DEF TypeInv
<1>4. CASE size # capacity /\ PutInsert(Whole(h), n, c, "MQ_SUCCESS")
  <2>1. ListReady(q, Whole(h), n, c, m) /\ Holds(Whole(h), q, Contents, {})
    BY WholeReady
  <2>2. /\ IInv'
        /\ Monitor!PutInsert(ContentsOf(Whole(h).heap, q), m, ToSet(Whole(h).dropped),
                             "MQ_SUCCESS")
    BY <1>4, <2>1, Inserts
  <2>3. Monitor!PutInsert(Contents, m, {}, "MQ_SUCCESS")
    BY <2>1, <2>2, Zenon DEF Holds
  <2> QED
    BY <1>2, <1>4, <2>2, <2>3 DEF Monitor!PutOrHandleFull
<1>5. CASE size = capacity /\ schedPolicy = "BLOCK" /\ putHandleBlock(h, n, c)
  <2>1. IInv' /\ Monitor!PutHandleBlock
    BY <1>5, Waits
  <2> QED
    BY <1>2, <1>5, <2>1 DEF Monitor!PutOrHandleFull
<1>6. CASE size = capacity /\ schedPolicy = "DROP_TAIL" /\ putHandleDropTail(h, n, c)
  <2>1. putState = "running"
    BY <1>6
  <2>2. IInv' /\ Monitor!PutHandleDropTail(m)
    BY <1>6, <2>1, Refused
  <2> QED
    BY <1>2, <1>6, <2>2 DEF Monitor!PutOrHandleFull
<1>7. CASE /\ size = capacity /\ schedPolicy = "DROP_HEAD"
           /\ PutInsert(putHandleDropHead(h), n, c, "MQ_DROP")
  <2> DEFINE l == putHandleDropHead(h)
  <2>1. q # <<>>
    BY <1>1, <1>3, <1>7, EmptySeq
  <2>2. /\ ListReady(Tail(q), l, n, c, m)
        /\ Holds(l, Tail(q), Tail(Contents), {Head(Contents)})
    BY <2>1, HeadReady
  <2> HIDE DEF l
  <2>3. PutInsert(l, n, c, "MQ_DROP")
    BY <1>7 DEF l
  <2>4. IInv' /\ Monitor!PutInsert(ContentsOf(l.heap, Tail(q)), m, ToSet(l.dropped), "MQ_DROP")
    BY <2>2, <2>3, Inserts
  <2>5. Monitor!PutInsert(Tail(Contents), m, {Head(Contents)}, "MQ_DROP")
    BY <2>2, <2>4, Zenon DEF Holds
  <2>6. Monitor!PutHandleDropHead(m)
    BY <2>5, Zenon DEF Monitor!PutHandleDropHead
  <2> QED
    BY <1>2, <1>7, <2>4, <2>6 DEF Monitor!PutOrHandleFull
<1>8. CASE size = capacity /\ ShortRandom /\ putHandleBlock(h, n, c)
  <2>1. IInv' /\ Monitor!PutHandleBlock
    BY <1>8, Waits
  <2>2. Monitor!ShortRandom
    BY <1>8 DEF ShortRandom, Monitor!ShortRandom
  <2> QED
    BY <1>2, <1>8, <2>1, <2>2 DEF Monitor!PutOrHandleFull
<1>9. ASSUME schedPolicy = "DROP_RANDOM", ~ShortRandom, size = capacity,
             NEW marks \in getRandomIndexes(randomDropCount),
             PutInsert(putHandleDropRandom(h, marks), n, c, "MQ_DROP")
      PROVE  IInv' /\ Monitor!PutOrHandleFull(m)
  <2> DEFINE l == putHandleDropRandom(h, marks)
  <2>1. RandomlyReady(l, n, c, m)
    BY <1>3, <1>9, RandomReady
  <2> HIDE DEF l
  <2>2. PICK p : \E keep \in Monitor!Survivors :
          ListReady(p, l, n, c, m) /\ Holds(l, p, Remaining(keep), Discarded(keep))
    BY <2>1, Zenon DEF RandomlyReady
  <2>3. PICK keep \in Monitor!Survivors :
          ListReady(p, l, n, c, m) /\ Holds(l, p, Remaining(keep), Discarded(keep))
    BY <2>2, Zenon
  <2>4. PutInsert(l, n, c, "MQ_DROP")
    BY <1>9 DEF l
  <2>5. IInv' /\ Monitor!PutInsert(ContentsOf(l.heap, p), m, ToSet(l.dropped), "MQ_DROP")
    BY <2>3, <2>4, Inserts
  <2>6. Monitor!PutInsert(Remaining(keep), m, Discarded(keep), "MQ_DROP")
    BY <2>3, <2>5, Zenon DEF Holds
  <2>7. Monitor!PutHandleDropRandom(m)
    BY <2>3, <2>6
    DEF Monitor!PutHandleDropRandom, Monitor!randomDropCount, randomDropCount,
        Remaining, Discarded
  <2>8. ~Monitor!ShortRandom
    BY <1>9 DEF ShortRandom, Monitor!ShortRandom
  <2> QED
    BY <1>2, <1>9, <2>5, <2>7, <2>8 DEF Monitor!PutOrHandleFull
<1>10. CASE /\ size = capacity /\ schedPolicy = "DROP_RANDOM" /\ ~ShortRandom
            /\ RandomIndexesFail(h, c)
  <2>1. putState = "running"
    BY <1>10
  <2>2. IInv' /\ Monitor!PutHandleDropRandomFails
    BY <1>10, <2>1, NoMarks
  <2>3. ~Monitor!ShortRandom
    BY <1>10 DEF ShortRandom, Monitor!ShortRandom
  <2> QED
    BY <1>2, <1>10, <2>2, <2>3 DEF Monitor!PutOrHandleFull
<1> QED
  BY <1>4, <1>5, <1>6, <1>7, <1>8, <1>9, <1>10 DEF PutOrHandleFull

(* What MQPut and its caller allocate, for the message m. *)
Block(a, m, b) ==
  <<MetaData, Message(m, a[1]), Message(m, a[1]), Node(NULL, a[3])>>
    [CHOOSE i \in 1 .. 4 : a[i] = b]

LEMMA PutAllocates ==
  ASSUME IInv, NEW m \in Nat, NEW a, a = PutBlocks(m),
         NEW h, h = Malloc(heap, [b \in ToSet(a) |-> Block(a, m, b)])
  PROVE  /\ Fresh(heap, a[1], a[2], a[3], a[4])
         /\ Allocated(heap, h, m, a[1], a[2], a[3], a[4])
<1> DEFINE from == 1 + 4 * (m % (capacity + 1))
<1>1. IsFiniteSet(DOMAIN heap)
  BY DEF IInv, HeapOK
<1>2. from \in Nat \ {0} /\ 4 \in Nat
  <2>1. capacity + 1 \in Nat \ {0}
    BY DEF IInv, TypeInv
  <2>2. m % (capacity + 1) \in Nat
    BY <2>1
  <2> QED
    BY <2>2
<1>3. a = FreeBlocks(heap, from, 4)
  BY DEF PutBlocks
<1> HIDE DEF from
<1>4. /\ DOMAIN a = 1 .. 4
      /\ \A i \in 1 .. 4 : a[i] \in Nat \ {0} /\ a[i] \notin DOMAIN heap
      /\ \A i, j \in 1 .. 4 : i # j => a[i] # a[j]
  <2>1. AreFree(heap, 4, FreeBlocks(heap, from, 4))
    BY <1>1, <1>2, FreeBlocksAre
  <2> QED
    BY <1>3, <2>1 DEF AreFree
<1>5. 1 \in 1 .. 4 /\ 2 \in 1 .. 4 /\ 3 \in 1 .. 4 /\ 4 \in 1 .. 4
  OBVIOUS
<1>6. /\ a[1] # a[2] /\ a[1] # a[3] /\ a[1] # a[4]
      /\ a[2] # a[3] /\ a[2] # a[4] /\ a[3] # a[4]
  BY <1>4
<1>7. \A i \in {1, 2, 3, 4} : a[i] \in Nat \ {0} /\ a[i] \notin DOMAIN heap
  BY <1>4
<1>8. Fresh(heap, a[1], a[2], a[3], a[4])
  BY <1>6, <1>7 DEF Fresh
<1>9. ToSet(a) = {a[1], a[2], a[3], a[4]}
  <2>1. 1 .. 4 = {1, 2, 3, 4}
    OBVIOUS
  <2> QED
    BY <1>4, <2>1 DEF ToSet
<1>10. ASSUME NEW i \in 1 .. 4 PROVE (CHOOSE j \in 1 .. 4 : a[j] = a[i]) = i
  <2> DEFINE k == CHOOSE j \in 1 .. 4 : a[j] = a[i]
  <2>1. k \in 1 .. 4 /\ a[k] = a[i]
    OBVIOUS
  <2> HIDE DEF k
  <2>2. k = i
    BY <1>4, <2>1
  <2> QED
    BY <2>2 DEF k
<1>11. /\ Block(a, m, a[1]) = MetaData /\ Block(a, m, a[2]) = Message(m, a[1])
       /\ Block(a, m, a[3]) = Message(m, a[1]) /\ Block(a, m, a[4]) = Node(NULL, a[3])
  <2> DEFINE b == <<MetaData, Message(m, a[1]), Message(m, a[1]), Node(NULL, a[3])>>
  <2>1. \A i \in 1 .. 4 : Block(a, m, a[i]) = b[i]
    BY <1>10 DEF Block
  <2>2. /\ b[1] = MetaData /\ b[2] = Message(m, a[1])
        /\ b[3] = Message(m, a[1]) /\ b[4] = Node(NULL, a[3])
    OBVIOUS
  <2> HIDE DEF b
  <2> QED
    BY <1>5, <2>1, <2>2
<1>12. /\ DOMAIN h = DOMAIN heap \union ToSet(a)
       /\ \A b \in DOMAIN heap : b \notin ToSet(a) => h[b] = heap[b]
       /\ \A b \in ToSet(a) : h[b] = Block(a, m, b)
  BY DEF Malloc
<1>13. /\ \A b \in DOMAIN heap : b \notin ToSet(a)
       /\ a[1] \in ToSet(a) /\ a[2] \in ToSet(a) /\ a[3] \in ToSet(a) /\ a[4] \in ToSet(a)
  BY <1>7, <1>9
<1>14. Allocated(heap, h, m, a[1], a[2], a[3], a[4])
  BY <1>9, <1>11, <1>12, <1>13 DEF Allocated
<1> QED
  BY <1>8, <1>14

(* No put waits. *)
LEMMA NoneWaits ==
  ASSUME IInv, putState = "running"
  PROVE  Waiting = {} /\ Connection = {}
BY DEF IInv, PutInv, Waiting, Connection

(* Before the loop of a new call. *)
LEMMA PutPrepared ==
  ASSUME IInv, putState = "running", Sound, NEW q, q = Chain,
         NEW m \in Nat, NEW a1, NEW a2, NEW a3, NEW a4, Fresh(heap, a1, a2, a3, a4),
         NEW h, Allocated(heap, h, m, a1, a2, a3, a4)
  PROVE  /\ PutReady(q, h, a4, a2, m)
         /\ Rep(Freed(h, {a2, a3, a4}), q, {}, Held, {})
         /\ Contents = ContentsOf(Freed(h, {a2, a3, a4}), q)
<1> DEFINE B == {a2, a3, a4}
           g == Freed(h, B)
<1>1. /\ Rep(heap, q, {}, Held, {})
      /\ size = Len(q) /\ Ends(q, head, tail)
      /\ DOMAIN heap = BlocksFor(heap, q, {}, Held, {})
      /\ Contents = ContentsOf(heap, q)
  BY Now, NoneWaits
<1>2. Prepares(heap, q, Held, m, a1, a2, a3, a4, h)
  BY <1>1, RepAllocated
<1>3. ContentsOf(h, q) = ContentsOf(heap, q)
  BY <1>1, <1>2, SameContentsOf DEF Prepares
<1>4. DOMAIN h = DOMAIN heap \union {a1, a2, a3, a4}
  BY DEF Allocated
<1>5. PutReady(q, h, a4, a2, m)
  BY <1>1, <1>2, <1>3, <1>4 DEF Prepares, PutReady, NodeReady
<1>6. Rep(h, q, {}, Held, {})
  <2>1. Rep(h, q, {a4}, Held, {a2})
    BY <1>2 DEF Prepares
  <2> QED
    BY <2>1, RepLess
<1>7. Unowned(B, h, q, {}, Held, {})
  BY <1>2 DEF Prepares
<1> HIDE DEF B
<1>8. Shrinks(h, q, {}, Held, {}, B, g, q, {}, Held, {})
  BY <1>6, <1>7, RepFreed
<1> HIDE DEF g
<1>9. Rep(g, q, {}, Held, {}) /\ SameContents(h, g, ToSet(q))
  BY <1>8 DEF Shrinks
<1>10. ContentsOf(g, q) = ContentsOf(h, q)
  BY <1>6, <1>9, SameContentsOf
<1> QED
  BY <1>1, <1>3, <1>5, <1>9, <1>10 DEF g, B

(* A step of the node model is one of the monitor, or changes nothing there. *)
MonitorVars ==
  <<capacity, schedPolicy, Contents, lockLeaked, arrivals, putState, putRetCode,
    ToSet(droppedContents), getState, got>>

LEMMA PutStep ==
  ASSUME IInv, arrivals < MaxArrivals, MQPut(arrivals + 1)
  PROVE  IInv' /\ Monitor!MQPut(arrivals + 1)
<1> DEFINE m == arrivals + 1
           a == PutBlocks(m)
           h == Malloc(heap, [b \in ToSet(a) |-> Block(a, m, b)])
           q == Chain
<1>1. /\ TypeInv /\ PutInv /\ putState = "running" /\ Sound /\ m \in Nat
      /\ putRetCode # "MQ_ERR_MEMORY_FAIL" /\ ~lockLeaked
  BY DEF IInv, MQPut, Sound, TypeInv
<1>2. /\ arrivals' = m /\ UNCHANGED <<config, message, faulted, got>>
      /\ \/ PutOrHandleFull(h, a[4], a[2])
         \/ PutFails(Freed(h, {a[2], a[3], a[4]}))
         \/ PutFails(heap)
  BY DEF MQPut, Block
<1> HIDE DEF m, a, h, q
<1>3. TypeInv' /\ Held' = Held
  BY <1>1, <1>2, TypesStay
<1>4. /\ Fresh(heap, a[1], a[2], a[3], a[4])
      /\ Allocated(heap, h, m, a[1], a[2], a[3], a[4])
  BY <1>1, PutAllocates DEF a, h
<1>5. /\ PutReady(q, h, a[4], a[2], m)
      /\ Rep(Freed(h, {a[2], a[3], a[4]}), q, {}, Held, {})
      /\ Contents = ContentsOf(Freed(h, {a[2], a[3], a[4]}), q)
  BY <1>1, <1>4, PutPrepared DEF q
<1>6. CASE PutOrHandleFull(h, a[4], a[2])
  <2>1. IInv' /\ Monitor!PutOrHandleFull(m)
    BY <1>1, <1>2, <1>3, <1>5, <1>6, PutSteps
  <2> QED
    BY <1>1, <1>2, <2>1 DEF Monitor!MQPut, Monitor!config, config, m
<1>7. ASSUME NEW kept, PutFails(kept), Rep(kept, q, {}, Held, {}), Contents = ContentsOf(kept, q)
      PROVE  IInv' /\ Monitor!MQPut(arrivals + 1)
  <2>1. /\ MallocMayFail /\ putRetCode' = "MQ_ERR_MEMORY_FAIL" /\ droppedContents' = <<>>
        /\ heap' = kept
        /\ UNCHANGED <<size, head, tail, caller, lockLeaked, putState, getState>>
    BY <1>7 DEF PutFails
  <2>2. size = Len(q) /\ Ends(q, head, tail)
    BY <1>5 DEF PutReady
  <2>3. IInv' /\ UNCHANGED Contents
    BY <1>1, <1>3, <1>7, <2>1, <2>2, Fails
  <2>4. Monitor!PutFails
    BY <2>1, <2>3, NothingIn DEF Monitor!PutFails
  <2> QED
    BY <1>1, <1>2, <2>3, <2>4 DEF Monitor!MQPut, Monitor!config, config, m
<1>8. Rep(heap, q, {}, Held, {}) /\ Contents = ContentsOf(heap, q)
  BY <1>1, Now, NoneWaits DEF q
<1> QED
  BY <1>2, <1>5, <1>6, <1>7, <1>8

LEMMA ResumeStep ==
  ASSUME IInv, MQPutResume
  PROVE  IInv' /\ Monitor!MQPutResume
<1> DEFINE q == Chain
           n == newNode
           c == connectionMessage
<1>1. /\ TypeInv /\ PutInv /\ putState = "signalled" /\ Sound /\ ~lockLeaked
      /\ putRetCode # "MQ_ERR_MEMORY_FAIL"
  BY DEF IInv, MQPutResume, Sound, PutInv
<1>2. /\ UNCHANGED <<config, arrivals, message, faulted, got>>
      /\ \/ schedPolicy = "BLOCK" /\ PutOrHandleFull(heap, n, c)
         \/ ShortRandom /\ PutInsert(Whole(heap), n, c, "MQ_SUCCESS")
  BY DEF MQPutResume
<1> HIDE DEF q
<1>3. TypeInv' /\ Held' = Held
  BY <1>1, <1>2, TypesStay DEF TypeInv
<1>4. /\ NodeReady(heap, n, c, arrivals) /\ Waiting = {n} /\ Connection = {c}
  BY <1>1 DEF PutInv, NodeReady, NULL, Waiting, Connection
<1>5. PutReady(q, heap, n, c, arrivals)
  <2>1. /\ Rep(heap, q, Waiting, Held, Connection)
        /\ size = Len(q) /\ Ends(q, head, tail)
        /\ DOMAIN heap = BlocksFor(heap, q, Waiting, Held, Connection)
        /\ Contents = ContentsOf(heap, q)
    BY <1>1, Now DEF q
  <2> QED
    BY <1>4, <2>1 DEF PutReady
<1>6. CASE schedPolicy = "BLOCK" /\ PutOrHandleFull(heap, n, c)
  <2>1. IInv' /\ Monitor!PutOrHandleFull(arrivals)
    BY <1>1, <1>2, <1>3, <1>5, <1>6, PutSteps
  <2> QED
    BY <1>1, <1>2, <1>6, <2>1 DEF Monitor!MQPutResume, Monitor!config, config
<1>7. CASE ShortRandom /\ PutInsert(Whole(heap), n, c, "MQ_SUCCESS")
  <2> DEFINE l == Whole(heap)
  <2>1. ListReady(q, l, n, c, arrivals) /\ Holds(l, q, Contents, {})
    BY <1>5, WholeReady
  <2> HIDE DEF l
  <2>2. IInv' /\ Monitor!PutInsert(ContentsOf(l.heap, q), arrivals, ToSet(l.dropped),
                                   "MQ_SUCCESS")
    BY <1>3, <1>7, <2>1, Inserts DEF l
  <2>3. Monitor!PutInsert(Contents, arrivals, {}, "MQ_SUCCESS")
    BY <2>1, <2>2, Zenon DEF Holds
  <2>4. Monitor!ShortRandom
    BY <1>7 DEF ShortRandom, Monitor!ShortRandom
  <2> QED
    BY <1>1, <1>2, <2>2, <2>3, <2>4 DEF Monitor!MQPutResume, Monitor!config, config
<1> QED
  BY <1>2, <1>6, <1>7

-----------------------------------------------------------------------------
(* MQGet, and what workers and the system do besides.                      *)

(* pthread_cond_signal, or a spurious wakeup, for the put. *)
MayWake == putState' = putState \/ (putState = "blocked" /\ putState' = "signalled")

(* A put that waits keeps its node and its message. *)
LEMMA PutKept ==
  ASSUME PutInv, \A x \in Waiting : heap'[x] = heap[x], SameContents(heap, heap', Waiting),
         UNCHANGED <<caller, arrivals, putRetCode>>, MayWake
  PROVE  PutInv' /\ Waiting' = Waiting /\ Connection' = Connection
<1>1. /\ newNode' = newNode /\ connectionMessage' = connectionMessage
      /\ arrivals' = arrivals /\ putRetCode' = putRetCode
  BY DEF caller
<1>2. (putState' = "running") <=> (putState = "running")
  BY DEF MayWake
<1>3. ASSUME putState' # "running"
      PROVE  heap'[newNode'].next = NULL /\ ContentOf(heap', newNode') = arrivals'
  <2>1. newNode \in Waiting /\ heap[newNode].next = NULL /\ ContentOf(heap, newNode) = arrivals
    BY <1>2, <1>3 DEF PutInv, Waiting
  <2> QED
    BY <1>1, <2>1 DEF SameContents
<1>4. PutInv'
  BY <1>1, <1>2, <1>3 DEF PutInv
<1> QED
  BY <1>1, <1>4 DEF Waiting, Connection

(* The worker w has one message more, or one less. *)
LEMMA HeldMore ==
  ASSUME TypeInv, NEW w \in Workers, message[w] = NULL, NEW a \in Nat \ {0}, a \notin Held,
         message' = [message EXCEPT ![w] = a], UNCHANGED <<config, arrivals>>
  PROVE  TypeInv' /\ Held' = Held \union {a}
<1>1. message \in [Workers -> Nat]
  BY DEF TypeInv
<1>2. \A v \in Workers : message'[v] = IF v = w THEN a ELSE message[v]
  BY <1>1
<1>3. \A v \in Workers : v # w => message[v] # a
  BY DEF Held, NULL
<1>4. TypeInv'
  BY <1>1, <1>2, <1>3 DEF TypeInv, config
<1>5. ASSUME NEW x PROVE x \in Held' <=> x \in Held \union {a}
  BY <1>1, <1>2 DEF Held, NULL
<1> QED
  BY <1>4, <1>5

LEMMA HeldLess ==
  ASSUME TypeInv, NEW w \in Workers, message[w] # NULL,
         message' = [message EXCEPT ![w] = NULL], UNCHANGED <<config, arrivals>>
  PROVE  TypeInv' /\ Held' = Held \ {message[w]} /\ message[w] \in Held
<1>1. /\ message \in [Workers -> Nat]
      /\ \A v \in Workers : message[v] = message[w] => v = w
  BY DEF TypeInv
<1>2. \A v \in Workers : message'[v] = IF v = w THEN NULL ELSE message[v]
  BY <1>1
<1>3. TypeInv'
  BY <1>1, <1>2 DEF TypeInv, config, NULL
<1>4. ASSUME NEW x PROVE x \in Held' <=> x \in Held \ {message[w]}
  BY <1>1, <1>2 DEF Held, NULL
<1>5. message[w] \in Held
  BY DEF Held
<1> QED
  BY <1>3, <1>4, <1>5

LEMMA TakeStep ==
  ASSUME IInv, NEW w \in Workers, MQGet(w), GetTake(w)
  PROVE  IInv' /\ Monitor!MQGet(w)
<1> DEFINE q == Chain
           n == q[1]
           m == heap[n].message
           p == Tail(q)
<1>1. /\ TypeInv /\ PutInv /\ HeapOK(heap) /\ ~faulted /\ getState[w] # "blocked"
      /\ message[w] = NULL /\ ~lockLeaked
      /\ UNCHANGED <<config, caller, droppedContents, lockLeaked, arrivals, putRetCode>>
  BY DEF IInv, MQGet
<1>2. /\ size # 0 /\ size' = size - 1 /\ UpdateTail /\ SignalGet
      /\ getState' = [getState EXCEPT ![w] = "running"]
  BY DEF GetTake
<1> HIDE DEF q
<1>3. /\ Rep(heap, q, Waiting, Held, Connection)
      /\ size = Len(q) /\ Ends(q, head, tail)
      /\ Sound => DOMAIN heap = BlocksFor(heap, q, Waiting, Held, Connection)
      /\ Contents = ContentsOf(heap, q) /\ Linked(heap, q)
  BY Now DEF q
<1>4. q # <<>> /\ head = n
  <2>1. q # <<>>
    BY <1>2, <1>3, EmptySeq
  <2> QED
    BY <1>3, <2>1 DEF Ends
<1>5. /\ size' = Len(p) /\ Ends(p, heap[n].next, IF size = 1 THEN heap[n].next ELSE tail)
  <2>1. /\ Len(p) = Len(q) - 1
        /\ \A t : Ends(q, q[1], t) =>
             Ends(p, heap[q[1]].next, IF Len(q) = 1 THEN heap[q[1]].next ELSE t)
    BY <1>3, <1>4, LinkedTail
  <2> HIDE DEF p
  <2> QED
    BY <1>2, <1>3, <1>4, <2>1
<1>6. MayWake
  BY <1>2 DEF SignalGet, MayWake
<1>7. ASSUME NEW copy, TakeHead(w, copy)
      PROVE  /\ head' = heap[n].next
             /\ heap' = Freed(IF copy = NULL THEN heap ELSE With(heap, copy, heap[m]), {n, m})
             /\ message' = [message EXCEPT ![w] = copy]
             /\ got' = [got EXCEPT ![w] = ContentOf(heap, n)]
  BY <1>4, <1>7 DEF TakeHead, With, ContentOf
<1>8. ASSUME head' = heap[n].next PROVE Ends(p, head', tail')
  BY <1>2, <1>5, <1>8 DEF UpdateTail
<1> HIDE DEF p
<1>9. ASSUME Then(p), TypeInv', PutInv', got' = [got EXCEPT ![w] = ContentOf(heap, n)],
             SameContents(heap, heap', ToSet(p) \union Waiting)
      PROVE  IInv' /\ Monitor!MQGet(w)
  <2>1. IInv' /\ Contents' = ContentsOf(heap', p)
    BY <1>9, After
  <2>2. /\ ContentsOf(heap', p) = Tail(ContentsOf(heap, q))
        /\ Head(ContentsOf(heap, q)) = ContentOf(heap, n)
        /\ ContentsOf(heap, q) # <<>>
    BY <1>3, <1>4, <1>9, ContentsTail DEF p
  <2>3. Contents' = Tail(Contents) /\ Head(Contents) = ContentOf(heap, n) /\ Contents # <<>>
    BY <1>3, <2>1, <2>2
  <2>4. Monitor!GetTake(w)
    BY <1>2, <1>9, <2>3 DEF Monitor!GetTake, Monitor!SignalGet, SignalGet
  <2> QED
    BY <1>1, <2>1, <2>4 DEF Monitor!MQGet, Monitor!config, config
<1>10. CASE TakeHead(w, CopyBlock) /\ UNCHANGED faulted
  <2> DEFINE a == CopyBlock
             from == 4 * (capacity + 3)
  <2>1. a \in Nat \ {0} /\ a \notin DOMAIN heap
    <3>1. from \in Nat \ {0} /\ 1 \in Nat
      BY <1>1 DEF TypeInv
    <3> HIDE DEF from
    <3>2. AreFree(heap, 1, FreeBlocks(heap, from, 1))
      BY <1>1, <3>1, FreeBlocksAre DEF HeapOK
    <3>3. 1 \in 1 .. 1
      OBVIOUS
    <3> QED
      BY <3>2, <3>3 DEF AreFree, CopyBlock, from
  <2> HIDE DEF a
  <2>2. Takes(heap, q, Waiting, Held, Connection, a, Freed(With(heap, a, heap[m]), {n, m}))
    BY <1>3, <1>4, <2>1, HeadTaken
  <2>3. /\ head' = heap[n].next
        /\ heap' = Freed(With(heap, a, heap[m]), {n, m})
        /\ message' = [message EXCEPT ![w] = a]
        /\ got' = [got EXCEPT ![w] = ContentOf(heap, n)]
    BY <1>7, <1>10, <2>1 DEF a, NULL
  <2>4. Takes(heap, q, Waiting, Held, Connection, a, heap')
    BY <2>2, <2>3
  <2> HIDE DEF n, m
  <2>5. /\ Rep(heap', p, Waiting, Held \union {a}, Connection)
        /\ SameContents(heap, heap', ToSet(p) \union Waiting)
        /\ \A x \in Waiting : heap'[x] = heap[x]
        /\ a \notin Held
    BY <2>4 DEF Takes, p
  <2>6. TypeInv' /\ Held' = Held \union {a}
    BY <1>1, <2>1, <2>3, <2>5, HeldMore
  <2>7. PutInv' /\ Waiting' = Waiting /\ Connection' = Connection
    <3>1. SameContents(heap, heap', Waiting)
      BY <2>5 DEF SameContents
    <3> QED
      BY <1>1, <1>6, <2>5, <3>1, PutKept
  <2>8. Sound' => DOMAIN heap' = BlocksFor(heap', p, Waiting, Held \union {a}, Connection)
    <3>1. Sound' => Sound
      BY <1>1, <1>10 DEF Sound
    <3>2. /\ DOMAIN heap' = (DOMAIN heap \ {q[1], heap[q[1]].message}) \union {a}
          /\ BlocksFor(heap', p, Waiting, Held \union {a}, Connection)
             = (BlocksFor(heap, q, Waiting, Held, Connection) \ {q[1], heap[q[1]].message}) \union {a}
      BY <2>4 DEF Takes, p
    <3> QED
      BY <1>3, <3>1, <3>2
  <2>9. Then(p)
    BY <1>5, <1>8, <2>3, <2>5, <2>6, <2>7, <2>8 DEF Then
  <2> QED
    BY <1>9, <2>3, <2>5, <2>6, <2>7, <2>9
<1>11. CASE TakeHead(w, NULL) /\ faulted' = TRUE
  <2>1. /\ head' = heap[n].next
        /\ heap' = Freed(heap, {n, m})
        /\ message' = [message EXCEPT ![w] = NULL]
        /\ got' = [got EXCEPT ![w] = ContentOf(heap, n)]
    BY <1>7, <1>11
  <2>2. Loses(heap, q, Waiting, Held, Connection, heap')
    <3>1. Loses(heap, q, Waiting, Held, Connection, Freed(heap, {q[1], heap[q[1]].message}))
      BY <1>3, <1>4, HeadLost
    <3> QED
      BY <2>1, <3>1
  <2> HIDE DEF n, m
  <2>3. /\ Rep(heap', p, Waiting, Held, Connection)
        /\ SameContents(heap, heap', ToSet(p) \union Waiting)
        /\ \A x \in Waiting : heap'[x] = heap[x]
    BY <2>2 DEF Loses, p
  <2>4. TypeInv' /\ Held' = Held
    <3>1. message' = message
      BY <1>1, <2>1 DEF TypeInv
    <3>2. arrivals' \in Nat
      BY <1>1 DEF TypeInv
    <3> QED
      BY <1>1, <3>1, <3>2, TypesStay
  <2>5. PutInv' /\ Waiting' = Waiting /\ Connection' = Connection
    <3>1. SameContents(heap, heap', Waiting)
      BY <2>3 DEF SameContents
    <3> QED
      BY <1>1, <1>6, <2>3, <3>1, PutKept
  <2>6. ~Sound'
    BY <1>11 DEF Sound
  <2>7. Then(p)
    BY <1>5, <1>8, <2>1, <2>3, <2>4, <2>5, <2>6 DEF Then
  <2> QED
    BY <1>9, <2>1, <2>3, <2>4, <2>5, <2>7
<1> QED
  BY <1>10, <1>11 DEF GetTake

(* The list, the heap and the workers' messages are the same. *)
LEMMA NothingMoves ==
  ASSUME IInv, UNCHANGED <<config, list, caller, message, faulted, lockLeaked, arrivals,
                           putRetCode>>, MayWake
  PROVE  IInv' /\ UNCHANGED Contents
<1> DEFINE q == Chain
<1>1. TypeInv /\ PutInv
  BY DEF IInv
<1> HIDE DEF q
<1>2. /\ Rep(heap, q, Waiting, Held, Connection)
      /\ size = Len(q) /\ Ends(q, head, tail)
      /\ Sound => DOMAIN heap = BlocksFor(heap, q, Waiting, Held, Connection)
      /\ Contents = ContentsOf(heap, q)
  BY Now DEF q
<1>3. heap' = heap /\ size' = size /\ head' = head /\ tail' = tail
  BY DEF list
<1>4. PutInv' /\ Waiting' = Waiting /\ Connection' = Connection
  <2>1. SameContents(heap, heap', Waiting) /\ \A x \in Waiting : heap'[x] = heap[x]
    BY <1>3 DEF SameContents
  <2> QED
    BY <1>1, <2>1, PutKept
<1>5. TypeInv' /\ Held' = Held
  BY <1>1, TypesStay DEF TypeInv
<1>6. Sound' => Sound
  BY DEF Sound
<1>7. Then(q)
  BY <1>2, <1>3, <1>4, <1>5, <1>6 DEF Then
<1>8. IInv' /\ Contents' = ContentsOf(heap', q)
  BY <1>4, <1>5, <1>7, After
<1> QED
  BY <1>2, <1>3, <1>8

LEMMA GetStep ==
  ASSUME IInv, NEW w \in Workers, MQGet(w)
  PROVE  IInv' /\ Monitor!MQGet(w)
<1>1. CASE GetTake(w)
  BY <1>1, TakeStep
<1>2. CASE GetWait(w)
  <2>1. /\ size = 0 /\ getState' = [getState EXCEPT ![w] = "blocked"]
        /\ UNCHANGED <<list, message, faulted, putState, got>>
        /\ getState[w] # "blocked" /\ ~lockLeaked
        /\ UNCHANGED <<config, caller, droppedContents, lockLeaked, arrivals, putRetCode>>
    BY <1>2 DEF GetWait, MQGet
  <2>2. MayWake
    BY <2>1 DEF MayWake
  <2>3. IInv' /\ UNCHANGED Contents
    BY <2>1, <2>2, NothingMoves
  <2>4. Contents = <<>>
    <3> DEFINE q == Chain
    <3>1. Rep(heap, q, Waiting, Held, Connection) /\ size = Len(q) /\ Contents = ContentsOf(heap, q)
      BY Now
    <3>2. Contents \in Seq(Nat) /\ Len(Contents) = 0
      <4> HIDE DEF q
      <4> QED
        BY <2>1, <3>1, ContentsSeq
    <3> QED
      BY <3>2, EmptySeq
  <2>5. Monitor!GetWait(w)
    BY <2>1, <2>3, <2>4 DEF Monitor!GetWait
  <2> QED
    BY <2>1, <2>3, <2>5 DEF Monitor!MQGet, Monitor!config, config
<1> QED
  BY <1>1, <1>2 DEF MQGet

LEMMA FreeStep ==
  ASSUME IInv, NEW w \in Workers, WorkerFrees(w)
  PROVE  IInv' /\ UNCHANGED MonitorVars
<1> DEFINE q == Chain
           m == message[w]
           B == {m, heap[m].metaData}
<1>1. TypeInv /\ PutInv
  BY DEF IInv
<1>2. /\ message[w] # NULL /\ heap' = Freed(heap, B)
      /\ message' = [message EXCEPT ![w] = NULL]
      /\ UNCHANGED <<config, size, head, tail, caller, droppedContents, faulted,
                     lockLeaked, arrivals, putState, putRetCode, getState, got>>
  BY DEF WorkerFrees
<1> HIDE DEF q
<1>3. /\ Rep(heap, q, Waiting, Held, Connection)
      /\ size = Len(q) /\ Ends(q, head, tail)
      /\ Sound => DOMAIN heap = BlocksFor(heap, q, Waiting, Held, Connection)
      /\ Contents = ContentsOf(heap, q)
  BY Now DEF q
<1>4. TypeInv' /\ Held' = Held \ {m} /\ m \in Held
  BY <1>1, <1>2, HeldLess
<1> HIDE DEF m
<1>5. Shrinks(heap, q, Waiting, Held, Connection, B, Freed(heap, B), q, Waiting, Held \ {m},
              Connection)
  BY <1>3, <1>4, HeldFreed
<1>6. Shrinks(heap, q, Waiting, Held, Connection, B, heap', q, Waiting, Held \ {m}, Connection)
  BY <1>2, <1>5
<1> HIDE DEF B
<1>7. /\ Rep(heap', q, Waiting, Held \ {m}, Connection)
      /\ BlocksFor(heap', q, Waiting, Held \ {m}, Connection)
         = BlocksFor(heap, q, Waiting, Held, Connection) \ B
      /\ SameContents(heap, heap', ToSet(q) \union Waiting)
      /\ DOMAIN heap' = DOMAIN heap \ B
      /\ \A x \in Waiting : heap'[x] = heap[x]
  BY <1>6 DEF Shrinks
<1>8. PutInv' /\ Waiting' = Waiting /\ Connection' = Connection
  <2>1. SameContents(heap, heap', Waiting) /\ MayWake
    BY <1>2, <1>7 DEF SameContents, MayWake
  <2> QED
    BY <1>1, <1>2, <1>7, <2>1, PutKept
<1>9. Then(q)
  <2>1. Sound' => Sound
    BY <1>2 DEF Sound
  <2> QED
    BY <1>2, <1>3, <1>4, <1>7, <1>8, <2>1 DEF Then
<1>10. IInv' /\ Contents' = ContentsOf(heap', q)
  BY <1>4, <1>8, <1>9, After
<1>11. ContentsOf(heap', q) = ContentsOf(heap, q)
  BY <1>3, <1>7, SameContentsOf
<1> QED
  BY <1>2, <1>3, <1>10, <1>11 DEF MonitorVars, config

LEMMA SpuriousPutStep ==
  ASSUME IInv, SpuriousPutWakeup
  PROVE  IInv' /\ Monitor!SpuriousPutWakeup
<1>1. /\ schedPolicy \in SpuriousWakeups /\ putState = "blocked" /\ putState' = "signalled"
      /\ UNCHANGED <<config, list, caller, message, droppedContents, faulted,
                     lockLeaked, arrivals, putRetCode, getState, got>>
  BY DEF SpuriousPutWakeup
<1>2. IInv' /\ UNCHANGED Contents
  BY <1>1, NothingMoves DEF MayWake
<1>3. SpuriousWakeups # {}
  BY <1>1
<1> QED
  BY <1>1, <1>2, <1>3 DEF Monitor!SpuriousPutWakeup, Monitor!config, config

LEMMA SpuriousGetStep ==
  ASSUME IInv, NEW w \in Workers, SpuriousGetWakeup(w)
  PROVE  IInv' /\ Monitor!SpuriousGetWakeup(w)
<1>1. /\ schedPolicy \in SpuriousWakeups /\ getState[w] = "blocked"
      /\ getState' = [getState EXCEPT ![w] = "signalled"]
      /\ UNCHANGED <<config, list, caller, message, droppedContents, faulted,
                     lockLeaked, arrivals, putState, putRetCode, got>>
  BY DEF SpuriousGetWakeup
<1>2. IInv' /\ UNCHANGED Contents
  BY <1>1, NothingMoves DEF MayWake
<1>3. SpuriousWakeups # {}
  BY <1>1
<1> QED
  BY <1>1, <1>2, <1>3 DEF Monitor!SpuriousGetWakeup, Monitor!config, config

-----------------------------------------------------------------------------
(* The two facts of the invariant, and of the refinement.                  *)

LEMMA EmptyList ==
  ASSUME Init
  PROVE  ListIs(<<>>) /\ BlocksInv(<<>>) /\ HeapOK(heap) /\ TypeInv /\ PutInv
<1>1. /\ capacity \in Nat \ {0} /\ size = 0 /\ head = NULL /\ tail = NULL
      /\ heap = <<>> /\ newNode = NULL /\ connectionMessage = NULL
      /\ message = [w \in Workers |-> NULL] /\ arrivals = 0
      /\ putState = "running" /\ putRetCode = "MQ_SUCCESS"
  BY NodesAssumption DEF Init, MQCreate
<1>2. TypeInv
  BY <1>1 DEF TypeInv, NULL
<1>3. PutInv
  BY <1>1 DEF PutInv, NULL
<1>4. DOMAIN heap = {} /\ HeapOK(heap)
  <2>1. DOMAIN heap = {}
    BY <1>1
  <2> QED
    BY <2>1, FS_EmptySet DEF HeapOK
<1>5. <<>> \in Seq(Nat \ {0}) /\ Len(<<>>) = 0 /\ ToSet(<<>>) = {}
  BY EmptySeq, NothingIn
<1>6. ListIs(<<>>)
  BY <1>1, <1>5 DEF ListIs, Linked, Ends
<1>7. Waiting = {} /\ Connection = {} /\ Held = {}
  BY <1>1 DEF Waiting, Connection, Held, NULL
<1>8. Paired(heap, {}, {}) = {} /\ Owned(heap, {}, {}, {}) = {}
  BY DEF Paired, MessagesOf, Owned, MetaDataOf
<1>9. Owns(heap, {}, {}, {})
  BY <1>8 DEF Owns, Kinds, OneOwner
<1>10. BlocksInv(<<>>)
  BY <1>4, <1>5, <1>7, <1>8, <1>9 DEF BlocksInv
<1> QED
  BY <1>2, <1>3, <1>4, <1>6, <1>10

LEMMA InitInv == Init => IInv /\ Monitor!Init
<1> SUFFICES ASSUME Init PROVE IInv /\ Monitor!Init
  OBVIOUS
<1>1. ListIs(<<>>) /\ BlocksInv(<<>>) /\ HeapOK(heap) /\ TypeInv /\ PutInv
  BY EmptyList
<1>2. Chain = <<>>
  BY <1>1, ChainIs
<1>3. IInv
  BY <1>1, <1>2 DEF IInv
<1>4. Contents = <<>>
  BY <1>2 DEF Contents
<1>5. ToSet(droppedContents) = {}
  BY NothingIn DEF Init
<1>6. Monitor!Init
  BY <1>4, <1>5 DEF Init, MQCreate, Monitor!Init, Monitor!MQCreate
<1> QED
  BY <1>3, <1>6

LEMMA NextInv ==
  IInv /\ [Next]_vars => IInv' /\ [Monitor!Next]_(Monitor!vars)
<1> SUFFICES ASSUME IInv, [Next]_vars PROVE IInv' /\ [Monitor!Next]_(Monitor!vars)
  OBVIOUS
<1>1. ASSUME arrivals < MaxArrivals, MQPut(arrivals + 1)
      PROVE  IInv' /\ [Monitor!Next]_(Monitor!vars)
  BY <1>1, PutStep DEF Monitor!Next
<1>2. CASE MQPutResume
  BY <1>2, ResumeStep DEF Monitor!Next
<1>3. CASE SpuriousPutWakeup
  BY <1>3, SpuriousPutStep DEF Monitor!Next
<1>4. ASSUME NEW w \in Workers, MQGet(w)
      PROVE  IInv' /\ [Monitor!Next]_(Monitor!vars)
  BY <1>4, GetStep DEF Monitor!Next
<1>5. ASSUME NEW w \in Workers, WorkerFrees(w)
      PROVE  IInv' /\ [Monitor!Next]_(Monitor!vars)
  <2>1. IInv' /\ UNCHANGED MonitorVars
    BY <1>5, FreeStep
  <2>2. UNCHANGED Monitor!vars
    BY <2>1 DEF MonitorVars, Monitor!vars, Monitor!config
  <2> QED
    BY <2>1, <2>2
<1>6. ASSUME NEW w \in Workers, SpuriousGetWakeup(w)
      PROVE  IInv' /\ [Monitor!Next]_(Monitor!vars)
  BY <1>6, SpuriousGetStep DEF Monitor!Next
<1>7. CASE UNCHANGED vars
  <2>1. /\ UNCHANGED <<config, list, caller, message, faulted, lockLeaked, arrivals, putRetCode>>
        /\ MayWake
        /\ UNCHANGED <<droppedContents, putState, getState, got>>
    BY <1>7 DEF vars, MayWake
  <2>2. IInv' /\ UNCHANGED Contents
    BY <2>1, NothingMoves
  <2>3. UNCHANGED Monitor!vars
    BY <2>1, <2>2 DEF Monitor!vars, Monitor!config, config
  <2> QED
    BY <2>2, <2>3
<1> QED
  BY <1>1, <1>2, <1>3, <1>4, <1>5, <1>6, <1>7 DEF Next

LEMMA Invariance == Spec => []IInv
<1>1. Init => IInv
  BY InitInv
<1>2. IInv /\ [Next]_vars => IInv'
  BY NextInv
<1> QED
  BY <1>1, <1>2, PTL DEF Spec

-----------------------------------------------------------------------------
(* Nodes, copies, head, tail and size do what the sequence of messages of  *)
(* MessageQueue does: every MQPut and MQGet on the list has the result and *)
(* the contents that the monitor gives it, for any capacity, any policy,   *)
(* any positions a random drop marks and whichever mallocs fail.           *)
THEOREM NodesImplementMonitor == Spec => ImplementsMonitor
<1>1. Init => Monitor!Init
  BY InitInv
<1>2. IInv /\ [Next]_vars => [Monitor!Next]_(Monitor!vars)
  BY NextInv
<1> QED
  BY <1>1, <1>2, Invariance, PTL DEF Spec, ImplementsMonitor, Monitor!Spec


(* The list is what head, tail and size say of it after every put, get and *)
(* drop: size different nodes in the heap, from head to tail, NULL behind. *)
THEOREM ListStaysWellFormed == Spec => []ListWellFormed
<1>1. ASSUME IInv PROVE ListWellFormed
  <2> DEFINE q == Chain
  <2> HIDE DEF q
  <2>1. /\ Linked(heap, q) /\ Rep(heap, q, Waiting, Held, Connection)
        /\ size = Len(q) /\ Ends(q, head, tail) /\ Len(q) \in Nat
        /\ q \in Seq(Nat \ {0})
    BY <1>1, Now DEF q
  <2>2. size = 0 => head = NULL /\ tail = NULL
    BY <2>1, EmptySeq DEF Ends
  <2>3. ASSUME size > 0
        PROVE  /\ Cardinality(ToSet(q)) = size
               /\ ToSet(q) \subseteq DOMAIN heap
               /\ Last(q) = tail
               /\ heap[tail].next = NULL
    <3>1. q # <<>> /\ Len(q) \in 1 .. Len(q)
      BY <2>1, <2>3, EmptySeq
    <3>2. Cardinality(ToSet(q)) = size
      <4>1. q \in Seq(Nat)
        BY <2>1, LinkedElements
      <4>2. \A i, j \in 1 .. Len(q) : q[i] = q[j] => i = j
        BY <2>1 DEF Linked
      <4> QED
        BY <2>1, <4>1, <4>2, SizeOfSeq
    <3>3. ToSet(q) \subseteq DOMAIN heap
      BY <2>1 DEF Rep, Owns, Kinds, IsNode
    <3>4. Last(q) = tail
      BY <2>1, <3>1 DEF Ends, Last
    <3>5. heap[q[Len(q)]].next = NULL
      BY <2>1, <3>1 DEF Linked
    <3> QED
      BY <2>1, <3>1, <3>2, <3>3, <3>4, <3>5 DEF Ends
  <2> QED
    BY <2>2, <2>3 DEF ListWellFormed, q
<1> QED
  BY <1>1, Invariance, PTL

-----------------------------------------------------------------------------
(* MQFree: after i rounds the iterator is behind the first i nodes, and    *)
(* their blocks have gone.                                                 *)

FirstNodes(q, i) == {q[j] : j \in {k \in 1 .. Len(q) : k <= i}}

LeftAfter(h, q, i) ==
  IF i = 0 \/ q = <<>> THEN h ELSE Freed(h, NodeBlocks(h, FirstNodes(q, i)))

AfterRounds(h, q, i) == [iterator |-> Behind(q, i), heap |-> LeftAfter(h, q, i)]

Round(h, l) ==
  IF AtEnd(l.iterator) THEN l
  ELSE [iterator |-> h[l.iterator].next, heap |-> Freed(l.heap, BlocksOf(h, l.iterator))]

LEMMA FreedTwice ==
  ASSUME NEW h, NEW A, NEW B
  PROVE  Freed(Freed(h, A), B) = Freed(h, A \union B)
<1> DEFINE g == Freed(h, A)
<1>1. g = [a \in DOMAIN h \ A |-> h[a]]
  BY DEF Freed, Restrict
<1>2. DOMAIN g = DOMAIN h \ A /\ \A a \in DOMAIN h \ A : g[a] = h[a]
  BY <1>1
<1> HIDE DEF g
<1>3. Freed(g, B) = [a \in DOMAIN g \ B |-> g[a]]
  BY DEF Freed, Restrict
<1>4. DOMAIN g \ B = DOMAIN h \ (A \union B)
  BY <1>2
<1>5. Freed(g, B) = [a \in DOMAIN h \ (A \union B) |-> h[a]]
  BY <1>2, <1>3, <1>4
<1> QED
  BY <1>5 DEF Freed, Restrict, g

LEMMA RoundIs ==
  ASSUME NEW h, NEW q, Chained(h, q), NEW i \in Nat
  PROVE  AfterRounds(h, q, i + 1) = Round(h, AfterRounds(h, q, i))
<1> DEFINE l == AfterRounds(h, q, i)
<1>1. l.iterator = Behind(q, i) /\ l.heap = LeftAfter(h, q, i)
  BY DEF AfterRounds
<1>2. Len(q) \in Nat /\ q \in Seq(Nat \ {0})
  BY ChainedFacts DEF Chained, Linked
<1>3. CASE i < Len(q)
  <2>1. i + 1 \in 1 .. Len(q) /\ q # <<>>
    BY <1>2, <1>3, EmptySeq
  <2>2. Behind(q, i) = q[i + 1] /\ q[i + 1] # NULL
    BY <1>2, <1>3, <2>1 DEF Behind, NULL
  <2>3. h[q[i + 1]].next = Behind(q, i + 1)
    BY <2>1 DEF Chained, Linked, Behind
  <2>4. Freed(LeftAfter(h, q, i), BlocksOf(h, q[i + 1])) = LeftAfter(h, q, i + 1)
    <3>1. LeftAfter(h, q, i + 1) = Freed(h, NodeBlocks(h, FirstNodes(q, i + 1)))
      BY <2>1 DEF LeftAfter
    <3>2. FirstNodes(q, i + 1) = FirstNodes(q, i) \union {q[i + 1]}
      <4>1. {k \in 1 .. Len(q) : k <= i + 1} = {k \in 1 .. Len(q) : k <= i} \union {i + 1}
        BY <1>2, <2>1
      <4> QED
        BY <4>1, Zenon DEF FirstNodes
    <3>3. NodeBlocks(h, FirstNodes(q, i + 1))
            = NodeBlocks(h, FirstNodes(q, i)) \union BlocksOf(h, q[i + 1])
      <4> HIDE DEF l
      <4> QED
        BY <3>2, Zenon DEF NodeBlocks
    <3>4. CASE i = 0
      <4>1. FirstNodes(q, 0) = {}
        <5>1. {k \in 1 .. Len(q) : k <= 0} = {}
          OBVIOUS
        <5> QED
          BY <5>1 DEF FirstNodes
      <4>2. NodeBlocks(h, FirstNodes(q, i)) = {}
        BY <3>4, <4>1 DEF NodeBlocks
      <4>3. NodeBlocks(h, FirstNodes(q, i + 1)) = BlocksOf(h, q[i + 1])
        BY <3>3, <4>2
      <4>4. LeftAfter(h, q, i) = h
        BY <3>4 DEF LeftAfter
      <4> QED
        BY <3>1, <4>3, <4>4
    <3>5. CASE i # 0
      <4>1. LeftAfter(h, q, i) = Freed(h, NodeBlocks(h, FirstNodes(q, i)))
        BY <2>1, <3>5 DEF LeftAfter
      <4> QED
        BY <3>1, <3>3, <4>1, FreedTwice
    <3> QED
      BY <3>4, <3>5
  <2>5. Round(h, l) = [iterator |-> h[q[i + 1]].next,
                       heap |-> Freed(LeftAfter(h, q, i), BlocksOf(h, q[i + 1]))]
    <3> HIDE DEF l
    <3> QED
      BY <1>1, <2>2 DEF Round, AtEnd
  <2> HIDE DEF l
  <2> QED
    BY <2>3, <2>4, <2>5 DEF AfterRounds, l
<1>4. CASE ~ (i < Len(q))
  <2>1. Behind(q, i) = NULL /\ Behind(q, i + 1) = NULL
    BY <1>2, <1>4 DEF Behind
  <2>2. LeftAfter(h, q, i + 1) = LeftAfter(h, q, i)
    <3>1. {k \in 1 .. Len(q) : k <= i + 1} = {k \in 1 .. Len(q) : k <= i}
      BY <1>2, <1>4
    <3>2. FirstNodes(q, i + 1) = FirstNodes(q, i)
      BY <3>1 DEF FirstNodes
    <3>3. i = 0 => q = <<>>
      BY <1>2, <1>4, EmptySeq
    <3> QED
      BY <3>2, <3>3 DEF LeftAfter
  <2>3. Round(h, l) = l
    <3> HIDE DEF l
    <3> QED
      BY <1>1, <2>1 DEF Round, AtEnd
  <2> QED
    BY <2>1, <2>2, <2>3 DEF AfterRounds
<1> QED
  BY <1>3, <1>4

LEMMA FreeIs ==
  ASSUME NEW q, Chained(heap, q), Behind(q, 0) = head,
         Cardinality(DOMAIN heap) \in Nat, Len(q) <= Cardinality(DOMAIN heap)
  PROVE  DOMAIN MQFree = DOMAIN heap \ NodeBlocks(heap, ToSet(q))
<1> DEFINE n == Cardinality(DOMAIN heap)
           start == [iterator |-> head, heap |-> heap]
           Walk(f) == f = [i \in 0 .. n |-> IF i = 0 THEN start ELSE Round(heap, f[i - 1])]
           walk == CHOOSE f : Walk(f)
           g == [i \in 0 .. n |-> AfterRounds(heap, q, i)]
<1>1. Len(q) \in Nat /\ q \in Seq(Nat \ {0})
  BY ChainedFacts DEF Chained, Linked
<1>2. AfterRounds(heap, q, 0) = start
  BY DEF AfterRounds, LeftAfter
<1>3. \A i \in Nat : AfterRounds(heap, q, i + 1) = Round(heap, AfterRounds(heap, q, i))
  BY RoundIs
<1>4. MQFree = walk[n].heap
  BY DEF MQFree, Round
<1> HIDE DEF start
<1>5. Walk(g)
  <2>1. ASSUME NEW i \in 0 .. n
        PROVE  g[i] = IF i = 0 THEN start ELSE Round(heap, g[i - 1])
    <3>1. CASE i = 0
      BY <1>2, <3>1
    <3>2. CASE i # 0
      <4>1. i - 1 \in 0 .. n /\ i - 1 \in Nat /\ (i - 1) + 1 = i
        BY <3>2
      <4>2. g[i - 1] = AfterRounds(heap, q, i - 1) /\ g[i] = AfterRounds(heap, q, (i - 1) + 1)
        BY <4>1
      <4> QED
        BY <1>3, <3>2, <4>1, <4>2
    <3> QED
      BY <3>1, <3>2
  <2>2. g = [i \in 0 .. n |-> g[i]]
    OBVIOUS
  <2> HIDE DEF g, n
  <2> QED
    BY <2>1, <2>2
<1>6. Walk(walk)
  <2> HIDE DEF Walk
  <2> QED
    BY <1>5
<1> HIDE DEF walk, g
<1>7. \A i \in 0 .. n : walk[i] = IF i = 0 THEN start ELSE Round(heap, walk[i - 1])
  <2> HIDE DEF n
  <2> QED
    BY <1>6
<1> DEFINE S == {i \in Nat : i <= n => walk[i] = AfterRounds(heap, q, i)}
<1>8. 0 \in S
  BY <1>2, <1>7
<1>9. ASSUME NEW i \in Nat, i \in S PROVE i + 1 \in S
  <2> SUFFICES ASSUME i + 1 <= n PROVE walk[i + 1] = AfterRounds(heap, q, i + 1)
    OBVIOUS
  <2>1. i + 1 \in 0 .. n /\ i + 1 # 0 /\ (i + 1) - 1 = i /\ i <= n
    OBVIOUS
  <2>2. walk[i] = AfterRounds(heap, q, i)
    BY <1>9, <2>1
  <2>3. walk[i + 1] = Round(heap, walk[(i + 1) - 1])
    BY <1>7, <2>1
  <2> QED
    BY <1>3, <2>1, <2>2, <2>3
<1> HIDE DEF S
<1>10. \A i \in Nat : i \in S
  BY <1>8, <1>9, Counting
<1>11. walk[n] = AfterRounds(heap, q, n)
  BY <1>10 DEF S
<1>12. MQFree = LeftAfter(heap, q, n)
  BY <1>4, <1>11 DEF AfterRounds
<1>13. FirstNodes(q, n) = ToSet(q)
  <2>1. {k \in 1 .. Len(q) : k <= n} = 1 .. Len(q)
    BY <1>1
  <2>2. DOMAIN q = 1 .. Len(q)
    BY <1>1, LenProperties
  <2> QED
    BY <2>1, <2>2 DEF FirstNodes, ToSet
<1>14. CASE q = <<>>
  <2>1. NodeBlocks(heap, ToSet(q)) = {}
    BY <1>14, NothingIn DEF NodeBlocks
  <2> QED
    BY <1>12, <1>14, <2>1 DEF LeftAfter
<1>15. CASE q # <<>>
  <2>1. Len(q) > 0
    BY <1>1, <1>15, EmptySeq
  <2>2. n # 0
    BY <1>1, <2>1
  <2>3. MQFree = Freed(heap, NodeBlocks(heap, ToSet(q)))
    BY <1>12, <1>13, <1>15, <2>2 DEF LeftAfter
  <2> QED
    BY <2>3 DEF Freed, Restrict
<1> QED
  BY <1>14, <1>15

-----------------------------------------------------------------------------
(* How many blocks there are.                                              *)

LEMMA Together ==
  ASSUME NEW A, NEW B, IsFiniteSet(A), IsFiniteSet(B), A \cap B = {}
  PROVE  /\ IsFiniteSet(A \union B)
         /\ Cardinality(A) \in Nat /\ Cardinality(B) \in Nat
         /\ Cardinality(A \union B) = Cardinality(A) + Cardinality(B)
<1>1. /\ IsFiniteSet(A \union B)
      /\ Cardinality(A \union B)
           = Cardinality(A) + Cardinality(B) - Cardinality(A \cap B)
  BY FS_Union
<1>2. Cardinality(A \cap B) = 0
  BY FS_EmptySet
<1>3. Cardinality(A) \in Nat /\ Cardinality(B) \in Nat
  BY FS_CardinalityType
<1> QED
  BY <1>1, <1>2, <1>3

(* Messages have as many metadata, nodes as many messages. *)
LEMMA MetaDataCount ==
  ASSUME NEW h, NEW M, IsFiniteSet(M),
         \A m, o \in M : h[m].metaData = h[o].metaData => m = o
  PROVE  IsFiniteSet(MetaDataOf(h, M)) /\ Cardinality(MetaDataOf(h, M)) = Cardinality(M)
<1> DEFINE T == MetaDataOf(h, M)
           f == [m \in M |-> h[m].metaData]
<1>1. f \in [M -> T] /\ \A m \in M : f[m] = h[m].metaData
  BY DEF MetaDataOf
<1>2. \A t \in T : \E m \in M : t = h[m].metaData
  BY DEF MetaDataOf
<1> HIDE DEF T, f
<1>3. IsFiniteSet(T) /\ Cardinality(T) = Cardinality(M)
  BY <1>1, <1>2, OneToOne
<1> QED
  BY <1>3 DEF T

LEMMA MessagesCount ==
  ASSUME NEW h, NEW N, IsFiniteSet(N), \A n, o \in N : h[n].message = h[o].message => n = o
  PROVE  IsFiniteSet(MessagesOf(h, N)) /\ Cardinality(MessagesOf(h, N)) = Cardinality(N)
<1> DEFINE T == MessagesOf(h, N)
           f == [n \in N |-> h[n].message]
<1>1. f \in [N -> T] /\ \A n \in N : f[n] = h[n].message
  BY DEF MessagesOf
<1>2. \A t \in T : \E n \in N : t = h[n].message
  BY DEF MessagesOf
<1> HIDE DEF T, f
<1>3. IsFiniteSet(T) /\ Cardinality(T) = Cardinality(N)
  BY <1>1, <1>2, OneToOne
<1> QED
  BY <1>3 DEF T

LEMMA HeldCount ==
  ASSUME NEW h, NEW H, IsFiniteSet(H), Owns(h, {}, H, {})
  PROVE  /\ IsFiniteSet(H \union MetaDataOf(h, H))
         /\ Cardinality(H \union MetaDataOf(h, H)) = 2 * Cardinality(H)
<1>1. Paired(h, {}, H) = H
  BY DEF Paired, MessagesOf
<1>2. H \cap MetaDataOf(h, H) = {}
  <2>1. /\ ({} \cap (Paired(h, {}, H) \union {}) = {})
        /\ (Paired(h, {}, H) \union {}) \cap MetaDataOf(h, Paired(h, {}, H)) = {}
    BY OwnersApart
  <2> QED
    BY <1>1, <2>1
<1>3. \A m, o \in H : h[m].metaData = h[o].metaData => m = o
  BY <1>1 DEF Owns, OneOwner
<1>4. IsFiniteSet(MetaDataOf(h, H)) /\ Cardinality(MetaDataOf(h, H)) = Cardinality(H)
  BY <1>3, MetaDataCount
<1>5. /\ IsFiniteSet(H \union MetaDataOf(h, H))
      /\ Cardinality(H) \in Nat
      /\ Cardinality(H \union MetaDataOf(h, H)) = Cardinality(H) + Cardinality(MetaDataOf(h, H))
  BY <1>2, <1>4, Together
<1> QED
  BY <1>4, <1>5

LEMMA NodeCount ==
  ASSUME NEW h, NEW N, IsFiniteSet(N), Owns(h, N, {}, {})
  PROVE  /\ IsFiniteSet(NodeBlocks(h, N))
         /\ Cardinality(NodeBlocks(h, N)) = 3 * Cardinality(N)
<1> DEFINE M == MessagesOf(h, N)
           D == MetaDataOf(h, M)
<1>1. Paired(h, N, {}) = M
  BY DEF Paired
<1>2. \A n, o \in N : h[n].message = h[o].message => n = o
  BY DEF Owns, OneOwner
<1>3. \A m, o \in M : h[m].metaData = h[o].metaData => m = o
  BY <1>1 DEF Owns, OneOwner
<1>4. N \cap M = {} /\ N \cap D = {} /\ M \cap D = {}
  <2>1. /\ N \cap (Paired(h, N, {}) \union {}) = {}
        /\ N \cap MetaDataOf(h, Paired(h, N, {})) = {}
        /\ (Paired(h, N, {}) \union {}) \cap MetaDataOf(h, Paired(h, N, {})) = {}
    BY OwnersApart
  <2> QED
    BY <1>1, <2>1
<1>5. NodeBlocks(h, N) = N \union M \union D
  BY NodeBlocksAre
<1>6. IsFiniteSet(M) /\ Cardinality(M) = Cardinality(N)
  BY <1>2, MessagesCount
<1> HIDE DEF M
<1>7. IsFiniteSet(D) /\ Cardinality(D) = Cardinality(M)
  BY <1>3, <1>6, MetaDataCount
<1> HIDE DEF D
<1>8. /\ IsFiniteSet(N \union M) /\ Cardinality(N) \in Nat
      /\ Cardinality(N \union M) = Cardinality(N) + Cardinality(M)
  BY <1>4, <1>6, Together
<1>9. (N \union M) \cap D = {}
  BY <1>4
<1>10. /\ IsFiniteSet((N \union M) \union D)
       /\ Cardinality((N \union M) \union D) = Cardinality(N \union M) + Cardinality(D)
  BY <1>7, <1>8, <1>9, Together
<1> QED
  BY <1>5, <1>6, <1>7, <1>8, <1>10

(* The blocks of the list, those of the workers and those of a put. *)
ThreeOwners(h, L, X, H, C) ==
  LET A == NodeBlocks(h, L)
      W == H \union MetaDataOf(h, H)
      P == NodeBlocks(h, X) \union C
  IN /\ Owned(h, L \union X, H, C) = (A \union W) \union P
     /\ A \cap W = {} /\ (A \union W) \cap P = {}

LEMMA OwnedByThree ==
  ASSUME NEW h, NEW L, NEW X, NEW H, NEW C, L \cap X = {}, Owns(h, L \union X, H, C)
  PROVE  ThreeOwners(h, L, X, H, C)
<1> DEFINE A == NodeBlocks(h, L)
           B == NodeBlocks(h, X)
           W == H \union MetaDataOf(h, H)
<1>1. Owned(h, X, H, C) = Owned(h, L \union X, H, C) \ A
  <2> DEFINE N == L \union X
  <2>1. N \ L = X /\ L \in SUBSET N /\ Owns(h, N, H, C)
    OBVIOUS
  <2> HIDE DEF N
  <2>2. \A D \in SUBSET N : Owned(h, N \ D, H, C) = Owned(h, N, H, C) \ NodeBlocks(h, D)
    BY <2>1, NodesLeave
  <2> QED
    BY <2>1, <2>2 DEF N
<1>2. Owns(h, X, H, C)
  BY OwnsLess
<1>3. Owned(h, {}, H, C) = Owned(h, X, H, C) \ B
  <2>1. X \ X = {} /\ X \in SUBSET X
    OBVIOUS
  <2>2. \A D \in SUBSET X : Owned(h, X \ D, H, C) = Owned(h, X, H, C) \ NodeBlocks(h, D)
    BY <1>2, <2>1, NodesLeave
  <2> QED
    BY <2>1, <2>2
<1>4. Owns(h, {}, H, C)
  BY <1>2, OwnsLess
<1>5. Owned(h, {}, H, {}) = Owned(h, {}, H, C) \ C
  BY <1>4, ConnectionLeaves
<1>6. Owned(h, {}, H, {}) = W
  BY DEF Owned, Paired, MessagesOf
<1>7. A \subseteq Owned(h, L \union X, H, C)
  BY NodeBlocksAre DEF Owned, Paired, MessagesOf, MetaDataOf
<1>8. B \subseteq Owned(h, X, H, C)
  BY NodeBlocksAre DEF Owned, Paired, MessagesOf, MetaDataOf
<1>9. C \subseteq Owned(h, {}, H, C)
  BY DEF Owned
<1> HIDE DEF A, B, W
<1>10. /\ Owned(h, L \union X, H, C) = (A \union W) \union (B \union C)
       /\ A \cap W = {} /\ (A \union W) \cap (B \union C) = {}
  BY <1>1, <1>3, <1>5, <1>6, <1>7, <1>8, <1>9
<1> QED
  BY <1>10 DEF ThreeOwners, A, B, W

(* What EachBlockOwned says, in the terms of the invariant. *)
LEMMA Hands ==
  ASSUME TypeInv, PutInv
  PROVE  /\ HeldByWorkers = Held \union MetaDataOf(heap, Held)
         /\ HeldByPut = NodeBlocks(heap, Waiting) \union Connection
         /\ \A S : Blocks(S) = NodeBlocks(heap, S)
         /\ IsFiniteSet(Held)
         /\ Cardinality({w \in Workers : message[w] # NULL}) = Cardinality(Held)
<1>1. HeldByWorkers = Held \union MetaDataOf(heap, Held)
  BY DEF HeldByWorkers, Held, MetaDataOf
<1>2. HeldByPut = NodeBlocks(heap, Waiting) \union Connection
  <2>1. CASE newNode = NULL
    <3>1. Waiting = {} /\ Connection = {}
      BY <2>1 DEF PutInv, Waiting, Connection
    <3> QED
      BY <2>1, <3>1 DEF HeldByPut, NodeBlocks
  <2>2. CASE newNode # NULL
    <3>1. Waiting = {newNode} /\ Connection = {connectionMessage}
      BY <2>2 DEF PutInv, Waiting, Connection
    <3> QED
      BY <2>2, <3>1 DEF HeldByPut, NodeBlocks
  <2> QED
    BY <2>1, <2>2
<1>3. \A S : Blocks(S) = NodeBlocks(heap, S)
  BY DEF Blocks, NodeBlocks
<1>4. IsFiniteSet(Held) /\ Cardinality({w \in Workers : message[w] # NULL}) = Cardinality(Held)
  <2> DEFINE S == {w \in Workers : message[w] # NULL}
             f == [w \in S |-> message[w]]
  <2>1. S \subseteq Workers
    OBVIOUS
  <2>2. f \in [S -> Held] /\ \A w \in S : f[w] = message[w]
    BY DEF Held
  <2>3. \A v, w \in S : message[v] = message[w] => v = w
    BY DEF TypeInv
  <2>4. \A t \in Held : \E w \in S : message[w] = t
    BY DEF Held
  <2> HIDE DEF S, f
  <2>5. IsFiniteSet(S)
    BY <2>1, FS_Subset, NodesAssumption
  <2>6. IsFiniteSet(Held) /\ Cardinality(Held) = Cardinality(S)
    BY <2>2, <2>3, <2>4, <2>5, OneToOne
  <2> QED
    BY <2>6 DEF S
<1> QED
  BY <1>1, <1>2, <1>3, <1>4

(* Until a malloc fails, every block belongs to the list, to a put that    *)
(* waits or to a worker; there are three for a node, two for a message     *)
(* that a worker serves, and no more; and MQFree would free those of the   *)
(* list and no other.  So no drop, get or put leaks a block, frees one     *)
(* twice or leaves two owners for it.                                      *)
THEOREM BlocksOwned == Spec => []EachBlockOwned
<1>1. ASSUME IInv, Sound PROVE EachBlockOwned
  <2> DEFINE q == Chain
             L == ToSet(q)
             A == NodeBlocks(heap, L)
             W == Held \union MetaDataOf(heap, Held)
             P == NodeBlocks(heap, Waiting) \union Connection
  <2> HIDE DEF q
  <2>1. /\ Linked(heap, q) /\ Rep(heap, q, Waiting, Held, Connection)
        /\ size = Len(q) /\ Ends(q, head, tail) /\ Len(q) \in Nat
        /\ q \in Seq(Nat \ {0})
        /\ DOMAIN heap = BlocksFor(heap, q, Waiting, Held, Connection)
    BY <1>1, Now DEF q
  <2>2. /\ IsFiniteSet(DOMAIN heap)
        /\ L \cap Waiting = {} /\ Owns(heap, L \union Waiting, Held, Connection)
        /\ DOMAIN heap = Owned(heap, L \union Waiting, Held, Connection)
    BY <2>1 DEF Rep, HeapOK, BlocksFor
  <2>3. /\ HeldByWorkers = W /\ HeldByPut = P
        /\ Blocks(L) = A
        /\ IsFiniteSet(Held)
        /\ Cardinality({w \in Workers : message[w] # NULL}) = Cardinality(Held)
    BY <1>1, Hands DEF IInv
  <2>4. IsFiniteSet(L) /\ Cardinality(L) = Len(q) /\ L \subseteq DOMAIN heap
    <3>1. q \in Seq(Nat)
      BY <2>1, LinkedElements
    <3>2. \A i, j \in 1 .. Len(q) : q[i] = q[j] => i = j
      BY <2>1 DEF Linked
    <3>3. L \subseteq DOMAIN heap
      BY <2>2 DEF Owned
    <3> QED
      BY <3>1, <3>2, <3>3, SizeOfSeq
  <2>5. /\ DOMAIN heap = (A \union W) \union P
        /\ A \cap W = {} /\ (A \union W) \cap P = {}
    <3>1. ThreeOwners(heap, L, Waiting, Held, Connection)
      <4> HIDE DEF L
      <4> QED
        BY <2>2, OwnedByThree
    <3> QED
      BY <2>2, <3>1 DEF ThreeOwners
  <2>6. IsFiniteSet(A) /\ Cardinality(A) = 3 * Len(q)
    <3>1. Owns(heap, L, {}, {})
      <4>1. L \in SUBSET (L \union Waiting)
        OBVIOUS
      <4> HIDE DEF L
      <4> QED
        BY <2>2, <4>1, OwnsLess
    <3> HIDE DEF L
    <3> QED
      BY <2>4, <3>1, NodeCount
  <2>7. IsFiniteSet(W) /\ Cardinality(W) = 2 * Cardinality(Held)
    <3>1. Owns(heap, {}, Held, {})
      <4> HIDE DEF L
      <4> QED
        BY <2>2, OwnsLess
    <3> QED
      BY <2>3, <3>1, HeldCount
  <2>8. IsFiniteSet(P)
    <3> HIDE DEF A, W, P
    <3>1. P \subseteq DOMAIN heap
      BY <2>5
    <3> QED
      BY <2>2, <3>1, FS_Subset
  <2>9. FreeTakesAll
    <3>1. Chained(heap, q)
      <4>1. \A j \in 1 .. Len(q) : q[j] \in L
        BY <2>1, LinkedElements
      <4> QED
        BY <2>1, <2>2, <4>1 DEF Chained, Owns, Kinds, IsNode
    <3>2. Behind(q, 0) = head
      BY <2>1, EmptySeq DEF Ends, Behind
    <3>3. Cardinality(DOMAIN heap) \in Nat /\ Len(q) <= Cardinality(DOMAIN heap)
      <4> HIDE DEF L
      <4>1. Cardinality(L) <= Cardinality(DOMAIN heap)
        BY <2>2, <2>4, FS_Subset
      <4> QED
        BY <2>2, <2>4, <4>1, FS_CardinalityType
    <3>4. DOMAIN MQFree = DOMAIN heap \ A
      BY <3>1, <3>2, <3>3, FreeIs
    <3> QED
      BY <2>3, <3>4 DEF FreeTakesAll, q
  <2>10. Cardinality(DOMAIN heap) = 3 * size + 2 * Cardinality(Held) + Cardinality(P)
    <3> HIDE DEF A, W, P
    <3>1. /\ IsFiniteSet(A \union W) /\ Cardinality(A) \in Nat /\ Cardinality(W) \in Nat
          /\ Cardinality(A \union W) = Cardinality(A) + Cardinality(W)
      BY <2>5, <2>6, <2>7, Together
    <3>2. /\ Cardinality(P) \in Nat
          /\ Cardinality((A \union W) \union P) = Cardinality(A \union W) + Cardinality(P)
      BY <2>5, <2>8, <3>1, Together
    <3>3. Cardinality(Held) \in Nat
      BY <2>3, FS_CardinalityType
    <3> QED
      BY <2>1, <2>5, <2>6, <2>7, <3>1, <3>2, <3>3
  <2>11. /\ DOMAIN heap = Blocks(ToSet(Chain)) \union HeldByWorkers \union HeldByPut
         /\ Cardinality(DOMAIN heap) =
              3 * size + 2 * Cardinality({w \in Workers : message[w] # NULL})
                + Cardinality(HeldByPut)
    <3>1. Blocks(ToSet(Chain)) = A
      BY <2>3 DEF q
    <3> HIDE DEF A, W, P
    <3> QED
      BY <2>3, <2>5, <2>10, <3>1
  <2> QED
    BY <2>9, <2>11 DEF EachBlockOwned
<1>2. IInv => EachBlockOwned
  BY <1>1 DEF EachBlockOwned, Sound
<1> QED
  BY <1>2, Invariance, PTL

-----------------------------------------------------------------------------
(* What is proved of the monitor holds of the list of nodes: MQP is the    *)
(* monitor of the proofs, with what the list holds for its queue.          *)

MQP ==
  INSTANCE MessageQueueProofs WITH
    queue <- Contents,
    dropped <- ToSet(droppedContents),
    SpuriousWakeups <- SpuriousWakeups # {}

LEMMA MonitorAssumption == MQP!MQAssumption
<1>1. \A S : MQP!IsFiniteSet(S) <=> IsFiniteSet(S)
  BY Zenon DEF IsFiniteSet, MQP!IsFiniteSet
<1> QED
  BY <1>1, NodesAssumption DEF MQP!MQAssumption, MQP!Policies, Policies

LEMMA SameSteps == Monitor!Next => MQP!Next
<1>1. ASSUME arrivals < MaxArrivals, Monitor!MQPut(arrivals + 1)
      PROVE  MQP!MQPut(arrivals + 1)
  BY <1>1
  DEF Monitor!MQPut, Monitor!PutFails, Monitor!PutOrHandleFull, Monitor!PutInsert,
   Monitor!PutHandleBlock, Monitor!PutHandleDropTail, Monitor!PutHandleDropHead,
   Monitor!PutHandleDropRandom, Monitor!PutHandleDropRandomFails, Monitor!Survivors,
   Monitor!randomDropCount, Monitor!ShortRandom, Monitor!SignalPut, Monitor!Blocked,
   Monitor!config,
   MQP!MQPut, MQP!PutFails, MQP!PutOrHandleFull, MQP!PutInsert, MQP!PutHandleBlock,
   MQP!PutHandleDropTail, MQP!PutHandleDropHead, MQP!PutHandleDropRandom,
   MQP!PutHandleDropRandomFails, MQP!Survivors, MQP!randomDropCount, MQP!ShortRandom,
   MQP!SignalPut, MQP!Blocked, MQP!config
<1>2. ASSUME Monitor!MQPutResume PROVE MQP!MQPutResume
  BY <1>2
  DEF Monitor!MQPutResume, Monitor!PutOrHandleFull, Monitor!PutInsert,
   Monitor!PutHandleBlock, Monitor!PutHandleDropTail, Monitor!PutHandleDropHead,
   Monitor!PutHandleDropRandom, Monitor!PutHandleDropRandomFails, Monitor!Survivors,
   Monitor!randomDropCount, Monitor!ShortRandom, Monitor!SignalPut, Monitor!Blocked,
   Monitor!config,
   MQP!MQPutResume, MQP!PutOrHandleFull, MQP!PutInsert, MQP!PutHandleBlock,
   MQP!PutHandleDropTail, MQP!PutHandleDropHead, MQP!PutHandleDropRandom,
   MQP!PutHandleDropRandomFails, MQP!Survivors, MQP!randomDropCount, MQP!ShortRandom,
   MQP!SignalPut, MQP!Blocked, MQP!config
<1>3. ASSUME NEW w \in Workers, Monitor!MQGet(w) PROVE MQP!MQGet(w)
  BY <1>3
  DEF Monitor!MQGet, Monitor!GetTake, Monitor!GetWait, Monitor!SignalGet, Monitor!config,
   MQP!MQGet, MQP!GetTake, MQP!GetWait, MQP!SignalGet, MQP!config
<1>4. Monitor!SpuriousPutWakeup => MQP!SpuriousPutWakeup
  BY DEF Monitor!SpuriousPutWakeup, Monitor!config, MQP!SpuriousPutWakeup, MQP!config
<1>5. \A w \in Workers : Monitor!SpuriousGetWakeup(w) => MQP!SpuriousGetWakeup(w)
  BY DEF Monitor!SpuriousGetWakeup, Monitor!config, MQP!SpuriousGetWakeup, MQP!config
<1> QED
  BY <1>1, <1>2, <1>3, <1>4, <1>5 DEF Monitor!Next, MQP!Next

LEMMA IsTheMonitor == Spec => MQP!Spec
<1>1. Monitor!Init => MQP!Init
  BY DEF Monitor!Init, Monitor!MQCreate, MQP!Init, MQP!MQCreate
<1>2. [Monitor!Next]_(Monitor!vars) => [MQP!Next]_(MQP!vars)
  BY SameSteps DEF Monitor!vars, Monitor!config, MQP!vars, MQP!config
<1> QED
  BY <1>1, <1>2, NodesImplementMonitor, PTL DEF ImplementsMonitor, Monitor!Spec, MQP!Spec

(* So the linked nodes, with every malloc and free of message_queue.c, are *)
(* a bounded queue to their callers: nothing is lost or served twice, the  *)
(* oldest leaves first, and what is shed is shed by the policy.            *)
THEOREM NodesImplementQueue == Spec => MQP!ImplementsPromise
BY IsTheMonitor, MonitorAssumption, MQP!MonitorImplementsQueue, PTL DEF MQP!MQAssumption

(* And the list never outgrows its capacity, keeps the order of arrival,   *)
(* holds nothing that a put has handed back, and no signal is missed.      *)
THEOREM NodesKeepQueueInvariants ==
  Spec => [](MQP!Bounded /\ MQP!ArrivalOrder /\ MQP!DroppedHaveLeft /\ MQP!NobodySleepsInVain)
BY IsTheMonitor, MonitorAssumption, MQP!QueueBounded, MQP!QueueOrdered,
   MQP!DroppedNeverServed, MQP!WakeupsSuffice, PTL DEF MQP!MQAssumption
=============================================================================
