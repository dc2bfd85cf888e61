------------------------- MODULE HttpExchangeProofs --------------------------
(***************************************************************************)
(* Theorems about the bytes of a connection, for arrays and buffers of any *)
(* size, for every request and every cut of the bytes into pieces.         *)
(*                                                                         *)
(* Each direction of the connection is Intact by itself: what is read,     *)
(* buffered and on the way is what was written.  The lemmas on Intact do   *)
(* not mention the state; a step of HttpExchange is an instance of one of  *)
(* them, after Controlled has settled what it does to the two programs.    *)
(*                                                                         *)
(* ReadInv says, on top of that, where in its request and its response an  *)
(* end is: who ends with bytes unread, and so resets the connection.       *)
(***************************************************************************)
EXTENDS HttpExchange, SequenceTheorems, WellFoundedInduction, TLAPS

(* Every nonempty set of natural numbers has a least element. *)
LEMMA LeastElement ==
  ASSUME NEW S, S \subseteq Nat, S # {}
  PROVE  \E x \in S : \A y \in S : x <= y
<1> DEFINE R == {p \in Nat \X Nat : p[1] < p[2]}
<1>1. IsWellFoundedOn(R, Nat)
  BY NatLessThanWellFounded DEF OpToRel
<1>2. \A x, y \in Nat : y < x => <<y, x>> \in R
  OBVIOUS
<1> HIDE DEF R
<1>3. PICK x \in S : \A y \in S : ~(<<y, x>> \in R)
  BY <1>1, WFMin, Zenon
<1>4. ASSUME NEW y \in S PROVE x <= y
  <2>1. ~(y < x)
    BY <1>2, <1>3
  <2> QED
    BY <2>1
<1> QED
  BY <1>4

-----------------------------------------------------------------------------
(* FlattenSeq, of which the definition is recursive.                       *)

(* f is the flattening of each of the first n prefixes of s. *)
Flattens(f, s, n) ==
  f = [i \in 1 .. n |-> IF i = 1 THEN s[i] ELSE f[i - 1] \o s[i]]

LEMMA FlattensAt ==
  ASSUME NEW f, NEW s, NEW n, Flattens(f, s, n), NEW i \in 1 .. n
  PROVE  f[i] = IF i = 1 THEN s[i] ELSE f[i - 1] \o s[i]
<1> DEFINE h == [k \in 1 .. n |-> IF k = 1 THEN s[k] ELSE f[k - 1] \o s[k]]
<1>1. f = h
  BY DEF Flattens
<1>2. h[i] = IF i = 1 THEN s[i] ELSE f[i - 1] \o s[i]
  OBVIOUS
<1> HIDE DEF h
<1> QED
  BY <1>1, <1>2

LEMMA FlattenIsChoice ==
  ASSUME NEW s, Len(s) # 0
  PROVE  FlattenSeq(s) = (CHOOSE f : Flattens(f, s, Len(s)))[Len(s)]
BY DEF FlattenSeq, Flattens

(* There is such a function, by the least n for which there is none. *)
LEMMA FlattensExists ==
  ASSUME NEW S, NEW s \in Seq(Seq(S)), NEW n \in 0 .. Len(s)
  PROVE  \E f : Flattens(f, s, n) /\ \A i \in 1 .. n : f[i] \in Seq(S)
<1> DEFINE Has(k) == \E f : Flattens(f, s, k) /\ \A i \in 1 .. k : f[i] \in Seq(S)
           Bad == {k \in 0 .. Len(s) : ~Has(k)}
<1>1. Len(s) \in Nat /\ \A i \in 1 .. Len(s) : s[i] \in Seq(S)
  BY ElementOfSeq
<1> SUFFICES ASSUME Bad # {} PROVE FALSE
  OBVIOUS
<1>2. PICK k \in Bad : \A y \in Bad : k <= y
  <2>1. Bad \subseteq Nat
    BY <1>1
  <2> HIDE DEF Bad
  <2> QED
    BY <2>1, LeastElement
<1>3. k # 0
  <2> DEFINE f == [i \in 1 .. 0 |-> IF i = 1 THEN s[i] ELSE <<>> \o s[i]]
  <2>1. Flattens(f, s, 0) /\ \A i \in 1 .. 0 : f[i] \in Seq(S)
    BY DEF Flattens
  <2> HIDE DEF f
  <2>2. Has(0)
    BY <2>1
  <2> QED
    BY <2>2
<1>4. k \in 1 .. Len(s) /\ k - 1 \in 0 .. Len(s)
  BY <1>1, <1>3
<1>5. Has(k - 1)
  <2>1. k - 1 \notin Bad
    <3>1. k - 1 \in Bad => k <= k - 1
      <4> HIDE DEF Bad
      <4> QED
        BY <1>2
    <3>2. ~(k <= k - 1)
      BY <1>1, <1>4
    <3> QED
      BY <3>1, <3>2
  <2> QED
    BY <1>4, <2>1
<1>6. PICK f : Flattens(f, s, k - 1) /\ \A i \in 1 .. k - 1 : f[i] \in Seq(S)
  BY <1>5
<1>7a. \A i \in 1 .. k - 1 : f[i] = IF i = 1 THEN s[i] ELSE f[i - 1] \o s[i]
  <2>1. Flattens(f, s, k - 1)
    BY <1>6
  <2> HIDE DEF Bad
  <2> QED
    BY <2>1, FlattensAt
<1> DEFINE last == IF k = 1 THEN s[k] ELSE f[k - 1] \o s[k]
           g == [i \in 1 .. k |-> IF i = k THEN last ELSE f[i]]
<1>7. last \in Seq(S)
  <2>1. CASE k = 1
    BY <1>1, <1>4, <2>1
  <2>2. CASE k # 1
    <3>1. f[k - 1] \in Seq(S) /\ s[k] \in Seq(S)
      BY <1>1, <1>4, <1>6, <2>2
    <3> QED
      BY <2>2, <3>1, ConcatProperties
  <2> QED
    BY <2>1, <2>2
<1>8. \A i \in 1 .. k : g[i] \in Seq(S)
  BY <1>4, <1>6, <1>7
<1>9. \A i \in 1 .. k : g[i] = IF i = 1 THEN s[i] ELSE g[i - 1] \o s[i]
  <2> TAKE i \in 1 .. k
  <2>1. CASE i = k
    BY <1>4, <2>1
  <2>2. CASE i # k
    <3>1. f[i] = IF i = 1 THEN s[i] ELSE f[i - 1] \o s[i]
      <4>1. i \in 1 .. k - 1
        BY <1>1, <1>4, <2>2
      <4> QED
        BY <4>1, <1>7a
    <3>2. g[i] = f[i] /\ (i # 1 => g[i - 1] = f[i - 1])
      BY <1>4, <2>2
    <3> QED
      BY <3>1, <3>2
  <2> QED
    BY <2>1, <2>2
<1>10. Flattens(g, s, k)
  <2>1. g = [i \in 1 .. k |-> g[i]]
    OBVIOUS
  <2> HIDE DEF g
  <2> QED
    BY <1>9, <2>1 DEF Flattens
<1> HIDE DEF g
<1> QED
  BY <1>2, <1>8, <1>10

(* The prefixes that two sequences share are flattened alike. *)
LEMMA FlattensUnique ==
  ASSUME NEW s, NEW t, NEW m \in Nat, NEW n \in Nat, m <= n,
         NEW f, Flattens(f, s, m), NEW g, Flattens(g, t, n),
         \A i \in 1 .. m : s[i] = t[i],
         NEW j \in 1 .. m
  PROVE  f[j] = g[j]
<1> DEFINE Bad == {i \in 1 .. m : f[i] # g[i]}
<1> SUFFICES ASSUME Bad # {} PROVE FALSE
  OBVIOUS
<1>1. PICK k \in Bad : \A y \in Bad : k <= y
  <2>1. Bad \subseteq Nat
    OBVIOUS
  <2> HIDE DEF Bad
  <2> QED
    BY <2>1, LeastElement
<1>2. k \in 1 .. m /\ f[k] # g[k] /\ s[k] = t[k]
  OBVIOUS
<1>3. /\ f[k] = IF k = 1 THEN s[k] ELSE f[k - 1] \o s[k]
      /\ g[k] = IF k = 1 THEN t[k] ELSE g[k - 1] \o t[k]
  <2>1. k \in 1 .. n
    BY <1>2
  <2> QED
    BY <1>2, <2>1, FlattensAt
<1>4. k # 1 => f[k - 1] = g[k - 1]
  <2> SUFFICES ASSUME k # 1, f[k - 1] # g[k - 1] PROVE FALSE
    OBVIOUS
  <2>1. k - 1 \in Bad
    BY <1>2
  <2> QED
    BY <1>1, <1>2, <2>1
<1> QED
  BY <1>2, <1>3, <1>4

LEMMA FlattensPrefix ==
  ASSUME NEW n \in Nat \ {0},
         NEW s, NEW f, Flattens(f, s, n),
         NEW t, NEW g, Flattens(g, t, n + 1),
         \A i \in 1 .. n : s[i] = t[i]
  PROVE  f[n] = g[n]
<1> DEFINE m == n + 1
<1>1. m \in Nat /\ n <= m /\ n \in 1 .. n /\ n \in Nat /\ Flattens(g, t, m)
  OBVIOUS
<1> HIDE DEF m
<1> QED
  BY <1>1, FlattensUnique

LEMMA FlattenType ==
  ASSUME NEW S, NEW s \in Seq(Seq(S))
  PROVE  /\ FlattenSeq(s) \in Seq(S)
         /\ s # <<>> => \E f : Flattens(f, s, Len(s)) /\ FlattenSeq(s) = f[Len(s)]
<1>1. CASE s = <<>>
  BY <1>1 DEF FlattenSeq
<1>2. CASE s # <<>>
  <2>1. Len(s) \in Nat \ {0}
    BY <1>2, EmptySeq
  <2> DEFINE h == CHOOSE f : Flattens(f, s, Len(s))
  <2>2. PICK f : Flattens(f, s, Len(s)) /\ \A i \in 1 .. Len(s) : f[i] \in Seq(S)
    BY <2>1, FlattensExists
  <2>3. Flattens(h, s, Len(s))
    BY <2>2, Zenon
  <2>4. FlattenSeq(s) = h[Len(s)]
    BY <2>1, FlattenIsChoice
  <2> HIDE DEF h
  <2>5. h[Len(s)] = f[Len(s)]
    BY <2>1, <2>2, <2>3, FlattensUnique
  <2> QED
    BY <2>1, <2>2, <2>3, <2>4, <2>5
<1> QED
  BY <1>1, <1>2

(* One line more. *)
LEMMA FlattenAppend ==
  ASSUME NEW S, NEW s \in Seq(Seq(S)), NEW text \in Seq(S)
  PROVE  FlattenSeq(Append(s, text)) = FlattenSeq(s) \o text
<1> DEFINE t == Append(s, text)
           n == Len(s)
<1>1. /\ n \in Nat
      /\ t \in Seq(Seq(S)) /\ Len(t) = n + 1 /\ t # <<>>
      /\ \A i \in 1 .. n : t[i] = s[i]
      /\ t[n + 1] = text
  BY AppendProperties
<1> HIDE DEF t
<1>2. PICK g : Flattens(g, t, n + 1) /\ FlattenSeq(t) = g[n + 1]
  BY <1>1, FlattenType
<1>3. g[n + 1] = IF n + 1 = 1 THEN text ELSE g[n] \o text
  <2>1. n + 1 \in 1 .. n + 1 /\ (n + 1) - 1 = n
    BY <1>1
  <2> QED
    BY <1>1, <1>2, <2>1, FlattensAt
<1>4. CASE s = <<>>
  <2>1. FlattenSeq(s) = <<>> /\ n = 0
    BY <1>4 DEF FlattenSeq
  <2>2. FlattenSeq(t) = text
    BY <1>2, <1>3, <2>1
  <2> QED
    BY <2>1, <2>2, ConcatEmptySeq DEF t
<1>5. CASE s # <<>>
  <2>1. n \in Nat \ {0}
    BY <1>5, EmptySeq
  <2>2. PICK f : Flattens(f, s, n) /\ FlattenSeq(s) = f[n]
    BY <1>5, FlattenType
  <2>3. f[n] = g[n]
    <3>1. n <= n + 1 /\ n + 1 \in Nat /\ n \in 1 .. n
      BY <2>1
    <3>2. \A i \in 1 .. n : s[i] = t[i]
      BY <1>1
    <3>3. Flattens(f, s, n) /\ Flattens(g, t, n + 1)
      BY <1>2, <2>2
    <3> QED
      BY <2>1, <3>2, <3>3, FlattensPrefix
  <2>4. FlattenSeq(t) = f[n] \o text
    BY <1>2, <1>3, <2>1, <2>3
  <2> QED
    BY <2>2, <2>4 DEF t
<1> QED
  BY <1>4, <1>5

-----------------------------------------------------------------------------
(* Concatenation, as an operator that the provers do not take apart.       *)

Cat(a, b) == a \o b

LEMMA CatType == \A a, b \in Bytes : Cat(a, b) \in Bytes
BY ConcatProperties DEF Bytes, Cat

LEMMA CatEmpty == \A a \in Bytes : Cat(a, <<>>) = a /\ Cat(<<>>, a) = a
BY ConcatEmptySeq DEF Bytes, Cat

LEMMA CatAssociative == \A a, b, c \in Bytes : Cat(Cat(a, b), c) = Cat(a, Cat(b, c))
BY ConcatAssociative DEF Bytes, Cat

LEMMA FlattenLines ==
  ASSUME NEW h \in Seq(Bytes), NEW text \in Bytes
  PROVE  /\ FlattenSeq(h) \in Bytes
         /\ FlattenSeq(Append(h, text)) = Cat(FlattenSeq(h), text)
BY FlattenType, FlattenAppend DEF Bytes, Cat

(* A sequence is its first k elements and then the others. *)
LEMMA Split ==
  ASSUME NEW s \in Bytes, NEW k \in 1 .. Len(s)
  PROVE  /\ SubSeq(s, 1, k) \in Bytes /\ Len(SubSeq(s, 1, k)) = k
         /\ SubSeq(s, k + 1, Len(s)) \in Bytes
         /\ Cat(SubSeq(s, 1, k), SubSeq(s, k + 1, Len(s))) = s
<1>1. Len(s) \in Nat /\ \A i \in 1 .. Len(s) : s[i] \in Byte
  BY ElementOfSeq DEF Bytes
<1>2. SubSeq(s, 1, k) \in Bytes /\ Len(SubSeq(s, 1, k)) = k
  BY <1>1, SubSeqProperties DEF Bytes
<1>3. SubSeq(s, k + 1, Len(s)) \in Bytes
  <2>1. \A i \in k + 1 .. Len(s) : s[i] \in Byte
    BY <1>1
  <2> QED
    BY <1>1, <2>1, SubSeqProperties DEF Bytes
<1>4. SubSeq(s, 1, k) \o SubSeq(s, k + 1, Len(s)) = SubSeq(s, 1, Len(s))
  BY <1>1, ConcatAdjacentSubSeq DEF Bytes
<1>5. SubSeq(s, 1, Len(s)) = s
  BY SubSeqFull DEF Bytes
<1> QED
  BY <1>2, <1>3, <1>4, <1>5, Zenon DEF Cat

(* The first byte of r goes to the end of l. *)
LEMMA MoveHead ==
  ASSUME NEW l \in Bytes, NEW r \in Bytes, r # <<>>
  PROVE  /\ Append(l, Head(r)) \in Bytes /\ Tail(r) \in Bytes
         /\ Len(Append(l, Head(r))) = Len(l) + 1 /\ Len(Tail(r)) = Len(r) - 1
         /\ Cat(Append(l, Head(r)), Tail(r)) = Cat(l, r)
<1>1. Head(r) \in Byte /\ Tail(r) \in Bytes /\ Len(Tail(r)) = Len(r) - 1
  BY HeadTailProperties DEF Bytes
<1>2. Append(l, Head(r)) \in Bytes /\ Len(Append(l, Head(r))) = Len(l) + 1
  BY <1>1, AppendProperties DEF Bytes
<1>3. Append(l, Head(r)) = Cat(l, <<Head(r)>>)
  BY <1>1, AppendIsConcat DEF Cat, Bytes
<1>4. <<Head(r)>> \in Bytes
  BY <1>1 DEF Bytes
<1>5. Cat(<<Head(r)>>, Tail(r)) = r
  <2>1. Len(r) \in Nat \ {0}
    BY EmptySeq DEF Bytes
  <2>2. SubSeq(r, 1, Len(r)) = <<r[1]>> \o SubSeq(r, 1 + 1, Len(r))
    BY <2>1, SubSeqRecursiveFirst DEF Bytes
  <2>3. SubSeq(r, 1, Len(r)) = r
    BY SubSeqFull DEF Bytes
  <2>4. Head(r) = r[1] /\ Tail(r) = SubSeq(r, 1 + 1, Len(r))
    BY TailIsSubSeq DEF Bytes
  <2> QED
    BY <2>2, <2>3, <2>4, Zenon DEF Cat
<1>6. Cat(Cat(l, <<Head(r)>>), Tail(r)) = Cat(l, Cat(<<Head(r)>>, Tail(r)))
  BY <1>1, <1>4, CatAssociative, Zenon
<1>7. Cat(Append(l, Head(r)), Tail(r)) = Cat(l, r)
  BY <1>3, <1>5, <1>6, Zenon
<1> QED
  BY <1>1, <1>2, <1>7, Zenon

-----------------------------------------------------------------------------
(* One direction of the connection.  The bytes in w are on their way to an *)
(* end with r in its buffer, l of its line read and the lines h returned;  *)
(* s has been written to it, and gone says that there will be no more.     *)

Whole(text) == Last(text) = "\n" \/ Len(text) = MAXLINE - 1

Intact(w, r, l, h, s, gone) ==
  /\ Len(r) <= RIO_BUFSIZE
  /\ Len(l) < MAXLINE - 1
  /\ Cat(Cat(Cat(FlattenSeq(h), l), r), w) = s
  /\ \A i \in 1 .. Len(h) - 1 : Whole(h[i])
  /\ h # <<>> /\ ~Whole(h[Len(h)]) => r = <<>> /\ l = <<>> /\ w = <<>> /\ gone

(* read moves bytes from the way, r2 of them, into the buffer. *)
LEMMA RefillIntact ==
  ASSUME NEW w \in Bytes, NEW l \in Bytes, NEW h \in Seq(Bytes), NEW s, NEW gone,
         Intact(w, <<>>, l, h, s, gone), w # <<>>,
         NEW r2 \in Bytes, NEW w2 \in Bytes, Cat(r2, w2) = w, Len(r2) <= RIO_BUFSIZE
  PROVE  Intact(w2, r2, l, h, s, gone)
<1> DEFINE f == FlattenSeq(h)
<1>1. f \in Bytes /\ Cat(f, l) \in Bytes
  BY FlattenLines, CatType
<1> HIDE DEF f
<1>2. Cat(Cat(Cat(f, l), r2), w2) = Cat(Cat(f, l), w)
  BY <1>1, CatAssociative
<1>3. Cat(Cat(f, l), <<>>) = Cat(f, l)
  BY <1>1, CatEmpty
<1> QED
  BY <1>2, <1>3 DEF Intact, f

(* Which lines are whole while there are bytes to come. *)
LEMMA AllWhole ==
  ASSUME NEW w, NEW r, NEW l, NEW h \in Seq(Bytes), NEW s, NEW gone,
         Intact(w, r, l, h, s, gone), w # <<>> \/ r # <<>> \/ l # <<>>
  PROVE  \A i \in 1 .. Len(h) : Whole(h[i])
<1> TAKE i \in 1 .. Len(h)
<1>1. Len(h) \in Nat /\ h # <<>>
  BY EmptySeq
<1>2. CASE i = Len(h)
  BY <1>1, <1>2 DEF Intact
<1>3. CASE i # Len(h)
  BY <1>1, <1>3 DEF Intact
<1> QED
  BY <1>2, <1>3

(* A byte goes from the buffer to the line, which is text then. *)
LEMMA ByteIntact ==
  ASSUME NEW w \in Bytes, NEW r \in Bytes, NEW l \in Bytes, NEW h \in Seq(Bytes),
         NEW s, NEW gone, Intact(w, r, l, h, s, gone), r # <<>>,
         NEW text \in Bytes, NEW r2 \in Bytes,
         Cat(text, r2) = Cat(l, r), Len(text) = Len(l) + 1, Len(r2) = Len(r) - 1
  PROVE  /\ Len(text) <= MAXLINE - 1
         /\ Len(text) # MAXLINE - 1 => Intact(w, r2, text, h, s, gone)
         /\ Whole(text) => Intact(w, r2, <<>>, Append(h, text), s, gone)
<1> DEFINE f == FlattenSeq(h)
           h2 == Append(h, text)
<1>1. f \in Bytes /\ FlattenSeq(h2) = Cat(f, text) /\ Cat(f, text) \in Bytes
  BY FlattenLines, CatType
<1>2. /\ h2 \in Seq(Bytes) /\ Len(h2) = Len(h) + 1 /\ Len(h) \in Nat
      /\ \A i \in 1 .. Len(h) : h2[i] = h[i]
      /\ h2[Len(h) + 1] = text
  BY AppendProperties
<1> HIDE DEF f, h2
<1>3. /\ Len(l) \in Nat /\ Len(r) \in Nat /\ Len(l) < MAXLINE - 1
      /\ Len(r) <= RIO_BUFSIZE
  BY DEF Intact, Bytes
<1>4. Len(text) <= MAXLINE - 1 /\ Len(r2) <= RIO_BUFSIZE
  BY <1>3, HttpAssumption
<1>5. Cat(Cat(f, text), r2) = Cat(Cat(f, l), r)
  BY <1>1, CatAssociative
<1>6. Cat(Cat(Cat(f, text), r2), w) = s
  BY <1>5 DEF Intact, f
<1>7. \A i \in 1 .. Len(h) : Whole(h[i])
  BY AllWhole
<1>8. ASSUME Len(text) # MAXLINE - 1 PROVE Intact(w, r2, text, h, s, gone)
  <2>1. Len(text) < MAXLINE - 1
    BY <1>3, <1>4, <1>8, HttpAssumption
  <2>2. h # <<>> => Whole(h[Len(h)])
    BY <1>2, <1>7, EmptySeq
  <2> QED
    BY <1>4, <1>6, <1>7, <2>1, <2>2 DEF Intact, f
<1>9. ASSUME Whole(text) PROVE Intact(w, r2, <<>>, h2, s, gone)
  <2>1. Cat(Cat(Cat(FlattenSeq(h2), <<>>), r2), w) = s
    BY <1>1, <1>6, CatEmpty
  <2>2. \A i \in 1 .. Len(h2) - 1 : Whole(h2[i])
    BY <1>2, <1>7
  <2>3. Whole(h2[Len(h2)])
    BY <1>2, <1>9
  <2>4. Len(<<>>) < MAXLINE - 1
    BY HttpAssumption
  <2> QED
    BY <1>4, <2>1, <2>2, <2>3, <2>4 DEF Intact
<1> QED
  BY <1>4, <1>8, <1>9 DEF h2

(* The end of the stream makes a line of what there is. *)
LEMMA EndIntact ==
  ASSUME NEW l \in Bytes, NEW h \in Seq(Bytes), NEW s, NEW gone, gone,
         Intact(<<>>, <<>>, l, h, s, gone), l # <<>>
  PROVE  Intact(<<>>, <<>>, <<>>, Append(h, l), s, gone)
<1> DEFINE f == FlattenSeq(h)
           h2 == Append(h, l)
<1>1. f \in Bytes /\ FlattenSeq(h2) = Cat(f, l) /\ Cat(f, l) \in Bytes
  BY FlattenLines, CatType
<1>2. /\ h2 \in Seq(Bytes) /\ Len(h2) = Len(h) + 1 /\ Len(h) \in Nat
      /\ \A i \in 1 .. Len(h) : h2[i] = h[i]
      /\ h2[Len(h) + 1] = l
  BY AppendProperties
<1> HIDE DEF f, h2
<1>3. Cat(Cat(Cat(FlattenSeq(h2), <<>>), <<>>), <<>>) = s
  <2>1. Cat(Cat(f, l), <<>>) = Cat(f, l)
    BY <1>1, CatEmpty
  <2> QED
    BY <1>1, <2>1 DEF Intact, f
<1>4. \A i \in 1 .. Len(h) : Whole(h[i])
  BY AllWhole
<1>5. \A i \in 1 .. Len(h2) - 1 : Whole(h2[i])
  BY <1>2, <1>4
<1>6. Len(<<>>) < MAXLINE - 1 /\ Len(<<>>) <= RIO_BUFSIZE
  BY HttpAssumption
<1>7. Intact(<<>>, <<>>, <<>>, h2, s, gone)
  BY <1>3, <1>5, <1>6 DEF Intact
<1> QED
  BY <1>7 DEF h2

(* More is written, which only an end that is there can do. *)
LEMMA WriteIntact ==
  ASSUME NEW w \in Bytes, NEW r \in Bytes, NEW l \in Bytes, NEW h \in Seq(Bytes),
         NEW s, NEW gone, ~gone, Intact(w, r, l, h, s, gone), NEW more \in Bytes
  PROVE  Intact(Cat(w, more), r, l, h, Cat(s, more), gone)
<1> DEFINE read == Cat(Cat(FlattenSeq(h), l), r)
<1>1. read \in Bytes
  BY FlattenLines, CatType
<1> HIDE DEF read
<1>2. Cat(read, Cat(w, more)) = Cat(Cat(read, w), more)
  BY <1>1, CatAssociative
<1> QED
  BY <1>2 DEF Intact, read

-----------------------------------------------------------------------------
(* The responses are sequences of bytes.                                   *)

LEMMA LinesType == ASSUME NEW texts \in Seq(Byte) PROVE Lines(texts) \in Bytes
<1> DEFINE each == [i \in DOMAIN texts |-> <<texts[i], "\r", "\n">>]
<1>1. DOMAIN texts = 1 .. Len(texts) /\ Len(texts) \in Nat
  BY LenProperties
<1>2. \A i \in DOMAIN texts : <<texts[i], "\r", "\n">> \in Seq(Byte)
  <2> TAKE i \in DOMAIN texts
  <2>1. texts[i] \in Byte
    BY <1>1, ElementOfSeq
  <2>2. "\r" \in Byte /\ "\n" \in Byte
    BY DEF Byte
  <2> QED
    BY <2>1, <2>2
<1>3. each \in Seq(Seq(Byte))
  BY <1>1, <1>2
<1> HIDE DEF each
<1> QED
  BY <1>3, FlattenType DEF Lines, each, Bytes

LEMMA ResponseTypes ==
  /\ requestError \in Bytes /\ StaticHead \in Bytes /\ DynamicHead \in Bytes
  /\ CgiOutput \in Bytes /\ StaticHead \o <<"content">> \in Bytes
<1>1. EmptyLine \in Bytes /\ <<"content">> \in Bytes
  BY DEF EmptyLine, Bytes, Byte
<1>2. /\ Lines(<<"error", "Content-Length">>) \in Bytes /\ Lines(<<"<p>">>) \in Bytes
      /\ Lines(<<"200", "Content-Length">>) \in Bytes
      /\ Lines(<<"200", "Stat-Thread-Id">>) \in Bytes
      /\ Lines(<<"Content-length">>) \in Bytes
  <2>1. /\ <<"error", "Content-Length">> \in Seq(Byte) /\ <<"<p>">> \in Seq(Byte)
        /\ <<"200", "Content-Length">> \in Seq(Byte)
        /\ <<"200", "Stat-Thread-Id">> \in Seq(Byte) /\ <<"Content-length">> \in Seq(Byte)
    BY DEF Byte
  <2> QED
    BY <2>1, LinesType, Zenon
<1>3. \A a, b \in Bytes : a \o b \in Bytes
  BY CatType DEF Cat
<1>4. requestError \in Bytes
  BY <1>1, <1>2, <1>3, Zenon DEF requestError
<1>5. StaticHead \in Bytes /\ StaticHead \o <<"content">> \in Bytes
  BY <1>1, <1>2, <1>3, Zenon DEF StaticHead
<1>6. DynamicHead \in Bytes /\ CgiOutput \in Bytes
  BY <1>1, <1>2, <1>3, Zenon DEF DynamicHead, CgiOutput
<1> QED
  BY <1>4, <1>5, <1>6

-----------------------------------------------------------------------------
(* The invariant.                                                          *)

Pcs(e) == IF e = "server"
  THEN Failures \union
       {"no connection", "request line", "headers", "writing", "forking", "waiting", "closed"}
  ELSE {"connecting", "sending", "header", "body", "closing", "closed", "exited", "vanished"}

Types ==
  /\ request \in Requests
  /\ DOMAIN pc = Ends /\ \A e \in Ends : pc[e] \in Pcs(e)
  /\ ended \in [Ends -> {"open", "closed", "reset"}]
  /\ wire \in [Ends -> Bytes] /\ rio \in [Ends -> Bytes] /\ line \in [Ends -> Bytes]
  /\ buf \in [Ends -> Bytes] /\ left \in [Ends -> Bytes] /\ said \in [Ends -> Bytes]
  /\ heard \in [Ends -> Seq(Bytes)]

(* A worker does nothing before a client has connected. *)
Unconnected ==
  /\ pc["client"] = "connecting" => pc["server"] = "no connection"
  /\ pc["server"] = "no connection" =>
       pc["client"] \in {"connecting", "exited"} /\ left["server"] = <<>>

(* Bytes stop coming only from an end that is gone. *)
EndedByPeer == \A e \in Ends : ended[e] # "open" => Gone(Peer(e))

Directions == \A e \in Ends :
  Intact(wire[e], rio[e], line[e], heard[e], said[Peer(e)], Gone(Peer(e)))

Target == requestParseURI(request.uri)
Found(kinds) == Target.filename \in DOMAIN Files /\ Files[Target.filename] \in kinds

(* What has happened when the server is at p. *)
Cause(p) ==
  /\ p = "exited" => Gone("client") \/ (Target.is_static /\ Found({"empty"}))
  /\ p = "Open failed" => Target.is_static /\ Found({"file", "program", "empty"})
  /\ p \in {"forking", "Fork failed"} => ~Target.is_static /\ Found({"program"})
  /\ p = "overrun" => request.long

ServerCause == Cause(pc["server"])

HttpInv == Types /\ Unconnected /\ EndedByPeer /\ Directions /\ ServerCause

LEMMA InvMeans == HttpInv => TypeOK /\ StreamsIntact /\ ServerSurvives
<1> SUFFICES ASSUME HttpInv PROVE TypeOK /\ StreamsIntact /\ ServerSurvives
  OBVIOUS
<1>1. TypeOK
  <2>1. \A e \in Ends : Len(rio[e]) <= RIO_BUFSIZE /\ Len(line[e]) < MAXLINE - 1
    BY DEF HttpInv, Directions, Intact
  <2>2. "server" \in Ends /\ "client" \in Ends /\ "client" # "server"
    BY DEF Ends
  <2> QED
    BY <2>1, <2>2 DEF HttpInv, Types, TypeOK, Pcs
<1>2. StreamsIntact
  <2> SUFFICES ASSUME NEW e \in Ends
               PROVE  /\ FlattenSeq(heard[e]) \o line[e] \o rio[e] \o wire[e] = said[Peer(e)]
                      /\ \A i \in 1 .. Len(heard[e]) - 1 :
                           Last(heard[e][i]) = "\n" \/ Len(heard[e][i]) = MAXLINE - 1
    BY Zenon DEF StreamsIntact
  <2>1. Cat(Cat(Cat(FlattenSeq(heard[e]), line[e]), rio[e]), wire[e]) = said[Peer(e)]
    BY DEF HttpInv, Directions, Intact
  <2>2. \A i \in 1 .. Len(heard[e]) - 1 : Whole(heard[e][i])
    BY DEF HttpInv, Directions, Intact
  <2>3. FlattenSeq(heard[e]) \o line[e] \o rio[e] \o wire[e] = said[Peer(e)]
    BY <2>1, Zenon DEF Cat
  <2> QED
    BY <2>2, <2>3, Zenon DEF Whole
<1>3. ServerSurvives
  BY Zenon DEF HttpInv, ServerCause, Cause, Target, Found, ServerSurvives
<1> QED
  BY <1>1, <1>2, <1>3

LEMMA InitInv == Init => HttpInv
<1> SUFFICES ASSUME Init PROVE HttpInv
  OBVIOUS
<1>1. request.bytes \in Bytes
  BY HttpAssumption DEF Init, Bytes
<1>2. <<>> \in Bytes /\ <<>> \in Seq(Bytes) /\ <<"GET">> \in Bytes /\ <<"text">> \in Bytes
  BY DEF Bytes, Byte
<1>3. buf \in [Ends -> Bytes]
  BY <1>2 DEF Init
<1>4. left \in [Ends -> Bytes]
  BY <1>1, <1>2 DEF Init
<1>5. Types
  BY <1>2, <1>3, <1>4, Zenon DEF Init, Types, Pcs, Ends
<1>6. Unconnected /\ EndedByPeer /\ ServerCause
  BY DEF Init, Unconnected, EndedByPeer, ServerCause, Cause, Ends
<1>7. Directions
  <2> SUFFICES ASSUME NEW e \in Ends
               PROVE  Intact(<<>>, <<>>, <<>>, <<>>, <<>>, Gone(Peer(e)))
    <3>1. \A d \in Ends : Peer(d) \in Ends
      BY DEF Ends, Peer
    <3> QED
      BY <3>1 DEF Init, Directions
  <2>1. FlattenSeq(<<>>) = <<>>
    BY DEF FlattenSeq
  <2>2. Cat(Cat(Cat(<<>>, <<>>), <<>>), <<>>) = <<>>
    BY <1>2, CatEmpty
  <2>3. Len(<<>>) <= RIO_BUFSIZE /\ Len(<<>>) < MAXLINE - 1 /\ ~(\E i : i \in 1 .. Len(<<>>) - 1)
    BY HttpAssumption
  <2> QED
    BY <2>1, <2>2, <2>3 DEF Intact
<1> QED
  BY <1>5, <1>6, <1>7 DEF HttpInv

-----------------------------------------------------------------------------
(* What a step does to the two programs, as opposed to their bytes.        *)

Controlled ==
  /\ request' = request
  /\ DOMAIN pc' = Ends /\ \A d \in Ends : pc'[d] \in Pcs(d)
  /\ ended' \in [Ends -> {"open", "closed", "reset"}]
  /\ Unconnected' /\ EndedByPeer' /\ ServerCause'
  /\ \A d \in Ends : Gone(d) => Gone(d)'

(* An end that takes part in the connection. *)
Engaged(e) == ~Gone(e) /\ pc[e] \notin {"no connection", "connecting"}

LEMMA EndsFacts ==
  /\ "server" \in Ends /\ "client" \in Ends
  /\ Peer("server") = "client" /\ Peer("client") = "server"
  /\ \A e \in Ends : Peer(e) \in Ends /\ Peer(e) # e /\ Peer(Peer(e)) = e
  /\ \A d, e \in Ends : d # e => d = Peer(e)
BY DEF Ends, Peer

LEMMA Control ==
  ASSUME HttpInv, NEW e \in Ends, Engaged(e), request' = request,
         DOMAIN pc' = Ends, pc'[e] \in Pcs(e) \ {"no connection", "connecting"},
         \A d \in Ends : d # e => pc'[d] = pc[d],
         ended' \in [Ends -> {"open", "closed", "reset"}],
         \A d \in Ends : ended'[d] # ended[d] => Gone(Peer(d))',
         e = "server" => Cause(pc'["server"])
  PROVE  Controlled
<1>1. \A d \in Ends : pc'[d] \in Pcs(d)
  BY DEF HttpInv, Types
<1>2. \A d \in Ends : Gone(d) => Gone(d)'
  BY DEF Gone, Engaged
<1>3. Unconnected'
  <2>1. pc["server"] # "no connection" /\ pc["client"] # "connecting"
    BY DEF HttpInv, Unconnected, Engaged, Gone, Failures, Ends
  <2>2. pc'["server"] # "no connection" /\ pc'["client"] # "connecting"
    BY <2>1, EndsFacts DEF Ends
  <2> QED
    BY <2>2 DEF Unconnected
<1>4. EndedByPeer'
  BY <1>2, EndsFacts DEF HttpInv, EndedByPeer
<1>5. ServerCause'
  <2>1. Cause(pc'["server"])
    <3>1. CASE e = "server"
      BY <3>1
    <3>2. CASE e # "server"
      <4>1. pc'["server"] = pc["server"]
        BY <3>2, EndsFacts
      <4> QED
        BY <4>1 DEF HttpInv, ServerCause
    <3> QED
      BY <3>1, <3>2
  <2>2. Target' = Target /\ \A kinds : Found(kinds)' = Found(kinds)
    BY Zenon DEF Target, Found
  <2>3. Gone("client") => Gone("client")'
    BY <1>2, EndsFacts
  <2> QED
    BY <2>1, <2>2, <2>3 DEF ServerCause, Cause
<1> QED
  BY <1>1, <1>2, <1>3, <1>4, <1>5 DEF Controlled

LEMMA LeaveControl ==
  ASSUME HttpInv, NEW e \in Ends, Engaged(e), request' = request,
         NEW how \in (Failures \union {"closed", "vanished"}) \cap Pcs(e), Leave(e, how),
         e = "server" => Cause(how)
  PROVE  Controlled /\ wire' = wire
<1>1. /\ DOMAIN pc' = Ends /\ pc'[e] = how
      /\ \A d \in Ends : d # e => pc'[d] = pc[d]
  BY DEF HttpInv, Types, Leave
<1>2. /\ ended' \in [Ends -> {"open", "closed", "reset"}]
      /\ \A d \in Ends : d # Peer(e) => ended'[d] = ended[d]
  BY DEF HttpInv, Types, Leave
<1>3. Gone(e)'
  BY <1>1 DEF Gone
<1>4. \A d \in Ends : ended'[d] # ended[d] => Gone(Peer(d))'
  BY <1>2, <1>3, EndsFacts
<1>5. pc'[e] \in Pcs(e) \ {"no connection", "connecting"}
  BY <1>1 DEF Failures
<1>6. (e = "server" => Cause(pc'["server"])) /\ wire' = wire
  BY <1>1 DEF Leave
<1>7. Controlled
  BY <1>1, <1>2, <1>4, <1>5, <1>6, Control
<1> QED
  BY <1>6, <1>7

LEMMA RespondControl ==
  ASSUME HttpInv, Engaged("server"), request' = request,
         NEW bytes \in Bytes, NEW next \in {"writing", "forking"}, Respond(bytes, next),
         Cause(next)
  PROVE  Controlled /\ left' \in [Ends -> Bytes]
<1>1. /\ DOMAIN pc' = Ends /\ pc'["server"] = next
      /\ \A d \in Ends : d # "server" => pc'[d] = pc[d]
  BY EndsFacts DEF HttpInv, Types, Respond
<1>2. next \in Pcs("server") \ {"no connection", "connecting"}
  BY DEF Pcs
<1>3. ended' = ended /\ ended \in [Ends -> {"open", "closed", "reset"}]
  BY DEF HttpInv, Types, Respond
<1>4. Controlled
  BY <1>1, <1>2, <1>3, EndsFacts, Control
<1>5. left' \in [Ends -> Bytes]
  BY EndsFacts DEF HttpInv, Types, Respond
<1> QED
  BY <1>4, <1>5

LEMMA WritingHasNoCause ==
  Cause("writing") /\ Cause("closed") /\ Cause("waiting") /\ Cause("headers")
BY DEF Cause

(* A step that ends the server with a cause. *)
LEMMA ServerFailsControl ==
  ASSUME HttpInv, Engaged("server"), request' = request,
         NEW how \in Failures, ServerFails(how), Cause(how)
  PROVE  Controlled /\ wire' = wire /\ left' \in [Ends -> Bytes]
<1>1. how \in (Failures \union {"closed", "vanished"}) \cap Pcs("server")
  BY DEF Pcs
<1>2. Controlled /\ wire' = wire
  BY <1>1, EndsFacts, LeaveControl DEF ServerFails
<1> QED
  BY <1>2 DEF ServerFails, HttpInv, Types

LEMMA RequestFailsControl ==
  ASSUME HttpInv, Engaged("server"), request' = request, RequestFails
  PROVE  Controlled /\ left' \in [Ends -> Bytes]
<1>1. CASE Respond(requestError, "writing")
  BY <1>1, RespondControl, ResponseTypes, WritingHasNoCause
<1>2. CASE request.long /\ ServerFails("overrun")
  <2>1. Cause("overrun") /\ "overrun" \in Failures
    BY <1>2 DEF Cause, Failures
  <2> QED
    BY <1>2, <2>1, ServerFailsControl
<1> QED
  BY <1>1, <1>2 DEF RequestFails

LEMMA requestServeStaticControl ==
  ASSUME HttpInv, Engaged("server"), request' = request,
         Target.is_static, NEW kind \in {"file", "program", "empty"}, Found({kind}),
         requestServeStatic(kind)
  PROVE  Controlled /\ left' \in [Ends -> Bytes]
<1>1. CASE Respond(StaticHead \o <<"content">>, "writing")
  BY <1>1, RespondControl, ResponseTypes, WritingHasNoCause
<1>2. CASE kind = "empty" /\ Exit("server") /\ UNCHANGED left
  <2>1. Cause("exited") /\ "exited" \in Failures /\ ServerFails("exited")
    BY <1>2 DEF Cause, Failures, Exit, ServerFails
  <2> QED
    BY <2>1, ServerFailsControl
<1>3. CASE ServerFails("Open failed")
  <2>1. Cause("Open failed") /\ "Open failed" \in Failures
    BY DEF Cause, Failures, Found
  <2> QED
    BY <1>3, <2>1, ServerFailsControl
<1> QED
  BY <1>1, <1>2, <1>3 DEF requestServeStatic

(* What serving a request comes to. *)
LEMMA ServeRequestDoes ==
  ASSUME ServeRequest
  PROVE  \/ /\ Target.is_static
            /\ \E kind \in {"file", "program", "empty"} : Found({kind}) /\ requestServeStatic(kind)
         \/ /\ ~Target.is_static /\ Found({"program"})
            /\ Respond(DynamicHead, "forking")
         \/ RequestFails
<1> DEFINE kind == stat(Target.filename)
<1>1. \/ Target.is_static /\ kind \in {"file", "program", "empty"} /\ requestServeStatic(kind)
      \/ ~Target.is_static /\ kind = "program" /\ Respond(DynamicHead, "forking")
      \/ RequestFails
  BY Zenon DEF ServeRequest, Target
<1>2. kind # "missing" => Found({kind})
  BY DEF stat, Found
<1> HIDE DEF kind
<1> QED
  BY <1>1, <1>2

LEMMA ServeRequestControl ==
  ASSUME HttpInv, Engaged("server"), request' = request, ServeRequest
  PROVE  Controlled /\ left' \in [Ends -> Bytes]
<1>1. CASE \E kind \in {"file", "program", "empty"} :
             Target.is_static /\ Found({kind}) /\ requestServeStatic(kind)
  BY <1>1, requestServeStaticControl
<1>2. CASE /\ ~Target.is_static /\ Found({"program"})
           /\ Respond(DynamicHead, "forking")
  <2>1. Cause("forking")
    BY <1>2 DEF Cause
  <2> QED
    BY <1>2, <2>1, RespondControl, ResponseTypes
<1>3. CASE RequestFails
  BY <1>3, RequestFailsControl
<1> QED
  BY <1>1, <1>2, <1>3, ServeRequestDoes

LEMMA ServerGotControl ==
  ASSUME HttpInv, pc["server"] \in {"request line", "headers"}, request' = request,
         NEW text, ServerGot(text)
  PROVE  Controlled /\ left' \in [Ends -> Bytes]
<1>1. Engaged("server")
  BY DEF Engaged, Gone, Failures
<1>2. \/ pc' = [pc EXCEPT !["server"] = "headers"] /\ UNCHANGED <<left, ended>>
      \/ RequestFails
      \/ ServeRequest
      \/ UNCHANGED <<pc, left, ended>> /\ pc["server"] = "headers"
  BY Zenon DEF ServerGot, StartRequest, requestReadhdrs
<1>3. CASE pc' = [pc EXCEPT !["server"] = "headers"] /\ UNCHANGED <<left, ended>>
  <2>1. /\ DOMAIN pc' = Ends /\ pc'["server"] = "headers"
        /\ \A d \in Ends : d # "server" => pc'[d] = pc[d]
    BY <1>3, EndsFacts DEF HttpInv, Types
  <2>2. "headers" \in Pcs("server") \ {"no connection", "connecting"}
    BY DEF Pcs
  <2> QED
    BY <1>1, <1>3, <2>1, <2>2, EndsFacts, Control, WritingHasNoCause DEF HttpInv, Types
<1>4. CASE UNCHANGED <<pc, left, ended>> /\ pc["server"] = "headers"
  <2>1. "headers" \in Pcs("server") \ {"no connection", "connecting"}
    BY DEF Pcs
  <2>2. /\ DOMAIN pc' = Ends /\ pc'["server"] = "headers" /\ Cause(pc'["server"])
        /\ \A d \in Ends : pc'[d] = pc[d] /\ ended'[d] = ended[d]
        /\ ended' \in [Ends -> {"open", "closed", "reset"}]
    BY <1>4, WritingHasNoCause DEF HttpInv, Types
  <2> QED
    BY <1>1, <1>4, <2>1, <2>2, EndsFacts, Control DEF HttpInv, Types
<1> QED
  BY <1>1, <1>2, <1>3, <1>4, RequestFailsControl, ServeRequestControl

LEMMA ClientGotControl ==
  ASSUME HttpInv, pc["client"] \in {"header", "body"}, request' = request,
         NEW text, NEW n, ClientGot(text, n)
  PROVE  Controlled /\ left' \in [Ends -> Bytes]
<1>1. /\ DOMAIN pc' = Ends /\ pc'["client"] \in {"header", "body", "closing"}
      /\ \A d \in Ends : d # "client" => pc'[d] = pc[d]
      /\ ended' = ended /\ left' = left
  BY EndsFacts DEF HttpInv, Types, ClientGot
<1>2. pc'["client"] \in Pcs("client") \ {"no connection", "connecting"} /\ Engaged("client")
  BY <1>1 DEF Pcs, Engaged, Gone, Failures
<1> QED
  BY <1>1, <1>2, EndsFacts, Control DEF HttpInv, Types

-----------------------------------------------------------------------------
(* What a step does to the bytes.                                          *)

(* A step that moves no byte. *)
LEMMA QuietStep ==
  ASSUME HttpInv, Controlled, UNCHANGED <<wire, rio, line, history>>,
         buf' \in [Ends -> Bytes], left' \in [Ends -> Bytes]
  PROVE  HttpInv'
<1>1. Types'
  BY DEF HttpInv, Types, Controlled, history
<1>2. Directions'
  <2> SUFFICES ASSUME NEW e \in Ends
               PROVE  Intact(wire[e], rio[e], line[e], heard[e], said[Peer(e)], Gone(Peer(e))')
    BY Zenon DEF Directions, history
  <2>1. Gone(Peer(e)) => Gone(Peer(e))'
    BY EndsFacts DEF Controlled
  <2>2. Intact(wire[e], rio[e], line[e], heard[e], said[Peer(e)], Gone(Peer(e)))
    BY DEF HttpInv, Directions
  <2> QED
    BY <2>1, <2>2 DEF Intact
<1> QED
  BY <1>1, <1>2 DEF HttpInv, Controlled

(* A step of the end e that takes bytes in, to w, r, l and h. *)
LEMMA ReceiverStep ==
  ASSUME HttpInv, Controlled, NEW e \in Ends,
         NEW w \in Bytes, wire' = [wire EXCEPT ![e] = w],
         NEW r \in Bytes, rio' = [rio EXCEPT ![e] = r],
         NEW l \in Bytes, line' = [line EXCEPT ![e] = l],
         NEW h \in Seq(Bytes), heard' = [heard EXCEPT ![e] = h],
         said' = said, buf' \in [Ends -> Bytes], left' \in [Ends -> Bytes],
         Intact(w, r, l, h, said[Peer(e)], Gone(Peer(e)))
  PROVE  HttpInv'
<1>1. Types'
  BY DEF HttpInv, Types, Controlled
<1>2. Directions'
  <2> SUFFICES ASSUME NEW d \in Ends
               PROVE  Intact(wire'[d], rio'[d], line'[d], heard'[d], said[Peer(d)],
                             Gone(Peer(d))')
    BY Zenon DEF Directions
  <2>1. Gone(Peer(d)) => Gone(Peer(d))'
    BY EndsFacts DEF Controlled
  <2>2. Intact(wire'[d], rio'[d], line'[d], heard'[d], said[Peer(d)], Gone(Peer(d)))
    <3>1. CASE d = e
      <4>1. wire'[e] = w /\ rio'[e] = r /\ line'[e] = l /\ heard'[e] = h
        BY DEF HttpInv, Types
      <4> QED
        BY <3>1, <4>1, Zenon
    <3>2. CASE d # e
      <4>1. wire'[d] = wire[d] /\ rio'[d] = rio[d] /\ line'[d] = line[d] /\ heard'[d] = heard[d]
        BY <3>2 DEF HttpInv, Types
      <4> QED
        BY <4>1, Zenon DEF HttpInv, Directions
    <3> QED
      BY <3>1, <3>2
  <2> QED
    BY <2>1, <2>2 DEF Intact
<1> QED
  BY <1>1, <1>2 DEF HttpInv, Controlled

(* The programs are not concerned. *)
LEMMA Uncontrolled ==
  ASSUME HttpInv, UNCHANGED <<request, pc, ended>>,
         pc["server"] = "no connection" => left'["server"] = left["server"]
  PROVE  Controlled
<1>1. Gone("client")' = Gone("client") /\ \A d \in Ends : Gone(d)' = Gone(d)
  BY DEF Gone
<1>2. ServerCause'
  BY <1>1 DEF HttpInv, ServerCause, Cause, Target, Found
<1> QED
  BY <1>1, <1>2, EndsFacts DEF HttpInv, Types, Controlled, Unconnected, EndedByPeer

(* Reading is for the ends that take part. *)
LEMMA ReadersEngaged ==
  ASSUME HttpInv, NEW e \in Ends, pc[e] \in Reading
  PROVE  /\ Engaged(e)
         /\ e = "server" => pc[e] \in {"request line", "headers"}
         /\ e = "client" => pc[e] \in {"header", "body"}
BY DEF HttpInv, Types, Pcs, Reading, Engaged, Gone, Failures

LEMMA rio_readStep ==
  ASSUME HttpInv, NEW e \in Ends, rio_read(e)
  PROVE  HttpInv'
<1>1. PICK k \in 1 .. RIO_BUFSIZE : Refill(e, k)
  BY DEF rio_read
<1> DEFINE w == wire[e]
           r2 == SubSeq(w, 1, k)
           w2 == SubSeq(w, k + 1, Len(w))
<1>2. wire' = [wire EXCEPT ![e] = w2] /\ rio' = [rio EXCEPT ![e] = r2] /\ k <= Len(w)
  BY <1>1, Zenon DEF Refill
<1>3. w \in Bytes /\ line[e] \in Bytes /\ heard[e] \in Seq(Bytes)
  BY DEF HttpInv, Types
<1>4. k \in Nat /\ k <= RIO_BUFSIZE /\ k \in 1 .. Len(w) /\ w # <<>>
  <2>1. Len(w) \in Nat /\ (w = <<>> => Len(w) = 0)
    BY <1>3 DEF Bytes
  <2> QED
    BY <1>2, <2>1, HttpAssumption
<1> HIDE DEF w
<1>5. r2 \in Bytes /\ w2 \in Bytes /\ Len(r2) = k /\ Cat(r2, w2) = w
  BY <1>3, <1>4, Split
<1> HIDE DEF r2, w2
<1>6. Intact(w, <<>>, line[e], heard[e], said[Peer(e)], Gone(Peer(e)))
  <2>1. Intact(wire[e], rio[e], line[e], heard[e], said[Peer(e)], Gone(Peer(e)))
    BY DEF HttpInv, Directions
  <2>2. rio[e] = <<>>
    BY DEF rio_read
  <2> QED
    BY <2>1, <2>2, Zenon DEF w
<1>7. Intact(w2, r2, line[e], heard[e], said[Peer(e)], Gone(Peer(e)))
  BY <1>3, <1>4, <1>5, <1>6, RefillIntact
<1>8. Controlled
  BY Uncontrolled DEF rio_read
<1>9. /\ line' = [line EXCEPT ![e] = line[e]] /\ heard' = [heard EXCEPT ![e] = heard[e]]
      /\ said' = said /\ buf' \in [Ends -> Bytes] /\ left' \in [Ends -> Bytes]
  BY DEF rio_read, history, HttpInv, Types
<1> QED
  BY <1>2, <1>3, <1>5, <1>7, <1>8, <1>9, ReceiverStep

(* rio_readlineb returns. *)
LEMMA ReturnsControl ==
  ASSUME HttpInv, NEW e \in Ends, pc[e] \in Reading, request' = request,
         NEW text \in Bytes, NEW n, Returns(e, text, n)
  PROVE  /\ Controlled
         /\ left' \in [Ends -> Bytes] /\ buf' \in [Ends -> Bytes]
         /\ line' = [line EXCEPT ![e] = <<>>]
         /\ heard' = IF n > 0 THEN [heard EXCEPT ![e] = Append(heard[e], text)] ELSE heard
<1>1. Controlled /\ left' \in [Ends -> Bytes]
  <2>1. CASE e = "server"
    <3>1. ServerGot(text) /\ pc["server"] \in {"request line", "headers"}
      BY <2>1, ReadersEngaged DEF Returns
    <3> QED
      BY <3>1, ServerGotControl
  <2>2. CASE e # "server"
    <3>1. ClientGot(text, n) /\ pc["client"] \in {"header", "body"}
      BY <2>2, EndsFacts, ReadersEngaged DEF Returns
    <3> QED
      BY <3>1, ClientGotControl
  <2> QED
    BY <2>1, <2>2
<1>2. buf' \in [Ends -> Bytes]
  <2>1. PICK garbage \in {EmptyLine, <<"text">>} :
          buf' = [buf EXCEPT ![e] = IF pc[e] = "request line" THEN garbage ELSE text]
    BY Zenon DEF Returns
  <2>2. EmptyLine \in Bytes /\ <<"text">> \in Bytes
    BY DEF EmptyLine, Bytes, Byte
  <2>3. garbage \in Bytes
    BY <2>2
  <2> QED
    BY <2>1, <2>3 DEF HttpInv, Types
<1>3. /\ line' = [line EXCEPT ![e] = <<>>]
      /\ heard' = IF n > 0 THEN [heard EXCEPT ![e] = Append(heard[e], text)] ELSE heard
  BY Zenon DEF Returns
<1> QED
  BY <1>1, <1>2, <1>3

LEMMA ReadByteStep ==
  ASSUME HttpInv, NEW e \in Ends, ReadByte(e)
  PROVE  HttpInv'
<1> DEFINE text == Append(line[e], Head(rio[e]))
           r2 == Tail(rio[e])
           w == wire[e]
           h == heard[e]
<1>1. w \in Bytes /\ rio[e] \in Bytes /\ line[e] \in Bytes /\ h \in Seq(Bytes)
  BY DEF HttpInv, Types
<1>2. rio[e] # <<>> /\ pc[e] \in Reading /\ request' = request /\ wire' = wire /\ said' = said
  BY DEF ReadByte
<1>3. /\ text \in Bytes /\ r2 \in Bytes
      /\ Len(text) = Len(line[e]) + 1 /\ Len(r2) = Len(rio[e]) - 1
      /\ Cat(text, r2) = Cat(line[e], rio[e])
  BY <1>1, <1>2, MoveHead, Zenon
<1>4. Intact(w, rio[e], line[e], h, said[Peer(e)], Gone(Peer(e)))
  BY DEF HttpInv, Directions
<1>5. wire' = [wire EXCEPT ![e] = w] /\ rio' = [rio EXCEPT ![e] = r2]
  <2>1. rio' = [rio EXCEPT ![e] = r2]
    BY Zenon DEF ReadByte
  <2>2. wire' = [wire EXCEPT ![e] = w]
    BY <1>2 DEF HttpInv, Types
  <2> QED
    BY <2>1, <2>2
<1>6. \/ Last(text) = "\n" /\ Returns(e, text, Len(text))
      \/ Last(text) # "\n" /\ Len(text) = MAXLINE - 1 /\ Returns(e, text, MAXLINE)
      \/ /\ Len(text) # MAXLINE - 1
         /\ line' = [line EXCEPT ![e] = text] /\ UNCHANGED <<pc, ended, buf, left, heard>>
  BY Zenon DEF ReadByte
<1> HIDE DEF text, r2, w, h
<1>7. /\ Len(text) <= MAXLINE - 1
      /\ Len(text) # MAXLINE - 1 => Intact(w, r2, text, h, said[Peer(e)], Gone(Peer(e)))
      /\ Whole(text) =>
           Intact(w, r2, <<>>, Append(h, text), said[Peer(e)], Gone(Peer(e)))
  BY <1>1, <1>2, <1>3, <1>4, ByteIntact
<1>8. ASSUME NEW n \in Nat \ {0}, Returns(e, text, n), Whole(text) PROVE HttpInv'
  <2>1. /\ Controlled
        /\ left' \in [Ends -> Bytes] /\ buf' \in [Ends -> Bytes]
        /\ line' = [line EXCEPT ![e] = <<>>]
        /\ heard' = IF n > 0 THEN [heard EXCEPT ![e] = Append(h, text)] ELSE heard
    BY <1>2, <1>3, <1>8, ReturnsControl DEF h
  <2>2. heard' = [heard EXCEPT ![e] = Append(h, text)]
    BY <1>8, <2>1
  <2>3. Append(h, text) \in Seq(Bytes) /\ <<>> \in Bytes
    BY <1>1, <1>3, AppendProperties DEF Bytes
  <2> DEFINE h2 == Append(h, text)
  <2> HIDE DEF h2
  <2>4. /\ h2 \in Seq(Bytes) /\ heard' = [heard EXCEPT ![e] = h2]
        /\ Intact(w, r2, <<>>, h2, said[Peer(e)], Gone(Peer(e)))
    BY <1>7, <1>8, <2>2, <2>3, Zenon DEF h2
  <2> QED
    BY <1>1, <1>2, <1>3, <1>5, <2>1, <2>3, <2>4, ReceiverStep
<1>9. CASE Last(text) = "\n" /\ Returns(e, text, Len(text))
  <2>1. Len(text) \in Nat \ {0}
    BY <1>1, <1>3 DEF Bytes
  <2>2. Whole(text)
    BY <1>9 DEF Whole
  <2> QED
    BY <1>8, <1>9, <2>1, <2>2
<1>10. CASE Len(text) = MAXLINE - 1 /\ Returns(e, text, MAXLINE)
  <2>1. MAXLINE \in Nat \ {0}
    BY HttpAssumption
  <2>2. Whole(text)
    BY <1>10 DEF Whole
  <2> QED
    BY <1>8, <1>10, <2>1, <2>2
<1>11. CASE /\ Len(text) # MAXLINE - 1
            /\ line' = [line EXCEPT ![e] = text] /\ UNCHANGED <<pc, ended, buf, left, heard>>
  <2>1. Controlled
    BY <1>2, <1>11, Uncontrolled
  <2>2. /\ heard' = [heard EXCEPT ![e] = h]
        /\ buf' \in [Ends -> Bytes] /\ left' \in [Ends -> Bytes]
    BY <1>11 DEF HttpInv, Types, h
  <2> QED
    BY <1>1, <1>2, <1>3, <1>5, <1>7, <1>11, <2>1, <2>2, ReceiverStep
<1> QED
  BY <1>6, <1>9, <1>10, <1>11

LEMMA ReadEndStep ==
  ASSUME HttpInv, NEW e \in Ends, ReadEnd(e)
  PROVE  HttpInv'
<1> DEFINE l == line[e]
           h == heard[e]
<1>1. l \in Bytes /\ h \in Seq(Bytes) /\ buf[e] \in Bytes /\ <<>> \in Bytes
  BY DEF HttpInv, Types, Bytes
<1>2. /\ pc[e] \in Reading /\ request' = request
      /\ wire' = wire /\ rio' = rio /\ said' = said
      /\ wire[e] = <<>> /\ rio[e] = <<>> /\ Gone(Peer(e))
  BY DEF ReadEnd, HttpInv, EndedByPeer
<1>3. wire' = [wire EXCEPT ![e] = <<>>] /\ rio' = [rio EXCEPT ![e] = <<>>]
  BY <1>2 DEF HttpInv, Types
<1>4. Intact(<<>>, <<>>, l, h, said[Peer(e)], Gone(Peer(e)))
  <2>1. Intact(wire[e], rio[e], line[e], heard[e], said[Peer(e)], Gone(Peer(e)))
    BY DEF HttpInv, Directions
  <2> QED
    BY <1>2, <2>1, Zenon
<1>5. \/ l = <<>> /\ Returns(e, buf[e], 0)
      \/ l # <<>> /\ Returns(e, l, Len(l) + 1)
  BY Zenon DEF ReadEnd, EndOfLine
<1>6. CASE l = <<>> /\ Returns(e, buf[e], 0)
  <2>1. /\ Controlled
        /\ left' \in [Ends -> Bytes] /\ buf' \in [Ends -> Bytes]
        /\ line' = [line EXCEPT ![e] = <<>>]
        /\ heard' = IF 0 > 0 THEN [heard EXCEPT ![e] = Append(heard[e], buf[e])] ELSE heard
    BY <1>1, <1>2, <1>6, ReturnsControl
  <2>2. heard' = [heard EXCEPT ![e] = h]
    BY <2>1 DEF HttpInv, Types
  <2>3. Intact(<<>>, <<>>, <<>>, h, said[Peer(e)], Gone(Peer(e)))
    BY <1>4, <1>6, Zenon
  <2> HIDE DEF l, h
  <2> QED
    BY <1>1, <1>2, <1>3, <2>1, <2>2, <2>3, ReceiverStep
<1>7. CASE l # <<>> /\ Returns(e, l, Len(l) + 1)
  <2>1. /\ Controlled
        /\ left' \in [Ends -> Bytes] /\ buf' \in [Ends -> Bytes]
        /\ line' = [line EXCEPT ![e] = <<>>]
        /\ heard' = IF Len(l) + 1 > 0 THEN [heard EXCEPT ![e] = Append(h, l)] ELSE heard
    BY <1>1, <1>2, <1>7, ReturnsControl
  <2> HIDE DEF l, h
  <2> DEFINE h2 == Append(h, l)
  <2>2. Len(l) + 1 > 0
    BY <1>1 DEF Bytes
  <2>3. Append(h, l) \in Seq(Bytes)
    BY <1>1, AppendProperties
  <2>4. Intact(<<>>, <<>>, <<>>, Append(h, l), said[Peer(e)], Gone(Peer(e)))
    BY <1>1, <1>2, <1>4, <1>7, EndIntact
  <2> HIDE DEF h2
  <2>5. /\ heard' = [heard EXCEPT ![e] = h2] /\ h2 \in Seq(Bytes)
        /\ Intact(<<>>, <<>>, <<>>, h2, said[Peer(e)], Gone(Peer(e)))
    BY <2>1, <2>2, <2>3, <2>4, Zenon DEF h2
  <2> QED
    BY <1>1, <1>2, <1>3, <2>1, <2>5, ReceiverStep
<1> QED
  BY <1>5, <1>6, <1>7

LEMMA ReadFailsStep ==
  ASSUME HttpInv, NEW e \in Ends, ReadFails(e)
  PROVE  HttpInv'
<1>1. Engaged(e) /\ Leave(e, "exited") /\ Gone(Peer(e))
  BY ReadersEngaged DEF ReadFails, Exit, HttpInv, EndedByPeer
<1>2. "exited" \in (Failures \union {"closed", "vanished"}) \cap Pcs(e)
  BY DEF Pcs, Failures
<1>3. Controlled /\ wire' = wire
  <2>1. e = "server" => Cause("exited")
    BY <1>1, EndsFacts DEF Cause
  <2> QED
    BY <1>1, <1>2, <2>1, EndsFacts, LeaveControl DEF ReadFails
<1> QED
  BY <1>3, QuietStep DEF ReadFails, HttpInv, Types

LEMMA NothingToZero == \A k : k \notin 1 .. 0
OBVIOUS

LEMMA WriteStep ==
  ASSUME HttpInv, NEW e \in Ends, Write(e)
  PROVE  HttpInv'
<1>1. PICK k \in 1 .. Len(left[e]) :
        /\ ~Gone(e) /\ pc[e] # "connecting"
        /\ Advance(e, k)
        /\ LET sent == SubSeq(left[e], 1, k) IN
             IF Gone(Peer(e))
               THEN ended' = [ended EXCEPT ![e] = "reset"] /\ UNCHANGED <<wire, said>>
               ELSE /\ wire' = [wire EXCEPT ![Peer(e)] = @ \o sent]
                    /\ said' = [said EXCEPT ![e] = @ \o sent]
                    /\ UNCHANGED ended
        /\ UNCHANGED <<request, pc, rio, line, buf, heard>>
  BY Zenon DEF Write
<1> DEFINE sent == SubSeq(left[e], 1, k)
           rest == SubSeq(left[e], k + 1, Len(left[e]))
           p == Peer(e)
<1>2. left[e] \in Bytes
  BY DEF HttpInv, Types
<1>3. left' = [left EXCEPT ![e] = rest] /\ sent \in Bytes /\ rest \in Bytes
  <2>1. left' = [left EXCEPT ![e] = rest]
    BY <1>1, Zenon DEF Advance
  <2> HIDE DEF sent, rest
  <2>2. sent \in Bytes /\ rest \in Bytes
    BY <1>2, Split, Zenon DEF sent, rest
  <2> QED
    BY <2>1, <2>2
<1>4. /\ ~Gone(e) /\ pc[e] # "connecting"
      /\ UNCHANGED <<request, pc, rio, line, buf, heard>>
  BY <1>1
<1>5. \/ Gone(p) /\ ended' = [ended EXCEPT ![e] = "reset"] /\ UNCHANGED <<wire, said>>
      \/ /\ ~Gone(p) /\ UNCHANGED ended
         /\ wire' = [wire EXCEPT ![p] = Cat(wire[p], sent)]
         /\ said' = [said EXCEPT ![e] = Cat(said[e], sent)]
  BY <1>1, Zenon DEF Cat
<1> HIDE DEF sent, rest, p
<1>6. p \in Ends /\ p # e /\ Peer(p) = e /\ \A d \in Ends : d # e => d = p
  BY EndsFacts DEF p
<1>7. left' \in [Ends -> Bytes] /\ buf' \in [Ends -> Bytes]
  BY <1>3, <1>4 DEF HttpInv, Types
<1>8. \A d \in Ends : Gone(d)' = Gone(d)
  BY <1>4 DEF Gone
<1>9. pc["server"] # "no connection"
  <2> SUFFICES ASSUME pc["server"] = "no connection" PROVE FALSE
    OBVIOUS
  <2>1. e = "server" /\ left["server"] = <<>>
    BY <1>4, EndsFacts DEF HttpInv, Unconnected, Gone, Failures, Ends
  <2>2. left[e] = <<>> /\ Len(<<>>) = 0
    BY <2>1
  <2>3. Len(left[e]) = 0
    BY <2>2, Zenon
  <2>4. k \in 1 .. 0
    BY <2>3, Zenon
  <2> QED
    BY <2>4, NothingToZero, Zenon
<1>10. CASE Gone(p) /\ ended' = [ended EXCEPT ![e] = "reset"] /\ UNCHANGED <<wire, said>>
  <2>1. EndedByPeer'
    BY <1>6, <1>8, <1>10, EndsFacts DEF HttpInv, Types, EndedByPeer, p
  <2>2. ended' \in [Ends -> {"open", "closed", "reset"}]
    BY <1>10 DEF HttpInv, Types
  <2>3. ServerCause' /\ Unconnected'
    BY <1>4, <1>8, <1>9, EndsFacts
       DEF HttpInv, ServerCause, Cause, Target, Found, Unconnected
  <2>4. Controlled
    BY <1>4, <1>8, <2>1, <2>2, <2>3 DEF HttpInv, Types, Controlled
  <2> QED
    BY <1>4, <1>7, <1>10, <2>4, QuietStep DEF history
<1>11. CASE /\ ~Gone(p) /\ UNCHANGED ended
            /\ wire' = [wire EXCEPT ![p] = Cat(wire[p], sent)]
            /\ said' = [said EXCEPT ![e] = Cat(said[e], sent)]
  <2>1. Controlled
    BY <1>4, <1>9, <1>11, Uncontrolled
  <2>2. Cat(wire[p], sent) \in Bytes /\ Cat(said[e], sent) \in Bytes
    BY <1>3, <1>6, CatType DEF HttpInv, Types
  <2>3. Types'
    BY <1>4, <1>7, <1>11, <2>1, <2>2 DEF HttpInv, Types, Controlled
  <2>4. \A d \in Ends : Intact(wire[d], rio[d], line[d], heard[d], said[Peer(d)], Gone(Peer(d)))
    BY DEF HttpInv, Directions
  <2>5. Intact(Cat(wire[p], sent), rio[p], line[p], heard[p], Cat(said[e], sent), Gone(e))
    <3>1. /\ wire[p] \in Bytes /\ rio[p] \in Bytes /\ line[p] \in Bytes
          /\ heard[p] \in Seq(Bytes)
      BY <1>6 DEF HttpInv, Types
    <3>2. Intact(wire[p], rio[p], line[p], heard[p], said[e], Gone(e))
      BY <1>6, <2>4
    <3> QED
      BY <1>3, <1>4, <3>1, <3>2, WriteIntact
  <2>6. wire'[p] = Cat(wire[p], sent) /\ wire'[e] = wire[e]
    BY <1>6, <1>11 DEF HttpInv, Types
  <2>7. said'[e] = Cat(said[e], sent) /\ said'[p] = said[p]
    BY <1>6, <1>11 DEF HttpInv, Types
  <2>8. Peer(e) = p
    BY DEF p
  <2>9. Intact(wire'[p], rio[p], line[p], heard[p], said'[Peer(p)], Gone(Peer(p)))
    BY <1>6, <2>5, <2>6, <2>7, Zenon
  <2>10. Intact(wire'[e], rio[e], line[e], heard[e], said'[Peer(e)], Gone(Peer(e)))
    BY <2>4, <2>6, <2>7, <2>8, Zenon
  <2>11. \A d \in Ends :
           Intact(wire'[d], rio'[d], line'[d], heard'[d], said'[Peer(d)], Gone(Peer(d)))
    BY <1>4, <1>6, <2>9, <2>10
  <2>12. Directions'
    <3>1. \A d \in Ends : Gone(Peer(d))' = Gone(Peer(d))
      BY <1>8, EndsFacts
    <3> QED
      BY <2>11, <3>1 DEF Directions, Intact
  <2> QED
    BY <2>1, <2>3, <2>12 DEF HttpInv, Controlled
<1> QED
  BY <1>5, <1>10, <1>11

LEMMA WriteFailsStep ==
  ASSUME HttpInv, NEW e \in Ends, WriteFails(e)
  PROVE  HttpInv'
<1>1. ~Gone(e) /\ left[e] # <<>> /\ Gone(Peer(e)) /\ request' = request
  BY DEF WriteFails, HttpInv, EndedByPeer
<1>2. Engaged(e)
  <2>1. pc["server"] # "no connection"
    BY <1>1, EndsFacts DEF HttpInv, Unconnected, Gone, Failures, Ends
  <2>2. pc["client"] # "connecting"
    BY <2>1 DEF HttpInv, Unconnected
  <2> QED
    BY <1>1, <2>1, <2>2 DEF HttpInv, Types, Pcs, Failures, Engaged, Ends
<1>3. CASE pc[e] = "waiting"
  <2>1. left' = [left EXCEPT ![e] = <<>>] /\ UNCHANGED <<pc, wire, ended>>
    BY <1>3 DEF WriteFails, connection
  <2>2. pc["server"] # "no connection"
    BY <1>1, <1>2, EndsFacts DEF HttpInv, Unconnected, Engaged, Gone, Failures, Ends
  <2>3. Controlled
    BY <1>1, <2>1, <2>2, Uncontrolled
  <2>4. <<>> \in Bytes
    BY DEF Bytes
  <2>5. left' \in [Ends -> Bytes]
    BY <2>1, <2>4 DEF HttpInv, Types
  <2> QED
    BY <2>1, <2>3, <2>5, QuietStep DEF WriteFails, HttpInv, Types
<1>4. CASE pc[e] # "waiting"
  <2>1. Leave(e, "exited") /\ left' = left
    BY <1>4 DEF WriteFails, Exit
  <2>2. "exited" \in (Failures \union {"closed", "vanished"}) \cap Pcs(e)
    BY DEF Pcs, Failures
  <2>3. e = "server" => Cause("exited")
    BY <1>1, EndsFacts DEF Cause
  <2>4. Controlled /\ wire' = wire
    BY <1>1, <1>2, <2>1, <2>2, <2>3, EndsFacts, LeaveControl
  <2> QED
    BY <2>1, <2>4, QuietStep DEF WriteFails, HttpInv, Types
<1> QED
  BY <1>3, <1>4

(* A step from one place to the next. *)
LEMMA GoOnStep ==
  ASSUME HttpInv, NEW e \in Ends, Engaged(e),
         NEW next \in Pcs(e) \cap {"waiting", "header"},
         pc' = [pc EXCEPT ![e] = next],
         UNCHANGED <<request, connection, rio, line, buf, history>>,
         left' \in [Ends -> Bytes]
  PROVE  HttpInv'
<1>1. /\ DOMAIN pc' = Ends /\ pc'[e] = next
      /\ \A d \in Ends : d # e => pc'[d] = pc[d]
  BY DEF HttpInv, Types
<1>2. UNCHANGED <<request, wire, ended, rio, line, buf, history>>
  BY DEF connection
<1>3. Controlled
  <2>1. e = "server" => Cause(pc'["server"])
    BY <1>1 DEF Cause
  <2> QED
    BY <1>1, <1>2, <2>1, Control DEF HttpInv, Types
<1> QED
  BY <1>2, <1>3, QuietStep DEF HttpInv, Types

LEMMA CgiStartsStep ==
  ASSUME HttpInv, requestServeDynamic, CgiStarts
  PROVE  HttpInv'
<1>1. Engaged("server") /\ "waiting" \in Pcs("server") \cap {"waiting", "header"}
  BY DEF requestServeDynamic, Engaged, Gone, Failures, Pcs
<1>2. PICK k \in {0, Len(CgiOutput)} :
        left' = [left EXCEPT !["server"] = SubSeq(CgiOutput, 1, k)]
  BY Zenon DEF CgiStarts
<1> DEFINE output == SubSeq(CgiOutput, 1, k)
<1>3. output \in Bytes
  <2>1. CgiOutput \in Seq(Byte)
    BY ResponseTypes DEF Bytes
  <2>2. Len(CgiOutput) \in Nat /\ \A i \in 1 .. Len(CgiOutput) : CgiOutput[i] \in Byte
    BY <2>1, ElementOfSeq
  <2>3. k \in Int /\ \A i \in 1 .. k : CgiOutput[i] \in Byte
    BY <2>2
  <2> QED
    BY <2>3, SubSeqProperties DEF Bytes
<1> HIDE DEF output
<1>4. left' \in [Ends -> Bytes]
  <2>1. left' = [left EXCEPT !["server"] = output]
    BY <1>2, Zenon DEF output
  <2> QED
    BY <1>3, <2>1 DEF HttpInv, Types
<1> QED
  BY <1>1, <1>4, EndsFacts, GoOnStep DEF requestServeDynamic, CgiStarts

LEMMA requestServeDynamicStep ==
  ASSUME HttpInv, requestServeDynamic
  PROVE  HttpInv'
<1>1. CASE CgiStarts
  BY <1>1, CgiStartsStep
<1>2. CASE ServerFails("Fork failed")
  <2>1. Engaged("server") /\ UNCHANGED <<request, rio, line, buf, history>>
    BY DEF requestServeDynamic, Engaged, Gone, Failures
  <2>2. Cause("Fork failed") /\ "Fork failed" \in Failures
    BY DEF requestServeDynamic, HttpInv, ServerCause, Cause, Failures
  <2>3. Controlled /\ wire' = wire /\ left' \in [Ends -> Bytes]
    BY <1>2, <2>1, <2>2, ServerFailsControl
  <2> QED
    BY <2>1, <2>3, QuietStep DEF HttpInv, Types
<1> QED
  BY <1>1, <1>2 DEF requestServeDynamic

(* Close, by either end, and clients that vanish. *)
LEMMA LeavingStep ==
  ASSUME HttpInv, NEW e \in Ends, Engaged(e),
         NEW how \in {"closed", "vanished"} \cap Pcs(e), Leave(e, how),
         UNCHANGED <<request, rio, line, buf, left, history>>
  PROVE  HttpInv'
<1>1. Controlled /\ wire' = wire
  <2>1. Cause(how)
    BY DEF Cause
  <2> QED
    BY <2>1, LeaveControl
<1> QED
  BY <1>1, QuietStep DEF HttpInv, Types

LEMMA CloseConnectionStep == ASSUME HttpInv, CloseConnection PROVE HttpInv'
BY EndsFacts, LeavingStep DEF CloseConnection, Engaged, Gone, Failures, Pcs

LEMMA ClientClosesStep == ASSUME HttpInv, ClientCloses PROVE HttpInv'
BY EndsFacts, LeavingStep DEF ClientCloses, Engaged, Gone, Failures, Pcs

LEMMA ClientVanishesStep == ASSUME HttpInv, ClientVanishes PROVE HttpInv'
<1>1. pc["client"] # "no connection"
  BY EndsFacts DEF HttpInv, Types, Pcs
<1> QED
  BY <1>1, EndsFacts, LeavingStep DEF ClientVanishes, Engaged, Gone, Pcs

LEMMA clientPrintStep == ASSUME HttpInv, clientPrint PROVE HttpInv'
<1>1. /\ Engaged("client")
      /\ "header" \in Pcs("client") \cap {"waiting", "header"}
  BY EndsFacts DEF clientPrint, Engaged, Gone, Failures, Pcs
<1> QED
  BY <1>1, EndsFacts, GoOnStep DEF clientPrint, HttpInv, Types

(* The connection, or none. *)
LEMMA ConnectStep == ASSUME HttpInv, open_clientfd \/ Open_clientfd PROVE HttpInv'
<1>1. /\ pc["client"] = "connecting" /\ pc["server"] = "no connection"
      /\ UNCHANGED <<request, wire, ended, rio, line, buf, left, history>>
  BY DEF HttpInv, Unconnected, open_clientfd, Open_clientfd, connection
<1>2. DOMAIN pc' = Ends /\ \A d \in Ends : pc'[d] \in Pcs(d)
  <2>1. CASE open_clientfd
    <3>1. pc' = [d \in Ends |-> IF d = "server" THEN "request line" ELSE "sending"]
      BY <2>1, Zenon DEF open_clientfd
    <3> QED
      BY <3>1 DEF Pcs
  <2>2. CASE Open_clientfd
    <3>1. /\ DOMAIN pc' = Ends /\ pc'["client"] = "exited"
          /\ \A d \in Ends : d # "client" => pc'[d] = pc[d]
      BY <2>2, EndsFacts DEF HttpInv, Types, Open_clientfd
    <3>2. pc'["client"] \in Pcs("client")
      BY <3>1 DEF Pcs
    <3> QED
      BY <3>1, <3>2 DEF HttpInv, Types
  <2> QED
    BY <2>1, <2>2
<1>3. ~Gone("server") /\ ~Gone("client")
  BY <1>1 DEF Gone, Failures
<1>4. Unconnected' /\ pc'["server"] \in {"request line", "no connection"}
  BY <1>1, EndsFacts DEF HttpInv, Types, Unconnected, open_clientfd, Open_clientfd
<1>5. \A d \in Ends : Gone(d) => Gone(d)'
  BY <1>3 DEF Ends
<1>6. EndedByPeer' /\ ServerCause'
  BY <1>1, <1>4, <1>5, EndsFacts DEF HttpInv, EndedByPeer, ServerCause, Cause
<1>7. Controlled
  BY <1>1, <1>2, <1>4, <1>5, <1>6 DEF HttpInv, Types, Controlled
<1> QED
  BY <1>1, <1>7, QuietStep DEF HttpInv, Types

LEMMA StutterStep == ASSUME HttpInv, UNCHANGED vars PROVE HttpInv'
<1>1. UNCHANGED <<request, pc, wire, ended, rio, line, buf, left, history>>
  BY DEF vars, connection
<1>2. Controlled
  BY <1>1, Uncontrolled
<1> QED
  BY <1>1, <1>2, QuietStep DEF HttpInv, Types

LEMMA NextInv == HttpInv /\ [Next]_vars => HttpInv'
<1> SUFFICES ASSUME HttpInv, [Next]_vars PROVE HttpInv'
  OBVIOUS
<1>1. ASSUME NEW e \in Ends, Step(e) PROVE HttpInv'
  <2>1. \/ rio_read(e) \/ ReadByte(e) \/ ReadEnd(e) \/ ReadFails(e)
        \/ Write(e) \/ WriteFails(e)
    BY <1>1 DEF Step
  <2> QED
    BY <2>1, rio_readStep, ReadByteStep, ReadEndStep, ReadFailsStep, WriteStep, WriteFailsStep
<1>2. CASE requestServeDynamic
  BY <1>2, requestServeDynamicStep
<1>3. CASE CloseConnection
  BY <1>3, CloseConnectionStep
<1>4. CASE open_clientfd \/ Open_clientfd
  BY <1>4, ConnectStep
<1>5. CASE clientPrint
  BY <1>5, clientPrintStep
<1>6. CASE ClientCloses
  BY <1>6, ClientClosesStep
<1>7. CASE ClientVanishes
  BY <1>7, ClientVanishesStep
<1>8. CASE UNCHANGED vars
  BY <1>8, StutterStep
<1> QED
  BY <1>1, <1>2, <1>3, <1>4, <1>5, <1>6, <1>7, <1>8 DEF Next

LEMMA HttpInvariant == Spec => []HttpInv
<1>1. Init => HttpInv
  BY InitInv
<1>2. HttpInv /\ [Next]_vars => HttpInv'
  BY NextInv
<1> QED
  BY <1>1, <1>2, PTL DEF Spec

-----------------------------------------------------------------------------
(* The lines of a request.                                                 *)

LEMMA CatAt ==
  ASSUME NEW a \in Bytes, NEW b \in Bytes
  PROVE  /\ Len(a) \in Nat /\ Len(b) \in Nat /\ Len(Cat(a, b)) = Len(a) + Len(b)
         /\ \A i \in 1 .. Len(a) : Cat(a, b)[i] = a[i]
         /\ \A i \in 1 .. Len(b) : Cat(a, b)[Len(a) + i] = b[i]
<1>1. Len(a) \in Nat /\ Len(b) \in Nat
  BY LenProperties DEF Bytes
<1>2. /\ Len(a \o b) = Len(a) + Len(b)
      /\ \A i \in 1 .. Len(a) + Len(b) :
           (a \o b)[i] = IF i <= Len(a) THEN a[i] ELSE b[i - Len(a)]
  BY ConcatProperties DEF Bytes
<1> HIDE DEF Cat
<1> QED
  BY <1>1, <1>2 DEF Cat

LEMMA CatNothing ==
  /\ \A a, b \in Bytes : Cat(a, b) = <<>> => a = <<>> /\ b = <<>>
  /\ \A a, b \in Bytes : Cat(a, b) = a => b = <<>>
BY ConcatEqualIffEmpty DEF Bytes, Cat

(* The text after f in r.bytes ends with the first "\n" there, if it has   *)
(* one: it is the line after those of f, or a part of it.                  *)
NextLine(r, f, text, rest) ==
  /\ Cat(Cat(f, text), rest) = r.bytes
  /\ f = <<>> \/ r.bytes[Len(f)] = "\n"
  /\ text # <<>> /\ \A i \in 1 .. Len(text) - 1 : text[i] # "\n"

PlaceOfLine(r, f, text, rest) ==
  /\ r.bytes \in Bytes /\ Len(f) \in Nat /\ Len(text) \in Nat \ {0} /\ Len(rest) \in Nat
  /\ Len(Cat(f, text)) = Len(f) + Len(text)
  /\ Len(r.bytes) = Len(f) + Len(text) + Len(rest)
  /\ \A i \in 1 .. Len(text) : r.bytes[Len(f) + i] = text[i]

LEMMA NextLineAt ==
  ASSUME NEW r \in Requests, NEW f \in Bytes, NEW text \in Bytes, NEW rest \in Bytes,
         NextLine(r, f, text, rest)
  PROVE  PlaceOfLine(r, f, text, rest)
<1> DEFINE c == Cat(f, text)
<1>1. r.bytes \in Bytes /\ c \in Bytes /\ Cat(c, rest) = r.bytes
  BY HttpAssumption, CatType DEF NextLine, Bytes
<1>2. /\ Len(f) \in Nat /\ Len(text) \in Nat /\ Len(c) = Len(f) + Len(text)
      /\ \A i \in 1 .. Len(text) : c[Len(f) + i] = text[i]
  BY CatAt
<1>3. Len(text) # 0
  BY EmptySeq DEF NextLine, Bytes
<1> HIDE DEF c
<1>4. /\ Len(rest) \in Nat /\ Len(r.bytes) = Len(c) + Len(rest)
      /\ \A i \in 1 .. Len(c) : r.bytes[i] = c[i]
  <2>1. /\ Len(rest) \in Nat /\ Len(Cat(c, rest)) = Len(c) + Len(rest)
        /\ \A i \in 1 .. Len(c) : Cat(c, rest)[i] = c[i]
    BY <1>1, CatAt
  <2> QED
    BY <1>1, <2>1, Zenon
<1>5. \A i \in 1 .. Len(text) : r.bytes[Len(f) + i] = text[i]
  <2> TAKE i \in 1 .. Len(text)
  <2>1. Len(f) + i \in 1 .. Len(c)
    BY <1>2
  <2> QED
    BY <1>2, <1>4, <2>1
<1> QED
  BY <1>1, <1>2, <1>3, <1>4, <1>5 DEF c, PlaceOfLine

(* Where the lines of a request start. *)
Starts(b) == {1} \union {i + 1 : i \in {j \in DOMAIN b : b[j] = "\n"}}

LEMMA WellFormedMeans ==
  ASSUME NEW r \in Requests, WellFormed(r)
  PROVE  /\ r.bytes \in Bytes /\ Len(r.bytes) \in Nat \ {0}
         /\ r.bytes[1] = "GET" /\ r.bytes[Len(r.bytes)] = "\n"
         /\ \A i, j \in Starts(r.bytes) :
              i < j /\ (\A k \in Starts(r.bytes) : ~(i < k /\ k < j)) => j - i < MAXLINE
         /\ \A i \in Starts(r.bytes) :
              i + 1 < Len(r.bytes) => SubSeq(r.bytes, i, i + 1) # EmptyLine
<1> DEFINE b == r.bytes
           end == <<"\n", "\r", "\n">>
<1>1. b \in Bytes /\ Len(b) \in Nat \ {0} /\ DOMAIN b = 1 .. Len(b)
  BY HttpAssumption, EmptySeq, LenProperties DEF Bytes
<1>2. /\ Head(b) = "GET" /\ IsSuffix(end, b)
      /\ \A i, j \in Starts(b) :
           i < j /\ (\A k \in Starts(b) : ~(i < k /\ k < j)) => j - i < MAXLINE
      /\ \A i \in Starts(b) : i + 1 < Len(b) => SubSeq(b, i, i + 1) # EmptyLine
  BY Zenon DEF WellFormed, Starts
<1> HIDE DEF b
<1>3. b[1] = "GET"
  BY <1>1, <1>2 DEF Bytes
<1>4. b[Len(b)] = "\n"
  <2>1. end \in Seq(Byte) /\ Len(end) = 3 /\ end[3] = "\n"
    BY DEF Byte
  <2> HIDE DEF end
  <2> DEFINE p == Reverse(end)
             q == Reverse(b)
  <2>2. p[1] = "\n" /\ Len(p) = 3 /\ DOMAIN p = 1 .. 3
    <3>1. p = [i \in 1 .. 3 |-> end[(3 - i) + 1]]
      BY <2>1 DEF Reverse
    <3>2. \A i \in 1 .. 3 : end[(3 - i) + 1] \in Byte
      <4>1. \A i \in 1 .. 3 : (3 - i) + 1 \in 1 .. Len(end)
        BY <2>1
      <4> QED
        BY <2>1, <4>1, ElementOfSeq
    <3> HIDE DEF p
    <3>3. p \in Seq(Byte)
      BY <3>1, <3>2
    <3> QED
      BY <2>1, <3>1, <3>3
  <2>3. q[1] = b[Len(b)]
    <3>1. q = [i \in 1 .. Len(b) |-> b[(Len(b) - i) + 1]]
      BY DEF Reverse
    <3> HIDE DEF q
    <3> QED
      BY <1>1, <3>1
  <2>4. SubSeq(p, 1, 3) = SubSeq(q, 1, 3)
    BY <1>2, <2>2 DEF IsSuffix, IsPrefix
  <2> HIDE DEF p, q
  <2>5. SubSeq(p, 1, 3) = [i \in 1 .. 3 |-> p[i]] /\ SubSeq(q, 1, 3) = [i \in 1 .. 3 |-> q[i]]
    OBVIOUS
  <2>6. 1 \in 1 .. 3
    OBVIOUS
  <2>7. p[1] = q[1]
    <3>1. [i \in 1 .. 3 |-> p[i]] = [i \in 1 .. 3 |-> q[i]]
      BY <2>4, <2>5, Zenon
    <3> QED
      BY <2>6, <3>1
  <2> QED
    BY <2>2, <2>3, <2>7
<1> QED
  BY <1>1, <1>2, <1>3, <1>4 DEF b

(* A line of a request starts where the one before ends. *)
LEMMA StartsAfter ==
  ASSUME NEW r \in Requests, NEW f \in Bytes, r.bytes \in Bytes, Len(f) \in Nat,
         f = <<>> \/ r.bytes[Len(f)] = "\n", Len(f) <= Len(r.bytes)
  PROVE  Len(f) + 1 \in Starts(r.bytes)
<1>1. CASE f = <<>>
  <2>1. Len(f) = 0
    BY <1>1, EmptySeq
  <2> QED
    BY <2>1 DEF Starts
<1>2. CASE f # <<>> /\ r.bytes[Len(f)] = "\n"
  <2>1. Len(f) # 0
    BY <1>2, EmptySeq DEF Bytes
  <2>2. DOMAIN r.bytes = 1 .. Len(r.bytes) /\ Len(r.bytes) \in Nat
    BY LenProperties DEF Bytes
  <2>3. Len(f) \in DOMAIN r.bytes
    BY <2>1, <2>2
  <2> QED
    BY <1>2, <2>3 DEF Starts
<1> QED
  BY <1>1, <1>2

(* What is MAXLINE - 1 bytes long without "\n" is no line of such a request. *)
LEMMA LineFits ==
  ASSUME NEW r \in Requests, WellFormed(r),
         NEW f \in Bytes, NEW text \in Bytes, NEW rest \in Bytes,
         NextLine(r, f, text, rest), Len(text) = MAXLINE - 1
  PROVE  text[Len(text)] = "\n"
<1>a. /\ r.bytes \in Bytes /\ Len(f) \in Nat /\ Len(text) \in Nat \ {0} /\ Len(rest) \in Nat
      /\ Len(r.bytes) = Len(f) + Len(text) + Len(rest)
      /\ \A i \in 1 .. Len(text) : r.bytes[Len(f) + i] = text[i]
  <2>1. PlaceOfLine(r, f, text, rest)
    BY NextLineAt
  <2> QED
    BY <2>1, Zenon DEF PlaceOfLine
<1> DEFINE b == r.bytes
           n == Len(f)
           m == Len(text)
           S == {j \in n + 1 .. Len(b) : b[j] = "\n"}
<1>1. /\ b \in Bytes /\ n \in Nat /\ m \in Nat \ {0} /\ Len(b) \in Nat
      /\ n + m <= Len(b)
      /\ \A i \in 1 .. m : b[n + i] = text[i]
      /\ \A i \in 1 .. m - 1 : text[i] # "\n"
      /\ m + 1 = MAXLINE /\ m = Len(text)
  <2>2. Len(text) + 1 = MAXLINE
    <3>1. MAXLINE \in Nat
      BY HttpAssumption, Zenon
    <3> QED
      BY <3>1
  <2>3. \A i \in 1 .. Len(text) - 1 : text[i] # "\n"
    BY DEF NextLine
  <2>4. Len(r.bytes) \in Nat /\ Len(f) + Len(text) <= Len(r.bytes)
    BY <1>a
  <2> QED
    BY <1>a, <2>2, <2>3, <2>4, Zenon
<1>2. /\ b[Len(b)] = "\n" /\ DOMAIN b = 1 .. Len(b)
      /\ \A i, j \in Starts(b) :
           i < j /\ (\A k \in Starts(b) : ~(i < k /\ k < j)) => j - i < MAXLINE
  BY <1>1, WellFormedMeans, LenProperties DEF Bytes
<1>3. n + 1 \in Starts(b)
  BY <1>1, StartsAfter DEF NextLine
<1> HIDE DEF b, n, m
<1> SUFFICES ASSUME text[m] # "\n" PROVE FALSE
  BY <1>1
<1>4. \A i \in 1 .. m : b[n + i] # "\n"
  BY <1>1
<1>5. Len(b) \in S
  BY <1>1, <1>2
<1>6. PICK x \in S : \A y \in S : x <= y
  <2>1. S \subseteq Nat /\ S # {}
    BY <1>1, <1>5
  <2> HIDE DEF S
  <2> QED
    BY <2>1, LeastElement
<1>7. x \in n + 1 .. Len(b) /\ b[x] = "\n"
  BY <1>6
<1>8. n + m < x
  <2> SUFFICES ASSUME ~(n + m < x) PROVE FALSE
    OBVIOUS
  <2>1. x - n \in 1 .. m /\ n + (x - n) = x
    BY <1>1, <1>7
  <2> QED
    BY <1>4, <1>7, <2>1
<1>9. x + 1 \in Starts(b)
  <2>1. x \in DOMAIN b
    BY <1>1, <1>2, <1>7
  <2> QED
    BY <1>7, <2>1 DEF Starts
<1>10. \A k \in Starts(b) : ~(n + 1 < k /\ k < x + 1)
  <2> SUFFICES ASSUME NEW k \in Starts(b), n + 1 < k, k < x + 1 PROVE FALSE
    OBVIOUS
  <2>1. k # 1
    BY <1>1
  <2>2. PICK j \in DOMAIN b : b[j] = "\n" /\ k = j + 1
    BY <2>1 DEF Starts
  <2>3. j \in 1 .. Len(b) /\ n + 1 < j + 1 /\ j + 1 < x + 1
    BY <1>2, <2>2
  <2>4. j \in S /\ ~(x <= j)
    BY <1>1, <1>7, <2>2, <2>3
  <2> HIDE DEF S
  <2> QED
    BY <1>6, <2>4
<1>11. n + 1 < x + 1 /\ ~((x + 1) - (n + 1) < MAXLINE)
  BY <1>1, <1>7, <1>8
<1> QED
  BY <1>2, <1>3, <1>9, <1>10, <1>11

(* The empty line is the last one, and a line that ends in "\n" is whole.  *)
LEMMA LineRead ==
  ASSUME NEW r \in Requests, WellFormed(r),
         NEW f \in Bytes, NEW text \in Bytes, NEW rest \in Bytes,
         NextLine(r, f, text, rest)
  PROVE  /\ f = <<>> => Head(text) = "GET"
         /\ text = EmptyLine => Cat(f, text) = r.bytes
         /\ text[Len(text)] = "\n" =>
              /\ Len(Cat(f, text)) \in DOMAIN r.bytes
              /\ r.bytes[Len(Cat(f, text))] = "\n"
<1> DEFINE b == r.bytes
           n == Len(f)
           m == Len(text)
<1>1. /\ b \in Bytes /\ n \in Nat /\ m \in Nat \ {0} /\ Len(rest) \in Nat
      /\ Len(b) = n + m + Len(rest) /\ Len(Cat(f, text)) = n + m
      /\ \A i \in 1 .. m : b[n + i] = text[i]
  BY NextLineAt DEF PlaceOfLine
<1>2. /\ b[1] = "GET" /\ DOMAIN b = 1 .. Len(b)
      /\ \A i \in Starts(b) : i + 1 < Len(b) => SubSeq(b, i, i + 1) # EmptyLine
  BY <1>1, WellFormedMeans, LenProperties DEF Bytes
<1>3. n + 1 \in Starts(b)
  BY <1>1, StartsAfter DEF NextLine
<1>4. ASSUME f = <<>> PROVE Head(text) = "GET"
  <2>1. n = 0
    BY <1>4, EmptySeq
  <2>2. 1 \in 1 .. m /\ n + 1 = 1
    BY <1>1, <2>1
  <2>3. text[1] = "GET"
    BY <1>1, <1>2, <2>2
  <2> QED
    BY <2>3 DEF Bytes
<1>5. ASSUME text = EmptyLine PROVE Cat(f, text) = b
  <2>1. m = 2 /\ text[1] = "\r" /\ text[2] = "\n"
    BY <1>5 DEF EmptyLine
  <2> HIDE DEF b, n, m
  <2>2. b[n + 1] = "\r" /\ b[n + 2] = "\n"
    BY <1>1, <2>1
  <2>3. SubSeq(b, n + 1, n + 2) = EmptyLine
    <3>1. n + 1 \in 1 .. Len(b) /\ n + 2 \in n + 1 .. Len(b)
      BY <1>1, <2>1
    <3>2. \A i \in n + 1 .. n + 2 : b[i] \in Byte
      BY <1>1, <2>2 DEF Byte
    <3> DEFINE s == SubSeq(b, n + 1, n + 2)
    <3>3. s \in Seq(Byte) /\ Len(s) = 2 /\ \A i \in 1 .. 2 : s[i] = b[n + 1 + i - 1]
      <4>1. n + 1 <= n + 2 /\ (n + 2) - (n + 1) + 1 = 2 /\ n + 1 \in Int /\ n + 2 \in Int
        BY <1>1
      <4> QED
        BY <3>2, <4>1, SubSeqProperties
    <3> HIDE DEF s
    <3>4. s[1] = "\r" /\ s[2] = "\n"
      <4>1. n + 1 + 1 - 1 = n + 1 /\ n + 1 + 2 - 1 = n + 2
        BY <1>1
      <4> QED
        BY <2>2, <3>3, <4>1
    <3>5. EmptyLine \in Seq(Byte) /\ Len(EmptyLine) = 2
          /\ EmptyLine[1] = "\r" /\ EmptyLine[2] = "\n"
      BY DEF EmptyLine, Byte
    <3>6. s = EmptyLine
      BY <3>3, <3>4, <3>5, SeqEqual
    <3> QED
      BY <3>6 DEF s
  <2>4. Len(rest) = 0
    <3>1. (n + 1) + 1 = n + 2
      BY <1>1
    <3>2. ~((n + 1) + 1 < Len(b))
      BY <1>2, <1>3, <2>3, <3>1
    <3> QED
      BY <1>1, <2>1, <3>1, <3>2
  <2>5. rest = <<>>
    BY <2>4, EmptySeq DEF Bytes
  <2>6. Cat(f, text) \in Bytes /\ Cat(Cat(f, text), rest) = b
    BY CatType DEF NextLine, b
  <2> QED
    BY <2>5, <2>6, CatEmpty
<1>6. ASSUME text[m] = "\n" PROVE n + m \in DOMAIN b /\ b[n + m] = "\n"
  <2> HIDE DEF b, n, m
  <2>1. m \in 1 .. m /\ n + m \in 1 .. Len(b)
    BY <1>1
  <2> QED
    BY <1>1, <1>2, <1>6, <2>1
<1> QED
  BY <1>1, <1>4, <1>5, <1>6
-----------------------------------------------------------------------------
(* What each end has read when it ends.                                    *)

(* A client comes to its end, unless it vanishes, only after its server. *)
LeavesLast ==
  pc["client"] \in {"closing", "closed", "exited"} =>
    Gone("server") \/ pc["server"] = "no connection"

(* What a client has written and what it has yet to write is its request. *)
AllSent == ~Gone("server") => Cat(said["client"], left["client"]) = request.bytes

Unbroken(text) == \A i \in 1 .. Len(text) : text[i] # "\n"

(* The lines that the server has read end where lines of the request end. *)
ReadSoFar(b, p, h) ==
  /\ p \in {"no connection", "request line"} => h = <<>>
  /\ p = "headers" =>
       /\ Len(FlattenSeq(h)) \in DOMAIN b
       /\ b[Len(FlattenSeq(h))] = "\n"
  /\ p \in {"writing", "forking", "waiting", "closed"} => FlattenSeq(h) = b

Progress == WellFormed(request) /\ pc["client"] # "vanished"
  => ReadSoFar(request.bytes, pc["server"], heard["server"])

Responses ==
  {requestError, StaticHead \o <<"content">>, DynamicHead, DynamicHead \o CgiOutput}

(* What the server says, when it says all of it, by the place it is at. *)
Answers(p) ==
  CASE p = "writing" -> {requestError, StaticHead \o <<"content">>}
    [] p = "forking" -> {DynamicHead}
    [] p = "waiting" -> {DynamicHead, DynamicHead \o CgiOutput}
    [] OTHER -> {<<>>}

(* A server whose client stays writes the whole of a response. *)
Saying == pc["client"] # "vanished" =>
  /\ ~Gone("server") => Cat(said["server"], left["server"]) \in Answers(pc["server"])
  /\ pc["server"] = "closed" => said["server"] \in Responses

(* A client that ends in order has read all that its server has written. *)
HeardAll ==
  pc["client"] \in {"closing", "closed"} => FlattenSeq(heard["client"]) = said["server"]

(* The server's Close resets no connection of which it has read everything. *)
NoReset ==
  WellFormed(request) /\ pc["client"] # "vanished" /\ pc["server"] = "closed" =>
    ended["client"] # "reset" /\ left["client"] = <<>>

ExitsWithCause == pc["client"] = "exited" =>
  pc["server"] \in Failures \union {"no connection"} \/ ~WellFormed(request)

ReadInv ==
  /\ LeavesLast /\ AllSent /\ Unbroken(line["server"]) /\ Progress
  /\ Saying /\ HeardAll /\ NoReset /\ ExitsWithCause

LEMMA ReadInvMeans == HttpInv /\ ReadInv => ReadBeforeAnswered /\ ClientHasResponse
<1> SUFFICES ASSUME HttpInv, ReadInv PROVE ReadBeforeAnswered /\ ClientHasResponse
  OBVIOUS
<1>1. ReadBeforeAnswered
  BY DEF ReadBeforeAnswered, ReadInv, Progress, ReadSoFar
<1>2. ASSUME pc["client"] = "closed", pc["server"] \notin Failures
      PROVE  FlattenSeq(heard["client"]) \in Responses
  <2>1. Gone("server")
    BY <1>2 DEF HttpInv, Unconnected, ReadInv, LeavesLast
  <2>2. pc["server"] = "closed"
    BY <1>2, <2>1, EndsFacts DEF Gone, HttpInv, Types, Pcs
  <2> QED
    BY <1>2, <2>2 DEF ReadInv, Saying, HeardAll
<1>3. ClientHasResponse
  BY <1>2, Zenon DEF ClientHasResponse, Responses, ReadInv, ExitsWithCause
<1> QED
  BY <1>1, <1>3

LEMMA InitRead == Init => ReadInv
<1> SUFFICES ASSUME Init PROVE ReadInv
  OBVIOUS
<1>1. /\ pc["server"] = "no connection" /\ pc["client"] = "connecting"
      /\ \A e \in Ends : said[e] = <<>> /\ heard[e] = <<>> /\ line[e] = <<>>
      /\ left["server"] = <<>> /\ left["client"] = request.bytes
  BY EndsFacts DEF Init
<1>2. request.bytes \in Bytes /\ <<>> \in Bytes
  <2>1. request.bytes \in Bytes
    BY HttpAssumption DEF Init, Bytes
  <2>2. <<>> \in Bytes
    BY DEF Bytes
  <2> QED
    BY <2>1, <2>2
<1>3. Cat(<<>>, request.bytes) = request.bytes /\ Cat(<<>>, <<>>) = <<>>
  BY <1>2, CatEmpty
<1>4. LeavesLast /\ HeardAll /\ NoReset /\ ExitsWithCause
  BY <1>1 DEF LeavesLast, HeardAll, NoReset, ExitsWithCause
<1>5. AllSent
  BY <1>1, <1>3, EndsFacts, Zenon DEF AllSent
<1>6. Unbroken(line["server"])
  <2>1. line["server"] = <<>>
    BY <1>1, EndsFacts
  <2> QED
    BY <2>1 DEF Unbroken
<1>7. Progress
  BY <1>1, EndsFacts DEF Progress, ReadSoFar
<1>8. Saying
  <2>1. Cat(said["server"], left["server"]) = <<>>
    BY <1>1, <1>3, EndsFacts, Zenon
  <2> QED
    BY <1>1, <2>1 DEF Saying, Answers
<1> QED
  BY <1>4, <1>5, <1>6, <1>7, <1>8 DEF ReadInv

(* While a client has not vanished, its connection is open at both ends    *)
(* for as long as the server is there.                                     *)
LEMMA ClientThere ==
  ASSUME HttpInv, ReadInv, Engaged("server"), pc["client"] # "vanished"
  PROVE  ~Gone("client") /\ ended["server"] = "open" /\ ended["client"] = "open"
<1>1. ~Gone("client")
  <2>1. pc["client"] \in Pcs("client")
    BY EndsFacts DEF HttpInv, Types
  <2>2. Gone("client") => pc["client"] \in {"closed", "exited"}
    BY <2>1 DEF Gone, Failures, Pcs
  <2> QED
    BY <2>2 DEF ReadInv, LeavesLast, Engaged
<1> QED
  BY <1>1, EndsFacts DEF HttpInv, EndedByPeer, Engaged

(* A step of the server. *)
LEMMA ServerSide ==
  ASSUME HttpInv, ReadInv, Engaged("server"), request' = request,
         pc'["client"] = pc["client"], said'["client"] = said["client"],
         left'["client"] = left["client"], Unbroken(line'["server"]),
         pc["client"] # "vanished" => Progress' /\ Saying' /\ NoReset'
  PROVE  ReadInv'
<1>1. pc["client"] \notin {"closing", "closed", "exited"}
  BY DEF ReadInv, LeavesLast, Engaged
<1>2. LeavesLast' /\ HeardAll' /\ ExitsWithCause'
  BY <1>1 DEF LeavesLast, HeardAll, ExitsWithCause
<1>3. AllSent'
  BY DEF ReadInv, AllSent, Engaged
<1>4. Progress' /\ Saying' /\ NoReset'
  <2>1. CASE pc["client"] = "vanished"
    BY <2>1 DEF Progress, Saying, NoReset
  <2> QED
    BY <2>1
<1> QED
  BY <1>2, <1>3, <1>4 DEF ReadInv

(* A step of the client. *)
LEMMA ClientSide ==
  ASSUME HttpInv, ReadInv, request' = request,
         pc'["server"] = pc["server"], heard'["server"] = heard["server"],
         line'["server"] = line["server"], said'["server"] = said["server"],
         left'["server"] = left["server"],
         pc["client"] = "vanished" => pc'["client"] = "vanished",
         LeavesLast', AllSent', HeardAll', NoReset', ExitsWithCause'
  PROVE  ReadInv'
<1>1. Progress'
  BY Zenon DEF ReadInv, Progress
<1>2. Saying'
  BY DEF ReadInv, Saying, Gone
<1>3. Unbroken(line["server"])'
  BY DEF ReadInv
<1> QED
  BY <1>1, <1>2, <1>3 DEF ReadInv

LEMMA QuietRead ==
  ASSUME HttpInv, ReadInv, UNCHANGED <<request, pc, ended, line, left, said, heard>>
  PROVE  ReadInv'
BY DEF ReadInv, LeavesLast, AllSent, Progress, Saying, HeardAll, NoReset, ExitsWithCause, Gone

(* With the whole request read nothing is left of it anywhere. *)
LEMMA NothingLeft ==
  ASSUME NEW f \in Bytes, NEW l \in Bytes, NEW r \in Bytes, NEW w \in Bytes, NEW x \in Bytes,
         Cat(Cat(Cat(Cat(f, l), r), w), x) = f
  PROVE  w = <<>> /\ x = <<>>
<1>1. Cat(l, r) \in Bytes /\ Cat(w, x) \in Bytes /\ Cat(Cat(l, r), Cat(w, x)) \in Bytes
  BY CatType
<1>2. Cat(Cat(Cat(Cat(f, l), r), w), x) = Cat(f, Cat(Cat(l, r), Cat(w, x)))
  <2>1. Cat(Cat(f, l), r) = Cat(f, Cat(l, r)) /\ Cat(f, Cat(l, r)) \in Bytes
    BY <1>1, CatType, CatAssociative
  <2>2. Cat(Cat(Cat(f, Cat(l, r)), w), x) = Cat(Cat(f, Cat(l, r)), Cat(w, x))
    BY <2>1, CatAssociative
  <2>3. Cat(Cat(f, Cat(l, r)), Cat(w, x)) = Cat(f, Cat(Cat(l, r), Cat(w, x)))
    BY <1>1, CatAssociative
  <2> QED
    BY <2>1, <2>2, <2>3, Zenon
<1>3. Cat(Cat(l, r), Cat(w, x)) = <<>>
  BY <1>1, <1>2, CatNothing
<1> QED
  BY <1>1, <1>3, CatNothing

-----------------------------------------------------------------------------
(* Steps of the server.                                                    *)

LEMMA FailureNames ==
  {"exited", "Open failed", "Fork failed", "overrun"} \subseteq Failures
BY DEF Failures

(* What the server does with a line. *)
LEMMA ServerGotDoes ==
  ASSUME HttpInv, pc["server"] \in {"request line", "headers"}, NEW text, ServerGot(text)
  PROVE  /\ pc'["client"] = pc["client"] /\ left'["client"] = left["client"]
         /\ \/ /\ pc["server"] = "request line" /\ Head(text) = "GET"
               /\ pc'["server"] = "headers" /\ left'["server"] = left["server"]
            \/ /\ pc["server"] = "request line" /\ Head(text) # "GET"
               /\ \/ pc'["server"] \in Failures
                  \/ pc'["server"] = "writing" /\ left'["server"] = requestError
            \/ /\ pc["server"] = "headers" /\ text # EmptyLine
               /\ pc'["server"] = "headers" /\ left'["server"] = left["server"]
            \/ /\ pc["server"] = "headers" /\ text = EmptyLine
               /\ \/ pc'["server"] \in Failures
                  \/ /\ pc'["server"] \in {"writing", "forking"}
                     /\ left'["server"] \in Answers(pc'["server"])
<1>1. \A bytes, next : Respond(bytes, next) =>
        /\ pc'["client"] = pc["client"] /\ left'["client"] = left["client"]
        /\ pc'["server"] = next /\ left'["server"] = bytes
  <2>1. DOMAIN pc = Ends /\ left \in [Ends -> Bytes]
    BY DEF HttpInv, Types
  <2> QED
    BY <2>1, EndsFacts, Zenon DEF Respond
<1>f. \A how \in Failures : ServerFails(how) =>
        pc'["client"] = pc["client"] /\ left' = left /\ pc'["server"] = how
  <2>1. DOMAIN pc = Ends
    BY DEF HttpInv, Types
  <2> QED
    BY <2>1, EndsFacts DEF ServerFails, Leave
<1>2. CASE pc["server"] = "request line" /\ Head(text) = "GET"
  <2>1. pc' = [pc EXCEPT !["server"] = "headers"] /\ left' = left
    BY <1>2, Zenon DEF ServerGot, StartRequest
  <2>2. /\ pc'["server"] = "headers" /\ pc'["client"] = pc["client"]
    BY <2>1, EndsFacts DEF HttpInv, Types
  <2> QED
    BY <1>2, <2>1, <2>2, Zenon
<1>3. CASE pc["server"] = "request line" /\ Head(text) # "GET"
  <2>1. RequestFails
    BY <1>3, Zenon DEF ServerGot, StartRequest
  <2>2. CASE Respond(requestError, "writing")
    BY <1>1, <1>3, <2>2, Zenon
  <2>3. CASE ServerFails("overrun")
    <3>1. "overrun" \in Failures
      BY DEF Failures
    <3> QED
      BY <1>3, <1>f, <2>3, <3>1
  <2> QED
    BY <2>1, <2>2, <2>3 DEF RequestFails
<1>4. CASE pc["server"] = "headers" /\ text # EmptyLine
  <2>1. pc' = pc /\ left' = left
    BY <1>4 DEF ServerGot, requestReadhdrs, IsEmptyLine
  <2> QED
    BY <1>4, <2>1
<1>5. CASE pc["server"] = "headers" /\ text = EmptyLine
  <2>1. ServeRequest
    BY <1>5 DEF ServerGot, requestReadhdrs, IsEmptyLine
  <2>2. \/ Respond(StaticHead \o <<"content">>, "writing")
        \/ \E how \in Failures : ServerFails(how)
        \/ Respond(DynamicHead, "forking")
        \/ Respond(requestError, "writing")
    BY <2>1, ServeRequestDoes, FailureNames
       DEF RequestFails, requestServeStatic, Exit, ServerFails
  <2>3. /\ StaticHead \o <<"content">> \in Answers("writing")
        /\ requestError \in Answers("writing") /\ DynamicHead \in Answers("forking")
    BY DEF Answers
  <2>4. CASE \E how \in Failures : ServerFails(how)
    <3>1. pc'["server"] \in Failures /\ pc'["client"] = pc["client"] /\ left' = left
      BY <1>f, <2>4
    <3> QED
      BY <1>5, <3>1, Zenon
  <2>5. CASE \E p \in {"writing", "forking"} : \E bytes \in Answers(p) : Respond(bytes, p)
    <3>1. PICK p \in {"writing", "forking"} : \E bytes \in Answers(p) : Respond(bytes, p)
      BY <2>5
    <3>2. PICK bytes \in Answers(p) : Respond(bytes, p)
      BY <3>1
    <3>3. /\ pc'["client"] = pc["client"] /\ left'["client"] = left["client"]
          /\ pc'["server"] = p /\ left'["server"] = bytes
      BY <1>1, <3>2, Zenon
    <3>4. pc'["server"] \in {"writing", "forking"} /\ left'["server"] \in Answers(pc'["server"])
      BY <3>2, <3>3, Zenon
    <3> QED
      BY <1>5, <3>3, <3>4, Zenon
  <2>6. "writing" \in {"writing", "forking"} /\ "forking" \in {"writing", "forking"}
    OBVIOUS
  <2> QED
    BY <2>2, <2>3, <2>4, <2>5, <2>6, Zenon
<1> QED
  BY <1>2, <1>3, <1>4, <1>5

(* A request is answered from the start. *)
LEMMA AnswerStarts ==
  ASSUME HttpInv, ReadInv, pc["server"] \in {"request line", "headers"},
         pc["client"] # "vanished", pc'["client"] = pc["client"], said' = said,
         \/ pc'["server"] = "headers" /\ left'["server"] = left["server"]
         \/ pc'["server"] \in Failures
         \/ /\ pc'["server"] \in {"writing", "forking"}
            /\ left'["server"] \in Answers(pc'["server"])
  PROVE  Saying'
<1>1. Cat(said["server"], left["server"]) = <<>>
  BY DEF ReadInv, Saying, Gone, Failures, Answers
<1>2. said["server"] \in Bytes /\ left["server"] \in Bytes
  BY EndsFacts DEF HttpInv, Types
<1>3. said["server"] = <<>>
  BY <1>1, <1>2, CatNothing
<1>4. CASE pc'["server"] = "headers" /\ left'["server"] = left["server"]
  <2>1. Cat(said'["server"], left'["server"]) \in Answers(pc'["server"])
    BY <1>1, <1>4 DEF Answers
  <2> QED
    BY <1>4, <2>1 DEF Saying
<1>5. CASE pc'["server"] \in Failures
  BY <1>5 DEF Saying, Gone, Failures
<1>6. CASE /\ pc'["server"] \in {"writing", "forking"}
           /\ left'["server"] \in Answers(pc'["server"])
  <2>1. left'["server"] \in Bytes
    BY <1>6, ResponseTypes DEF Answers
  <2>2. said'["server"] = <<>>
    BY <1>3
  <2>3. Cat(said'["server"], left'["server"]) = left'["server"]
    BY <2>1, <2>2, CatEmpty, Zenon
  <2>4. Cat(said'["server"], left'["server"]) \in Answers(pc'["server"])
    BY <1>6, <2>3, Zenon
  <2> QED
    BY <1>6, <2>4 DEF Saying
<1> QED
  BY <1>4, <1>5, <1>6

(* What rio_readlineb returns before the end of the stream. *)
Returned(text) ==
  /\ text # <<>> /\ \A i \in 1 .. Len(text) - 1 : text[i] # "\n"
  /\ text[Len(text)] = "\n" \/ Len(text) = MAXLINE - 1

(* A line that the server gets while its client is there. *)
LEMMA LineProgress ==
  ASSUME HttpInv, ReadInv, WellFormed(request), pc["client"] # "vanished",
         pc["server"] \in {"request line", "headers"}, request' = request,
         NEW text \in Bytes, NEW r2 \in Bytes,
         Cat(text, r2) = Cat(line["server"], rio["server"]), Returned(text),
         ServerGot(text),
         heard' = [heard EXCEPT !["server"] = Append(heard["server"], text)]
  PROVE  Progress'
<1> DEFINE h == heard["server"]
           f == FlattenSeq(h)
           l == line["server"]
           r == rio["server"]
           w == wire["server"]
           x == left["client"]
           rest == Cat(Cat(r2, w), x)
           b == request.bytes
<1>1. /\ h \in Seq(Bytes) /\ l \in Bytes /\ r \in Bytes /\ w \in Bytes /\ x \in Bytes
      /\ heard'["server"] = Append(h, text) /\ request \in Requests
  BY EndsFacts DEF HttpInv, Types
<1>2. f \in Bytes /\ FlattenSeq(Append(h, text)) = Cat(f, text)
  BY <1>1, FlattenLines
<1>3. Cat(Cat(Cat(Cat(f, l), r), w), x) = b
  <2>1. Cat(Cat(Cat(f, l), r), w) = said["client"]
    BY EndsFacts DEF HttpInv, Directions, Intact
  <2>2. Cat(said["client"], x) = b
    BY DEF ReadInv, AllSent, Gone, Failures
  <2> QED
    BY <2>1, <2>2, Zenon
<1>4. ReadSoFar(b, pc["server"], h)
  BY DEF ReadInv, Progress
<1>5. f = <<>> \/ b[Len(f)] = "\n"
  <2>1. h = <<>> => f = <<>>
    BY DEF FlattenSeq
  <2> QED
    BY <1>4, <2>1 DEF ReadSoFar
<1>6. pc["server"] = "request line" => f = <<>>
  <2>1. h = <<>> => f = <<>>
    BY DEF FlattenSeq
  <2> QED
    BY <1>4, <2>1 DEF ReadSoFar
<1> HIDE DEF h, f, l, r, w, x, b
<1>7. rest \in Bytes /\ Cat(Cat(f, text), rest) = b
  <2>1. Cat(text, r2) = Cat(l, r)
    BY DEF l, r
  <2> DEFINE y == Cat(f, text)
  <2>2. y \in Bytes /\ Cat(r2, w) \in Bytes /\ Cat(w, x) \in Bytes /\ Cat(y, r2) \in Bytes
    <3>1. y \in Bytes
      BY <1>2, CatType
    <3> HIDE DEF y
    <3> QED
      BY <1>1, <3>1, CatType, Zenon
  <2>3. Cat(y, r2) = Cat(f, Cat(text, r2)) /\ Cat(f, Cat(l, r)) = Cat(Cat(f, l), r)
    <3>1. Cat(Cat(f, text), r2) = Cat(f, Cat(text, r2))
      BY <1>2, CatAssociative, Zenon
    <3>2. Cat(Cat(f, l), r) = Cat(f, Cat(l, r))
      BY <1>1, <1>2, CatAssociative, Zenon
    <3> QED
      BY <3>1, <3>2, Zenon
  <2>4. Cat(y, r2) = Cat(Cat(f, l), r)
    BY <2>1, <2>3, Zenon
  <2> HIDE DEF y
  <2>5. rest \in Bytes /\ rest = Cat(r2, Cat(w, x))
    <3>1. r2 \in Bytes /\ w \in Bytes /\ x \in Bytes /\ Cat(r2, w) \in Bytes
      BY <1>1, <2>2
    <3>2. Cat(Cat(r2, w), x) \in Bytes
      BY <3>1, CatType
    <3>3. Cat(Cat(r2, w), x) = Cat(r2, Cat(w, x))
      BY <3>1, CatAssociative
    <3> QED
      BY <3>2, <3>3
  <2>6. Cat(y, Cat(r2, Cat(w, x))) = Cat(Cat(y, r2), Cat(w, x))
    <3> DEFINE z == Cat(w, x)
    <3>1. y \in Bytes /\ r2 \in Bytes /\ z \in Bytes
      BY <2>2
    <3> HIDE DEF z
    <3>2. Cat(Cat(y, r2), z) = Cat(y, Cat(r2, z))
      BY <3>1, CatAssociative, Zenon
    <3> QED
      BY <3>2 DEF z
  <2>7. Cat(Cat(y, r2), Cat(w, x)) = Cat(Cat(Cat(y, r2), w), x)
    <3> DEFINE z == Cat(y, r2)
    <3>1. z \in Bytes /\ w \in Bytes /\ x \in Bytes
      BY <1>1, <2>2
    <3> HIDE DEF z
    <3>2. Cat(Cat(z, w), x) = Cat(z, Cat(w, x))
      BY <3>1, CatAssociative
    <3> QED
      BY <3>2 DEF z
  <2> QED
    BY <1>3, <2>4, <2>5, <2>6, <2>7, Zenon DEF y
<1> HIDE DEF rest
<1>8. NextLine(request, f, text, rest)
  BY <1>5, <1>7 DEF NextLine, Returned, b
<1>9. text[Len(text)] = "\n"
  <2>1. CASE Len(text) = MAXLINE - 1
    BY <1>1, <1>2, <1>7, <1>8, <2>1, LineFits
  <2> QED
    BY <2>1 DEF Returned
<1>10. /\ f = <<>> => Head(text) = "GET"
       /\ text = EmptyLine => Cat(f, text) = b
       /\ Len(Cat(f, text)) \in DOMAIN b /\ b[Len(Cat(f, text))] = "\n"
  <2>1. /\ f = <<>> => Head(text) = "GET"
        /\ text = EmptyLine => Cat(f, text) = request.bytes
        /\ text[Len(text)] = "\n" =>
             /\ Len(Cat(f, text)) \in DOMAIN request.bytes
             /\ request.bytes[Len(Cat(f, text))] = "\n"
    <3>1. request \in Requests
      BY <1>1
    <3> QED
      BY <1>2, <1>7, <1>8, <3>1, LineRead, Zenon
  <2> QED
    BY <1>9, <2>1, Zenon DEF b
<1>11. \/ pc'["server"] = "headers"
       \/ /\ pc'["server"] \in Failures \union {"writing", "forking"}
          /\ Cat(f, text) = b
       \/ pc'["server"] \in Failures
  BY <1>6, <1>10, ServerGotDoes
<1>12. ReadSoFar(b, pc'["server"], Append(h, text))
  BY <1>2, <1>10, <1>11 DEF ReadSoFar, Failures
<1>13. ReadSoFar(request'.bytes, pc'["server"], heard'["server"])
  BY <1>1, <1>12 DEF b
<1> QED
  BY <1>13 DEF Progress

(* One byte more, of which the line is text then. *)
LEMMA ByteOfLine ==
  ASSUME NEW l \in Bytes, NEW r \in Bytes, r # <<>>, Unbroken(l)
  PROVE  /\ \A i \in 1 .. Len(Append(l, Head(r))) - 1 : Append(l, Head(r))[i] # "\n"
         /\ Last(Append(l, Head(r))) = Append(l, Head(r))[Len(Append(l, Head(r)))]
         /\ Last(Append(l, Head(r))) # "\n" => Unbroken(Append(l, Head(r)))
<1> DEFINE text == Append(l, Head(r))
<1>1. Head(r) \in Byte /\ l \in Seq(Byte) /\ Len(l) \in Nat
  BY HeadTailProperties, LenProperties DEF Bytes
<1>2. /\ Len(text) = Len(l) + 1
      /\ \A i \in 1 .. Len(l) : text[i] = l[i]
  BY <1>1, AppendProperties
<1>3. Last(text) = text[Len(text)]
  BY DEF Last
<1> HIDE DEF text
<1>4. \A i \in 1 .. Len(text) - 1 : text[i] # "\n"
  BY <1>1, <1>2 DEF Unbroken
<1>5. ASSUME Last(text) # "\n" PROVE Unbroken(text)
  <2> SUFFICES ASSUME NEW i \in 1 .. Len(text) PROVE text[i] # "\n"
    BY DEF Unbroken
  <2>1. CASE i = Len(text)
    BY <1>3, <1>5, <2>1
  <2>2. CASE i # Len(text)
    <3>1. i \in 1 .. Len(text) - 1
      BY <1>1, <1>2, <2>2
    <3> QED
      BY <1>4, <3>1
  <2> QED
    BY <2>1, <2>2
<1> QED
  BY <1>3, <1>4, <1>5 DEF text

LEMMA NothingUnbroken == Unbroken(<<>>)
BY DEF Unbroken

LEMMA ServerReadByteRead ==
  ASSUME HttpInv, ReadInv, ReadByte("server")
  PROVE  ReadInv'
<1> DEFINE l == line["server"]
           r == rio["server"]
           text == Append(l, Head(r))
<1>1. /\ l \in Bytes /\ r \in Bytes /\ r # <<>> /\ Unbroken(l)
      /\ Engaged("server") /\ pc["server"] \in {"request line", "headers"}
      /\ request' = request /\ said' = said
  BY EndsFacts, ReadersEngaged DEF ReadByte, HttpInv, Types, ReadInv
<1>2. /\ text \in Bytes /\ Tail(r) \in Bytes /\ Len(text) = Len(l) + 1
      /\ Cat(text, Tail(r)) = Cat(l, r)
  BY <1>1, MoveHead, Zenon
<1>3. /\ \A i \in 1 .. Len(text) - 1 : text[i] # "\n"
      /\ Last(text) = text[Len(text)]
      /\ Last(text) # "\n" => Unbroken(text)
  BY <1>1, ByteOfLine
<1>4. \/ Last(text) = "\n" /\ Returns("server", text, Len(text))
      \/ Last(text) # "\n" /\ Len(text) = MAXLINE - 1 /\ Returns("server", text, MAXLINE)
      \/ /\ Last(text) # "\n"
         /\ line' = [line EXCEPT !["server"] = text] /\ UNCHANGED <<pc, ended, buf, left, heard>>
  BY Zenon DEF ReadByte
<1>5. Len(text) \in Nat \ {0} /\ text # <<>> /\ MAXLINE > 0
  <2>1. Len(l) \in Nat
    BY <1>1, LenProperties DEF Bytes
  <2>2. Len(text) \in Nat \ {0}
    BY <1>2, <2>1
  <2>3. Len(<<>>) = 0
    OBVIOUS
  <2> HIDE DEF text
  <2>4. text # <<>>
    BY <2>2, <2>3
  <2> QED
    BY <2>2, <2>4, HttpAssumption
<1> HIDE DEF l, r, text
<1>6. ASSUME NEW n, n > 0, Returns("server", text, n),
             text[Len(text)] = "\n" \/ Len(text) = MAXLINE - 1
      PROVE  ReadInv'
  <2>1. /\ ServerGot(text)
        /\ line' = [line EXCEPT !["server"] = <<>>]
        /\ heard' = [heard EXCEPT !["server"] = Append(heard["server"], text)]
    <3>1. /\ ServerGot(text) /\ line' = [line EXCEPT !["server"] = <<>>]
          /\ heard' = IF n > 0 THEN [heard EXCEPT !["server"] = Append(@, text)] ELSE heard
      BY <1>6, Zenon DEF Returns
    <3> QED
      BY <1>6, <3>1
  <2>2. Unbroken(line'["server"])
    <3>1. line'["server"] = <<>>
      BY <2>1, EndsFacts DEF HttpInv, Types
    <3> QED
      BY <3>1, NothingUnbroken
  <2>3. /\ pc'["client"] = pc["client"] /\ left'["client"] = left["client"]
        /\ pc'["server"] # "closed"
        /\ \/ pc'["server"] = "headers" /\ left'["server"] = left["server"]
           \/ pc'["server"] \in Failures
           \/ /\ pc'["server"] \in {"writing", "forking"}
              /\ left'["server"] \in Answers(pc'["server"])
    <3>1. requestError \in Answers("writing")
      BY DEF Answers
    <3>2. "writing" \in {"writing", "forking"}
      OBVIOUS
    <3>f. "closed" \notin Failures
      BY DEF Failures
    <3> HIDE DEF text
    <3>3. pc'["server"] = "writing" /\ left'["server"] = requestError =>
            pc'["server"] \in {"writing", "forking"} /\ left'["server"] \in Answers(pc'["server"])
      BY <3>1, <3>2
    <3> QED
      BY <1>1, <2>1, <3>3, <3>f, ServerGotDoes
  <2>4. ASSUME pc["client"] # "vanished" PROVE Progress' /\ Saying' /\ NoReset'
    <3>1. Saying'
      BY <1>1, <2>3, <2>4, AnswerStarts
    <3>2. Progress'
      <4>1. CASE WellFormed(request)
        <5>1. Returned(text)
          BY <1>3, <1>5, <1>6 DEF Returned
        <5> QED
          BY <1>1, <1>2, <2>1, <2>4, <4>1, <5>1, LineProgress DEF l, r
      <4>2. CASE ~WellFormed(request)
        BY <1>1, <4>2 DEF Progress
      <4> QED
        BY <4>1, <4>2
    <3>3. NoReset'
      BY <2>3 DEF NoReset
    <3> QED
      BY <3>1, <3>2, <3>3
  <2> QED
    BY <1>1, <2>2, <2>3, <2>4, ServerSide
<1>7. CASE /\ Last(text) # "\n"
           /\ line' = [line EXCEPT !["server"] = text] /\ UNCHANGED <<pc, ended, buf, left, heard>>
  <2>1. Unbroken(line'["server"])
    <3>1. line'["server"] = text
      BY <1>7, EndsFacts DEF HttpInv, Types
    <3> QED
      BY <1>3, <1>7, <3>1
  <2>2. Progress' /\ Saying' /\ NoReset'
    BY <1>1, <1>7 DEF ReadInv, Progress, Saying, NoReset, Gone
  <2> QED
    BY <1>1, <1>7, <2>1, <2>2, ServerSide
<1>8. CASE Last(text) = "\n" /\ Returns("server", text, Len(text))
  <2>1. Len(text) > 0
    BY <1>5
  <2> QED
    BY <1>3, <1>6, <1>8, <2>1
<1>9. CASE Len(text) = MAXLINE - 1 /\ Returns("server", text, MAXLINE)
  BY <1>5, <1>6, <1>9
<1> QED
  BY <1>4, <1>7, <1>8, <1>9

(* The connection of a client that has not vanished ends for no server     *)
(* that is there, so that these three happen only after it has vanished.   *)
LEMMA ServerReadEndRead ==
  ASSUME HttpInv, ReadInv, ReadEnd("server")
  PROVE  ReadInv'
<1>1. /\ Engaged("server") /\ pc["server"] \in {"request line", "headers"}
      /\ request' = request /\ said' = said /\ ended["server"] # "open"
  BY EndsFacts, ReadersEngaged DEF ReadEnd
<1>2. pc["client"] = "vanished"
  BY <1>1, ClientThere
<1>3. PICK text, n : Returns("server", text, n)
  BY Zenon DEF ReadEnd, EndOfLine
<1>4. ServerGot(text) /\ line' = [line EXCEPT !["server"] = <<>>]
  BY <1>3, Zenon DEF Returns
<1>5. Unbroken(line'["server"])
  <2>1. line'["server"] = <<>>
    BY <1>4, EndsFacts DEF HttpInv, Types
  <2> QED
    BY <2>1, NothingUnbroken
<1>6. pc'["client"] = pc["client"] /\ left'["client"] = left["client"]
  BY <1>1, <1>4, ServerGotDoes
<1> QED
  BY <1>1, <1>2, <1>5, <1>6, ServerSide

LEMMA ServerLeaves ==
  ASSUME HttpInv, NEW how, Leave("server", how)
  PROVE  /\ pc'["client"] = pc["client"] /\ pc'["server"] = how
         /\ ended'["client"] = IF ended["client"] # "open" THEN ended["client"]
                               ELSE IF wire["server"] # <<>> THEN "reset" ELSE "closed"
BY EndsFacts DEF Leave, HttpInv, Types

LEMMA ServerReadFailsRead ==
  ASSUME HttpInv, ReadInv, ReadFails("server")
  PROVE  ReadInv'
<1>1. /\ Engaged("server") /\ ended["server"] # "open"
      /\ UNCHANGED <<request, line, left, said>>
  BY EndsFacts, ReadersEngaged DEF ReadFails, history
<1>2. pc["client"] = "vanished"
  BY <1>1, ClientThere
<1>3. pc'["client"] = pc["client"]
  BY ServerLeaves DEF ReadFails, Exit
<1>4. Unbroken(line'["server"])
  BY <1>1 DEF ReadInv
<1> QED
  BY <1>1, <1>2, <1>3, <1>4, ServerSide

(* An end with something to write takes part in the connection. *)
LEMMA WriterEngaged ==
  ASSUME HttpInv, ~Gone("server"), left["server"] # <<>>
  PROVE  Engaged("server")
<1>1. pc["server"] # "no connection" /\ pc["server"] # "connecting"
  BY EndsFacts DEF HttpInv, Types, Unconnected, Pcs, Failures
<1> QED
  BY <1>1 DEF Engaged

LEMMA ServerWriteFailsRead ==
  ASSUME HttpInv, ReadInv, WriteFails("server")
  PROVE  ReadInv'
<1>1. /\ Engaged("server") /\ ended["server"] # "open"
      /\ UNCHANGED <<request, line, said>>
  BY WriterEngaged DEF WriteFails, history
<1>2. pc["client"] = "vanished"
  BY <1>1, ClientThere
<1>3. pc'["client"] = pc["client"] /\ left'["client"] = left["client"]
  <2>1. CASE pc["server"] = "waiting"
    BY <2>1, EndsFacts DEF WriteFails, HttpInv, Types
  <2>2. CASE pc["server"] # "waiting"
    BY <2>2, ServerLeaves DEF WriteFails, Exit
  <2> QED
    BY <2>1, <2>2
<1>4. Unbroken(line'["server"])
  BY <1>1 DEF ReadInv
<1> QED
  BY <1>1, <1>2, <1>3, <1>4, ServerSide

(* What a write does, with the bytes sent and the rest. *)
Writes(e, sent, rest) ==
  /\ left[e] = Cat(sent, rest) /\ left[e] # <<>> /\ ~Gone(e)
  /\ left' = [left EXCEPT ![e] = rest]
  /\ UNCHANGED <<request, pc, line, heard>>
  /\ \/ Gone(Peer(e)) /\ ended' = [ended EXCEPT ![e] = "reset"] /\ said' = said
     \/ /\ ~Gone(Peer(e)) /\ ended' = ended
        /\ said' = [said EXCEPT ![e] = Cat(said[e], sent)]

LEMMA WriteDoes ==
  ASSUME HttpInv, NEW e \in Ends, Write(e)
  PROVE  \E sent, rest \in Bytes : Writes(e, sent, rest)
<1>1. PICK k \in 1 .. Len(left[e]) :
        /\ ~Gone(e)
        /\ Advance(e, k)
        /\ LET sent == SubSeq(left[e], 1, k) IN
             IF Gone(Peer(e))
               THEN ended' = [ended EXCEPT ![e] = "reset"] /\ UNCHANGED <<wire, said>>
               ELSE /\ wire' = [wire EXCEPT ![Peer(e)] = @ \o sent]
                    /\ said' = [said EXCEPT ![e] = @ \o sent]
                    /\ UNCHANGED ended
        /\ UNCHANGED <<request, pc, rio, line, buf, heard>>
  BY Zenon DEF Write
<1> DEFINE sent == SubSeq(left[e], 1, k)
           rest == SubSeq(left[e], k + 1, Len(left[e]))
<1>2. left[e] \in Bytes
  BY DEF HttpInv, Types
<1>3. sent \in Bytes /\ rest \in Bytes /\ Cat(sent, rest) = left[e]
  BY <1>2, Split, Zenon
<1>4. left[e] # <<>>
  <2> SUFFICES ASSUME left[e] = <<>> PROVE FALSE
    OBVIOUS
  <2>1. k \in 1 .. 0
    <3>1. Len(<<>>) = 0
      OBVIOUS
    <3> QED
      BY <3>1, Zenon
  <2> QED
    BY <2>1, NothingToZero, Zenon
<1>5. left' = [left EXCEPT ![e] = rest]
  BY <1>1, Zenon DEF Advance
<1>6. \/ Gone(Peer(e)) /\ ended' = [ended EXCEPT ![e] = "reset"] /\ said' = said
      \/ /\ ~Gone(Peer(e)) /\ ended' = ended
         /\ said' = [said EXCEPT ![e] = Cat(said[e], sent)]
  BY <1>1, Zenon DEF Cat
<1>7. UNCHANGED <<request, pc, line, heard>> /\ ~Gone(e)
  BY <1>1, Zenon
<1> HIDE DEF sent, rest
<1>8. left[e] = Cat(sent, rest)
  BY <1>3
<1>9. Writes(e, sent, rest)
  BY <1>4, <1>5, <1>6, <1>7, <1>8, Zenon DEF Writes
<1> QED
  BY <1>3, <1>9

LEMMA ServerWriteRead ==
  ASSUME HttpInv, ReadInv, Write("server")
  PROVE  ReadInv'
<1>0. PICK sent, rest \in Bytes : Writes("server", sent, rest)
  BY WriteDoes, EndsFacts
<1>1. /\ left["server"] = Cat(sent, rest) /\ left["server"] # <<>> /\ ~Gone("server")
      /\ left' = [left EXCEPT !["server"] = rest]
      /\ UNCHANGED <<request, pc, line, heard>>
      /\ \/ Gone("client") /\ said' = said
         \/ ~Gone("client") /\ said' = [said EXCEPT !["server"] = Cat(said["server"], sent)]
  BY <1>0, EndsFacts, Zenon DEF Writes
<1>2. Engaged("server")
  BY <1>1, WriterEngaged
<1>3. /\ left'["server"] = rest /\ left'["client"] = left["client"]
      /\ said'["client"] = said["client"]
  BY <1>1, EndsFacts DEF HttpInv, Types
<1>4. Unbroken(line'["server"])
  BY <1>1 DEF ReadInv
<1>5. ASSUME pc["client"] # "vanished" PROVE Progress' /\ Saying' /\ NoReset'
  <2>1. pc["server"] # "closed" /\ ~Gone("client")
    BY <1>1, <1>2, <1>5, ClientThere DEF Gone
  <2>2. Progress' /\ NoReset'
    BY <1>1, <2>1 DEF ReadInv, Progress, NoReset
  <2>3. said["server"] \in Bytes /\ said'["server"] = Cat(said["server"], sent)
    BY <1>1, <2>1, EndsFacts DEF HttpInv, Types
  <2>4. Cat(said'["server"], left'["server"]) = Cat(said["server"], left["server"])
    <3>1. Cat(Cat(said["server"], sent), rest) = Cat(said["server"], Cat(sent, rest))
      BY <2>3, CatAssociative
    <3> QED
      BY <1>1, <1>3, <2>3, <3>1, Zenon
  <2>5. Saying'
    <3>1. Cat(said["server"], left["server"]) \in Answers(pc["server"])
      BY <1>1, <1>5 DEF ReadInv, Saying
    <3>2. pc'["server"] = pc["server"]
      BY <1>1
    <3>3. Cat(said'["server"], left'["server"]) \in Answers(pc'["server"])
      BY <2>4, <3>1, <3>2, Zenon
    <3> QED
      BY <2>1, <3>2, <3>3, Zenon DEF Saying
  <2> QED
    BY <2>2, <2>5
<1> QED
  BY <1>1, <1>2, <1>3, <1>4, <1>5, ServerSide

LEMMA CgiStartsRead ==
  ASSUME HttpInv, ReadInv, requestServeDynamic, CgiStarts
  PROVE  ReadInv'
<1>1. /\ pc["server"] = "forking" /\ left["server"] = <<>>
      /\ pc' = [pc EXCEPT !["server"] = "waiting"]
      /\ UNCHANGED <<request, ended, line, said, heard>>
  BY DEF requestServeDynamic, CgiStarts, connection, history
<1>2. PICK k \in {0, Len(CgiOutput)} :
        left' = [left EXCEPT !["server"] = SubSeq(CgiOutput, 1, k)]
  BY Zenon DEF CgiStarts
<1>3. /\ pc'["server"] = "waiting" /\ pc'["client"] = pc["client"]
      /\ left'["client"] = left["client"] /\ left'["server"] = SubSeq(CgiOutput, 1, k)
  BY <1>1, <1>2, EndsFacts DEF HttpInv, Types
<1>4. CgiOutput \in Bytes /\ DynamicHead \in Bytes
  BY ResponseTypes
<1>5. SubSeq(CgiOutput, 1, k) \in {<<>>, CgiOutput}
  <2>1. CASE k = 0
    BY <2>1, SubSeqEmpty
  <2>2. CASE k = Len(CgiOutput)
    <3>1. SubSeq(CgiOutput, 1, Len(CgiOutput)) = CgiOutput
      BY <1>4, SubSeqFull DEF Bytes
    <3> QED
      BY <2>2, <3>1, Zenon
  <2> QED
    BY <2>1, <2>2
<1>6. Engaged("server") /\ Unbroken(line'["server"])
  BY <1>1 DEF Engaged, Gone, Failures, ReadInv
<1>7. ASSUME pc["client"] # "vanished" PROVE Progress' /\ Saying' /\ NoReset'
  <2>1. Progress'
    BY <1>1, <1>3, <1>7 DEF ReadInv, Progress, ReadSoFar
  <2>2. NoReset'
    BY <1>3 DEF NoReset
  <2>3. said["server"] = DynamicHead
    <3>1. Cat(said["server"], <<>>) \in Answers("forking")
      BY <1>1, <1>7, Zenon DEF ReadInv, Saying, Gone, Failures
    <3>2. said["server"] \in Bytes
      BY EndsFacts DEF HttpInv, Types
    <3>3. Cat(said["server"], <<>>) = said["server"]
      BY <3>2, CatEmpty
    <3> QED
      BY <3>1, <3>3 DEF Answers
  <2>4. Cat(said'["server"], left'["server"]) \in {DynamicHead, Cat(DynamicHead, CgiOutput)}
    <3>1. Cat(DynamicHead, <<>>) = DynamicHead
      BY <1>4, CatEmpty
    <3>2. said'["server"] = DynamicHead /\ left'["server"] \in {<<>>, CgiOutput}
      BY <1>1, <1>3, <1>5, <2>3
    <3> QED
      BY <3>1, <3>2
  <2>5. Answers("waiting") = {DynamicHead, Cat(DynamicHead, CgiOutput)}
    BY DEF Answers, Cat
  <2>6. Saying'
    <3>1. Cat(said'["server"], left'["server"]) \in Answers(pc'["server"])
      BY <1>3, <2>4, <2>5, Zenon
    <3> QED
      BY <1>3, <3>1 DEF Saying
  <2> QED
    BY <2>1, <2>2, <2>6
<1> QED
  BY <1>1, <1>3, <1>6, <1>7, ServerSide

LEMMA requestServeDynamicRead ==
  ASSUME HttpInv, ReadInv, requestServeDynamic
  PROVE  ReadInv'
<1>1. CASE CgiStarts
  BY <1>1, CgiStartsRead
<1>2. CASE ServerFails("Fork failed")
  <2>1. /\ pc["server"] = "forking" /\ UNCHANGED <<request, line, left, said, heard>>
        /\ pc'["client"] = pc["client"] /\ pc'["server"] = "Fork failed"
    BY <1>2, ServerLeaves DEF requestServeDynamic, ServerFails, history
  <2>2. Engaged("server") /\ Unbroken(line'["server"])
    BY <2>1 DEF Engaged, Gone, Failures, ReadInv
  <2>3. Progress' /\ Saying' /\ NoReset'
    BY <2>1 DEF Progress, ReadSoFar, Saying, NoReset, Gone, Failures
  <2> QED
    BY <2>1, <2>2, <2>3, ServerSide
<1> QED
  BY <1>1, <1>2 DEF requestServeDynamic

(* Close after the response, with all of the request read. *)
LEMMA CloseConnectionRead ==
  ASSUME HttpInv, ReadInv, CloseConnection
  PROVE  ReadInv'
<1>1. /\ pc["server"] \in {"writing", "waiting"} /\ left["server"] = <<>>
      /\ Leave("server", "closed") /\ UNCHANGED <<request, line, left, said, heard>>
  BY DEF CloseConnection, history
<1>2. /\ pc'["client"] = pc["client"] /\ pc'["server"] = "closed"
      /\ ended'["client"] = IF ended["client"] # "open" THEN ended["client"]
                            ELSE IF wire["server"] # <<>> THEN "reset" ELSE "closed"
  BY <1>1, ServerLeaves
<1>3. Engaged("server") /\ Unbroken(line'["server"])
  BY <1>1 DEF Engaged, Gone, Failures, ReadInv
<1>4. ASSUME pc["client"] # "vanished" PROVE Progress' /\ Saying' /\ NoReset'
  <2>1. Progress'
    BY <1>1, <1>2, <1>4 DEF ReadInv, Progress, ReadSoFar
  <2>2. Saying'
    <3>1. Cat(said["server"], <<>>) \in Answers(pc["server"])
      BY <1>1, <1>3, <1>4, Zenon DEF ReadInv, Saying, Engaged
    <3>2. said["server"] \in Bytes
      BY EndsFacts DEF HttpInv, Types
    <3>3. Cat(said["server"], <<>>) = said["server"]
      BY <3>2, CatEmpty
    <3>4. Answers(pc["server"]) \subseteq Responses
      BY <1>1 DEF Answers, Responses
    <3>5. said'["server"] \in Responses
      BY <1>1, <3>1, <3>3, <3>4
    <3> QED
      BY <1>2, <3>5 DEF Saying, Gone
  <2>3. ASSUME WellFormed(request) PROVE wire["server"] = <<>> /\ left["client"] = <<>>
    <3> DEFINE f == FlattenSeq(heard["server"])
               l == line["server"]
               r == rio["server"]
               w == wire["server"]
               x == left["client"]
    <3>1. f \in Bytes /\ l \in Bytes /\ r \in Bytes /\ w \in Bytes /\ x \in Bytes
      <4>1. heard["server"] \in Seq(Bytes) /\ <<>> \in Bytes
        BY EndsFacts DEF HttpInv, Types, Bytes
      <4> QED
        BY <4>1, FlattenLines, EndsFacts DEF HttpInv, Types
    <3>2. f = request.bytes
      BY <1>1, <1>4, <2>3 DEF ReadInv, Progress, ReadSoFar
    <3>3. Cat(Cat(Cat(f, l), r), w) = said["client"]
      BY EndsFacts DEF HttpInv, Directions, Intact
    <3>4. Cat(said["client"], x) = request.bytes
      BY <1>3 DEF ReadInv, AllSent, Engaged
    <3> HIDE DEF f, l, r, w, x
    <3>5. Cat(Cat(Cat(Cat(f, l), r), w), x) = f
      BY <3>2, <3>3, <3>4, Zenon
    <3>6. w = <<>> /\ x = <<>>
      BY <3>1, <3>5, NothingLeft
    <3> QED
      BY <3>6 DEF w, x
  <2>4. NoReset'
    <3>1. ended["client"] = "open"
      BY <1>3, <1>4, ClientThere
    <3> QED
      BY <1>1, <1>2, <2>3, <3>1 DEF NoReset
  <2> QED
    BY <2>1, <2>2, <2>4
<1> QED
  BY <1>1, <1>2, <1>3, <1>4, ServerSide

-----------------------------------------------------------------------------
(* Steps of the client.                                                    *)

(* A line, or the end of the stream. *)
LEMMA ClientLine ==
  ASSUME HttpInv, ReadInv, pc["client"] \in {"header", "body"},
         NEW text, NEW n, Returns("client", text, n), UNCHANGED <<request, said>>,
         n > 0 \/ n = 0,
         n = 0 => Gone("server") /\ FlattenSeq(heard["client"]) = said["server"]
  PROVE  ReadInv'
<1>1. /\ ClientGot(text, n)
      /\ line' = [line EXCEPT !["client"] = <<>>]
      /\ heard' = IF n > 0 THEN [heard EXCEPT !["client"] = Append(@, text)] ELSE heard
  BY EndsFacts, Zenon DEF Returns, Ends
<1>2. /\ pc'["client"] \in {"header", "body", "closing"} /\ pc'["server"] = pc["server"]
      /\ pc'["client"] = "closing" => ~(n > 0)
      /\ ended' = ended /\ left' = left
  BY <1>1, EndsFacts DEF ClientGot, HttpInv, Types
<1>3. line'["server"] = line["server"] /\ heard'["server"] = heard["server"]
  BY <1>1, EndsFacts DEF HttpInv, Types
<1>4. Gone("server")' = Gone("server")
  BY <1>2 DEF Gone
<1>5. LeavesLast' /\ ExitsWithCause'
  BY <1>2, <1>4 DEF LeavesLast, ExitsWithCause
<1>6. HeardAll'
  <2> SUFFICES ASSUME pc'["client"] = "closing"
               PROVE  FlattenSeq(heard'["client"]) = said'["server"]
    BY <1>2 DEF HeardAll
  <2>1. heard' = heard
    BY <1>1, <1>2
  <2> QED
    BY <1>2, <2>1
<1>7. AllSent'
  BY <1>2, <1>4 DEF ReadInv, AllSent
<1>8. NoReset'
  BY <1>2 DEF ReadInv, NoReset
<1> QED
  BY <1>2, <1>3, <1>5, <1>6, <1>7, <1>8, ClientSide

LEMMA ClientReadByteRead ==
  ASSUME HttpInv, ReadInv, ReadByte("client")
  PROVE  ReadInv'
<1> DEFINE text == Append(line["client"], Head(rio["client"]))
<1>1. /\ pc["client"] \in {"header", "body"} /\ UNCHANGED <<request, said>>
      /\ line["client"] \in Bytes /\ rio["client"] \in Bytes /\ rio["client"] # <<>>
  BY EndsFacts, ReadersEngaged DEF ReadByte, HttpInv, Types
<1>2. \/ Returns("client", text, Len(text))
      \/ Returns("client", text, MAXLINE)
      \/ line' = [line EXCEPT !["client"] = text] /\ UNCHANGED <<pc, ended, buf, left, heard>>
  BY Zenon DEF ReadByte
<1>3. Len(text) > 0 /\ MAXLINE > 0
  <2>1. Len(text) = Len(line["client"]) + 1
    BY <1>1, MoveHead
  <2>2. Len(line["client"]) \in Nat
    BY <1>1, LenProperties DEF Bytes
  <2> HIDE DEF text
  <2> QED
    BY <2>1, <2>2, HttpAssumption
<1> HIDE DEF text
<1>4. ASSUME NEW n, n > 0, Returns("client", text, n) PROVE ReadInv'
  <2>1. n # 0
    BY <1>4
  <2> QED
    BY <1>1, <1>4, <2>1, ClientLine
<1>5. CASE line' = [line EXCEPT !["client"] = text] /\ UNCHANGED <<pc, ended, buf, left, heard>>
  <2>1. line'["server"] = line["server"]
    BY <1>5, EndsFacts DEF HttpInv, Types
  <2>2. LeavesLast' /\ AllSent' /\ HeardAll' /\ NoReset' /\ ExitsWithCause'
    BY <1>1, <1>5
       DEF ReadInv, LeavesLast, AllSent, HeardAll, NoReset, ExitsWithCause, Gone
  <2> QED
    BY <1>1, <1>5, <2>1, <2>2, ClientSide
<1> QED
  BY <1>2, <1>3, <1>4, <1>5

LEMMA ClientReadEndRead ==
  ASSUME HttpInv, ReadInv, ReadEnd("client")
  PROVE  ReadInv'
<1> DEFINE f == FlattenSeq(heard["client"])
<1>1. /\ pc["client"] \in {"header", "body"} /\ UNCHANGED <<request, said>>
      /\ rio["client"] = <<>> /\ wire["client"] = <<>> /\ Gone("server")
      /\ EndOfLine("client")
  BY EndsFacts, ReadersEngaged DEF ReadEnd, HttpInv, EndedByPeer
<1>2. Cat(Cat(Cat(f, line["client"]), <<>>), <<>>) = said["server"]
  <2>1. Cat(Cat(Cat(f, line["client"]), rio["client"]), wire["client"]) = said["server"]
    BY EndsFacts DEF HttpInv, Directions, Intact
  <2> QED
    BY <1>1, <2>1, Zenon
<1>3. f \in Bytes /\ line["client"] \in Bytes /\ <<>> \in Bytes
  <2>1. heard["client"] \in Seq(Bytes) /\ line["client"] \in Bytes
    BY EndsFacts DEF HttpInv, Types
  <2>2. <<>> \in Bytes
    BY DEF Bytes
  <2> QED
    BY <2>1, <2>2, FlattenLines
<1> HIDE DEF f
<1>4. CASE line["client"] = <<>>
  <2>1. Returns("client", buf["client"], 0)
    BY <1>1, <1>4, Zenon DEF EndOfLine
  <2>2. f = said["server"]
    <3>1. Cat(f, <<>>) = f
      BY <1>3, CatEmpty
    <3> QED
      BY <1>2, <1>4, <3>1, Zenon
  <2> QED
    BY <1>1, <2>1, <2>2, ClientLine DEF f
<1>5. CASE line["client"] # <<>>
  <2>1. Returns("client", line["client"], Len(line["client"]) + 1)
    BY <1>1, <1>5, Zenon DEF EndOfLine
  <2> DEFINE n == Len(line["client"]) + 1
  <2>2. n > 0 /\ n # 0
    BY <1>3, LenProperties DEF Bytes
  <2> HIDE DEF n
  <2>3. Returns("client", line["client"], n)
    BY <2>1 DEF n
  <2> QED
    BY <1>1, <2>2, <2>3, ClientLine
<1> QED
  BY <1>4, <1>5

(* A client ends. *)
LEMMA ClientLeaves ==
  ASSUME HttpInv, ReadInv, NEW how \in {"closed", "exited", "vanished"}, Leave("client", how),
         ~Gone("client"), UNCHANGED <<request, line, left, said, heard>>,
         how = "closed" => pc["client"] = "closing",
         how = "exited" => ended["client"] = "reset"
  PROVE  ReadInv'
<1>1. /\ pc'["client"] = how /\ pc'["server"] = pc["server"]
      /\ ended'["client"] = ended["client"]
  BY EndsFacts DEF Leave, HttpInv, Types
<1>2. Gone("server")' = Gone("server")
  BY <1>1 DEF Gone
<1>3. pc["client"] # "vanished"
  BY DEF Gone
<1>4. how = "exited" => Gone("server")
  BY EndsFacts DEF HttpInv, EndedByPeer
<1>5. LeavesLast'
  <2>1. how \in {"closed", "exited"} => Gone("server") \/ pc["server"] = "no connection"
    BY <1>4 DEF ReadInv, LeavesLast
  <2> QED
    BY <1>1, <1>2, <2>1 DEF LeavesLast
<1>6. AllSent'
  BY <1>2 DEF ReadInv, AllSent
<1>7. HeardAll'
  BY <1>1 DEF ReadInv, HeardAll
<1>8. NoReset'
  BY <1>1, <1>3 DEF ReadInv, NoReset
<1>9. ExitsWithCause'
  <2> SUFFICES ASSUME how = "exited", WellFormed(request), pc["server"] \notin Failures
               PROVE  FALSE
    BY <1>1 DEF ExitsWithCause
  <2>1. pc["server"] = "closed"
    BY <1>4, EndsFacts DEF Gone, HttpInv, Types, Pcs
  <2> QED
    BY <1>3, <2>1 DEF ReadInv, NoReset
<1> QED
  BY <1>1, <1>3, <1>5, <1>6, <1>7, <1>8, <1>9, ClientSide

LEMMA ClientReadFailsRead == ASSUME HttpInv, ReadInv, ReadFails("client") PROVE ReadInv'
<1>1. ~Gone("client")
  BY EndsFacts, ReadersEngaged DEF ReadFails, Engaged
<1> QED
  BY <1>1, ClientLeaves DEF ReadFails, Exit, history

LEMMA ClientWriteFailsRead == ASSUME HttpInv, ReadInv, WriteFails("client") PROVE ReadInv'
<1>1. pc["client"] # "waiting"
  BY EndsFacts DEF HttpInv, Types, Pcs
<1> QED
  BY <1>1, ClientLeaves DEF WriteFails, Exit, history

LEMMA ClientClosesRead == ASSUME HttpInv, ReadInv, ClientCloses PROVE ReadInv'
BY ClientLeaves DEF ClientCloses, history, Gone, Failures

LEMMA ClientVanishesRead == ASSUME HttpInv, ReadInv, ClientVanishes PROVE ReadInv'
BY ClientLeaves DEF ClientVanishes, history

LEMMA ClientWriteRead ==
  ASSUME HttpInv, ReadInv, Write("client")
  PROVE  ReadInv'
<1>1. PICK sent, rest \in Bytes : Writes("client", sent, rest)
  BY WriteDoes, EndsFacts
<1>2. /\ left["client"] = Cat(sent, rest) /\ left["client"] # <<>>
      /\ left' = [left EXCEPT !["client"] = rest]
      /\ UNCHANGED <<request, pc, line, heard>>
      /\ \/ Gone("server") /\ said' = said
         \/ /\ ~Gone("server") /\ ended' = ended
            /\ said' = [said EXCEPT !["client"] = Cat(said["client"], sent)]
  BY <1>1, EndsFacts, Zenon DEF Writes
<1>3. /\ left'["client"] = rest /\ left'["server"] = left["server"]
      /\ said'["server"] = said["server"] /\ Gone("server")' = Gone("server")
  BY <1>2, EndsFacts DEF HttpInv, Types, Gone
<1>4. LeavesLast' /\ HeardAll' /\ ExitsWithCause'
  BY <1>2, <1>3 DEF ReadInv, LeavesLast, HeardAll, ExitsWithCause
<1>5. AllSent'
  <2> SUFFICES ASSUME ~Gone("server")
               PROVE  Cat(said'["client"], left'["client"]) = request'.bytes
    BY <1>3 DEF AllSent
  <2>1. said["client"] \in Bytes /\ said'["client"] = Cat(said["client"], sent)
    BY <1>2, EndsFacts DEF HttpInv, Types
  <2>2. Cat(Cat(said["client"], sent), rest) = Cat(said["client"], Cat(sent, rest))
    BY <2>1, CatAssociative
  <2>3. Cat(said["client"], left["client"]) = request.bytes
    BY DEF ReadInv, AllSent
  <2> QED
    BY <1>2, <1>3, <2>1, <2>2, <2>3, Zenon
<1>6. NoReset'
  BY <1>2 DEF ReadInv, NoReset, Gone
<1> QED
  BY <1>2, <1>3, <1>4, <1>5, <1>6, ClientSide

(* The connection, or none, and the end of clientSend. *)
LEMMA ConnectRead ==
  ASSUME HttpInv, ReadInv, open_clientfd \/ Open_clientfd \/ clientPrint
  PROVE  ReadInv'
<1>1. UNCHANGED <<request, ended, line, left, said, heard>>
  BY DEF open_clientfd, Open_clientfd, clientPrint, connection, history
<1>2. CASE open_clientfd
  <2>1. /\ pc["client"] = "connecting" /\ pc["server"] = "no connection"
        /\ pc'["server"] = "request line" /\ pc'["client"] = "sending"
    BY <1>2, EndsFacts DEF open_clientfd, HttpInv, Types, Unconnected
  <2>2. LeavesLast' /\ HeardAll' /\ NoReset' /\ ExitsWithCause'
    BY <2>1 DEF LeavesLast, HeardAll, NoReset, ExitsWithCause
  <2>3. AllSent' /\ Unbroken(line["server"])'
    BY <1>1, <2>1 DEF ReadInv, AllSent, Gone, Failures
  <2>4. Progress'
    BY <1>1, <2>1 DEF ReadInv, Progress, ReadSoFar
  <2>5. Saying'
    <3>1. Cat(said["server"], left["server"]) \in Answers("no connection")
      BY <2>1, Zenon DEF ReadInv, Saying, Gone, Failures
    <3>2. Answers("no connection") = Answers("request line")
      BY DEF Answers
    <3>3. Cat(said'["server"], left'["server"]) \in Answers(pc'["server"])
      BY <1>1, <2>1, <3>1, <3>2, Zenon
    <3> QED
      BY <2>1, <3>3 DEF Saying
  <2> QED
    BY <2>2, <2>3, <2>4, <2>5 DEF ReadInv
<1>3. CASE Open_clientfd \/ clientPrint
  <2>1. /\ pc'["server"] = pc["server"] /\ pc["client"] \in {"connecting", "sending"}
        /\ pc'["client"] \in {"header", "exited"}
        /\ pc'["client"] = "exited" => pc["server"] = "no connection"
    BY <1>3, EndsFacts DEF Open_clientfd, clientPrint, HttpInv, Types, Unconnected
  <2>2. LeavesLast' /\ HeardAll' /\ NoReset' /\ ExitsWithCause'
    BY <1>1, <2>1 DEF ReadInv, LeavesLast, HeardAll, NoReset, ExitsWithCause
  <2>3. AllSent'
    BY <1>1, <2>1 DEF ReadInv, AllSent, Gone
  <2> QED
    BY <1>1, <2>1, <2>2, <2>3, ClientSide
<1> QED
  BY <1>2, <1>3

LEMMA NextRead == HttpInv /\ ReadInv /\ [Next]_vars => ReadInv'
<1> SUFFICES ASSUME HttpInv, ReadInv, [Next]_vars PROVE ReadInv'
  OBVIOUS
<1>1. ASSUME NEW e \in Ends, Step(e) PROVE ReadInv'
  <2>1. \/ rio_read(e) \/ ReadByte(e) \/ ReadEnd(e) \/ ReadFails(e)
        \/ Write(e) \/ WriteFails(e)
    BY <1>1 DEF Step
  <2>2. e = "server" \/ e = "client"
    BY DEF Ends
  <2>3. CASE rio_read(e)
    BY <2>3, QuietRead DEF rio_read, history
  <2> QED
    BY <2>1, <2>2, <2>3, ServerReadByteRead, ServerReadEndRead, ServerReadFailsRead,
       ServerWriteRead, ServerWriteFailsRead, ClientReadByteRead, ClientReadEndRead,
       ClientReadFailsRead, ClientWriteRead, ClientWriteFailsRead
<1>2. CASE requestServeDynamic
  BY <1>2, requestServeDynamicRead
<1>3. CASE CloseConnection
  BY <1>3, CloseConnectionRead
<1>4. CASE open_clientfd \/ Open_clientfd \/ clientPrint
  BY <1>4, ConnectRead
<1>5. CASE ClientCloses
  BY <1>5, ClientClosesRead
<1>6. CASE ClientVanishes
  BY <1>6, ClientVanishesRead
<1>7. CASE UNCHANGED vars
  BY <1>7, QuietRead DEF vars, connection, history
<1> QED
  BY <1>1, <1>2, <1>3, <1>4, <1>5, <1>6, <1>7 DEF Next

LEMMA ReadInvariant == Spec => []ReadInv
<1>1. Init => ReadInv
  BY InitRead
<1>2. HttpInv /\ ReadInv /\ [Next]_vars => ReadInv'
  BY NextRead
<1> QED
  BY <1>1, <1>2, HttpInvariant, PTL DEF Spec

-----------------------------------------------------------------------------
(* The theorems.                                                           *)

(* No line overruns the array that it is copied to and no read overruns    *)
(* rio_buf, with arrays and buffers of any size and any request.           *)
THEOREM HttpTypeCorrect == Spec => []TypeOK
<1>1. HttpInv => TypeOK
  BY InvMeans
<1> QED
  BY <1>1, HttpInvariant, PTL

(* Rio_readlineb gives each end the bytes that the other one wrote, none   *)
(* lost, twice or out of order, in lines that are whole but for the last,  *)
(* however the bytes are cut into pieces and whoever closes or vanishes.   *)
THEOREM BytesStayInOrder == Spec => []StreamsIntact
<1>1. HttpInv => StreamsIntact
  BY InvMeans
<1> QED
  BY <1>1, HttpInvariant, PTL

(* Whatever a client sends and however it is cut, the server ends only     *)
(* because that client has gone (SIGPIPE, or unix_error after a reset) or  *)
(* has asked for an empty file; because Open or Mmap fails for a file, or  *)
(* Fork for a program, that stat has shown to be there and allowed; or     *)
(* because a long method or name overruns an array.                        *)
THEOREM ServerEndsOnlyThen == Spec => []ServerSurvives
<1>1. HttpInv => ServerSurvives
  BY InvMeans
<1> QED
  BY <1>1, HttpInvariant, PTL

(* A GET whose lines fit their arrays is read to its last byte before it   *)
(* is answered, with arrays and buffers of any size and the bytes cut into *)
(* any pieces, so that the Close that follows the response resets nothing. *)
THEOREM RequestReadFirst == Spec => []ReadBeforeAnswered
<1>1. HttpInv /\ ReadInv => ReadBeforeAnswered
  BY ReadInvMeans
<1> QED
  BY <1>1, HttpInvariant, ReadInvariant, PTL

(* client.c ends in order only with a whole response printed, unless the   *)
(* server itself ended; and it ends with an error only if there was no     *)
(* server, the server ended or the request was no GET whose lines fit.     *)
THEOREM ResponseWhole == Spec => []ClientHasResponse
<1>1. HttpInv /\ ReadInv => ClientHasResponse
  BY ReadInvMeans
<1> QED
  BY <1>1, HttpInvariant, ReadInvariant, PTL
=============================================================================
