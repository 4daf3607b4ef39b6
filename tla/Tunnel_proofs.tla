---------------------------- MODULE Tunnel_proofs ----------------------------
(***************************************************************************)
(* The streams of the SSL tunnel are kept, over any number of servers, for *)
(* windows, records and reads of any size.                                 *)
(***************************************************************************)
EXTENDS Tunnel, SequenceTheorems, WellFoundedInduction, TLAPS

-----------------------------------------------------------------------------
(* Least numbers, in place of inductions *)

LEMMA LeastNumber ==
    ASSUME NEW T \in SUBSET Nat, T # {}
    PROVE  \E n \in T : \A m \in T : n <= m
  <1>1. PICK n \in T : \A m \in T : ~(<<m, n>> \in OpToRel(<, Nat))
    BY WFMin, NatLessThanWellFounded
  <1>2. \A m \in T : ~(m < n)
    BY <1>1 DEF OpToRel
  <1> QED
    BY <1>2

LEMMA Associative ==
    \A S : \A x \in Seq(S), y \in Seq(S), z \in Seq(S) : (x \o y) \o z = x \o (y \o z)
  BY ConcatAssociative

-----------------------------------------------------------------------------
(* The bytes of a sequence of records *)

\* f gives the bytes of the first so many records of s.
Joins(f, s) == f = [i \in 1..Len(s) |-> IF i = 1 THEN s[i] ELSE f[i - 1] \o s[i]]

LEMMA JoinsExists ==
    ASSUME NEW S, NEW s \in Seq(S)
    PROVE  \E f : Joins(f, s)
  <1> DEFINE Upto(f, n) == f = [i \in 1..n |-> IF i = 1 THEN s[i] ELSE f[i - 1] \o s[i]]
             Bad == {n \in Nat : ~ \E f : Upto(f, n)}
  <1>1. Bad = {}
    <2>1. SUFFICES ASSUME Bad # {} PROVE FALSE
      OBVIOUS
    <2>2. PICK n \in Bad : \A m \in Bad : n <= m
      BY <2>1, LeastNumber
    <2>3. Upto([i \in 1..0 |-> s], 0)
      OBVIOUS
    <2>4. n - 1 \in Nat /\ n - 1 \notin Bad
      <3>1. 0 \notin Bad /\ Bad \subseteq Nat
        BY <2>3
      <3> HIDE DEF Bad
      <3> QED
        BY <2>2, <3>1
    <2>5. PICK f : Upto(f, n - 1)
      BY <2>4
    <2> DEFINE g == [i \in 1..n |-> IF i = 1 THEN s[i] ELSE f[i - 1] \o s[i]]
    <2>6. \A i \in 1..(n - 1) : g[i] = f[i]
      <3>1. n \in Nat
        OBVIOUS
      <3>2. SUFFICES ASSUME NEW i \in 1..(n - 1) PROVE g[i] = f[i]
        OBVIOUS
      <3>3. f[i] = IF i = 1 THEN s[i] ELSE f[i - 1] \o s[i]
        BY <2>5, <3>2, Zenon
      <3>4. i \in 1..n
        BY <2>4, <3>1
      <3> QED
        BY <3>3, <3>4
    <2>7. \A i \in 1..n : (IF i = 1 THEN s[i] ELSE f[i - 1] \o s[i]) = (IF i = 1 THEN s[i] ELSE g[i - 1] \o s[i])
      <3>1. SUFFICES ASSUME NEW i \in 1..n, i # 1 PROVE f[i - 1] = g[i - 1]
        OBVIOUS
      <3>2. i - 1 \in 1..(n - 1)
        BY <2>4, <3>1
      <3> HIDE DEF g
      <3> QED
        BY <2>6, <3>2
    <2>8. Upto(g, n)
      BY <2>7
    <2> QED
      BY <2>2, <2>8
  <1>2. Len(s) \notin Bad /\ Len(s) \in Nat
    BY <1>1, LenProperties
  <1> QED
    BY <1>2 DEF Joins

LEMMA FlattenDef ==
    ASSUME NEW S, NEW s \in Seq(S), s # <<>>
    PROVE  \E f : Joins(f, s) /\ FlattenSeq(s) = f[Len(s)]
  <1> DEFINE f == CHOOSE f : Joins(f, s)
  <1>1. Joins(f, s)
    BY JoinsExists
  <1>2. FlattenSeq(s) = f[Len(s)]
    BY EmptySeq DEF FlattenSeq, Joins
  <1> QED
    BY <1>1, <1>2

\* The bytes of no records, and those of a sequence of records.
LEMMA FlattenEmpty == FlattenSeq(<<>>) = <<>>
  BY DEF FlattenSeq

LEMMA FlattenType ==
    ASSUME NEW S, NEW s \in Seq(Seq(S))
    PROVE  FlattenSeq(s) \in Seq(S)
  <1>1. CASE s = <<>>
    BY <1>1, FlattenEmpty, EmptySeq, Zenon
  <1>2. CASE s # <<>>
    <2>1. PICK f : Joins(f, s) /\ FlattenSeq(s) = f[Len(s)]
      BY <1>2, FlattenDef
    <2>2. Len(s) \in Nat \ {0} /\ \A i \in 1..Len(s) : s[i] \in Seq(S)
      BY <1>2, EmptySeq, ElementOfSeq
    <2>3. \A i \in 1..Len(s) : f[i] = IF i = 1 THEN s[i] ELSE f[i - 1] \o s[i]
      BY <2>1, Zenon DEF Joins
    <2> DEFINE Bad == {i \in 1..Len(s) : f[i] \notin Seq(S)}
    <2>4. Bad = {}
      <3>1. SUFFICES ASSUME Bad # {} PROVE FALSE
        OBVIOUS
      <3>2. PICK i \in Bad : \A m \in Bad : i <= m
        <4>1. Bad \in SUBSET Nat
          BY <2>2
        <4> QED
          BY <3>1, <4>1, LeastNumber
      <3>3. i # 1
        BY <2>2, <2>3
      <3>4. i - 1 \in 1..Len(s) /\ i - 1 \notin Bad
        BY <2>2, <3>2, <3>3
      <3>5. f[i] = f[i - 1] \o s[i] /\ f[i - 1] \in Seq(S) /\ s[i] \in Seq(S)
        BY <2>2, <2>3, <3>2, <3>3, <3>4
      <3>6. f[i] \in Seq(S)
        BY <3>5, ConcatProperties
      <3> QED
        BY <3>6
    <2> QED
      BY <2>1, <2>2, <2>4
  <1> QED
    BY <1>1, <1>2

LEMMA FlattenAppend ==
    ASSUME NEW S, NEW s \in Seq(Seq(S)), NEW r \in Seq(S)
    PROVE  FlattenSeq(Append(s, r)) = FlattenSeq(s) \o r
  <1> DEFINE t == Append(s, r)
  <1>1. /\ t \in Seq(Seq(S)) /\ t # <<>> /\ Len(s) \in Nat /\ Len(t) = Len(s) + 1
        /\ \A i \in 1..Len(s) : t[i] = s[i]
        /\ t[Len(s) + 1] = r
    BY AppendProperties, LenProperties
  <1>2. PICK g : Joins(g, t) /\ FlattenSeq(t) = g[Len(t)]
    <2> HIDE DEF t
    <2> QED
      BY <1>1, FlattenDef
  <1>3. \A i \in 1..Len(t) : g[i] = IF i = 1 THEN t[i] ELSE g[i - 1] \o t[i]
    BY <1>2, Zenon DEF Joins
  <1> HIDE DEF t
  <1>4. CASE s = <<>>
    <2>1. Len(s) = 0
      BY <1>4
    <2>2. FlattenSeq(t) = r
      BY <1>1, <1>2, <1>3, <2>1
    <2> QED
      BY <1>4, <2>2, FlattenEmpty, ConcatEmptySeq DEF t
  <1>5. CASE s # <<>>
    <2>1. PICK f : Joins(f, s) /\ FlattenSeq(s) = f[Len(s)]
      BY <1>5, FlattenDef
    <2>2. Len(s) \in Nat \ {0}
      BY <1>5, EmptySeq
    <2>3. \A i \in 1..Len(s) : f[i] = IF i = 1 THEN s[i] ELSE f[i - 1] \o s[i]
      BY <2>1, Zenon DEF Joins
    <2> DEFINE Bad == {i \in 1..Len(s) : f[i] # g[i]}
    <2>4. Bad = {}
      <3>1. SUFFICES ASSUME Bad # {} PROVE FALSE
        OBVIOUS
      <3>2. PICK i \in Bad : \A m \in Bad : i <= m
        <4>1. Bad \in SUBSET Nat
          BY <2>2
        <4> QED
          BY <3>1, <4>1, LeastNumber
      <3>3. i # 1
        BY <1>1, <1>3, <2>2, <2>3
      <3>4. i - 1 \in 1..Len(s) /\ i - 1 \notin Bad
        <4>1. i \in 1..Len(s)
          OBVIOUS
        <4> HIDE DEF Bad
        <4> QED
          BY <2>2, <3>2, <3>3, <4>1
      <3> QED
        BY <1>1, <1>3, <2>2, <2>3, <3>2, <3>3, <3>4
    <2>5. FlattenSeq(t) = g[Len(s)] \o r
      <3>1. Len(t) \in 1..Len(t) /\ Len(t) # 1 /\ Len(t) - 1 = Len(s)
        BY <1>1, <2>2
      <3> QED
        BY <1>1, <1>2, <1>3, <3>1
    <2>6. f[Len(s)] = g[Len(s)]
      BY <2>2, <2>4
    <2> QED
      BY <2>1, <2>5, <2>6 DEF t
  <1> QED
    BY <1>4, <1>5

\* The same from the front.
LEMMA HeadOfAppend ==
    ASSUME NEW S, NEW u \in Seq(Seq(S)), NEW r \in Seq(S)
    PROVE  u # <<>> /\ FlattenSeq(u) = Head(u) \o FlattenSeq(Tail(u))
             => FlattenSeq(Append(u, r)) = Head(Append(u, r)) \o FlattenSeq(Tail(Append(u, r)))
  <1>1. \A h \in Seq(S), v \in Seq(S) : (h \o v) \o r = h \o (v \o r)
    BY Associative
  <1>2. HAVE u # <<>> /\ FlattenSeq(u) = Head(u) \o FlattenSeq(Tail(u))
  <1>3. Head(u) \in Seq(S) /\ Tail(u) \in Seq(Seq(S)) /\ FlattenSeq(Tail(u)) \in Seq(S)
    BY <1>2, HeadTailProperties, FlattenType
  <1>4. FlattenSeq(Append(Tail(u), r)) = FlattenSeq(Tail(u)) \o r
    BY <1>3, FlattenAppend
  <1>5. FlattenSeq(Append(u, r)) = (Head(u) \o FlattenSeq(Tail(u))) \o r
    BY <1>2, FlattenAppend
  <1>6. Head(Append(u, r)) = Head(u) /\ Tail(Append(u, r)) = Append(Tail(u), r)
    BY <1>2, HeadTailAppend
  <1> QED
    BY <1>1, <1>3, <1>4, <1>5, <1>6

LEMMA FlattenHead ==
    ASSUME NEW S, NEW s \in Seq(Seq(S)), s # <<>>
    PROVE  FlattenSeq(s) = Head(s) \o FlattenSeq(Tail(s))
  <1> DEFINE Holds(t) == FlattenSeq(t) = Head(t) \o FlattenSeq(Tail(t))
             Bad == {n \in Nat \ {0} : \E t \in Seq(Seq(S)) : Len(t) = n /\ ~Holds(t)}
  <1>1. Bad = {}
    <2>1. SUFFICES ASSUME Bad # {} PROVE FALSE
      OBVIOUS
    <2>2. PICK n \in Bad : \A m \in Bad : n <= m
      BY <2>1, LeastNumber
    <2>3. PICK t \in Seq(Seq(S)) : Len(t) = n /\ ~Holds(t)
      OBVIOUS
    <2>4. n \in Nat \ {0} /\ t # <<>>
      BY <2>3, EmptySeq
    <2>5. PICK u \in Seq(Seq(S)), r \in Seq(S) : t = Append(u, r)
      BY <2>4, SequenceEmptyOrAppend
    <2>6. Len(t) = Len(u) + 1 /\ Len(u) \in Nat
      BY <2>5, AppendProperties, LenProperties
    <2>7. CASE u = <<>>
      <3>1. FlattenSeq(t) = FlattenSeq(u) \o r /\ Head(t) = r /\ Tail(t) = <<>>
        BY <2>5, <2>7, FlattenAppend, HeadTailAppend
      <3> QED
        BY <2>3, <2>7, <3>1, FlattenEmpty, ConcatEmptySeq
    <2>8. CASE u # <<>>
      <3>1. Len(u) \in Nat \ {0} /\ Len(u) < n
        BY <2>3, <2>6, <2>8, EmptySeq
      <3>2. Holds(u)
        <4>1. SUFFICES ASSUME ~Holds(u) PROVE FALSE
          OBVIOUS
        <4>2. Len(u) \in Bad
          BY <3>1, <4>1
        <4> HIDE DEF Bad
        <4> QED
          BY <2>2, <2>4, <3>1, <4>2
      <3> QED
        BY <2>3, <2>5, <2>8, <3>2, HeadOfAppend
    <2> QED
      BY <2>7, <2>8
  <1>2. Len(s) \in Nat \ {0}
    BY EmptySeq
  <1> QED
    BY <1>1, <1>2

\* The same for a record put in front, and for records that have a byte at least.
LEMMA FlattenCons ==
    ASSUME NEW S, NEW s \in Seq(Seq(S)), NEW r \in Seq(S)
    PROVE  /\ <<r>> \o s \in Seq(Seq(S)) /\ <<r>> \o s # <<>>
           /\ Head(<<r>> \o s) = r
           /\ FlattenSeq(<<r>> \o s) = r \o FlattenSeq(s)
  <1>1. <<r>> \in Seq(Seq(S)) /\ Len(<<r>>) = 1 /\ <<r>>[1] = r
    OBVIOUS
  <1>2. /\ <<r>> \o s \in Seq(Seq(S)) /\ Len(<<r>> \o s) = Len(s) + 1 /\ Len(s) \in Nat
        /\ (<<r>> \o s)[1] = r /\ \A i \in 1..Len(s) : (<<r>> \o s)[i + 1] = s[i]
    BY <1>1, ConcatProperties, LenProperties
  <1>3. PICK t : t = <<r>> \o s
    OBVIOUS
  <1>4. t \in Seq(Seq(S)) /\ t # <<>> /\ Head(t) = r /\ Tail(t) \in Seq(Seq(S)) /\ Len(Tail(t)) = Len(s)
    BY <1>2, <1>3, HeadTailProperties, EmptySeq
  <1>5. \A i \in 1..Len(s) : Tail(t)[i] = s[i]
    BY <1>2, <1>3, <1>4, HeadTailProperties
  <1>6. Tail(t) = s
    BY <1>4, <1>5, SeqEqual
  <1> QED
    BY <1>3, <1>4, <1>6, FlattenHead

LEMMA FlattenOne ==
    ASSUME NEW S, NEW r \in Seq(S)
    PROVE  FlattenSeq(<<r>>) = r
  <1>1. <<>> \in Seq(Seq(S)) /\ Append(<<>>, r) = <<r>>
    BY EmptySeq
  <1>2. FlattenSeq(<<r>>) = <<>> \o r
    BY <1>1, FlattenAppend, FlattenEmpty
  <1> QED
    BY <1>2, ConcatEmptySeq

LEMMA FlattenFirst ==
    ASSUME NEW S, NEW s \in Seq(Seq(S)), s # <<>>
    PROVE  /\ FlattenSeq(s) \in Seq(S) /\ Head(s) \in Seq(S)
           /\ Tail(s) \in Seq(Seq(S)) /\ FlattenSeq(Tail(s)) \in Seq(S)
           /\ Len(FlattenSeq(s)) = Len(Head(s)) + Len(FlattenSeq(Tail(s)))
           /\ \A i \in 1..Len(Head(s)) : FlattenSeq(s)[i] = Head(s)[i]
  <1>1. FlattenSeq(s) = Head(s) \o FlattenSeq(Tail(s))
    BY FlattenHead
  <1>2. Head(s) \in Seq(S) /\ Tail(s) \in Seq(Seq(S)) /\ FlattenSeq(Tail(s)) \in Seq(S)
    BY HeadTailProperties, FlattenType
  <1>3. PICK h \in Seq(S), v \in Seq(S) : h = Head(s) /\ v = FlattenSeq(Tail(s))
    BY <1>2
  <1>4. Len(h \o v) = Len(h) + Len(v) /\ \A i \in 1..Len(h) : (h \o v)[i] = h[i]
    BY ConcatProperties, LenProperties
  <1> QED
    BY <1>1, <1>2, <1>3, <1>4, FlattenType

-----------------------------------------------------------------------------
(* The bytes between two places *)

LEMMA BytesType ==
    ASSUME NEW a \in Nat, NEW b \in Nat
    PROVE  /\ Bytes(a, b) \in Seq(Int)
           /\ Len(Bytes(a, b)) = IF a <= b THEN b - a ELSE 0
           /\ \A i \in 1..(b - a) : Bytes(a, b)[i] = a + i
           /\ b <= a => Bytes(a, b) = <<>>
  <1>1. PICK n : n = IF a <= b THEN b - a ELSE 0
    OBVIOUS
  <1>2. n \in Nat /\ 1..(b - a) = 1..n
    BY <1>1
  <1>3. PICK s : s = [i \in 1..n |-> a + i]
    OBVIOUS
  <1>4. Bytes(a, b) = s
    BY <1>2, <1>3 DEF Bytes
  <1>5. s \in Seq(Int) /\ Len(s) = n /\ \A i \in 1..n : s[i] = a + i
    BY <1>2, <1>3
  <1>6. n = 0 => s = <<>>
    BY <1>3
  <1> QED
    BY <1>1, <1>2, <1>4, <1>5, <1>6

LEMMA IsBytes ==
    ASSUME NEW a \in Nat, NEW b \in Nat, a <= b, NEW s \in Seq(Int)
    PROVE  s = Bytes(a, b) <=> Len(s) = b - a /\ \A i \in 1..(b - a) : s[i] = a + i
  <1>1. Bytes(a, b) \in Seq(Int) /\ Len(Bytes(a, b)) = b - a /\ \A i \in 1..(b - a) : Bytes(a, b)[i] = a + i
    BY BytesType
  <1> QED
    BY <1>1, SeqEqual

LEMMA AreBytes ==
    ASSUME NEW a \in Nat, NEW b \in Nat, a <= b, NEW s \in Seq(Int),
           Len(s) = b - a, \A i \in 1..(b - a) : s[i] = a + i
    PROVE  s = Bytes(a, b)
  BY IsBytes

\* Concatenation, under a name of its own.
Cat(x, y) == x \o y

LEMMA CatEmpty == ASSUME NEW x \in Seq(Int) PROVE Cat(x, <<>>) = x /\ Cat(<<>>, x) = x
  BY ConcatEmptySeq DEF Cat

LEMMA CatSlots ==
    ASSUME NEW x \in Seq(Int), NEW y \in Seq(Int)
    PROVE  /\ Cat(x, y) \in Seq(Int) /\ Len(x) \in Nat /\ Len(y) \in Nat /\ Len(Cat(x, y)) = Len(x) + Len(y)
           /\ \A i \in 1..Len(x) : Cat(x, y)[i] = x[i]
           /\ \A i \in 1..Len(y) : Cat(x, y)[Len(x) + i] = y[i]
  BY ConcatProperties, LenProperties DEF Cat

LEMMA BytesJoin ==
    ASSUME NEW a \in Nat, NEW b \in Nat, NEW c \in Nat, a <= b, b <= c,
           NEW x \in Seq(Int), NEW y \in Seq(Int), x = Bytes(a, b), y = Bytes(b, c)
    PROVE  Cat(x, y) = Bytes(a, c)
  <1>1. /\ Len(x) = b - a /\ Len(y) = c - b
        /\ \A i \in 1..(b - a) : x[i] = a + i
        /\ \A i \in 1..(c - b) : y[i] = b + i
    BY IsBytes
  <1>2. PICK z : z = Cat(x, y)
    OBVIOUS
  <1>3. /\ z \in Seq(Int) /\ Len(z) = c - a
        /\ \A i \in 1..(b - a) : z[i] = x[i]
        /\ \A i \in 1..(c - b) : z[(b - a) + i] = y[i]
    <2>1. /\ Cat(x, y) \in Seq(Int) /\ Len(Cat(x, y)) = Len(x) + Len(y)
          /\ \A i \in 1..Len(x) : Cat(x, y)[i] = x[i]
          /\ \A i \in 1..Len(y) : Cat(x, y)[Len(x) + i] = y[i]
      BY CatSlots
    <2>2. (b - a) + (c - b) = c - a
      OBVIOUS
    <2> QED
      BY <1>1, <1>2, <2>1, <2>2
  <1>4. ASSUME NEW i \in 1..(c - a) PROVE z[i] = a + i
    <2>1. CASE i <= b - a
      BY <1>1, <1>3, <2>1
    <2>2. CASE ~(i <= b - a)
      <3>1. PICK k \in 1..(c - b) : i = (b - a) + k
        <4>1. i - (b - a) \in 1..(c - b) /\ i = (b - a) + (i - (b - a))
          BY <2>2
        <4> QED
          BY <4>1
      <3>2. z[i] = b + k
        BY <1>1, <1>3, <3>1
      <3> QED
        BY <3>1, <3>2
    <2> QED
      BY <2>1, <2>2
  <1>5. \A i \in 1..(c - a) : z[i] = a + i
    BY <1>4
  <1>6. a <= c
    OBVIOUS
  <1>7. z = Bytes(a, c)
    BY <1>3, <1>5, <1>6, AreBytes
  <1> QED
    BY <1>2, <1>7

LEMMA BytesSplit ==
    ASSUME NEW a \in Nat, NEW c \in Nat, a <= c, NEW x \in Seq(Int), NEW y \in Seq(Int), Cat(x, y) = Bytes(a, c)
    PROVE  /\ x = Bytes(a, a + Len(x)) /\ y = Bytes(a + Len(x), c)
           /\ Len(x) \in Nat /\ Len(y) \in Nat /\ a + Len(x) + Len(y) = c
  <1>1. PICK z : z = Cat(x, y)
    OBVIOUS
  <1>2. /\ z \in Seq(Int) /\ Len(x) \in Nat /\ Len(y) \in Nat /\ Len(z) = Len(x) + Len(y)
        /\ \A i \in 1..Len(x) : z[i] = x[i]
        /\ \A i \in 1..Len(y) : z[Len(x) + i] = y[i]
    BY <1>1, CatSlots
  <1>3. Len(z) = c - a /\ \A i \in 1..(c - a) : z[i] = a + i
    BY <1>1, <1>2, IsBytes
  <1>4. a + Len(x) + Len(y) = c
    BY <1>2, <1>3
  <1>5. PICK m \in Nat, n \in Nat : m = Len(x) /\ n = Len(y)
    BY <1>2
  <1>6. \A i \in 1..m : x[i] = a + i
    BY <1>2, <1>3, <1>4, <1>5
  <1>7. ASSUME NEW i \in 1..n PROVE y[i] = (a + m) + i
    <2>1. m + i \in 1..(c - a)
      BY <1>4, <1>5
    <2> QED
      BY <1>2, <1>3, <1>5, <2>1
  <1>8. x = Bytes(a, a + m)
    <2>1. a + m \in Nat /\ a <= a + m /\ (a + m) - a = m
      BY <1>5
    <2>2. \A i \in 1..((a + m) - a) : x[i] = a + i
      BY <1>6, <2>1
    <2> QED
      BY <1>5, <2>1, <2>2, AreBytes
  <1>9. y = Bytes(a + m, c)
    <2>1. a + m \in Nat /\ a + m <= c /\ Len(y) = c - (a + m)
      BY <1>4, <1>5
    <2> QED
      BY <1>5, <1>7, <2>1, IsBytes
  <1> QED
    BY <1>2, <1>4, <1>5, <1>8, <1>9

LEMMA BytesOfParts ==
    ASSUME NEW a \in Nat, NEW c \in Nat, a <= c, NEW x \in Seq(Int), NEW y \in Seq(Int), NEW z, z = Cat(x, y),
           z = Bytes(a, c), NEW m, m = a + Len(x)
    PROVE  m \in Nat /\ a <= m /\ m <= c /\ x = Bytes(a, m) /\ y = Bytes(m, c) /\ c = m + Len(y)
  <1>1. Cat(x, y) = Bytes(a, c)
    OBVIOUS
  <1> QED
    BY <1>1, BytesSplit

LEMMA Regroup ==
    ASSUME NEW x \in Seq(Int), NEW y \in Seq(Int), NEW z \in Seq(Int), NEW u, NEW v, u = Cat(x, y), v = Cat(y, z)
    PROVE  Cat(u, z) = Cat(x, v)
  BY Associative, SMTT(30) DEF Cat

-----------------------------------------------------------------------------
(* What a link holds, cut out of the bytes that were sent *)

\* Cut, of what a link holds, what the hop before has in hand, how many bytes were
\* taken from the link and offered to it, and the sides that closed it.
Cuts(x, b, t, n, s) ==
    /\ x = Bytes(t, t + Len(x))
    /\ t + Len(x) + Len(b) <= n
    /\ s = {} => Cat(x, b) = Bytes(t, n)

\* Bytes are taken from the front.
LEMMA CutsRead ==
    ASSUME NEW x \in Seq(Int), NEW y \in Seq(Int), NEW z \in Seq(Int), NEW b \in Seq(Int),
           NEW t \in Nat, NEW n \in Nat, NEW s, z = Cat(y, x), Cuts(z, b, t, n, s)
    PROVE  /\ Cuts(x, b, t + Len(y), n, s)
           /\ t + Len(y) \in Nat /\ t + Len(y) <= n /\ y = Bytes(t, t + Len(y))
  <1>1. Len(x) \in Nat /\ Len(y) \in Nat /\ Len(z) = Len(y) + Len(x) /\ Len(b) \in Nat
    BY CatSlots, LenProperties
  <1>2. z = Bytes(t, t + Len(z)) /\ t + Len(z) + Len(b) <= n
    BY DEF Cuts
  <1>3. PICK k \in Nat, m \in Nat : k = t + Len(y) /\ m = t + Len(z)
    BY <1>1
  <1>4. y = Bytes(t, k) /\ x = Bytes(k, m) /\ m = k + Len(x)
    <2>1. t <= m /\ Cat(y, x) = Bytes(t, m)
      BY <1>1, <1>2, <1>3
    <2>2. y = Bytes(t, t + Len(y)) /\ x = Bytes(t + Len(y), m) /\ t + Len(y) + Len(x) = m
      BY <2>1, BytesSplit
    <2> QED
      BY <1>3, <2>2
  <1>5. ASSUME s = {} PROVE Cat(x, b) = Bytes(k, n)
    <2>1. Cat(z, b) = Bytes(t, n)
      BY <1>5 DEF Cuts
    <2>2. PICK v \in Seq(Int) : v = Cat(x, b)
      BY CatSlots
    <2>3. Cat(y, v) = Bytes(t, n)
      BY <2>1, <2>2, Regroup
    <2>4. t <= n
      BY <1>1, <1>2
    <2> QED
      BY <1>3, <2>2, <2>3, <2>4, BytesOfParts
  <1> QED
    BY <1>1, <1>2, <1>3, <1>4, <1>5 DEF Cuts

\* The hop before takes the bytes that come next.
LEMMA CutsTake ==
    ASSUME NEW x \in Seq(Int), NEW y \in Seq(Int), NEW t \in Nat, NEW n \in Nat, NEW s,
           y = Bytes(n, n + Len(y)), Cuts(x, <<>>, t, n, s)
    PROVE  Cuts(x, y, t, n + Len(y), s)
  <1>1. Len(x) \in Nat /\ Len(y) \in Nat /\ Cat(x, <<>>) = x /\ Len(<<>>) = 0
    BY LenProperties, CatEmpty, EmptySeq
  <1>2. x = Bytes(t, t + Len(x)) /\ t + Len(x) <= n /\ (s = {} => x = Bytes(t, n))
    BY <1>1 DEF Cuts
  <1>3. ASSUME s = {} PROVE Cat(x, y) = Bytes(t, n + Len(y))
    <2>1. PICK m \in Nat : m = n + Len(y)
      BY <1>1
    <2>2. t <= n /\ n <= m /\ x = Bytes(t, n) /\ y = Bytes(n, m)
      BY <1>1, <1>2, <1>3, <2>1
    <2> QED
      BY <2>1, <2>2, BytesJoin
  <1> QED
    BY <1>1, <1>2, <1>3 DEF Cuts

\* It sends some of those it has in hand.
LEMMA CutsWrite ==
    ASSUME NEW x \in Seq(Int), NEW y \in Seq(Int), NEW b \in Seq(Int), NEW c \in Seq(Int),
           NEW t \in Nat, NEW n \in Nat, NEW s, s = {}, b = Cat(y, c), Cuts(x, b, t, n, s)
    PROVE  Cuts(Cat(x, y), c, t, n, s)
  <1>1. PICK v \in Seq(Int) : v = Cat(x, y)
    BY CatSlots
  <1>2. /\ Len(x) \in Nat /\ Len(y) \in Nat /\ Len(c) \in Nat /\ Len(b) = Len(y) + Len(c)
        /\ Len(v) = Len(x) + Len(y)
    BY <1>1, CatSlots, LenProperties
  <1>3. Cat(x, b) = Bytes(t, n) /\ t + Len(x) + Len(b) <= n
    BY DEF Cuts
  <1>4. Cat(v, c) = Bytes(t, n)
    BY <1>1, <1>3, Regroup
  <1>5. v = Bytes(t, t + Len(v))
    <2>1. t <= n
      BY <1>2, <1>3
    <2> QED
      BY <1>4, <2>1, BytesOfParts
  <1> QED
    BY <1>1, <1>2, <1>3, <1>4, <1>5 DEF Cuts

\* An end sends bytes.
LEMMA CutsGrow ==
    ASSUME NEW x \in Seq(Int), NEW y \in Seq(Int), NEW t \in Nat, NEW n \in Nat, NEW s, s = {},
           y = Bytes(n, n + Len(y)), Cuts(x, <<>>, t, n, s)
    PROVE  Cuts(Cat(x, y), <<>>, t, n + Len(y), s)
  <1>1. Cuts(x, y, t, n + Len(y), s)
    BY CutsTake
  <1>2. y = Cat(y, <<>>) /\ <<>> \in Seq(Int) /\ n + Len(y) \in Nat
    BY CatEmpty, EmptySeq, LenProperties
  <1> QED
    BY <1>1, <1>2, CutsWrite

\* Bytes are lost at the end of a link that closed.
LEMMA CutsLess ==
    ASSUME NEW x \in Seq(Int), NEW y \in Seq(Int), NEW z \in Seq(Int), NEW b \in Seq(Int), NEW c \in Seq(Int),
           NEW t \in Nat, NEW n \in Nat, NEW s, NEW r, r # {}, z = Cat(x, y), Len(c) <= Len(b), Cuts(z, b, t, n, s)
    PROVE  Cuts(x, c, t, n, r)
  <1>1. /\ Len(x) \in Nat /\ Len(y) \in Nat /\ Len(c) \in Nat /\ Len(b) \in Nat
        /\ Len(z) = Len(x) + Len(y)
    BY CatSlots, LenProperties
  <1>2. z = Bytes(t, t + Len(z)) /\ t + Len(z) + Len(b) <= n
    BY DEF Cuts
  <1>3. x = Bytes(t, t + Len(x))
    <2>1. PICK m \in Nat : m = t + Len(z)
      BY <1>1
    <2>2. t <= m /\ Cat(x, y) = Bytes(t, m)
      BY <1>1, <1>2, <2>1
    <2> QED
      BY <2>2, BytesSplit
  <1> QED
    BY <1>1, <1>2, <1>3 DEF Cuts

-----------------------------------------------------------------------------
(* What a link holds, and its records *)

\* Stream, of the bytes that are held and the records of the wire.
Holds(k, w) == Cat(k, FlattenSeq(Payload(w)))

\* Records that have a byte at least, and no more than a record may have.
Fitting(w) == w \in Seq(Seq(Int)) /\ \A i \in DOMAIN w : Len(w[i]) \in 1..RecordSize

LEMMA PayloadIs ==
    ASSUME NEW w \in Seq(Seq(Int))
    PROVE  /\ Payload(w) \in Seq(Seq(Int)) /\ FlattenSeq(Payload(w)) \in Seq(Int)
           /\ Payload(w) = w <=> w = <<>> \/ Head(w) # <<Preamble>>
  <1>1. CASE w # <<>> /\ Head(w) = <<Preamble>>
    <2>1. Tail(w) \in Seq(Seq(Int)) /\ Len(Tail(w)) = Len(w) - 1 /\ Len(w) \in Nat
      BY <1>1, HeadTailProperties, LenProperties
    <2>2. Payload(w) = Tail(w)
      BY <1>1 DEF Payload
    <2>3. Tail(w) # w
      <3>1. PICK t : t = Tail(w)
        OBVIOUS
      <3>2. Len(t) = Len(w) - 1 /\ Len(w) \in Nat
        BY <2>1, <3>1, Zenon
      <3>3. Len(t) # Len(w)
        BY <3>2
      <3> QED
        BY <3>1, <3>3, Zenon
    <2> QED
      BY <1>1, <2>1, <2>2, <2>3, FlattenType
  <1>2. CASE ~(w # <<>> /\ Head(w) = <<Preamble>>)
    <2>1. Payload(w) = w
      BY <1>2, Zenon DEF Payload
    <2> QED
      BY <1>2, <2>1, FlattenType
  <1> QED
    BY <1>1, <1>2

LEMMA PayloadAppend ==
    ASSUME NEW w \in Seq(Seq(Int)), NEW r \in Seq(Int), r # <<Preamble>>
    PROVE  /\ FlattenSeq(Payload(Append(w, r))) = Cat(FlattenSeq(Payload(w)), r)
           /\ Payload(w) = w => Payload(Append(w, r)) = Append(w, r)
  <1>1. Append(w, r) \in Seq(Seq(Int)) /\ Append(w, r) # <<>>
    BY AppendProperties
  <1>2. /\ Head(Append(w, r)) = (IF w = <<>> THEN r ELSE Head(w))
        /\ Tail(Append(w, r)) = (IF w = <<>> THEN <<>> ELSE Append(Tail(w), r))
    BY HeadTailAppend
  <1>3. Payload(w) \in Seq(Seq(Int))
    BY PayloadIs
  <1>4. Payload(Append(w, r)) = Append(Payload(w), r)
    <2>1. CASE w # <<>> /\ Head(w) = <<Preamble>>
      BY <1>1, <1>2, <2>1 DEF Payload
    <2>2. CASE ~(w # <<>> /\ Head(w) = <<Preamble>>)
      <3>1. Payload(w) = w
        BY <2>2, Zenon DEF Payload
      <3>2. Head(Append(w, r)) # <<Preamble>>
        BY <1>2, <2>2
      <3> QED
        BY <3>1, <3>2 DEF Payload
    <2> QED
      BY <2>1, <2>2
  <1> QED
    BY <1>3, <1>4, FlattenAppend DEF Cat

LEMMA HoldsType ==
    ASSUME NEW k \in Seq(Int), NEW w \in Seq(Seq(Int))
    PROVE  Holds(k, w) \in Seq(Int) /\ Len(Holds(k, w)) = Len(k) + Len(FlattenSeq(Payload(w)))
  BY PayloadIs, CatSlots DEF Holds

\* A record is written.
LEMMA HoldsAppend ==
    ASSUME NEW k \in Seq(Int), NEW w \in Seq(Seq(Int)), NEW r \in Seq(Int), r # <<Preamble>>
    PROVE  Holds(k, Append(w, r)) = Cat(Holds(k, w), r)
  <1>1. PICK f \in Seq(Int) : f = FlattenSeq(Payload(w))
    BY PayloadIs
  <1>2. FlattenSeq(Payload(Append(w, r))) = Cat(f, r)
    BY <1>1, PayloadAppend
  <1>3. Cat(Cat(k, f), r) = Cat(k, Cat(f, r))
    BY Regroup
  <1> QED
    BY <1>1, <1>2, <1>3 DEF Holds

\* Bytes of an end are no preamble.
LEMMA NoPreamble ==
    ASSUME NEW w, Fitting(w), \A i \in 1..Len(FlattenSeq(w)) : FlattenSeq(w)[i] > 0
    PROVE  Payload(w) = w
  <1>1. w \in Seq(Seq(Int))
    BY DEF Fitting
  <1>2. ASSUME w # <<>> PROVE Head(w) # <<Preamble>>
    <2>1. Len(w) \in Nat \ {0} /\ Head(w) = w[1] /\ 1 \in DOMAIN w
      BY <1>1, <1>2, EmptySeq, HeadTailProperties, LenProperties
    <2>2. Len(Head(w)) >= 1 /\ Len(Head(w)) \in Nat
      BY <2>1, TunnelAssumption DEF Fitting
    <2>3. /\ Len(FlattenSeq(w)) = Len(Head(w)) + Len(FlattenSeq(Tail(w)))
          /\ Len(FlattenSeq(Tail(w))) \in Nat
          /\ FlattenSeq(w)[1] = Head(w)[1]
      BY <1>1, <1>2, <2>2, FlattenFirst, LenProperties
    <2>4. Head(w)[1] > 0
      BY <2>2, <2>3
    <2> QED
      BY <2>4 DEF Preamble
  <1> QED
    BY <1>1, <1>2, PayloadIs

\* A sequence is split in two.
LEMMA SplitAt ==
    ASSUME NEW s \in Seq(Int), NEW n \in 0..Len(s)
    PROVE  /\ SubSeq(s, 1, n) \in Seq(Int) /\ Len(SubSeq(s, 1, n)) = n
           /\ SubSeq(s, n + 1, Len(s)) \in Seq(Int) /\ Len(SubSeq(s, n + 1, Len(s))) = Len(s) - n
           /\ Cat(SubSeq(s, 1, n), SubSeq(s, n + 1, Len(s))) = s
  <1>1. Len(s) \in Nat /\ n \in Nat /\ \A i \in 1..Len(s) : s[i] \in Int
    BY LenProperties
  <1>2. SubSeq(s, 1, n) \in Seq(Int) /\ Len(SubSeq(s, 1, n)) = n
    BY <1>1, SubSeqProperties
  <1>3. SubSeq(s, n + 1, Len(s)) \in Seq(Int) /\ Len(SubSeq(s, n + 1, Len(s))) = Len(s) - n
    BY <1>1, SubSeqProperties
  <1>4. SubSeq(s, 1, n) \o SubSeq(s, n + 1, Len(s)) = SubSeq(s, 1, Len(s))
    <2>1. 1 \in 1..Len(s) + 1 /\ n \in (1 - 1)..Len(s) /\ Len(s) \in n..Len(s)
      BY <1>1
    <2> QED
      BY <2>1, ConcatAdjacentSubSeq
  <1>5. SubSeq(s, 1, Len(s)) = s
    BY SubSeqFull
  <1> QED
    BY <1>2, <1>3, <1>4, <1>5 DEF Cat

LEMMA FittingTail ==
    ASSUME NEW w, Fitting(w), w # <<>>
    PROVE  Fitting(Tail(w)) /\ Head(w) \in Seq(Int) /\ Len(Head(w)) \in 1..RecordSize
  <1>1. /\ w \in Seq(Seq(Int)) /\ Len(w) \in Nat \ {0} /\ DOMAIN w = 1..Len(w)
        /\ \A i \in 1..Len(w) : Len(w[i]) \in 1..RecordSize
    BY EmptySeq, LenProperties DEF Fitting
  <1>2. /\ Head(w) = w[1] /\ Head(w) \in Seq(Int) /\ Tail(w) \in Seq(Seq(Int)) /\ Len(Tail(w)) = Len(w) - 1
        /\ \A i \in 1..Len(Tail(w)) : Tail(w)[i] = w[i + 1]
    BY <1>1, HeadTailProperties
  <1>3. DOMAIN Tail(w) = 1..Len(Tail(w))
    BY <1>2, LenProperties
  <1>4. \A i \in DOMAIN Tail(w) : Len(Tail(w)[i]) \in 1..RecordSize
    BY <1>1, <1>2, <1>3
  <1> QED
    BY <1>1, <1>2, <1>4 DEF Fitting

LEMMA FittingAppend ==
    ASSUME NEW w, Fitting(w), NEW r \in Seq(Int), Len(r) \in 1..RecordSize
    PROVE  /\ Fitting(Append(w, r)) /\ Append(w, r) # <<>>
           /\ FlattenSeq(Append(w, r)) = Cat(FlattenSeq(w), r)
           /\ Len(FlattenSeq(Append(w, r))) = Len(FlattenSeq(w)) + Len(r)
           /\ w # <<>> => Head(Append(w, r)) = Head(w)
           /\ w = <<>> => Head(Append(w, r)) = r
  <1>1. w \in Seq(Seq(Int)) /\ DOMAIN w = 1..Len(w) /\ Len(w) \in Nat
    BY LenProperties DEF Fitting
  <1>2. PICK v : v = Append(w, r)
    OBVIOUS
  <1>3. /\ v \in Seq(Seq(Int)) /\ v # <<>> /\ Len(v) = Len(w) + 1
        /\ \A i \in 1..Len(w) : v[i] = w[i]
        /\ v[Len(w) + 1] = r
    BY <1>1, <1>2, AppendProperties
  <1>4. DOMAIN v = 1..Len(v)
    BY <1>3, LenProperties
  <1>5. Fitting(v)
    <2>1. ASSUME NEW i \in 1..Len(w) + 1 PROVE Len(v[i]) \in 1..RecordSize
      <3>1. CASE i = Len(w) + 1
        BY <1>3, <3>1
      <3>2. CASE i # Len(w) + 1
        <4>1. i \in DOMAIN w /\ v[i] = w[i]
          BY <1>1, <1>3, <3>2
        <4> QED
          BY <4>1 DEF Fitting
      <3> QED
        BY <3>1, <3>2
    <2> QED
      BY <1>3, <1>4, <2>1 DEF Fitting
  <1>6. FlattenSeq(v) = Cat(FlattenSeq(w), r) /\ FlattenSeq(w) \in Seq(Int)
    BY <1>1, <1>2, FlattenAppend, FlattenType DEF Cat
  <1>7. Len(FlattenSeq(v)) = Len(FlattenSeq(w)) + Len(r)
    BY <1>6, CatSlots
  <1>8. Head(v) = IF w = <<>> THEN r ELSE Head(w)
    BY <1>1, <1>2, HeadTailAppend
  <1> QED
    BY <1>2, <1>3, <1>5, <1>6, <1>7, <1>8

LEMMA FittingCons ==
    ASSUME NEW w, Fitting(w), NEW r \in Seq(Int), Len(r) \in 1..RecordSize
    PROVE  /\ Fitting(<<r>> \o w) /\ <<r>> \o w # <<>>
           /\ FlattenSeq(<<r>> \o w) = Cat(r, FlattenSeq(w))
  <1>1. w \in Seq(Seq(Int)) /\ DOMAIN w = 1..Len(w) /\ Len(w) \in Nat
    BY LenProperties DEF Fitting
  <1>2. PICK v : v = <<r>> \o w
    OBVIOUS
  <1>3. v \in Seq(Seq(Int)) /\ v # <<>> /\ FlattenSeq(v) = Cat(r, FlattenSeq(w))
    BY <1>1, <1>2, FlattenCons DEF Cat
  <1>4. <<r>> \in Seq(Seq(Int)) /\ Len(<<r>>) = 1 /\ <<r>>[1] = r
    OBVIOUS
  <1>5. /\ Len(v) = Len(w) + 1 /\ \A i \in 1..Len(w) + 1 : v[i] = IF i <= 1 THEN r ELSE w[i - 1]
    BY <1>1, <1>2, <1>4, ConcatProperties
  <1>6. DOMAIN v = 1..Len(v)
    BY <1>3, LenProperties
  <1>7. ASSUME NEW i \in DOMAIN v PROVE Len(v[i]) \in 1..RecordSize
    <2>1. CASE i <= 1
      BY <1>5, <1>6, <1>7, <2>1
    <2>2. CASE ~(i <= 1)
      <3>1. i - 1 \in DOMAIN w /\ v[i] = w[i - 1]
        BY <1>1, <1>5, <1>6, <1>7, <2>2
      <3> QED
        BY <3>1 DEF Fitting
    <2> QED
      BY <2>1, <2>2
  <1> QED
    BY <1>2, <1>3, <1>7 DEF Fitting

\* Bytes that are among those that were sent.
LEMMA LastBytes ==
    ASSUME NEW a \in Nat, NEW c \in Nat, a <= c, NEW y \in Seq(Int), NEW j \in Seq(Int), NEW g \in Seq(Int),
           Cat(y, Cat(j, g)) = Bytes(a, c)
    PROVE  \A i \in 1..Len(g) : g[i] > 0
  <1>1. PICK z \in Seq(Int) : z = Cat(j, g)
    BY CatSlots
  <1>2. z = Bytes(a + Len(y), c) /\ Len(y) \in Nat /\ Len(z) \in Nat /\ a + Len(y) + Len(z) = c
    BY <1>1, BytesSplit
  <1>3. PICK m \in Nat : m = a + Len(y)
    BY <1>2
  <1>4. m <= c /\ Cat(j, g) = Bytes(m, c)
    BY <1>1, <1>2, <1>3
  <1>5. g = Bytes(m + Len(j), c) /\ Len(j) \in Nat /\ Len(g) \in Nat /\ m + Len(j) + Len(g) = c
    BY <1>4, BytesSplit
  <1>6. PICK n \in Nat : n = m + Len(j)
    BY <1>5
  <1>7. n <= c /\ g = Bytes(n, c) /\ c - n = Len(g)
    BY <1>5, <1>6
  <1>8. \A i \in 1..(c - n) : g[i] = n + i
    BY <1>7, IsBytes
  <1> QED
    BY <1>7, <1>8

\* Bytes are read: y of the k that are held and the records w, which leaves j and v.
LEMMA HoldsRead ==
    ASSUME NEW k \in Seq(Int), NEW w, Fitting(w), NEW y \in Seq(Int), NEW j \in Seq(Int), NEW v, Fitting(v),
           Payload(w) = w, Cat(k, FlattenSeq(w)) = Cat(y, Cat(j, FlattenSeq(v))),
           NEW a \in Nat, Holds(k, w) = Bytes(a, a + Len(Holds(k, w)))
    PROVE  Payload(v) = v /\ Holds(k, w) = Cat(y, Holds(j, v))
  <1>1. FlattenSeq(w) \in Seq(Int) /\ FlattenSeq(v) \in Seq(Int)
    BY FlattenType DEF Fitting
  <1>2. Holds(k, w) = Cat(y, Cat(j, FlattenSeq(v))) /\ Holds(k, w) \in Seq(Int)
    BY <1>1, CatSlots DEF Holds
  <1>3. PICK c \in Nat : c = a + Len(Holds(k, w)) /\ a <= c
    BY <1>2, LenProperties
  <1>4. Payload(v) = v
    BY <1>1, <1>2, <1>3, LastBytes, NoPreamble
  <1> QED
    BY <1>2, <1>4 DEF Holds

\* The next server reads the preamble.
LEMMA HoldsAsked ==
    ASSUME NEW w, Fitting(w), w # <<>>, Head(w) = <<Preamble>>,
           NEW a \in Nat, Holds(<<>>, w) = Bytes(a, a + Len(Holds(<<>>, w)))
    PROVE  Payload(Tail(w)) = Tail(w) /\ Holds(<<>>, Tail(w)) = Holds(<<>>, w)
  <1>1. Payload(w) = Tail(w) /\ Fitting(Tail(w))
    BY FittingTail, Zenon DEF Payload
  <1>2. PICK g \in Seq(Int) : g = FlattenSeq(Tail(w))
    BY <1>1, FlattenType DEF Fitting
  <1>3. <<>> \in Seq(Int) /\ Cat(<<>>, g) = g
    BY CatEmpty
  <1>4. Holds(<<>>, w) = g
    BY <1>1, <1>2, <1>3 DEF Holds
  <1>5. PICK c \in Nat : c = a + Len(g) /\ a <= c
    BY <1>2, LenProperties
  <1>6. Cat(<<>>, Cat(<<>>, g)) = Bytes(a, c)
    BY <1>3, <1>4, <1>5
  <1>7. \A i \in 1..Len(g) : g[i] > 0
    BY <1>3, <1>5, <1>6, LastBytes
  <1>8. Payload(Tail(w)) = Tail(w)
    BY <1>1, <1>2, <1>7, NoPreamble
  <1> QED
    BY <1>2, <1>3, <1>4, <1>8 DEF Holds

-----------------------------------------------------------------------------
(* The servers, one after the other *)

Live == {"preamble", "handle", "down", "up", "poll"}
Place == Early \cup Live \cup Dead

\* The part of the invariant that is about where the hops are, and which links are open and closed.
Control ==
    /\ shape \in Shapes
    /\ pc \in [Hop -> Place]
    /\ shut \in [Link -> SUBSET Side]
    /\ Connections

LEMMA HopsAre ==
    ASSUME shape \in Shapes
    PROVE  /\ shape.hops \in Nat \ {0} /\ Hop = 1..shape.hops /\ Link = 0..shape.hops
           /\ 1 \in Hop /\ shape.hops \in Hop /\ \A h \in Hop : h \in Link /\ h - 1 \in Link /\ h \in Nat /\ h # 0
           /\ shape.window \in Nat \ {0} /\ shape.window >= ReadSize /\ shape.bytes \in Nat
  BY TunnelAssumption DEF Hop, Link

\* The client connects to the first.
LEMMA ControlStarts ==
    ASSUME Control, processConnection
    PROVE  Control'
  <1>1. /\ shape' = shape /\ pc[1] = "idle" /\ pc' = [pc EXCEPT ![1] = "connect"]
        /\ open' = open \cup {0} /\ shut' = shut
    BY DEF processConnection, Goto
  <1>2. Hop' = Hop /\ Link' = Link
    BY <1>1 DEF Hop, Link
  <1>3. /\ shape.hops \in Nat \ {0} /\ Hop = 1..shape.hops /\ Link = 0..shape.hops /\ 1 \in Hop
    BY HopsAre DEF Control
  <1>4. pc \in [Hop -> Place]
    BY DEF Control
  <1>5. /\ pc'[1] = "connect" /\ \A h \in Hop : h # 1 => pc'[h] = pc[h]
        /\ pc' \in [Hop -> Place]
    <2>1. "connect" \in Place
      BY DEF Place, Early
    <2> QED
      BY <1>1, <1>3, <1>4, <2>1
  <1>6. \A h \in Hop : h \in open' <=> h \in open
    BY <1>1, <1>3
  <1>7. 0 \notin open /\ \A h \in Hop : h \notin open /\ (h # 1 => pc[h] = "idle")
    BY <1>1, <1>3 DEF Control, Connections, Early
  <1>8. Connections'
    <2>1. open' \subseteq Link /\ pc'[1] # "request" /\ (0 \in open' <=> pc'[1] # "idle")
      BY <1>1, <1>3, <1>5 DEF Control, Connections
    <2>2. ASSUME NEW h \in Hop
          PROVE  /\ h \in open' => pc'[h] \notin Early
                 /\ h \notin open' => pc'[h] \in Early \cup Dead
                 /\ pc'[h] = "preamble" => h < shape.hops /\ pc'[h + 1] = "request"
                 /\ pc'[h] = "declined" => h \notin open'
      BY <1>5, <1>6, <1>7 DEF Early
    <2>3. ASSUME NEW h \in Hop, NEW k \in Hop, h < k
          PROVE  (pc'[k] # "idle" <=> k - 1 \in open') /\ (pc'[k] # "idle" => h \in open')
      <3>1. k # 1 /\ k - 1 \in Hop
        BY <1>3, <2>3
      <3> QED
        BY <1>5, <1>6, <1>7, <3>1
    <2>4. ASSUME NEW h \in Hop
          PROVE  /\ "far" \in shut'[h - 1] <=> pc'[h] \in Dead
                 /\ "near" \in shut'[h] <=> pc'[h] \in Dead /\ h \in open'
      BY <1>1, <1>5, <1>6, <1>7 DEF Control, Connections, Dead
    <2>5. ASSUME NEW l \in Link \ open' PROVE shut'[l] = {}
      BY <1>1 DEF Control, Connections
    <2> QED
      BY <1>1, <1>2, <2>1, <2>2, <2>3, <2>4, <2>5 DEF Connections
  <1> QED
    BY <1>1, <1>2, <1>5, <1>8 DEF Control

\* The next one is connected to.
LEMMA ControlConnects ==
    ASSUME Control, NEW h \in Hop, connect(h)
    PROVE  Control'
  <1>1. /\ shape' = shape /\ pc[h] = "connect" /\ open' = open \cup {h} /\ shut' = shut
        /\ pc' = [i \in Hop |-> IF i = h THEN (IF h < shape.hops THEN "preamble" ELSE "handle")
                                ELSE IF i = h + 1 THEN "request" ELSE pc[i]]
    BY DEF connect
  <1>2. Hop' = Hop /\ Link' = Link
    BY <1>1 DEF Hop, Link
  <1>3. /\ shape.hops \in Nat \ {0} /\ Hop = 1..shape.hops /\ Link = 0..shape.hops /\ h \in Link
    BY HopsAre DEF Control
  <1>4. pc \in [Hop -> Place]
    BY DEF Control
  <1>5. /\ pc'[h] = IF h < shape.hops THEN "preamble" ELSE "handle"
        /\ h + 1 \in Hop => pc'[h + 1] = "request"
        /\ \A i \in Hop : i # h /\ i # h + 1 => pc'[i] = pc[i]
    BY <1>1, <1>3
  <1>6. pc' \in [Hop -> Place]
    BY <1>1, <1>4 DEF Place, Early, Live
  <1>7. h \notin open /\ \A k \in Hop : h < k => pc[k] = "idle"
    BY <1>1, <1>3 DEF Control, Connections, Early
  <1>8. Connections'
    <2>1. open' \subseteq Link /\ pc'[1] # "request" /\ (0 \in open' <=> pc'[1] # "idle")
      <3>1. CASE h = 1
        BY <1>1, <1>3, <1>5, <3>1 DEF Control, Connections
      <3>2. CASE h # 1
        <4>1. pc'[1] = pc[1]
          BY <1>3, <1>5, <3>2
        <4>2. 0 \in open' <=> 0 \in open
          BY <1>1, <1>3
        <4> QED
          BY <1>1, <1>3, <4>1, <4>2 DEF Control, Connections
      <3> QED
        BY <3>1, <3>2
    <2>2. ASSUME NEW i \in Hop
          PROVE  /\ i \in open' => pc'[i] \notin Early
                 /\ i \notin open' => pc'[i] \in Early \cup Dead
                 /\ pc'[i] = "preamble" => i < shape.hops /\ pc'[i + 1] = "request"
                 /\ pc'[i] = "declined" => i \notin open'
      <3>1. CASE i = h
        BY <1>1, <1>3, <1>5, <3>1 DEF Early
      <3>2. CASE i = h + 1
        BY <1>1, <1>3, <1>5, <1>7, <3>2 DEF Early, Control, Connections
      <3>3. CASE i # h /\ i # h + 1
        <4>1. pc'[i] = pc[i] /\ (i \in open' <=> i \in open)
          BY <1>1, <1>5, <3>3
        <4>2. pc[i] = "preamble" => i < shape.hops /\ pc[i + 1] = "request"
          BY DEF Control, Connections
        <4>3. pc[i] = "preamble" => i + 1 # h /\ i + 1 # h + 1 /\ i + 1 \in Hop
          BY <1>1, <1>3, <3>3, <4>2
        <4>4. pc[i] = "preamble" => pc'[i + 1] = "request"
          BY <1>5, <4>2, <4>3
        <4> QED
          BY <4>1, <4>2, <4>4 DEF Control, Connections
      <3> QED
        BY <3>1, <3>2, <3>3
    <2>3. ASSUME NEW i \in Hop, NEW k \in Hop, i < k
          PROVE  (pc'[k] # "idle" <=> k - 1 \in open') /\ (pc'[k] # "idle" => i \in open')
      <3>1. (pc[k] # "idle" <=> k - 1 \in open) /\ (pc[k] # "idle" => i \in open)
        BY <2>3 DEF Control, Connections
      <3>2. CASE k = h
        <4>1. pc'[k] # "idle" /\ pc[k] # "idle"
          BY <1>1, <1>5, <3>2
        <4> QED
          BY <1>1, <3>1, <4>1
      <3>3. CASE k = h + 1
        <4>1. pc'[k] = "request" /\ k - 1 = h
          BY <1>3, <1>5, <3>3
        <4>2. i = h \/ i < h
          BY <1>3, <2>3, <3>3
        <4>3. i < h => i \in open
          BY <1>1 DEF Control, Connections
        <4> QED
          BY <1>1, <4>1, <4>2, <4>3
      <3>4. CASE k # h /\ k # h + 1
        <4>1. pc'[k] = pc[k] /\ k - 1 # h
          BY <1>3, <1>5, <3>4
        <4> QED
          BY <1>1, <3>1, <4>1
      <3> QED
        BY <3>2, <3>3, <3>4
    <2>4. ASSUME NEW i \in Hop
          PROVE  /\ "far" \in shut'[i - 1] <=> pc'[i] \in Dead
                 /\ "near" \in shut'[i] <=> pc'[i] \in Dead /\ i \in open'
      <3>1. /\ "far" \in shut[i - 1] <=> pc[i] \in Dead
            /\ "near" \in shut[i] <=> pc[i] \in Dead /\ i \in open
        BY DEF Control, Connections
      <3>2. (pc'[i] \in Dead <=> pc[i] \in Dead) /\ (pc[i] \in Dead => i # h)
        BY <1>1, <1>3, <1>5, <1>7 DEF Dead
      <3> QED
        BY <1>1, <3>1, <3>2
    <2>5. ASSUME NEW l \in Link \ open' PROVE shut'[l] = {}
      BY <1>1 DEF Control, Connections
    <2> QED
      BY <1>1, <1>2, <2>1, <2>2, <2>3, <2>4, <2>5 DEF Connections
  <1> QED
    BY <1>1, <1>2, <1>6, <1>8 DEF Control

\* A hop goes on: it stays past connect, and no connection is opened or closed.
GoesOn(h) ==
    /\ shape' = shape /\ open' = open /\ shut' = shut
    /\ pc[h] \in Live
    /\ \E to \in Live \ {"preamble"} : pc' = [pc EXCEPT ![h] = to]

LEMMA ControlGoesOn ==
    ASSUME Control, NEW h \in Hop, GoesOn(h)
    PROVE  Control'
  <1>1. /\ shape' = shape /\ open' = open /\ shut' = shut /\ pc[h] \in Live
    BY DEF GoesOn
  <1>2. PICK to \in Live \ {"preamble"} : pc' = [pc EXCEPT ![h] = to]
    BY DEF GoesOn
  <1>3. Hop' = Hop /\ Link' = Link
    BY <1>1 DEF Hop, Link
  <1>4. pc \in [Hop -> Place]
    BY DEF Control
  <1>5. pc'[h] = to /\ \A i \in Hop : i # h => pc'[i] = pc[i]
    BY <1>2, <1>4
  <1>6. pc' \in [Hop -> Place]
    BY <1>2, <1>4 DEF Place
  <1>7. \A i \in Hop : /\ pc'[i] \in Early <=> pc[i] \in Early
                       /\ pc'[i] \in Dead <=> pc[i] \in Dead
                       /\ \A at \in Early \cup Dead : pc'[i] = at <=> pc[i] = at
                       /\ pc'[i] = "preamble" => pc[i] = "preamble"
    BY <1>1, <1>2, <1>5 DEF Early, Dead, Live
  <1>8. /\ shape.hops \in Nat \ {0} /\ Hop = 1..shape.hops /\ 1 \in Hop
    BY HopsAre DEF Control
  <1>9. Connections'
    <2>1. open' \subseteq Link /\ pc'[1] # "request" /\ (0 \in open' <=> pc'[1] # "idle")
      BY <1>1, <1>7, <1>8 DEF Control, Connections, Early
    <2>2. ASSUME NEW i \in Hop
          PROVE  /\ i \in open' => pc'[i] \notin Early
                 /\ i \notin open' => pc'[i] \in Early \cup Dead
                 /\ pc'[i] = "preamble" => i < shape.hops /\ pc'[i + 1] = "request"
                 /\ pc'[i] = "declined" => i \notin open'
      <3>1. pc[i] = "preamble" => i < shape.hops /\ pc[i + 1] = "request" /\ i + 1 \in Hop
        BY <1>8 DEF Control, Connections
      <3>2. pc'[i] = "preamble" => i < shape.hops /\ pc'[i + 1] = "request"
        BY <1>7, <3>1 DEF Early
      <3>3. /\ i \in open => pc[i] \notin Early
            /\ i \notin open => pc[i] \in Early \cup Dead
            /\ pc[i] = "declined" => i \notin open
        BY DEF Control, Connections
      <3> QED
        BY <1>1, <1>7, <3>2, <3>3 DEF Dead
    <2>3. ASSUME NEW i \in Hop, NEW k \in Hop, i < k
          PROVE  (pc'[k] # "idle" <=> k - 1 \in open') /\ (pc'[k] # "idle" => i \in open')
      <3>1. (pc[k] # "idle" <=> k - 1 \in open) /\ (pc[k] # "idle" => i \in open)
        BY <2>3 DEF Control, Connections
      <3> QED
        BY <1>1, <1>7, <3>1 DEF Early
    <2>4. ASSUME NEW i \in Hop
          PROVE  /\ "far" \in shut'[i - 1] <=> pc'[i] \in Dead
                 /\ "near" \in shut'[i] <=> pc'[i] \in Dead /\ i \in open'
      BY <1>1, <1>7 DEF Control, Connections
    <2>5. ASSUME NEW l \in Link \ open' PROVE shut'[l] = {}
      BY <1>1 DEF Control, Connections
    <2> QED
      BY <1>1, <1>3, <2>1, <2>2, <2>3, <2>4, <2>5 DEF Connections
  <1> QED
    BY <1>1, <1>3, <1>6, <1>9 DEF Control

\* httpd asks the handler, which takes the tunnel or declines it.
LEMMA ControlHandles ==
    ASSUME Control, NEW h \in Hop, handler(h), pc[h - 1] # "preamble"
    PROVE  Control'
  <1>1. /\ shape' = shape /\ open' = open /\ pc[h] = "request"
        /\ pc' = [pc EXCEPT ![h] = IF shape.https THEN "connect" ELSE "declined"]
        /\ shut' = IF shape.https THEN shut ELSE [shut EXCEPT ![h - 1] = @ \cup {"far"}]
    BY DEF handler, Goto
  <1>2. PICK to \in {"connect", "declined"} :
            /\ pc' = [pc EXCEPT ![h] = to]
            /\ to = "connect" => shut' = shut
            /\ to = "declined" => shut' = [shut EXCEPT ![h - 1] = @ \cup {"far"}]
    BY <1>1
  <1>3. Hop' = Hop /\ Link' = Link
    BY <1>1 DEF Hop, Link
  <1>4. pc \in [Hop -> Place] /\ shut \in [Link -> SUBSET Side]
    BY DEF Control
  <1>5. pc'[h] = to /\ \A i \in Hop : i # h => pc'[i] = pc[i]
    BY <1>2, <1>4
  <1>6. pc' \in [Hop -> Place]
    BY <1>2, <1>4 DEF Place, Early, Dead
  <1>7. /\ shape.hops \in Nat \ {0} /\ Hop = 1..shape.hops /\ Link = 0..shape.hops /\ 1 \in Hop /\ h - 1 \in Link
    BY HopsAre DEF Control
  <1>8. h # 1 /\ h - 1 \in Hop /\ h - 1 \in open /\ h \notin open
    <2>1. h # 1 /\ h \notin open
      BY <1>1 DEF Control, Connections, Early
    <2>2. h - 1 \in Hop /\ h - 1 < h
      BY <1>7, <2>1
    <2> QED
      BY <1>1, <2>1, <2>2 DEF Control, Connections
  <1>9. /\ shut' \in [Link -> SUBSET Side]
        /\ \A l \in Link : l # h - 1 => shut'[l] = shut[l]
        /\ "near" \in shut'[h - 1] <=> "near" \in shut[h - 1]
        /\ "far" \in shut'[h - 1] <=> "far" \in shut[h - 1] \/ to = "declined"
    <2>1. CASE to = "connect"
      BY <1>2, <1>4, <2>1
    <2>2. CASE to = "declined"
      BY <1>2, <1>4, <1>7, <2>2 DEF Side
    <2> QED
      BY <2>1, <2>2
  <1>10. Connections'
    <2>1. open' \subseteq Link /\ pc'[1] # "request" /\ (0 \in open' <=> pc'[1] # "idle")
      BY <1>1, <1>5, <1>7, <1>8 DEF Control, Connections
    <2>2. ASSUME NEW i \in Hop
          PROVE  /\ i \in open' => pc'[i] \notin Early
                 /\ i \notin open' => pc'[i] \in Early \cup Dead
                 /\ pc'[i] = "preamble" => i < shape.hops /\ pc'[i + 1] = "request"
                 /\ pc'[i] = "declined" => i \notin open'
      <3>1. CASE i = h
        BY <1>1, <1>5, <1>8, <3>1 DEF Early, Dead
      <3>2. CASE i # h
        <4>1. pc[i] = "preamble" => i < shape.hops /\ pc[i + 1] = "request"
          BY DEF Control, Connections
        <4>2. pc[i] = "preamble" => i + 1 # h
          BY <1>1, <1>7, <1>8, <4>1
        <4> QED
          BY <1>1, <1>5, <3>2, <4>1, <4>2 DEF Control, Connections
      <3> QED
        BY <3>1, <3>2
    <2>3. ASSUME NEW i \in Hop, NEW k \in Hop, i < k
          PROVE  (pc'[k] # "idle" <=> k - 1 \in open') /\ (pc'[k] # "idle" => i \in open')
      <3>1. (pc[k] # "idle" <=> k - 1 \in open) /\ (pc[k] # "idle" => i \in open)
        BY <2>3 DEF Control, Connections
      <3>2. pc'[k] # "idle" <=> pc[k] # "idle"
        BY <1>1, <1>5
      <3> QED
        BY <1>1, <3>1, <3>2
    <2>4. ASSUME NEW i \in Hop
          PROVE  /\ "far" \in shut'[i - 1] <=> pc'[i] \in Dead
                 /\ "near" \in shut'[i] <=> pc'[i] \in Dead /\ i \in open'
      BY <1>1, <1>2, <1>5, <1>7, <1>8, <1>9 DEF Control, Connections, Dead
    <2>5. ASSUME NEW l \in Link \ open' PROVE shut'[l] = {}
      BY <1>1, <1>8, <1>9 DEF Control, Connections
    <2> QED
      BY <1>1, <1>3, <2>1, <2>2, <2>3, <2>4, <2>5 DEF Connections
  <1> QED
    BY <1>1, <1>3, <1>6, <1>9, <1>10 DEF Control

\* A hop ends, and closes its sides.
Leaves(h, to) ==
    /\ shape' = shape /\ open' = open
    /\ pc' = [pc EXCEPT ![h] = to]
    /\ shut' = [l \in Link |-> shut[l] \cup {s \in Side : <<l, s>> \in BothSides(h)}]

LEMMA SidesClosed ==
    ASSUME NEW h \in Hop, NEW l, NEW s
    PROVE  <<l, s>> \in BothSides(h) <=> (l = h - 1 /\ s = "far") \/ (l = h /\ s = "near" /\ h \in open)
  BY DEF BothSides

LEMMA ShutBy ==
    ASSUME Control, NEW h \in Hop, NEW to, Leaves(h, to)
    PROVE  /\ shut' \in [Link -> SUBSET Side]
           /\ \A l \in Link, s \in Side :
                 s \in shut'[l] <=> s \in shut[l] \/ (l = h - 1 /\ s = "far") \/ (l = h /\ s = "near" /\ h \in open)
  <1>1. shut \in [Link -> SUBSET Side]
    BY DEF Control
  <1>2. shut' = [l \in Link |-> shut[l] \cup {s \in Side : <<l, s>> \in BothSides(h)}]
    BY DEF Leaves
  <1>3. \A l \in Link : shut'[l] = shut[l] \cup {s \in Side : <<l, s>> \in BothSides(h)}
    BY <1>2
  <1>4. shut' \in [Link -> SUBSET Side]
    BY <1>1, <1>2
  <1>5. ASSUME NEW l \in Link, NEW s \in Side
        PROVE  s \in shut'[l] <=> s \in shut[l] \/ (l = h - 1 /\ s = "far") \/ (l = h /\ s = "near" /\ h \in open)
    <2>1. <<l, s>> \in BothSides(h) <=> (l = h - 1 /\ s = "far") \/ (l = h /\ s = "near" /\ h \in open)
      BY SidesClosed
    <2>2. s \in shut'[l] <=> s \in shut[l] \/ <<l, s>> \in BothSides(h)
      BY <1>3
    <2> QED
      BY <2>1, <2>2
  <1> QED
    BY <1>4, <1>5

LEMMA ControlLeaves ==
    ASSUME Control, NEW h \in Hop, NEW to \in {"closed", "aborted"}, Leaves(h, to),
           pc[h] \notin Dead \cup {"idle"}, h - 1 \in Hop => pc[h - 1] # "preamble"
    PROVE  Control'
  <1>1. shape' = shape /\ open' = open /\ pc' = [pc EXCEPT ![h] = to]
    BY DEF Leaves
  <1>3. Hop' = Hop /\ Link' = Link
    BY <1>1 DEF Hop, Link
  <1>4. pc \in [Hop -> Place]
    BY DEF Control
  <1>5. pc'[h] = to /\ \A i \in Hop : i # h => pc'[i] = pc[i]
    BY <1>1, <1>4
  <1>6. pc' \in [Hop -> Place]
    BY <1>1, <1>4 DEF Place, Dead
  <1>7. /\ shape.hops \in Nat \ {0} /\ Hop = 1..shape.hops /\ Link = 0..shape.hops /\ 1 \in Hop /\ h - 1 \in Link /\ h \in Link
    BY HopsAre DEF Control
  <1>8. h - 1 \in open
    <2>1. CASE h = 1
      BY <2>1 DEF Control, Connections
    <2>2. CASE h # 1
      <3>1. 1 \in Hop /\ 1 < h
        BY <1>7, <2>2
      <3> QED
        BY <3>1 DEF Control, Connections
    <2> QED
      BY <2>1, <2>2
  <1>9. /\ shut' \in [Link -> SUBSET Side]
        /\ \A l \in Link, s \in Side :
              s \in shut'[l] <=> s \in shut[l] \/ (l = h - 1 /\ s = "far") \/ (l = h /\ s = "near" /\ h \in open)
    BY ShutBy
  <1>10. Connections'
    <2>1. open' \subseteq Link /\ pc'[1] # "request" /\ (0 \in open' <=> pc'[1] # "idle")
      BY <1>1, <1>5, <1>7 DEF Control, Connections
    <2>2. ASSUME NEW i \in Hop
          PROVE  /\ i \in open' => pc'[i] \notin Early
                 /\ i \notin open' => pc'[i] \in Early \cup Dead
                 /\ pc'[i] = "preamble" => i < shape.hops /\ pc'[i + 1] = "request"
                 /\ pc'[i] = "declined" => i \notin open'
      <3>1. CASE i = h
        BY <1>1, <1>5, <3>1 DEF Early, Dead
      <3>2. CASE i # h
        <4>1. pc[i] = "preamble" => i < shape.hops /\ pc[i + 1] = "request"
          BY DEF Control, Connections
        <4>2. pc[i] = "preamble" => i + 1 # h
          BY <1>7
        <4> QED
          BY <1>1, <1>5, <1>7, <3>2, <4>1, <4>2 DEF Control, Connections
      <3> QED
        BY <3>1, <3>2
    <2>3. ASSUME NEW i \in Hop, NEW k \in Hop, i < k
          PROVE  (pc'[k] # "idle" <=> k - 1 \in open') /\ (pc'[k] # "idle" => i \in open')
      <3>1. (pc[k] # "idle" <=> k - 1 \in open) /\ (pc[k] # "idle" => i \in open)
        BY <2>3 DEF Control, Connections
      <3>2. pc'[k] # "idle" <=> pc[k] # "idle"
        BY <1>1, <1>5
      <3> QED
        BY <1>1, <3>1, <3>2
    <2>4. ASSUME NEW i \in Hop
          PROVE  /\ "far" \in shut'[i - 1] <=> pc'[i] \in Dead
                 /\ "near" \in shut'[i] <=> pc'[i] \in Dead /\ i \in open'
      <3>1. /\ "far" \in shut[i - 1] <=> pc[i] \in Dead
            /\ "near" \in shut[i] <=> pc[i] \in Dead /\ i \in open
        BY DEF Control, Connections
      <3>2. i - 1 \in Link /\ i \in Link /\ (i - 1 = h - 1 <=> i = h)
        BY <1>7
      <3>3. /\ "far" \in shut'[i - 1] <=> "far" \in shut[i - 1] \/ i = h
            /\ "near" \in shut'[i] <=> "near" \in shut[i] \/ (i = h /\ h \in open)
        BY <1>9, <3>2 DEF Side
      <3>4. pc'[i] \in Dead <=> pc[i] \in Dead \/ i = h
        BY <1>5 DEF Dead
      <3> QED
        BY <1>1, <3>1, <3>3, <3>4
    <2>5. ASSUME NEW l \in Link \ open' PROVE shut'[l] = {}
      <3>1. shut[l] = {}
        BY <1>1 DEF Control, Connections
      <3>2. \A s \in Side : s \notin shut'[l]
        BY <1>1, <1>8, <1>9, <3>1
      <3> QED
        BY <1>9, <3>2
    <2> QED
      BY <1>1, <1>3, <2>1, <2>2, <2>3, <2>4, <2>5 DEF Connections
  <1> QED
    BY <1>1, <1>3, <1>6, <1>9, <1>10 DEF Control

\* The client or the target closes.
LEMMA ControlEnds ==
    ASSUME Control, NEW end \in End, shape' = shape, open' = open, pc' = pc, LinkOf(end) \in open,
           shut' = [l \in Link |-> shut[l] \cup {s \in Side : <<l, s>> \in {<<LinkOf(end), SideOf(end)>>}}]
    PROVE  Control'
  <1>3. Hop' = Hop /\ Link' = Link
    BY DEF Hop, Link
  <1>7. /\ shape.hops \in Nat \ {0} /\ Hop = 1..shape.hops /\ Link = 0..shape.hops
    BY HopsAre DEF Control
  <1>8. /\ LinkOf(end) \in Link /\ LinkOf(end) = (IF end = "client" THEN 0 ELSE shape.hops)
        /\ SideOf(end) = IF end = "client" THEN "near" ELSE "far"
    BY <1>7 DEF LinkOf, SideOf
  <1>9. /\ shut' \in [Link -> SUBSET Side]
        /\ \A l \in Link, s \in Side : s \in shut'[l] <=> s \in shut[l] \/ (l = LinkOf(end) /\ s = SideOf(end))
    <2>1. shut \in [Link -> SUBSET Side]
      BY DEF Control
    <2>2. \A l \in Link : shut'[l] = shut[l] \cup {s \in Side : <<l, s>> \in {<<LinkOf(end), SideOf(end)>>}}
      OBVIOUS
    <2> QED
      BY <2>1, <2>2
  <1>10. Connections'
    <2>4. ASSUME NEW i \in Hop
          PROVE  /\ "far" \in shut'[i - 1] <=> pc[i] \in Dead
                 /\ "near" \in shut'[i] <=> pc[i] \in Dead /\ i \in open
      <3>1. /\ "far" \in shut[i - 1] <=> pc[i] \in Dead
            /\ "near" \in shut[i] <=> pc[i] \in Dead /\ i \in open
        BY DEF Control, Connections
      <3>2. i - 1 \in Link /\ i \in Link /\ i - 1 # shape.hops /\ i # 0
        BY <1>7
      <3>3. ("far" \in shut'[i - 1] <=> "far" \in shut[i - 1]) /\ ("near" \in shut'[i] <=> "near" \in shut[i])
        BY <1>8, <1>9, <3>2 DEF Side
      <3> QED
        BY <3>1, <3>3
    <2>5. ASSUME NEW l \in Link \ open PROVE shut'[l] = {}
      <3>1. shut[l] = {}
        BY DEF Control, Connections
      <3>2. \A s \in Side : s \notin shut'[l]
        BY <1>9, <3>1
      <3> QED
        BY <1>9, <3>2
    <2> QED
      BY <1>3, <2>4, <2>5 DEF Control, Connections
  <1> QED
    BY <1>3, <1>9, <1>10 DEF Control

-----------------------------------------------------------------------------
(* What is on the links before a hop relays *)

\* What a hop does to the links it is on: it sends on one and reads from the other, and loses what it did not
\* read when the other side is gone.  It sends the preamble first.
Works(h) ==
    /\ GoesOn(h)
    /\ \A l \in Link, d \in Direction :
          \/ wire'[l][d] = wire[l][d]
          \/ l = Downstream(h, d) /\ \E r \in Seq(Int) : wire'[l][d] = Append(wire[l][d], r)
          \/ l = Upstream(h, d) /\ (wire'[l][d] = <<>> \/ wire[l][d] # <<>>)
    /\ \A l \in Link, d \in Direction : held'[l][d] = held[l][d] \/ l = Upstream(h, d)
    /\ pc[h] = "preamble" => wire'[h]["down"] = Append(wire[h]["down"], <<Preamble>>)

WireTyped == wire \in [Link -> [Direction -> Seq(Seq(Int))]]

LEMMA OpenUpTo ==
    ASSUME Control, NEW h \in Hop, pc[h] # "idle"
    PROVE  h - 1 \in open /\ (pc[h] \in Live => h \in open)
  <1>1. Hop = 1..shape.hops /\ shape.hops \in Nat
    BY HopsAre DEF Control
  <1>2. CASE h = 1
    <2>1. 0 \in open
      BY <1>2 DEF Control, Connections
    <2> QED
      BY <1>2, <2>1 DEF Control, Connections, Live, Early, Dead
  <1>3. CASE h # 1
    <2>1. 1 \in Hop /\ 1 < h
      BY <1>1, <1>3
    <2>2. h - 1 \in open
      BY <2>1 DEF Control, Connections
    <2> QED
      BY <2>2 DEF Control, Connections, Live, Early, Dead
  <1> QED
    BY <1>2, <1>3

LEMMA HeadStays ==
    ASSUME NEW w \in Seq(Seq(Int)), NEW r \in Seq(Int)
    PROVE  /\ Append(w, r) # <<>>
           /\ w # <<>> => Head(Append(w, r)) = Head(w)
           /\ w = <<>> => Head(Append(w, r)) = r
  BY AppendProperties, HeadTailAppend

LEMMA PreamblesGoOn ==
    ASSUME Control, Preambles, WireTyped, NEW h \in Hop, Works(h)
    PROVE  Preambles'
  <1>1. shape' = shape /\ open' = open /\ pc[h] \in Live
    BY DEF Works, GoesOn
  <1>2. PICK to \in Live \ {"preamble"} : pc' = [pc EXCEPT ![h] = to]
    BY DEF Works, GoesOn
  <1>3. Hop' = Hop /\ Link' = Link
    BY <1>1 DEF Hop, Link
  <1>4. pc \in [Hop -> Place]
    BY DEF Control
  <1>5. pc'[h] = to /\ \A i \in Hop : i # h => pc'[i] = pc[i]
    BY <1>2, <1>4
  <1>6. /\ shape.hops \in Nat \ {0} /\ Hop = 1..shape.hops /\ Link = 0..shape.hops /\ h \in Link /\ h - 1 \in Link
    BY HopsAre DEF Control
  <1>7. h \in open /\ h - 1 \in open
    BY <1>1, OpenUpTo DEF Live
  <1>8. /\ Upstream(h, "down") = h - 1 /\ Upstream(h, "up") = h
        /\ Downstream(h, "down") = h /\ Downstream(h, "up") = h - 1
        /\ "down" \in Direction /\ "up" \in Direction /\ Direction = {"down", "up"}
    BY DEF Upstream, Downstream, Direction
  <1>9. ASSUME NEW l \in Link \ open', NEW d \in Direction PROVE wire'[l][d] = <<>>
    <2>1. l # h /\ l # h - 1 /\ wire[l][d] = <<>>
      BY <1>1, <1>7 DEF Preambles
    <2> QED
      BY <1>8, <2>1 DEF Works
  <1>10. ASSUME NEW i \in Hop
         PROVE  /\ pc'[i] \in Early \cup {"preamble"} => wire'[i - 1]["up"] = <<>> /\ held'[i - 1]["down"] = <<>>
                /\ pc'[i] = "preamble" => wire'[i]["down"] = <<>>
                /\ pc'[i] = "request" /\ wire'[i - 1]["down"] # <<>> => Head(wire'[i - 1]["down"]) = <<Preamble>>
                /\ pc'[i] = "request" /\ wire'[i - 1]["down"] = <<>> => pc'[i - 1] \in Dead \cup {"preamble"}
    <2>1. CASE i = h
      BY <1>2, <1>5, <2>1 DEF Live, Early
    <2>2. CASE i # h
      <3>1. pc'[i] = pc[i] /\ i - 1 \in Link /\ i \in Link /\ i - 1 # h - 1
        BY <1>5, <1>6, <2>2
      <3>2. pc[i] \in Early \cup {"preamble"} => wire'[i - 1]["up"] = <<>> /\ held'[i - 1]["down"] = <<>>
        <4>1. pc[i] \in Early \cup {"preamble"} => wire[i - 1]["up"] = <<>> /\ held[i - 1]["down"] = <<>>
          BY DEF Preambles
        <4>2. held'[i - 1]["down"] = held[i - 1]["down"]
          BY <1>8, <3>1 DEF Works
        <4>3. wire[i - 1]["up"] = <<>> => wire'[i - 1]["up"] = <<>>
          BY <1>8, <3>1 DEF Works
        <4> QED
          BY <4>1, <4>2, <4>3
      <3>3. pc[i] = "preamble" => wire'[i]["down"] = <<>>
        <4>1. pc[i] = "preamble" => wire[i]["down"] = <<>> /\ i # h - 1
          BY <1>1, <1>6 DEF Preambles, Control, Connections, Live
        <4>2. i # h - 1 => wire'[i]["down"] = wire[i]["down"]
          BY <1>8, <2>2, <3>1 DEF Works
        <4> QED
          BY <4>1, <4>2
      <3>4. CASE i - 1 = h
        <4>1. wire[h]["down"] \in Seq(Seq(Int))
          BY <1>6, <1>8 DEF WireTyped
        <4>2. CASE pc[h] = "preamble"
          <5>1. wire[h]["down"] = <<>> /\ wire'[h]["down"] = Append(wire[h]["down"], <<Preamble>>)
            BY <4>2 DEF Preambles, Works
          <5>2. <<Preamble>> \in Seq(Int)
            BY DEF Preamble
          <5>3. wire'[h]["down"] # <<>> /\ Head(wire'[h]["down"]) = <<Preamble>>
            BY <4>1, <5>1, <5>2, AppendProperties, HeadTailAppend
          <5> QED
            BY <3>1, <3>2, <3>3, <3>4, <5>3
        <4>3. CASE pc[h] # "preamble"
          <5>1. pc[i] = "request" => wire[h]["down"] # <<>> /\ Head(wire[h]["down"]) = <<Preamble>>
            BY <1>1, <3>4, <4>3 DEF Preambles, Live, Dead
          <5>2. \/ wire'[h]["down"] = wire[h]["down"]
                \/ \E r \in Seq(Int) : wire'[h]["down"] = Append(wire[h]["down"], r)
            <6>1. \/ wire'[h]["down"] = wire[h]["down"]
                  \/ h = Downstream(h, "down") /\ \E r \in Seq(Int) : wire'[h]["down"] = Append(wire[h]["down"], r)
                  \/ h = Upstream(h, "down") /\ (wire'[h]["down"] = <<>> \/ wire[h]["down"] # <<>>)
              BY <1>6, <1>8, Zenon DEF Works
            <6>2. h # h - 1
              BY <1>6
            <6> QED
              BY <1>8, <6>1, <6>2, Zenon
          <5>3. pc[i] = "request" => wire'[h]["down"] # <<>> /\ Head(wire'[h]["down"]) = <<Preamble>>
            <6>1. ASSUME NEW r \in Seq(Int), wire'[h]["down"] = Append(wire[h]["down"], r), wire[h]["down"] # <<>>
                  PROVE  wire'[h]["down"] # <<>> /\ Head(wire'[h]["down"]) = Head(wire[h]["down"])
              BY <4>1, <6>1, HeadStays
            <6> QED
              BY <5>1, <5>2, <6>1
          <5> QED
            BY <3>1, <3>2, <3>3, <3>4, <5>3
        <4> QED
          BY <4>2, <4>3
      <3>5. CASE i - 1 # h
        <4>1. wire'[i - 1]["down"] = wire[i - 1]["down"]
          BY <1>8, <3>1, <3>5 DEF Works
        <4>2. pc[i] = "request" => i - 1 \in Hop /\ pc'[i - 1] = pc[i - 1]
          <5>1. pc[i] = "request" => i # 1
            BY DEF Control, Connections
          <5> QED
            BY <1>5, <1>6, <3>5, <5>1
        <4>3. /\ pc[i] = "request" /\ wire[i - 1]["down"] # <<>> => Head(wire[i - 1]["down"]) = <<Preamble>>
              /\ pc[i] = "request" /\ wire[i - 1]["down"] = <<>> => pc[i - 1] \in Dead \cup {"preamble"}
          BY DEF Preambles
        <4> QED
          BY <3>1, <3>2, <3>3, <4>1, <4>2, <4>3
      <3> QED
        BY <3>4, <3>5
    <2> QED
      BY <2>1, <2>2
  <1>11. ASSUME NEW l \in Link
         PROVE  (held'[l]["down"] # <<>> => l < shape.hops) /\ (held'[l]["up"] # <<>> => l > 0)
    <2>1. (held[l]["down"] # <<>> => l < shape.hops) /\ (held[l]["up"] # <<>> => l > 0)
      BY DEF Preambles
    <2>2. (held'[l]["down"] = held[l]["down"] \/ l = h - 1) /\ (held'[l]["up"] = held[l]["up"] \/ l = h)
      BY <1>8 DEF Works
    <2> QED
      BY <1>6, <2>1, <2>2
  <1> QED
    BY <1>1, <1>3, <1>9, <1>10, <1>11 DEF Preambles

LEMMA PreamblesStart ==
    ASSUME Control, Preambles, processConnection
    PROVE  Preambles'
  <1>1. /\ shape' = shape /\ pc[1] = "idle" /\ pc' = [pc EXCEPT ![1] = "connect"]
        /\ open' = open \cup {0} /\ wire' = wire /\ held' = held
    BY DEF processConnection, Goto
  <1>2. Hop' = Hop /\ Link' = Link /\ 1 \in Hop
    BY <1>1, HopsAre DEF Hop, Link, Control
  <1>3. pc'[1] = "connect" /\ \A i \in Hop : i # 1 => pc'[i] = pc[i]
    BY <1>1, <1>2 DEF Control
  <1>4. ASSUME NEW i \in Hop
        PROVE  /\ pc'[i] \in Early \cup {"preamble"} => wire[i - 1]["up"] = <<>> /\ held[i - 1]["down"] = <<>>
               /\ pc'[i] = "preamble" => wire[i]["down"] = <<>>
               /\ pc'[i] = "request" /\ wire[i - 1]["down"] # <<>> => Head(wire[i - 1]["down"]) = <<Preamble>>
               /\ pc'[i] = "request" /\ wire[i - 1]["down"] = <<>> => pc'[i - 1] \in Dead \cup {"preamble"}
    <2>1. pc'[i] \in Early \cup {"preamble"} => pc[i] \in Early \cup {"preamble"}
      BY <1>1, <1>3 DEF Early
    <2>2. /\ pc'[i] = "preamble" => pc[i] = "preamble"
          /\ pc'[i] = "request" => pc[i] = "request" /\ i # 1
      BY <1>1, <1>3
    <2>3. pc[i] = "request" => i - 1 \in Hop
      BY <2>2, HopsAre DEF Control, Connections
    <2>4. pc[i] = "request" /\ wire[i - 1]["down"] = <<>> => pc[i - 1] \in Dead \cup {"preamble"} /\ i - 1 # 1
      BY <1>1 DEF Preambles, Dead
    <2>5. pc[i] = "request" /\ i - 1 # 1 => pc'[i - 1] = pc[i - 1]
      BY <1>3, <2>3
    <2> QED
      BY <2>1, <2>2, <2>4, <2>5 DEF Preambles
  <1>5. /\ \A l \in Link, d \in Direction : l \notin open' => wire[l][d] = <<>>
        /\ \A l \in Link : held[l]["down"] # <<>> => l < shape.hops
        /\ \A l \in Link : held[l]["up"] # <<>> => l > 0
    BY <1>1 DEF Preambles
  <1> QED
    BY <1>1, <1>2, <1>4, <1>5 DEF Preambles

LEMMA PreamblesConnect ==
    ASSUME Control, Preambles, NEW h \in Hop, connect(h)
    PROVE  Preambles'
  <1>1. /\ shape' = shape /\ pc[h] = "connect" /\ open' = open \cup {h} /\ wire' = wire /\ held' = held
        /\ pc' = [i \in Hop |-> IF i = h THEN (IF h < shape.hops THEN "preamble" ELSE "handle")
                                ELSE IF i = h + 1 THEN "request" ELSE pc[i]]
    BY DEF connect
  <1>2. Hop' = Hop /\ Link' = Link /\ h \in Link /\ Hop = 1..shape.hops /\ shape.hops \in Nat
    BY <1>1, HopsAre DEF Hop, Link, Control
  <1>3. /\ pc'[h] = IF h < shape.hops THEN "preamble" ELSE "handle"
        /\ h + 1 \in Hop => pc'[h + 1] = "request"
        /\ \A i \in Hop : i # h /\ i # h + 1 => pc'[i] = pc[i]
    BY <1>1, <1>2
  <1>4. /\ wire[h]["down"] = <<>> /\ wire[h]["up"] = <<>>
        /\ \A k \in Hop : h < k => pc[k] = "idle"
    BY <1>1, <1>2 DEF Control, Connections, Preambles, Early, Direction
  <1>5. ASSUME NEW i \in Hop
        PROVE  /\ pc'[i] \in Early \cup {"preamble"} => wire[i - 1]["up"] = <<>> /\ held[i - 1]["down"] = <<>>
               /\ pc'[i] = "preamble" => wire[i]["down"] = <<>>
               /\ pc'[i] = "request" /\ wire[i - 1]["down"] # <<>> => Head(wire[i - 1]["down"]) = <<Preamble>>
               /\ pc'[i] = "request" /\ wire[i - 1]["down"] = <<>> => pc'[i - 1] \in Dead \cup {"preamble"}
    <2>1. CASE i = h
      <3>1. wire[i - 1]["up"] = <<>> /\ held[i - 1]["down"] = <<>>
        BY <1>1, <2>1 DEF Preambles, Early
      <3> QED
        BY <1>3, <1>4, <2>1, <3>1
    <2>2. CASE i = h + 1
      <3>1. pc[i] = "idle" /\ pc'[i] = "request" /\ i - 1 = h /\ h < shape.hops
        BY <1>2, <1>3, <1>4, <2>2
      <3>2. wire[i - 1]["up"] = <<>> /\ held[i - 1]["down"] = <<>>
        BY <3>1 DEF Preambles, Early
      <3> QED
        BY <1>3, <1>4, <3>1, <3>2
    <2>3. CASE i # h /\ i # h + 1
      <3>1. pc'[i] = pc[i]
        BY <1>3, <2>3
      <3>2. pc[i] = "request" => i - 1 \in Hop
        BY HopsAre DEF Control, Connections
      <3>3. pc[i] = "request" => i - 1 # h + 1
        BY <1>2, <1>4
      <3>4. pc[i] = "request" => pc'[i - 1] = pc[i - 1]
        BY <1>2, <1>3, <2>3, <3>2, <3>3
      <3> QED
        BY <3>1, <3>4 DEF Preambles
    <2> QED
      BY <2>1, <2>2, <2>3
  <1>6. /\ \A l \in Link, d \in Direction : l \notin open' => wire[l][d] = <<>>
        /\ \A l \in Link : held[l]["down"] # <<>> => l < shape.hops
        /\ \A l \in Link : held[l]["up"] # <<>> => l > 0
    BY <1>1 DEF Preambles
  <1> QED
    BY <1>1, <1>2, <1>5, <1>6 DEF Preambles

\* The preamble is read, and an error page may be written.
LEMMA PreamblesHandled ==
    ASSUME Control, Preambles, NEW h \in Hop, pc[h] = "request", pc[h - 1] # "preamble",
           shape' = shape, open' = open, held' = held,
           NEW to \in {"connect", "declined"}, pc' = [pc EXCEPT ![h] = to],
           \A l \in Link, d \in Direction :
               wire'[l][d] = wire[l][d] \/ (l = h - 1 /\ (d = "down" \/ to = "declined"))
    PROVE  Preambles'
  <1>2. Hop' = Hop /\ Link' = Link /\ h \in Link /\ h - 1 \in Link /\ Hop = 1..shape.hops /\ Link = 0..shape.hops /\ shape.hops \in Nat
    BY HopsAre DEF Hop, Link, Control
  <1>3. pc'[h] = to /\ \A i \in Hop : i # h => pc'[i] = pc[i]
    BY DEF Control
  <1>4. h - 1 \in open /\ h \notin open /\ "up" \in Direction /\ "down" \in Direction
    BY OpenUpTo DEF Control, Connections, Early, Direction
  <1>5. ASSUME NEW i \in Hop
        PROVE  /\ pc'[i] \in Early \cup {"preamble"} => wire'[i - 1]["up"] = <<>> /\ held[i - 1]["down"] = <<>>
               /\ pc'[i] = "preamble" => wire'[i]["down"] = <<>>
               /\ pc'[i] = "request" /\ wire'[i - 1]["down"] # <<>> => Head(wire'[i - 1]["down"]) = <<Preamble>>
               /\ pc'[i] = "request" /\ wire'[i - 1]["down"] = <<>> => pc'[i - 1] \in Dead \cup {"preamble"}
    <2>1. CASE i = h
      <3>1. wire[i - 1]["up"] = <<>> /\ held[i - 1]["down"] = <<>>
        BY <2>1 DEF Preambles, Early
      <3>2. to # "declined" => wire'[i - 1]["up"] = wire[i - 1]["up"]
        BY <1>2, <1>4, <2>1
      <3> QED
        BY <1>3, <2>1, <3>1, <3>2 DEF Early
    <2>2. CASE i # h
      <3>1. pc'[i] = pc[i] /\ i \in Link /\ i - 1 \in Link /\ i - 1 # h - 1
        BY <1>2, <1>3, <2>2
      <3>2. wire'[i - 1]["up"] = wire[i - 1]["up"] /\ wire'[i - 1]["down"] = wire[i - 1]["down"]
        BY <1>4, <3>1
      <3>3. pc[i] = "preamble" => i # h - 1
        BY <1>2
      <3>4. pc[i] = "preamble" => wire'[i]["down"] = wire[i]["down"]
        BY <1>4, <3>1, <3>3
      <3>5. pc[i] = "request" => i - 1 \in Hop /\ i - 1 # h
        BY <1>2, <1>4, OpenUpTo DEF Control, Connections
      <3>6. pc[i] = "request" => pc'[i - 1] = pc[i - 1]
        BY <1>3, <3>5
      <3> QED
        BY <3>1, <3>2, <3>4, <3>6 DEF Preambles
    <2> QED
      BY <2>1, <2>2
  <1>6. ASSUME NEW l \in Link, NEW d \in Direction, l \notin open PROVE wire'[l][d] = <<>>
    <2>1. l # h - 1 /\ wire[l][d] = <<>>
      BY <1>4, <1>6 DEF Preambles
    <2> QED
      BY <2>1
  <1>7. /\ \A l \in Link : held[l]["down"] # <<>> => l < shape.hops
        /\ \A l \in Link : held[l]["up"] # <<>> => l > 0
    BY DEF Preambles
  <1> QED
    BY <1>2, <1>5, <1>6, <1>7 DEF Preambles

\* What is lost at the links that are closed: what they hold of the direction that the side that closed writes.
Loses(sides) ==
    /\ held' = held
    /\ \A l \in Link, d \in Direction :
          \/ wire'[l][d] = wire[l][d]
          \/ wire'[l][d] = <<>> /\ <<l, Writer(d)>> \in sides /\ wire[l][Opposite(d)] # <<>>

LEMMA PreamblesLeave ==
    ASSUME Control, Preambles, NEW h \in Hop, NEW to \in {"closed", "aborted"}, Leaves(h, to), Loses(BothSides(h)),
           pc[h] # "idle"
    PROVE  Preambles'
  <1>1. shape' = shape /\ open' = open /\ pc' = [pc EXCEPT ![h] = to] /\ held' = held
    BY DEF Leaves, Loses
  <1>2. /\ Hop' = Hop /\ Link' = Link /\ Hop = 1..shape.hops /\ Link = 0..shape.hops /\ shape.hops \in Nat
        /\ "up" \in Direction /\ "down" \in Direction
    BY <1>1, HopsAre DEF Hop, Link, Control, Direction
  <1>3. pc'[h] = to /\ \A i \in Hop : i # h => pc'[i] = pc[i]
    BY <1>1 DEF Control
  <1>4. \A l \in Link, d \in Direction : wire'[l][d] = wire[l][d] \/ wire'[l][d] = <<>>
    BY DEF Loses
  <1>5. ASSUME NEW i \in Hop
        PROVE  /\ pc'[i] \in Early \cup {"preamble"} => wire'[i - 1]["up"] = <<>> /\ held[i - 1]["down"] = <<>>
               /\ pc'[i] = "preamble" => wire'[i]["down"] = <<>>
               /\ pc'[i] = "request" /\ wire'[i - 1]["down"] # <<>> => Head(wire'[i - 1]["down"]) = <<Preamble>>
               /\ pc'[i] = "request" /\ wire'[i - 1]["down"] = <<>> => pc'[i - 1] \in Dead \cup {"preamble"}
    <2>1. CASE i = h
      BY <1>3, <2>1 DEF Early
    <2>2. CASE i # h
      <3>1. pc'[i] = pc[i] /\ i \in Link /\ i - 1 \in Link
        BY <1>2, <1>3, <2>2
      <3>2. /\ pc[i] \in Early \cup {"preamble"} => wire'[i - 1]["up"] = <<>> /\ held[i - 1]["down"] = <<>>
            /\ pc[i] = "preamble" => wire'[i]["down"] = <<>>
            /\ pc[i] = "request" /\ wire'[i - 1]["down"] # <<>> => Head(wire'[i - 1]["down"]) = <<Preamble>>
        BY <1>2, <1>4, <3>1 DEF Preambles
      <3>3. pc[i] = "request" => i - 1 \in Hop
        BY <1>2 DEF Control, Connections
      <3>4. CASE i - 1 = h
        BY <1>3, <3>1, <3>2, <3>4 DEF Dead
      <3>5. CASE i - 1 # h
        <4>1. ~(<<i - 1, Writer("down")>> \in BothSides(h))
          BY <3>5, SidesClosed DEF Writer, Reader, Other
        <4>2. wire'[i - 1]["down"] = wire[i - 1]["down"]
          BY <1>2, <3>1, <4>1 DEF Loses
        <4>3. pc[i] = "request" => pc'[i - 1] = pc[i - 1]
          BY <1>3, <3>3, <3>5
        <4> QED
          BY <3>1, <3>2, <4>2, <4>3 DEF Preambles
      <3> QED
        BY <3>4, <3>5
    <2> QED
      BY <2>1, <2>2
  <1>6. /\ \A l \in Link, d \in Direction : l \notin open => wire'[l][d] = <<>>
        /\ \A l \in Link : held[l]["down"] # <<>> => l < shape.hops
        /\ \A l \in Link : held[l]["up"] # <<>> => l > 0
    BY <1>4 DEF Preambles
  <1> QED
    BY <1>1, <1>2, <1>5, <1>6 DEF Preambles

\* The client and the target write the first link and the last, and read there.
LEMMA PreamblesEnds ==
    ASSUME Control, Preambles, shape' = shape, open' = open, held' = held, pc' = pc,
           \A l \in Link, d \in Direction :
               \/ wire'[l][d] = wire[l][d]
               \/ \E end \in End : l = LinkOf(end) /\ l \in open /\ (d = Sends(end) \/ wire[l][d] # <<>>)
    PROVE  Preambles'
  <1>1. /\ Hop' = Hop /\ Link' = Link /\ Hop = 1..shape.hops /\ Link = 0..shape.hops /\ shape.hops \in Nat
        /\ "up" \in Direction /\ "down" \in Direction
    BY HopsAre DEF Hop, Link, Control, Direction
  <1>2. ASSUME NEW i \in Hop, i # 1 \/ wire[0]["up"] = <<>> PROVE wire'[i - 1]["up"] = wire[i - 1]["up"]
    <2>1. i - 1 \in Link /\ i - 1 # shape.hops
      BY <1>1
    <2>2. \A end \in End : i - 1 = LinkOf(end) => i = 1 /\ Sends(end) # "up"
      BY <1>1, <2>1 DEF End, LinkOf, Sends
    <2> QED
      BY <1>1, <1>2, <2>1, <2>2
  <1>3. ASSUME NEW i \in Hop, i # shape.hops \/ wire[i]["down"] = <<>> PROVE wire'[i]["down"] = wire[i]["down"]
    <2>1. i \in Link /\ i # 0
      BY <1>1
    <2>2. \A end \in End : i = LinkOf(end) => i = shape.hops /\ Sends(end) # "down"
      BY <1>1, <2>1 DEF End, LinkOf, Sends
    <2> QED
      BY <1>1, <1>3, <2>1, <2>2
  <1>4. ASSUME NEW i \in Hop
        PROVE  /\ pc[i] \in Early \cup {"preamble"} => wire'[i - 1]["up"] = <<>>
               /\ pc[i] = "preamble" => wire'[i]["down"] = <<>>
               /\ pc[i] = "request" => wire'[i - 1]["down"] = wire[i - 1]["down"]
    <2>1. pc[i] \in Early \cup {"preamble"} => wire'[i - 1]["up"] = <<>>
      <3>1. pc[i] \in Early \cup {"preamble"} => wire[i - 1]["up"] = <<>>
        BY DEF Preambles
      <3> QED
        BY <1>1, <1>2, <3>1
    <2>2. pc[i] = "preamble" => wire'[i]["down"] = <<>>
      BY <1>3 DEF Preambles
    <2>3. pc[i] = "request" => wire'[i - 1]["down"] = wire[i - 1]["down"]
      <3>1. pc[i] = "request" => i - 1 \in Hop /\ i - 1 # shape.hops
        BY <1>1 DEF Control, Connections
      <3> QED
        BY <1>3, <3>1
    <2> QED
      BY <2>1, <2>2, <2>3
  <1>5. ASSUME NEW l \in Link, NEW d \in Direction, l \notin open PROVE wire'[l][d] = <<>>
    BY <1>5 DEF Preambles
  <1>6. /\ \A l \in Link : held[l]["down"] # <<>> => l < shape.hops
        /\ \A l \in Link : held[l]["up"] # <<>> => l > 0
    BY DEF Preambles
  <1>7. \A i \in Hop :
          /\ pc[i] \in Early \cup {"preamble"} => held[i - 1]["down"] = <<>>
          /\ pc[i] = "request" /\ wire[i - 1]["down"] # <<>> => Head(wire[i - 1]["down"]) = <<Preamble>>
          /\ pc[i] = "request" /\ wire[i - 1]["down"] = <<>> => pc[i - 1] \in Dead \cup {"preamble"}
    BY DEF Preambles
  <1> QED
    BY <1>1, <1>4, <1>5, <1>6, <1>7 DEF Preambles

-----------------------------------------------------------------------------
(* What the links, the hops and the ends have *)

WiresFit(f) ==
    /\ f \in [Link -> [Direction -> Seq(Seq(Int))]]
    /\ \A l \in Link, d \in Direction : Fitting(f[l][d]) /\ Len(FlattenSeq(f[l][d])) <= shape.window
HeldFit(f) ==
    /\ f \in [Link -> [Direction -> Seq(Int)]]
    /\ \A l \in Link, d \in Direction : f[l][d] # <<>> => l \in shape.tls /\ Len(f[l][d]) < RecordSize
HandsFit ==
    /\ data \in [Hop -> Seq(Int)]
    /\ \A h \in Hop : Len(data[h]) <= RecordSize /\ (pc[h] \in Direction <=> data[h] # <<>>)
EndsFit == got \in [Direction -> Seq(Int)] /\ sent \in [Direction -> 0..shape.bytes]

\* The parts of the invariant, but for what the streams are.
Base == Control /\ WiresFit(wire) /\ HeldFit(held) /\ HandsFit /\ EndsFit /\ Preambles

LEMMA BaseIs ==
    TypeOK /\ Typed /\ RecordsFit /\ Connections /\ Preambles <=> Base
  <1>1. ASSUME TypeOK, Typed, RecordsFit, Connections, Preambles PROVE Base
    <2>1. Control
      BY <1>1 DEF TypeOK, Typed, Control, Place, Early, Live, Dead
    <2>2. WiresFit(wire)
      BY <1>1 DEF TypeOK, Typed, RecordsFit, WiresFit, Fitting, Held
    <2>3. HeldFit(held)
      BY <1>1 DEF TypeOK, Typed, HeldFit
    <2>4. HandsFit
      BY <1>1 DEF TypeOK, Typed, RecordsFit, HandsFit
    <2>5. EndsFit
      BY <1>1 DEF TypeOK, Typed, EndsFit
    <2> QED
      BY <1>1, <2>1, <2>2, <2>3, <2>4, <2>5 DEF Base
  <1>2. ASSUME Base PROVE TypeOK /\ Typed /\ RecordsFit /\ Connections /\ Preambles
    <2>1. Typed
      BY <1>2 DEF Base, Typed, WiresFit, HeldFit, HandsFit, EndsFit, Control
    <2>2. RecordsFit
      BY <1>2 DEF Base, RecordsFit, WiresFit, HandsFit, Fitting
    <2>3. TypeOK
      <3>1. shape \in Shapes /\ open \subseteq Link
        BY <1>2 DEF Base, Control, Connections
      <3>2. \A l \in Link, d \in Direction :
              /\ Len(Held(l, d)) <= shape.window
              /\ held[l][d] # <<>> => l \in shape.tls /\ Len(held[l][d]) < RecordSize
              /\ shut[l] \subseteq Side
        BY <1>2 DEF Base, WiresFit, HeldFit, Held, Control
      <3>3. pc \in [Hop -> Place]
        BY <1>2 DEF Base, Control
      <3>4. Place = {"idle", "request", "connect", "preamble", "handle", "down", "up", "poll", "closed", "aborted", "declined"}
        BY DEF Place, Early, Live, Dead
      <3>5. sent \in [Direction -> 0..shape.bytes] /\ \A h \in Hop : pc[h] \in Direction <=> data[h] # <<>>
        BY <1>2 DEF Base, EndsFit, HandsFit
      <3> QED
        BY <3>1, <3>2, <3>3, <3>4, <3>5 DEF TypeOK
    <2> QED
      BY <1>2, <2>1, <2>2, <2>3 DEF Base, Control
  <1> QED
    BY <1>1, <1>2

LEMMA FitNext ==
    ASSUME shape' = shape, WiresFit(wire'), HeldFit(held')
    PROVE  WiresFit(wire)' /\ HeldFit(held)'
  BY DEF WiresFit, HeldFit, Link

LEMMA SetIn ==
    ASSUME NEW L, NEW D, NEW S, NEW f \in [L -> [D -> S]], NEW u \in L, NEW e \in D, NEW x \in S,
           NEW g, g = [f EXCEPT ![u][e] = x]
    PROVE  /\ g \in [L -> [D -> S]]
           /\ g[u][e] = x
           /\ \A l \in L, d \in D : l # u \/ d # e => g[l][d] = f[l][d]
  <1>1. f[u] \in [D -> S]
    OBVIOUS
  <1>2. PICK r : r = [f[u] EXCEPT ![e] = x]
    OBVIOUS
  <1>3. r \in [D -> S] /\ r[e] = x /\ \A d \in D : d # e => r[d] = f[u][d]
    BY <1>1, <1>2
  <1>4. g = [f EXCEPT ![u] = r]
    BY <1>2
  <1> QED
    BY <1>3, <1>4

LEMMA WiresSet ==
    ASSUME NEW f, WiresFit(f), NEW u \in Link, NEW e \in Direction, NEW v, Fitting(v), Len(FlattenSeq(v)) <= shape.window,
           NEW g, g = [f EXCEPT ![u][e] = v]
    PROVE  /\ WiresFit(g)
           /\ g[u][e] = v
           /\ \A l \in Link, d \in Direction : l # u \/ d # e => g[l][d] = f[l][d]
  <1>1. f \in [Link -> [Direction -> Seq(Seq(Int))]] /\ v \in Seq(Seq(Int))
    BY DEF WiresFit, Fitting
  <1>2. /\ g \in [Link -> [Direction -> Seq(Seq(Int))]]
        /\ g[u][e] = v
        /\ \A l \in Link, d \in Direction : l # u \/ d # e => g[l][d] = f[l][d]
    BY <1>1, SetIn
  <1> QED
    BY <1>2 DEF WiresFit

LEMMA HeldSet ==
    ASSUME NEW f, HeldFit(f), NEW u \in Link, NEW e \in Direction, NEW j \in Seq(Int),
           j # <<>> => u \in shape.tls /\ Len(j) < RecordSize,
           NEW g, g = [f EXCEPT ![u][e] = j]
    PROVE  /\ HeldFit(g)
           /\ g[u][e] = j
           /\ \A l \in Link, d \in Direction : l # u \/ d # e => g[l][d] = f[l][d]
  <1>1. f \in [Link -> [Direction -> Seq(Int)]]
    BY DEF HeldFit
  <1>2. /\ g \in [Link -> [Direction -> Seq(Int)]]
        /\ g[u][e] = j
        /\ \A l \in Link, d \in Direction : l # u \/ d # e => g[l][d] = f[l][d]
    BY <1>1, SetIn
  <1> QED
    BY <1>2 DEF HeldFit

\* Links that are as they were, or empty.
LEMMA WiresCut ==
    ASSUME NEW f, WiresFit(f), NEW g \in [Link -> [Direction -> Seq(Seq(Int))]], shape \in Shapes,
           \A l \in Link, d \in Direction : g[l][d] = f[l][d] \/ g[l][d] = <<>>
    PROVE  WiresFit(g)
  <1>1. Fitting(<<>>) /\ Len(FlattenSeq(<<>>)) <= shape.window
    BY FlattenEmpty, HopsAre DEF Fitting
  <1> QED
    BY <1>1 DEF WiresFit

\* A hop has in hand what it read, and only while it sends.
LEMMA HandsSet ==
    ASSUME HandsFit, pc \in [Hop -> Place], shape' = shape, NEW h \in Hop, NEW y \in Seq(Int), Len(y) <= RecordSize,
           data' = [data EXCEPT ![h] = y],
           NEW to, pc' = [pc EXCEPT ![h] = to], to \in Direction <=> y # <<>>
    PROVE  HandsFit' /\ data'[h] = y /\ \A i \in Hop : i # h => data'[i] = data[i]
  <1>1. data' \in [Hop -> Seq(Int)] /\ data'[h] = y /\ \A i \in Hop : i # h => data'[i] = data[i]
    BY DEF HandsFit
  <1>2. pc'[h] = to /\ \A i \in Hop : i # h => pc'[i] = pc[i]
    OBVIOUS
  <1>3. Hop' = Hop
    BY DEF Hop
  <1> QED
    BY <1>1, <1>2, <1>3 DEF HandsFit

LEMMA HandsSame ==
    ASSUME HandsFit, shape' = shape, data' = data, \A i \in Hop : pc'[i] \in Direction <=> pc[i] \in Direction
    PROVE  HandsFit'
  BY DEF HandsFit, Hop

-----------------------------------------------------------------------------
(* What a read takes *)

LEMMA HasBytes == ASSUME NEW y \in Seq(Int) PROVE Len(y) \in Nat /\ (y # <<>> <=> Len(y) > 0)
  BY EmptySeq, LenProperties

\* Of what is held, and of a record.
LEMMA ReadOfHeld ==
    ASSUME NEW k \in Seq(Int), k # <<>>, NEW left, left = SubSeq(k, ReadSize + 1, Len(k)),
           NEW y, y = SubSeq(k, 1, Len(k) - Len(left))
    PROVE  /\ y \in Seq(Int) /\ left \in Seq(Int) /\ Cat(y, left) = k
           /\ y # <<>> /\ Len(y) <= Len(k) /\ Len(left) < Len(k)
  <1>1. Len(k) \in Nat \ {0} /\ ReadSize \in Nat \ {0} /\ \A i \in 1..Len(k) : k[i] \in Int
    BY EmptySeq, LenProperties, TunnelAssumption
  <1>2. CASE Len(k) > ReadSize
    <2>1. ReadSize \in 0..Len(k)
      BY <1>1, <1>2
    <2>2. left \in Seq(Int) /\ Len(left) = Len(k) - ReadSize
      BY <2>1, SplitAt
    <2>3. Len(k) - Len(left) = ReadSize
      BY <1>1, <2>2
    <2>4. y = SubSeq(k, 1, ReadSize)
      BY <2>3
    <2>5. y \in Seq(Int) /\ Len(y) = ReadSize /\ Cat(y, left) = k
      BY <2>1, <2>4, SplitAt
    <2>6. y # <<>>
      BY <1>1, <2>5, HasBytes
    <2>7. Len(y) <= Len(k) /\ Len(left) < Len(k)
      BY <1>1, <1>2, <2>2, <2>5
    <2> QED
      BY <2>2, <2>5, <2>6, <2>7
  <1>3. CASE ~(Len(k) > ReadSize)
    <2>1. left = <<>> /\ Len(left) = 0
      <3>1. ReadSize + 1 \in Int /\ Len(k) \in Int /\ Len(k) < ReadSize + 1
        BY <1>1, <1>3
      <3>2. left = <<>>
        BY <3>1, SubSeqEmpty
      <3> QED
        BY <3>2, EmptySeq
    <2>2. y = SubSeq(k, 1, Len(k))
      BY <1>1, <2>1
    <2>3. y = k
      BY <2>2, SubSeqFull
    <2>4. Cat(y, left) = k
      BY <2>1, <2>3, CatEmpty
    <2> QED
      BY <1>1, <2>1, <2>3, <2>4
  <1> QED
    BY <1>2, <1>3

\* How many bytes of a record a read takes.
Part(r) == IF Len(r) < ReadSize THEN Len(r) ELSE ReadSize

LEMMA ReadOfRecord ==
    ASSUME NEW r \in Seq(Int), Len(r) \in 1..RecordSize
    PROVE  \E y \in Seq(Int), rest \in Seq(Int) :
               /\ y = SubSeq(r, 1, Part(r)) /\ rest = SubSeq(r, Part(r) + 1, Len(r))
               /\ Cat(y, rest) = r /\ y # <<>> /\ Len(y) <= RecordSize /\ Len(rest) < RecordSize
  <1>1. ReadSize \in Nat \ {0} /\ RecordSize \in Nat \ {0} /\ Len(r) \in Nat \ {0}
    BY TunnelAssumption
  <1>2. PICK n : n = Part(r)
    OBVIOUS
  <1>3. n \in 0..Len(r) /\ n > 0 /\ Len(r) - n < RecordSize /\ n <= RecordSize
    BY <1>1, <1>2 DEF Part
  <1>4. PICK y \in Seq(Int), rest \in Seq(Int) :
            /\ y = SubSeq(r, 1, n) /\ rest = SubSeq(r, n + 1, Len(r))
            /\ Len(y) = n /\ Len(rest) = Len(r) - n /\ Cat(y, rest) = r
    <2>1. n \in 0..Len(r)
      BY <1>3
    <2> DEFINE y == SubSeq(r, 1, n)
               rest == SubSeq(r, n + 1, Len(r))
    <2>2. /\ y \in Seq(Int) /\ Len(y) = n /\ rest \in Seq(Int) /\ Len(rest) = Len(r) - n /\ Cat(y, rest) = r
      BY <2>1, SplitAt
    <2> HIDE DEF y, rest
    <2>3. /\ y = SubSeq(r, 1, n) /\ rest = SubSeq(r, n + 1, Len(r))
      BY DEF y, rest
    <2> QED
      BY <2>2, <2>3, Zenon
  <1>5. y # <<>>
    BY <1>3, <1>4, HasBytes
  <1> QED
    BY <1>2, <1>3, <1>4, <1>5

LEMMA SetSame ==
    ASSUME NEW L, NEW D, NEW S, NEW f \in [L -> [D -> S]], NEW u \in L, NEW e \in D
    PROVE  [f EXCEPT ![u][e] = f[u][e]] = f
  <1>1. f[u] \in [D -> S]
    OBVIOUS
  <1>2. [f[u] EXCEPT ![e] = f[u][e]] = f[u]
    BY <1>1
  <1> QED
    BY <1>2

LEMMA LinksOf ==
    ASSUME shape \in Shapes, NEW h \in Hop, NEW d \in Direction
    PROVE  /\ Upstream(h, d) \in Link /\ Downstream(h, d) \in Link /\ Upstream(h, d) # Downstream(h, d)
           /\ Downstream(h, d) = Upstream(h, Opposite(d)) /\ Upstream(h, d) = Downstream(h, Opposite(d))
           /\ Opposite(d) \in Direction /\ Opposite(d) # d /\ Opposite(Opposite(d)) = d
           /\ Direction = {"down", "up"}
  BY HopsAre DEF Upstream, Downstream, Direction, Opposite, Link

\* A read takes bytes off the front of what is held and on the wire.
Takes(k, w, y, j, v, l) ==
    /\ Fitting(v) /\ Len(FlattenSeq(v)) <= Len(FlattenSeq(w))
    /\ y # <<>> /\ Len(y) <= RecordSize
    /\ j # <<>> => l \in shape.tls /\ Len(j) < RecordSize
    /\ Cat(k, FlattenSeq(w)) = Cat(y, Cat(j, FlattenSeq(v)))
    /\ v = w \/ w # <<>>

ReadsFrom(h, d, u, k, w) ==
    \E y \in Seq(Int), j \in Seq(Int), v \in Seq(Seq(Int)) :
        /\ Takes(k, w, y, j, v, u)
        /\ data' = [data EXCEPT ![h] = y]
        /\ held' = [held EXCEPT ![u][d] = j]
        /\ wire' = [wire EXCEPT ![u][d] = v]

LEMMA ReadTakes ==
    ASSUME shape \in Shapes, WiresFit(wire), HeldFit(held), NEW h \in Hop, NEW d \in Direction, read(h, d)
    PROVE  ReadsFrom(h, d, Upstream(h, d), held[Upstream(h, d)][d], wire[Upstream(h, d)][d])
  <1>1. PICK u \in Link : u = Upstream(h, d)
    BY LinksOf
  <1>2. PICK k \in Seq(Int), w \in Seq(Seq(Int)) : k = held[u][d] /\ w = wire[u][d]
    BY DEF WiresFit, HeldFit
  <1>3. /\ Fitting(w) /\ (k # <<>> => u \in shape.tls /\ Len(k) < RecordSize)
        /\ wire \in [Link -> [Direction -> Seq(Seq(Int))]]
    BY <1>2 DEF WiresFit, HeldFit
  <1>4. PICK f \in Seq(Int) : f = FlattenSeq(w)
    BY FlattenType
  <1>5. ASSUME k # <<>> PROVE ReadsFrom(h, d, u, k, w)
    <2>1. PICK left, y : left = SubSeq(k, ReadSize + 1, Len(k)) /\ y = SubSeq(k, 1, Len(k) - Len(left))
      OBVIOUS
    <2>2. data' = [data EXCEPT ![h] = y] /\ held' = [held EXCEPT ![u][d] = left] /\ wire' = wire
      BY <1>1, <1>2, <1>5, <2>1 DEF read
    <2>3. /\ y \in Seq(Int) /\ left \in Seq(Int) /\ Cat(y, left) = k
          /\ y # <<>> /\ Len(y) <= Len(k) /\ Len(left) < Len(k)
      BY <1>5, <2>1, ReadOfHeld
    <2>4. Cat(k, f) = Cat(y, Cat(left, f))
      BY <2>3, Regroup
    <2>5. Len(k) < RecordSize /\ u \in shape.tls /\ RecordSize \in Nat /\ Len(k) \in Nat /\ Len(y) \in Nat /\ Len(left) \in Nat /\ Len(f) \in Nat
      BY <1>3, <1>5, <2>3, TunnelAssumption, LenProperties
    <2>6. Takes(k, w, y, left, w, u)
      BY <1>3, <1>4, <2>3, <2>4, <2>5 DEF Takes
    <2>7. wire' = [wire EXCEPT ![u][d] = w]
      BY <1>2, <1>3, <2>2, SetSame
    <2> QED
      BY <2>2, <2>3, <2>6, <2>7 DEF ReadsFrom
  <1>6. ASSUME k = <<>> PROVE ReadsFrom(h, d, u, k, w)
    <2>1. w # <<>>
      BY <1>1, <1>2, <1>6 DEF read
    <2>2. PICK r \in Seq(Int), t \in Seq(Seq(Int)) : r = Head(w) /\ t = Tail(w)
      BY <2>1, HeadTailProperties
    <2>16. Len(r) \in 1..RecordSize /\ Fitting(t)
      BY <1>3, <2>1, <2>2, FittingTail
    <2>3. PICK y \in Seq(Int), rest \in Seq(Int) :
              /\ y = SubSeq(r, 1, Part(r)) /\ rest = SubSeq(r, Part(r) + 1, Len(r))
              /\ Cat(y, rest) = r /\ y # <<>> /\ Len(y) <= RecordSize /\ Len(rest) < RecordSize
      BY <2>16, ReadOfRecord
    <2>4. PICK j, v : /\ j = (IF u \in shape.tls THEN rest ELSE <<>>)
                      /\ v = (IF u \in shape.tls \/ rest = <<>> THEN t ELSE <<rest>> \o t)
      OBVIOUS
    <2>5. /\ data' = [data EXCEPT ![h] = y]
          /\ held' = [held EXCEPT ![u][d] = j]
          /\ wire' = [wire EXCEPT ![u][d] = v]
      BY <1>1, <1>2, <1>6, <2>1, <2>2, <2>3, <2>4 DEF read, Part
    <2>17. Cat(y, rest) = r /\ y # <<>> /\ Len(y) <= RecordSize /\ Len(rest) < RecordSize
      BY <2>3, Zenon
    <2>7. /\ y \in Seq(Int) /\ rest \in Seq(Int) /\ Cat(y, rest) = r
          /\ y # <<>> /\ Len(y) <= RecordSize /\ Len(rest) < RecordSize /\ Len(rest) \in Nat /\ Len(y) \in Nat
          /\ Len(r) = Len(y) + Len(rest)
      BY <2>17, CatSlots
    <2>8. PICK g \in Seq(Int) : g = FlattenSeq(t)
      BY FlattenType
    <2>9. f = Cat(r, g) /\ Len(f) = Len(r) + Len(g) /\ Len(g) \in Nat
      <3>1. f = Cat(r, g)
        BY <1>4, <2>1, <2>2, <2>8, FlattenHead DEF Cat
      <3> QED
        BY <3>1, CatSlots
    <2>10. Cat(k, f) = Cat(y, Cat(rest, g))
      <3>1. Cat(r, g) = Cat(y, Cat(rest, g))
        BY <2>7, Regroup
      <3> QED
        BY <1>6, <2>9, <3>1, CatEmpty
    <2>11. PICK z \in Seq(Int) : z = Cat(rest, g)
      BY <2>7, CatSlots
    <2>12. /\ j \in Seq(Int) /\ Fitting(v) /\ FlattenSeq(v) \in Seq(Int) /\ Cat(j, FlattenSeq(v)) = z
           /\ Len(FlattenSeq(v)) <= Len(f)
      <3>1. CASE u \in shape.tls
        BY <2>4, <2>16, <2>7, <2>8, <2>9, <2>11, <3>1
      <3>2. CASE u \notin shape.tls /\ rest = <<>>
        BY <2>4, <2>16, <2>7, <2>8, <2>9, <2>11, <3>2
      <3>3. CASE u \notin shape.tls /\ rest # <<>>
        <4>1. j = <<>> /\ v = <<rest>> \o t
          BY <2>4, <3>3
        <4>2. Len(rest) \in 1..RecordSize
          <5>1. Len(rest) > 0
            BY <2>7, <3>3, HasBytes
          <5>2. PICK m \in Nat : m = Len(rest)
            BY <2>7, LenProperties
          <5>3. m < RecordSize /\ m > 0 /\ RecordSize \in Nat
            BY <2>7, <5>1, <5>2, TunnelAssumption
          <5> QED
            BY <5>2, <5>3
        <4>3. Fitting(v) /\ FlattenSeq(v) = z
          BY <2>16, <2>7, <2>8, <2>11, <4>1, <4>2, FittingCons
        <4>4. Len(z) = Len(rest) + Len(g)
          BY <2>7, <2>11, CatSlots
        <4> QED
          BY <2>7, <2>9, <2>11, <4>1, <4>3, <4>4, CatEmpty
      <3> QED
        BY <3>1, <3>2, <3>3
    <2>13. j # <<>> => u \in shape.tls /\ Len(j) < RecordSize
      BY <2>4, <2>7
    <2>14. Takes(k, w, y, j, v, u)
      BY <1>4, <2>1, <2>7, <2>10, <2>11, <2>12, <2>13 DEF Takes
    <2>15. v \in Seq(Seq(Int))
      BY <2>12 DEF Fitting
    <2> QED
      BY <2>5, <2>7, <2>12, <2>14, <2>15 DEF ReadsFrom
  <1>7. ReadsFrom(h, d, u, k, w)
    BY <1>5, <1>6
  <1> QED
    BY <1>1, <1>2, <1>7, Zenon

-----------------------------------------------------------------------------
(* The relay, of what the links hold, what the hops have in hand, what was taken and what was sent *)

FirstOf(n, d) == IF d = "down" THEN 0 ELSE n
FinalOf(n, d) == IF d = "down" THEN n ELSE 0
Offered(n, t, s, l, d) == IF l = FirstOf(n, d) THEN s[d] ELSE t[Previous(l, d)][d]

\* n is how many hops there are, x and b what the links hold and what is behind, t how many bytes were taken
\* from each, s and g what the ends sent and got, c the sides that closed.
Sizes(n, x, b, t, s) ==
    /\ n \in Nat \ {0}
    /\ \A l \in 0..n, d \in Direction : x[l][d] \in Seq(Int) /\ b[l][d] \in Seq(Int) /\ t[l][d] \in Nat
    /\ \A d \in Direction : s[d] \in Nat
Cutting(n, x, b, t, s, c) ==
    \A l \in 0..n, d \in Direction : Cuts(x[l][d], b[l][d], t[l][d], Offered(n, t, s, l, d), c[l])
Falling(n, t, s) ==
    /\ \A k \in 0..n, l \in 0..n, d \in Direction : Before(k, l, d) => t[l][d] <= t[k][d]
    /\ \A l \in 0..n, d \in Direction : t[l][d] <= s[d]
Getting(n, t, g) == \A d \in Direction : g[d] = Bytes(0, t[FinalOf(n, d)][d])
Relaying(n, x, b, t, s, g, c) == Cutting(n, x, b, t, s, c) /\ Falling(n, t, s) /\ Getting(n, t, g)

\* f and f2 differ at most on one direction of one link.
Except(n, f, f2, u, e) == \A l \in 0..n, d \in Direction : l # u \/ d # e => f2[l][d] = f[l][d]

LEMMA OfferedType ==
    ASSUME NEW n, NEW x, NEW b, NEW t, NEW s, Sizes(n, x, b, t, s), NEW l \in 0..n, NEW d \in Direction
    PROVE  /\ Offered(n, t, s, l, d) \in Nat
           /\ l # FirstOf(n, d) => Previous(l, d) \in 0..n /\ Before(Previous(l, d), l, d)
           /\ \A k \in 0..n : Before(k, l, d) => l # FirstOf(n, d) /\ (k = Previous(l, d) \/ Before(k, Previous(l, d), d))
  <1>1. l # FirstOf(n, d) => Previous(l, d) \in 0..n /\ Before(Previous(l, d), l, d)
    BY DEF Sizes, FirstOf, Previous, Direction, Before
  <1>2. \A k \in 0..n : Before(k, l, d) => l # FirstOf(n, d) /\ (k = Previous(l, d) \/ Before(k, Previous(l, d), d))
    BY DEF Sizes, FirstOf, Previous, Direction, Before
  <1>3. Offered(n, t, s, l, d) \in Nat
    BY <1>1 DEF Sizes, Offered
  <1> QED
    BY <1>1, <1>2, <1>3

LEMMA OfferedSent ==
    ASSUME NEW n, NEW x, NEW b, NEW t, NEW s, Sizes(n, x, b, t, s), Falling(n, t, s), NEW l \in 0..n, NEW d \in Direction
    PROVE  Offered(n, t, s, l, d) <= s[d]
  <1>1. CASE l = FirstOf(n, d)
    BY <1>1 DEF Offered, Sizes
  <1>2. CASE l # FirstOf(n, d)
    <2>1. Previous(l, d) \in 0..n
      BY <1>2, OfferedType
    <2> QED
      BY <1>2, <2>1 DEF Offered, Falling
  <1> QED
    BY <1>1, <1>2

\* A hop reads.
LEMMA RelayingRead ==
    ASSUME NEW n, NEW x, NEW b, NEW t, NEW s, Sizes(n, x, b, t, s), NEW g, NEW c, Relaying(n, x, b, t, s, g, c),
           NEW x2, NEW b2, NEW t2, Sizes(n, x2, b2, t2, s),
           NEW u \in 0..n, NEW w \in 0..n, NEW e \in Direction, w # FirstOf(n, e), u = Previous(w, e),
           NEW y \in Seq(Int), x[u][e] = Cat(y, x2[u][e]), Except(n, x, x2, u, e),
           b[w][e] = <<>>, b2[w][e] = y, Except(n, b, b2, w, e),
           t2[u][e] = t[u][e] + Len(y), Except(n, t, t2, u, e)
    PROVE  Relaying(n, x2, b2, t2, s, g, c)
  <1>1. /\ u # w /\ u # FinalOf(n, e)
        /\ \A l \in 0..n : l # w /\ l # FirstOf(n, e) => Previous(l, e) # u
    BY DEF Sizes, Previous, FirstOf, FinalOf, Direction
  <1>2. PICK q \in Nat : q = Offered(n, t, s, u, e)
    BY OfferedType
  <1>3. Cuts(x[u][e], b[u][e], t[u][e], q, c[u])
    BY <1>2 DEF Relaying, Cutting
  <1>4. /\ Cuts(x2[u][e], b[u][e], t2[u][e], q, c[u])
        /\ t2[u][e] <= q /\ y = Bytes(t[u][e], t2[u][e]) /\ t[u][e] <= t2[u][e]
    <2>1. x[u][e] \in Seq(Int) /\ x2[u][e] \in Seq(Int) /\ b[u][e] \in Seq(Int) /\ t[u][e] \in Nat
      BY DEF Sizes
    <2>2. PICK z \in Seq(Int), z2 \in Seq(Int), k \in Seq(Int), m \in Nat :
              z = x[u][e] /\ z2 = x2[u][e] /\ k = b[u][e] /\ m = t[u][e]
      BY <2>1
    <2>3. z = Cat(y, z2) /\ Cuts(z, k, m, q, c[u])
      BY <1>3, <2>2
    <2>4. /\ Cuts(z2, k, m + Len(y), q, c[u])
          /\ m + Len(y) <= q /\ y = Bytes(m, m + Len(y))
      BY <2>3, CutsRead
    <2> QED
      BY <2>2, <2>4, LenProperties
  <1>5. /\ Offered(n, t2, s, w, e) = t2[u][e] /\ Offered(n, t, s, w, e) = t[u][e]
        /\ \A l \in 0..n, d \in Direction : l # w \/ d # e => Offered(n, t2, s, l, d) = Offered(n, t, s, l, d)
    <2>1. Offered(n, t2, s, w, e) = t2[u][e] /\ Offered(n, t, s, w, e) = t[u][e]
      BY DEF Offered
    <2>2. ASSUME NEW l \in 0..n, NEW d \in Direction, l # w \/ d # e
          PROVE  Offered(n, t2, s, l, d) = Offered(n, t, s, l, d)
      <3>1. CASE l = FirstOf(n, d)
        BY <3>1 DEF Offered
      <3>2. CASE l # FirstOf(n, d)
        <4>1. Previous(l, d) \in 0..n /\ (Previous(l, d) # u \/ d # e)
          BY <1>1, <2>2, <3>2, OfferedType
        <4>2. t2[Previous(l, d)][d] = t[Previous(l, d)][d]
          BY <4>1 DEF Except
        <4> QED
          BY <3>2, <4>2 DEF Offered
      <3> QED
        BY <3>1, <3>2
    <2> QED
      BY <2>1, <2>2
  <1>6. ASSUME NEW l \in 0..n, NEW d \in Direction
        PROVE  Cuts(x2[l][d], b2[l][d], t2[l][d], Offered(n, t2, s, l, d), c[l])
    <2>1. CASE l = u /\ d = e
      <3>1. Offered(n, t2, s, u, e) = q /\ b2[u][e] = b[u][e]
        BY <1>1, <1>2, <1>5 DEF Except
      <3> QED
        BY <1>4, <2>1, <3>1
    <2>2. CASE l = w /\ d = e
      <3>1. x2[w][e] = x[w][e] /\ t2[w][e] = t[w][e]
        BY <1>1 DEF Except
      <3>2. Cuts(x[w][e], <<>>, t[w][e], t[u][e], c[w])
        BY <1>5 DEF Relaying, Cutting
      <3>3. PICK z \in Seq(Int), m \in Nat, k \in Nat : z = x[w][e] /\ m = t[w][e] /\ k = t[u][e]
        BY DEF Sizes
      <3>4. Cuts(z, <<>>, m, k, c[w]) /\ y = Bytes(k, k + Len(y)) /\ k + Len(y) = t2[u][e]
        BY <1>4, <3>2, <3>3
      <3>5. Cuts(z, y, m, k + Len(y), c[w])
        BY <3>4, CutsTake
      <3> QED
        BY <1>5, <2>2, <3>1, <3>3, <3>4, <3>5
    <2>3. CASE ~(l = u /\ d = e) /\ ~(l = w /\ d = e)
      <3>1. x2[l][d] = x[l][d] /\ b2[l][d] = b[l][d] /\ t2[l][d] = t[l][d] /\ Offered(n, t2, s, l, d) = Offered(n, t, s, l, d)
        BY <1>5, <2>3 DEF Except
      <3> QED
        BY <3>1 DEF Relaying, Cutting
    <2> QED
      BY <2>1, <2>2, <2>3
  <1>7. ASSUME NEW k \in 0..n, NEW l \in 0..n, NEW d \in Direction, Before(k, l, d)
        PROVE  t2[l][d] <= t2[k][d]
    <2>1. t[l][d] <= t[k][d]
      BY <1>7 DEF Relaying, Falling
    <2>5. t[l][d] \in Nat /\ t[k][d] \in Nat /\ t2[l][d] \in Nat /\ t2[k][d] \in Nat
      BY DEF Sizes
    <2>6. t[k][d] <= t2[k][d]
      <3>1. CASE k = u /\ d = e
        BY <1>4, <3>1
      <3>2. CASE ~(k = u /\ d = e)
        BY <2>5, <3>2 DEF Except
      <3> QED
        BY <3>1, <3>2
    <2>2. t[l][d] \in Nat /\ t[k][d] \in Nat /\ t2[l][d] \in Nat /\ t2[k][d] \in Nat /\ t[k][d] <= t2[k][d]
      BY <2>5, <2>6
    <2>3. CASE l = u /\ d = e
      <3>1. k # u /\ u # FirstOf(n, e) /\ Previous(u, e) \in 0..n /\ (k = Previous(u, e) \/ Before(k, Previous(u, e), e))
        <4>1. k # l
          BY <1>7 DEF Before, Sizes
        <4>2. l # FirstOf(n, d) /\ Previous(l, d) \in 0..n /\ (k = Previous(l, d) \/ Before(k, Previous(l, d), d))
          BY <1>7, OfferedType
        <4> QED
          BY <2>3, <4>1, <4>2
      <3>2. q = t[Previous(u, e)][e] /\ t[Previous(u, e)][e] <= t[k][e] /\ t2[k][e] = t[k][e]
        BY <1>2, <2>2, <2>3, <3>1 DEF Offered, Relaying, Falling, Except
      <3> QED
        BY <1>4, <2>2, <2>3, <3>2
    <2>4. CASE ~(l = u /\ d = e)
      <3>1. t2[l][d] = t[l][d]
        BY <2>4 DEF Except
      <3> QED
        BY <2>1, <2>2, <3>1
    <2> QED
      BY <2>3, <2>4
  <1>8. ASSUME NEW l \in 0..n, NEW d \in Direction PROVE t2[l][d] <= s[d]
    <2>1. CASE l = u /\ d = e
      <3>1. q <= s[e] /\ t2[u][e] \in Nat /\ s[e] \in Nat
        BY <1>2, OfferedSent DEF Relaying, Sizes
      <3> QED
        BY <1>4, <2>1, <3>1
    <2>2. CASE ~(l = u /\ d = e)
      BY <2>2 DEF Except, Relaying, Falling
    <2> QED
      BY <2>1, <2>2
  <1>9. ASSUME NEW d \in Direction PROVE g[d] = Bytes(0, t2[FinalOf(n, d)][d])
    <2>1. FinalOf(n, d) \in 0..n /\ (FinalOf(n, d) # u \/ d # e)
      BY <1>1 DEF Sizes, FinalOf
    <2>2. t2[FinalOf(n, d)][d] = t[FinalOf(n, d)][d]
      BY <2>1 DEF Except
    <2> QED
      BY <2>2 DEF Relaying, Getting
  <1> QED
    BY <1>6, <1>7, <1>8, <1>9 DEF Relaying, Cutting, Falling, Getting

\* A hop sends.
LEMMA RelayingWrite ==
    ASSUME NEW n, NEW x, NEW b, NEW t, NEW s, Sizes(n, x, b, t, s), NEW g, NEW c, Relaying(n, x, b, t, s, g, c),
           NEW x2, NEW b2, Sizes(n, x2, b2, t, s), NEW w \in 0..n, NEW e \in Direction, c[w] = {},
           NEW y \in Seq(Int), b[w][e] = Cat(y, b2[w][e]), x2[w][e] = Cat(x[w][e], y),
           Except(n, x, x2, w, e), Except(n, b, b2, w, e)
    PROVE  Relaying(n, x2, b2, t, s, g, c)
  <1>1. ASSUME NEW l \in 0..n, NEW d \in Direction
        PROVE  Cuts(x2[l][d], b2[l][d], t[l][d], Offered(n, t, s, l, d), c[l])
    <2>1. Cuts(x[l][d], b[l][d], t[l][d], Offered(n, t, s, l, d), c[l])
      BY DEF Relaying, Cutting
    <2>2. CASE l = w /\ d = e
      <3>1. PICK q \in Nat : q = Offered(n, t, s, w, e)
        BY OfferedType
      <3>2. PICK z \in Seq(Int), k \in Seq(Int), k2 \in Seq(Int), m \in Nat :
                z = x[w][e] /\ k = b[w][e] /\ k2 = b2[w][e] /\ m = t[w][e]
        BY DEF Sizes
      <3>3. k = Cat(y, k2) /\ Cuts(z, k, m, q, c[w])
        BY <2>1, <2>2, <3>1, <3>2
      <3>4. Cuts(Cat(z, y), k2, m, q, c[w])
        BY <3>3, CutsWrite
      <3> QED
        BY <2>2, <3>1, <3>2, <3>4
    <2>3. CASE l # w \/ d # e
      BY <2>1, <2>3 DEF Except
    <2> QED
      BY <2>2, <2>3
  <1> QED
    BY <1>1 DEF Relaying, Cutting

\* An equation that the provers leave as it is.
Same(a, b) == a = b

\* An end sends.
LEMMA RelayingGrow ==
    ASSUME NEW n, NEW x, NEW b, NEW t, NEW s, Sizes(n, x, b, t, s), NEW g, NEW c, Relaying(n, x, b, t, s, g, c),
           NEW x2, NEW s2, Sizes(n, x2, b, t, s2), NEW e \in Direction, NEW w, w = FirstOf(n, e), c[w] = {}, b[w][e] = <<>>,
           NEW y \in Seq(Int), Same(y, Bytes(s[e], s2[e])), s2[e] = s[e] + Len(y), \A d \in Direction : d # e => s2[d] = s[d],
           x2[w][e] = Cat(x[w][e], y), Except(n, x, x2, w, e)
    PROVE  Relaying(n, x2, b, t, s2, g, c)
  <1>1. w \in 0..n /\ s[e] \in Nat /\ s2[e] \in Nat /\ s[e] <= s2[e]
    <2>1. Len(y) \in Nat
      BY LenProperties
    <2> QED
      BY <2>1 DEF Sizes, FirstOf
  <1>2. /\ Offered(n, t, s, w, e) = s[e] /\ Offered(n, t, s2, w, e) = s2[e]
        /\ \A l \in 0..n, d \in Direction : l # w \/ d # e => Offered(n, t, s2, l, d) = Offered(n, t, s, l, d)
    BY DEF Offered
  <1>3. ASSUME NEW l \in 0..n, NEW d \in Direction
        PROVE  Cuts(x2[l][d], b[l][d], t[l][d], Offered(n, t, s2, l, d), c[l])
    <2>1. Cuts(x[l][d], b[l][d], t[l][d], Offered(n, t, s, l, d), c[l])
      BY DEF Relaying, Cutting
    <2>2. CASE l = w /\ d = e
      <3>1. PICK z \in Seq(Int), m \in Nat, k \in Nat, k2 \in Nat :
                z = x[w][e] /\ m = t[w][e] /\ k = s[e] /\ k2 = s2[e]
        BY <1>1 DEF Sizes
      <3>2. y = Bytes(k, k + Len(y)) /\ k2 = k + Len(y) /\ Cuts(z, <<>>, m, k, c[w])
        BY <1>2, <2>1, <2>2, <3>1 DEF Same
      <3>3. Cuts(Cat(z, y), <<>>, m, k2, c[w])
        BY <3>2, CutsGrow
      <3> QED
        BY <1>2, <2>2, <3>1, <3>3
    <2>3. CASE l # w \/ d # e
      BY <1>2, <2>1, <2>3 DEF Except
    <2> QED
      BY <2>2, <2>3
  <1>4. ASSUME NEW l \in 0..n, NEW d \in Direction PROVE t[l][d] <= s2[d]
    <2>1. t[l][d] <= s[d] /\ t[l][d] \in Nat /\ s[d] \in Nat /\ s2[d] \in Nat
      BY DEF Relaying, Falling, Sizes
    <2>2. s[d] <= s2[d]
      <3>1. CASE d = e
        BY <1>1, <3>1
      <3>2. CASE d # e
        BY <2>1, <3>2
      <3> QED
        BY <3>1, <3>2
    <2> QED
      BY <2>1, <2>2
  <1> QED
    BY <1>3, <1>4 DEF Relaying, Cutting, Falling

\* An end receives.
LEMMA RelayingReceive ==
    ASSUME NEW n, NEW x, NEW b, NEW t, NEW s, Sizes(n, x, b, t, s), NEW g, NEW c, Relaying(n, x, b, t, s, g, c),
           NEW x2, NEW t2, Sizes(n, x2, b, t2, s), NEW e \in Direction, NEW u, u = FinalOf(n, e),
           NEW y \in Seq(Int), x[u][e] = Cat(y, x2[u][e]), Except(n, x, x2, u, e),
           t2[u][e] = t[u][e] + Len(y), Except(n, t, t2, u, e),
           NEW g2, g2[e] = Cat(g[e], y), \A d \in Direction : d # e => g2[d] = g[d]
    PROVE  Relaying(n, x2, b, t2, s, g2, c)
  <1>1. /\ u \in 0..n /\ u # FirstOf(n, e) /\ Previous(u, e) \in 0..n
        /\ \A l \in 0..n : l # FirstOf(n, e) => Previous(l, e) # u
    BY DEF Sizes, Previous, FirstOf, FinalOf, Direction
  <1>2. PICK q \in Nat : q = Offered(n, t, s, u, e)
    BY <1>1, OfferedType
  <1>3. Cuts(x[u][e], b[u][e], t[u][e], q, c[u])
    BY <1>1, <1>2 DEF Relaying, Cutting
  <1>4. PICK z \in Seq(Int), z2 \in Seq(Int), k \in Seq(Int), m \in Nat :
            z = x[u][e] /\ z2 = x2[u][e] /\ k = b[u][e] /\ m = t[u][e]
    BY <1>1 DEF Sizes
  <1>5. /\ Cuts(z2, k, m + Len(y), q, c[u])
        /\ m + Len(y) <= q /\ y = Bytes(m, m + Len(y)) /\ Len(y) \in Nat
    <2>1. z = Cat(y, z2) /\ Cuts(z, k, m, q, c[u])
      BY <1>3, <1>4
    <2> QED
      BY <2>1, CutsRead, LenProperties
  <1>6. /\ Cuts(x2[u][e], b[u][e], t2[u][e], q, c[u])
        /\ t2[u][e] <= q /\ y = Bytes(t[u][e], t2[u][e]) /\ t[u][e] <= t2[u][e]
    BY <1>4, <1>5
  <1>7. ASSUME NEW l \in 0..n, NEW d \in Direction PROVE Offered(n, t2, s, l, d) = Offered(n, t, s, l, d)
    <2>1. CASE l = FirstOf(n, d)
      BY <2>1 DEF Offered
    <2>2. CASE l # FirstOf(n, d)
      <3>1. Previous(l, d) \in 0..n /\ (Previous(l, d) # u \/ d # e)
        BY <1>1, <2>2, OfferedType
      <3>2. t2[Previous(l, d)][d] = t[Previous(l, d)][d]
        BY <3>1 DEF Except
      <3> QED
        BY <2>2, <3>2 DEF Offered
    <2> QED
      BY <2>1, <2>2
  <1>8. ASSUME NEW l \in 0..n, NEW d \in Direction
        PROVE  Cuts(x2[l][d], b[l][d], t2[l][d], Offered(n, t2, s, l, d), c[l])
    <2>1. CASE l = u /\ d = e
      BY <1>1, <1>2, <1>6, <1>7, <2>1
    <2>2. CASE l # u \/ d # e
      <3>1. x2[l][d] = x[l][d] /\ t2[l][d] = t[l][d]
        BY <2>2 DEF Except
      <3> QED
        BY <1>7, <3>1 DEF Relaying, Cutting
    <2> QED
      BY <2>1, <2>2
  <1>9. ASSUME NEW i \in 0..n, NEW l \in 0..n, NEW d \in Direction, Before(i, l, d)
        PROVE  t2[l][d] <= t2[i][d]
    <2>1. t[l][d] <= t[i][d]
      BY <1>9 DEF Relaying, Falling
    <2>2. i # u \/ d # e
      BY <1>9 DEF Before, FinalOf, Sizes, Direction
    <2>3. t2[i][d] = t[i][d]
      BY <2>2 DEF Except
    <2>4. CASE l = u /\ d = e
      <3>1. i = Previous(u, e) \/ Before(i, Previous(u, e), e)
        BY <1>1, <1>9, <2>4, OfferedType
      <3>2. q = t[Previous(u, e)][e] /\ t[Previous(u, e)][e] <= t[i][e]
        BY <1>1, <1>2, <2>4, <3>1 DEF Offered, Relaying, Falling, Sizes
      <3>3. t2[u][e] \in Nat /\ t[i][e] \in Nat
        BY <1>1, <2>4 DEF Sizes
      <3> QED
        BY <1>6, <2>3, <2>4, <3>2, <3>3
    <2>5. CASE l # u \/ d # e
      BY <2>1, <2>3, <2>5 DEF Except
    <2> QED
      BY <2>4, <2>5
  <1>10. ASSUME NEW l \in 0..n, NEW d \in Direction PROVE t2[l][d] <= s[d]
    <2>1. CASE l = u /\ d = e
      <3>1. q <= s[e]
        BY <1>1, <1>2, OfferedSent DEF Relaying
      <3>2. t2[u][e] \in Nat /\ s[e] \in Nat
        BY <1>1 DEF Sizes
      <3> QED
        BY <1>6, <2>1, <3>1, <3>2
    <2>2. CASE l # u \/ d # e
      BY <2>2 DEF Except, Relaying, Falling
    <2> QED
      BY <2>1, <2>2
  <1>11. ASSUME NEW d \in Direction PROVE g2[d] = Bytes(0, t2[FinalOf(n, d)][d])
    <2>1. g[d] = Bytes(0, t[FinalOf(n, d)][d])
      BY DEF Relaying, Getting
    <2>2. CASE d = e
      <3>1. PICK v \in Seq(Int), k2 \in Nat : v = g[e] /\ k2 = t2[u][e] /\ m <= k2
        <4>1. t[u][e] \in Nat /\ t2[u][e] \in Nat
          BY <1>1 DEF Sizes
        <4>2. Bytes(0, t[u][e]) \in Seq(Int)
          BY <4>1, BytesType
        <4> QED
          BY <1>4, <1>6, <2>1, <2>2, <4>1, <4>2
      <3>2. v = Bytes(0, m) /\ y = Bytes(m, k2)
        BY <1>4, <1>6, <2>1, <2>2, <3>1
      <3>3. Cat(v, y) = Bytes(0, k2)
        BY <3>1, <3>2, BytesJoin
      <3> QED
        BY <2>2, <3>1, <3>3
    <2>3. CASE d # e
      <3>1. t2[FinalOf(n, d)][d] = t[FinalOf(n, d)][d]
        BY <2>3 DEF Except, FinalOf, Sizes
      <3> QED
        BY <2>1, <2>3, <3>1
    <2> QED
      BY <2>2, <2>3
  <1> QED
    BY <1>8, <1>9, <1>10, <1>11 DEF Relaying, Cutting, Falling, Getting

\* Bytes are lost, of links that closed.
LEMMA RelayingLess ==
    ASSUME NEW n, NEW x, NEW b, NEW t, NEW s, Sizes(n, x, b, t, s), NEW g, NEW c, Relaying(n, x, b, t, s, g, c),
           NEW x2, NEW b2, NEW c2, Sizes(n, x2, b2, t, s),
           \A l \in 0..n, d \in Direction :
               \/ x2[l][d] = x[l][d] /\ b2[l][d] = b[l][d] /\ c2[l] = c[l]
               \/ c2[l] # {} /\ Len(b2[l][d]) <= Len(b[l][d]) /\ \E y \in Seq(Int) : x[l][d] = Cat(x2[l][d], y)
    PROVE  Relaying(n, x2, b2, t, s, g, c2)
  <1>1. ASSUME NEW l \in 0..n, NEW d \in Direction
        PROVE  Cuts(x2[l][d], b2[l][d], t[l][d], Offered(n, t, s, l, d), c2[l])
    <2>1. Cuts(x[l][d], b[l][d], t[l][d], Offered(n, t, s, l, d), c[l])
      BY DEF Relaying, Cutting
    <2>2. CASE x2[l][d] = x[l][d] /\ b2[l][d] = b[l][d] /\ c2[l] = c[l]
      BY <2>1, <2>2
    <2>3. CASE c2[l] # {} /\ Len(b2[l][d]) <= Len(b[l][d]) /\ \E y \in Seq(Int) : x[l][d] = Cat(x2[l][d], y)
      <3>1. PICK y \in Seq(Int) : x[l][d] = Cat(x2[l][d], y)
        BY <2>3
      <3>2. PICK q \in Nat : q = Offered(n, t, s, l, d)
        BY OfferedType
      <3>3. PICK z \in Seq(Int), z2 \in Seq(Int), k \in Seq(Int), k2 \in Seq(Int), m \in Nat :
                z = x[l][d] /\ z2 = x2[l][d] /\ k = b[l][d] /\ k2 = b2[l][d] /\ m = t[l][d]
        BY DEF Sizes
      <3>4. c2[l] # {} /\ z = Cat(z2, y) /\ Len(k2) <= Len(k) /\ Cuts(z, k, m, q, c[l])
        BY <2>1, <2>3, <3>1, <3>2, <3>3
      <3>5. Cuts(z2, k2, m, q, c2[l])
        BY <3>4, CutsLess
      <3> QED
        BY <3>2, <3>3, <3>5
    <2> QED
      BY <2>2, <2>3
  <1> QED
    BY <1>1 DEF Relaying, Cutting

-----------------------------------------------------------------------------
(* The last words, of the same and of where the hops are, p *)

Sticks(n, t, s, c, d) == \E l \in 0..n : Reader(d) \in c[l] /\ t[l][d] < Offered(n, t, s, l, d)
Keeps(n, x, b, t, s, p, d) ==
    \A l \in 0..n : /\ t[l][d] + Len(x[l][d]) + Len(b[l][d]) = Offered(n, t, s, l, d)
                    /\ l # FirstOf(n, d) /\ p[WriterHop(l, d)] = "closed" => t[l][d] + Len(x[l][d]) = s[d]
Waves(n, c, p, d) ==
    \A h \in 1..n : p[h] = "closed" => /\ Writer(d) \in c[FirstOf(n, d)]
                                       /\ \A k \in 1..n : Before(k, h, d) => p[k] = "closed"
\* d is the direction towards an end that stays.
Assured(n, x, b, t, s, c, p, d) == Waves(n, c, p, d) /\ (Sticks(n, t, s, c, Opposite(d)) \/ Keeps(n, x, b, t, s, p, d))

SameClosed(n, p, p2) == \A h \in 1..n : p2[h] = "closed" <=> p[h] = "closed"

LEMMA WriterHopIs ==
    ASSUME NEW n \in Nat \ {0}, NEW l \in 0..n, NEW d \in Direction, l # FirstOf(n, d)
    PROVE  WriterHop(l, d) \in 1..n
  BY DEF WriterHop, FirstOf, Direction

LEMMA WavesStay ==
    ASSUME NEW n, NEW c, NEW c2, NEW p, NEW p2, NEW d \in Direction, SameClosed(n, p, p2), c[FirstOf(n, d)] \subseteq c2[FirstOf(n, d)],
           Waves(n, c, p, d)
    PROVE  Waves(n, c2, p2, d)
  BY DEF Waves, SameClosed

LEMMA SticksStay ==
    ASSUME NEW n, NEW x, NEW b, NEW t, NEW s, Sizes(n, x, b, t, s),
           NEW x2, NEW b2, NEW t2, NEW s2, Sizes(n, x2, b2, t2, s2), NEW c, NEW c2, NEW d \in Direction,
           \A l \in 0..n : t[l][d] <= t2[l][d], s[d] <= s2[d],
           \A l \in 0..n : Reader(d) \in c[l] => Reader(d) \in c2[l] /\ t2[l][d] = t[l][d],
           Sticks(n, t, s, c, d)
    PROVE  Sticks(n, t2, s2, c2, d)
  <1>1. PICK l \in 0..n : Reader(d) \in c[l] /\ t[l][d] < Offered(n, t, s, l, d)
    BY DEF Sticks
  <1>2. PICK q \in Nat, q2 \in Nat : q = Offered(n, t, s, l, d) /\ q2 = Offered(n, t2, s2, l, d)
    BY OfferedType
  <1>3. q <= q2
    <2>1. CASE l = FirstOf(n, d)
      BY <1>2, <2>1 DEF Offered
    <2>2. CASE l # FirstOf(n, d)
      <3>1. Previous(l, d) \in 0..n
        BY <2>2, OfferedType
      <3> QED
        BY <1>2, <2>2, <3>1 DEF Offered
    <2> QED
      BY <2>1, <2>2
  <1>4. t[l][d] \in Nat /\ t2[l][d] = t[l][d] /\ Reader(d) \in c2[l]
    BY <1>1 DEF Sizes
  <1>5. t2[l][d] < q2
    BY <1>1, <1>2, <1>3, <1>4
  <1> QED
    BY <1>2, <1>4, <1>5 DEF Sticks

\* Keeps, link by link: how much more or less is on it than was offered stays, and what a closed hop sent.
LEMMA KeepsStay ==
    ASSUME NEW n, NEW x, NEW b, NEW t, NEW s, NEW p, NEW d \in Direction, Keeps(n, x, b, t, s, p, d),
           NEW x2, NEW b2, NEW t2, NEW s2, NEW p2,
           \A l \in 0..n :
               /\ t[l][d] + Len(x[l][d]) + Len(b[l][d]) = Offered(n, t, s, l, d)
                    => t2[l][d] + Len(x2[l][d]) + Len(b2[l][d]) = Offered(n, t2, s2, l, d)
               /\ l # FirstOf(n, d) /\ p2[WriterHop(l, d)] = "closed" =>
                    /\ p[WriterHop(l, d)] = "closed"
                    /\ t[l][d] + Len(x[l][d]) = s[d] => t2[l][d] + Len(x2[l][d]) = s2[d]
    PROVE  Keeps(n, x2, b2, t2, s2, p2, d)
  BY DEF Keeps

LEMMA KeepsRead ==
    ASSUME NEW n, NEW x, NEW b, NEW t, NEW s, Sizes(n, x, b, t, s),
           NEW x2, NEW b2, NEW t2, Sizes(n, x2, b2, t2, s),
           NEW u \in 0..n, NEW w \in 0..n, NEW e \in Direction, w # FirstOf(n, e), u = Previous(w, e),
           NEW y \in Seq(Int), x[u][e] = Cat(y, x2[u][e]), Except(n, x, x2, u, e),
           b[w][e] = <<>>, b2[w][e] = y, Except(n, b, b2, w, e),
           t2[u][e] = t[u][e] + Len(y), Except(n, t, t2, u, e),
           NEW p, NEW p2, SameClosed(n, p, p2), NEW d \in Direction, Keeps(n, x, b, t, s, p, d)
    PROVE  Keeps(n, x2, b2, t2, s, p2, d)
  <1>1. /\ u # w /\ n \in Nat \ {0}
        /\ \A l \in 0..n : l # w /\ l # FirstOf(n, e) => Previous(l, e) # u
    BY DEF Sizes, Previous, FirstOf, Direction
  <1>2. Len(y) \in Nat /\ Len(x[u][e]) = Len(y) + Len(x2[u][e]) /\ Len(x2[u][e]) \in Nat /\ Len(x[u][e]) \in Nat
    <2>1. x[u][e] \in Seq(Int) /\ x2[u][e] \in Seq(Int)
      BY DEF Sizes
    <2>2. PICK z \in Seq(Int), z2 \in Seq(Int) : z = x[u][e] /\ z2 = x2[u][e]
      BY <2>1
    <2>3. z = Cat(y, z2)
      BY <2>2
    <2>4. Len(y) \in Nat /\ Len(z2) \in Nat /\ Len(z) = Len(y) + Len(z2)
      BY <2>3, CatSlots
    <2> QED
      BY <2>2, <2>4
  <1>3. t2[u][e] + Len(x2[u][e]) = t[u][e] + Len(x[u][e])
    BY <1>2 DEF Sizes
  <1>4. \A l \in 0..n : t2[l][d] + Len(x2[l][d]) = t[l][d] + Len(x[l][d])
    BY <1>3 DEF Except
  <1>5. ASSUME NEW l \in 0..n, l # w \/ d # e
        PROVE  Offered(n, t2, s, l, d) = Offered(n, t, s, l, d) /\ b2[l][d] = b[l][d]
    <2>1. CASE l = FirstOf(n, d)
      BY <1>5, <2>1 DEF Offered, Except
    <2>2. CASE l # FirstOf(n, d)
      <3>1. Previous(l, d) \in 0..n /\ (Previous(l, d) # u \/ d # e)
        BY <1>1, <1>5, <2>2, OfferedType
      <3>2. t2[Previous(l, d)][d] = t[Previous(l, d)][d]
        BY <3>1 DEF Except
      <3> QED
        BY <1>5, <2>2, <3>2 DEF Offered, Except
    <2> QED
      BY <2>1, <2>2
  <1>6. Offered(n, t2, s, w, e) = Offered(n, t, s, w, e) + Len(y) /\ Len(b[w][e]) = 0 /\ Len(b2[w][e]) = Len(y)
    <2>1. Offered(n, t2, s, w, e) = t2[u][e] /\ Offered(n, t, s, w, e) = t[u][e]
      BY DEF Offered
    <2> QED
      BY <2>1, EmptySeq
  <1>7. ASSUME NEW l \in 0..n, t[l][d] + Len(x[l][d]) + Len(b[l][d]) = Offered(n, t, s, l, d)
        PROVE  t2[l][d] + Len(x2[l][d]) + Len(b2[l][d]) = Offered(n, t2, s, l, d)
    <2>1. CASE l # w \/ d # e
      BY <1>4, <1>5, <1>7, <2>1
    <2>2. CASE l = w /\ d = e
      <3>1. PICK m \in Nat, k \in Nat : m = t[l][d] + Len(x[l][d]) /\ k = Len(y)
        <4>1. t[l][d] \in Nat /\ Len(x[l][d]) \in Nat
          BY LenProperties DEF Sizes
        <4> QED
          BY <1>2, <4>1
      <3>2. m + 0 = Offered(n, t, s, w, e)
        BY <1>6, <1>7, <2>2, <3>1
      <3>3. m + k = Offered(n, t2, s, w, e)
        BY <1>6, <3>1, <3>2
      <3> QED
        BY <1>4, <1>6, <2>2, <3>1, <3>3
    <2> QED
      BY <2>1, <2>2
  <1>8. ASSUME NEW l \in 0..n, l # FirstOf(n, d), p2[WriterHop(l, d)] = "closed"
        PROVE  p[WriterHop(l, d)] = "closed"
    BY <1>1, <1>8, WriterHopIs DEF SameClosed
  <1> QED
    BY <1>4, <1>7, <1>8, KeepsStay

LEMMA KeepsWrite ==
    ASSUME NEW n, NEW x, NEW b, NEW t, NEW s, Sizes(n, x, b, t, s),
           NEW x2, NEW b2, Sizes(n, x2, b2, t, s), NEW w \in 0..n, NEW e \in Direction,
           NEW y \in Seq(Int), b[w][e] = Cat(y, b2[w][e]), x2[w][e] = Cat(x[w][e], y),
           Except(n, x, x2, w, e), Except(n, b, b2, w, e),
           NEW p, NEW p2, SameClosed(n, p, p2), w # FirstOf(n, e), p[WriterHop(w, e)] # "closed",
           NEW d \in Direction, Keeps(n, x, b, t, s, p, d)
    PROVE  Keeps(n, x2, b2, t, s, p2, d)
  <1>1. /\ Len(y) \in Nat /\ Len(x[w][e]) \in Nat /\ Len(b2[w][e]) \in Nat
        /\ Len(x2[w][e]) = Len(x[w][e]) + Len(y) /\ Len(b[w][e]) = Len(y) + Len(b2[w][e])
    <2>1. PICK z \in Seq(Int), z2 \in Seq(Int), k \in Seq(Int), k2 \in Seq(Int) :
              z = x[w][e] /\ z2 = x2[w][e] /\ k = b[w][e] /\ k2 = b2[w][e]
      BY DEF Sizes
    <2>2. z2 = Cat(z, y) /\ k = Cat(y, k2)
      BY <2>1
    <2>3. Len(y) \in Nat /\ Len(z) \in Nat /\ Len(k2) \in Nat /\ Len(z2) = Len(z) + Len(y) /\ Len(k) = Len(y) + Len(k2)
      BY <2>2, CatSlots
    <2> QED
      BY <2>1, <2>3
  <1>2. ASSUME NEW l \in 0..n, t[l][d] + Len(x[l][d]) + Len(b[l][d]) = Offered(n, t, s, l, d)
        PROVE  t[l][d] + Len(x2[l][d]) + Len(b2[l][d]) = Offered(n, t, s, l, d)
    <2>1. CASE l = w /\ d = e
      <3>1. PICK m \in Nat, i \in Nat, j \in Nat, k \in Nat :
                m = t[w][e] /\ i = Len(x[w][e]) /\ j = Len(y) /\ k = Len(b2[w][e])
        BY <1>1 DEF Sizes
      <3>2. m + i + (j + k) = Offered(n, t, s, w, e)
        BY <1>1, <1>2, <2>1, <3>1
      <3>3. m + (i + j) + k = Offered(n, t, s, w, e)
        BY <3>2
      <3> QED
        BY <1>1, <2>1, <3>1, <3>3
    <2>2. CASE l # w \/ d # e
      BY <1>2, <2>2 DEF Except
    <2> QED
      BY <2>1, <2>2
  <1>3. ASSUME NEW l \in 0..n, l # FirstOf(n, d), p2[WriterHop(l, d)] = "closed"
        PROVE  p[WriterHop(l, d)] = "closed" /\ (t[l][d] + Len(x[l][d]) = s[d] => t[l][d] + Len(x2[l][d]) = s[d])
    <2>1. p[WriterHop(l, d)] = "closed"
      BY <1>3, WriterHopIs DEF SameClosed, Sizes
    <2>2. l # w \/ d # e
      BY <2>1
    <2> QED
      BY <2>1, <2>2 DEF Except
  <1> QED
    BY <1>2, <1>3, KeepsStay

LEMMA KeepsGrow ==
    ASSUME NEW n, NEW x, NEW b, NEW t, NEW s, Sizes(n, x, b, t, s),
           NEW x2, NEW s2, Sizes(n, x2, b, t, s2), NEW e \in Direction, NEW w, w = FirstOf(n, e),
           NEW y \in Seq(Int), s2[e] = s[e] + Len(y), \A i \in Direction : i # e => s2[i] = s[i],
           x2[w][e] = Cat(x[w][e], y), Except(n, x, x2, w, e),
           NEW p, NEW d \in Direction, d = e => \A h \in 1..n : p[h] # "closed", Keeps(n, x, b, t, s, p, d)
    PROVE  Keeps(n, x2, b, t, s2, p, d)
  <1>1. w \in 0..n /\ n \in Nat \ {0}
    BY DEF Sizes, FirstOf
  <1>2. Len(y) \in Nat /\ Len(x[w][e]) \in Nat /\ Len(x2[w][e]) = Len(x[w][e]) + Len(y)
    <2>1. PICK z \in Seq(Int), z2 \in Seq(Int) : z = x[w][e] /\ z2 = x2[w][e]
      BY <1>1 DEF Sizes
    <2>2. z2 = Cat(z, y)
      BY <2>1
    <2>3. Len(y) \in Nat /\ Len(z) \in Nat /\ Len(z2) = Len(z) + Len(y)
      BY <2>2, CatSlots
    <2> QED
      BY <2>1, <2>3
  <1>3. ASSUME NEW l \in 0..n, t[l][d] + Len(x[l][d]) + Len(b[l][d]) = Offered(n, t, s, l, d)
        PROVE  t[l][d] + Len(x2[l][d]) + Len(b[l][d]) = Offered(n, t, s2, l, d)
    <2>1. CASE l = w /\ d = e
      <3>1. t[w][e] \in Nat /\ Len(b[w][e]) \in Nat /\ Offered(n, t, s, w, e) = s[e] /\ Offered(n, t, s2, w, e) = s2[e] /\ s[e] \in Nat
        BY <1>1, LenProperties DEF Sizes, Offered
      <3>2. t[w][e] + Len(x[w][e]) + Len(b[w][e]) = s[e]
        BY <1>3, <2>1, <3>1
      <3>3. t[w][e] + Len(x2[w][e]) + Len(b[w][e]) = s2[e]
        <4>1. PICK m \in Nat, i \in Nat, j \in Nat, k \in Nat :
                  m = t[w][e] /\ i = Len(x[w][e]) /\ j = Len(y) /\ k = Len(b[w][e])
          BY <1>2, <3>1
        <4>2. m + i + k = s[e]
          BY <3>2, <4>1
        <4>3. m + (i + j) + k = s[e] + j
          BY <4>2
        <4> QED
          BY <1>2, <4>1, <4>3
      <3> QED
        BY <2>1, <3>1, <3>3
    <2>2. CASE l # w \/ d # e
      BY <1>3, <2>2 DEF Except, Offered
    <2> QED
      BY <2>1, <2>2
  <1>4. ASSUME NEW l \in 0..n, l # FirstOf(n, d), p[WriterHop(l, d)] = "closed"
        PROVE  t[l][d] + Len(x[l][d]) = s[d] => t[l][d] + Len(x2[l][d]) = s2[d]
    <2>1. d # e
      BY <1>1, <1>4, WriterHopIs
    <2> QED
      BY <2>1 DEF Except
  <1> QED
    BY <1>3, <1>4, KeepsStay

LEMMA KeepsReceive ==
    ASSUME NEW n, NEW x, NEW b, NEW t, NEW s, Sizes(n, x, b, t, s),
           NEW x2, NEW t2, Sizes(n, x2, b, t2, s), NEW e \in Direction, NEW u, u = FinalOf(n, e),
           NEW y \in Seq(Int), x[u][e] = Cat(y, x2[u][e]), Except(n, x, x2, u, e),
           t2[u][e] = t[u][e] + Len(y), Except(n, t, t2, u, e),
           NEW p, NEW d \in Direction, Keeps(n, x, b, t, s, p, d)
    PROVE  Keeps(n, x2, b, t2, s, p, d)
  <1>1. /\ u \in 0..n /\ n \in Nat \ {0}
        /\ \A l \in 0..n : l # FirstOf(n, e) => Previous(l, e) # u
    BY DEF Sizes, Previous, FirstOf, FinalOf, Direction
  <1>2. t2[u][e] + Len(x2[u][e]) = t[u][e] + Len(x[u][e])
    <2>1. PICK z \in Seq(Int), z2 \in Seq(Int) : z = x[u][e] /\ z2 = x2[u][e]
      BY <1>1 DEF Sizes
    <2>2. z = Cat(y, z2)
      BY <2>1
    <2>3. Len(y) \in Nat /\ Len(z2) \in Nat /\ Len(z) = Len(y) + Len(z2)
      BY <2>2, CatSlots
    <2>4. PICK m \in Nat, i \in Nat, j \in Nat : m = t[u][e] /\ i = Len(y) /\ j = Len(z2)
      BY <1>1, <2>3 DEF Sizes
    <2>5. (m + i) + j = m + (i + j)
      OBVIOUS
    <2> QED
      BY <2>1, <2>3, <2>4, <2>5
  <1>3. \A l \in 0..n : t2[l][d] + Len(x2[l][d]) = t[l][d] + Len(x[l][d])
    BY <1>2 DEF Except
  <1>4. ASSUME NEW l \in 0..n PROVE Offered(n, t2, s, l, d) = Offered(n, t, s, l, d)
    <2>1. CASE l = FirstOf(n, d)
      BY <2>1 DEF Offered
    <2>2. CASE l # FirstOf(n, d)
      <3>1. Previous(l, d) \in 0..n /\ (Previous(l, d) # u \/ d # e)
        BY <1>1, <2>2, OfferedType
      <3>2. t2[Previous(l, d)][d] = t[Previous(l, d)][d]
        BY <3>1 DEF Except
      <3> QED
        BY <2>2, <3>2 DEF Offered
    <2> QED
      BY <2>1, <2>2
  <1> QED
    BY <1>3, <1>4, KeepsStay

\* A hop closes: what comes to it was read, and what it read is sent.
LEMMA KeepsClose ==
    ASSUME NEW n, NEW x, NEW b, NEW t, NEW s, Sizes(n, x, b, t, s), NEW p, NEW p2, NEW d \in Direction,
           Keeps(n, x, b, t, s, p, d),
           NEW x2, NEW b2, \A l \in 0..n : x2[l][d] = x[l][d] /\ b2[l][d] = b[l][d],
           NEW h \in 1..n, \A k \in 1..n : p2[k] = "closed" => k = h \/ p[k] = "closed",
           NEW w \in 0..n, w # FirstOf(n, d), WriterHop(w, d) = h, b[w][d] = <<>>,
           NEW u, u = Previous(w, d), x[u][d] = <<>>, b[u][d] = <<>>,
           u # FirstOf(n, d) => p[WriterHop(u, d)] = "closed"
    PROVE  Keeps(n, x2, b2, t, s, p2, d)
  <1>1. u \in 0..n /\ n \in Nat \ {0}
    <2>1. Previous(w, d) \in 0..n
      BY OfferedType
    <2> QED
      BY <2>1 DEF Sizes
  <1>2. t[w][d] + Len(x[w][d]) = t[u][d]
    <2>1. t[w][d] + Len(x[w][d]) + Len(b[w][d]) = t[u][d]
      BY DEF Keeps, Offered
    <2>2. t[w][d] \in Nat /\ Len(x[w][d]) \in Nat /\ Len(b[w][d]) = 0
      BY LenProperties, EmptySeq DEF Sizes
    <2> QED
      BY <2>1, <2>2
  <1>3. t[u][d] = s[d]
    <2>1. t[u][d] \in Nat /\ Len(x[u][d]) = 0 /\ Len(b[u][d]) = 0
      BY <1>1, EmptySeq DEF Sizes
    <2>2. CASE u = FirstOf(n, d)
      <3>1. t[u][d] + Len(x[u][d]) + Len(b[u][d]) = s[d]
        BY <1>1, <2>2 DEF Keeps, Offered
      <3> QED
        BY <2>1, <3>1
    <2>3. CASE u # FirstOf(n, d)
      <3>1. t[u][d] + Len(x[u][d]) = s[d]
        BY <1>1, <2>3 DEF Keeps
      <3> QED
        BY <2>1, <3>1
    <2> QED
      BY <2>2, <2>3
  <1>4. ASSUME NEW l \in 0..n, l # FirstOf(n, d), p2[WriterHop(l, d)] = "closed" PROVE t[l][d] + Len(x[l][d]) = s[d]
    <2>1. WriterHop(l, d) \in 1..n /\ (WriterHop(l, d) = h \/ p[WriterHop(l, d)] = "closed")
      BY <1>1, <1>4, WriterHopIs
    <2>2. CASE WriterHop(l, d) = h
      <3>1. l = w
        BY <2>2 DEF WriterHop
      <3> QED
        BY <1>2, <1>3, <3>1
    <2>3. CASE p[WriterHop(l, d)] = "closed"
      BY <1>4, <2>3 DEF Keeps
    <2> QED
      BY <2>1, <2>2, <2>3
  <1>5. ASSUME NEW l \in 0..n
        PROVE  /\ t[l][d] + Len(x2[l][d]) + Len(b2[l][d]) = Offered(n, t, s, l, d)
               /\ l # FirstOf(n, d) /\ p2[WriterHop(l, d)] = "closed" => t[l][d] + Len(x2[l][d]) = s[d]
    BY <1>4 DEF Keeps
  <1> QED
    BY <1>5 DEF Keeps

-----------------------------------------------------------------------------
(* The same, of a state *)

Views(x, b) == \A l \in Link, d \in Direction : x[l][d] = Stream(l, d) /\ b[l][d] = Behind(l, d)

LEMMA EndsAre ==
    /\ \A d \in Direction : First(d) = FirstOf(shape.hops, d) /\ Final(d) = FinalOf(shape.hops, d)
    /\ \A e \in End : /\ Sends(e) \in Direction /\ Opposite(Sends(e)) \in Direction /\ Opposite(Opposite(Sends(e))) = Sends(e)
                      /\ SideOf(e) = Reader(Opposite(Sends(e))) /\ LinkOf(e) = FinalOf(shape.hops, Opposite(Sends(e)))
                      /\ SideOf(e) = Writer(Sends(e)) /\ LinkOf(e) = FirstOf(shape.hops, Sends(e))
                      /\ OtherEnd(e) \in End /\ Sends(OtherEnd(e)) = Opposite(Sends(e))
  BY DEF First, FirstOf, Final, FinalOf, Direction, End, Sends, Opposite, SideOf, LinkOf, Reader, Writer, Other, OtherEnd

LEMMA CutIs ==
    ASSUME NEW x, NEW b, Views(x, b), NEW t, NEW l \in Link, NEW d \in Direction
    PROVE  Cut(t, l, d) <=> Cuts(x[l][d], b[l][d], t[l][d], Supply(t, l, d), shut[l])
  <1>1. x[l][d] = Stream(l, d) /\ b[l][d] = Behind(l, d)
    BY DEF Views
  <1>2. Cut(t, l, d) <=> /\ Stream(l, d) = Bytes(t[l][d], Put(t, l, d))
                         /\ Put(t, l, d) + Len(Behind(l, d)) <= Supply(t, l, d)
                         /\ shut[l] = {} => Cat(Stream(l, d), Behind(l, d)) = Bytes(t[l][d], Supply(t, l, d))
    BY Zenon DEF Cut, Cat
  <1>3. Put(t, l, d) = t[l][d] + Len(Stream(l, d))
    BY DEF Put
  <1> QED
    BY <1>1, <1>2, <1>3, Zenon DEF Cuts

LEMMA RelaysAre ==
    ASSUME shape \in Shapes, NEW x, NEW b, Views(x, b), NEW t
    PROVE  Relays(t) <=> Relaying(shape.hops, x, b, t, sent, got, shut)
  <1>1. Link = 0..shape.hops
    BY DEF Link
  <1>2. \A l \in Link, d \in Direction : Supply(t, l, d) = Offered(shape.hops, t, sent, l, d)
    BY DEF Supply, Offered, First, FirstOf
  <1>3. (\A l \in Link, d \in Direction : Cut(t, l, d)) <=> Cutting(shape.hops, x, b, t, sent, shut)
    BY <1>1, <1>2, CutIs, Zenon DEF Cutting
  <1>4. (\A d \in Direction : got[d] = Bytes(0, t[Final(d)][d])) <=> Getting(shape.hops, t, got)
    BY DEF Getting, Final, FinalOf
  <1> QED
    BY <1>1, <1>3, <1>4 DEF Relays, Relaying, Falling

LEMMA RelaysNext ==
    ASSUME shape' \in Shapes, NEW x, NEW b, Views(x, b)', NEW t
    PROVE  Relays(t)' <=> Relaying(shape'.hops, x, b, t, sent', got', shut')
  <1>1. Link' = 0..shape'.hops
    BY DEF Link
  <1>2. \A l \in Link', d \in Direction : Supply(t, l, d)' = Offered(shape'.hops, t, sent', l, d)
    BY DEF Supply, Offered, First, FirstOf, Previous
  <1>3. ASSUME NEW l \in Link', NEW d \in Direction
        PROVE  Cut(t, l, d)' <=> Cuts(x[l][d], b[l][d], t[l][d], Offered(shape'.hops, t, sent', l, d), shut'[l])
    <2>1. x[l][d] = Stream(l, d)' /\ b[l][d] = Behind(l, d)'
      BY DEF Views
    <2>2. Cut(t, l, d)' <=> /\ Stream(l, d)' = Bytes(t[l][d], Put(t, l, d)')
                            /\ Put(t, l, d)' + Len(Behind(l, d)') <= Supply(t, l, d)'
                            /\ shut'[l] = {} => Cat(Stream(l, d)', Behind(l, d)') = Bytes(t[l][d], Supply(t, l, d)')
      BY Zenon DEF Cut, Cat, Bytes
    <2>3. Put(t, l, d)' = t[l][d] + Len(Stream(l, d)')
      BY DEF Put
    <2> QED
      BY <1>2, <2>1, <2>2, <2>3, Zenon DEF Cuts
  <1>4. (\A l \in Link', d \in Direction : Cut(t, l, d)') <=> Cutting(shape'.hops, x, b, t, sent', shut')
    BY <1>1, <1>3, Zenon DEF Cutting
  <1>5. (\A d \in Direction : got'[d] = Bytes(0, t[Final(d)'][d])) <=> Getting(shape'.hops, t, got')
    BY DEF Getting, Final, FinalOf
  <1>6. Relays(t)' <=> /\ \A l \in Link', d \in Direction : Cut(t, l, d)'
                       /\ \A k, l \in Link', d \in Direction : Before(k, l, d) => t[l][d] <= t[k][d]
                       /\ \A l \in Link', d \in Direction : t[l][d] <= sent'[d]
                       /\ \A d \in Direction : got'[d] = Bytes(0, t[Final(d)'][d])
    BY Zenon DEF Relays, Before, Bytes
  <1> QED
    BY <1>1, <1>4, <1>5, <1>6 DEF Relaying, Falling

\* An end that stays is where a direction ends.
LEMMA LastWordsAre ==
    ASSUME shape \in Shapes, NEW x, NEW b, Views(x, b), NEW t, ~Failed
    PROVE  LastWords(t) <=> \A d \in Direction : Reader(d) \notin shut[FinalOf(shape.hops, d)]
                                                   => Assured(shape.hops, x, b, t, sent, shut, pc, d)
  <1>1. Link = 0..shape.hops /\ Hop = 1..shape.hops
    BY DEF Link, Hop
  <1>2. \A l \in Link, d \in Direction : Supply(t, l, d) = Offered(shape.hops, t, sent, l, d)
    BY DEF Supply, Offered, First, FirstOf
  <1>3. \A d \in Direction : Stuck(t, d) <=> Sticks(shape.hops, t, sent, shut, d)
    BY <1>1, <1>2 DEF Stuck, Sticks
  <1>4. ASSUME NEW d \in Direction PROVE NothingLost(t, d) <=> Keeps(shape.hops, x, b, t, sent, pc, d)
    <2>1. \A l \in Link : Put(t, l, d) = t[l][d] + Len(x[l][d]) /\ Behind(l, d) = b[l][d]
      BY DEF Put, Views
    <2>2. \A l \in Link : l # First(d) <=> l # FirstOf(shape.hops, d)
      BY EndsAre
    <2> QED
      BY <1>1, <1>2, <2>1, <2>2, Zenon DEF NothingLost, Keeps
  <1>5. /\ Wave("client") <=> Waves(shape.hops, shut, pc, "up")
        /\ Wave("target") <=> Waves(shape.hops, shut, pc, "down")
    BY <1>1 DEF Wave, Waves, SideOf, LinkOf, OtherEnd, Writer, Reader, Other, FirstOf, Before
  <1>6. /\ "up" \in Direction /\ "down" \in Direction /\ Opposite("up") = "down" /\ Opposite("down") = "up"
        /\ \A d \in Direction : d = "up" \/ d = "down"
        /\ Reader("up") = "near" /\ Reader("down") = "far"
        /\ FinalOf(shape.hops, "up") = 0 /\ FinalOf(shape.hops, "down") = shape.hops
    BY DEF Direction, Opposite, Reader, FinalOf
  <1>7. LastWords(t) <=>
            /\ "near" \notin shut[0] => Wave("client") /\ (Stuck(t, "down") \/ NothingLost(t, "up"))
            /\ "far" \notin shut[shape.hops] => Wave("target") /\ (Stuck(t, "up") \/ NothingLost(t, "down"))
    BY DEF LastWords, End, SideOf, LinkOf, Sends, Opposite
  <1>8. (Wave("client") /\ (Stuck(t, "down") \/ NothingLost(t, "up")))
            <=> Assured(shape.hops, x, b, t, sent, shut, pc, "up")
    BY <1>3, <1>4, <1>5, <1>6, Zenon DEF Assured
  <1>9. (Wave("target") /\ (Stuck(t, "up") \/ NothingLost(t, "down")))
            <=> Assured(shape.hops, x, b, t, sent, shut, pc, "down")
    BY <1>3, <1>4, <1>5, <1>6, Zenon DEF Assured
  <1>10. (\A d \in Direction : Reader(d) \notin shut[FinalOf(shape.hops, d)] => Assured(shape.hops, x, b, t, sent, shut, pc, d)) <=>
            /\ "near" \notin shut[0] => Assured(shape.hops, x, b, t, sent, shut, pc, "up")
            /\ "far" \notin shut[shape.hops] => Assured(shape.hops, x, b, t, sent, shut, pc, "down")
    BY <1>6, Zenon
  <1> QED
    BY <1>7, <1>8, <1>9, <1>10, Zenon

LEMMA LastWordsNext ==
    ASSUME shape' \in Shapes, NEW x, NEW b, Views(x, b)', NEW t, ~Failed'
    PROVE  LastWords(t)' <=> \A d \in Direction : Reader(d) \notin shut'[FinalOf(shape'.hops, d)]
                                                   => Assured(shape'.hops, x, b, t, sent', shut', pc', d)
  <1>1. Link' = 0..shape'.hops /\ Hop' = 1..shape'.hops
    BY DEF Link, Hop
  <1>2. \A l \in Link', d \in Direction : Supply(t, l, d)' = Offered(shape'.hops, t, sent', l, d)
    BY DEF Supply, Offered, First, FirstOf, Previous
  <1>3. \A d \in Direction : Stuck(t, d)' <=> Sticks(shape'.hops, t, sent', shut', d)
    BY <1>1, <1>2 DEF Stuck, Sticks, Reader
  <1>4. ASSUME NEW d \in Direction PROVE NothingLost(t, d)' <=> Keeps(shape'.hops, x, b, t, sent', pc', d)
    <2>1. \A l \in Link' : Put(t, l, d)' = t[l][d] + Len(x[l][d]) /\ Behind(l, d)' = b[l][d]
      BY DEF Put, Views
    <2>2. \A l \in Link' : l # First(d)' <=> l # FirstOf(shape'.hops, d)
      BY DEF First, FirstOf
    <2> QED
      BY <1>1, <1>2, <2>1, <2>2 DEF NothingLost, Keeps, WriterHop
  <1>5. /\ Wave("client")' <=> Waves(shape'.hops, shut', pc', "up")
        /\ Wave("target")' <=> Waves(shape'.hops, shut', pc', "down")
    BY <1>1 DEF Wave, Waves, SideOf, LinkOf, OtherEnd, Writer, Reader, Other, FirstOf, Before
  <1>6. /\ "up" \in Direction /\ "down" \in Direction /\ Opposite("up") = "down" /\ Opposite("down") = "up"
        /\ \A d \in Direction : d = "up" \/ d = "down"
        /\ Reader("up") = "near" /\ Reader("down") = "far"
        /\ FinalOf(shape'.hops, "up") = 0 /\ FinalOf(shape'.hops, "down") = shape'.hops
    BY DEF Direction, Opposite, Reader, FinalOf
  <1>7. LastWords(t)' <=>
            /\ "near" \notin shut'[0] => Wave("client")' /\ (Stuck(t, "down")' \/ NothingLost(t, "up")')
            /\ "far" \notin shut'[shape'.hops] => Wave("target")' /\ (Stuck(t, "up")' \/ NothingLost(t, "down")')
    BY DEF LastWords, End, SideOf, LinkOf, Sends, Opposite
  <1>8. (Wave("client")' /\ (Stuck(t, "down")' \/ NothingLost(t, "up")'))
            <=> Assured(shape'.hops, x, b, t, sent', shut', pc', "up")
    BY <1>3, <1>4, <1>5, <1>6, Zenon DEF Assured
  <1>9. (Wave("target")' /\ (Stuck(t, "up")' \/ NothingLost(t, "down")'))
            <=> Assured(shape'.hops, x, b, t, sent', shut', pc', "down")
    BY <1>3, <1>4, <1>5, <1>6, Zenon DEF Assured
  <1>10. (\A d \in Direction : Reader(d) \notin shut'[FinalOf(shape'.hops, d)] => Assured(shape'.hops, x, b, t, sent', shut', pc', d)) <=>
            /\ "near" \notin shut'[0] => Assured(shape'.hops, x, b, t, sent', shut', pc', "up")
            /\ "far" \notin shut'[shape'.hops] => Assured(shape'.hops, x, b, t, sent', shut', pc', "down")
    BY <1>6, Zenon
  <1> QED
    BY <1>7, <1>8, <1>9, <1>10, Zenon

LEMMA ViewsExist == \E x, b : Views(x, b)
  <1>1. PICK x : x = [l \in Link |-> [d \in Direction |-> Stream(l, d)]]
    OBVIOUS
  <1>2. PICK b : b = [l \in Link |-> [d \in Direction |-> Behind(l, d)]]
    OBVIOUS
  <1>3. Views(x, b)
    BY <1>1, <1>2 DEF Views
  <1> QED
    BY <1>3

LEMMA ViewsNext == \E x, b : Views(x, b)'
  <1>1. PICK x : x = [l \in Link' |-> [d \in Direction |-> Stream(l, d)']]
    OBVIOUS
  <1>2. PICK b : b = [l \in Link' |-> [d \in Direction |-> Behind(l, d)']]
    OBVIOUS
  <1>3. Views(x, b)'
    BY <1>1, <1>2 DEF Views
  <1> QED
    BY <1>3

LEMMA StreamHolds ==
    /\ \A l \in Link, d \in Direction : Stream(l, d) = Holds(held[l][d], wire[l][d])
    /\ \A l \in Link', d \in Direction : Stream(l, d)' = Holds(held'[l][d], wire'[l][d])
  BY DEF Stream, Holds, Cat, Payload, Preamble

LEMMA HopOf ==
    ASSUME shape \in Shapes
    PROVE  /\ \A l \in Link, d \in Direction : l # FirstOf(shape.hops, d) =>
                  /\ WriterHop(l, d) \in Hop /\ Previous(l, d) \in Link
                  /\ Downstream(WriterHop(l, d), d) = l /\ Upstream(WriterHop(l, d), d) = Previous(l, d)
           /\ \A h \in Hop, d \in Direction :
                  /\ Downstream(h, d) \in Link /\ Downstream(h, d) # FirstOf(shape.hops, d)
                  /\ WriterHop(Downstream(h, d), d) = h /\ Previous(Downstream(h, d), d) = Upstream(h, d)
  <1>1. shape.hops \in Nat \ {0} /\ Hop = 1..shape.hops /\ Link = 0..shape.hops
    BY HopsAre
  <1> QED
    BY <1>1 DEF WriterHop, Previous, Downstream, Upstream, FirstOf, Direction

LEMMA StreamsTyped ==
    ASSUME Base, NEW l \in Link, NEW d \in Direction
    PROVE  /\ Stream(l, d) \in Seq(Int) /\ Behind(l, d) \in Seq(Int)
           /\ held[l][d] \in Seq(Int) /\ wire[l][d] \in Seq(Seq(Int)) /\ Fitting(wire[l][d])
  <1>1. held[l][d] \in Seq(Int) /\ wire[l][d] \in Seq(Seq(Int)) /\ Fitting(wire[l][d])
    BY DEF Base, HeldFit, WiresFit
  <1>2. Stream(l, d) \in Seq(Int)
    BY <1>1, HoldsType, StreamHolds
  <1>3. Behind(l, d) \in Seq(Int)
    <2>1. l # First(d) => data[WriterHop(l, d)] \in Seq(Int)
      <3>1. l # First(d) => WriterHop(l, d) \in Hop
        BY HopOf, EndsAre DEF Base, Control
      <3> QED
        BY <3>1 DEF Base, HandsFit
    <2> QED
      BY <2>1, EmptySeq DEF Behind, InHand
  <1> QED
    BY <1>1, <1>2, <1>3

LEMMA StreamsTypedNext ==
    ASSUME Base', NEW l \in Link', NEW d \in Direction
    PROVE  Stream(l, d)' \in Seq(Int) /\ Behind(l, d)' \in Seq(Int)
  <1>1. held'[l][d] \in Seq(Int) /\ wire'[l][d] \in Seq(Seq(Int))
    BY DEF Base, HeldFit, WiresFit, Direction
  <1>2. Stream(l, d)' \in Seq(Int)
    BY <1>1, HoldsType, StreamHolds
  <1>3. Behind(l, d)' \in Seq(Int)
    <2>1. l # First(d)' => data'[WriterHop(l, d)] \in Seq(Int)
      <3>1. shape'.hops \in Nat \ {0} /\ Hop' = 1..shape'.hops /\ Link' = 0..shape'.hops
        BY TunnelAssumption DEF Base, Control, Hop, Link
      <3>2. l # First(d)' => WriterHop(l, d) \in Hop'
        BY <3>1 DEF First, WriterHop, Direction
      <3> QED
        BY <3>2 DEF Base, HandsFit
    <2> QED
      BY <2>1, EmptySeq DEF Behind, InHand, WriterHop
  <1> QED
    BY <1>2, <1>3

\* How many bytes were taken from each direction of each link.
Counts == [Link -> [Direction -> Nat]]
Takable == [Link -> [Direction -> 0..shape.bytes]]

LEMMA SizesAre ==
    ASSUME Base, NEW x, NEW b, Views(x, b), NEW t \in Counts
    PROVE  Sizes(shape.hops, x, b, t, sent)
  <1>1. shape.hops \in Nat \ {0} /\ Link = 0..shape.hops /\ shape.bytes \in Nat
    BY HopsAre DEF Base, Control
  <1>2. \A l \in Link, d \in Direction : x[l][d] \in Seq(Int) /\ b[l][d] \in Seq(Int)
    BY StreamsTyped DEF Views
  <1>3. \A l \in Link, d \in Direction : t[l][d] \in Nat
    BY DEF Counts
  <1>4. \A d \in Direction : sent[d] \in Nat
    BY <1>1 DEF Base, EndsFit
  <1> QED
    BY <1>1, <1>2, <1>3, <1>4 DEF Sizes

LEMMA SizesNext ==
    ASSUME Base', shape \in Shapes, shape' = shape, NEW x, NEW b, Views(x, b)', NEW t \in Counts
    PROVE  Sizes(shape.hops, x, b, t, sent')
  <1>1. shape.hops \in Nat \ {0} /\ Link = 0..shape.hops /\ shape.bytes \in Nat /\ Link' = Link
    BY HopsAre DEF Link
  <1>2. \A l \in Link, d \in Direction : x[l][d] \in Seq(Int) /\ b[l][d] \in Seq(Int)
    BY <1>1, StreamsTypedNext DEF Views
  <1>3. \A l \in Link, d \in Direction : t[l][d] \in Nat
    BY DEF Counts
  <1>4. \A d \in Direction : sent'[d] \in Nat
    BY <1>1 DEF Base, EndsFit, Direction
  <1> QED
    BY <1>1, <1>2, <1>3, <1>4 DEF Sizes

LEMMA TakableIs ==
    ASSUME shape \in Shapes
    PROVE  Takable \subseteq Counts
  BY HopsAre DEF Takable, Counts

\* Some more are taken.
LEMMA TakesMore ==
    ASSUME shape \in Shapes, NEW t \in Counts, NEW u \in Link, NEW e \in Direction, NEW y \in Seq(Int)
    PROVE  \E t2 \in Counts : t2[u][e] = t[u][e] + Len(y) /\ Except(shape.hops, t, t2, u, e)
  <1>1. t \in [Link -> [Direction -> Nat]] /\ Link = 0..shape.hops
    BY DEF Counts, Link
  <1>2. PICK m \in Nat : m = t[u][e] + Len(y)
    BY <1>1, LenProperties
  <1>3. PICK t2 : t2 = [t EXCEPT ![u][e] = m]
    OBVIOUS
  <1>4. /\ t2 \in [Link -> [Direction -> Nat]] /\ t2[u][e] = m
        /\ \A l \in Link, d \in Direction : l # u \/ d # e => t2[l][d] = t[l][d]
    BY <1>1, <1>3, SetIn
  <1> QED
    BY <1>1, <1>2, <1>4 DEF Counts, Except

LEMMA TakableNext ==
    ASSUME Base', shape' = shape, NEW t \in Counts, Falling(shape.hops, t, sent')
    PROVE  t \in Takable
  <1>1. \A d \in Direction : sent'[d] \in 0..shape.bytes
    BY DEF Base, EndsFit, Direction
  <1>2. shape.bytes \in Nat /\ Link = 0..shape.hops
    BY HopsAre DEF Base, Control, Link
  <1>3. \A l \in Link, d \in Direction : t[l][d] \in 0..shape.bytes
    <2>1. ASSUME NEW l \in Link, NEW d \in Direction PROVE t[l][d] \in 0..shape.bytes
      <3>1. t[l][d] \in Nat /\ t[l][d] <= sent'[d] /\ sent'[d] \in 0..shape.bytes
        BY <1>1, <1>2 DEF Counts, Falling
      <3> QED
        BY <1>2, <3>1
    <2> QED
      BY <2>1
  <1> QED
    BY <1>3 DEF Counts, Takable

\* Where a hop is, and what it has in hand, matters to what is behind the links it sends on.
LEMMA BehindOf ==
    ASSUME shape \in Shapes, shape' = shape, NEW h \in Hop, \A i \in Hop : i # h => pc'[i] = pc[i] /\ data'[i] = data[i],
           NEW d \in Direction
    PROVE  /\ Behind(Downstream(h, d), d) = InHand(h, d)
           /\ Behind(Downstream(h, d), d)' = (IF pc'[h] = d THEN data'[h] ELSE <<>>)
           /\ \A l \in Link : l # Downstream(h, d) => Behind(l, d)' = Behind(l, d)
  <1>1. shape.hops \in Nat \ {0} /\ Hop = 1..shape.hops /\ Link = 0..shape.hops
    BY HopsAre
  <1>2. /\ \A l \in Link : Behind(l, d) = IF l = FirstOf(shape.hops, d) THEN <<>>
                                          ELSE IF pc[WriterHop(l, d)] = d THEN data[WriterHop(l, d)] ELSE <<>>
        /\ \A l \in Link : Behind(l, d)' = IF l = FirstOf(shape.hops, d) THEN <<>>
                                           ELSE IF pc'[WriterHop(l, d)] = d THEN data'[WriterHop(l, d)] ELSE <<>>
    BY DEF Behind, InHand, First, FirstOf, WriterHop
  <1>3. /\ Downstream(h, d) \in Link /\ Downstream(h, d) # FirstOf(shape.hops, d) /\ WriterHop(Downstream(h, d), d) = h
        /\ \A l \in Link : l # FirstOf(shape.hops, d) =>
               WriterHop(l, d) \in Hop /\ (l # Downstream(h, d) => WriterHop(l, d) # h)
    BY HopOf
  <1>4. ASSUME NEW l \in Link, l # Downstream(h, d) PROVE Behind(l, d)' = Behind(l, d)
    BY <1>2, <1>3, <1>4
  <1>5. Behind(Downstream(h, d), d)' = (IF pc'[h] = d THEN data'[h] ELSE <<>>)
    <2>1. PICK w \in Link : w = Downstream(h, d)
      BY <1>3
    <2>2. Behind(w, d)' = (IF pc'[h] = d THEN data'[h] ELSE <<>>)
      BY <1>2, <1>3, <2>1
    <2>3. Behind(Downstream(h, d), d)' = Behind(w, d)'
      BY <2>1 DEF Behind, Downstream
    <2> QED
      BY <2>2, <2>3
  <1> QED
    BY <1>2, <1>3, <1>4, <1>5 DEF InHand

LEMMA BehindSame ==
    ASSUME shape \in Shapes, shape' = shape, data' = data, \A i \in Hop, d \in Direction : pc'[i] = d <=> pc[i] = d
    PROVE  \A l \in Link, d \in Direction : Behind(l, d)' = Behind(l, d)
  <1>1. \A l \in Link, d \in Direction : l # First(d) => WriterHop(l, d) \in Hop
    BY HopOf, EndsAre
  <1> QED
    BY <1>1 DEF Behind, InHand, First, WriterHop

\* The sides of a hop that goes on are open.
LEMMA AliveSides ==
    ASSUME Control, NEW h \in Hop, pc[h] \notin Dead, NEW d \in Direction
    PROVE  Reader(d) \notin shut[Upstream(h, d)] /\ Writer(d) \notin shut[Downstream(h, d)]
  BY DEF Control, Connections, Direction, Reader, Writer, Other, Upstream, Downstream

-----------------------------------------------------------------------------
(* The kinds of steps, and what they do to the streams *)

\* The second part of the invariant.
Whole == Asked /\ \E t \in Takable : Relays(t) /\ LastWords(t)

LEMMA WholeNext ==
    ASSUME shape' = shape, Asked', NEW t \in Takable, Relays(t)', LastWords(t)'
    PROVE  Whole'
  BY Zenon DEF Whole, Takable, Link, Direction

LEMMA LastWordsFailed ==
    ASSUME NEW t, Failed'
    PROVE  LastWords(t)'
  BY Zenon DEF LastWords

\* Nothing moves.
LEMMA QuietKeeps ==
    ASSUME Base, Base', Whole, Asked', shape' = shape, sent' = sent, got' = got, shut' = shut,
           \A l \in Link, d \in Direction : Stream(l, d)' = Stream(l, d) /\ Behind(l, d)' = Behind(l, d),
           SameClosed(shape.hops, pc, pc'), Failed => Failed'
    PROVE  Whole'
  <1>1. PICK t \in Takable : Relays(t) /\ LastWords(t)
    BY DEF Whole
  <1>2. PICK x, b : Views(x, b)
    BY ViewsExist
  <1>3. shape \in Shapes /\ shape' \in Shapes /\ Link' = Link
    BY DEF Base, Control, Link
  <1>4. Views(x, b)'
    BY <1>2, <1>3 DEF Views, Direction
  <1>5. Relays(t)'
    BY <1>1, <1>2, <1>3, <1>4, RelaysAre, RelaysNext
  <1>6. LastWords(t)'
    <2>1. CASE Failed'
      BY <2>1, LastWordsFailed
    <2>2. CASE ~Failed'
      <3>1. \A d \in Direction : Reader(d) \notin shut[FinalOf(shape.hops, d)]
                                   => Assured(shape.hops, x, b, t, sent, shut, pc, d)
        BY <1>1, <1>2, <1>3, <2>2, LastWordsAre
      <3>2. ASSUME NEW d \in Direction, Assured(shape.hops, x, b, t, sent, shut, pc, d)
            PROVE  Assured(shape.hops, x, b, t, sent, shut, pc', d)
        <4>1. Waves(shape.hops, shut, pc', d)
          BY <3>2, WavesStay DEF Assured
        <4>2. ASSUME Keeps(shape.hops, x, b, t, sent, pc, d) PROVE Keeps(shape.hops, x, b, t, sent, pc', d)
          <5>1. \A l \in 0..shape.hops : l # FirstOf(shape.hops, d) => WriterHop(l, d) \in 1..shape.hops
            BY <1>3, HopsAre, WriterHopIs
          <5> QED
            BY <4>2, <5>1 DEF Keeps, SameClosed
        <4> QED
          BY <3>2, <4>1, <4>2 DEF Assured
      <3> QED
        BY <1>3, <1>4, <2>2, <3>1, <3>2, LastWordsNext
    <2> QED
      BY <2>1, <2>2
  <1> QED
    BY <1>1, <1>5, <1>6, WholeNext

\* A hop reads.
LEMMA ReadKeeps ==
    ASSUME Base, Base', Whole, Asked', shape' = shape, sent' = sent, got' = got, shut' = shut,
           NEW h \in Hop, NEW e \in Direction, NEW y \in Seq(Int), pc[h] = "handle", pc' = [pc EXCEPT ![h] = e],
           data' = [data EXCEPT ![h] = y], Stream(Upstream(h, e), e) = Cat(y, Stream(Upstream(h, e), e)'),
           \A l \in Link, d \in Direction : l # Upstream(h, e) \/ d # e => Stream(l, d)' = Stream(l, d)
    PROVE  Whole'
  <1>1. PICK t \in Takable : Relays(t) /\ LastWords(t)
    BY DEF Whole
  <1>2. PICK x, b : Views(x, b)
    BY ViewsExist
  <1>3. PICK x2, b2 : Views(x2, b2)'
    BY ViewsNext
  <1>4. shape \in Shapes /\ shape' \in Shapes /\ Link' = Link /\ Link = 0..shape.hops /\ pc \in [Hop -> Place] /\ data \in [Hop -> Seq(Int)]
    BY DEF Base, Control, Link, HandsFit
  <1>5. PICK u \in Link, w \in Link : /\ u = Upstream(h, e) /\ w = Downstream(h, e) /\ w # FirstOf(shape.hops, e)
                                      /\ u = Previous(w, e)
    BY <1>4, HopOf, LinksOf
  <1>6. x[u][e] = Cat(y, x2[u][e]) /\ Except(shape.hops, x, x2, u, e)
    <2>1. \A l \in Link, d \in Direction : x[l][d] = Stream(l, d) /\ x2[l][d] = Stream(l, d)'
      BY <1>2, <1>3, <1>4 DEF Views, Direction
    <2>2. Stream(u, e) = Cat(y, Stream(u, e)')
      BY <1>5 DEF Stream, Upstream
    <2> QED
      BY <1>4, <1>5, <2>1, <2>2 DEF Except
  <1>7. b[w][e] = <<>> /\ b2[w][e] = y /\ Except(shape.hops, b, b2, w, e)
    <2>1. /\ \A i \in Hop : i # h => pc'[i] = pc[i] /\ data'[i] = data[i]
          /\ pc'[h] = e /\ data'[h] = y
      BY <1>4
    <2>2. \A l \in Link, d \in Direction : b[l][d] = Behind(l, d) /\ b2[l][d] = Behind(l, d)'
      BY <1>2, <1>3, <1>4 DEF Views, Direction
    <2>3. ASSUME NEW d \in Direction
          PROVE  /\ b[Downstream(h, d)][d] = <<>>
                 /\ b2[Downstream(h, d)][d] = IF d = e THEN y ELSE <<>>
                 /\ \A l \in Link : l # Downstream(h, d) => b2[l][d] = b[l][d]
      <3>1. /\ Behind(Downstream(h, d), d) = InHand(h, d)
            /\ Behind(Downstream(h, d), d)' = (IF pc'[h] = d THEN data'[h] ELSE <<>>)
            /\ \A l \in Link : l # Downstream(h, d) => Behind(l, d)' = Behind(l, d)
        BY <1>4, <2>1, BehindOf
      <3>2. PICK v \in Link : v = Downstream(h, d)
        BY <1>4, HopOf
      <3>3. Behind(v, d)' = (IF pc'[h] = d THEN data'[h] ELSE <<>>)
        BY <3>1, <3>2 DEF Behind, Downstream
      <3>4. InHand(h, d) = <<>>
        BY DEF InHand, Direction
      <3> QED
        BY <2>1, <2>2, <3>1, <3>2, <3>3, <3>4
    <2> QED
      BY <1>4, <1>5, <2>3 DEF Except
  <1>8. PICK t2 \in Counts : t2[u][e] = t[u][e] + Len(y) /\ Except(shape.hops, t, t2, u, e)
    BY <1>4, TakableIs, TakesMore
  <1>9. Sizes(shape.hops, x, b, t, sent) /\ Sizes(shape.hops, x2, b2, t2, sent)
    <2>1. t \in Counts
      BY <1>4, TakableIs
    <2> QED
      BY <1>2, <1>3, <1>4, <2>1, SizesAre, SizesNext
  <1>10. Relaying(shape.hops, x, b, t, sent, got, shut)
    BY <1>1, <1>2, <1>4, RelaysAre
  <1>11. Relaying(shape.hops, x2, b2, t2, sent, got, shut)
    <2>1. PICK n : n = shape.hops
      OBVIOUS
    <2>2. u \in 0..n /\ w \in 0..n /\ w # FirstOf(n, e) /\ u = Previous(w, e)
      BY <1>4, <1>5, <2>1
    <2>3. /\ x[u][e] = Cat(y, x2[u][e]) /\ Except(n, x, x2, u, e)
          /\ b[w][e] = <<>> /\ b2[w][e] = y /\ Except(n, b, b2, w, e)
          /\ t2[u][e] = t[u][e] + Len(y) /\ Except(n, t, t2, u, e)
      BY <1>6, <1>7, <1>8, <2>1
    <2>4. Sizes(n, x, b, t, sent) /\ Sizes(n, x2, b2, t2, sent) /\ Relaying(n, x, b, t, sent, got, shut)
      BY <1>9, <1>10, <2>1
    <2>5. Relaying(n, x2, b2, t2, sent, got, shut)
      BY <2>2, <2>3, <2>4, RelayingRead
    <2> QED
      BY <2>1, <2>5
  <1>12. Relays(t2)' /\ t2 \in Takable
    BY <1>3, <1>4, <1>11, RelaysNext, TakableNext DEF Relaying
  <1>13. LastWords(t2)'
    <2>1. CASE Failed'
      BY <2>1, LastWordsFailed
    <2>2. CASE ~Failed'
      <3>1. ~Failed /\ SameClosed(shape.hops, pc, pc')
        <4>1. /\ \A i \in Hop : i # h => pc'[i] = pc[i]
              /\ pc'[h] = e /\ Hop' = Hop /\ Hop = 1..shape.hops
          BY <1>4 DEF Hop
        <4> QED
          BY <2>2, <4>1 DEF Failed, SameClosed, Direction
      <3>2. \A d \in Direction : Reader(d) \notin shut[FinalOf(shape.hops, d)]
                                   => Assured(shape.hops, x, b, t, sent, shut, pc, d)
        BY <1>1, <1>2, <1>4, <3>1, LastWordsAre
      <3>3. ASSUME NEW d \in Direction, Assured(shape.hops, x, b, t, sent, shut, pc, d)
            PROVE  Assured(shape.hops, x2, b2, t2, sent, shut, pc', d)
        <4>1. Waves(shape.hops, shut, pc', d)
          BY <3>1, <3>3, WavesStay DEF Assured
        <4>2. Keeps(shape.hops, x, b, t, sent, pc, d) => Keeps(shape.hops, x2, b2, t2, sent, pc', d)
          <5>1. PICK n : n = shape.hops
            OBVIOUS
          <5>2. u \in 0..n /\ w \in 0..n /\ w # FirstOf(n, e) /\ u = Previous(w, e)
            BY <1>4, <1>5, <5>1
          <5>3. /\ x[u][e] = Cat(y, x2[u][e]) /\ Except(n, x, x2, u, e)
                /\ b[w][e] = <<>> /\ b2[w][e] = y /\ Except(n, b, b2, w, e)
                /\ t2[u][e] = t[u][e] + Len(y) /\ Except(n, t, t2, u, e)
            BY <1>6, <1>7, <1>8, <5>1
          <5>4. Sizes(n, x, b, t, sent) /\ Sizes(n, x2, b2, t2, sent) /\ SameClosed(n, pc, pc')
            BY <1>9, <3>1, <5>1
          <5>5. HAVE Keeps(shape.hops, x, b, t, sent, pc, d)
          <5>6. Keeps(n, x2, b2, t2, sent, pc', d)
            BY <5>1, <5>2, <5>3, <5>4, <5>5, KeepsRead
          <5> QED
            BY <5>1, <5>6
        <4>3. Sticks(shape.hops, t, sent, shut, Opposite(d)) => Sticks(shape.hops, t2, sent, shut, Opposite(d))
          <5>1. PICK o \in Direction : o = Opposite(d)
            BY DEF Opposite, Direction
          <5>2. Reader(e) \notin shut[u]
            BY <1>5, AliveSides DEF Base, Dead
          <5>3. ASSUME NEW l \in 0..shape.hops PROVE t[l][o] <= t2[l][o] /\ (Reader(o) \in shut[l] => t2[l][o] = t[l][o])
            <6>1. t[l][o] \in Nat /\ Len(y) \in Nat
              BY <1>9, LenProperties DEF Sizes
            <6>2. CASE l = u /\ o = e
              BY <1>8, <5>2, <6>1, <6>2
            <6>3. CASE l # u \/ o # e
              BY <1>8, <6>1, <6>3 DEF Except
            <6> QED
              BY <6>2, <6>3
          <5>4. sent[o] <= sent[o]
            BY <1>9 DEF Sizes
          <5>5. Sticks(shape.hops, t, sent, shut, o) => Sticks(shape.hops, t2, sent, shut, o)
            BY <1>9, <5>3, <5>4, SticksStay
          <5> QED
            BY <5>1, <5>5
        <4> QED
          BY <3>3, <4>1, <4>2, <4>3 DEF Assured
      <3> QED
        BY <1>3, <1>4, <2>2, <3>2, <3>3, LastWordsNext
    <2> QED
      BY <2>1, <2>2
  <1> QED
    BY <1>12, <1>13, WholeNext

\* A hop sends y of what it has in hand, and keeps k.
LEMMA WriteKeeps ==
    ASSUME Base, Base', Whole, Asked', shape' = shape, sent' = sent, got' = got, shut' = shut,
           NEW h \in Hop, NEW e \in Direction, NEW y \in Seq(Int), NEW k \in Seq(Int), pc[h] = e, data[h] = Cat(y, k),
           shut[Downstream(h, e)] = {},
           \A i \in Hop : i # h => pc'[i] = pc[i] /\ data'[i] = data[i],
           (pc'[h] \in {"handle", "poll"} /\ k = <<>>) \/ (pc'[h] = e /\ data'[h] = k),
           Stream(Downstream(h, e), e)' = Cat(Stream(Downstream(h, e), e), y),
           \A l \in Link, d \in Direction : l # Downstream(h, e) \/ d # e => Stream(l, d)' = Stream(l, d)
    PROVE  Whole'
  <1>1. PICK t \in Takable : Relays(t) /\ LastWords(t)
    BY DEF Whole
  <1>2. PICK x, b : Views(x, b)
    BY ViewsExist
  <1>3. PICK x2, b2 : Views(x2, b2)'
    BY ViewsNext
  <1>4. /\ shape \in Shapes /\ shape' \in Shapes /\ Link' = Link /\ Link = 0..shape.hops /\ Hop' = Hop /\ Hop = 1..shape.hops
        /\ shape.hops \in Nat \ {0}
    BY HopsAre DEF Base, Control, Link, Hop
  <1>5. PICK w \in Link : w = Downstream(h, e) /\ w # FirstOf(shape.hops, e) /\ WriterHop(w, e) = h
    BY <1>4, HopOf
  <1>6. x2[w][e] = Cat(x[w][e], y) /\ Except(shape.hops, x, x2, w, e)
    <2>1. \A l \in Link, d \in Direction : x[l][d] = Stream(l, d) /\ x2[l][d] = Stream(l, d)'
      BY <1>2, <1>3, <1>4 DEF Views, Direction
    <2>2. Stream(w, e)' = Cat(Stream(w, e), y)
      BY <1>5 DEF Stream, Downstream
    <2> QED
      BY <1>4, <1>5, <2>1, <2>2 DEF Except
  <1>7. b[w][e] = Cat(y, b2[w][e]) /\ Except(shape.hops, b, b2, w, e)
    <2>2. \A l \in Link, d \in Direction : b[l][d] = Behind(l, d) /\ b2[l][d] = Behind(l, d)'
      BY <1>2, <1>3, <1>4 DEF Views, Direction
    <2>3. ASSUME NEW d \in Direction
          PROVE  /\ b[Downstream(h, d)][d] = (IF d = e THEN data[h] ELSE <<>>)
                 /\ b2[Downstream(h, d)][d] = (IF d = e THEN k ELSE <<>>)
                 /\ \A l \in Link : l # Downstream(h, d) => b2[l][d] = b[l][d]
      <3>1. /\ Behind(Downstream(h, d), d) = InHand(h, d)
            /\ Behind(Downstream(h, d), d)' = (IF pc'[h] = d THEN data'[h] ELSE <<>>)
            /\ \A l \in Link : l # Downstream(h, d) => Behind(l, d)' = Behind(l, d)
        BY <1>4, BehindOf
      <3>2. PICK v \in Link : v = Downstream(h, d)
        BY <1>4, HopOf
      <3>3. Behind(v, d)' = (IF pc'[h] = d THEN data'[h] ELSE <<>>)
        BY <3>1, <3>2 DEF Behind, Downstream
      <3>4. InHand(h, d) = (IF d = e THEN data[h] ELSE <<>>)
        BY DEF InHand
      <3>5. (IF pc'[h] = d THEN data'[h] ELSE <<>>) = (IF d = e THEN k ELSE <<>>)
        BY DEF Direction
      <3> QED
        BY <2>2, <3>1, <3>2, <3>3, <3>4, <3>5
    <2>4. b2[w][e] = k /\ b[w][e] = data[h]
      BY <1>5, <2>3
    <2>5. ASSUME NEW l \in Link, NEW d \in Direction, l # w \/ d # e PROVE b2[l][d] = b[l][d]
      BY <1>5, <2>3, <2>5
    <2> QED
      BY <1>4, <2>4, <2>5 DEF Except
  <1>8. Sizes(shape.hops, x, b, t, sent) /\ Sizes(shape.hops, x2, b2, t, sent)
    <2>1. t \in Counts
      BY <1>4, TakableIs
    <2> QED
      BY <1>2, <1>3, <1>4, <2>1, SizesAre, SizesNext
  <1>9. Relaying(shape.hops, x, b, t, sent, got, shut)
    BY <1>1, <1>2, <1>4, RelaysAre
  <1>10. Relaying(shape.hops, x2, b2, t, sent, got, shut)
    <2>1. shut[w] = {}
      BY <1>5
    <2> QED
      BY <1>4, <1>6, <1>7, <1>8, <1>9, <2>1, RelayingWrite
  <1>11. Relays(t)'
    BY <1>3, <1>4, <1>10, RelaysNext
  <1>12. LastWords(t)'
    <2>1. CASE Failed'
      BY <2>1, LastWordsFailed
    <2>2. CASE ~Failed'
      <3>1. ~Failed /\ SameClosed(shape.hops, pc, pc') /\ pc[h] # "closed"
        BY <1>4, <2>2 DEF Failed, SameClosed, Direction
      <3>2. \A d \in Direction : Reader(d) \notin shut[FinalOf(shape.hops, d)]
                                   => Assured(shape.hops, x, b, t, sent, shut, pc, d)
        BY <1>1, <1>2, <1>4, <3>1, LastWordsAre
      <3>3. ASSUME NEW d \in Direction, Assured(shape.hops, x, b, t, sent, shut, pc, d)
            PROVE  Assured(shape.hops, x2, b2, t, sent, shut, pc', d)
        <4>1. Waves(shape.hops, shut, pc', d)
          BY <3>1, <3>3, WavesStay DEF Assured
        <4>2. ASSUME Keeps(shape.hops, x, b, t, sent, pc, d) PROVE Keeps(shape.hops, x2, b2, t, sent, pc', d)
          <5>1. PICK n, s, p, p2 : n = shape.hops /\ s = sent /\ p = pc /\ p2 = pc'
            OBVIOUS
          <5>2. /\ w \in 0..n /\ w # FirstOf(n, e) /\ p[WriterHop(w, e)] # "closed" /\ SameClosed(n, p, p2)
                /\ Sizes(n, x, b, t, s) /\ Sizes(n, x2, b2, t, s) /\ Except(n, x, x2, w, e) /\ Except(n, b, b2, w, e)
                /\ Keeps(n, x, b, t, s, p, d)
            BY <1>4, <1>5, <1>6, <1>7, <1>8, <3>1, <4>2, <5>1, Zenon
          <5>3. Keeps(n, x2, b2, t, s, p2, d)
            BY <1>6, <1>7, <5>2, KeepsWrite
          <5> QED
            BY <5>1, <5>3
        <4> QED
          BY <3>3, <4>1, <4>2 DEF Assured
      <3> QED
        BY <1>3, <1>4, <2>2, <3>2, <3>3, LastWordsNext
    <2> QED
      BY <2>1, <2>2
  <1> QED
    BY <1>11, <1>12, WholeNext

\* An end sends.
LEMMA GrowKeeps ==
    ASSUME Base, Base', Whole, Asked', shape' = shape, got' = got, shut' = shut, pc' = pc, data' = data,
           NEW end \in End, SideOf(end) \notin shut[LinkOf(end)], shut[LinkOf(end)] = {},
           NEW e \in Direction, Same(e, Sends(end)),
           NEW y \in Seq(Int), Same(y, Bytes(sent[e], sent'[e])), sent'[e] = sent[e] + Len(y),
           \A d \in Direction : d # e => sent'[d] = sent[d],
           Stream(LinkOf(end), e)' = Cat(Stream(LinkOf(end), e), y),
           \A l \in Link, d \in Direction : l # LinkOf(end) \/ d # e => Stream(l, d)' = Stream(l, d)
    PROVE  Whole'
  <1>1. PICK t \in Takable : Relays(t) /\ LastWords(t)
    BY DEF Whole
  <1>2. PICK x, b : Views(x, b)
    BY ViewsExist
  <1>3. PICK x2, b2 : Views(x2, b2)'
    BY ViewsNext
  <1>4. /\ shape \in Shapes /\ shape' \in Shapes /\ Link' = Link /\ Link = 0..shape.hops /\ Hop' = Hop /\ Hop = 1..shape.hops
        /\ shape.hops \in Nat \ {0}
    BY HopsAre DEF Base, Control, Link, Hop
  <1>5. PICK w \in Link : w = LinkOf(end) /\ w = FirstOf(shape.hops, e)
    BY <1>4, EndsAre DEF FirstOf, Same
  <1>6. x2[w][e] = Cat(x[w][e], y) /\ Except(shape.hops, x, x2, w, e)
    <2>1. \A l \in Link, d \in Direction : x[l][d] = Stream(l, d) /\ x2[l][d] = Stream(l, d)'
      BY <1>2, <1>3, <1>4 DEF Views, Direction
    <2>2. Stream(w, e)' = Cat(Stream(w, e), y)
      BY <1>5 DEF Stream, LinkOf
    <2> QED
      BY <1>4, <1>5, <2>1, <2>2 DEF Except
  <1>7. b[w][e] = <<>> /\ \A l \in Link, d \in Direction : b2[l][d] = b[l][d]
    <2>1. \A l \in Link, d \in Direction : Behind(l, d)' = Behind(l, d)
      BY <1>4, BehindSame
    <2>2. \A l \in Link, d \in Direction : b[l][d] = Behind(l, d) /\ b2[l][d] = Behind(l, d)'
      BY <1>2, <1>3, <1>4 DEF Views, Direction
    <2>3. Behind(w, e) = <<>>
      BY <1>5, EndsAre DEF Behind, Same
    <2> QED
      BY <2>1, <2>2, <2>3
  <1>8. Sizes(shape.hops, x, b, t, sent) /\ Sizes(shape.hops, x2, b, t, sent')
    <2>1. t \in Counts
      BY <1>4, TakableIs
    <2>2. Sizes(shape.hops, x, b, t, sent) /\ Sizes(shape.hops, x2, b2, t, sent')
      BY <1>2, <1>3, <1>4, <2>1, SizesAre, SizesNext
    <2> QED
      BY <1>4, <1>7, <2>2 DEF Sizes
  <1>9. Relaying(shape.hops, x, b, t, sent, got, shut)
    BY <1>1, <1>2, <1>4, RelaysAre
  <1>10. Relaying(shape.hops, x2, b, t, sent', got, shut)
    <2>1. shut[w] = {}
      BY <1>5
    <2>2. PICK s, s2 : s = sent /\ s2 = sent'
      OBVIOUS
    <2>3. Same(y, Bytes(s[e], s2[e])) /\ s2[e] = s[e] + Len(y) /\ \A d \in Direction : d # e => s2[d] = s[d]
      BY <2>2
    <2>4. Relaying(shape.hops, x, b, t, s, got, shut) /\ Sizes(shape.hops, x, b, t, s) /\ Sizes(shape.hops, x2, b, t, s2)
      BY <1>8, <1>9, <2>2
    <2>5. Relaying(shape.hops, x2, b, t, s2, got, shut)
      BY <1>5, <1>6, <1>7, <2>1, <2>3, <2>4, RelayingGrow
    <2> QED
      BY <2>2, <2>5
  <1>11. Views(x2, b)'
    <2>1. \A l \in Link', d \in Direction : x2[l][d] = Stream(l, d)' /\ b2[l][d] = Behind(l, d)'
      BY <1>3 DEF Views, Direction
    <2>2. \A l \in Link', d \in Direction : b2[l][d] = b[l][d]
      BY <1>4, <1>7
    <2>3. \A l \in Link', d \in Direction : x2[l][d] = Stream(l, d)' /\ b[l][d] = Behind(l, d)'
      BY <2>1, <2>2
    <2> QED
      BY <2>3 DEF Views, Direction
  <1>12. Relays(t)'
    BY <1>4, <1>10, <1>11, RelaysNext
  <1>13. LastWords(t)'
    <2>1. CASE Failed'
      BY <2>1, LastWordsFailed
    <2>2. CASE ~Failed'
      <3>1. ~Failed
        BY <1>4, <2>2 DEF Failed
      <3>2. \A d \in Direction : Reader(d) \notin shut[FinalOf(shape.hops, d)]
                                   => Assured(shape.hops, x, b, t, sent, shut, pc, d)
        BY <1>1, <1>2, <1>4, <3>1, LastWordsAre
      <3>3. ASSUME NEW d \in Direction, Assured(shape.hops, x, b, t, sent, shut, pc, d)
            PROVE  Assured(shape.hops, x2, b, t, sent', shut, pc, d)
        <4>1. d = e => \A i \in 1..shape.hops : pc[i] # "closed"
          <5>1. d = e => Writer(d) \notin shut[FirstOf(shape.hops, d)]
            BY <1>5, EndsAre DEF Same
          <5> QED
            BY <3>3, <5>1 DEF Assured, Waves
        <4>2. Keeps(shape.hops, x, b, t, sent, pc, d) => Keeps(shape.hops, x2, b, t, sent', pc, d)
          BY <1>5, <1>6, <1>8, <4>1, KeepsGrow
        <4>3. Sticks(shape.hops, t, sent, shut, Opposite(d)) => Sticks(shape.hops, t, sent', shut, Opposite(d))
          <5>1. PICK o \in Direction : o = Opposite(d)
            BY DEF Opposite, Direction
          <5>2. \A l \in 0..shape.hops : t[l][o] <= t[l][o]
            BY <1>8 DEF Sizes
          <5>3. sent[o] <= sent'[o]
            <6>1. sent[o] \in Nat /\ sent'[o] \in Nat /\ Len(y) \in Nat
              BY <1>8, LenProperties DEF Sizes
            <6>2. sent'[o] = sent[o] \/ sent'[o] = sent[o] + Len(y)
              BY <1>5
            <6> QED
              BY <6>1, <6>2
          <5>4. Sticks(shape.hops, t, sent, shut, o) => Sticks(shape.hops, t, sent', shut, o)
            BY <1>8, <5>2, <5>3, SticksStay
          <5> QED
            BY <5>1, <5>4
        <4> QED
          BY <3>3, <4>2, <4>3 DEF Assured
      <3> QED
        BY <1>4, <1>11, <2>2, <3>2, <3>3, LastWordsNext
    <2> QED
      BY <2>1, <2>2
  <1> QED
    BY <1>12, <1>13, WholeNext

\* An end receives.
LEMMA ReceiveKeeps ==
    ASSUME Base, Base', Whole, Asked', shape' = shape, sent' = sent, shut' = shut, pc' = pc, data' = data,
           NEW end \in End, SideOf(end) \notin shut[LinkOf(end)],
           NEW e \in Direction, Same(e, Opposite(Sends(end))),
           NEW y \in Seq(Int), got'[e] = Cat(got[e], y), \A d \in Direction : d # e => got'[d] = got[d],
           Stream(LinkOf(end), e) = Cat(y, Stream(LinkOf(end), e)'),
           \A l \in Link, d \in Direction : l # LinkOf(end) \/ d # e => Stream(l, d)' = Stream(l, d)
    PROVE  Whole'
  <1>1. PICK t \in Takable : Relays(t) /\ LastWords(t)
    BY DEF Whole
  <1>2. PICK x, b : Views(x, b)
    BY ViewsExist
  <1>3. PICK x2, b2 : Views(x2, b2)'
    BY ViewsNext
  <1>4. /\ shape \in Shapes /\ shape' \in Shapes /\ Link' = Link /\ Link = 0..shape.hops /\ Hop' = Hop /\ Hop = 1..shape.hops
        /\ shape.hops \in Nat \ {0}
    BY HopsAre DEF Base, Control, Link, Hop
  <1>5. PICK u \in Link : u = LinkOf(end) /\ u = FinalOf(shape.hops, e)
    BY <1>4, EndsAre DEF FinalOf, Same
  <1>6. x[u][e] = Cat(y, x2[u][e]) /\ Except(shape.hops, x, x2, u, e)
    <2>1. \A l \in Link, d \in Direction : x[l][d] = Stream(l, d) /\ x2[l][d] = Stream(l, d)'
      BY <1>2, <1>3, <1>4 DEF Views, Direction
    <2>2. Stream(u, e) = Cat(y, Stream(u, e)')
      BY <1>5 DEF Stream, LinkOf
    <2> QED
      BY <1>4, <1>5, <2>1, <2>2 DEF Except
  <1>7. \A l \in Link, d \in Direction : b2[l][d] = b[l][d]
    <2>1. \A l \in Link, d \in Direction : Behind(l, d)' = Behind(l, d)
      BY <1>4, BehindSame
    <2>2. \A l \in Link, d \in Direction : b[l][d] = Behind(l, d) /\ b2[l][d] = Behind(l, d)'
      BY <1>2, <1>3, <1>4 DEF Views, Direction
    <2> QED
      BY <2>1, <2>2
  <1>8. PICK t2 \in Counts : t2[u][e] = t[u][e] + Len(y) /\ Except(shape.hops, t, t2, u, e)
    BY <1>4, TakableIs, TakesMore
  <1>9. Sizes(shape.hops, x, b, t, sent) /\ Sizes(shape.hops, x2, b, t2, sent)
    <2>1. t \in Counts
      BY <1>4, TakableIs
    <2>2. Sizes(shape.hops, x, b, t, sent) /\ Sizes(shape.hops, x2, b2, t2, sent)
      BY <1>2, <1>3, <1>4, <2>1, SizesAre, SizesNext
    <2> QED
      BY <1>4, <1>7, <2>2 DEF Sizes
  <1>10. Relaying(shape.hops, x, b, t, sent, got, shut)
    BY <1>1, <1>2, <1>4, RelaysAre
  <1>11. Relaying(shape.hops, x2, b, t2, sent, got', shut)
    <2>1. PICK g, g2 : g = got /\ g2 = got'
      OBVIOUS
    <2>2. g2[e] = Cat(g[e], y) /\ (\A d \in Direction : d # e => g2[d] = g[d]) /\ Relaying(shape.hops, x, b, t, sent, g, shut)
      BY <1>10, <2>1
    <2>3. Relaying(shape.hops, x2, b, t2, sent, g2, shut)
      BY <1>5, <1>6, <1>8, <1>9, <2>2, RelayingReceive
    <2> QED
      BY <2>1, <2>3
  <1>12. Views(x2, b)'
    BY <1>3, <1>4, <1>7 DEF Views, Direction
  <1>13. Relays(t2)' /\ t2 \in Takable
    BY <1>4, <1>11, <1>12, RelaysNext, TakableNext DEF Relaying
  <1>14. LastWords(t2)'
    <2>1. CASE Failed'
      BY <2>1, LastWordsFailed
    <2>2. CASE ~Failed'
      <3>1. ~Failed
        BY <1>4, <2>2 DEF Failed
      <3>2. \A d \in Direction : Reader(d) \notin shut[FinalOf(shape.hops, d)]
                                   => Assured(shape.hops, x, b, t, sent, shut, pc, d)
        BY <1>1, <1>2, <1>4, <3>1, LastWordsAre
      <3>3. ASSUME NEW d \in Direction, Assured(shape.hops, x, b, t, sent, shut, pc, d)
            PROVE  Assured(shape.hops, x2, b, t2, sent, shut, pc, d)
        <4>2. Keeps(shape.hops, x, b, t, sent, pc, d) => Keeps(shape.hops, x2, b, t2, sent, pc, d)
          BY <1>5, <1>6, <1>8, <1>9, KeepsReceive
        <4>3. Sticks(shape.hops, t, sent, shut, Opposite(d)) => Sticks(shape.hops, t2, sent, shut, Opposite(d))
          <5>1. PICK o \in Direction : o = Opposite(d)
            BY DEF Opposite, Direction
          <5>2. Reader(e) \notin shut[u]
            BY <1>5, EndsAre DEF Same
          <5>3. ASSUME NEW l \in 0..shape.hops PROVE t[l][o] <= t2[l][o] /\ (Reader(o) \in shut[l] => t2[l][o] = t[l][o])
            <6>1. t[l][o] \in Nat /\ Len(y) \in Nat
              BY <1>9, LenProperties DEF Sizes
            <6>2. CASE l = u /\ o = e
              BY <1>8, <5>2, <6>1, <6>2
            <6>3. CASE l # u \/ o # e
              BY <1>8, <6>1, <6>3 DEF Except
            <6> QED
              BY <6>2, <6>3
          <5>4. sent[o] <= sent[o]
            BY <1>9 DEF Sizes
          <5>5. Sticks(shape.hops, t, sent, shut, o) => Sticks(shape.hops, t2, sent, shut, o)
            BY <1>9, <5>3, <5>4, SticksStay
          <5> QED
            BY <5>1, <5>5
        <4> QED
          BY <3>3, <4>2, <4>3 DEF Assured
      <3> QED
        BY <1>4, <1>12, <2>2, <3>2, <3>3, LastWordsNext
    <2> QED
      BY <2>1, <2>2
  <1> QED
    BY <1>13, <1>14, WholeNext

-----------------------------------------------------------------------------
(* Steps that close links, and lose what is on them *)

Lossy ==
    \A l \in Link, d \in Direction :
        \/ Stream(l, d)' = Stream(l, d) /\ Behind(l, d)' = Behind(l, d) /\ shut'[l] = shut[l]
        \/ /\ shut'[l] # {} /\ Len(Behind(l, d)') <= Len(Behind(l, d))
           /\ \E y \in Seq(Int) : Stream(l, d) = Cat(Stream(l, d)', y)

LEMMA LossyRelays ==
    ASSUME Base, Base', Lossy, shape' = shape, sent' = sent, got' = got, NEW t \in Takable, Relays(t)
    PROVE  Relays(t)'
  <1>1. PICK x, b : Views(x, b)
    BY ViewsExist
  <1>2. PICK x2, b2 : Views(x2, b2)'
    BY ViewsNext
  <1>3. shape \in Shapes /\ shape' \in Shapes /\ Link' = Link /\ Link = 0..shape.hops
    BY DEF Base, Control, Link
  <1>4. Sizes(shape.hops, x, b, t, sent) /\ Sizes(shape.hops, x2, b2, t, sent)
    <2>1. t \in Counts
      BY <1>3, TakableIs
    <2> QED
      BY <1>1, <1>2, <1>3, <2>1, SizesAre, SizesNext
  <1>5. Relaying(shape.hops, x, b, t, sent, got, shut)
    BY <1>1, <1>3, RelaysAre
  <1>6. ASSUME NEW l \in Link, NEW d \in Direction
        PROVE  \/ x2[l][d] = x[l][d] /\ b2[l][d] = b[l][d] /\ shut'[l] = shut[l]
               \/ shut'[l] # {} /\ Len(b2[l][d]) <= Len(b[l][d]) /\ \E y \in Seq(Int) : x[l][d] = Cat(x2[l][d], y)
    <2>1. /\ x[l][d] = Stream(l, d) /\ x2[l][d] = Stream(l, d)'
          /\ b[l][d] = Behind(l, d) /\ b2[l][d] = Behind(l, d)'
      BY <1>1, <1>2, <1>3 DEF Views, Direction
    <2> QED
      BY <2>1, Zenon DEF Lossy
  <1>7. PICK s, g, c, c2 : s = sent /\ g = got /\ c = shut /\ c2 = shut'
    OBVIOUS
  <1>8. Relaying(shape.hops, x2, b2, t, s, g, c2)
    <2>1. \A l \in 0..shape.hops, d \in Direction :
             \/ x2[l][d] = x[l][d] /\ b2[l][d] = b[l][d] /\ c2[l] = c[l]
             \/ c2[l] # {} /\ Len(b2[l][d]) <= Len(b[l][d]) /\ \E y \in Seq(Int) : x[l][d] = Cat(x2[l][d], y)
      BY <1>3, <1>6, <1>7
    <2>2. Sizes(shape.hops, x, b, t, s) /\ Sizes(shape.hops, x2, b2, t, s) /\ Relaying(shape.hops, x, b, t, s, g, c)
      BY <1>4, <1>5, <1>7
    <2> QED
      BY <2>1, <2>2, RelayingLess
  <1>9. Relaying(shape.hops, x2, b2, t, sent, got, shut')
    BY <1>7, <1>8
  <1> QED
    BY <1>2, <1>3, <1>9, RelaysNext

\* What is lost of a link.
LEMMA StreamCut ==
    ASSUME Base, shape' = shape, held' = held, NEW l \in Link, NEW d \in Direction, wire'[l][d] = <<>>
    PROVE  \E y \in Seq(Int) : Stream(l, d) = Cat(Stream(l, d)', y)
  <1>1. held[l][d] \in Seq(Int) /\ wire[l][d] \in Seq(Seq(Int)) /\ l \in Link'
    BY StreamsTyped DEF Link
  <1>2. PICK k \in Seq(Int), y \in Seq(Int) : k = held[l][d] /\ y = FlattenSeq(Payload(wire[l][d]))
    BY <1>1, PayloadIs
  <1>3. Stream(l, d) = Cat(k, y)
    BY <1>2, StreamHolds DEF Holds
  <1>4. Stream(l, d)' = k
    <2>1. Payload(<<>>) = <<>>
      BY DEF Payload
    <2>2. Stream(l, d)' = Cat(k, FlattenSeq(Payload(<<>>)))
      BY <1>1, <1>2, StreamHolds DEF Holds
    <2> QED
      BY <2>1, <2>2, FlattenEmpty, CatEmpty
  <1> QED
    BY <1>3, <1>4

LEMMA StreamSame ==
    ASSUME NEW l \in Link, NEW d \in Direction, wire'[l][d] = wire[l][d], held'[l][d] = held[l][d]
    PROVE  Stream(l, d)' = Stream(l, d)
  BY DEF Stream, Payload, Preamble

LEMMA LeaveLossy ==
    ASSUME Base, NEW h \in Hop, NEW to \in {"closed", "aborted"}, Leaves(h, to), Loses(BothSides(h)), pc[h] # "idle",
           data' = [data EXCEPT ![h] = <<>>]
    PROVE  Lossy
  <1>1. shape' = shape /\ pc' = [pc EXCEPT ![h] = to] /\ held' = held
    BY DEF Leaves, Loses
  <1>2. Control /\ shape \in Shapes /\ pc \in [Hop -> Place] /\ data \in [Hop -> Seq(Int)]
    BY DEF Base, Control, HandsFit
  <1>3. /\ \A i \in Hop : i # h => pc'[i] = pc[i] /\ data'[i] = data[i]
        /\ pc'[h] = to /\ data'[h] = <<>>
    BY <1>1, <1>2
  <1>4. /\ shut' \in [Link -> SUBSET Side] /\ shut \in [Link -> SUBSET Side]
        /\ \A l \in Link, s \in Side :
              s \in shut'[l] <=> s \in shut[l] \/ (l = h - 1 /\ s = "far") \/ (l = h /\ s = "near" /\ h \in open)
    BY <1>2, ShutBy DEF Control
  <1>5. SUFFICES ASSUME NEW l \in Link, NEW d \in Direction
                 PROVE  \/ Stream(l, d)' = Stream(l, d) /\ Behind(l, d)' = Behind(l, d) /\ shut'[l] = shut[l]
                        \/ /\ shut'[l] # {} /\ Len(Behind(l, d)') <= Len(Behind(l, d))
                           /\ \E y \in Seq(Int) : Stream(l, d) = Cat(Stream(l, d)', y)
    BY DEF Lossy
  <1>6. \/ Behind(l, d)' = Behind(l, d)
        \/ Behind(l, d)' = <<>> /\ l = Downstream(h, d) /\ h \in open
    <2>1. /\ Behind(Downstream(h, d), d) = InHand(h, d)
          /\ Behind(Downstream(h, d), d)' = (IF pc'[h] = d THEN data'[h] ELSE <<>>)
          /\ \A i \in Link : i # Downstream(h, d) => Behind(i, d)' = Behind(i, d)
      BY <1>1, <1>2, <1>3, BehindOf
    <2>2. CASE l = Downstream(h, d)
      <3>1. Behind(l, d)' = <<>>
        <4>1. Behind(Downstream(h, d), d)' = <<>>
          BY <1>3, <2>1
        <4> QED
          BY <2>2, <4>1 DEF Downstream
      <3>2. CASE h \in open
        BY <2>2, <3>1, <3>2
      <3>3. CASE h \notin open
        <4>1. pc[h] \notin Direction
          BY <1>2, <3>3 DEF Control, Connections, Early, Dead, Direction
        <4>2. Behind(l, d) = <<>>
          BY <2>1, <2>2, <4>1 DEF InHand
        <4> QED
          BY <3>1, <4>2
      <3> QED
        BY <3>2, <3>3
    <2>3. CASE l # Downstream(h, d)
      BY <2>1, <2>3
    <2> QED
      BY <2>2, <2>3
  <1>7. CASE l = h - 1 \/ (l = h /\ h \in open)
    <2>1. shut'[l] # {}
      BY <1>4, <1>7 DEF Side
    <2>2. Len(Behind(l, d)') <= Len(Behind(l, d))
      <3>1. Behind(l, d) \in Seq(Int) /\ Len(<<>>) = 0
        BY StreamsTyped, EmptySeq
      <3>2. Len(Behind(l, d)) \in Nat
        BY <3>1, LenProperties
      <3> QED
        BY <1>6, <3>1, <3>2
    <2>3. \E y \in Seq(Int) : Stream(l, d) = Cat(Stream(l, d)', y)
      <3>1. CASE wire'[l][d] = <<>>
        BY <1>1, <3>1, StreamCut
      <3>2. CASE wire'[l][d] # <<>>
        <4>1. wire'[l][d] = wire[l][d]
          BY <3>2 DEF Loses
        <4>2. Stream(l, d)' = Stream(l, d)
          BY <1>1, <4>1, StreamSame
        <4>3. Stream(l, d) \in Seq(Int) /\ <<>> \in Seq(Int)
          BY StreamsTyped
        <4>4. Stream(l, d) = Cat(Stream(l, d), <<>>)
          BY <4>3, CatEmpty
        <4> QED
          BY <4>2, <4>3, <4>4
      <3> QED
        BY <3>1, <3>2
    <2> QED
      BY <2>1, <2>2, <2>3
  <1>8. CASE ~(l = h - 1 \/ (l = h /\ h \in open))
    <2>1. shut'[l] = shut[l]
      BY <1>4, <1>8
    <2>2. wire'[l][d] = wire[l][d]
      <3>1. <<l, Writer(d)>> \notin BothSides(h)
        BY <1>8, SidesClosed
      <3> QED
        BY <3>1 DEF Loses
    <2>3. Stream(l, d)' = Stream(l, d)
      BY <1>1, <2>2, StreamSame
    <2>4. Behind(l, d)' = Behind(l, d)
      BY <1>6, <1>8 DEF Downstream
    <2> QED
      BY <2>1, <2>3, <2>4
  <1> QED
    BY <1>7, <1>8

\* A hop gives up.
LEMMA AbortKeeps ==
    ASSUME Base, Base', Whole, Asked', NEW h \in Hop, Leaves(h, "aborted"), Loses(BothSides(h)), pc[h] # "idle",
           data' = [data EXCEPT ![h] = <<>>], sent' = sent, got' = got
    PROVE  Whole'
  <1>1. PICK t \in Takable : Relays(t) /\ LastWords(t)
    BY DEF Whole
  <1>2. shape' = shape
    BY DEF Leaves
  <1>3. Relays(t)'
    BY <1>1, <1>2, LeaveLossy, LossyRelays
  <1>4. Failed'
    <2>1. pc'[h] = "aborted" /\ Hop' = Hop
      BY <1>2 DEF Leaves, Base, Control, Hop
    <2> QED
      BY <2>1 DEF Failed
  <1> QED
    BY <1>1, <1>2, <1>3, <1>4, LastWordsFailed, WholeNext

\* Bytes that nobody reads.
LEMMA SticksHere ==
    ASSUME NEW n, NEW x, NEW b, NEW t, NEW s, Sizes(n, x, b, t, s), NEW g, NEW c, Relaying(n, x, b, t, s, g, c),
           NEW l \in 0..n, NEW d \in Direction, x[l][d] # <<>> \/ b[l][d] # <<>>, NEW c2, Reader(d) \in c2[l]
    PROVE  Sticks(n, t, s, c2, d)
  <1>1. t[l][d] + Len(x[l][d]) + Len(b[l][d]) <= Offered(n, t, s, l, d)
    BY DEF Relaying, Cutting, Cuts
  <1>2. PICK m \in Nat, i \in Nat, j \in Nat, q \in Nat :
            m = t[l][d] /\ i = Len(x[l][d]) /\ j = Len(b[l][d]) /\ q = Offered(n, t, s, l, d)
    BY OfferedType, LenProperties DEF Sizes
  <1>3. i > 0 \/ j > 0
    BY <1>2, HasBytes DEF Sizes
  <1>4. m + i + j <= q
    BY <1>1, <1>2
  <1>5. m < q
    <2> HIDE <1>2
    <2>1. m \in Nat /\ i \in Nat /\ j \in Nat /\ q \in Nat
      OBVIOUS
    <2> QED
      BY <1>3, <1>4, <2>1
  <1> QED
    BY <1>2, <1>5 DEF Sticks

LEMMA HoldsSome ==
    ASSUME Base, Asked, NEW l \in Link, NEW d \in Direction, wire[l][d] # <<>>,
           d = "up" \/ l + 1 \notin Hop \/ pc[l + 1] # "request"
    PROVE  Stream(l, d) # <<>>
  <1>1. Payload(wire[l][d]) = wire[l][d]
    BY DEF Asked
  <1>2. PICK w : w = wire[l][d]
    OBVIOUS
  <1>3. Fitting(w) /\ w \in Seq(Seq(Int)) /\ held[l][d] \in Seq(Int) /\ w # <<>>
    BY <1>2, StreamsTyped
  <1>4. Len(Head(w)) \in 1..RecordSize
    BY <1>3, FittingTail
  <1>5. Len(FlattenSeq(w)) = Len(Head(w)) + Len(FlattenSeq(Tail(w))) /\ Len(FlattenSeq(Tail(w))) \in Nat
    BY <1>3, FlattenFirst, LenProperties
  <1>6. Len(FlattenSeq(w)) > 0
    BY <1>4, <1>5, TunnelAssumption
  <1>7. Len(Stream(l, d)) = Len(held[l][d]) + Len(FlattenSeq(w)) /\ Len(held[l][d]) \in Nat
    <2>1. Stream(l, d) = Holds(held[l][d], w)
      BY <1>2, StreamHolds
    <2> QED
      BY <1>1, <1>2, <1>3, <2>1, HoldsType, LenProperties
  <1>8. Len(FlattenSeq(w)) \in Nat
    BY <1>3, FlattenFirst, LenProperties
  <1>9. Len(Stream(l, d)) > 0
    BY <1>6, <1>7, <1>8
  <1> QED
    BY <1>9, EmptySeq

-----------------------------------------------------------------------------
(* A hop that ends, and one that sends to nobody *)

\* Who wrote to a link, and is gone.
LEMMA WriterGone ==
    ASSUME Base, ~Failed, NEW u \in Link, NEW d \in Direction, u # FirstOf(shape.hops, d), Writer(d) \in shut[u]
    PROVE  WriterHop(u, d) \in Hop /\ pc[WriterHop(u, d)] = "closed"
  <1>1. shape.hops \in Nat \ {0} /\ Hop = 1..shape.hops /\ Link = 0..shape.hops /\ Connections
    BY HopsAre DEF Base, Control
  <1>2. WriterHop(u, d) \in Hop
    BY <1>1, WriterHopIs
  <1>3. pc[WriterHop(u, d)] \in Dead
    <2>1. CASE d = "down"
      BY <1>1, <1>2, <2>1 DEF Connections, WriterHop, Writer, Reader, Other
    <2>2. CASE d = "up"
      <3>1. PICK k \in Hop : k = u + 1
        BY <1>2, <2>2 DEF WriterHop
      <3>2. k - 1 = u /\ "far" \in shut[u]
        BY <1>1, <2>2, <3>1 DEF Writer, Reader, Other
      <3>3. pc[k] \in Dead
        BY <1>1, <3>2 DEF Connections
      <3> QED
        BY <2>2, <3>1, <3>3 DEF WriterHop
    <2> QED
      BY <2>1, <2>2 DEF Direction
  <1> QED
    BY <1>2, <1>3 DEF Failed, Dead

\* The other direction.
LEMMA Turned ==
    ASSUME NEW n, NEW d \in Direction, NEW o \in Direction, o = Opposite(d)
    PROVE  /\ d = Opposite(o) /\ o # d /\ Writer(o) = Reader(d) /\ Reader(o) = Writer(d) /\ Writer(d) # Reader(d)
           /\ FirstOf(n, o) = FinalOf(n, d) /\ FinalOf(n, o) = FirstOf(n, d)
           /\ Writer(d) \in Side /\ Reader(d) \in Side
  BY DEF Direction, Opposite, Writer, Reader, Other, FirstOf, FinalOf, Side

\* A hop sees no end of a stream that goes away from an end that stays.
LEMMA NoEndFrom ==
    ASSUME Base, ~Failed, NEW h \in Hop, pc[h] # "closed", NEW d \in Direction, NEW o \in Direction, o = Opposite(d),
           Reader(d) \notin shut[FinalOf(shape.hops, d)], Waves(shape.hops, shut, pc, d)
    PROVE  Writer(o) \notin shut[Upstream(h, o)]
  <1>1. shape.hops \in Nat \ {0} /\ Hop = 1..shape.hops /\ Link = 0..shape.hops
    BY HopsAre DEF Base, Control
  <1>2. PICK u \in Link : u = Upstream(h, o)
    BY LinksOf DEF Base, Control
  <1>3. SUFFICES ASSUME Writer(o) \in shut[u] PROVE FALSE
    BY <1>2
  <1>4. u # FirstOf(shape.hops, o)
    BY <1>3, Turned
  <1>5. WriterHop(u, o) \in Hop /\ pc[WriterHop(u, o)] = "closed"
    BY <1>3, <1>4, WriterGone
  <1>6. Before(h, WriterHop(u, o), d)
    BY <1>1, <1>2 DEF Before, WriterHop, Upstream, Direction, Opposite
  <1> QED
    BY <1>1, <1>5, <1>6 DEF Waves

LEMMA CloseKeeps ==
    ASSUME Base, Base', Whole, Asked', NEW h \in Hop, Leaves(h, "closed"), Loses(BothSides(h)),
           data' = [data EXCEPT ![h] = <<>>], sent' = sent, got' = got,
           NEW e \in Direction, pc[h] = "handle" \/ (pc[h] = "request" /\ e = "down"),
           held[Upstream(h, e)][e] = <<>>, wire[Upstream(h, e)][e] = <<>>, Writer(e) \in shut[Upstream(h, e)]
    PROVE  Whole'
  <1>1. PICK t \in Takable : Relays(t) /\ LastWords(t)
    BY DEF Whole
  <1>2. /\ shape' = shape /\ pc' = [pc EXCEPT ![h] = "closed"] /\ held' = held
        /\ Control /\ shape \in Shapes /\ pc \in [Hop -> Place] /\ data \in [Hop -> Seq(Int)]
    BY DEF Leaves, Loses, Base, Control, HandsFit
  <1>3. /\ shape.hops \in Nat \ {0} /\ Hop = 1..shape.hops /\ Link = 0..shape.hops /\ Link' = Link /\ Hop' = Hop
        /\ shape' \in Shapes
    BY <1>2, HopsAre DEF Hop, Link
  <1>4. Lossy
    BY LeaveLossy
  <1>5. Relays(t)'
    BY <1>1, <1>2, <1>4, LossyRelays
  <1>6. SUFFICES ASSUME ~Failed' PROVE LastWords(t)'
    BY <1>1, <1>2, <1>5, LastWordsFailed, WholeNext
  <1>7. /\ pc'[h] = "closed" /\ \A i \in Hop : i # h => pc'[i] = pc[i] /\ data'[i] = data[i]
        /\ data'[h] = <<>> /\ pc[h] \notin Direction /\ pc[h] # "closed"
    BY <1>2 DEF Direction
  <1>8. ~Failed
    BY <1>3, <1>6, <1>7 DEF Failed
  <1>9. /\ shut' \in [Link -> SUBSET Side] /\ shut \in [Link -> SUBSET Side]
        /\ \A l \in Link, s \in Side :
              s \in shut'[l] <=> s \in shut[l] \/ (l = h - 1 /\ s = "far") \/ (l = h /\ s = "near" /\ h \in open)
    BY <1>2, ShutBy DEF Control
  <1>10. PICK x, b : Views(x, b)
    BY ViewsExist
  <1>11. PICK x2, b2 : Views(x2, b2)'
    BY ViewsNext
  <1>12. /\ \A l \in Link, d \in Direction : x[l][d] = Stream(l, d) /\ b[l][d] = Behind(l, d)
         /\ \A l \in Link, d \in Direction : x2[l][d] = Stream(l, d)' /\ b2[l][d] = Behind(l, d)'
    BY <1>3, <1>10, <1>11 DEF Views, Direction
  <1>13. Sizes(shape.hops, x, b, t, sent) /\ Sizes(shape.hops, x2, b2, t, sent)
    <2>1. t \in Counts
      BY <1>2, TakableIs
    <2> QED
      BY <1>2, <1>10, <1>11, <2>1, SizesAre, SizesNext
  <1>14. Relaying(shape.hops, x, b, t, sent, got, shut)
    BY <1>1, <1>2, <1>10, RelaysAre
  <1>15. SUFFICES ASSUME NEW d \in Direction, Reader(d) \notin shut'[FinalOf(shape.hops, d)]
                  PROVE  Assured(shape.hops, x2, b2, t, sent, shut', pc', d)
    BY <1>2, <1>3, <1>6, <1>11, LastWordsNext
  <1>16. PICK o \in Direction : o = Opposite(d)
    BY DEF Direction, Opposite
  <1>17. Reader(d) \notin shut[FinalOf(shape.hops, d)]
    BY <1>3, <1>9, <1>15, <1>16, Turned DEF FinalOf
  <1>18. Assured(shape.hops, x, b, t, sent, shut, pc, d)
    BY <1>1, <1>2, <1>8, <1>10, <1>17, LastWordsAre
  <1>19. d = e
    <2>1. e # o
      BY <1>7, <1>8, <1>16, <1>17, <1>18, NoEndFrom DEF Assured
    <2> QED
      BY <1>16, <2>1 DEF Direction, Opposite
  <1>20. PICK u \in Link, w \in Link : /\ u = Upstream(h, d) /\ w = Downstream(h, d) /\ w # FirstOf(shape.hops, d)
                                       /\ WriterHop(w, d) = h /\ u = Previous(w, d)
    BY <1>2, HopOf, LinksOf
  <1>21. held[u][d] = <<>> /\ wire[u][d] = <<>> /\ Writer(d) \in shut[u]
    BY <1>19, <1>20
  <1>22. u # FirstOf(shape.hops, d) => WriterHop(u, d) \in Hop /\ pc[WriterHop(u, d)] = "closed"
    BY <1>8, <1>21, WriterGone
  <1>23. Waves(shape.hops, shut', pc', d)
    <2>1. Writer(d) \in shut[FirstOf(shape.hops, d)]
      BY <1>3, <1>18, <1>21, <1>22 DEF Assured, Waves
    <2>2. Writer(d) \in shut'[FirstOf(shape.hops, d)]
      BY <1>3, <1>9, <1>16, <2>1, Turned DEF FirstOf
    <2>3. ASSUME NEW i \in Hop, NEW k \in Hop, pc'[i] = "closed", Before(k, i, d) PROVE pc'[k] = "closed"
      <3>1. CASE i = h
        <4>1. u # FirstOf(shape.hops, d) /\ (k = WriterHop(u, d) \/ Before(k, WriterHop(u, d), d))
          BY <1>3, <1>20, <2>3, <3>1 DEF Before, WriterHop, FirstOf, Upstream, Direction
        <4>2. pc[k] = "closed"
          BY <1>3, <1>18, <1>22, <4>1 DEF Assured, Waves
        <4> QED
          BY <1>7, <4>2
      <3>2. CASE i # h
        <4>1. pc[k] = "closed"
          BY <1>3, <1>7, <1>18, <2>3, <3>2 DEF Assured, Waves
        <4> QED
          BY <1>7, <4>1
      <3> QED
        BY <3>1, <3>2
    <2> QED
      BY <1>3, <2>2, <2>3 DEF Waves
  <1>24. CASE Sticks(shape.hops, t, sent, shut, o)
    <2>1. PICK c, c2 : c = shut /\ c2 = shut'
      OBVIOUS
    <2>2. \A l \in 0..shape.hops : Reader(o) \in c[l] => Reader(o) \in c2[l] /\ t[l][o] = t[l][o]
      BY <1>3, <1>9, <1>16, <2>1, Turned
    <2>3. (\A l \in 0..shape.hops : t[l][o] <= t[l][o]) /\ sent[o] <= sent[o]
      BY <1>13 DEF Sizes
    <2>4. Sticks(shape.hops, t, sent, c2, o)
      BY <1>13, <1>24, <2>1, <2>2, <2>3, SticksStay
    <2> QED
      BY <1>16, <1>23, <2>1, <2>4 DEF Assured
  <1>25. CASE Keeps(shape.hops, x, b, t, sent, pc, d)
    <2>1. CASE wire'[w][d] # wire[w][d]
      <3>1. <<w, Writer(d)>> \in BothSides(h) /\ wire[w][o] # <<>>
        BY <1>16, <2>1 DEF Loses
      <3>2. Reader(o) \in shut'[w]
        <4>1. (w = h - 1 /\ Writer(d) = "far") \/ (w = h /\ Writer(d) = "near" /\ h \in open)
          BY <3>1, SidesClosed
        <4> QED
          BY <1>9, <1>16, <4>1, Turned
      <3>3. Stream(w, o) # <<>>
        <4>1. o = "up" \/ w + 1 \notin Hop \/ pc[w + 1] # "request"
          <5>1. CASE d = "down"
            BY <1>16, <5>1 DEF Opposite
          <5>2. CASE d = "up"
            <6>1. pc[h] # "request" /\ w + 1 = h
              BY <1>3, <1>19, <1>20, <5>2 DEF Downstream
            <6> QED
              BY <6>1
          <5> QED
            BY <5>1, <5>2 DEF Direction
        <4> QED
          BY <3>1, <4>1, HoldsSome DEF Whole
      <3>4. Sticks(shape.hops, t, sent, shut', o)
        <4>1. x[w][o] # <<>>
          BY <1>12, <3>3
        <4> QED
          BY <1>3, <1>13, <1>14, <3>2, <4>1, SticksHere
      <3> QED
        BY <1>16, <1>23, <3>4 DEF Assured
    <2>2. CASE wire'[w][d] = wire[w][d]
      <3>1. ASSUME NEW l \in Link PROVE x2[l][d] = x[l][d]
        <4>1. wire'[l][d] = wire[l][d]
          <5>1. CASE l = w
            BY <2>2, <5>1
          <5>2. CASE l # w
            <6>1. <<l, Writer(d)>> \notin BothSides(h)
              BY <1>20, <5>2, SidesClosed DEF Downstream, Writer, Reader, Other, Direction
            <6> QED
              BY <6>1 DEF Loses
          <5> QED
            BY <5>1, <5>2
        <4>2. Stream(l, d)' = Stream(l, d)
          BY <1>2, <4>1, StreamSame
        <4> QED
          BY <1>12, <4>2
      <3>2. ASSUME NEW l \in Link PROVE b2[l][d] = b[l][d] /\ (l = w => b[l][d] = <<>>)
        <4>1. /\ Behind(Downstream(h, d), d) = InHand(h, d)
              /\ Behind(Downstream(h, d), d)' = (IF pc'[h] = d THEN data'[h] ELSE <<>>)
              /\ \A i \in Link : i # Downstream(h, d) => Behind(i, d)' = Behind(i, d)
          BY <1>2, <1>7, BehindOf
        <4>2. InHand(h, d) = <<>>
          BY <1>7 DEF InHand
        <4>3. CASE l = w
          <5>1. Behind(w, d)' = Behind(Downstream(h, d), d)'
            BY <1>20 DEF Behind, Downstream
          <5> QED
            BY <1>7, <1>12, <1>20, <4>1, <4>2, <4>3, <5>1
        <4>4. CASE l # w
          BY <1>12, <1>20, <4>1, <4>4
        <4> QED
          BY <4>3, <4>4
      <3>3. x[u][d] = <<>> /\ b[u][d] = <<>>
        <4>1. Stream(u, d) = <<>>
          <5>1. Stream(u, d) = Cat(<<>>, FlattenSeq(Payload(<<>>))) /\ Payload(<<>>) = <<>>
            BY <1>21, StreamHolds DEF Holds, Payload
          <5>2. Cat(<<>>, <<>>) = <<>>
            <6>1. <<>> \in Seq(Int)
              OBVIOUS
            <6> QED
              BY <6>1, CatEmpty
          <5>3. FlattenSeq(Payload(<<>>)) = <<>>
            BY <5>1, FlattenEmpty
          <5> QED
            BY <5>1, <5>2, <5>3, Zenon
        <4>2. Behind(u, d) = <<>>
          <5>1. u # FirstOf(shape.hops, d) => pc[WriterHop(u, d)] # d
            BY <1>22 DEF Direction
          <5> QED
            BY <5>1, EndsAre DEF Behind, InHand
        <4> QED
          BY <1>12, <4>1, <4>2
      <3>4. Keeps(shape.hops, x2, b2, t, sent, pc', d)
        <4>1. \A k \in 1..shape.hops : pc'[k] = "closed" => k = h \/ pc[k] = "closed"
          BY <1>3, <1>7
        <4>2. PICK p, p2 : p = pc /\ p2 = pc'
          OBVIOUS
        <4>3. Keeps(shape.hops, x2, b2, t, sent, p2, d)
          <5>1. \A l \in 0..shape.hops : x2[l][d] = x[l][d] /\ b2[l][d] = b[l][d]
            BY <1>3, <3>1, <3>2
          <5>2. \A k \in 1..shape.hops : p2[k] = "closed" => k = h \/ p[k] = "closed"
            BY <4>1, <4>2
          <5>3. b[w][d] = <<>> /\ (u # FirstOf(shape.hops, d) => p[WriterHop(u, d)] = "closed")
            BY <1>22, <3>2, <4>2
          <5>4. Keeps(shape.hops, x, b, t, sent, p, d) /\ h \in 1..shape.hops /\ w \in 0..shape.hops
            BY <1>3, <1>25, <4>2
          <5> QED
            BY <1>13, <1>20, <3>3, <5>1, <5>2, <5>3, <5>4, KeepsClose
        <4> QED
          BY <4>2, <4>3
      <3> QED
        BY <1>23, <3>4 DEF Assured
    <2> QED
      BY <2>1, <2>2
  <1> QED
    BY <1>16, <1>18, <1>24, <1>25 DEF Assured

\* A hop sends to nobody.
LEMMA VainLossy ==
    ASSUME Base, NEW h \in Hop, NEW e \in Direction, NEW o \in Direction, o = Opposite(e), pc[h] = e,
           NEW w \in Link, Same(w, Downstream(h, e)), Reader(e) \in shut[w],
           shape' = shape, shut' = shut, held' = held,
           pc'[h] \in {"handle", "poll"}, data'[h] = <<>>, \A i \in Hop : i # h => pc'[i] = pc[i] /\ data'[i] = data[i],
           wire'[w][o] = <<>>, \A l \in Link, d \in Direction : l # w \/ d # o => wire'[l][d] = wire[l][d]
    PROVE  Lossy
  <1>1. Control /\ shape \in Shapes
    BY DEF Base, Control
  <1>2. ASSUME NEW l \in Link, NEW d \in Direction
        PROVE  /\ Len(Behind(l, d)') <= Len(Behind(l, d))
               /\ l # w => Behind(l, d)' = Behind(l, d)
    <2>1. /\ Behind(Downstream(h, d), d) = InHand(h, d)
          /\ Behind(Downstream(h, d), d)' = (IF pc'[h] = d THEN data'[h] ELSE <<>>)
          /\ \A i \in Link : i # Downstream(h, d) => Behind(i, d)' = Behind(i, d)
      BY <1>1, BehindOf
    <2>2. Behind(l, d) \in Seq(Int) /\ Len(<<>>) = 0
      BY StreamsTyped, EmptySeq
    <2>3. Len(Behind(l, d)) \in Nat
      BY <2>2, LenProperties
    <2>4. CASE l # Downstream(h, d)
      BY <2>1, <2>3, <2>4
    <2>5. CASE l = Downstream(h, d)
      <3>1. Behind(l, d)' = <<>>
        <4>1. Behind(Downstream(h, d), d)' = <<>>
          BY <2>1 DEF Direction
        <4> QED
          BY <2>5, <4>1 DEF Downstream
      <3>2. d # e => Behind(l, d) = <<>>
        BY <2>1, <2>5 DEF InHand
      <3> QED
        BY <2>2, <2>3, <2>5, <3>1, <3>2 DEF Same
    <2> QED
      BY <2>4, <2>5
  <1>3. SUFFICES ASSUME NEW l \in Link, NEW d \in Direction
                 PROVE  \/ Stream(l, d)' = Stream(l, d) /\ Behind(l, d)' = Behind(l, d) /\ shut'[l] = shut[l]
                        \/ /\ shut'[l] # {} /\ Len(Behind(l, d)') <= Len(Behind(l, d))
                           /\ \E y \in Seq(Int) : Stream(l, d) = Cat(Stream(l, d)', y)
    BY DEF Lossy
  <1>4. CASE l # w
    <2>1. Stream(l, d)' = Stream(l, d)
      BY <1>4, StreamSame
    <2> QED
      BY <1>2, <1>4, <2>1
  <1>5. CASE l = w
    <2>1. shut'[l] # {} /\ Len(Behind(l, d)') <= Len(Behind(l, d))
      BY <1>2, <1>5
    <2>2. \E y \in Seq(Int) : Stream(l, d) = Cat(Stream(l, d)', y)
      <3>1. CASE wire'[l][d] = <<>>
        BY <3>1, StreamCut
      <3>2. CASE wire'[l][d] # <<>>
        <4>1. wire'[l][d] = wire[l][d]
          BY <1>5, <3>2
        <4>2. Stream(l, d)' = Stream(l, d)
          BY <4>1, StreamSame
        <4>3. Stream(l, d) \in Seq(Int) /\ <<>> \in Seq(Int)
          BY StreamsTyped
        <4>4. Stream(l, d) = Cat(Stream(l, d), <<>>)
          BY <4>3, CatEmpty
        <4> QED
          BY <4>2, <4>3, <4>4
      <3> QED
        BY <3>1, <3>2
    <2> QED
      BY <2>1, <2>2
  <1> QED
    BY <1>4, <1>5

LEMMA VainKeeps ==
    ASSUME Base, Base', Whole, Asked', NEW h \in Hop, NEW e \in Direction, NEW o \in Direction, o = Opposite(e), pc[h] = e,
           NEW w \in Link, Same(w, Downstream(h, e)), Reader(e) \in shut[w],
           shape' = shape, shut' = shut, held' = held, sent' = sent, got' = got,
           pc'[h] \in {"handle", "poll"}, data'[h] = <<>>, \A i \in Hop : i # h => pc'[i] = pc[i] /\ data'[i] = data[i],
           wire'[w][o] = <<>>, \A l \in Link, d \in Direction : l # w \/ d # o => wire'[l][d] = wire[l][d]
    PROVE  Whole'
  <1>1. PICK t \in Takable : Relays(t) /\ LastWords(t)
    BY DEF Whole
  <1>2. /\ shape \in Shapes /\ shape' \in Shapes /\ shape.hops \in Nat \ {0}
        /\ Hop = 1..shape.hops /\ Link = 0..shape.hops /\ Link' = Link /\ Hop' = Hop
    BY HopsAre DEF Base, Control, Hop, Link
  <1>3. Lossy
    BY VainLossy
  <1>4. Relays(t)'
    BY <1>1, <1>3, LossyRelays
  <1>5. SUFFICES ASSUME ~Failed' PROVE LastWords(t)'
    BY <1>1, <1>4, LastWordsFailed, WholeNext
  <1>6. ~Failed /\ SameClosed(shape.hops, pc, pc') /\ pc[h] # "closed"
    BY <1>2, <1>5 DEF Failed, SameClosed, Direction
  <1>7. PICK x, b : Views(x, b)
    BY ViewsExist
  <1>8. PICK x2, b2 : Views(x2, b2)'
    BY ViewsNext
  <1>9. Sizes(shape.hops, x, b, t, sent)
    BY <1>2, <1>7, TakableIs, SizesAre
  <1>10. Relaying(shape.hops, x, b, t, sent, got, shut)
    BY <1>1, <1>2, <1>7, RelaysAre
  <1>11. SUFFICES ASSUME NEW d \in Direction, Reader(d) \notin shut[FinalOf(shape.hops, d)]
                  PROVE  Assured(shape.hops, x2, b2, t, sent, shut, pc', d)
    BY <1>2, <1>5, <1>8, LastWordsNext
  <1>12. Assured(shape.hops, x, b, t, sent, shut, pc, d)
    BY <1>1, <1>2, <1>6, <1>7, <1>11, LastWordsAre
  <1>13. Waves(shape.hops, shut, pc', d)
    BY <1>6, <1>12, WavesStay DEF Assured
  <1>14. d = o
    <2>1. ASSUME d = e PROVE FALSE
      <3>1. Writer(o) \notin shut[Upstream(h, o)]
        BY <1>6, <1>11, <1>12, <2>1, NoEndFrom DEF Assured
      <3>2. Upstream(h, o) = w
        BY <1>2, LinksOf DEF Same
      <3>3. Writer(o) = Reader(e)
        BY DEF Writer, Reader, Other, Opposite, Direction
      <3> QED
        BY <3>1, <3>2, <3>3
    <2> QED
      BY <2>1 DEF Direction, Opposite
  <1>15. Sticks(shape.hops, t, sent, shut, e)
    <2>1. data[h] # <<>>
      BY DEF Base, HandsFit
    <2>2. Behind(w, e) = data[h]
      BY <1>2, HopOf, EndsAre DEF Same, Behind, InHand
    <2>3. b[w][e] # <<>>
      BY <1>7, <2>1, <2>2 DEF Views
    <2> QED
      BY <1>2, <1>9, <1>10, <2>3, SticksHere
  <1>16. e = Opposite(d)
    BY <1>14, Turned
  <1> QED
    BY <1>13, <1>15, <1>16 DEF Assured

-----------------------------------------------------------------------------
(* An end that closes *)

LEMMA ClosedLoses ==
    ASSUME NEW sides, Closed(sides), held' = held
    PROVE  Loses(sides)
  <1>1. PICK resets \in SUBSET {x \in sides : \E d \in Direction : Reader(d) = x[2] /\ wire[x[1]][d] # <<>>} :
            wire' = [l \in Link |-> [d \in Direction |-> IF <<l, Writer(d)>> \in resets THEN <<>> ELSE wire[l][d]]]
    BY DEF Closed
  <1>2. ASSUME NEW l \in Link, NEW d \in Direction
        PROVE  \/ wire'[l][d] = wire[l][d]
               \/ wire'[l][d] = <<>> /\ <<l, Writer(d)>> \in sides /\ wire[l][Opposite(d)] # <<>>
    <2>1. CASE <<l, Writer(d)>> \in resets
      <3>1. <<l, Writer(d)>> \in sides
        BY <2>1
      <3>2. PICK i \in Direction : Reader(i) = Writer(d) /\ wire[l][i] # <<>>
        BY <2>1
      <3>3. i = Opposite(d)
        BY <3>2 DEF Direction, Reader, Writer, Other, Opposite
      <3> QED
        BY <1>1, <2>1, <3>1, <3>2, <3>3
    <2>2. CASE <<l, Writer(d)>> \notin resets
      BY <1>1, <2>2
    <2> QED
      BY <2>1, <2>2
  <1> QED
    BY <1>2 DEF Loses

LEMMA EndShuts ==
    ASSUME Base, NEW w \in Link, NEW s \in Side,
           shut' = [l \in Link |-> shut[l] \cup {i \in Side : <<l, i>> \in {<<w, s>>}}]
    PROVE  /\ \A l \in Link : l # w => shut'[l] = shut[l]
           /\ \A l \in Link, i \in Side : i \in shut'[l] <=> i \in shut[l] \/ (l = w /\ i = s)
  <1>1. \A l \in Link : shut[l] \in SUBSET Side
    BY DEF Base, Control
  <1>2. ASSUME NEW l \in Link PROVE \A i \in Side : i \in shut'[l] <=> i \in shut[l] \/ (l = w /\ i = s)
    OBVIOUS
  <1>3. ASSUME NEW l \in Link, l # w PROVE shut'[l] = shut[l]
    <2>1. shut'[l] = shut[l] \cup {i \in Side : <<l, i>> \in {<<w, s>>}}
      OBVIOUS
    <2>2. \A i \in Side : <<l, i>> # <<w, s>>
      BY <1>3
    <2> QED
      BY <2>1, <2>2
  <1> QED
    BY <1>2, <1>3

LEMMA EndCloseKeeps ==
    ASSUME Base, Base', Whole, Asked', NEW e \in Direction, NEW w \in Link, w = FirstOf(shape.hops, e), Writer(e) \notin shut[w],
           shut' = [l \in Link |-> shut[l] \cup {i \in Side : <<l, i>> \in {<<w, Writer(e)>>}}],
           Loses({<<w, Writer(e)>>}), shape' = shape, pc' = pc, data' = data, sent' = sent, got' = got
    PROVE  Whole'
  <1>1. PICK t \in Takable : Relays(t) /\ LastWords(t)
    BY DEF Whole
  <1>2. /\ shape \in Shapes /\ shape' \in Shapes /\ shape.hops \in Nat \ {0} /\ held' = held
        /\ Hop = 1..shape.hops /\ Link = 0..shape.hops /\ Link' = Link /\ Hop' = Hop
    BY HopsAre DEF Base, Control, Hop, Link, Loses
  <1>3. PICK o \in Direction : o = Opposite(e)
    BY DEF Direction, Opposite
  <1>4. /\ \A l \in Link : l # w => shut'[l] = shut[l]
        /\ \A l \in Link, i \in Side : i \in shut'[l] <=> i \in shut[l] \/ (l = w /\ i = Writer(e))
    <2>1. Writer(e) \in Side
      BY <1>3, Turned
    <2> QED
      BY <2>1, EndShuts
  <1>5. \A l \in Link, d \in Direction : Behind(l, d)' = Behind(l, d)
    BY <1>2, BehindSame
  <1>6. \A l \in Link, d \in Direction : l # w \/ d # e => Stream(l, d)' = Stream(l, d)
    <2>1. ASSUME NEW l \in Link, NEW d \in Direction, l # w \/ d # e PROVE wire'[l][d] = wire[l][d]
      <3>1. <<l, Writer(d)>> # <<w, Writer(e)>>
        BY <2>1 DEF Direction, Writer, Reader, Other
      <3> QED
        BY <3>1 DEF Loses
    <2> QED
      BY <1>2, <2>1, StreamSame
  <1>7. \E y \in Seq(Int) : Stream(w, e) = Cat(Stream(w, e)', y)
    <2>1. CASE wire'[w][e] = <<>>
      BY <1>2, <2>1, StreamCut
    <2>2. CASE wire'[w][e] # <<>>
      <3>1. wire'[w][e] = wire[w][e]
        BY <2>2 DEF Loses
      <3>2. Stream(w, e)' = Stream(w, e)
        BY <1>2, <3>1, StreamSame
      <3>3. Stream(w, e) \in Seq(Int) /\ <<>> \in Seq(Int)
        BY StreamsTyped
      <3>4. Stream(w, e) = Cat(Stream(w, e), <<>>)
        BY <3>3, CatEmpty
      <3> QED
        BY <3>2, <3>3, <3>4
    <2> QED
      BY <2>1, <2>2
  <1>8. Lossy
    <2>1. SUFFICES ASSUME NEW l \in Link, NEW d \in Direction
                   PROVE  \/ Stream(l, d)' = Stream(l, d) /\ Behind(l, d)' = Behind(l, d) /\ shut'[l] = shut[l]
                          \/ /\ shut'[l] # {} /\ Len(Behind(l, d)') <= Len(Behind(l, d))
                             /\ \E y \in Seq(Int) : Stream(l, d) = Cat(Stream(l, d)', y)
      BY DEF Lossy
    <2>2. CASE l # w
      BY <1>4, <1>5, <1>6, <2>2
    <2>3. CASE l = w
      <3>1. shut'[l] # {}
        BY <1>3, <1>4, <2>3, Turned
      <3>2. Len(Behind(l, d)') <= Len(Behind(l, d))
        <4>1. Len(Behind(l, d)) \in Nat
          BY StreamsTyped, LenProperties
        <4> QED
          BY <1>5, <4>1
      <3>3. \E y \in Seq(Int) : Stream(l, d) = Cat(Stream(l, d)', y)
        <4>1. CASE d = e
          BY <1>7, <2>3, <4>1 DEF Stream
        <4>2. CASE d # e
          <5>1. Stream(l, d)' = Stream(l, d)
            BY <1>6, <4>2
          <5>2. Stream(l, d) \in Seq(Int) /\ <<>> \in Seq(Int)
            BY StreamsTyped
          <5>3. Stream(l, d) = Cat(Stream(l, d), <<>>)
            BY <5>2, CatEmpty
          <5> QED
            BY <5>1, <5>2, <5>3
        <4> QED
          BY <4>1, <4>2
      <3> QED
        BY <3>1, <3>2, <3>3
    <2> QED
      BY <2>2, <2>3
  <1>9. Relays(t)'
    BY <1>1, <1>8, LossyRelays
  <1>10. SUFFICES ASSUME ~Failed' PROVE LastWords(t)'
    BY <1>1, <1>9, LastWordsFailed, WholeNext
  <1>11. ~Failed
    BY <1>2, <1>10 DEF Failed
  <1>12. PICK x, b : Views(x, b)
    BY ViewsExist
  <1>13. PICK x2, b2 : Views(x2, b2)'
    BY ViewsNext
  <1>14. /\ \A l \in Link, d \in Direction : x[l][d] = Stream(l, d) /\ b[l][d] = Behind(l, d)
         /\ \A l \in Link, d \in Direction : x2[l][d] = Stream(l, d)' /\ b2[l][d] = Behind(l, d)'
    BY <1>2, <1>12, <1>13 DEF Views, Direction
  <1>15. Sizes(shape.hops, x, b, t, sent)
    BY <1>2, <1>12, TakableIs, SizesAre
  <1>16. Relaying(shape.hops, x, b, t, sent, got, shut)
    BY <1>1, <1>2, <1>12, RelaysAre
  <1>17. SUFFICES ASSUME NEW d \in Direction, Reader(d) \notin shut'[FinalOf(shape.hops, d)]
                  PROVE  Assured(shape.hops, x2, b2, t, sent, shut', pc, d)
    BY <1>2, <1>10, <1>13, LastWordsNext
  <1>18. d = e
    <2>1. ASSUME d = o PROVE FALSE
      <3>1. FinalOf(shape.hops, d) = w /\ Reader(d) = Writer(e) /\ Reader(d) \in Side
        BY <1>3, <2>1, Turned
      <3> QED
        BY <1>4, <1>17, <3>1
    <2> QED
      BY <1>3, <2>1 DEF Direction, Opposite
  <1>19. Reader(d) \notin shut[FinalOf(shape.hops, d)]
    BY <1>2, <1>3, <1>4, <1>17, <1>18, Turned DEF FinalOf
  <1>20. Assured(shape.hops, x, b, t, sent, shut, pc, d)
    BY <1>1, <1>2, <1>11, <1>12, <1>19, LastWordsAre
  <1>21. \A i \in 1..shape.hops : pc[i] # "closed"
    BY <1>18, <1>20 DEF Assured, Waves
  <1>22. Waves(shape.hops, shut', pc, d)
    BY <1>21 DEF Waves
  <1>23. CASE Sticks(shape.hops, t, sent, shut, o)
    <2>1. PICK c, c2 : c = shut /\ c2 = shut'
      OBVIOUS
    <2>2. \A l \in 0..shape.hops : Reader(o) \in c[l] => Reader(o) \in c2[l] /\ t[l][o] = t[l][o]
      BY <1>2, <1>3, <1>4, <2>1, Turned
    <2>3. (\A l \in 0..shape.hops : t[l][o] <= t[l][o]) /\ sent[o] <= sent[o]
      BY <1>15 DEF Sizes
    <2>4. Sticks(shape.hops, t, sent, c2, o)
      BY <1>15, <1>23, <2>1, <2>2, <2>3, SticksStay
    <2> QED
      BY <1>3, <1>18, <1>22, <2>1, <2>4 DEF Assured
  <1>24. CASE Keeps(shape.hops, x, b, t, sent, pc, d)
    <2>1. CASE wire'[w][e] # wire[w][e]
      <3>1. wire[w][o] # <<>>
        BY <1>3, <2>1 DEF Loses
      <3>2. Reader(o) \in shut'[w]
        BY <1>3, <1>4, Turned
      <3>3. Stream(w, o) # <<>>
        <4>1. o = "up" \/ w + 1 \notin Hop
          BY <1>2, <1>3 DEF Opposite, Direction, FirstOf
        <4> QED
          BY <3>1, <4>1, HoldsSome DEF Whole
      <3>4. Sticks(shape.hops, t, sent, shut', o)
        <4>1. x[w][o] # <<>>
          BY <1>14, <3>3
        <4> QED
          BY <1>2, <1>15, <1>16, <3>2, <4>1, SticksHere
      <3> QED
        BY <1>3, <1>18, <1>22, <3>4 DEF Assured
    <2>2. CASE wire'[w][e] = wire[w][e]
      <3>1. Stream(w, e)' = Stream(w, e)
        BY <1>2, <2>2, StreamSame
      <3>2. \A l \in 0..shape.hops : x2[l][d] = x[l][d] /\ b2[l][d] = b[l][d]
        BY <1>2, <1>5, <1>6, <1>14, <1>18, <3>1
      <3>3. Keeps(shape.hops, x2, b2, t, sent, pc, d)
        BY <1>24, <3>2 DEF Keeps
      <3> QED
        BY <1>22, <3>3 DEF Assured
    <2> QED
      BY <2>1, <2>2
  <1> QED
    BY <1>3, <1>18, <1>20, <1>23, <1>24 DEF Assured

-----------------------------------------------------------------------------
(* The actions *)

\* What a step does to the invariant.
Kept == Base' /\ (Declined => Declined') /\ (Whole => Declined' \/ Whole')

LEMMA SameFits ==
    ASSUME Base, shape' = shape, wire' = wire, held' = held
    PROVE  WiresFit(wire)' /\ HeldFit(held)'
  BY FitNext DEF Base

LEMMA SameEnds ==
    ASSUME Base, shape' = shape, sent' = sent, got' = got
    PROVE  EndsFit'
  BY DEF Base, EndsFit

LEMMA DeclinedStays ==
    ASSUME shape' = shape, \A i \in Hop : pc[i] = "declined" => pc'[i] = "declined"
    PROVE  Declined => Declined'
  BY DEF Declined, Hop

LEMMA AskedStays ==
    ASSUME Asked, shape' = shape,
           \A l \in Link, d \in Direction :
              \/ Payload(wire'[l][d]) = wire'[l][d]
              \/ d = "down" /\ l + 1 \in Hop /\ pc'[l + 1] = "request"
              \/ wire'[l][d] = wire[l][d] /\ ~(d = "down" /\ l + 1 \in Hop /\ pc[l + 1] = "request")
    PROVE  Asked'
  <1>1. Link' = Link /\ Hop' = Hop
    BY DEF Link, Hop
  <1>2. SUFFICES ASSUME NEW l \in Link, NEW d \in Direction, d = "up" \/ l + 1 \notin Hop \/ pc'[l + 1] # "request"
                 PROVE  Payload(wire'[l][d]) = wire'[l][d]
    BY <1>1, Zenon DEF Asked, Payload, Preamble, Direction
  <1>3. ~(d = "down" /\ l + 1 \in Hop /\ pc'[l + 1] = "request")
    BY <1>2 DEF Direction
  <1>4. CASE wire'[l][d] = wire[l][d] /\ ~(d = "down" /\ l + 1 \in Hop /\ pc[l + 1] = "request")
    <2>1. Payload(wire[l][d]) = wire[l][d]
      BY <1>4 DEF Asked, Direction
    <2> QED
      BY <1>4, <2>1
  <1> QED
    BY <1>3, <1>4

\* Where the streams are as they were.
LEMMA StreamsSame ==
    ASSUME wire' = wire, held' = held
    PROVE  \A l \in Link, d \in Direction : Stream(l, d)' = Stream(l, d)
  BY StreamSame

\* One direction of one link is set.
SetAt(g, f, u, e, v) == g = [f EXCEPT ![u][e] = v]
LEMMA WireIsSet ==
    ASSUME Base, NEW u \in Link, NEW e \in Direction, NEW v, Fitting(v), Len(FlattenSeq(v)) <= shape.window,
           SetAt(wire', wire, u, e, v)
    PROVE  /\ WiresFit(wire')
           /\ wire'[u][e] = v
           /\ \A l \in Link, d \in Direction : l # u \/ d # e => wire'[l][d] = wire[l][d]
  <1>1. wire \in [Link -> [Direction -> Seq(Seq(Int))]] /\ v \in Seq(Seq(Int))
    BY DEF Base, WiresFit, Fitting
  <1>2. /\ wire' \in [Link -> [Direction -> Seq(Seq(Int))]]
        /\ wire'[u][e] = v
        /\ \A l \in Link, d \in Direction : l # u \/ d # e => wire'[l][d] = wire[l][d]
    BY <1>1 DEF SetAt
  <1>3. WiresFit(wire)
    BY DEF Base
  <1>4. WiresFit(wire')
    <2>1. PICK g : g = wire'
      OBVIOUS
    <2>2. WiresFit(g)
      BY <1>2, <1>3, <2>1 DEF WiresFit
    <2> QED
      BY <2>1, <2>2
  <1> QED
    BY <1>2, <1>4

LEMMA HeldIsSet ==
    ASSUME Base, NEW u \in Link, NEW e \in Direction, NEW v \in Seq(Int), v # <<>> => u \in shape.tls /\ Len(v) < RecordSize,
           SetAt(held', held, u, e, v)
    PROVE  /\ HeldFit(held')
           /\ held'[u][e] = v
           /\ \A l \in Link, d \in Direction : l # u \/ d # e => held'[l][d] = held[l][d]
  <1>1. held \in [Link -> [Direction -> Seq(Int)]]
    BY DEF Base, HeldFit
  <1>2. /\ held' \in [Link -> [Direction -> Seq(Int)]]
        /\ held'[u][e] = v
        /\ \A l \in Link, d \in Direction : l # u \/ d # e => held'[l][d] = held[l][d]
    BY <1>1 DEF SetAt
  <1>3. HeldFit(held)
    BY DEF Base
  <1>4. HeldFit(held')
    <2>1. PICK g : g = held'
      OBVIOUS
    <2>2. HeldFit(g)
      BY <1>2, <1>3, <2>1 DEF HeldFit
    <2> QED
      BY <2>1, <2>2
  <1> QED
    BY <1>2, <1>4
LEMMA StartKept ==
    ASSUME Base, processConnection
    PROVE  Kept
  <1>1. /\ shape' = shape /\ wire' = wire /\ held' = held /\ shut' = shut /\ sent' = sent /\ got' = got /\ data' = data
        /\ pc[1] = "idle" /\ pc' = [pc EXCEPT ![1] = "connect"]
    BY DEF processConnection, Goto, ends
  <1>2. Control /\ shape \in Shapes /\ pc \in [Hop -> Place] /\ 1 \in Hop
    BY HopsAre DEF Base, Control
  <1>3. pc'[1] = "connect" /\ \A i \in Hop : i # 1 => pc'[i] = pc[i]
    BY <1>1, <1>2
  <1>4. Base'
    <2>1. Control' /\ Preambles'
      BY <1>2, ControlStarts, PreamblesStart DEF Base
    <2>2. HandsFit'
      BY <1>1, <1>3, HandsSame DEF Base, Direction
    <2> QED
      BY <1>1, <2>1, <2>2, SameFits, SameEnds DEF Base
  <1>5. Declined => Declined'
    BY <1>1, <1>3, DeclinedStays
  <1>6. ASSUME Whole PROVE Whole'
    <2>1. Asked'
      BY <1>1, <1>3, <1>6, AskedStays DEF Whole, Asked, Direction
    <2>2. SameClosed(shape.hops, pc, pc') /\ (Failed => Failed')
      BY <1>1, <1>2, <1>3, HopsAre DEF SameClosed, Failed, Hop
    <2>3. \A i \in Hop, d \in Direction : pc'[i] = d <=> pc[i] = d
      BY <1>1, <1>3 DEF Direction
    <2> QED
      BY <1>1, <1>2, <1>4, <1>6, <2>1, <2>2, <2>3, StreamsSame, BehindSame, QuietKeeps
  <1> QED
    BY <1>4, <1>5, <1>6 DEF Kept

LEMMA ConnectKept ==
    ASSUME Base, NEW h \in Hop, connect(h)
    PROVE  Kept
  <1>1. /\ shape' = shape /\ wire' = wire /\ held' = held /\ shut' = shut /\ sent' = sent /\ got' = got /\ data' = data
        /\ pc[h] = "connect"
    BY DEF connect, ends
  <1>2. Control /\ shape \in Shapes /\ pc \in [Hop -> Place] /\ Hop = 1..shape.hops /\ shape.hops \in Nat \ {0}
    BY HopsAre DEF Base, Control
  <1>3. /\ pc'[h] \in {"preamble", "handle"} /\ \A i \in Hop : i # h /\ i # h + 1 => pc'[i] = pc[i]
        /\ h + 1 \in Hop => pc'[h + 1] = "request" /\ pc[h + 1] = "idle"
    <2>1. h + 1 \in Hop => pc[h + 1] = "idle"
      <3>1. h \notin open
        BY <1>1, <1>2 DEF Control, Connections, Early
      <3>2. ASSUME NEW k \in Hop, k = h + 1 PROVE pc[k] = "idle"
        <4>1. h < k /\ k - 1 = h
          BY <1>2, <3>2
        <4> QED
          BY <1>2, <3>1, <4>1 DEF Control, Connections
      <3> QED
        BY <3>2
    <2> QED
      BY <1>2, <2>1 DEF connect
  <1>4. Base'
    <2>1. Control' /\ Preambles'
      BY <1>2, ControlConnects, PreamblesConnect DEF Base
    <2>2. \A i \in Hop : pc'[i] \in Direction <=> pc[i] \in Direction
      <3>1. ASSUME NEW i \in Hop PROVE pc'[i] \in Direction <=> pc[i] \in Direction
        <4>1. CASE i # h /\ i # h + 1
          BY <1>3, <4>1
        <4>2. CASE i = h \/ i = h + 1
          BY <1>1, <1>3, <4>2 DEF Direction
        <4> QED
          BY <4>1, <4>2
      <3> QED
        BY <3>1
    <2>3. HandsFit'
      BY <1>1, <2>2, HandsSame DEF Base
    <2> QED
      BY <1>1, <2>1, <2>3, SameFits, SameEnds DEF Base
  <1>5. Declined => Declined'
    <2>1. \A i \in Hop : pc[i] = "declined" => pc'[i] = "declined"
      BY <1>1, <1>3
    <2> QED
      BY <1>1, <2>1, DeclinedStays
  <1>6. ASSUME Whole PROVE Whole'
    <2>1. Asked'
      <3>1. ASSUME NEW l \in Link, NEW d \in Direction, ~(d = "down" /\ l + 1 \in Hop /\ pc'[l + 1] = "request")
            PROVE  ~(d = "down" /\ l + 1 \in Hop /\ pc[l + 1] = "request")
        BY <1>1, <1>3, <3>1
      <3> QED
        BY <1>1, <1>6, <3>1, AskedStays DEF Whole
    <2>2. \A i \in Hop : /\ pc'[i] = "closed" <=> pc[i] = "closed"
                         /\ pc[i] \in {"aborted", "declined"} => pc'[i] = pc[i]
                         /\ \A d \in Direction : pc'[i] = d <=> pc[i] = d
      <3>1. ASSUME NEW i \in Hop
            PROVE  /\ pc'[i] = "closed" <=> pc[i] = "closed"
                   /\ pc[i] \in {"aborted", "declined"} => pc'[i] = pc[i]
                   /\ \A d \in Direction : pc'[i] = d <=> pc[i] = d
        <4>1. CASE i # h /\ i # h + 1
          BY <1>3, <4>1
        <4>2. CASE i = h \/ i = h + 1
          BY <1>1, <1>3, <4>2 DEF Direction
        <4> QED
          BY <4>1, <4>2
      <3> QED
        BY <3>1
    <2>3. SameClosed(shape.hops, pc, pc')
      BY <1>2, <2>2 DEF SameClosed
    <2>4. Failed => Failed'
      BY <1>1, <2>2 DEF Failed, Hop
    <2> QED
      BY <1>1, <1>2, <1>4, <1>6, <2>1, <2>2, <2>3, <2>4, StreamsSame, BehindSame, QuietKeeps
  <1> QED
    BY <1>4, <1>5, <1>6 DEF Kept

LEMMA PollKept ==
    ASSUME Base, NEW h \in Hop, poll(h)
    PROVE  Kept
  <1>1. /\ shape' = shape /\ open' = open /\ wire' = wire /\ held' = held /\ shut' = shut /\ sent' = sent /\ got' = got
        /\ data' = data /\ pc[h] = "poll" /\ pc' = [pc EXCEPT ![h] = "handle"]
    BY DEF poll, Goto, ends
  <1>2. Control /\ shape \in Shapes /\ pc \in [Hop -> Place] /\ Hop = 1..shape.hops
    BY HopsAre DEF Base, Control
  <1>3. pc'[h] = "handle" /\ \A i \in Hop : i # h => pc'[i] = pc[i]
    BY <1>1, <1>2
  <1>4. Base'
    <2>1. GoesOn(h)
      BY <1>1 DEF GoesOn, Live
    <2>2. Works(h)
      BY <1>1, <2>1 DEF Works
    <2>3. Control' /\ Preambles'
      BY <1>2, <2>1, <2>2, ControlGoesOn, PreamblesGoOn DEF Base, WireTyped, WiresFit
    <2>4. HandsFit'
      BY <1>1, <1>3, HandsSame DEF Base, Direction
    <2> QED
      BY <1>1, <2>3, <2>4, SameFits, SameEnds DEF Base
  <1>5. Declined => Declined'
    BY <1>1, <1>3, DeclinedStays
  <1>6. ASSUME Whole PROVE Whole'
    <2>1. Asked'
      BY <1>1, <1>3, <1>6, AskedStays DEF Whole, Asked, Direction
    <2>2. SameClosed(shape.hops, pc, pc') /\ (Failed => Failed')
      BY <1>1, <1>2, <1>3 DEF SameClosed, Failed, Hop
    <2>3. \A i \in Hop, d \in Direction : pc'[i] = d <=> pc[i] = d
      BY <1>1, <1>3 DEF Direction
    <2> QED
      BY <1>1, <1>2, <1>4, <1>6, <2>1, <2>2, <2>3, StreamsSame, BehindSame, QuietKeeps
  <1> QED
    BY <1>4, <1>5, <1>6 DEF Kept

\* The preamble comes first.
LEMMA HoldsAsk ==
    ASSUME NEW k \in Seq(Int), NEW w, w = <<<<Preamble>>>>
    PROVE  Holds(k, w) = Holds(k, <<>>)
  <1>1. Payload(<<>>) = <<>> /\ Payload(w) = <<>>
    <2>1. Payload(<<>>) = <<>>
      BY DEF Payload
    <2>2. Payload(w) = Tail(w)
      BY DEF Payload
    <2>3. Tail(w) = <<>>
      OBVIOUS
    <2> QED
      BY <2>1, <2>2, <2>3
  <1> QED
    BY <1>1 DEF Holds

LEMMA AskKept ==
    ASSUME Base, NEW h \in Hop, sendPreamble(h)
    PROVE  Kept
  <1>1. /\ shape' = shape /\ open' = open /\ held' = held /\ shut' = shut /\ sent' = sent /\ got' = got
        /\ data' = data /\ pc[h] = "preamble" /\ pc' = [pc EXCEPT ![h] = "handle"]
        /\ wire' = [wire EXCEPT ![h]["down"] = Append(wire[h]["down"], <<Preamble>>)]
    BY DEF sendPreamble, Goto, ends, Written
  <1>2. Control /\ Preambles /\ shape \in Shapes /\ pc \in [Hop -> Place] /\ Hop = 1..shape.hops /\ h \in Link /\ shape.hops \in Nat \ {0}
    BY HopsAre DEF Base, Control
  <1>3. pc'[h] = "handle" /\ \A i \in Hop : i # h => pc'[i] = pc[i]
    BY <1>1, <1>2
  <1>4. wire[h]["down"] = <<>> /\ pc[h + 1] = "request" /\ h + 1 \in Hop
    BY <1>1, <1>2 DEF Preambles, Control, Connections
  <1>5. PICK r \in Seq(Int) : r = <<Preamble>> /\ Len(r) = 1
    <2>1. <<Preamble>> \in Seq(Int)
      BY DEF Preamble
    <2>2. Len(<<Preamble>>) = 1
      OBVIOUS
    <2> QED
      BY <2>1, <2>2
  <1>6. PICK v : v = Append(wire[h]["down"], r)
    OBVIOUS
  <1>7. v = <<r>>
    BY <1>4, <1>6
  <1>8. Fitting(v) /\ Len(FlattenSeq(v)) <= shape.window
    <2>1. Fitting(wire[h]["down"]) /\ Len(r) \in 1..RecordSize
      BY <1>2, <1>5, TunnelAssumption DEF Base, WiresFit, Direction
    <2>2. Fitting(v)
      BY <1>6, <2>1, FittingAppend
    <2>3. FlattenSeq(v) = r
      BY <1>7, FlattenOne
    <2> QED
      BY <1>2, <1>5, <2>2, <2>3, TunnelAssumption
  <1>9. /\ WiresFit(wire') /\ wire'[h]["down"] = v
        /\ \A l \in Link, d \in Direction : l # h \/ d # "down" => wire'[l][d] = wire[l][d]
    <2>1. SetAt(wire', wire, h, "down", v) /\ "down" \in Direction
      BY <1>1, <1>5, <1>6 DEF Direction, SetAt
    <2> QED
      BY <1>2, <1>8, <2>1, WireIsSet
  <1>10. Base'
    <2>1. GoesOn(h)
      BY <1>1 DEF GoesOn, Live
    <2>2. Works(h)
      <3>1. ASSUME NEW l \in Link, NEW d \in Direction
            PROVE  \/ wire'[l][d] = wire[l][d]
                   \/ l = Downstream(h, d) /\ \E i \in Seq(Int) : wire'[l][d] = Append(wire[l][d], i)
        <4>1. CASE l = h /\ d = "down"
          BY <1>5, <1>6, <1>9, <4>1 DEF Downstream
        <4>2. CASE l # h \/ d # "down"
          BY <1>9, <4>2
        <4> QED
          BY <4>1, <4>2
      <3>2. wire'[h]["down"] = Append(wire[h]["down"], <<Preamble>>)
        BY <1>5, <1>6, <1>9
      <3> QED
        BY <1>1, <2>1, <3>1, <3>2 DEF Works
    <2>3. Control' /\ Preambles'
      BY <1>2, <2>1, <2>2, ControlGoesOn, PreamblesGoOn DEF Base, WireTyped, WiresFit
    <2>4. HandsFit'
      BY <1>1, <1>3, HandsSame DEF Base, Direction
    <2>5. WiresFit(wire)' /\ HeldFit(held)'
      BY <1>1, <1>9, FitNext DEF Base
    <2> QED
      BY <1>1, <2>3, <2>4, <2>5, SameEnds DEF Base
  <1>11. Declined => Declined'
    BY <1>1, <1>3, DeclinedStays
  <1>12. ASSUME Whole PROVE Whole'
    <2>1. Asked'
      <3>1. ASSUME NEW l \in Link, NEW d \in Direction
            PROVE  \/ Payload(wire'[l][d]) = wire'[l][d]
                   \/ d = "down" /\ l + 1 \in Hop /\ pc'[l + 1] = "request"
                   \/ wire'[l][d] = wire[l][d] /\ ~(d = "down" /\ l + 1 \in Hop /\ pc[l + 1] = "request")
        <4>1. CASE l = h /\ d = "down"
          <5>1. l + 1 # h
            BY <1>2, <4>1
          <5> QED
            BY <1>3, <1>4, <4>1, <5>1
        <4>2. CASE l # h \/ d # "down"
          <5>1. wire'[l][d] = wire[l][d]
            BY <1>9, <4>2
          <5>2. d = "down" /\ l + 1 \in Hop /\ pc[l + 1] = "request" => pc'[l + 1] = "request"
            BY <1>1, <1>3
          <5> QED
            BY <5>1, <5>2
        <4> QED
          BY <4>1, <4>2
      <3> QED
        BY <1>1, <1>12, <3>1, AskedStays DEF Whole
    <2>2. SameClosed(shape.hops, pc, pc') /\ (Failed => Failed')
      BY <1>1, <1>2, <1>3 DEF SameClosed, Failed, Hop
    <2>3. \A i \in Hop, d \in Direction : pc'[i] = d <=> pc[i] = d
      BY <1>1, <1>3 DEF Direction
    <2>4. ASSUME NEW l \in Link, NEW d \in Direction PROVE Stream(l, d)' = Stream(l, d)
      <3>1. CASE l # h \/ d # "down"
        BY <1>1, <1>9, <3>1, StreamSame
      <3>2. CASE l = h /\ d = "down"
        <4>1. PICK k \in Seq(Int) : k = held[l][d]
          BY StreamsTyped
        <4>2. Stream(l, d) = Holds(k, <<>>)
          BY <1>4, <3>2, <4>1, StreamHolds
        <4>3. wire'[l][d] = v /\ held'[l][d] = k /\ Link' = Link
          BY <1>1, <1>9, <3>2, <4>1 DEF Link
        <4>4. Stream(l, d)' = Holds(k, v)
          BY <4>3, StreamHolds
        <4>5. v = <<<<Preamble>>>>
          BY <1>5, <1>7
        <4>6. Holds(k, v) = Holds(k, <<>>)
          BY <4>5, HoldsAsk
        <4> QED
          BY <4>2, <4>4, <4>6
      <3> QED
        BY <3>1, <3>2
    <2> QED
      BY <1>1, <1>2, <1>10, <1>12, <2>1, <2>2, <2>3, <2>4, BehindSame, QuietKeeps
  <1> QED
    BY <1>10, <1>11, <1>12 DEF Kept

\* A hop leaves both of its sides.
LEMMA LeftIs ==
    ASSUME NEW h \in Hop, NEW to, Left(h, to, BothSides(h))
    PROVE  /\ Leaves(h, to) /\ Loses(BothSides(h)) /\ data' = [data EXCEPT ![h] = <<>>] /\ sent' = sent /\ got' = got
           /\ Closed(BothSides(h)) /\ shape' = shape /\ open' = open /\ held' = held /\ pc' = [pc EXCEPT ![h] = to]
  <1>1. /\ Closed(BothSides(h)) /\ shape' = shape /\ open' = open /\ held' = held /\ sent' = sent /\ got' = got
        /\ pc' = [pc EXCEPT ![h] = to] /\ data' = [data EXCEPT ![h] = <<>>]
    BY DEF Left, Goto, ends
  <1>2. Loses(BothSides(h))
    BY <1>1, ClosedLoses
  <1>3. Leaves(h, to)
    BY <1>1 DEF Leaves, Closed
  <1> QED
    BY <1>1, <1>2, <1>3

\* What is lost leaves links that fit.
LEMMA ClosedFits ==
    ASSUME Base, NEW sides, Closed(sides), shape' = shape, held' = held
    PROVE  WiresFit(wire)' /\ HeldFit(held)'
  <1>1. Loses(sides)
    BY ClosedLoses
  <1>2. PICK f, g : f = wire /\ g = wire'
    OBVIOUS
  <1>3. WiresFit(f) /\ shape \in Shapes
    BY <1>2 DEF Base, Control
  <1>4. \A l \in Link, d \in Direction : g[l][d] = f[l][d] \/ g[l][d] = <<>>
    BY <1>1, <1>2 DEF Loses
  <1>5. g \in [Link -> [Direction -> Seq(Seq(Int))]]
    <2>1. PICK resets \in SUBSET {x \in sides : \E d \in Direction : Reader(d) = x[2] /\ wire[x[1]][d] # <<>>} :
              wire' = [l \in Link |-> [d \in Direction |-> IF <<l, Writer(d)>> \in resets THEN <<>> ELSE wire[l][d]]]
      BY DEF Closed
    <2>2. \A l \in Link, d \in Direction : wire[l][d] \in Seq(Seq(Int)) /\ <<>> \in Seq(Seq(Int))
      BY <1>2, <1>3 DEF WiresFit
    <2>3. ASSUME NEW l \in Link
          PROVE  [d \in Direction |-> IF <<l, Writer(d)>> \in resets THEN <<>> ELSE wire[l][d]] \in [Direction -> Seq(Seq(Int))]
      BY <2>2
    <2> QED
      BY <1>2, <2>1, <2>3
  <1>6. WiresFit(g)
    BY <1>3, <1>4, <1>5, WiresCut
  <1> QED
    BY <1>2, <1>6, FitNext DEF Base

LEMMA LeaveBase ==
    ASSUME Base, NEW h \in Hop, NEW to \in {"closed", "aborted"}, Left(h, to, BothSides(h)),
           pc[h] \notin Dead \cup {"idle"}, pc[h] = "request" => h - 1 \in Hop /\ pc[h - 1] # "preamble"
    PROVE  Base' /\ (Declined => Declined')
  <1>1. /\ Leaves(h, to) /\ Loses(BothSides(h)) /\ data' = [data EXCEPT ![h] = <<>>] /\ sent' = sent /\ got' = got
        /\ Closed(BothSides(h)) /\ shape' = shape /\ open' = open /\ held' = held /\ pc' = [pc EXCEPT ![h] = to]
    BY LeftIs
  <1>2. Control /\ Preambles /\ shape \in Shapes /\ pc \in [Hop -> Place] /\ Hop = 1..shape.hops /\ shape.hops \in Nat \ {0}
    BY HopsAre DEF Base, Control
  <1>3. h - 1 \in Hop => pc[h - 1] # "preamble"
    <2>1. ASSUME NEW k \in Hop, k = h - 1, pc[k] = "preamble" PROVE pc[h] = "request"
      <3>1. k + 1 = h
        BY <1>2, <2>1
      <3> QED
        BY <1>2, <2>1, <3>1 DEF Control, Connections
    <2> QED
      BY <2>1
  <1>4. Control' /\ Preambles'
    <2>1. Control'
      BY <1>1, <1>2, <1>3, ControlLeaves
    <2>2. pc[h] # "idle"
      OBVIOUS
    <2>3. Preambles'
      BY <1>1, <1>2, <2>2, PreamblesLeave
    <2> QED
      BY <2>1, <2>3
  <1>5. WiresFit(wire)' /\ HeldFit(held)'
    BY <1>1, ClosedFits
  <1>6. HandsFit'
    <2>1. Len(<<>>) <= RecordSize /\ <<>> \in Seq(Int)
      BY TunnelAssumption
    <2>2. to \in Direction <=> <<>> # <<>>
      BY DEF Direction
    <2> QED
      BY <1>1, <1>2, <2>1, <2>2, HandsSet DEF Base
  <1>7. Declined => Declined'
    <2>1. \A i \in Hop : pc[i] = "declined" => pc'[i] = "declined"
      BY <1>1, <1>2 DEF Dead
    <2> QED
      BY <1>1, <2>1, DeclinedStays
  <1> QED
    BY <1>1, <1>4, <1>5, <1>6, <1>7, SameEnds DEF Base

LEMMA LeaveAsked ==
    ASSUME Base, Asked, NEW h \in Hop, NEW to \in {"closed", "aborted"}, Left(h, to, BothSides(h)),
           pc[h] = "request" => wire[h - 1]["down"] = <<>>
    PROVE  Asked'
  <1>1. Loses(BothSides(h)) /\ shape' = shape /\ pc' = [pc EXCEPT ![h] = to]
    BY LeftIs
  <1>2. shape \in Shapes /\ pc \in [Hop -> Place] /\ Hop = 1..shape.hops
    BY HopsAre DEF Base, Control
  <1>3. pc'[h] = to /\ \A i \in Hop : i # h => pc'[i] = pc[i]
    BY <1>1, <1>2
  <1>4. ASSUME NEW l \in Link, NEW d \in Direction
        PROVE  \/ Payload(wire'[l][d]) = wire'[l][d]
               \/ d = "down" /\ l + 1 \in Hop /\ pc'[l + 1] = "request"
               \/ wire'[l][d] = wire[l][d] /\ ~(d = "down" /\ l + 1 \in Hop /\ pc[l + 1] = "request")
    <2>1. Payload(<<>>) = <<>>
      BY DEF Payload
    <2>2. CASE wire'[l][d] = <<>>
      BY <2>1, <2>2
    <2>3. CASE wire'[l][d] # <<>>
      <3>1. wire'[l][d] = wire[l][d]
        BY <1>1, <2>3 DEF Loses
      <3>2. ASSUME d = "down", l + 1 = h, pc[h] = "request" PROVE FALSE
        <4>1. l = h - 1
          BY <1>2, <3>2, HopsAre
        <4> QED
          BY <2>3, <3>1, <3>2, <4>1
      <3> QED
        BY <1>3, <3>1, <3>2
    <2> QED
      BY <2>2, <2>3
  <1> QED
    BY <1>1, <1>4, AskedStays

LEMMA AbortKept ==
    ASSUME Base, NEW h \in Hop, abort(h), pc[h] \notin Dead \cup {"idle", "request"}
    PROVE  Kept
  <1>1. Left(h, "aborted", BothSides(h))
    BY DEF abort
  <1>2. Base' /\ (Declined => Declined')
    BY <1>1, LeaveBase
  <1>3. ASSUME Whole PROVE Whole'
    <2>1. Asked'
      BY <1>1, <1>3, LeaveAsked DEF Whole
    <2>2. Leaves(h, "aborted") /\ Loses(BothSides(h)) /\ data' = [data EXCEPT ![h] = <<>>] /\ sent' = sent /\ got' = got
      BY <1>1, LeftIs
    <2> QED
      BY <1>2, <1>3, <2>1, <2>2, AbortKeeps
  <1> QED
    BY <1>2, <1>3 DEF Kept

\* A second server whose client is gone before it asked.
LEMMA NotAskedKept ==
    ASSUME Base, NEW h \in Hop, handlerNotAsked(h)
    PROVE  Kept
  <1>1. /\ pc[h] = "request" /\ wire[h - 1]["down"] = <<>> /\ Writer("down") \in shut[h - 1]
        /\ Left(h, "closed", BothSides(h))
    BY DEF handlerNotAsked, Ended, close
  <1>2. shape \in Shapes /\ Connections /\ Preambles /\ Hop = 1..shape.hops /\ shape.hops \in Nat \ {0}
    BY HopsAre DEF Base, Control
  <1>3. h - 1 \in Hop /\ pc[h - 1] # "preamble"
    <2>1. h # 1
      BY <1>1, <1>2 DEF Connections
    <2>2. PICK k \in Hop : k = h - 1
      BY <1>2, <2>1
    <2>3. "near" \in shut[k]
      BY <1>1, <2>2 DEF Writer, Reader, Other
    <2>4. pc[k] \in Dead
      BY <1>2, <2>3 DEF Connections
    <2> QED
      BY <2>2, <2>4 DEF Dead
  <1>4. Base' /\ (Declined => Declined')
    BY <1>1, <1>3, LeaveBase DEF Dead
  <1>5. ASSUME Whole PROVE Whole'
    <2>1. Asked'
      BY <1>1, <1>5, LeaveAsked DEF Whole
    <2>2. Leaves(h, "closed") /\ Loses(BothSides(h)) /\ data' = [data EXCEPT ![h] = <<>>] /\ sent' = sent /\ got' = got
      BY <1>1, LeftIs
    <2>3. PICK e \in Direction : e = "down"
      BY DEF Direction
    <2>4. /\ held[Upstream(h, e)][e] = <<>> /\ wire[Upstream(h, e)][e] = <<>> /\ Writer(e) \in shut[Upstream(h, e)]
          /\ pc[h] = "request" /\ e = "down"
      <3>1. held[h - 1]["down"] = <<>>
        BY <1>1, <1>2 DEF Preambles, Early
      <3> QED
        BY <1>1, <2>3, <3>1 DEF Upstream
    <2> QED
      BY <1>4, <1>5, <2>1, <2>2, <2>4, CloseKeeps
  <1> QED
    BY <1>4, <1>5 DEF Kept

LEMMA EndOfStreamKept ==
    ASSUME Base, NEW h \in Hop, NEW d \in Direction, endOfStream(h, d)
    PROVE  Kept
  <1>1. /\ pc[h] = "handle" /\ Left(h, "closed", BothSides(h))
        /\ held[Upstream(h, d)][d] = <<>> /\ wire[Upstream(h, d)][d] = <<>> /\ Writer(d) \in shut[Upstream(h, d)]
    BY DEF endOfStream, AtHandle, Ended, close
  <1>2. Base' /\ (Declined => Declined')
    BY <1>1, LeaveBase DEF Dead
  <1>3. ASSUME Whole PROVE Whole'
    <2>1. Asked'
      BY <1>1, <1>3, LeaveAsked DEF Whole
    <2>2. Leaves(h, "closed") /\ Loses(BothSides(h)) /\ data' = [data EXCEPT ![h] = <<>>] /\ sent' = sent /\ got' = got
      BY <1>1, LeftIs
    <2> QED
      BY <1>1, <1>2, <1>3, <2>1, <2>2, CloseKeeps
  <1> QED
    BY <1>2, <1>3 DEF Kept

-----------------------------------------------------------------------------
(* The handler of the second server *)

LEMMA HandlerWires ==
    ASSUME Base, NEW h \in Hop, handler(h)
    PROVE  /\ WiresFit(wire')
           /\ wire[h - 1]["down"] # <<>> /\ wire'[h - 1]["down"] = Tail(wire[h - 1]["down"])
           /\ \A l \in Link, d \in Direction : l # h - 1 \/ d # "down" => wire'[l][d] = wire[l][d] \/ (l = h - 1 /\ ~shape.https)
  <1>1. /\ pc[h] = "request" /\ wire[h - 1]["down"] # <<>>
        /\ wire' = [wire EXCEPT ![h - 1]["down"] = Tail(@), ![h - 1]["up"] = IF shape.https THEN @ ELSE Append(@, <<ErrorPage>>)]
    BY DEF handler
  <1>2. shape \in Shapes /\ Preambles /\ shape.window \in Nat \ {0} /\ WiresFit(wire)
    BY HopsAre DEF Base, Control
  <1>3. PICK u \in Link : u = h - 1
    BY <1>2, HopsAre
  <1>4. PICK w, v : w = Tail(wire[u]["down"]) /\ v = (IF shape.https THEN wire[u]["up"] ELSE Append(wire[u]["up"], <<ErrorPage>>))
    OBVIOUS
  <1>5. Fitting(w) /\ Len(FlattenSeq(w)) <= shape.window
    <2>1. PICK r : r = wire[u]["down"]
      OBVIOUS
    <2>2. Fitting(r) /\ r # <<>> /\ Len(FlattenSeq(r)) <= shape.window
      BY <1>1, <1>2, <1>3, <2>1 DEF WiresFit, Direction
    <2>3. Fitting(w) /\ Len(Head(r)) \in 1..RecordSize
      BY <1>4, <2>1, <2>2, FittingTail
    <2>4. Len(FlattenSeq(r)) = Len(Head(r)) + Len(FlattenSeq(w)) /\ FlattenSeq(w) \in Seq(Int) /\ FlattenSeq(r) \in Seq(Int)
      BY <1>4, <2>1, <2>2, FlattenFirst DEF Fitting
    <2>5. PICK i \in Nat, j \in Nat, m \in Nat, n \in Nat : i = Len(FlattenSeq(r)) /\ j = Len(FlattenSeq(w)) /\ m = Len(Head(r)) /\ n = shape.window
      BY <1>2, <2>3, <2>4, LenProperties, TunnelAssumption
    <2> QED
      BY <2>2, <2>3, <2>4, <2>5
  <1>6. Fitting(v) /\ Len(FlattenSeq(v)) <= shape.window
    <2>1. Fitting(wire[u]["up"]) /\ Len(FlattenSeq(wire[u]["up"])) <= shape.window
      BY <1>2 DEF WiresFit, Direction
    <2>2. CASE shape.https
      BY <1>4, <2>1, <2>2
    <2>3. CASE ~shape.https
      <3>1. wire[u]["up"] = <<>>
        BY <1>1, <1>2, <1>3 DEF Preambles, Early
      <3>2. PICK r \in Seq(Int) : r = <<ErrorPage>> /\ Len(r) = 1
        <4>1. <<ErrorPage>> \in Seq(Int)
          BY DEF ErrorPage
        <4>2. Len(<<ErrorPage>>) = 1
          OBVIOUS
        <4> QED
          BY <4>1, <4>2
      <3>3. PICK q : q = wire[u]["up"]
        OBVIOUS
      <3>4. v = Append(q, r) /\ Fitting(q) /\ Len(r) \in 1..RecordSize
        BY <1>4, <2>1, <2>3, <3>2, <3>3, TunnelAssumption
      <3>5. Fitting(v)
        BY <3>4, FittingAppend
      <3>6. v = <<r>>
        BY <3>1, <3>3, <3>4
      <3>7. FlattenSeq(v) = r
        BY <3>6, FlattenOne
      <3> QED
        BY <1>2, <3>2, <3>5, <3>7
    <2> QED
      BY <2>2, <2>3
  <1>7. wire \in [Link -> [Direction -> Seq(Seq(Int))]] /\ w \in Seq(Seq(Int)) /\ v \in Seq(Seq(Int))
    BY <1>2, <1>5, <1>6 DEF WiresFit, Fitting
  <1>8. wire' = [wire EXCEPT ![u] = [down |-> w, up |-> v]]
    <2>1. wire[u] \in [Direction -> Seq(Seq(Int))]
      BY <1>7
    <2>2. [wire[u] EXCEPT !["down"] = w, !["up"] = v] = [down |-> w, up |-> v]
      BY <2>1 DEF Direction
    <2>3. wire' = [wire EXCEPT ![u] = [wire[u] EXCEPT !["down"] = w, !["up"] = v]]
      BY <1>1, <1>3, <1>4, <1>7 DEF Direction
    <2> QED
      BY <2>2, <2>3
  <1>9. /\ wire' \in [Link -> [Direction -> Seq(Seq(Int))]]
        /\ wire'[u]["down"] = w /\ wire'[u]["up"] = v
        /\ \A l \in Link : l # u => wire'[l] = wire[l]
    <2>1. [down |-> w, up |-> v] \in [Direction -> Seq(Seq(Int))]
      BY <1>7 DEF Direction
    <2> QED
      BY <1>7, <1>8, <2>1
  <1>10. WiresFit(wire')
    <2>1. ASSUME NEW l \in Link, NEW d \in Direction PROVE Fitting(wire'[l][d]) /\ Len(FlattenSeq(wire'[l][d])) <= shape.window
      <3>1. CASE l = u
        BY <1>5, <1>6, <1>9, <3>1 DEF Direction
      <3>2. CASE l # u
        BY <1>2, <1>9, <3>2 DEF WiresFit
      <3> QED
        BY <3>1, <3>2
    <2> QED
      BY <1>9, <2>1 DEF WiresFit
  <1> QED
    BY <1>1, <1>3, <1>4, <1>9, <1>10 DEF Direction

LEMMA HandlerKept ==
    ASSUME Base, NEW h \in Hop, handler(h)
    PROVE  Kept
  <1>1. /\ pc[h] = "request" /\ wire[h - 1]["down"] # <<>> /\ wire'[h - 1]["down"] = Tail(wire[h - 1]["down"])
        /\ shape' = shape /\ open' = open /\ held' = held /\ sent' = sent /\ got' = got /\ data' = data
        /\ pc' = [pc EXCEPT ![h] = IF shape.https THEN "connect" ELSE "declined"]
        /\ \A l \in Link, d \in Direction : l # h - 1 \/ d # "down" => wire'[l][d] = wire[l][d] \/ (l = h - 1 /\ ~shape.https)
        /\ WiresFit(wire')
    BY HandlerWires DEF handler, Goto, ends
  <1>2. Control /\ Preambles /\ shape \in Shapes /\ pc \in [Hop -> Place] /\ Hop = 1..shape.hops /\ shape.hops \in Nat \ {0}
    BY HopsAre DEF Base, Control
  <1>3. PICK to : to = (IF shape.https THEN "connect" ELSE "declined")
    OBVIOUS
  <1>4. pc' = [pc EXCEPT ![h] = to] /\ pc'[h] = to /\ to \in {"connect", "declined"} /\ \A i \in Hop : i # h => pc'[i] = pc[i]
    BY <1>1, <1>2, <1>3
  <1>5. h # 1 /\ h - 1 \in Hop /\ h - 1 \in Link /\ pc[h - 1] # "preamble"
    <2>1. h # 1
      BY <1>1, <1>2 DEF Control, Connections
    <2>2. PICK k \in Hop : k = h - 1
      BY <1>2, <2>1
    <2>3. pc[k] # "preamble"
      BY <1>1, <1>2, <2>2 DEF Preambles
    <2> QED
      BY <1>2, <2>1, <2>2, <2>3, HopsAre
  <1>6. Base'
    <2>1. Control'
      BY <1>2, <1>5, ControlHandles
    <2>2. Preambles'
      <3>1. \A l \in Link, d \in Direction : wire'[l][d] = wire[l][d] \/ (l = h - 1 /\ (d = "down" \/ to = "declined"))
        BY <1>1, <1>3
      <3> QED
        BY <1>1, <1>2, <1>4, <1>5, <3>1, PreamblesHandled
    <2>3. HandsFit'
      <3>1. \A i \in Hop : pc'[i] \in Direction <=> pc[i] \in Direction
        <4>1. ASSUME NEW i \in Hop PROVE pc'[i] \in Direction <=> pc[i] \in Direction
          <5>1. CASE i = h
            BY <1>1, <1>4, <5>1 DEF Direction
          <5>2. CASE i # h
            BY <1>4, <5>2
          <5> QED
            BY <5>1, <5>2
        <4> QED
          BY <4>1
      <3> QED
        BY <1>1, <3>1, HandsSame DEF Base
    <2>4. WiresFit(wire)' /\ HeldFit(held)'
      BY <1>1, FitNext DEF Base
    <2> QED
      BY <1>1, <2>1, <2>2, <2>3, <2>4, SameEnds DEF Base
  <1>7. Declined => Declined'
    BY <1>1, <1>4, DeclinedStays
  <1>8. CASE ~shape.https
    <2>1. pc'[h] = "declined" /\ h \in Hop'
      BY <1>1, <1>3, <1>4, <1>8 DEF Hop
    <2>2. Declined'
      BY <2>1 DEF Declined
    <2> QED
      BY <1>6, <2>2 DEF Kept
  <1>9. CASE shape.https
    <2> SUFFICES ASSUME Whole PROVE Whole'
      BY <1>6, <1>7 DEF Kept
    <2>1. to = "connect" /\ shut' = shut /\ \A l \in Link, d \in Direction : l # h - 1 \/ d # "down" => wire'[l][d] = wire[l][d]
      BY <1>1, <1>3, <1>9 DEF handler
    <2>2. PICK u \in Link, e \in Direction : u = h - 1 /\ e = "down"
      BY <1>5 DEF Direction
    <2>22. PICK w : w = wire[u][e]
      OBVIOUS
    <2>3. Fitting(w) /\ w # <<>> /\ Head(w) = <<Preamble>> /\ held[u][e] = <<>> /\ wire'[u][e] = Tail(w)
      <3>1. Fitting(w)
        BY <2>2, <2>22 DEF Base, WiresFit
      <3>2. Head(w) = <<Preamble>> /\ held[u][e] = <<>>
        BY <1>1, <1>2, <2>2, <2>22 DEF Preambles, Early
      <3> QED
        BY <1>1, <2>2, <2>22, <3>1, <3>2
    <2>4. PICK t \in Takable : Relays(t)
      BY DEF Whole
    <2>5. Holds(<<>>, w) = Stream(u, e)
      BY <2>2, <2>22, <2>3, StreamHolds
    <2>6. PICK a \in Nat : Holds(<<>>, w) = Bytes(a, a + Len(Holds(<<>>, w)))
      <3>1. t[u][e] \in Nat
        BY <1>2, <2>4, TakableIs DEF Counts
      <3>2. Stream(u, e) = Bytes(t[u][e], Put(t, u, e))
        BY <2>4 DEF Relays, Cut
      <3>3. Put(t, u, e) = t[u][e] + Len(Holds(<<>>, w))
        BY <2>5 DEF Put
      <3> QED
        BY <2>5, <3>1, <3>2, <3>3
    <2>7. Payload(Tail(w)) = Tail(w) /\ Holds(<<>>, Tail(w)) = Holds(<<>>, w)
      BY <2>3, <2>6, HoldsAsked
    <2>8. Asked'
      <3>1. ASSUME NEW l \in Link, NEW d \in Direction
            PROVE  \/ Payload(wire'[l][d]) = wire'[l][d]
                   \/ d = "down" /\ l + 1 \in Hop /\ pc'[l + 1] = "request"
                   \/ wire'[l][d] = wire[l][d] /\ ~(d = "down" /\ l + 1 \in Hop /\ pc[l + 1] = "request")
        <4>1. CASE l = u /\ d = e
          BY <2>3, <2>7, <4>1
        <4>2. CASE l # u \/ d # e
          <5>1. wire'[l][d] = wire[l][d]
            BY <2>1, <2>2, <2>22, <4>2
          <5>2. d = "down" => l + 1 # h
            BY <1>2, <2>2, <2>22, <4>2, HopsAre
          <5>3. d = "down" /\ l + 1 \in Hop /\ pc[l + 1] = "request" => pc'[l + 1] = "request"
            BY <1>4, <5>2
          <5> QED
            BY <5>1, <5>3
        <4> QED
          BY <4>1, <4>2
      <3> QED
        BY <1>1, <3>1, AskedStays DEF Whole
    <2>9. \A l \in Link, d \in Direction : Stream(l, d)' = Stream(l, d)
      <3>1. ASSUME NEW l \in Link, NEW d \in Direction PROVE Stream(l, d)' = Stream(l, d)
        <4>1. CASE l # u \/ d # e
          BY <1>1, <2>1, <2>2, <2>22, <4>1, StreamSame
        <4>2. CASE l = u /\ d = e
          <5>1. l \in Link' /\ wire'[l][d] = Tail(w) /\ held'[l][d] = <<>>
            BY <1>1, <2>3, <4>2 DEF Link
          <5>2. Stream(l, d)' = Holds(<<>>, Tail(w))
            BY <5>1, StreamHolds
          <5>3. Stream(l, d) = Holds(<<>>, w)
            BY <2>5, <4>2
          <5> QED
            BY <2>7, <5>2, <5>3
        <4> QED
          BY <4>1, <4>2
      <3> QED
        BY <3>1
    <2>10. \A i \in Hop : /\ pc'[i] = "closed" <=> pc[i] = "closed"
                          /\ pc[i] \in {"aborted", "declined"} => pc'[i] = pc[i]
                          /\ \A d \in Direction : pc'[i] = d <=> pc[i] = d
      <3>1. ASSUME NEW i \in Hop
            PROVE  /\ pc'[i] = "closed" <=> pc[i] = "closed"
                   /\ pc[i] \in {"aborted", "declined"} => pc'[i] = pc[i]
                   /\ \A d \in Direction : pc'[i] = d <=> pc[i] = d
        <4>1. CASE i # h
          BY <1>4, <4>1
        <4>2. CASE i = h
          BY <1>1, <1>4, <2>1, <4>2 DEF Direction
        <4> QED
          BY <4>1, <4>2
      <3> QED
        BY <3>1
    <2>11. SameClosed(shape.hops, pc, pc') /\ (Failed => Failed')
      BY <1>1, <1>2, <2>10 DEF SameClosed, Failed, Hop
    <2> QED
      BY <1>1, <1>2, <1>6, <2>1, <2>8, <2>9, <2>10, <2>11, BehindSame, QuietKeeps
  <1> QED
    BY <1>8, <1>9

-----------------------------------------------------------------------------
(* The relay *)

LEMMA RecvKept ==
    ASSUME Base, NEW h \in Hop, NEW d \in Direction, recv(h, d)
    PROVE  Kept
  <1>1. /\ pc[h] = "handle" /\ read(h, d) /\ pc' = [pc EXCEPT ![h] = d]
        /\ shape' = shape /\ open' = open /\ shut' = shut /\ sent' = sent /\ got' = got
    BY DEF recv, AtHandle, Goto, ends
  <1>2. Control /\ Preambles /\ shape \in Shapes /\ pc \in [Hop -> Place] /\ WiresFit(wire) /\ HeldFit(held)
        /\ Hop = 1..shape.hops /\ shape.hops \in Nat \ {0} /\ shape.window \in Nat
    BY HopsAre DEF Base, Control
  <1>3. PICK u \in Link : u = Upstream(h, d)
    BY <1>2, LinksOf
  <1>33. PICK k, w : k = held[u][d] /\ w = wire[u][d]
    OBVIOUS
  <1>4. ReadsFrom(h, d, u, k, w)
    BY <1>1, <1>2, <1>3, <1>33, ReadTakes
  <1>5. PICK y \in Seq(Int), j \in Seq(Int), v \in Seq(Seq(Int)) :
            /\ Takes(k, w, y, j, v, u)
            /\ data' = [data EXCEPT ![h] = y]
            /\ held' = [held EXCEPT ![u][d] = j]
            /\ wire' = [wire EXCEPT ![u][d] = v]
    BY <1>4 DEF ReadsFrom
  <1>6. Fitting(w) /\ Len(FlattenSeq(w)) <= shape.window /\ k \in Seq(Int)
    BY <1>2, <1>3, <1>33 DEF WiresFit, HeldFit
  <1>7. /\ WiresFit(wire') /\ wire'[u][d] = v
        /\ \A l \in Link, i \in Direction : l # u \/ i # d => wire'[l][i] = wire[l][i]
    <2>1. Fitting(v)
      BY <1>5 DEF Takes
    <2>2. Len(FlattenSeq(v)) <= shape.window
      <3>1. Len(FlattenSeq(v)) <= Len(FlattenSeq(w))
        BY <1>5 DEF Takes
      <3>2. Len(FlattenSeq(v)) \in Nat /\ Len(FlattenSeq(w)) \in Nat
        BY <1>6, <2>1, FlattenType, LenProperties DEF Fitting
      <3>3. PICK m \in Nat, n \in Nat : m = Len(FlattenSeq(v)) /\ n = Len(FlattenSeq(w))
        BY <3>2
      <3> QED
        BY <1>2, <1>6, <3>1, <3>3
    <2>3. SetAt(wire', wire, u, d, v)
      BY <1>5 DEF SetAt
    <2> QED
      BY <2>1, <2>2, <2>3, WireIsSet
  <1>8. /\ HeldFit(held') /\ held'[u][d] = j
        /\ \A l \in Link, i \in Direction : l # u \/ i # d => held'[l][i] = held[l][i]
    <2>1. SetAt(held', held, u, d, j)
      BY <1>5 DEF SetAt
    <2>2. j # <<>> => u \in shape.tls /\ Len(j) < RecordSize
      BY <1>5 DEF Takes
    <2> QED
      BY <2>1, <2>2, HeldIsSet
  <1>9. y # <<>> /\ Len(y) <= RecordSize
    BY <1>5 DEF Takes
  <1>10. pc'[h] = d /\ \A i \in Hop : i # h => pc'[i] = pc[i]
    BY <1>1, <1>2
  <1>11. Base'
    <2>1. GoesOn(h)
      BY <1>1 DEF GoesOn, Live, Direction
    <2>2. Works(h)
      <3>1. ASSUME NEW l \in Link, NEW i \in Direction
            PROVE  wire'[l][i] = wire[l][i] \/ (l = Upstream(h, i) /\ wire[l][i] # <<>>)
        <4>1. CASE l = u /\ i = d
          <5>1. v = w \/ w # <<>>
            BY <1>5 DEF Takes
          <5> QED
            BY <1>3, <1>33, <1>7, <4>1, <5>1
        <4>2. CASE l # u \/ i # d
          BY <1>7, <4>2
        <4> QED
          BY <4>1, <4>2
      <3>2. \A l \in Link, i \in Direction : held'[l][i] = held[l][i] \/ l = Upstream(h, i)
        BY <1>3, <1>33, <1>8
      <3> QED
        BY <1>1, <2>1, <3>1, <3>2 DEF Works
    <2>3. Control' /\ Preambles'
      BY <1>2, <2>1, <2>2, ControlGoesOn, PreamblesGoOn DEF Base, WireTyped, WiresFit
    <2>4. HandsFit'
      BY <1>1, <1>2, <1>5, <1>9, HandsSet DEF Base
    <2>5. WiresFit(wire)' /\ HeldFit(held)'
      BY <1>1, <1>7, <1>8, FitNext
    <2> QED
      BY <1>1, <2>3, <2>4, <2>5, SameEnds DEF Base
  <1>12. Declined => Declined'
    <2>1. \A i \in Hop : pc[i] = "declined" => pc'[i] = "declined"
      BY <1>1, <1>10
    <2> QED
      BY <1>1, <2>1, DeclinedStays
  <1>13. ASSUME Whole PROVE Whole'
    <2>1. PICK t \in Takable : Relays(t)
      BY <1>13 DEF Whole
    <2>2. Holds(k, w) = Stream(u, d)
      BY <1>3, <1>33, StreamHolds
    <2>3. PICK a \in Nat : Holds(k, w) = Bytes(a, a + Len(Holds(k, w)))
      <3>1. t[u][d] \in Nat
        BY <1>2, <2>1, TakableIs DEF Counts
      <3>2. Stream(u, d) = Bytes(t[u][d], Put(t, u, d))
        BY <2>1 DEF Relays, Cut
      <3>3. Put(t, u, d) = t[u][d] + Len(Holds(k, w))
        BY <2>2 DEF Put
      <3> QED
        BY <2>2, <3>1, <3>2, <3>3
    <2>4. Payload(w) = w
      <3>1. d = "up" \/ u + 1 \notin Hop \/ pc[u + 1] # "request"
        <4>1. d = "down" => u + 1 = h
          BY <1>2, <1>3, <1>33, HopsAre DEF Upstream
        <4> QED
          BY <1>1, <4>1 DEF Direction
      <3> QED
        BY <1>3, <1>33, <1>13, <3>1 DEF Whole, Asked
    <2>5. Payload(v) = v /\ Holds(k, w) = Cat(y, Holds(j, v))
      <3>1. Fitting(v) /\ Cat(k, FlattenSeq(w)) = Cat(y, Cat(j, FlattenSeq(v)))
        BY <1>5 DEF Takes
      <3> QED
        BY <1>6, <2>3, <2>4, <3>1, HoldsRead
    <2>6. Asked'
      <3>1. ASSUME NEW l \in Link, NEW i \in Direction
            PROVE  \/ Payload(wire'[l][i]) = wire'[l][i]
                   \/ i = "down" /\ l + 1 \in Hop /\ pc'[l + 1] = "request"
                   \/ wire'[l][i] = wire[l][i] /\ ~(i = "down" /\ l + 1 \in Hop /\ pc[l + 1] = "request")
        <4>1. CASE l = u /\ i = d
          BY <1>7, <2>5, <4>1
        <4>2. CASE l # u \/ i # d
          <5>1. wire'[l][i] = wire[l][i]
            BY <1>7, <4>2
          <5>2. i = "down" /\ l + 1 \in Hop /\ pc[l + 1] = "request" => pc'[l + 1] = "request"
            BY <1>1, <1>10
          <5> QED
            BY <5>1, <5>2
        <4> QED
          BY <4>1, <4>2
      <3> QED
        BY <1>1, <1>13, <3>1, AskedStays DEF Whole
    <2>7. Stream(Upstream(h, d), d) = Cat(y, Stream(Upstream(h, d), d)')
      <3>1. u \in Link' /\ wire'[u][d] = v /\ held'[u][d] = j
        BY <1>1, <1>7, <1>8 DEF Link
      <3>2. Stream(u, d)' = Holds(j, v)
        BY <3>1, StreamHolds
      <3>3. Stream(u, d) = Cat(y, Stream(u, d)')
        BY <2>2, <2>5, <3>2
      <3> QED
        BY <1>3, <1>33, <3>3 DEF Stream, Upstream
    <2>8. \A l \in Link, i \in Direction : l # Upstream(h, d) \/ i # d => Stream(l, i)' = Stream(l, i)
      BY <1>3, <1>33, <1>7, <1>8, StreamSame
    <2> QED
      BY <1>1, <1>5, <1>11, <1>13, <2>6, <2>7, <2>8, ReadKeeps
  <1> QED
    BY <1>11, <1>12, <1>13 DEF Kept

\* What a hop has in hand is no preamble.
LEMMA HandIsPositive ==
    ASSUME Base, Whole, NEW h \in Hop, NEW e \in Direction, pc[h] = e, NEW w \in Link, Same(w, Downstream(h, e)), shut[w] = {},
           NEW y \in Seq(Int), NEW k \in Seq(Int), data[h] = Cat(y, k)
    PROVE  y # <<Preamble>>
  <1>1. PICK t \in Takable : Relays(t)
    BY DEF Whole
  <1>2. PICK x, b : Views(x, b)
    BY ViewsExist
  <1>3. shape \in Shapes /\ Link = 0..shape.hops
    BY HopsAre DEF Base, Control
  <1>4. Sizes(shape.hops, x, b, t, sent) /\ Relaying(shape.hops, x, b, t, sent, got, shut)
    BY <1>1, <1>2, <1>3, TakableIs, SizesAre, RelaysAre
  <1>5. b[w][e] = Cat(y, k)
    <2>1. Behind(w, e) = data[h]
      BY <1>3, HopOf, EndsAre DEF Same, Behind, InHand
    <2> QED
      BY <1>2, <2>1 DEF Views
  <1>6. PICK n \in Nat : n = Offered(shape.hops, t, sent, w, e)
    BY <1>3, <1>4, OfferedType
  <1>7. PICK a \in Nat, z \in Seq(Int), g \in Seq(Int) : a = t[w][e] /\ z = x[w][e] /\ g = b[w][e]
    BY <1>3, <1>4 DEF Sizes
  <1>8. Cuts(z, g, a, n, shut[w])
    BY <1>3, <1>4, <1>6, <1>7 DEF Relaying, Cutting
  <1>9. Cat(z, g) = Bytes(a, n) /\ a <= n
    <2>1. a + Len(z) + Len(g) <= n /\ Cat(z, g) = Bytes(a, n)
      BY <1>8 DEF Cuts
    <2>2. PICK i \in Nat, j \in Nat : i = Len(z) /\ j = Len(g)
      BY LenProperties
    <2>3. a <= n
      BY <2>1, <2>2
    <2> QED
      BY <2>1, <2>3
  <1>10. PICK m \in Nat : m <= n /\ g = Bytes(m, n)
    <2>1. g = Bytes(a + Len(z), n) /\ Len(z) \in Nat /\ Len(g) \in Nat /\ a + Len(z) + Len(g) = n
      BY <1>9, BytesSplit
    <2>2. a + Len(z) \in Nat /\ a + Len(z) <= n
      BY <2>1
    <2> QED
      BY <2>1, <2>2
  <1>11. y = Bytes(m, m + Len(y)) /\ Len(y) \in Nat
    <2>1. Cat(y, k) = Bytes(m, n)
      BY <1>5, <1>7, <1>10
    <2> QED
      BY <1>10, <2>1, BytesSplit
  <1>12. ASSUME y = <<Preamble>> PROVE FALSE
    <2>1. Len(y) = 1 /\ y[1] = Preamble
      BY <1>12
    <2>2. y = Bytes(m, m + 1)
      BY <1>11, <2>1
    <2>3. Bytes(m, m + 1)[1] = m + 1
      BY BytesType
    <2>4. m + 1 = 0
      BY <2>1, <2>2, <2>3 DEF Preamble
    <2> QED
      BY <2>4
  <1> QED
    BY <1>12

\* Where a hop is that sent, and kept k.
After(to, e, k) == (to \in {"handle", "poll"} /\ k = <<>>) \/ (to = e /\ k # <<>>)

\* A hop sends y, and keeps k.
LEMMA SendKept ==
    ASSUME Base, NEW h \in Hop, NEW e \in Direction, pc[h] = e, Reader(e) \notin shut[Downstream(h, e)],
           NEW y \in Seq(Int), NEW k \in Seq(Int), data[h] = Cat(y, k), y # <<>>, Len(y) + Len(Held(Downstream(h, e), e)) <= shape.window,
           SetAt(wire', wire, Downstream(h, e), e, Append(wire[Downstream(h, e)][e], y)),
           shape' = shape, open' = open, held' = held, shut' = shut, sent' = sent, got' = got,
           NEW to, pc' = [pc EXCEPT ![h] = to], data' = [data EXCEPT ![h] = k],
           After(to, e, k)
    PROVE  Kept
  <1>1. Control /\ Preambles /\ shape \in Shapes /\ pc \in [Hop -> Place] /\ data \in [Hop -> Seq(Int)] /\ WiresFit(wire)
        /\ Hop = 1..shape.hops /\ shape.hops \in Nat \ {0} /\ shape.window \in Nat
    BY HopsAre DEF Base, Control, HandsFit
  <1>2. PICK u \in Link : u = Downstream(h, e)
    BY <1>1, LinksOf
  <1>22. PICK w : w = wire[u][e]
    OBVIOUS
  <1>3. Fitting(w) /\ Len(FlattenSeq(w)) <= shape.window
    BY <1>1, <1>2, <1>22 DEF WiresFit
  <1>4. Len(y) \in 1..RecordSize /\ Len(k) <= RecordSize
    <2>1. Len(data[h]) <= RecordSize
      BY DEF Base, HandsFit
    <2>2. Len(data[h]) = Len(y) + Len(k) /\ Len(y) \in Nat /\ Len(k) \in Nat
      BY CatSlots
    <2>3. Len(y) > 0
      BY HasBytes
    <2>4. PICK i \in Nat, j \in Nat : i = Len(y) /\ j = Len(k)
      BY <2>2
    <2> QED
      BY <2>1, <2>2, <2>3, <2>4, TunnelAssumption
  <1>5. PICK v : v = Append(w, y)
    OBVIOUS
  <1>6. /\ WiresFit(wire') /\ wire'[u][e] = v
        /\ \A l \in Link, i \in Direction : l # u \/ i # e => wire'[l][i] = wire[l][i]
    <2>1. Fitting(v) /\ Len(FlattenSeq(v)) = Len(FlattenSeq(w)) + Len(y)
      BY <1>3, <1>4, <1>5, FittingAppend
    <2>2. Len(FlattenSeq(v)) <= shape.window
      <3>1. Len(y) + Len(FlattenSeq(w)) <= shape.window
        BY <1>2, <1>22 DEF Held
      <3>2. PICK i \in Nat, j \in Nat : i = Len(y) /\ j = Len(FlattenSeq(w))
        BY <1>3, FlattenType, LenProperties DEF Fitting
      <3>3. Len(FlattenSeq(v)) = j + i /\ i + j <= shape.window
        BY <2>1, <3>1, <3>2
      <3> QED
        BY <1>1, <3>2, <3>3
    <2>3. SetAt(wire', wire, u, e, v)
      BY <1>2, <1>22, <1>5
    <2> QED
      BY <2>1, <2>2, <2>3, WireIsSet
  <1>7. /\ pc'[h] = to /\ data'[h] = k
        /\ \A i \in Hop : i # h => pc'[i] = pc[i] /\ data'[i] = data[i]
    BY <1>1
  <1>8. Base'
    <2>1. GoesOn(h)
      BY DEF GoesOn, Live, Direction, After
    <2>2. Works(h)
      <3>1. ASSUME NEW l \in Link, NEW i \in Direction
            PROVE  wire'[l][i] = wire[l][i] \/ (l = Downstream(h, i) /\ \E r \in Seq(Int) : wire'[l][i] = Append(wire[l][i], r))
        <4>1. CASE l = u /\ i = e
          BY <1>2, <1>22, <1>5, <1>6, <4>1
        <4>2. CASE l # u \/ i # e
          BY <1>6, <4>2
        <4> QED
          BY <4>1, <4>2
      <3>2. pc[h] # "preamble"
        BY DEF Direction
      <3> QED
        BY <2>1, <3>1, <3>2 DEF Works
    <2>3. Control' /\ Preambles'
      BY <1>1, <2>1, <2>2, ControlGoesOn, PreamblesGoOn DEF Base, WireTyped, WiresFit
    <2>4. HandsFit'
      <3>1. to \in Direction <=> k # <<>>
        BY DEF Direction, After
      <3> QED
        BY <1>1, <1>4, <3>1, HandsSet DEF Base
    <2>5. WiresFit(wire)' /\ HeldFit(held)'
      BY <1>6, FitNext DEF Base
    <2> QED
      BY <2>3, <2>4, <2>5, SameEnds DEF Base
  <1>9. Declined => Declined'
    <2>1. \A i \in Hop : pc[i] = "declined" => pc'[i] = "declined"
      BY <1>7 DEF Direction
    <2> QED
      BY <2>1, DeclinedStays
  <1>10. ASSUME Whole PROVE Whole'
    <2>1. shut[u] = {}
      <3>1. Writer(e) \notin shut[u]
        BY <1>1, <1>2, <1>22, AliveSides DEF Dead, Direction
      <3>2. Reader(e) \notin shut[u] /\ shut[u] \subseteq Side
        BY <1>1, <1>2, <1>22 DEF Control
      <3> QED
        BY <3>1, <3>2 DEF Side, Writer, Other, Reader, Direction
    <2>2. y # <<Preamble>>
      BY <1>2, <1>22, <1>10, <2>1, HandIsPositive DEF Same
    <2>3. Asked'
      <3>1. ASSUME NEW l \in Link, NEW i \in Direction
            PROVE  \/ Payload(wire'[l][i]) = wire'[l][i]
                   \/ i = "down" /\ l + 1 \in Hop /\ pc'[l + 1] = "request"
                   \/ wire'[l][i] = wire[l][i] /\ ~(i = "down" /\ l + 1 \in Hop /\ pc[l + 1] = "request")
        <4>1. i = "down" /\ l + 1 \in Hop /\ pc[l + 1] = "request" => pc'[l + 1] = "request"
          BY <1>7 DEF Direction
        <4>2. CASE l = u /\ i = e
          <5>1. CASE i = "down" /\ l + 1 \in Hop /\ pc[l + 1] = "request"
            BY <4>1, <5>1
          <5>2. CASE ~(i = "down" /\ l + 1 \in Hop /\ pc[l + 1] = "request")
            <6>1. Payload(w) = w
              BY <1>2, <1>22, <1>10, <4>2, <5>2 DEF Whole, Asked, Direction
            <6>2. w \in Seq(Seq(Int))
              BY <1>3 DEF Fitting
            <6>3. Payload(v) = v
              BY <1>5, <2>2, <6>1, <6>2, PayloadAppend
            <6> QED
              BY <1>6, <4>2, <6>3
          <5> QED
            BY <5>1, <5>2
        <4>3. CASE l # u \/ i # e
          BY <1>6, <4>1, <4>3
        <4> QED
          BY <4>2, <4>3
      <3> QED
        BY <1>10, <3>1, AskedStays DEF Whole
    <2>4. Stream(Downstream(h, e), e)' = Cat(Stream(Downstream(h, e), e), y)
      <3>1. PICK j \in Seq(Int) : j = held[u][e]
        BY StreamsTyped
      <3>2. u \in Link' /\ wire'[u][e] = Append(w, y) /\ held'[u][e] = j
        BY <1>5, <1>6, <3>1 DEF Link
      <3>3. Stream(u, e)' = Holds(j, Append(w, y))
        BY <3>2, StreamHolds
      <3>4. Stream(u, e) = Holds(j, w)
        BY <1>2, <1>22, <3>1, StreamHolds
      <3>5. w \in Seq(Seq(Int))
        BY <1>3 DEF Fitting
      <3>6. Stream(u, e)' = Cat(Stream(u, e), y)
        BY <2>2, <3>3, <3>4, <3>5, HoldsAppend
      <3> QED
        BY <1>2, <1>22, <3>6 DEF Stream, Downstream
    <2>5. \A l \in Link, i \in Direction : l # Downstream(h, e) \/ i # e => Stream(l, i)' = Stream(l, i)
      BY <1>2, <1>22, <1>6, StreamSame
    <2>6. shut[Downstream(h, e)] = {}
      BY <1>2, <1>22, <2>1
    <2>7. (pc'[h] \in {"handle", "poll"} /\ k = <<>>) \/ (pc'[h] = e /\ data'[h] = k)
      BY <1>7 DEF After
    <2> QED
      BY <1>7, <1>8, <1>10, <2>3, <2>4, <2>5, <2>6, <2>7, WriteKeeps
  <1> QED
    BY <1>8, <1>9, <1>10 DEF Kept

LEMMA RoomIs ==
    ASSUME Base, NEW l \in Link, NEW d \in Direction
    PROVE  Len(Held(l, d)) \in Nat /\ shape.window \in Nat /\ Room(l, d) = shape.window - Len(Held(l, d)) /\ Room(l, d) \in Nat
  <1>1. Fitting(wire[l][d]) /\ Len(FlattenSeq(wire[l][d])) <= shape.window
    BY DEF Base, WiresFit
  <1>2. FlattenSeq(wire[l][d]) \in Seq(Int)
    BY <1>1, FlattenType DEF Fitting
  <1>3. PICK m \in Nat, n \in Nat : m = Len(Held(l, d)) /\ n = shape.window
    BY <1>2, LenProperties, HopsAre DEF Held, Base, Control
  <1>4. m <= n
    BY <1>1, <1>3 DEF Held
  <1> QED
    BY <1>3, <1>4 DEF Room

LEMMA HandIs ==
    ASSUME Base, NEW h \in Hop, NEW d \in Direction, pc[h] = d
    PROVE  data[h] \in Seq(Int) /\ data[h] # <<>> /\ data[h] = Cat(data[h], <<>>) /\ Len(data[h]) \in Nat \ {0} /\ <<>> \in Seq(Int)
  <1>1. data[h] \in Seq(Int) /\ data[h] # <<>>
    BY DEF Base, HandsFit
  <1> QED
    BY <1>1, CatEmpty, HasBytes

LEMMA TargetKept ==
    ASSUME Base, NEW h \in Hop, send(h)
    PROVE  Kept
  <1>1. shape \in Shapes /\ h \in Link
    BY HopsAre DEF Base, Control
  <1>2. PICK e \in Direction, u \in Link : e = "down" /\ u = h /\ u = Downstream(h, e)
    BY <1>1 DEF Direction, Downstream
  <1>3. PICK y \in Seq(Int) : y = data[h] /\ y # <<>> /\ Cat(y, <<>>) = y
    BY <1>2, HandIs DEF send, Sending
  <1>4. PICK to \in {"handle", "poll"} : to = (IF Len(todo[h]) = 1 THEN "poll" ELSE "handle")
    OBVIOUS
  <1>5. /\ pc[h] = e /\ Reader(e) \notin shut[Downstream(h, e)]
        /\ Len(y) <= Room(u, e) /\ SetAt(wire', wire, u, e, Append(wire[u][e], y))
        /\ pc' = [pc EXCEPT ![h] = to] /\ data' = [data EXCEPT ![h] = <<>>]
        /\ shape' = shape /\ open' = open /\ held' = held /\ shut' = shut /\ sent' = sent /\ got' = got
    BY <1>2, <1>3, <1>4 DEF send, Sending, Fits, Written, Handled, Goto, Downstream, ends, Writer, Other, Reader, SetAt
  <1>6. Len(y) + Len(Held(Downstream(h, e), e)) <= shape.window
    <2>1. PICK m \in Nat, n \in Nat, i \in Nat : m = Len(Held(u, e)) /\ n = shape.window /\ i = Len(y)
      BY RoomIs, LenProperties
    <2>2. i <= n - m
      BY <1>5, <2>1, RoomIs
    <2>3. i + m <= n
      BY <2>2
    <2> QED
      BY <1>2, <2>1, <2>3
  <1>7. data[h] = Cat(y, <<>>) /\ <<>> \in Seq(Int)
    BY <1>3
  <1>8. PICK k \in Seq(Int) : k = <<>>
    BY <1>7
  <1>9. data[h] = Cat(y, k) /\ data' = [data EXCEPT ![h] = k] /\ After(to, e, k)
    BY <1>5, <1>7, <1>8 DEF After
  <1>10. SetAt(wire', wire, Downstream(h, e), e, Append(wire[Downstream(h, e)][e], y))
    BY <1>2, <1>5
  <1> QED
    BY <1>3, <1>5, <1>6, <1>9, <1>10, SendKept

\* The part of what a hop has that there is room for is sent to the target.
LEMMA ShortKept ==
    ASSUME Base, NEW h \in Hop, sendShort(h)
    PROVE  Kept
  <1>1. shape \in Shapes /\ h \in Link
    BY HopsAre DEF Base, Control
  <1>2. PICK e \in Direction, u \in Link : e = "down" /\ u = h /\ u = Downstream(h, e)
    BY <1>1 DEF Direction, Downstream
  <1>3. PICK q \in Seq(Int) : q = data[h] /\ q # <<>> /\ Len(q) \in Nat \ {0}
    BY <1>2, HandIs DEF sendShort, Sending
  <1>4. PICK n \in Nat \ {0} : n = Room(u, e)
    BY <1>2, RoomIs DEF sendShort
  <1>5. ~(Len(q) <= n)
    BY <1>2, <1>3, <1>4 DEF sendShort, Fits, Downstream
  <1>6. /\ pc[h] = e /\ Reader(e) \notin shut[Downstream(h, e)]
        /\ SetAt(wire', wire, Downstream(h, e), e, Append(wire[Downstream(h, e)][e], SubSeq(q, 1, n)))
        /\ shape' = shape /\ open' = open /\ held' = held /\ shut' = shut /\ sent' = sent /\ got' = got
    BY <1>2, <1>3, <1>4 DEF sendShort, Sending, Written, Downstream, ends, Writer, Other, Reader, SetAt
  <1>7. PICK y \in Seq(Int), k \in Seq(Int) : y = SubSeq(q, 1, n) /\ k = SubSeq(q, n + 1, Len(q)) /\ Len(y) = n /\ Cat(y, k) = q
                                             /\ Len(k) = Len(q) - n
    <2>1. n \in 0..Len(q)
      BY <1>3, <1>4, <1>5
    <2> QED
      BY <2>1, SplitAt
  <1>8. y # <<>> /\ k # <<>>
    <2>1. Len(k) > 0 /\ Len(y) > 0
      BY <1>3, <1>4, <1>5, <1>7
    <2> QED
      BY <2>1, HasBytes
  <1>9. Len(y) + Len(Held(Downstream(h, e), e)) <= shape.window
    <2>1. PICK m \in Nat, i \in Nat : m = Len(Held(u, e)) /\ i = shape.window
      BY RoomIs
    <2>2. n = i - m
      BY <1>4, <2>1, RoomIs
    <2>3. n + m <= i
      BY <2>2
    <2> QED
      BY <1>2, <1>7, <2>1, <2>3
  <1>10. SetAt(wire', wire, Downstream(h, e), e, Append(wire[Downstream(h, e)][e], y))
    BY <1>6, <1>7
  <1>11. pc' = pc /\ data' = [data EXCEPT ![h] = k]
    BY <1>2, <1>3, <1>4, <1>7 DEF sendShort
  <1>12. pc' = [pc EXCEPT ![h] = e]
    BY <1>6, <1>11 DEF Base, Control
  <1>13. After(e, e, k) /\ data[h] = Cat(y, k)
    BY <1>3, <1>7, <1>8 DEF After
  <1> QED
    BY <1>6, <1>8, <1>9, <1>10, <1>11, <1>12, <1>13, SendKept

LEMMA ClientKept ==
    ASSUME Base, NEW h \in Hop, sendToClient(h)
    PROVE  Kept
  <1>1. shape \in Shapes /\ h - 1 \in Link
    BY HopsAre DEF Base, Control
  <1>2. PICK e \in Direction, u \in Link : e = "up" /\ u = h - 1 /\ u = Downstream(h, e)
    BY <1>1 DEF Direction, Downstream
  <1>3. PICK q \in Seq(Int) : q = data[h] /\ q # <<>> /\ Cat(q, <<>>) = q /\ Len(q) \in Nat \ {0}
    BY <1>2, HandIs DEF sendToClient, Sending
  <1>4. PICK room \in Nat \ {0} : room = Room(u, e)
    BY <1>2, RoomIs DEF sendToClient
  <1>5. PICK n \in Nat \ {0} : n = (IF Len(q) <= room THEN Len(q) ELSE room)
    BY <1>3
  <1>6. /\ pc[h] = e /\ Reader(e) \notin shut[Downstream(h, e)]
        /\ SetAt(wire', wire, Downstream(h, e), e, Append(wire[Downstream(h, e)][e], SubSeq(q, 1, n)))
        /\ shape' = shape /\ open' = open /\ held' = held /\ shut' = shut /\ sent' = sent /\ got' = got
    BY <1>2, <1>3, <1>4, <1>5
       DEF sendToClient, Sending, Fits, Written, Handled, Downstream, ends, Writer, Other, Reader, SetAt
  <1>7. PICK y \in Seq(Int), k \in Seq(Int) : y = SubSeq(q, 1, n) /\ k = SubSeq(q, n + 1, Len(q)) /\ Len(y) = n /\ Cat(y, k) = q
                                             /\ Len(k) = Len(q) - n
    <2>1. n \in 0..Len(q)
      BY <1>3, <1>4, <1>5
    <2> QED
      BY <2>1, SplitAt
  <1>8. y # <<>>
    BY <1>5, <1>7, HasBytes
  <1>9. Len(y) + Len(Held(Downstream(h, e), e)) <= shape.window
    <2>1. PICK m \in Nat, i \in Nat : m = Len(Held(u, e)) /\ i = shape.window
      BY RoomIs
    <2>2. room = i - m
      BY <1>4, <2>1, RoomIs
    <2>3. n <= room
      BY <1>3, <1>5
    <2>4. n + m <= i
      BY <2>2, <2>3
    <2> QED
      BY <1>2, <1>7, <2>1, <2>4
  <1>10. SetAt(wire', wire, Downstream(h, e), e, Append(wire[Downstream(h, e)][e], y))
    BY <1>6, <1>7
  <1>11. CASE Len(q) <= room
    <2>1. PICK to \in {"handle", "poll"} : to = (IF Len(todo[h]) = 1 THEN "poll" ELSE "handle")
      OBVIOUS
    <2>2. k = <<>>
      <3>1. Len(k) = 0
        BY <1>3, <1>5, <1>7, <1>11
      <3> QED
        BY <3>1, HasBytes
    <2>3. pc' = [pc EXCEPT ![h] = to] /\ data' = [data EXCEPT ![h] = k] /\ to \in {"handle", "poll"}
      BY <1>2, <1>3, <1>4, <1>11, <2>1, <2>2 DEF sendToClient, Fits, Handled, Goto, Downstream
    <2>4. After(to, e, k) /\ data[h] = Cat(y, k)
      BY <1>3, <1>7, <2>2, <2>3 DEF After
    <2> QED
      BY <1>6, <1>8, <1>9, <1>10, <2>3, <2>4, SendKept
  <1>12. CASE ~(Len(q) <= room)
    <2>1. k # <<>>
      <3>1. Len(k) > 0
        BY <1>3, <1>4, <1>5, <1>7, <1>12
      <3> QED
        BY <3>1, HasBytes
    <2>2. pc' = pc /\ data' = [data EXCEPT ![h] = SubSeq(data[h], room + 1, Len(data[h]))]
      BY <1>2, <1>3, <1>4, <1>12 DEF sendToClient, Fits, Downstream
    <2>3. data' = [data EXCEPT ![h] = k]
      BY <1>3, <1>5, <1>7, <1>12, <2>2
    <2>4. pc' = [pc EXCEPT ![h] = e]
      BY <1>6, <2>2 DEF Base, Control
    <2>5. After(e, e, k) /\ data[h] = Cat(y, k)
      BY <1>3, <1>7, <2>1 DEF After
    <2> QED
      BY <1>6, <1>8, <1>9, <1>10, <2>3, <2>4, <2>5, SendKept
  <1> QED
    BY <1>11, <1>12

\* A hop sends to nobody.
LEMMA VainKept ==
    ASSUME Base, NEW h \in Hop, NEW d \in Direction, sendInVain(h, d)
    PROVE  Kept
  <1>1. Control /\ Preambles /\ shape \in Shapes /\ pc \in [Hop -> Place] /\ data \in [Hop -> Seq(Int)] /\ WiresFit(wire)
        /\ Hop = 1..shape.hops /\ shape.hops \in Nat \ {0} /\ shape.window \in Nat
    BY HopsAre DEF Base, Control, HandsFit
  <1>2. PICK w \in Link, o \in Direction : w = Downstream(h, d) /\ o = Opposite(d) /\ w = Upstream(h, o)
    BY <1>1, LinksOf
  <1>3. PICK to \in {"handle", "poll"} : to = (IF Len(todo[h]) = 1 THEN "poll" ELSE "handle")
    OBVIOUS
  <1>4. /\ pc[h] = d /\ Reader(d) \in shut[w] /\ SetAt(wire', wire, w, o, <<>>)
        /\ pc' = [pc EXCEPT ![h] = to] /\ data' = [data EXCEPT ![h] = <<>>]
        /\ shape' = shape /\ open' = open /\ held' = held /\ shut' = shut /\ sent' = sent /\ got' = got
    BY <1>2, <1>3 DEF sendInVain, Handled, Goto, ends, Writer, Other, Reader, SetAt, Direction
  <1>5. pc'[h] = to /\ data'[h] = <<>> /\ \A i \in Hop : i # h => pc'[i] = pc[i] /\ data'[i] = data[i]
    BY <1>1, <1>4
  <1>6. /\ WiresFit(wire') /\ wire'[w][o] = <<>>
        /\ \A l \in Link, i \in Direction : l # w \/ i # o => wire'[l][i] = wire[l][i]
    <2>1. Fitting(<<>>)
      BY DEF Fitting
    <2>2. Len(FlattenSeq(<<>>)) <= shape.window
      <3>1. Len(FlattenSeq(<<>>)) = 0
        BY FlattenEmpty
      <3> QED
        BY <1>1, <3>1
    <2> QED
      BY <1>4, <2>1, <2>2, WireIsSet
  <1>7. Base'
    <2>1. GoesOn(h)
      BY <1>4 DEF GoesOn, Live, Direction
    <2>2. Works(h)
      <3>1. ASSUME NEW l \in Link, NEW i \in Direction
            PROVE  wire'[l][i] = wire[l][i] \/ (l = Upstream(h, i) /\ wire'[l][i] = <<>>)
        <4>1. CASE l = w /\ i = o
          BY <1>2, <1>6, <4>1
        <4>2. CASE l # w \/ i # o
          BY <1>6, <4>2
        <4> QED
          BY <4>1, <4>2
      <3>2. pc[h] # "preamble"
        BY <1>4 DEF Direction
      <3> QED
        BY <1>4, <2>1, <3>1, <3>2 DEF Works
    <2>3. Control' /\ Preambles'
      BY <1>1, <2>1, <2>2, ControlGoesOn, PreamblesGoOn DEF Base, WireTyped, WiresFit
    <2>4. HandsFit'
      <3>1. Len(<<>>) <= RecordSize /\ <<>> \in Seq(Int)
        BY TunnelAssumption
      <3>2. to \in Direction <=> <<>> # <<>>
        BY DEF Direction
      <3> QED
        BY <1>1, <1>4, <3>1, <3>2, HandsSet DEF Base
    <2>5. WiresFit(wire)' /\ HeldFit(held)'
      BY <1>4, <1>6, FitNext DEF Base
    <2> QED
      BY <1>4, <2>3, <2>4, <2>5, SameEnds DEF Base
  <1>8. Declined => Declined'
    <2>1. \A i \in Hop : pc[i] = "declined" => pc'[i] = "declined"
      BY <1>4, <1>5 DEF Direction
    <2> QED
      BY <1>4, <2>1, DeclinedStays
  <1>9. ASSUME Whole PROVE Whole'
    <2>1. Asked'
      <3>1. ASSUME NEW l \in Link, NEW i \in Direction
            PROVE  \/ Payload(wire'[l][i]) = wire'[l][i]
                   \/ i = "down" /\ l + 1 \in Hop /\ pc'[l + 1] = "request"
                   \/ wire'[l][i] = wire[l][i] /\ ~(i = "down" /\ l + 1 \in Hop /\ pc[l + 1] = "request")
        <4>1. i = "down" /\ l + 1 \in Hop /\ pc[l + 1] = "request" => pc'[l + 1] = "request"
          BY <1>4, <1>5 DEF Direction
        <4>2. CASE l = w /\ i = o
          <5>1. Payload(<<>>) = <<>>
            BY DEF Payload
          <5> QED
            BY <1>6, <4>2, <5>1
        <4>3. CASE l # w \/ i # o
          BY <1>6, <4>1, <4>3
        <4> QED
          BY <4>2, <4>3
      <3> QED
        BY <1>4, <1>9, <3>1, AskedStays DEF Whole
    <2>2. Same(w, Downstream(h, d)) /\ o = Opposite(d)
      BY <1>2 DEF Same
    <2> QED
      BY <1>4, <1>5, <1>6, <1>7, <1>9, <2>1, <2>2, VainKeeps
  <1> QED
    BY <1>7, <1>8, <1>9 DEF Kept

-----------------------------------------------------------------------------
(* The client and the target *)

LEMMA ControlSame ==
    ASSUME Control, shape' = shape, open' = open, pc' = pc, shut' = shut
    PROVE  Control'
  BY DEF Control, Connections, Hop, Link

LEMMA EndOf ==
    ASSUME Base, NEW end \in End
    PROVE  /\ LinkOf(end) \in Link /\ Sends(end) \in Direction /\ Opposite(Sends(end)) \in Direction
           /\ LinkOf(end) = FirstOf(shape.hops, Sends(end)) /\ SideOf(end) = Writer(Sends(end))
           /\ LinkOf(end) = FinalOf(shape.hops, Opposite(Sends(end))) /\ SideOf(end) = Reader(Opposite(Sends(end)))
           /\ Other(SideOf(end)) = Reader(Sends(end))
  <1>1. shape.hops \in Nat \ {0} /\ Link = 0..shape.hops
    BY HopsAre DEF Base, Control
  <1>2. LinkOf(end) \in Link
    BY <1>1 DEF LinkOf
  <1>3. Other(SideOf(end)) = Reader(Sends(end))
    BY DEF Other, SideOf, Reader, Sends, End
  <1> QED
    BY <1>2, <1>3, EndsAre

LEMMA EndSendsKept ==
    ASSUME Base, NEW end \in End, EndSends(end)
    PROVE  Kept
  <1>1. Control /\ Preambles /\ shape \in Shapes /\ WiresFit(wire) /\ Hop = 1..shape.hops /\ shape.hops \in Nat \ {0}
        /\ shape.window \in Nat /\ shape.bytes \in Nat /\ sent \in [Direction -> 0..shape.bytes]
    BY HopsAre DEF Base, Control, EndsFit
  <1>2. PICK e \in Direction, u \in Link : e = Sends(end) /\ u = LinkOf(end) /\ u = FirstOf(shape.hops, e)
    BY EndOf
  <1>3. PICK n \in 1..RecordSize :
            /\ sent[e] + n <= shape.bytes /\ n <= Room(u, e)
            /\ wire' = [wire EXCEPT ![u][e] = Append(@, [i \in 1..n |-> sent[e] + i])]
            /\ sent' = [sent EXCEPT ![e] = @ + n]
    BY <1>2 DEF EndSends, Written
  <1>4. /\ u \in open /\ SideOf(end) \notin shut[u] /\ Other(SideOf(end)) \notin shut[u]
        /\ shape' = shape /\ open' = open /\ held' = held /\ shut' = shut /\ got' = got /\ pc' = pc /\ data' = data
    BY <1>2 DEF EndSends, Connected
  <1>5. PICK a \in Nat, c \in Nat, m \in Nat : a = sent[e] /\ c = sent'[e] /\ m = n /\ c = a + m /\ m > 0 /\ c <= shape.bytes
    <2>1. sent[e] \in Nat /\ n \in Nat /\ n > 0 /\ sent'[e] = sent[e] + n
      BY <1>1, <1>3, TunnelAssumption
    <2>2. sent[e] + n \in Nat
      BY <2>1
    <2> QED
      BY <1>3, <2>1, <2>2
  <1>6. PICK y \in Seq(Int) : y = Bytes(a, c) /\ Len(y) = m /\ y = [i \in 1..n |-> sent[e] + i] /\ y # <<Preamble>>
    <2>1. c - a = m
      BY <1>5
    <2>2. Bytes(a, c) = [i \in 1..n |-> sent[e] + i]
      BY <1>5, <2>1 DEF Bytes
    <2>3. Bytes(a, c) \in Seq(Int) /\ Len(Bytes(a, c)) = m /\ Bytes(a, c)[1] = a + 1
      <3>1. a <= c /\ 1 \in 1..(c - a)
        BY <1>5, <2>1
      <3>2. Bytes(a, c) \in Seq(Int) /\ Len(Bytes(a, c)) = c - a /\ Bytes(a, c)[1] = a + 1
        BY <3>1, BytesType
      <3> QED
        BY <2>1, <3>2
    <2>4. Bytes(a, c) # <<Preamble>>
      <3>1. <<Preamble>>[1] = 0
        BY DEF Preamble
      <3>2. a + 1 # 0
        OBVIOUS
      <3> QED
        BY <2>3, <3>1, <3>2
    <2> QED
      BY <2>2, <2>3, <2>4
  <1>7. PICK w, v : w = wire[u][e] /\ v = Append(w, y)
    OBVIOUS
  <1>8. Fitting(w) /\ w \in Seq(Seq(Int)) /\ Len(y) \in 1..RecordSize
    BY <1>1, <1>5, <1>6, <1>7 DEF WiresFit, Fitting
  <1>9. /\ WiresFit(wire') /\ wire'[u][e] = v
        /\ \A l \in Link, i \in Direction : l # u \/ i # e => wire'[l][i] = wire[l][i]
    <2>1. Fitting(v) /\ Len(FlattenSeq(v)) = Len(FlattenSeq(w)) + Len(y)
      BY <1>7, <1>8, FittingAppend
    <2>2. Len(FlattenSeq(v)) <= shape.window
      <3>1. PICK i \in Nat, j \in Nat : i = Len(FlattenSeq(w)) /\ j = shape.window /\ m <= j - i
        <4>1. Len(FlattenSeq(w)) \in Nat /\ Room(u, e) = shape.window - Len(FlattenSeq(w))
          BY <1>7, RoomIs DEF Held
        <4> QED
          BY <1>1, <1>3, <1>5, <4>1
      <3>2. i + m <= j
        BY <1>5, <3>1
      <3> QED
        BY <1>6, <2>1, <3>1, <3>2
    <2>3. SetAt(wire', wire, u, e, v)
      BY <1>3, <1>6, <1>7 DEF SetAt
    <2> QED
      BY <2>1, <2>2, <2>3, WireIsSet
  <1>10. sent' \in [Direction -> 0..shape.bytes] /\ \A d \in Direction : d # e => sent'[d] = sent[d]
    <2>1. sent[e] + n \in 0..shape.bytes
      BY <1>1, <1>3, <1>5
    <2> QED
      BY <1>1, <1>3, <2>1
  <1>11. Base'
    <2>1. Control'
      BY <1>1, <1>4, ControlSame
    <2>2. Preambles'
      <3>1. \A l \in Link, d \in Direction :
               \/ wire'[l][d] = wire[l][d]
               \/ \E f \in End : l = LinkOf(f) /\ l \in open /\ (d = Sends(f) \/ wire[l][d] # <<>>)
        BY <1>2, <1>4, <1>9
      <3> QED
        BY <1>1, <1>4, <3>1, PreamblesEnds
    <2>3. HandsFit'
      BY <1>4, HandsSame DEF Base
    <2>4. WiresFit(wire)' /\ HeldFit(held)'
      BY <1>4, <1>9, FitNext DEF Base
    <2>5. EndsFit'
      BY <1>4, <1>10 DEF Base, EndsFit
    <2> QED
      BY <2>1, <2>2, <2>3, <2>4, <2>5 DEF Base
  <1>12. Declined => Declined'
    BY <1>4, DeclinedStays
  <1>13. ASSUME Whole PROVE Whole'
    <2>1. Asked'
      <3>1. ASSUME NEW l \in Link, NEW i \in Direction
            PROVE  \/ Payload(wire'[l][i]) = wire'[l][i]
                   \/ i = "down" /\ l + 1 \in Hop /\ pc'[l + 1] = "request"
                   \/ wire'[l][i] = wire[l][i] /\ ~(i = "down" /\ l + 1 \in Hop /\ pc[l + 1] = "request")
        <4>1. CASE i = "down" /\ l + 1 \in Hop /\ pc[l + 1] = "request"
          BY <1>4, <4>1
        <4>2. CASE ~(i = "down" /\ l + 1 \in Hop /\ pc[l + 1] = "request")
          <5>1. CASE l = u /\ i = e
            <6>1. Payload(w) = w
              BY <1>7, <1>13, <4>2, <5>1 DEF Whole, Asked, Direction
            <6>2. Payload(v) = v
              BY <1>6, <1>7, <1>8, <6>1, PayloadAppend
            <6> QED
              BY <1>9, <5>1, <6>2
          <5>2. CASE l # u \/ i # e
            BY <1>9, <4>2, <5>2
          <5> QED
            BY <5>1, <5>2
        <4> QED
          BY <4>1, <4>2
      <3> QED
        BY <1>4, <1>13, <3>1, AskedStays DEF Whole
    <2>2. Stream(LinkOf(end), e)' = Cat(Stream(LinkOf(end), e), y)
      <3>1. PICK j \in Seq(Int) : j = held[u][e]
        BY StreamsTyped
      <3>2. u \in Link' /\ wire'[u][e] = Append(w, y) /\ held'[u][e] = j
        BY <1>4, <1>7, <1>9, <3>1 DEF Link
      <3>3. Stream(u, e)' = Holds(j, Append(w, y))
        BY <3>2, StreamHolds
      <3>4. Stream(u, e) = Holds(j, w)
        BY <1>7, <3>1, StreamHolds
      <3>5. Stream(u, e)' = Cat(Stream(u, e), y)
        BY <1>6, <1>8, <3>3, <3>4, HoldsAppend
      <3>6. LinkOf(end)' = LinkOf(end)
        BY <1>4 DEF LinkOf
      <3> QED
        BY <1>2, <3>5, <3>6 DEF Stream
    <2>3. \A l \in Link, i \in Direction : l # LinkOf(end) \/ i # e => Stream(l, i)' = Stream(l, i)
      BY <1>2, <1>4, <1>9, StreamSame
    <2>4. shut[LinkOf(end)] = {} /\ SideOf(end) \notin shut[LinkOf(end)]
      <3>1. shut[u] \subseteq Side
        BY <1>1 DEF Control
      <3> QED
        BY <1>2, <1>4, <3>1 DEF Side, Other, SideOf
    <2>5. Same(e, Sends(end)) /\ Same(y, Bytes(sent[e], sent'[e]))
      BY <1>2, <1>5, <1>6 DEF Same
    <2>6. sent'[e] = sent[e] + Len(y)
      BY <1>5, <1>6
    <2> QED
      BY <1>4, <1>10, <1>11, <1>13, <2>1, <2>2, <2>3, <2>4, <2>5, <2>6, GrowKeeps
  <1> QED
    BY <1>11, <1>12, <1>13 DEF Kept

LEMMA EndReceivesKept ==
    ASSUME Base, NEW end \in End, EndReceives(end)
    PROVE  Kept
  <1>1. Control /\ Preambles /\ shape \in Shapes /\ WiresFit(wire) /\ Hop = 1..shape.hops /\ shape.hops \in Nat \ {0}
        /\ shape.window \in Nat /\ got \in [Direction -> Seq(Int)] /\ Link = 0..shape.hops
    BY HopsAre DEF Base, Control, EndsFit
  <1>2. PICK e \in Direction, u \in Link : e = Opposite(Sends(end)) /\ u = LinkOf(end) /\ u = FinalOf(shape.hops, e)
    BY EndOf
  <1>22. PICK w : w = wire[u][e]
    OBVIOUS
  <1>3. /\ u \in open /\ SideOf(end) \notin shut[u] /\ w # <<>>
        /\ got' = [got EXCEPT ![e] = @ \o Head(w)]
        /\ wire' = [wire EXCEPT ![u][e] = Tail(@)]
        /\ shape' = shape /\ open' = open /\ held' = held /\ shut' = shut /\ sent' = sent /\ pc' = pc /\ data' = data
    BY <1>2, <1>22 DEF EndReceives, Connected
  <1>4. Fitting(w) /\ w \in Seq(Seq(Int)) /\ Len(FlattenSeq(w)) <= shape.window
    BY <1>1, <1>2, <1>22 DEF WiresFit, Fitting
  <1>5. PICK y \in Seq(Int), v \in Seq(Seq(Int)) : y = Head(w) /\ v = Tail(w) /\ Fitting(v)
    <2>1. Fitting(Tail(w)) /\ Head(w) \in Seq(Int)
      BY <1>3, <1>4, FittingTail
    <2> QED
      BY <2>1 DEF Fitting
  <1>6. FlattenSeq(w) = Cat(y, FlattenSeq(v)) /\ FlattenSeq(v) \in Seq(Int)
    BY <1>3, <1>4, <1>5, FlattenHead, FlattenType DEF Cat
  <1>7. /\ WiresFit(wire') /\ wire'[u][e] = v
        /\ \A l \in Link, i \in Direction : l # u \/ i # e => wire'[l][i] = wire[l][i]
    <2>1. Len(FlattenSeq(v)) <= shape.window
      <3>1. Len(FlattenSeq(w)) = Len(y) + Len(FlattenSeq(v)) /\ Len(y) \in Nat /\ Len(FlattenSeq(v)) \in Nat
        BY <1>6, CatSlots
      <3>2. PICK i \in Nat, j \in Nat, n \in Nat : i = Len(y) /\ j = Len(FlattenSeq(v)) /\ n = shape.window
        BY <1>1, <3>1
      <3>3. i + j <= n
        BY <1>4, <3>1, <3>2
      <3> QED
        BY <3>2, <3>3
    <2>2. SetAt(wire', wire, u, e, v)
      BY <1>2, <1>22, <1>3, <1>5 DEF SetAt
    <2>3. Fitting(v)
      BY <1>5
    <2> QED
      BY <2>1, <2>2, <2>3, WireIsSet
  <1>8. got' \in [Direction -> Seq(Int)] /\ got'[e] = Cat(got[e], y) /\ \A d \in Direction : d # e => got'[d] = got[d]
    <2>1. Cat(got[e], y) \in Seq(Int)
      BY <1>1, CatSlots
    <2>2. got' = [got EXCEPT ![e] = Cat(got[e], y)]
      BY <1>1, <1>3, <1>5 DEF Cat
    <2> QED
      BY <1>1, <2>1, <2>2
  <1>9. held[u][e] = <<>>
    BY <1>1, <1>2, <1>22 DEF Preambles, FinalOf, Direction
  <1>10. Base'
    <2>1. Control'
      BY <1>1, <1>3, ControlSame
    <2>2. Preambles'
      <3>1. \A l \in Link, d \in Direction :
               \/ wire'[l][d] = wire[l][d]
               \/ \E f \in End : l = LinkOf(f) /\ l \in open /\ (d = Sends(f) \/ wire[l][d] # <<>>)
        BY <1>2, <1>22, <1>3, <1>7
      <3> QED
        BY <1>1, <1>3, <3>1, PreamblesEnds
    <2>3. HandsFit'
      BY <1>3, HandsSame DEF Base
    <2>4. WiresFit(wire)' /\ HeldFit(held)'
      BY <1>3, <1>7, FitNext DEF Base
    <2>5. EndsFit'
      BY <1>3, <1>8 DEF Base, EndsFit
    <2> QED
      BY <2>1, <2>2, <2>3, <2>4, <2>5 DEF Base
  <1>11. Declined => Declined'
    BY <1>3, DeclinedStays
  <1>12. ASSUME Whole PROVE Whole'
    <2>1. PICK t \in Takable : Relays(t)
      BY <1>12 DEF Whole
    <2>2. PICK k \in Seq(Int) : k = <<>>
      <3>1. <<>> \in Seq(Int)
        OBVIOUS
      <3> QED
        BY <3>1
    <2>3. Holds(k, w) = Stream(u, e)
      BY <1>2, <1>22, <1>9, <2>2, StreamHolds
    <2>4. PICK a \in Nat : Holds(k, w) = Bytes(a, a + Len(Holds(k, w)))
      <3>1. t[u][e] \in Nat
        BY <1>1, <2>1, TakableIs DEF Counts
      <3>2. Stream(u, e) = Bytes(t[u][e], Put(t, u, e))
        BY <2>1 DEF Relays, Cut
      <3>3. Put(t, u, e) = t[u][e] + Len(Holds(k, w))
        BY <2>3 DEF Put
      <3> QED
        BY <2>3, <3>1, <3>2, <3>3
    <2>5. Payload(w) = w
      <3>1. e = "up" \/ u + 1 \notin Hop
        BY <1>1, <1>2, <1>22 DEF FinalOf, Direction
      <3> QED
        BY <1>2, <1>22, <1>12, <3>1 DEF Whole, Asked
    <2>6. Payload(v) = v /\ Holds(k, w) = Cat(y, Holds(k, v))
      <3>1. Cat(k, FlattenSeq(w)) = Cat(y, Cat(k, FlattenSeq(v)))
        <4>1. Cat(<<>>, FlattenSeq(v)) = FlattenSeq(v)
          BY <1>6, CatEmpty
        <4>2. Cat(<<>>, FlattenSeq(w)) = FlattenSeq(w)
          BY <1>4, FlattenType, CatEmpty
        <4> QED
          BY <1>6, <2>2, <4>1, <4>2
      <3>2. Fitting(v) /\ Fitting(w)
        BY <1>4, <1>5
      <3> QED
        BY <2>4, <2>5, <3>1, <3>2, HoldsRead
    <2>7. Asked'
      <3>1. ASSUME NEW l \in Link, NEW i \in Direction
            PROVE  \/ Payload(wire'[l][i]) = wire'[l][i]
                   \/ i = "down" /\ l + 1 \in Hop /\ pc'[l + 1] = "request"
                   \/ wire'[l][i] = wire[l][i] /\ ~(i = "down" /\ l + 1 \in Hop /\ pc[l + 1] = "request")
        <4>1. CASE l = u /\ i = e
          BY <1>7, <2>6, <4>1
        <4>2. CASE l # u \/ i # e
          BY <1>3, <1>7, <4>2
        <4> QED
          BY <4>1, <4>2
      <3> QED
        BY <1>3, <1>12, <3>1, AskedStays DEF Whole
    <2>8. Stream(LinkOf(end), e) = Cat(y, Stream(LinkOf(end), e)')
      <3>1. u \in Link' /\ wire'[u][e] = v /\ held'[u][e] = k
        BY <1>3, <1>7, <1>9, <2>2 DEF Link
      <3>2. Stream(u, e)' = Holds(k, v)
        BY <3>1, StreamHolds
      <3>3. Stream(u, e) = Cat(y, Stream(u, e)')
        BY <2>3, <2>6, <3>2
      <3>4. LinkOf(end)' = LinkOf(end)
        BY <1>3 DEF LinkOf
      <3> QED
        BY <1>2, <1>22, <3>3, <3>4 DEF Stream
    <2>9. \A l \in Link, i \in Direction : l # LinkOf(end) \/ i # e => Stream(l, i)' = Stream(l, i)
      BY <1>2, <1>22, <1>3, <1>7, StreamSame
    <2>10. SideOf(end) \notin shut[LinkOf(end)] /\ Same(e, Opposite(Sends(end)))
      BY <1>2, <1>22, <1>3 DEF Same
    <2> QED
      BY <1>3, <1>8, <1>10, <1>12, <2>7, <2>8, <2>9, <2>10, ReceiveKeeps
  <1> QED
    BY <1>10, <1>11, <1>12 DEF Kept

LEMMA EndClosesKept ==
    ASSUME Base, NEW end \in End, EndCloses(end)
    PROVE  Kept
  <1>1. Control /\ Preambles /\ shape \in Shapes
    BY DEF Base, Control
  <1>2. PICK e \in Direction, u \in Link : e = Sends(end) /\ u = LinkOf(end) /\ u = FirstOf(shape.hops, e) /\ SideOf(end) = Writer(e)
    BY EndOf
  <1>3. /\ u \in open /\ Writer(e) \notin shut[u] /\ Closed({<<u, Writer(e)>>})
        /\ LinkOf(end) \in open /\ Closed({<<LinkOf(end), SideOf(end)>>})
        /\ shape' = shape /\ open' = open /\ held' = held /\ sent' = sent /\ got' = got /\ pc' = pc /\ data' = data
    BY <1>2 DEF EndCloses, Connected, ends
  <1>4. Loses({<<u, Writer(e)>>})
    BY <1>3, ClosedLoses
  <1>5. /\ shut' = [l \in Link |-> shut[l] \cup {i \in Side : <<l, i>> \in {<<u, Writer(e)>>}}]
        /\ shut' = [l \in Link |-> shut[l] \cup {s \in Side : <<l, s>> \in {<<LinkOf(end), SideOf(end)>>}}]
    BY <1>3 DEF Closed
  <1>6. Base'
    <2>1. Control'
      BY <1>1, <1>3, <1>5, ControlEnds
    <2>2. Preambles'
      <3>1. ASSUME NEW l \in Link, NEW d \in Direction
            PROVE  \/ wire'[l][d] = wire[l][d]
                   \/ \E f \in End : l = LinkOf(f) /\ l \in open /\ (d = Sends(f) \/ wire[l][d] # <<>>)
        <4>1. CASE <<l, Writer(d)>> = <<u, Writer(e)>>
          <5>1. l = u /\ d = e
            BY <4>1 DEF Writer, Reader, Other, Direction
          <5> QED
            BY <1>2, <1>3, <5>1
        <4>2. CASE <<l, Writer(d)>> # <<u, Writer(e)>>
          BY <1>4, <4>2 DEF Loses
        <4> QED
          BY <4>1, <4>2
      <3> QED
        BY <1>1, <1>3, <3>1, PreamblesEnds
    <2>3. HandsFit'
      BY <1>3, HandsSame DEF Base
    <2>4. WiresFit(wire)' /\ HeldFit(held)'
      BY <1>3, ClosedFits
    <2> QED
      BY <1>3, <2>1, <2>2, <2>3, <2>4, SameEnds DEF Base
  <1>7. Declined => Declined'
    BY <1>3, DeclinedStays
  <1>8. ASSUME Whole PROVE Whole'
    <2>1. Asked'
      <3>1. ASSUME NEW l \in Link, NEW i \in Direction
            PROVE  \/ Payload(wire'[l][i]) = wire'[l][i]
                   \/ i = "down" /\ l + 1 \in Hop /\ pc'[l + 1] = "request"
                   \/ wire'[l][i] = wire[l][i] /\ ~(i = "down" /\ l + 1 \in Hop /\ pc[l + 1] = "request")
        <4>1. Payload(<<>>) = <<>>
          BY DEF Payload
        <4>2. wire'[l][i] = wire[l][i] \/ wire'[l][i] = <<>>
          BY <1>4 DEF Loses
        <4> QED
          BY <1>3, <4>1, <4>2
      <3> QED
        BY <1>3, <1>8, <3>1, AskedStays DEF Whole
    <2> QED
      BY <1>2, <1>3, <1>4, <1>5, <1>6, <1>8, <2>1, EndCloseKeeps
  <1> QED
    BY <1>6, <1>7, <1>8 DEF Kept

-----------------------------------------------------------------------------
(* The inductive invariant *)

LEMMA SameKept ==
    ASSUME Base, UNCHANGED vars
    PROVE  Kept
  <1>1. /\ shape' = shape /\ open' = open /\ wire' = wire /\ held' = held /\ shut' = shut /\ sent' = sent /\ got' = got
        /\ pc' = pc /\ data' = data
    BY DEF vars
  <1>2. shape \in Shapes /\ Control /\ Preambles
    BY DEF Base, Control
  <1>3. Base'
    <2>1. Control'
      BY <1>1, <1>2, ControlSame
    <2>2. Preambles'
      BY <1>1, <1>2, PreamblesEnds
    <2>3. HandsFit'
      BY <1>1, HandsSame DEF Base
    <2> QED
      BY <1>1, <2>1, <2>2, <2>3, SameFits, SameEnds DEF Base
  <1>4. Declined => Declined'
    BY <1>1, DeclinedStays
  <1>5. ASSUME Whole PROVE Whole'
    <2>1. Asked'
      BY <1>1, <1>5, AskedStays DEF Whole, Asked, Direction
    <2>2. SameClosed(shape.hops, pc, pc') /\ (Failed => Failed')
      BY <1>1 DEF SameClosed, Failed, Hop
    <2> QED
      BY <1>1, <1>2, <1>3, <1>5, <2>1, <2>2, StreamsSame, BehindSame, QuietKeeps
  <1> QED
    BY <1>3, <1>4, <1>5 DEF Kept

LEMMA HopKept ==
    ASSUME Base, NEW h \in Hop, HopStep(h)
    PROVE  Kept
  <1>1. CASE handler(h)
    BY <1>1, HandlerKept
  <1>2. CASE handlerNotAsked(h)
    BY <1>2, NotAskedKept
  <1>3. CASE connect(h)
    BY <1>3, ConnectKept
  <1>4. CASE connectFails(h)
    BY <1>4, AbortKept DEF connectFails, Dead
  <1>5. CASE sendPreamble(h)
    BY <1>5, AskKept
  <1>6. CASE poll(h)
    BY <1>6, PollKept
  <1>7. ASSUME NEW d \in Direction, recv(h, d) PROVE Kept
    BY <1>7, RecvKept
  <1>8. ASSUME NEW d \in Direction, endOfStream(h, d) PROVE Kept
    BY <1>8, EndOfStreamKept
  <1>9. ASSUME NEW d \in Direction, sendFails(h, d) PROVE Kept
    BY <1>9, AbortKept DEF sendFails, Dead, Direction
  <1>10. ASSUME NEW d \in Direction, sendInVain(h, d) PROVE Kept
    BY <1>10, VainKept
  <1>11. CASE send(h)
    BY <1>11, TargetKept
  <1>12. CASE sendShort(h)
    BY <1>12, ShortKept
  <1>15. CASE sentShort(h)
    BY <1>15, AbortKept DEF sentShort, Dead
  <1>13. CASE sendToClient(h)
    BY <1>13, ClientKept
  <1>14. CASE callFails(h)
    BY <1>14, AbortKept DEF callFails, Dead
  <1> QED
    BY <1>1, <1>2, <1>3, <1>4, <1>5, <1>6, <1>7, <1>8, <1>9, <1>10, <1>11, <1>12, <1>13, <1>14, <1>15 DEF HopStep, HopGoesOn

LEMMA NextKept ==
    ASSUME Base, [Next]_vars
    PROVE  Kept
  <1>1. CASE processConnection
    BY <1>1, StartKept
  <1>2. ASSUME NEW h \in Hop, HopStep(h) PROVE Kept
    BY <1>2, HopKept
  <1>3. ASSUME NEW end \in End, EndSends(end) PROVE Kept
    BY <1>3, EndSendsKept
  <1>4. ASSUME NEW end \in End, EndReceives(end) PROVE Kept
    BY <1>4, EndReceivesKept
  <1>5. ASSUME NEW end \in End, EndCloses(end) PROVE Kept
    BY <1>5, EndClosesKept
  <1>6. CASE Stopped
    BY <1>6, SameKept DEF Stopped
  <1>7. CASE UNCHANGED vars
    BY <1>7, SameKept
  <1> QED
    BY <1>1, <1>2, <1>3, <1>4, <1>5, <1>6, <1>7 DEF Next

LEMMA InitBase == Init => Base
  <1> SUFFICES ASSUME Init PROVE Base
    OBVIOUS
  <1>1. /\ shape \in Shapes /\ shape.hops \in Nat \ {0} /\ Hop = 1..shape.hops /\ Link = 0..shape.hops
        /\ shape.window \in Nat /\ shape.bytes \in Nat
    BY HopsAre DEF Init
  <1>2. /\ open = {} /\ shut = [l \in Link |-> {}] /\ pc = [h \in Hop |-> "idle"] /\ data = [h \in Hop |-> <<>>]
        /\ wire = [l \in Link |-> [d \in Direction |-> <<>>]] /\ held = [l \in Link |-> [d \in Direction |-> <<>>]]
        /\ sent = [d \in Direction |-> 0] /\ got = [d \in Direction |-> <<>>]
    BY DEF Init
  <1>3. Control
    <2>1. pc \in [Hop -> Place]
      BY <1>2 DEF Place, Early
    <2>2. shut \in [Link -> SUBSET Side]
      BY <1>2
    <2>3. Connections
      BY <1>1, <1>2 DEF Connections, Early, Dead
    <2> QED
      BY <1>1, <2>1, <2>2, <2>3 DEF Control
  <1>4. WiresFit(wire)
    <2>1. Fitting(<<>>) /\ Len(FlattenSeq(<<>>)) = 0
      <3>1. Len(FlattenSeq(<<>>)) = 0
        BY FlattenEmpty
      <3>2. Fitting(<<>>)
        BY DEF Fitting
      <3> QED
        BY <3>1, <3>2
    <2>2. wire \in [Link -> [Direction -> Seq(Seq(Int))]]
      BY <1>2
    <2>3. \A l \in Link, d \in Direction : wire[l][d] = <<>>
      BY <1>2
    <2> QED
      BY <1>1, <2>1, <2>2, <2>3 DEF WiresFit
  <1>5. HeldFit(held)
    BY <1>2 DEF HeldFit
  <1>6. HandsFit
    <2>1. data \in [Hop -> Seq(Int)]
      BY <1>2
    <2>2. \A h \in Hop : Len(data[h]) <= RecordSize
      BY <1>2, TunnelAssumption
    <2>3. \A h \in Hop : pc[h] \in Direction <=> data[h] # <<>>
      BY <1>2 DEF Direction
    <2> QED
      BY <2>1, <2>2, <2>3 DEF HandsFit
  <1>7. EndsFit
    BY <1>1, <1>2 DEF EndsFit
  <1>8. Preambles
    <2>1. \A l \in Link, d \in Direction : wire[l][d] = <<>> /\ held[l][d] = <<>>
      BY <1>2
    <2>2. \A h \in Hop : pc[h] = "idle" /\ h - 1 \in Link
      BY <1>1, <1>2
    <2>3. "up" \in Direction /\ "down" \in Direction
      BY DEF Direction
    <2>4. \A h \in Hop : /\ pc[h] \in Early \cup {"preamble"} => wire[h - 1]["up"] = <<>> /\ held[h - 1]["down"] = <<>>
                         /\ pc[h] = "preamble" => wire[h]["down"] = <<>>
                         /\ pc[h] = "request" /\ wire[h - 1]["down"] # <<>> => Head(wire[h - 1]["down"]) = <<Preamble>>
                         /\ pc[h] = "request" /\ wire[h - 1]["down"] = <<>> => pc[h - 1] \in Dead \cup {"preamble"}
      BY <2>1, <2>2, <2>3
    <2>5. \A l \in Link : held[l]["down"] = <<>> /\ held[l]["up"] = <<>>
      BY <2>1, <2>3
    <2>6. /\ \A l \in Link, d \in Direction : l \notin open => wire[l][d] = <<>>
          /\ \A l \in Link : held[l]["down"] # <<>> => l < shape.hops
          /\ \A l \in Link : held[l]["up"] # <<>> => l > 0
      BY <2>1, <2>5
    <2> QED
      BY <2>4, <2>6 DEF Preambles
  <1> QED
    BY <1>3, <1>4, <1>5, <1>6, <1>7, <1>8 DEF Base

LEMMA InitWhole == Init => Whole
  <1> SUFFICES ASSUME Init PROVE Whole
    OBVIOUS
  <1>1. /\ shape \in Shapes /\ shape.hops \in Nat \ {0} /\ Hop = 1..shape.hops /\ Link = 0..shape.hops /\ shape.bytes \in Nat
    BY HopsAre DEF Init
  <1>2. /\ shut = [l \in Link |-> {}] /\ pc = [h \in Hop |-> "idle"]
        /\ wire = [l \in Link |-> [d \in Direction |-> <<>>]] /\ held = [l \in Link |-> [d \in Direction |-> <<>>]]
        /\ sent = [d \in Direction |-> 0] /\ got = [d \in Direction |-> <<>>]
    BY DEF Init
  <1>3. Asked
    BY <1>2 DEF Asked, Payload
  <1>4. PICK t : t = [l \in Link |-> [d \in Direction |-> 0]]
    OBVIOUS
  <1>5. t \in Takable /\ \A l \in Link, d \in Direction : t[l][d] = 0
    BY <1>1, <1>4 DEF Takable
  <1>6. PICK x, b : Views(x, b)
    BY ViewsExist
  <1>7. \A l \in Link, d \in Direction : x[l][d] = <<>> /\ b[l][d] = <<>>
    <2>1. ASSUME NEW l \in Link, NEW d \in Direction PROVE x[l][d] = <<>> /\ b[l][d] = <<>>
      <3>1. Stream(l, d) = <<>>
        <4>1. held[l][d] = <<>> /\ wire[l][d] = <<>>
          BY <1>2
        <4>2. Stream(l, d) = Cat(<<>>, FlattenSeq(Payload(<<>>))) /\ Payload(<<>>) = <<>>
          BY <4>1, StreamHolds DEF Holds, Payload
        <4>3. <<>> \in Seq(Int)
          OBVIOUS
        <4>4. Cat(<<>>, <<>>) = <<>>
          BY <4>3, CatEmpty
        <4>5. FlattenSeq(Payload(<<>>)) = <<>>
          BY <4>2, FlattenEmpty
        <4> QED
          BY <4>2, <4>4, <4>5, Zenon
      <3>2. Behind(l, d) = <<>>
        <4>1. l # FirstOf(shape.hops, d) => pc[WriterHop(l, d)] = "idle"
          BY <1>1, <1>2, HopOf
        <4> QED
          BY <4>1, EndsAre DEF Behind, InHand, Direction
      <3> QED
        BY <1>6, <3>1, <3>2 DEF Views
    <2> QED
      BY <2>1
  <1>8. \A l \in Link, d \in Direction : Offered(shape.hops, t, sent, l, d) = 0
    <2>1. ASSUME NEW l \in Link, NEW d \in Direction PROVE Offered(shape.hops, t, sent, l, d) = 0
      <3>1. l # FirstOf(shape.hops, d) => Previous(l, d) \in Link
        BY <1>1, HopOf
      <3> QED
        BY <1>2, <1>5, <3>1 DEF Offered
    <2> QED
      BY <2>1
  <1>9. Bytes(0, 0) = <<>> /\ Len(<<>>) = 0 /\ Cat(<<>>, <<>>) = <<>>
    <2>1. Bytes(0, 0) = <<>>
      BY BytesType
    <2>2. <<>> \in Seq(Int) /\ Len(<<>>) = 0
      OBVIOUS
    <2> QED
      BY <2>1, <2>2, CatEmpty
  <1>10. Relaying(shape.hops, x, b, t, sent, got, shut)
    <2>1. Cutting(shape.hops, x, b, t, sent, shut)
      <3>1. Cuts(<<>>, <<>>, 0, 0, {})
        <4>1. 0 + Len(<<>>) = 0 /\ 0 + Len(<<>>) + Len(<<>>) <= 0
          BY <1>9
        <4> QED
          BY <1>9, <4>1 DEF Cuts
      <3>2. ASSUME NEW l \in Link, NEW d \in Direction
            PROVE  Cuts(x[l][d], b[l][d], t[l][d], Offered(shape.hops, t, sent, l, d), shut[l])
        <4>1. x[l][d] = <<>> /\ b[l][d] = <<>> /\ t[l][d] = 0 /\ Offered(shape.hops, t, sent, l, d) = 0 /\ shut[l] = {}
          BY <1>2, <1>5, <1>7, <1>8
        <4> QED
          BY <3>1, <4>1, Zenon
      <3> QED
        BY <1>1, <3>2 DEF Cutting
    <2>2. Falling(shape.hops, t, sent)
      BY <1>1, <1>2, <1>5 DEF Falling
    <2>3. Getting(shape.hops, t, got)
      <3>1. ASSUME NEW d \in Direction PROVE got[d] = Bytes(0, t[FinalOf(shape.hops, d)][d])
        <4>1. t[FinalOf(shape.hops, d)][d] = 0
          BY <1>1, <1>5 DEF FinalOf
        <4> QED
          BY <1>2, <1>9, <4>1
      <3> QED
        BY <3>1 DEF Getting
    <2> QED
      BY <2>1, <2>2, <2>3 DEF Relaying
  <1>11. Relays(t)
    BY <1>1, <1>6, <1>10, RelaysAre
  <1>12. LastWords(t)
    <2>1. ~Failed
      BY <1>2 DEF Failed
    <2>2. ASSUME NEW d \in Direction PROVE Assured(shape.hops, x, b, t, sent, shut, pc, d)
      <3>1. Waves(shape.hops, shut, pc, d)
        BY <1>1, <1>2 DEF Waves
      <3>2. Keeps(shape.hops, x, b, t, sent, pc, d)
        <4>1. \A l \in 0..shape.hops : x[l][d] = <<>> /\ b[l][d] = <<>> /\ t[l][d] = 0 /\ Offered(shape.hops, t, sent, l, d) = 0
          BY <1>1, <1>5, <1>7, <1>8
        <4>2. \A l \in 0..shape.hops : l # FirstOf(shape.hops, d) => pc[WriterHop(l, d)] = "idle"
          BY <1>1, <1>2, WriterHopIs
        <4>3. sent[d] = 0 /\ 0 + Len(<<>>) = 0 /\ 0 + Len(<<>>) + Len(<<>>) = 0
          BY <1>2, <1>9
        <4>4. ASSUME NEW l \in 0..shape.hops
              PROVE  /\ t[l][d] + Len(x[l][d]) + Len(b[l][d]) = Offered(shape.hops, t, sent, l, d)
                     /\ l # FirstOf(shape.hops, d) => pc[WriterHop(l, d)] # "closed"
          <5>1. x[l][d] = <<>> /\ b[l][d] = <<>> /\ t[l][d] = 0 /\ Offered(shape.hops, t, sent, l, d) = 0
            BY <4>1
          <5>2. t[l][d] + Len(x[l][d]) + Len(b[l][d]) = Offered(shape.hops, t, sent, l, d)
            BY <4>3, <5>1, Zenon
          <5> QED
            BY <4>2, <5>2
        <4> QED
          BY <4>4 DEF Keeps
      <3> QED
        BY <3>1, <3>2 DEF Assured
    <2> QED
      BY <1>1, <1>6, <2>1, <2>2, LastWordsAre
  <1> QED
    BY <1>3, <1>5, <1>11, <1>12 DEF Whole

LEMMA InvIs == TunnelInv <=> Base /\ (Declined \/ Whole)
  <1>1. TunnelInv <=> (TypeOK /\ Typed /\ RecordsFit /\ Connections /\ Preambles) /\ (Declined \/ Whole)
    BY Zenon DEF TunnelInv, Whole, Takable
  <1> QED
    BY <1>1, BaseIs

\* Spec => []TunnelInv: what every step of the servers, the client and the target keeps.
THEOREM TunnelInvariant == Spec => []TunnelInv
  <1>1. Init => Base /\ (Declined \/ Whole)
    BY InitBase, InitWhole
  <1>2. Base /\ (Declined \/ Whole) /\ [Next]_vars => Base' /\ (Declined' \/ Whole')
    BY NextKept DEF Kept
  <1> QED
    BY <1>1, <1>2, InvIs, PTL DEF Spec

-----------------------------------------------------------------------------
(* What the invariant says of the two streams *)

LEMMA FirstOnes ==
    ASSUME NEW S, NEW s \in Seq(S), NEW k \in 1..Len(s)
    PROVE  /\ SubSeq(s, 1, k - 1) \in Seq(S) /\ s[k] \in S
           /\ SubSeq(s, 1, k) = Append(SubSeq(s, 1, k - 1), s[k])
  <1>1. Len(s) \in Nat /\ \A i \in 1..Len(s) : s[i] \in S
    BY LenProperties
  <1>2. SubSeq(s, 1, k - 1) \in Seq(S)
    BY <1>1, SubSeqProperties
  <1>3. SubSeq(s, 1, k) = SubSeq(s, 1, k - 1) \o <<s[k]>>
    <2>1. 1 \in 1..Len(s) /\ k \in 1..Len(s)
      BY <1>1
    <2> QED
      BY <2>1, SubSeqRecursiveSecond
  <1>4. Append(SubSeq(s, 1, k - 1), s[k]) = SubSeq(s, 1, k - 1) \o <<s[k]>>
    BY <1>1, <1>2, AppendIsConcat
  <1> QED
    BY <1>1, <1>2, <1>3, <1>4, Zenon

\* Pieces that follow each other make up a stretch: q are the places where it is cut.
Pieced(q, s, k) == q[1] <= q[k + 1] /\ FlattenSeq(SubSeq(s, 1, k)) = Bytes(q[1], q[k + 1])

LEMMA PiecedNext ==
    ASSUME NEW n \in Nat \ {0}, NEW q \in [1..(n + 1) -> Nat], \A i \in 1..n : q[i] <= q[i + 1],
           NEW s \in Seq(Seq(Int)), Len(s) = n, \A i \in 1..n : s[i] = Bytes(q[i], q[i + 1]),
           NEW k \in 1..n, k = 1 \/ Pieced(q, s, k - 1)
    PROVE  Pieced(q, s, k)
  <1>1. /\ k \in 1..Len(s) /\ 1 \in 1..(n + 1) /\ k \in 1..(n + 1) /\ k + 1 \in 1..(n + 1) /\ (k - 1) + 1 = k
        /\ (k # 1 => k - 1 \in 1..n)
    OBVIOUS
  <1>2. PICK v \in Seq(Seq(Int)), y \in Seq(Int) : v = SubSeq(s, 1, k - 1) /\ y = s[k]
    BY <1>1, FirstOnes
  <1>3. SubSeq(s, 1, k) = Append(v, y)
    BY <1>1, <1>2, FirstOnes
  <1>4. PICK x \in Seq(Int) : x = FlattenSeq(v)
    BY FlattenType
  <1>5. FlattenSeq(SubSeq(s, 1, k)) = Cat(x, y)
    <2>1. FlattenSeq(Append(v, y)) = FlattenSeq(v) \o y
      BY FlattenAppend
    <2> QED
      BY <1>3, <1>4, <2>1 DEF Cat
  <1>6. PICK a \in Nat, m \in Nat, c \in Nat : a = q[1] /\ m = q[k] /\ c = q[k + 1]
    BY <1>1
  <1>7. m <= c /\ y = Bytes(m, c)
    BY <1>2, <1>6
  <1>8. a <= m /\ x = Bytes(a, m)
    <2>1. CASE k = 1
      <3>1. v = <<>>
        BY <1>2, <2>1, SubSeqEmpty
      <3>2. x = <<>> /\ a = m
        BY <1>4, <1>6, <2>1, <3>1, FlattenEmpty
      <3>3. Bytes(a, a) = <<>>
        BY BytesType
      <3> QED
        BY <3>2, <3>3
    <2>2. CASE k # 1
      <3>1. Pieced(q, s, k - 1)
        BY <2>2
      <3> QED
        BY <1>1, <1>2, <1>4, <1>6, <3>1 DEF Pieced
    <2> QED
      BY <2>1, <2>2
  <1>9. Cat(x, y) = Bytes(a, c) /\ a <= c
    BY <1>7, <1>8, BytesJoin
  <1> QED
    BY <1>5, <1>6, <1>9 DEF Pieced

LEMMA FlattenBytes ==
    ASSUME NEW n \in Nat \ {0}, NEW q \in [1..(n + 1) -> Nat], \A i \in 1..n : q[i] <= q[i + 1],
           NEW s \in Seq(Seq(Int)), Len(s) = n, \A i \in 1..n : s[i] = Bytes(q[i], q[i + 1])
    PROVE  FlattenSeq(s) = Bytes(q[1], q[n + 1]) /\ q[1] <= q[n + 1]
  <1>1. PICK Bad : Bad = {k \in 1..n : ~Pieced(q, s, k)}
    OBVIOUS
  <1>2. Bad = {}
    <2>1. SUFFICES ASSUME Bad # {} PROVE FALSE
      OBVIOUS
    <2>2. Bad \in SUBSET Nat
      BY <1>1
    <2>3. PICK k \in Bad : \A m \in Bad : k <= m
      BY <2>1, <2>2, LeastNumber
    <2>4. k \in 1..n /\ ~Pieced(q, s, k)
      BY <1>1
    <2>5. k = 1 \/ Pieced(q, s, k - 1)
      <3>1. SUFFICES ASSUME k # 1 PROVE k - 1 \notin Bad /\ k - 1 \in 1..n
        BY <1>1
      <3> QED
        BY <2>2, <2>3, <2>4, <3>1
    <2>6. PICK i \in 1..n : i = k
      BY <2>4
    <2>7. i = 1 \/ Pieced(q, s, i - 1)
      BY <2>5, <2>6
    <2>8. Pieced(q, s, i)
      BY <2>7, PiecedNext
    <2> QED
      BY <2>4, <2>6, <2>8
  <1>3. Pieced(q, s, n)
    <2>1. n \in 1..n
      OBVIOUS
    <2> QED
      BY <1>1, <1>2, <2>1, Zenon
  <1>4. SubSeq(s, 1, n) = s
    BY SubSeqFull
  <1> QED
    BY <1>3, <1>4 DEF Pieced

\* The link that a direction comes to last but for i - 1.
At(n, d, i) == IF d = "down" THEN n + 1 - i ELSE i - 1
\* What is on the links and in hand, of the same as the relay.
Pieces(n, x, b, d) == [i \in 1..(n + 1) |-> Cat(x[At(n, d, i)][d], b[At(n, d, i)][d])]

LEMMA AtIs ==
    ASSUME NEW n \in Nat \ {0}, NEW d \in Direction, NEW i \in 1..(n + 1)
    PROVE  /\ At(n, d, i) \in 0..n
           /\ At(n, d, 1) = FinalOf(n, d)
           /\ At(n, d, i) = FirstOf(n, d) <=> i = n + 1
           /\ i # n + 1 => Previous(At(n, d, i), d) = At(n, d, i + 1) /\ Before(At(n, d, i + 1), At(n, d, i), d)
  BY DEF At, FinalOf, FirstOf, Previous, Before, Direction

\* While nobody closed, what was got and what is on its way is all that was sent.
LEMMA RelayIntact ==
    ASSUME NEW n, NEW x, NEW b, NEW t, NEW s, Sizes(n, x, b, t, s), NEW g, NEW c, Relaying(n, x, b, t, s, g, c),
           \A l \in 0..n : c[l] = {}, NEW d \in Direction
    PROVE  Cat(g[d], FlattenSeq(Pieces(n, x, b, d))) = Bytes(0, s[d])
  <1>1. n \in Nat \ {0} /\ s[d] \in Nat /\ \A l \in 0..n : t[l][d] \in Nat /\ t[l][d] <= s[d]
    BY DEF Sizes, Relaying, Falling
  <1>2. PICK m \in Nat \ {0} : m = n + 1
    BY <1>1
  <1>3. PICK q : q = [i \in 1..(m + 1) |-> IF i = m + 1 THEN s[d] ELSE t[At(n, d, i)][d]]
    OBVIOUS
  <1>4. /\ q \in [1..(m + 1) -> Nat] /\ q[m + 1] = s[d]
        /\ \A i \in 1..m : At(n, d, i) \in 0..n /\ q[i] = t[At(n, d, i)][d]
    <2>1. \A i \in 1..m : At(n, d, i) \in 0..n
      BY <1>1, <1>2, AtIs
    <2>2. \A i \in 1..m : i \in 1..(m + 1) /\ i # m + 1
      BY <1>2
    <2>3. q[m + 1] = s[d] /\ \A i \in 1..m : q[i] = t[At(n, d, i)][d]
      BY <1>2, <1>3, <2>2
    <2>4. q \in [1..(m + 1) -> Nat]
      <3>1. \A i \in 1..(m + 1) : i = m + 1 \/ i \in 1..m
        BY <1>2
      <3>2. \A i \in 1..m : t[At(n, d, i)][d] \in Nat
        BY <1>1, <2>1
      <3> QED
        BY <1>1, <1>3, <3>1, <3>2
    <2> QED
      BY <2>1, <2>3, <2>4
  <1>5. PICK p : p = Pieces(n, x, b, d)
    OBVIOUS
  <1>6. \A i \in 1..m : p[i] = Cat(x[At(n, d, i)][d], b[At(n, d, i)][d])
    BY <1>2, <1>5 DEF Pieces
  <1>7. p \in Seq(Seq(Int)) /\ Len(p) = m
    <2>1. ASSUME NEW i \in 1..m PROVE p[i] \in Seq(Int)
      <3>1. PICK l \in 0..n : l = At(n, d, i)
        BY <1>4
      <3>2. PICK z \in Seq(Int), k \in Seq(Int) : z = x[l][d] /\ k = b[l][d]
        BY DEF Sizes
      <3>3. p[i] = Cat(z, k)
        BY <1>6, <3>1, <3>2
      <3> QED
        BY <3>3, CatSlots
    <2>2. DOMAIN p = 1..m /\ p = [i \in 1..m |-> p[i]]
      BY <1>2, <1>5 DEF Pieces
    <2> QED
      BY <2>1, <2>2
  <1>8. ASSUME NEW i \in 1..m PROVE q[i] <= q[i + 1] /\ p[i] = Bytes(q[i], q[i + 1])
    <2>1. PICK l \in 0..n : l = At(n, d, i)
      BY <1>4
    <2>2. q[i] = t[l][d] /\ p[i] = Cat(x[l][d], b[l][d])
      BY <1>4, <1>6, <2>1
    <2>3. Cuts(x[l][d], b[l][d], t[l][d], Offered(n, t, s, l, d), c[l])
      BY DEF Relaying, Cutting
    <2>4. Cat(x[l][d], b[l][d]) = Bytes(t[l][d], Offered(n, t, s, l, d))
      BY <2>3 DEF Cuts
    <2>5. Offered(n, t, s, l, d) = q[i + 1] /\ t[l][d] <= q[i + 1]
      <3>1. CASE i = m
        <4>1. l = FirstOf(n, d)
          BY <1>1, <1>2, <2>1, <3>1, AtIs
        <4> QED
          BY <1>1, <1>4, <3>1, <4>1 DEF Offered
      <3>2. CASE i # m
        <4>1. i + 1 \in 1..m /\ i \in 1..(n + 1) /\ i # n + 1
          BY <1>2, <3>2
        <4>2. l # FirstOf(n, d) /\ Previous(l, d) = At(n, d, i + 1) /\ Before(At(n, d, i + 1), l, d)
          BY <1>1, <2>1, <4>1, AtIs
        <4>3. q[i + 1] = t[At(n, d, i + 1)][d] /\ At(n, d, i + 1) \in 0..n
          BY <1>4, <4>1
        <4>4. t[l][d] <= t[At(n, d, i + 1)][d]
          BY <4>2, <4>3 DEF Relaying, Falling
        <4> QED
          BY <4>2, <4>3, <4>4 DEF Offered
      <3> QED
        BY <3>1, <3>2
    <2> QED
      BY <2>2, <2>4, <2>5
  <1>9. FlattenSeq(p) = Bytes(q[1], q[m + 1])
    BY <1>4, <1>7, <1>8, FlattenBytes
  <1>10. g[d] = Bytes(0, q[1])
    <2>1. At(n, d, 1) = FinalOf(n, d) /\ 1 \in 1..m
      BY <1>1, <1>2, AtIs
    <2> QED
      BY <1>4, <2>1 DEF Relaying, Getting
  <1>11. PICK a \in Nat, e \in Nat : a = q[1] /\ e = s[d] /\ a <= e
    BY <1>1, <1>2, <1>4
  <1>12. PICK y \in Seq(Int), z \in Seq(Int) : y = Bytes(0, a) /\ z = Bytes(a, e)
    BY BytesType
  <1>13. Cat(y, z) = Bytes(0, e)
    BY <1>11, <1>12, BytesJoin
  <1> QED
    BY <1>4, <1>5, <1>9, <1>10, <1>11, <1>12, <1>13

\* What the links hold of a direction and the hops have in hand are the pieces of what is on its way.
LEMMA InFlightIs ==
    ASSUME shape \in Shapes, NEW x, NEW b, Views(x, b), NEW d \in Direction
    PROVE  InFlight(d) = FlattenSeq(Pieces(shape.hops, x, b, d))
  <1>1. shape.hops \in Nat \ {0} /\ Hop = 1..shape.hops /\ Link = 0..shape.hops
    BY HopsAre
  <1> DEFINE L(i) == IF d = "down" THEN shape.hops + 1 - i ELSE i - 1
             H(i) == IF d = "down" THEN L(i) ELSE L(i) + 1
             F == [i \in 1..(shape.hops + 1) |-> Stream(L(i), d) \o (IF H(i) \in Hop THEN InHand(H(i), d) ELSE <<>>)]
  <1>2. InFlight(d) = FlattenSeq(F)
    BY DEF InFlight
  <1>3. ASSUME NEW i \in 1..(shape.hops + 1)
        PROVE  Stream(L(i), d) \o (IF H(i) \in Hop THEN InHand(H(i), d) ELSE <<>>)
                 = Cat(x[At(shape.hops, d, i)][d], b[At(shape.hops, d, i)][d])
    <2>1. PICK l \in Link : l = At(shape.hops, d, i)
      BY <1>1, AtIs
    <2>2. L(i) = l /\ H(i) = WriterHop(l, d)
      BY <2>1 DEF At, WriterHop
    <2>3. WriterHop(l, d) \in Hop <=> l # First(d)
      BY <1>1, <2>1 DEF WriterHop, First, Direction
    <2>4. (IF WriterHop(l, d) \in Hop THEN InHand(WriterHop(l, d), d) ELSE <<>>) = Behind(l, d)
      BY <2>3, Zenon DEF Behind
    <2>5. x[l][d] = Stream(l, d) /\ b[l][d] = Behind(l, d)
      BY DEF Views
    <2>6. Stream(l, d) \o (IF WriterHop(l, d) \in Hop THEN InHand(WriterHop(l, d), d) ELSE <<>>) = Cat(x[l][d], b[l][d])
      BY <2>4, <2>5, Zenon DEF Cat
    <2> HIDE DEF L, H
    <2> QED
      BY <2>1, <2>2, <2>6, Zenon
  <1>4. F = Pieces(shape.hops, x, b, d)
    BY <1>3, Zenon DEF Pieces
  <1> QED
    BY <1>2, <1>4, Zenon

LEMMA IntactIs ==
    ASSUME Base, Whole \/ Declined
    PROVE  Intact
  <1>1. shape \in Shapes /\ shape.hops \in Nat \ {0} /\ Hop = 1..shape.hops /\ Link = 0..shape.hops
    BY HopsAre DEF Base, Control
  <1>2. SUFFICES ASSUME \A l \in Link : shut[l] = {}, NEW d \in Direction
                 PROVE  got[d] \o InFlight(d) = Bytes(0, sent[d])
    BY DEF Intact
  <1>3. ~Declined
    <2>1. ASSUME NEW h \in Hop, pc[h] = "declined" PROVE FALSE
      <3>1. "far" \in shut[h - 1] /\ h - 1 \in Link
        BY <1>1, <2>1 DEF Base, Control, Connections, Dead
      <3> QED
        BY <1>2, <3>1
    <2> QED
      BY <2>1 DEF Declined
  <1>4. PICK t \in Takable : Relays(t)
    BY <1>3 DEF Whole
  <1>5. PICK x, b : Views(x, b)
    BY ViewsExist
  <1>6. t \in Counts
    BY <1>1, TakableIs
  <1>7. Sizes(shape.hops, x, b, t, sent) /\ Relaying(shape.hops, x, b, t, sent, got, shut)
    BY <1>1, <1>4, <1>5, <1>6, SizesAre, RelaysAre
  <1>8. PICK n, s, g, c : n = shape.hops /\ s = sent /\ g = got /\ c = shut
    OBVIOUS
  <1>9. Sizes(n, x, b, t, s) /\ Relaying(n, x, b, t, s, g, c) /\ \A l \in 0..n : c[l] = {}
    BY <1>1, <1>2, <1>7, <1>8
  <1>10. Cat(g[d], FlattenSeq(Pieces(n, x, b, d))) = Bytes(0, s[d])
    BY <1>9, RelayIntact
  <1>11. InFlight(d) = FlattenSeq(Pieces(n, x, b, d))
    BY <1>1, <1>5, <1>8, InFlightIs
  <1> QED
    BY <1>8, <1>10, <1>11, Zenon DEF Cat

LEMMA InOrderIs ==
    ASSUME Base, Whole \/ Declined
    PROVE  InOrder
  <1>1. shape \in Shapes /\ shape.hops \in Nat \ {0} /\ Hop = 1..shape.hops /\ Link = 0..shape.hops
    BY HopsAre DEF Base, Control
  <1>2. CASE Declined
    BY <1>2 DEF Declined, InOrder
  <1>3. CASE Whole
    <2>1. PICK t \in Takable : Relays(t)
      BY <1>3 DEF Whole
    <2>2. ASSUME NEW d \in Direction PROVE IsPrefix(got[d], Bytes(0, sent[d]))
      <3>1. Final(d) \in Link
        BY <1>1 DEF Final
      <3>2. got[d] = Bytes(0, t[Final(d)][d]) /\ t[Final(d)][d] <= sent[d]
        BY <2>1, <3>1 DEF Relays
      <3>3. PICK k \in Nat, n \in Nat : k = t[Final(d)][d] /\ n = sent[d] /\ k <= n
        BY <1>1, <3>1, <3>2 DEF Takable, Base, EndsFit
      <3>4. PICK g \in Seq(Int), s \in Seq(Int) : g = Bytes(0, k) /\ s = Bytes(0, n)
        BY BytesType
      <3>5. Len(g) = k /\ Len(s) = n /\ \A i \in 1..k : g[i] = s[i]
        <4>1. Len(g) = k - 0 /\ \A i \in 1..(k - 0) : g[i] = 0 + i
          BY <3>3, <3>4, IsBytes
        <4>2. Len(s) = n - 0 /\ \A i \in 1..(n - 0) : s[i] = 0 + i
          BY <3>3, <3>4, IsBytes
        <4> QED
          BY <3>3, <4>1, <4>2
      <3>6. IsPrefix(g, s)
        BY <3>3, <3>5 DEF IsPrefix
      <3> QED
        BY <3>2, <3>3, <3>4, <3>6
    <2> QED
      BY <2>2 DEF InOrder
  <1> QED
    BY <1>2, <1>3

\* A direction that did not get stuck is the one whose end received less than was sent.
LEMMA NotStuck ==
    ASSUME NEW n, NEW x, NEW b, NEW t, NEW s, Sizes(n, x, b, t, s), NEW g, NEW c, Relaying(n, x, b, t, s, g, c),
           NEW o \in Direction, t[FinalOf(n, o)][o] = s[o]
    PROVE  ~Sticks(n, t, s, c, o)
  <1>1. SUFFICES ASSUME NEW l \in 0..n PROVE ~(t[l][o] < Offered(n, t, s, l, o))
    BY DEF Sticks
  <1>2. PICK q \in Nat : q = Offered(n, t, s, l, o)
    BY OfferedType
  <1>3. q <= s[o]
    BY <1>2, OfferedSent DEF Relaying
  <1>4. FinalOf(n, o) \in 0..n /\ (l = FinalOf(n, o) \/ Before(FinalOf(n, o), l, o) \/ Before(l, FinalOf(n, o), o))
    BY DEF FinalOf, Before, Sizes
  <1>5. s[o] <= t[l][o]
    <2>1. t[l][o] \in Nat /\ s[o] \in Nat
      BY DEF Sizes
    <2>2. ~Before(FinalOf(n, o), l, o)
      BY DEF FinalOf, Before, Sizes, Direction
    <2> QED
      BY <1>4, <2>1, <2>2 DEF Relaying, Falling
  <1> QED
    BY <1>2, <1>3, <1>5 DEF Sizes

LEMMA LastWordsIs ==
    ASSUME Base, Whole \/ Declined
    PROVE  LastWordsArrive
  <1>1. shape \in Shapes /\ shape.hops \in Nat \ {0} /\ Hop = 1..shape.hops /\ Link = 0..shape.hops
    BY HopsAre DEF Base, Control
  <1>2. SUFFICES ASSUME NEW end \in End, NEW d \in Direction, NEW o \in Direction, NEW l,
                        d = Opposite(Sends(end)), o = Opposite(d), l = LinkOf(end),
                        Connected(end), Other(SideOf(end)) \in shut[l], wire[l][d] = <<>>, Complete(o), ~Failed
                 PROVE  Complete(d)
    BY EndsAre, Zenon DEF LastWordsArrive
  <1>3. /\ l = FinalOf(shape.hops, d) /\ SideOf(end) = Reader(d) /\ Other(SideOf(end)) = Writer(d) /\ l \in Link
        /\ l # FirstOf(shape.hops, d) /\ Reader(d) \notin shut[l] /\ Writer(d) \in shut[l]
    <2>1. l = FinalOf(shape.hops, d) /\ SideOf(end) = Reader(d)
      BY <1>2, EndsAre
    <2>2. Other(Reader(d)) = Writer(d)
      BY DEF Writer
    <2>3. l \in Link /\ l # FirstOf(shape.hops, d)
      BY <1>1, <2>1 DEF FinalOf, FirstOf
    <2> QED
      BY <1>2, <2>1, <2>2, <2>3 DEF Connected
  <1>4. Whole
    BY <1>2 DEF Declined, Failed
  <1>5. PICK t \in Takable : Relays(t) /\ LastWords(t)
    BY <1>4 DEF Whole
  <1>6. PICK x, b : Views(x, b)
    BY ViewsExist
  <1>7. Sizes(shape.hops, x, b, t, sent) /\ Relaying(shape.hops, x, b, t, sent, got, shut)
    BY <1>1, <1>5, <1>6, SizesAre, RelaysAre, TakableIs
  <1>8. Assured(shape.hops, x, b, t, sent, shut, pc, d)
    BY <1>1, <1>2, <1>3, <1>5, <1>6, LastWordsAre
  <1>9. \A e \in Direction : Len(got[e]) = t[FinalOf(shape.hops, e)][e]
    <2>1. ASSUME NEW e \in Direction PROVE Len(got[e]) = t[FinalOf(shape.hops, e)][e]
      <3>1. PICK k \in Nat : k = t[FinalOf(shape.hops, e)][e]
        BY <1>7 DEF Sizes, FinalOf
      <3>2. got[e] = Bytes(0, k)
        BY <1>7, <3>1 DEF Relaying, Getting
      <3>3. Len(Bytes(0, k)) = k
        BY BytesType
      <3> QED
        BY <3>1, <3>2, <3>3
    <2> QED
      BY <2>1
  <1>10. Keeps(shape.hops, x, b, t, sent, pc, d)
    <2>1. t[FinalOf(shape.hops, o)][o] = sent[o]
      BY <1>2, <1>9 DEF Complete
    <2>2. PICK n, g, c, s : n = shape.hops /\ g = got /\ c = shut /\ s = sent
      OBVIOUS
    <2>3. ~Sticks(n, t, s, c, o)
      BY <1>7, <2>1, <2>2, NotStuck
    <2> QED
      BY <1>2, <1>8, <2>2, <2>3 DEF Assured
  <1>11. x[l][d] = <<>>
    <2>1. held[l][d] = <<>>
      BY <1>1, <1>3 DEF Base, Preambles, FinalOf, Direction
    <2>2. x[l][d] = Holds(held[l][d], wire[l][d])
      BY <1>3, <1>6, StreamHolds DEF Views
    <2>3. Holds(<<>>, <<>>) = <<>>
      <3>1. FlattenSeq(Payload(<<>>)) = <<>>
        BY FlattenEmpty DEF Payload
      <3>2. <<>> \in Seq(Int)
        OBVIOUS
      <3> QED
        BY <3>1, <3>2, CatEmpty DEF Holds
    <2> QED
      BY <1>2, <2>1, <2>2, <2>3
  <1>12. pc[WriterHop(l, d)] = "closed"
    BY <1>2, <1>3, WriterGone
  <1>13. t[l][d] + Len(x[l][d]) = sent[d]
    BY <1>1, <1>3, <1>10, <1>12 DEF Keeps
  <1>14. t[l][d] = sent[d]
    BY <1>3, <1>7, <1>11, <1>13 DEF Sizes, FinalOf
  <1> QED
    BY <1>3, <1>9, <1>14 DEF Complete

\* Spec => []StreamsKept: whatever the two ends, the servers and the kernel do, and however many servers there
\* are, whatever their links hold and their reads return, tunnel of mod-ssltunnel.cpp keeps both streams whole
\* while nobody closes, in order however it ends, and with their last words when no hop gives up.
THEOREM StreamsAreKept == Spec => []StreamsKept
  <1>1. TunnelInv => StreamsKept
    <2>1. SUFFICES ASSUME TunnelInv PROVE StreamsKept
      OBVIOUS
    <2>2. Base /\ (Whole \/ Declined) /\ TypeOK
      BY <2>1, InvIs DEF TunnelInv
    <2> QED
      BY <2>2, IntactIs, InOrderIs, LastWordsIs DEF StreamsKept
  <1> QED
    BY <1>1, TunnelInvariant, PTL
=============================================================================
