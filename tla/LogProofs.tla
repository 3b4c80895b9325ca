----------------------------- MODULE LogProofs ------------------------------
(***************************************************************************)
(* Proofs about Log, for every size of the buffers, every set of messages  *)
(* and services and every order of calls: the main log is complete, and    *)
(* the console shows whole lines, as long as no write was short.           *)
(***************************************************************************)
EXTENDS Log, SequenceTheorems, WellFoundedInduction, TLAPS

----------------------------------------------------------------------------
(* Sequences put together *)

\* A set of natural numbers that is not empty has a least element.
LEMMA LeastNumber ==
    ASSUME NEW I \in SUBSET Nat, I # {}
    PROVE  \E m \in I : \A i \in I : m <= i
<1>1. PICK m \in I : \A i \in I : ~(<<i, m>> \in OpToRel(<, Nat))
  BY WFMin, NatLessThanWellFounded
<1>2. \A i \in I : m <= i
  <2>1. TAKE i \in I
  <2>2. ~(<<i, m>> \in {ss \in Nat \X Nat : ss[1] < ss[2]})
    BY <1>1 DEF OpToRel
  <2> QED BY <2>2
<1> QED BY <1>2

\* Induction on a natural number, for a set.
LEMMA SetInduction ==
    ASSUME NEW n \in Nat, NEW I \in SUBSET (0 .. n), 0 \in I,
           \A k \in 1 .. n : k - 1 \in I => k \in I
    PROVE  I = 0 .. n
<1> SUFFICES ASSUME (0 .. n) \ I # {} PROVE FALSE
  OBVIOUS
<1>1. (0 .. n) \ I \in SUBSET Nat
  OBVIOUS
<1>2. PICK m \in (0 .. n) \ I : \A i \in (0 .. n) \ I : m <= i
  BY <1>1, LeastNumber
<1>3. m \in 1 .. n /\ m - 1 \in 0 .. n
  BY <1>2
<1>4. m - 1 \in I
  BY <1>2, <1>3
<1> QED BY <1>2, <1>3, <1>4

\* The recursive function of FlattenSeq, as far as n.
Flattens(f, q, n) == f = [i \in 1 .. n |-> IF i = 1 THEN q[i] ELSE f[i - 1] \o q[i]]

LEMMA FlattensExists ==
    ASSUME NEW q, NEW n \in Nat
    PROVE  \E f : Flattens(f, q, n)
<1> DEFINE I == {k \in 0 .. n : \E f : Flattens(f, q, k)}
<1>1. 0 \in I
  <2> DEFINE g == [i \in 1 .. 0 |-> q[i]]
  <2>1. \A i \in 1 .. 0 : FALSE
    OBVIOUS
  <2>2. Flattens(g, q, 0)
    BY <2>1 DEF Flattens
  <2> HIDE DEF g
  <2> QED BY <2>2
<1>2. \A k \in 1 .. n : k - 1 \in I => k \in I
  <2> SUFFICES ASSUME NEW k \in 1 .. n, NEW f, Flattens(f, q, k - 1)
               PROVE  \E g : Flattens(g, q, k)
    OBVIOUS
  <2> DEFINE g == [i \in 1 .. k |-> IF i = k THEN (IF k = 1 THEN q[k] ELSE f[k - 1] \o q[k]) ELSE f[i]]
  <2>1. \A i \in 1 .. k : g[i] = IF i = 1 THEN q[i] ELSE g[i - 1] \o q[i]
    <3> SUFFICES ASSUME NEW i \in 1 .. k
                 PROVE  g[i] = IF i = 1 THEN q[i] ELSE g[i - 1] \o q[i]
      OBVIOUS
    <3>1. i \in 1 .. n /\ (i # 1 => g[i - 1] = f[i - 1])
      OBVIOUS
    <3>2. g[i] = IF i = k THEN (IF k = 1 THEN q[k] ELSE f[k - 1] \o q[k]) ELSE f[i]
      OBVIOUS
    <3>3. i # k => f[i] = IF i = 1 THEN q[i] ELSE f[i - 1] \o q[i]
      <4>1. i # k => i \in 1 .. k - 1
        OBVIOUS
      <4>2. \A j \in 1 .. k - 1 : f[j] = IF j = 1 THEN q[j] ELSE f[j - 1] \o q[j]
        <5>1. f = [j \in 1 .. k - 1 |-> IF j = 1 THEN q[j] ELSE f[j - 1] \o q[j]]
          BY DEF Flattens
        <5> QED BY <5>1, Zenon
      <4> QED BY <4>1, <4>2
    <3> HIDE DEF g
    <3> QED BY <3>1, <3>2, <3>3
  <2>2. g = [i \in 1 .. k |-> g[i]]
    OBVIOUS
  <2> HIDE DEF g
  <2>3. Flattens(g, q, k)
    BY <2>1, <2>2 DEF Flattens
  <2> QED BY <2>3
<1>3. I \in SUBSET (0 .. n)
  OBVIOUS
<1> HIDE DEF I
<1>4. I = 0 .. n
  BY <1>1, <1>2, <1>3, SetInduction
<1>5. n \in I
  BY <1>4
<1> QED BY <1>5 DEF I

\* What FlattenSeq is, for a sequence that is not empty.
FlatFcn(q) == CHOOSE f : Flattens(f, q, Len(q))

LEMMA FlattenIs ==
    ASSUME NEW S, NEW q \in Seq(S), q # <<>>
    PROVE  FlattenSeq(q) = FlatFcn(q)[Len(q)] /\ Flattens(FlatFcn(q), q, Len(q))
<1>1. Len(q) \in Nat /\ Len(q) # 0
  OBVIOUS
<1>2. \E f : Flattens(f, q, Len(q))
  BY <1>1, FlattensExists
<1>3. Flattens(FlatFcn(q), q, Len(q))
  BY <1>2, Zenon DEF FlatFcn
<1>4. FlattenSeq(q) = FlatFcn(q)[Len(q)]
  BY <1>1, Zenon DEF FlattenSeq, FlatFcn, Flattens
<1> QED BY <1>3, <1>4

LEMMA FlattenEmpty == FlattenSeq(<<>>) = <<>>
BY DEF FlattenSeq

\* Two such functions agree as far as their sequences do.
Agreeing(f, q, m, g, r, n) ==
    /\ m \in Nat /\ n \in Nat /\ m <= n
    /\ Flattens(f, q, m) /\ Flattens(g, r, n)
    /\ \A i \in 1 .. m : q[i] = r[i]

LEMMA FlattensAgree ==
    ASSUME NEW q, NEW r, NEW m, NEW n, NEW f, NEW g, Agreeing(f, q, m, g, r, n)
    PROVE  \A i \in 1 .. m : f[i] = g[i]
<1>0. m \in Nat /\ n \in Nat /\ m <= n /\ Flattens(f, q, m) /\ Flattens(g, r, n)
      /\ \A i \in 1 .. m : q[i] = r[i]
  BY DEF Agreeing
<1> DEFINE I == {k \in 0 .. m : k = 0 \/ f[k] = g[k]}
<1>1. 0 \in I
  BY <1>0
<1>2. \A k \in 1 .. m : k - 1 \in I => k \in I
  <2> SUFFICES ASSUME NEW k \in 1 .. m, k - 1 = 0 \/ f[k - 1] = g[k - 1]
               PROVE  f[k] = g[k]
    OBVIOUS
  <2>0. k \in 1 .. n /\ q[k] = r[k]
    BY <1>0
  <2>1. f[k] = IF k = 1 THEN q[k] ELSE f[k - 1] \o q[k]
    BY <1>0 DEF Flattens
  <2>2. g[k] = IF k = 1 THEN r[k] ELSE g[k - 1] \o r[k]
    BY <1>0, <2>0 DEF Flattens
  <2> QED BY <2>0, <2>1, <2>2
<1>3. I \in SUBSET (0 .. m)
  OBVIOUS
<1>4. I = 0 .. m
  <2> HIDE DEF I
  <2> QED BY <1>0, <1>1, <1>2, <1>3, SetInduction
<1> QED BY <1>4

LEMMA Appended ==
    ASSUME NEW T, NEW q \in Seq(T), NEW l \in T
    PROVE  /\ Append(q, l) \in Seq(T) /\ Append(q, l) # <<>>
           /\ Len(Append(q, l)) = Len(q) + 1 /\ Append(q, l)[Len(q) + 1] = l
           /\ \A i \in 1 .. Len(q) : Append(q, l)[i] = q[i]
<1>1. Append(q, l) \in Seq(T) /\ Len(Append(q, l)) = Len(q) + 1 /\ Len(q) \in Nat
      /\ Append(q, l)[Len(q) + 1] = l
  OBVIOUS
<1>2. ASSUME NEW i \in 1 .. Len(q) PROVE Append(q, l)[i] = q[i]
  OBVIOUS
<1>3. Append(q, l) # <<>>
  BY <1>1
<1> QED BY <1>1, <1>2, <1>3

LEMMA FlattenAppend ==
    ASSUME NEW S, NEW q \in Seq(Seq(S)), NEW l \in Seq(S)
    PROVE  FlattenSeq(Append(q, l)) = FlattenSeq(q) \o l
<1> DEFINE qq == Append(q, l)
<1>1. qq \in Seq(Seq(S)) /\ qq # <<>> /\ Len(qq) = Len(q) + 1 /\ qq[Len(q) + 1] = l
      /\ \A i \in 1 .. Len(q) : qq[i] = q[i]
  BY Appended
<1> HIDE DEF qq
<1>2. FlattenSeq(qq) = FlatFcn(qq)[Len(qq)] /\ Flattens(FlatFcn(qq), qq, Len(qq))
  BY <1>1, FlattenIs
<1>3. FlatFcn(qq)[Len(qq)] = IF Len(qq) = 1 THEN l ELSE FlatFcn(qq)[Len(qq) - 1] \o l
  <2>1. Len(qq) \in 1 .. Len(qq)
    BY <1>1
  <2> QED BY <1>1, <1>2, <2>1 DEF Flattens
<1>4. CASE q = <<>>
  <2>1. FlattenSeq(qq) = l /\ FlattenSeq(q) = <<>>
    BY <1>1, <1>2, <1>3, <1>4, FlattenEmpty
  <2> QED BY <2>1 DEF qq
<1>5. CASE q # <<>>
  <2>1. FlattenSeq(q) = FlatFcn(q)[Len(q)] /\ Flattens(FlatFcn(q), q, Len(q))
    BY <1>5, FlattenIs
  <2>2. FlatFcn(q)[Len(q)] = FlatFcn(qq)[Len(q)]
    <3>1. \A i \in 1 .. Len(q) : q[i] = qq[i]
      BY <1>1
    <3>2. Len(q) \in Nat /\ Len(qq) \in Nat /\ Len(q) <= Len(qq)
      BY <1>1
    <3>3. Flattens(FlatFcn(q), q, Len(q)) /\ Flattens(FlatFcn(qq), qq, Len(qq))
      BY <1>2, <2>1
    <3> DEFINE ff == FlatFcn(q)
               gg == FlatFcn(qq)
    <3> HIDE DEF ff, gg
    <3>5. \A i \in 1 .. Len(q) : ff[i] = gg[i]
      <4>1. Flattens(ff, q, Len(q)) /\ Flattens(gg, qq, Len(qq))
        BY <3>3 DEF ff, gg
      <4>2. Agreeing(ff, q, Len(q), gg, qq, Len(qq))
        BY <4>1, <3>1, <3>2 DEF Agreeing
      <4> QED BY <4>2, FlattensAgree
    <3>4. Len(q) \in 1 .. Len(q)
      BY <1>5
    <3> QED BY <3>4, <3>5 DEF ff, gg
  <2>3. Len(qq) # 1 /\ Len(qq) - 1 = Len(q)
    BY <1>1, <1>5
  <2> QED BY <1>2, <1>3, <2>1, <2>2, <2>3 DEF qq
<1> QED BY <1>4, <1>5

\* Two sequences are equal that have the same length and the same elements.
LEMMA SameSeq ==
    ASSUME NEW S, NEW q \in Seq(S), NEW r \in Seq(S), Len(q) = Len(r), \A i \in 1 .. Len(q) : q[i] = r[i]
    PROVE  q = r
OBVIOUS

LEMMA Retyped ==
    ASSUME NEW S, NEW q \in Seq(S), NEW T, \A i \in 1 .. Len(q) : q[i] \in T
    PROVE  q \in Seq(T)
<1>1. q \in [1 .. Len(q) -> T] /\ Len(q) \in Nat
  OBVIOUS
<1> QED BY <1>1

\* Putting together is associative.
LEMMA Associative ==
    ASSUME NEW S, NEW u \in Seq(S), NEW v \in Seq(S), NEW z \in Seq(S)
    PROVE  (u \o v) \o z = u \o (v \o z)
<1> DEFINE l == (u \o v) \o z
           r == u \o (v \o z)
           n == Len(u) + Len(v) + Len(z)
<1>1. u \o v \in Seq(S) /\ Len(u \o v) = Len(u) + Len(v) /\ v \o z \in Seq(S) /\ Len(v \o z) = Len(v) + Len(z)
      /\ Len(u) \in Nat /\ Len(v) \in Nat /\ Len(z) \in Nat
  OBVIOUS
<1>2. l \in Seq(S) /\ r \in Seq(S) /\ Len(l) = n /\ Len(r) = n
  BY <1>1
<1>3. \A i \in 1 .. n : l[i] = IF i <= Len(u) THEN u[i]
                                ELSE IF i <= Len(u) + Len(v) THEN v[i - Len(u)] ELSE z[i - Len(u) - Len(v)]
  BY <1>1
<1>4. \A i \in 1 .. n : r[i] = IF i <= Len(u) THEN u[i]
                                ELSE IF i <= Len(u) + Len(v) THEN v[i - Len(u)] ELSE z[i - Len(u) - Len(v)]
  BY <1>1
<1> HIDE DEF l, r
<1>5. \A i \in 1 .. Len(l) : l[i] = r[i]
  BY <1>2, <1>3, <1>4
<1>6. l = r
  BY <1>2, <1>5, SameSeq
<1> QED BY <1>6 DEF l, r

LEMMA JoinAppend ==
    ASSUME NEW S, NEW u \in Seq(S), NEW v \in Seq(S), NEW c \in S
    PROVE  (u \o v) \o <<c>> = u \o Append(v, c)
<1>1. <<c>> \in Seq(S) /\ Append(v, c) = v \o <<c>>
  BY AppendIsConcat
<1>2. (u \o v) \o <<c>> = u \o (v \o <<c>>)
  BY <1>1, Associative
<1> QED BY <1>1, <1>2

LEMMA Prefix ==
    ASSUME NEW S, NEW q \in Seq(S), NEW n \in 0 .. Len(q)
    PROVE  /\ SubSeq(q, 1, n) \in Seq(S) /\ Len(SubSeq(q, 1, n)) = n
           /\ \A i \in 1 .. n : SubSeq(q, 1, n)[i] = q[i]
OBVIOUS

LEMMA PrefixStep ==
    ASSUME NEW S, NEW q \in Seq(S), NEW n \in 1 .. Len(q)
    PROVE  SubSeq(q, 1, n) = Append(SubSeq(q, 1, n - 1), q[n]) /\ SubSeq(q, 1, n - 1) \in Seq(S)
<1> DEFINE a == SubSeq(q, 1, n)
           p == SubSeq(q, 1, n - 1)
<1>1. n \in 0 .. Len(q) /\ n - 1 \in 0 .. Len(q) /\ q[n] \in S
  OBVIOUS
<1>2. a \in Seq(S) /\ Len(a) = n /\ \A i \in 1 .. n : a[i] = q[i]
  BY <1>1, Prefix
<1>3. p \in Seq(S) /\ Len(p) = n - 1 /\ \A i \in 1 .. n - 1 : p[i] = q[i]
  BY <1>1, Prefix
<1> HIDE DEF a, p
<1>4. Append(p, q[n]) \in Seq(S) /\ Len(Append(p, q[n])) = n
  BY <1>1, <1>3
<1>5. \A i \in 1 .. n : a[i] = Append(p, q[n])[i]
  BY <1>1, <1>2, <1>3
<1>6. a = Append(p, q[n])
  BY <1>2, <1>4, <1>5, SameSeq
<1> QED BY <1>3, <1>6 DEF a, p

\* The first n sequences of q put together.
Flat(q, n) == FlattenSeq(SubSeq(q, 1, n))

LEMMA FlatStart ==
    ASSUME NEW S, NEW q \in Seq(Seq(S))
    PROVE  Flat(q, 0) = <<>> /\ Flat(q, Len(q)) = FlattenSeq(q)
<1>1. SubSeq(q, 1, 0) = <<>>
  OBVIOUS
<1>2. SubSeq(q, 1, Len(q)) = q
  OBVIOUS
<1> QED BY <1>1, <1>2, FlattenEmpty DEF Flat

LEMMA FlatStep ==
    ASSUME NEW S, NEW q \in Seq(Seq(S)), NEW n \in 1 .. Len(q)
    PROVE  Flat(q, n) = Flat(q, n - 1) \o q[n]
<1>1. SubSeq(q, 1, n) = Append(SubSeq(q, 1, n - 1), q[n]) /\ SubSeq(q, 1, n - 1) \in Seq(Seq(S))
  BY PrefixStep
<1>2. q[n] \in Seq(S)
  OBVIOUS
<1>3. FlattenSeq(Append(SubSeq(q, 1, n - 1), q[n])) = FlattenSeq(SubSeq(q, 1, n - 1)) \o q[n]
  BY <1>1, <1>2, FlattenAppend
<1> QED BY <1>1, <1>3 DEF Flat

LEMMA FlatType ==
    ASSUME NEW S, NEW q \in Seq(Seq(S))
    PROVE  FlattenSeq(q) \in Seq(S) /\ \A n \in 0 .. Len(q) : Flat(q, n) \in Seq(S)
<1> DEFINE I == {n \in 0 .. Len(q) : Flat(q, n) \in Seq(S)}
<1>1. 0 \in I
  <2>1. Flat(q, 0) = <<>>
    BY FlatStart
  <2>2. <<>> \in Seq(S) /\ 0 \in 0 .. Len(q)
    OBVIOUS
  <2> QED BY <2>1, <2>2
<1>2. \A k \in 1 .. Len(q) : k - 1 \in I => k \in I
  <2> SUFFICES ASSUME NEW k \in 1 .. Len(q), Flat(q, k - 1) \in Seq(S)
               PROVE  Flat(q, k) \in Seq(S)
    OBVIOUS
  <2>1. Flat(q, k) = Flat(q, k - 1) \o q[k]
    BY FlatStep
  <2>2. q[k] \in Seq(S)
    OBVIOUS
  <2> QED BY <2>1, <2>2
<1>3. I \in SUBSET (0 .. Len(q)) /\ Len(q) \in Nat
  OBVIOUS
<1>4. I = 0 .. Len(q)
  <2> HIDE DEF I
  <2> QED BY <1>1, <1>2, <1>3, SetInduction
<1>5. Len(q) \in 0 .. Len(q)
  BY <1>3
<1> QED BY <1>4, <1>5, FlatStart

----------------------------------------------------------------------------
(* The text that was written: what the notices leave *)

Bytes == Int
Byte == Int \ Range(Notice)

\* Each byte as a sequence, the bytes of a notice as the empty one.
Lines(w) == [k \in DOMAIN w |-> IF IsNotice(w[k]) THEN <<>> ELSE <<w[k]>>]

LEMMA LinesType ==
    ASSUME NEW w \in Seq(Bytes)
    PROVE  Lines(w) \in Seq(Seq(Bytes)) /\ Len(Lines(w)) = Len(w)
<1>1. \A k \in 1 .. Len(w) : (IF IsNotice(w[k]) THEN <<>> ELSE <<w[k]>>) \in Seq(Bytes)
  OBVIOUS
<1>2. DOMAIN w = 1 .. Len(w)
  OBVIOUS
<1>3. Lines(w) \in [1 .. Len(w) -> Seq(Bytes)]
  BY <1>1, <1>2 DEF Lines
<1> QED BY <1>3

\* The text of what is written after s, as far as the n-th byte of w.
LEMMA TextStart ==
    ASSUME NEW s \in Seq(Bytes), NEW w \in Seq(Bytes)
    PROVE  /\ Lines(s \o w) \in Seq(Seq(Bytes)) /\ Len(Lines(s \o w)) = Len(s) + Len(w)
           /\ Flat(Lines(s \o w), Len(s)) = TextOf(s)
           /\ Flat(Lines(s \o w), Len(s) + Len(w)) = TextOf(s \o w)
           /\ \A n \in 1 .. Len(w) :
                Flat(Lines(s \o w), Len(s) + n) =
                  Flat(Lines(s \o w), Len(s) + (n - 1)) \o (IF IsNotice(w[n]) THEN <<>> ELSE <<w[n]>>)
<1> DEFINE t == s \o w
<1>1. t \in Seq(Bytes) /\ Len(t) = Len(s) + Len(w) /\ (\A i \in 1 .. Len(s) : t[i] = s[i])
      /\ (\A n \in 1 .. Len(w) : t[Len(s) + n] = w[n]) /\ Len(s) \in Nat /\ Len(w) \in Nat
  OBVIOUS
<1> HIDE DEF t
<1>2. Lines(t) \in Seq(Seq(Bytes)) /\ Len(Lines(t)) = Len(s) + Len(w)
  BY <1>1, LinesType
<1>3. Lines(s) \in Seq(Seq(Bytes)) /\ Len(Lines(s)) = Len(s)
  BY LinesType
<1>4. SubSeq(Lines(t), 1, Len(s)) = Lines(s)
  <2>1. Len(s) \in 0 .. Len(Lines(t))
    BY <1>1, <1>2
  <2> DEFINE p == SubSeq(Lines(t), 1, Len(s))
  <2>2. p \in Seq(Seq(Bytes)) /\ Len(p) = Len(s) /\ \A i \in 1 .. Len(s) : p[i] = Lines(t)[i]
    BY <1>2, <2>1, Prefix
  <2>3. \A i \in 1 .. Len(s) : Lines(t)[i] = Lines(s)[i]
    BY <1>1 DEF Lines
  <2> HIDE DEF p
  <2>4. p = Lines(s)
    BY <1>3, <2>2, <2>3, SameSeq
  <2> QED BY <2>4 DEF p
<1>5. Flat(Lines(t), Len(s)) = TextOf(s)
  BY <1>4 DEF Flat, TextOf, Lines
<1>6. Flat(Lines(t), Len(s) + Len(w)) = TextOf(t)
  <2>1. Flat(Lines(t), Len(Lines(t))) = FlattenSeq(Lines(t))
    BY <1>2, FlatStart
  <2> QED BY <1>2, <2>1 DEF TextOf, Lines
<1>7. ASSUME NEW n \in 1 .. Len(w)
      PROVE  Flat(Lines(t), Len(s) + n) =
                Flat(Lines(t), Len(s) + (n - 1)) \o (IF IsNotice(w[n]) THEN <<>> ELSE <<w[n]>>)
  <2>1. Len(s) + n \in 1 .. Len(Lines(t)) /\ Len(s) + n \in DOMAIN t
    BY <1>1, <1>2
  <2>2. Flat(Lines(t), Len(s) + n) = Flat(Lines(t), Len(s) + (n - 1)) \o Lines(t)[Len(s) + n]
    <3> DEFINE k == Len(s) + n
    <3>1. k \in 1 .. Len(Lines(t))
      BY <2>1
    <3> HIDE DEF k
    <3>2. Flat(Lines(t), k) = Flat(Lines(t), k - 1) \o Lines(t)[k]
      BY <1>2, <3>1, FlatStep
    <3>3. k - 1 = Len(s) + (n - 1)
      BY <1>1 DEF k
    <3>4. Flat(Lines(t), k) = Flat(Lines(t), Len(s) + (n - 1)) \o Lines(t)[k]
      BY <3>2, <3>3
    <3> QED BY <3>4, Zenon DEF k
  <2>3. t[Len(s) + n] = w[n]
    BY <1>1
  <2>4. Lines(t)[Len(s) + n] = IF IsNotice(w[n]) THEN <<>> ELSE <<w[n]>>
    BY <2>1, <2>3, Zenon DEF Lines
  <2> QED BY <2>2, <2>4
<1> QED BY <1>2, <1>5, <1>6, <1>7 DEF t

\* Bytes that are no notice are text as they are.
LEMMA TextOfBytes ==
    ASSUME NEW s \in Seq(Bytes), NEW w \in Seq(Byte)
    PROVE  TextOf(s \o w) = TextOf(s) \o w
<1> DEFINE F(n) == Flat(Lines(s \o w), Len(s) + n)
           I == {n \in 0 .. Len(w) : F(n) = TextOf(s) \o SubSeq(w, 1, n)}
<1>0. w \in Seq(Bytes) /\ Len(w) \in Nat /\ Len(s) \in Nat /\ TextOf(s) \in Seq(Bytes)
  <2>1. w \in Seq(Bytes)
    BY DEF Byte, Bytes
  <2>2. TextOf(s) \in Seq(Bytes)
    BY LinesType, FlatType DEF TextOf, Lines
  <2> QED BY <2>1, <2>2
<1>1. F(0) = TextOf(s) /\ F(Len(w)) = TextOf(s \o w)
      /\ \A n \in 1 .. Len(w) : F(n) = F(n - 1) \o (IF IsNotice(w[n]) THEN <<>> ELSE <<w[n]>>)
  <2>1. Len(s) + 0 = Len(s)
    BY <1>0
  <2> QED BY <1>0, <2>1, TextStart
<1> HIDE DEF F
<1>2. 0 \in I
  <2>1. SubSeq(w, 1, 0) = <<>> /\ 0 \in 0 .. Len(w)
    BY <1>0
  <2> QED BY <1>0, <1>1, <2>1
<1>3. \A k \in 1 .. Len(w) : k - 1 \in I => k \in I
  <2> SUFFICES ASSUME NEW k \in 1 .. Len(w), F(k - 1) = TextOf(s) \o SubSeq(w, 1, k - 1)
               PROVE  F(k) = TextOf(s) \o SubSeq(w, 1, k)
    OBVIOUS
  <2>1. w[k] \in Byte
    OBVIOUS
  <2>2. ~IsNotice(w[k])
    BY <2>1 DEF Byte, IsNotice
  <2>3. F(k) = F(k - 1) \o <<w[k]>>
    BY <1>1, <2>2
  <2>4. SubSeq(w, 1, k) = Append(SubSeq(w, 1, k - 1), w[k]) /\ SubSeq(w, 1, k - 1) \in Seq(Byte)
    BY PrefixStep
  <2>5. SubSeq(w, 1, k - 1) \in Seq(Bytes) /\ w[k] \in Bytes
    BY <2>1, <2>4 DEF Byte, Bytes
  <2>6. (TextOf(s) \o SubSeq(w, 1, k - 1)) \o <<w[k]>> = TextOf(s) \o Append(SubSeq(w, 1, k - 1), w[k])
    BY <1>0, <2>5, JoinAppend, ZenonT(40)
  <2> QED BY <2>3, <2>4, <2>6
<1>4. I \in SUBSET (0 .. Len(w))
  OBVIOUS
<1>5. I = 0 .. Len(w)
  <2> HIDE DEF I
  <2> QED BY <1>0, <1>2, <1>3, <1>4, SetInduction
<1>6. Len(w) \in I
  BY <1>0, <1>5
<1>7. SubSeq(w, 1, Len(w)) = w
  OBVIOUS
<1> QED BY <1>1, <1>6, <1>7

\* A notice is no text.
LEMMA TextOfNotice ==
    ASSUME NEW s \in Seq(Bytes), NEW w \in Seq(Range(Notice))
    PROVE  TextOf(s \o w) = TextOf(s)
<1> DEFINE F(n) == Flat(Lines(s \o w), Len(s) + n)
           I == {n \in 0 .. Len(w) : F(n) = TextOf(s)}
<1>0. w \in Seq(Bytes) /\ Len(w) \in Nat /\ Len(s) \in Nat /\ TextOf(s) \in Seq(Bytes)
  <2>1. w \in Seq(Bytes)
    BY DEF Range, Notice, Bytes
  <2>2. TextOf(s) \in Seq(Bytes)
    BY LinesType, FlatType DEF TextOf, Lines
  <2> QED BY <2>1, <2>2
<1>1. F(0) = TextOf(s) /\ F(Len(w)) = TextOf(s \o w)
      /\ \A n \in 1 .. Len(w) : F(n) = F(n - 1) \o (IF IsNotice(w[n]) THEN <<>> ELSE <<w[n]>>)
  <2>1. Len(s) + 0 = Len(s)
    BY <1>0
  <2> QED BY <1>0, <2>1, TextStart
<1> HIDE DEF F
<1>2. 0 \in I
  BY <1>0, <1>1
<1>3. \A k \in 1 .. Len(w) : k - 1 \in I => k \in I
  <2> SUFFICES ASSUME NEW k \in 1 .. Len(w), F(k - 1) = TextOf(s)
               PROVE  F(k) = TextOf(s)
    OBVIOUS
  <2>1. w[k] \in Range(Notice)
    OBVIOUS
  <2>2. F(k) = F(k - 1) \o <<>>
    BY <1>1, <2>1 DEF IsNotice
  <2> QED BY <1>0, <2>2
<1>4. I \in SUBSET (0 .. Len(w))
  OBVIOUS
<1>5. I = 0 .. Len(w)
  <2> HIDE DEF I
  <2> QED BY <1>0, <1>2, <1>3, <1>4, SetInduction
<1>6. Len(w) \in I
  BY <1>0, <1>5
<1> QED BY <1>1, <1>6

----------------------------------------------------------------------------
(* The circular buffer *)

Ring == [buf : [0 .. Capacity - 1 -> Byte], cur_idx : 0 .. Capacity - 1, length : 0 .. Capacity]

LEMMA RingFields ==
    ASSUME NEW b \in Ring
    PROVE  /\ b.buf \in [0 .. Capacity - 1 -> Byte] /\ b.cur_idx \in 0 .. Capacity - 1
           /\ b.length \in 0 .. Capacity /\ b.cur_idx \in Nat /\ b.length \in Nat /\ Capacity \in Nat \ {0}
BY LogAssumption DEF Ring

\* The places of a buffer.
LEMMA WrapType ==
    ASSUME NEW p \in 0 .. 2 * Capacity - 1
    PROVE  B!Wrap(p) \in 0 .. Capacity - 1
BY LogAssumption DEF B!Wrap

LEMMA WrapTwice ==
    ASSUME NEW x \in 0 .. Capacity - 1, NEW n \in 0 .. Capacity, NEW i \in n + 1 .. Capacity
    PROVE  B!Wrap(B!Wrap(x + n) + (i - n) - 1) = B!Wrap(x + i - 1)
<1>0. Capacity \in Nat \ {0} /\ n \in Nat /\ i \in Nat /\ x \in Nat
  BY LogAssumption
<1>1. CASE x + n >= Capacity
  BY <1>0, <1>1 DEF B!Wrap
<1>2. CASE ~(x + n >= Capacity)
  BY <1>0, <1>2 DEF B!Wrap
<1> QED BY <1>1, <1>2

\* How far the place of the i-th byte is from the first free place.
LEMMA WrapDistance ==
    ASSUME NEW x \in 0 .. Capacity - 1, NEW n \in 0 .. Capacity, NEW i \in 1 .. Capacity
    PROVE  LET f == B!Wrap(x + n)
               j == B!Wrap(x + i - 1)
           IN  (IF j >= f THEN j - f ELSE j - f + Capacity) =
                  IF i <= n THEN i - 1 - n + Capacity ELSE i - 1 - n
<1>0. Capacity \in Nat \ {0} /\ n \in Nat /\ i \in Nat /\ x \in Nat
  BY LogAssumption
<1>1. CASE x + n >= Capacity
  BY <1>0, <1>1 DEF B!Wrap
<1>2. CASE ~(x + n >= Capacity)
  BY <1>0, <1>2 DEF B!Wrap
<1> QED BY <1>1, <1>2

LEMMA ExtractIs ==
    ASSUME NEW b \in Ring, NEW k \in 0 .. Capacity, NEW n \in 0 .. Capacity, k + n <= Capacity
    PROVE  /\ B!extract(b, k, n) \in Seq(Byte) /\ Len(B!extract(b, k, n)) = n
           /\ \A i \in 1 .. n : B!extract(b, k, n)[i] = b.buf[B!Wrap(b.cur_idx + k + i - 1)]
<1>1. \A i \in 1 .. n : B!At(b, k + i - 1) \in Byte /\ B!At(b, k + i - 1) = b.buf[B!Wrap(b.cur_idx + k + i - 1)]
  <2> SUFFICES ASSUME NEW i \in 1 .. n
               PROVE  B!At(b, k + i - 1) \in Byte /\ B!At(b, k + i - 1) = b.buf[B!Wrap(b.cur_idx + k + i - 1)]
    OBVIOUS
  <2>1. b.cur_idx + k + i - 1 \in 0 .. 2 * Capacity - 1 /\ b.cur_idx + (k + i - 1) = b.cur_idx + k + i - 1
    BY RingFields
  <2>2. B!Wrap(b.cur_idx + k + i - 1) \in 0 .. Capacity - 1
    BY <2>1, WrapType
  <2> QED BY <2>1, <2>2, RingFields DEF B!At
<1>2. B!extract(b, k, n) \in [1 .. n -> Byte]
  BY <1>1 DEF B!extract
<1>3. n \in Nat
  BY LogAssumption
<1> QED BY <1>1, <1>2, <1>3 DEF B!extract

LEMMA ContentsIs ==
    ASSUME NEW b \in Ring
    PROVE  /\ B!Contents(b) \in Seq(Byte) /\ Len(B!Contents(b)) = b.length
           /\ \A i \in 1 .. b.length : B!Contents(b)[i] = b.buf[B!Wrap(b.cur_idx + i - 1)]
<1>1. 0 \in 0 .. Capacity /\ 0 + b.length <= Capacity /\ b.length \in 0 .. Capacity
  BY RingFields
<1>2. \A i \in 1 .. b.length : b.cur_idx + 0 + i - 1 = b.cur_idx + i - 1
  BY RingFields
<1>3. /\ B!extract(b, 0, b.length) \in Seq(Byte) /\ Len(B!extract(b, 0, b.length)) = b.length
      /\ \A i \in 1 .. b.length : B!extract(b, 0, b.length)[i] = b.buf[B!Wrap(b.cur_idx + 0 + i - 1)]
  BY <1>1, ExtractIs
<1>4. B!Contents(b) = B!extract(b, 0, b.length)
  BY DEF B!Contents
<1> QED BY <1>2, <1>3, <1>4

\* append() adds at the end.
LEMMA AppendAdds ==
    ASSUME NEW b \in Ring, NEW l \in Seq(Byte), Len(l) <= B!get_free(b)
    PROVE  /\ B!append(b, l) \in Ring /\ B!append(b, l).length = b.length + Len(l)
           /\ B!append(b, l).cur_idx = b.cur_idx
           /\ B!Contents(B!append(b, l)) = B!Contents(b) \o l
<1> DEFINE c == B!append(b, l)
           index == B!Wrap(b.cur_idx + b.length)
           k(j) == IF j >= index THEN j - index ELSE j - index + Capacity
<1>1. Len(l) \in Nat /\ b.length + Len(l) \in 0 .. Capacity /\ index \in 0 .. Capacity - 1
  <2>1. b.cur_idx + b.length \in 0 .. 2 * Capacity - 1
    BY RingFields
  <2>2. index \in 0 .. Capacity - 1
    BY <2>1, WrapType
  <2>3. Len(l) \in Nat /\ b.length + Len(l) \in 0 .. Capacity
    BY RingFields DEF B!get_free
  <2> QED BY <2>2, <2>3
<1>2. c = [b EXCEPT !.buf = [j \in 0 .. Capacity - 1 |-> IF k(j) < Len(l) THEN l[k(j) + 1] ELSE b.buf[j]],
                    !.length = b.length + Len(l)]
  BY DEF B!append
<1>3. \A j \in 0 .. Capacity - 1 : k(j) \in 0 .. Capacity - 1 /\ (k(j) < Len(l) => l[k(j) + 1] \in Byte)
  <2> SUFFICES ASSUME NEW j \in 0 .. Capacity - 1
               PROVE  k(j) \in 0 .. Capacity - 1 /\ (k(j) < Len(l) => l[k(j) + 1] \in Byte)
    OBVIOUS
  <2>1. k(j) \in 0 .. Capacity - 1
    BY <1>1, RingFields
  <2> HIDE DEF k
  <2>2. k(j) < Len(l) => k(j) + 1 \in 1 .. Len(l)
    BY <1>1, <2>1, RingFields
  <2> QED BY <2>1, <2>2
<1> DEFINE nb == [j \in 0 .. Capacity - 1 |-> IF k(j) < Len(l) THEN l[k(j) + 1] ELSE b.buf[j]]
<1>4. nb \in [0 .. Capacity - 1 -> Byte]
  <2> HIDE DEF k
  <2> QED BY <1>3, RingFields
<1>5. c.buf = nb /\ c.length = b.length + Len(l) /\ c.cur_idx = b.cur_idx /\ c \in Ring
  <2> HIDE DEF k, nb, c
  <2>1. c = [b EXCEPT !.buf = nb, !.length = b.length + Len(l)]
    BY <1>2 DEF nb
  <2> QED BY <1>1, <1>4, <2>1 DEF Ring
<1>6. \A i \in 1 .. b.length + Len(l) : B!Contents(c)[i] = (B!Contents(b) \o l)[i]
  <2> SUFFICES ASSUME NEW i \in 1 .. b.length + Len(l)
               PROVE  B!Contents(c)[i] = (B!Contents(b) \o l)[i]
    OBVIOUS
  <2> DEFINE p == B!Wrap(b.cur_idx + i - 1)
  <2>1. B!Contents(c)[i] = c.buf[p]
    <3>1. i \in 1 .. c.length
      BY <1>5
    <3> HIDE DEF c, p
    <3>2. B!Contents(c)[i] = c.buf[B!Wrap(c.cur_idx + i - 1)]
      BY <1>5, <3>1, ContentsIs
    <3> QED BY <1>5, <3>2 DEF p
  <2>2. p \in 0 .. Capacity - 1
    <3> DEFINE q == b.cur_idx + i - 1
    <3>1. q \in 0 .. 2 * Capacity - 1
      <4> HIDE DEF k, index, nb, c, p
      <4> QED BY <1>1, RingFields, SMTT(20)
    <3> HIDE DEF q
    <3>2. B!Wrap(q) \in 0 .. Capacity - 1
      BY <3>1, WrapType
    <3> QED BY <3>2 DEF q
  <2>3. k(p) = IF i <= b.length THEN i - 1 - b.length + Capacity ELSE i - 1 - b.length
    <3>1. i \in 1 .. Capacity
      BY <1>1, RingFields
    <3> QED BY <3>1, RingFields, WrapDistance
  <2>4. c.buf[p] = IF k(p) < Len(l) THEN l[k(p) + 1] ELSE b.buf[p]
    <3> HIDE DEF p, c
    <3> QED BY <1>5, <2>2
  <2>5. (B!Contents(b) \o l)[i] = IF i <= b.length THEN B!Contents(b)[i] ELSE l[i - b.length]
    <3>1. B!Contents(b) \in Seq(Byte) /\ Len(B!Contents(b)) = b.length /\ b.length \in Nat
      BY ContentsIs, RingFields
    <3> DEFINE u == B!Contents(b)
    <3> HIDE DEF u, k, index, nb, c, p
    <3>2. u \in Seq(Byte) /\ Len(u) = b.length
      BY <3>1 DEF u
    <3>3. (u \o l)[i] = IF i <= b.length THEN u[i] ELSE l[i - b.length]
      BY <1>1, <3>1, <3>2, SMTT(20)
    <3> QED BY <3>3 DEF u
  <2>6. CASE i <= b.length
    <3>1. ~(k(p) < Len(l))
      <4> HIDE DEF k, p
      <4> QED BY <1>1, <2>3, <2>6, RingFields
    <3>2. B!Contents(b)[i] = b.buf[p]
      BY <2>6, ContentsIs, RingFields
    <3> HIDE DEF k, p, c
    <3> QED BY <2>1, <2>4, <2>5, <2>6, <3>1, <3>2
  <2>7. CASE ~(i <= b.length)
    <3>1. k(p) < Len(l) /\ k(p) + 1 = i - b.length
      <4> HIDE DEF k, p
      <4> QED BY <1>1, <2>3, <2>7, RingFields
    <3> HIDE DEF k, p, c
    <3> QED BY <2>1, <2>4, <2>5, <2>7, <3>1
  <2> QED BY <2>6, <2>7
<1>7. B!Contents(c) \in Seq(Byte) /\ Len(B!Contents(c)) = b.length + Len(l)
      /\ B!Contents(b) \o l \in Seq(Byte) /\ Len(B!Contents(b) \o l) = b.length + Len(l)
  <2> HIDE DEF c
  <2>1. B!Contents(c) \in Seq(Byte) /\ Len(B!Contents(c)) = b.length + Len(l)
    BY <1>5, ContentsIs
  <2>2. B!Contents(b) \in Seq(Byte) /\ Len(B!Contents(b)) = b.length
    BY ContentsIs
  <2>3. B!Contents(b) \o l \in Seq(Byte) /\ Len(B!Contents(b) \o l) = b.length + Len(l)
    <3> DEFINE u == B!Contents(b)
    <3> HIDE DEF u
    <3>1. u \in Seq(Byte) /\ Len(u) = b.length
      BY <2>2 DEF u
    <3>2. u \o l \in Seq(Byte) /\ Len(u \o l) = Len(u) + Len(l)
      BY <3>1, ConcatProperties
    <3> QED BY <3>1, <3>2 DEF u
  <2> QED BY <2>1, <2>3
<1>8. B!Contents(c) = B!Contents(b) \o l
  <2> HIDE DEF c
  <2> QED BY <1>6, <1>7, SameSeq
<1> QED BY <1>5, <1>8 DEF c

\* consume() takes what extract() read from the start.
LEMMA ConsumeTakes ==
    ASSUME NEW b \in Ring, NEW n \in 0 .. b.length
    PROVE  /\ B!consume(b, n) \in Ring /\ B!consume(b, n).length = b.length - n
           /\ B!extract(b, 0, n) \in Seq(Byte) /\ Len(B!extract(b, 0, n)) = n
           /\ B!extract(b, 0, n) \o B!Contents(B!consume(b, n)) = B!Contents(b)
<1> DEFINE c == B!consume(b, n)
           x == B!extract(b, 0, n)
<1>0. n \in Nat /\ n <= b.length /\ n \in 0 .. Capacity
  BY RingFields
<1>1. c.buf = b.buf /\ c.length = b.length - n /\ c.cur_idx = B!Wrap(b.cur_idx + n) /\ c \in Ring
  <2>1. b.cur_idx + n \in 0 .. 2 * Capacity - 1 /\ b.length - n \in 0 .. Capacity
    BY <1>0, RingFields
  <2>2. B!Wrap(b.cur_idx + n) \in 0 .. Capacity - 1
    BY <2>1, WrapType
  <2>3. c = [b EXCEPT !.cur_idx = B!Wrap(b.cur_idx + n), !.length = b.length - n]
    BY DEF B!consume
  <2> HIDE DEF c
  <2> QED BY <2>1, <2>2, <2>3 DEF Ring
<1>2. x \in Seq(Byte) /\ Len(x) = n /\ \A i \in 1 .. n : x[i] = b.buf[B!Wrap(b.cur_idx + 0 + i - 1)]
  BY <1>0, ExtractIs, RingFields
<1> HIDE DEF c, x
<1>3. B!Contents(c) \in Seq(Byte) /\ Len(B!Contents(c)) = b.length - n
      /\ \A i \in 1 .. b.length - n : B!Contents(c)[i] = b.buf[B!Wrap(B!Wrap(b.cur_idx + n) + i - 1)]
  BY <1>1, ContentsIs
<1>4. B!Contents(b) \in Seq(Byte) /\ Len(B!Contents(b)) = b.length
      /\ \A i \in 1 .. b.length : B!Contents(b)[i] = b.buf[B!Wrap(b.cur_idx + i - 1)]
  BY ContentsIs
<1>5. x \o B!Contents(c) \in Seq(Byte) /\ Len(x \o B!Contents(c)) = b.length
  <2>1. x \o B!Contents(c) \in Seq(Byte) /\ Len(x \o B!Contents(c)) = n + (b.length - n)
    BY <1>2, <1>3, ConcatProperties
  <2> QED BY <1>0, <2>1, RingFields
<1>6. \A i \in 1 .. b.length : (x \o B!Contents(c))[i] = B!Contents(b)[i]
  <2> SUFFICES ASSUME NEW i \in 1 .. b.length
               PROVE  (x \o B!Contents(c))[i] = B!Contents(b)[i]
    OBVIOUS
  <2>1. (x \o B!Contents(c))[i] = IF i <= n THEN x[i] ELSE B!Contents(c)[i - n]
    BY <1>0, <1>2, <1>3, RingFields
  <2>2. CASE i <= n
    <3>1. x[i] = b.buf[B!Wrap(b.cur_idx + 0 + i - 1)] /\ b.cur_idx + 0 + i - 1 = b.cur_idx + i - 1
      BY <1>0, <1>2, <2>2, RingFields
    <3> QED BY <1>4, <2>1, <2>2, <3>1
  <2>3. CASE ~(i <= n)
    <3>1. i - n \in 1 .. b.length - n
      BY <1>0, <2>3, RingFields
    <3>2. B!Contents(c)[i - n] = b.buf[B!Wrap(B!Wrap(b.cur_idx + n) + (i - n) - 1)]
      BY <1>3, <3>1
    <3>3. B!Wrap(B!Wrap(b.cur_idx + n) + (i - n) - 1) = B!Wrap(b.cur_idx + i - 1)
      <4>1. i \in n + 1 .. Capacity
        BY <1>0, <2>3, RingFields
      <4> QED BY <1>0, <4>1, WrapTwice, RingFields
    <3> QED BY <1>4, <2>1, <2>3, <3>2, <3>3
  <2> QED BY <2>2, <2>3
<1>7. x \o B!Contents(c) = B!Contents(b)
  BY <1>4, <1>5, <1>6, SameSeq
<1> QED BY <1>1, <1>2, <1>7 DEF c, x

\* trim_to() leaves the start as it is.
LEMMA TrimKeeps ==
    ASSUME NEW b \in Ring, NEW n \in 0 .. Capacity
    PROVE  /\ B!trim_to(b, n) \in Ring /\ B!trim_to(b, n).length = n
           /\ n <= b.length => \A i \in 1 .. n : B!Contents(B!trim_to(b, n))[i] = B!Contents(b)[i]
<1> DEFINE c == B!trim_to(b, n)
<1>1. c \in Ring /\ c.length = n /\ c.buf = b.buf /\ c.cur_idx = b.cur_idx
  BY DEF B!trim_to, Ring
<1> HIDE DEF c
<1>2. ASSUME n <= b.length, NEW i \in 1 .. n PROVE B!Contents(c)[i] = B!Contents(b)[i]
  <2>1. i \in 1 .. b.length /\ i \in 1 .. c.length
    BY <1>1, <1>2, RingFields
  <2> QED BY <1>1, <2>1, ContentsIs
<1> QED BY <1>1, <1>2 DEF c

----------------------------------------------------------------------------
(* The inductive invariant *)

StreamType ==
    [log_buffer : Ring, current_index : 0 .. Capacity, partway : BOOLEAN, discarded : BOOLEAN, release : BOOLEAN,
     special : BOOLEAN, msg_index : 0 .. 1, enabled : BOOLEAN, open : BOOLEAN]

\* Also after a short write no more is buffered than current_index says.
StreamOK(s) == s \in StreamType /\ s.log_buffer.length <= s.current_index

\* Nothing but whole lines is in the buffer, and all of it was committed.
Whole(s) ==
    /\ s.current_index = s.log_buffer.length /\ ~s.partway
    /\ s.log_buffer.length > 0 => B!Contents(s.log_buffer)[s.log_buffer.length] = NL

\* A line has one newline, at its end.
LineOK(l) == l \in Seq(Byte) /\ \A j \in 1 .. Len(l) : l[j] = NL <=> j = Len(l)

\* What was written ends where the state of the stream says it does.
EndOfLine(w) == w = <<>> \/ w[Len(w)] \in {NL, Notice[2]}
Place(w, s) ==
    /\ IF s.special /\ s.msg_index = 1 THEN w # <<>> /\ w[Len(w)] = Notice[1] ELSE EndOfLine(w)
    /\ s.msg_index = 1 => s.special
    /\ \A k \in 2 .. Len(w) : w[k] = Notice[1] => w[k - 1] \in {NL, Notice[2]}

\* The lines of the set, and nothing for the others.
Kept(q, kept) == [k \in DOMAIN q |-> IF k \in kept THEN q[k] ELSE <<>>]
IsKept(i, kept) == FlattenSeq(Kept(sent[i], kept)) = Text(i) \o Pending(i)

LogTypeOK ==
    /\ stream \in [Streams -> StreamType] /\ \A i \in Streams : StreamOK(stream[i])
    /\ sent \in [Streams -> Seq(Seq(Byte))] /\ out \in [Streams -> Seq(Bytes)] /\ cut \in [Streams -> BOOLEAN]
    /\ \A i \in Streams : \A k \in 1 .. Len(sent[i]) : LineOK(sent[i][k])
    /\ stream[DLOG_MAIN].open => ~stream[DLOG_MAIN].release

\* The text that was written ends with a line.
TextEnds(w) == TextOf(w) = <<>> \/ TextOf(w)[Len(TextOf(w))] = NL

WholeInv(i) == ~cut[i] => Whole(stream[i]) /\ Place(out[i], stream[i]) /\ TextEnds(out[i])

LogInv == LogTypeOK /\ \A i \in Streams : WholeInv(i)

LEMMA StreamFields ==
    ASSUME NEW s, StreamOK(s)
    PROVE  /\ s.log_buffer \in Ring /\ s.current_index \in 0 .. Capacity /\ s.current_index \in Nat
           /\ s.log_buffer.length \in 0 .. s.current_index /\ s.log_buffer.length \in Nat
           /\ s.partway \in BOOLEAN /\ s.release \in BOOLEAN /\ s.special \in BOOLEAN /\ s.open \in BOOLEAN
           /\ s.msg_index \in 0 .. 1
<1>1. s.log_buffer \in Ring
  BY DEF StreamOK, StreamType
<1> QED BY <1>1, RingFields DEF StreamOK, StreamType

\* What the properties see of a stream.
Core(s) == <<s.log_buffer, s.current_index, s.partway, s.special, s.msg_index>>

LEMMA SameCore ==
    ASSUME NEW s, NEW r, Core(r) = Core(s)
    PROVE  /\ r.log_buffer = s.log_buffer /\ r.current_index = s.current_index /\ r.partway = s.partway
           /\ r.special = s.special /\ r.msg_index = s.msg_index
BY DEF Core

----------------------------------------------------------------------------
(* A message is logged *)

\* What a stream is after a message of which `l' went into its buffer.
Logged(s, r, l) ==
    /\ StreamOK(r) /\ r.open = s.open /\ r.release = s.release
    /\ r.special = s.special /\ r.msg_index = s.msg_index
    /\ Whole(s) => Whole(r) /\ B!Contents(r.log_buffer) = B!Contents(s.log_buffer) \o l

\* A line that fits is in the buffer after it was committed.
LEMMA CommitLogs ==
    ASSUME NEW s, StreamOK(s), NEW l, LineOK(l), l # <<>>, Len(l) <= B!get_free(s.log_buffer)
    PROVE  Logged(s, commit_msg([s EXCEPT !.log_buffer = B!append(s.log_buffer, l)]), l)
<1> DEFINE b == s.log_buffer
           c == B!append(b, l)
           p == [s EXCEPT !.log_buffer = c]
           r == commit_msg(p)
<1>1. b \in Ring /\ l \in Seq(Byte) /\ Len(l) \in Nat /\ Len(l) # 0
  BY StreamFields DEF LineOK
<1>2. c \in Ring /\ c.length = b.length + Len(l) /\ B!Contents(c) = B!Contents(b) \o l
  BY <1>1, AppendAdds
<1> HIDE DEF c
<1>3. p \in StreamType /\ p.log_buffer = c /\ p.current_index = s.current_index /\ p.release = s.release
      /\ p.partway = s.partway /\ p.special = s.special /\ p.msg_index = s.msg_index /\ p.open = s.open
  BY <1>2 DEF StreamOK, StreamType
<1> HIDE DEF p
<1>4. r \in StreamType /\ r.log_buffer = c /\ r.current_index = c.length /\ r.release = s.release
      /\ r.partway = s.partway /\ r.special = s.special /\ r.msg_index = s.msg_index /\ r.open = s.open
  <2>1. c.length \in 0 .. Capacity
    BY <1>2, RingFields
  <2>2. r = [p EXCEPT !.current_index = c.length, !.enabled = IF p.current_index = 0 /\ ~p.release THEN TRUE ELSE p.enabled]
    BY <1>3 DEF commit_msg
  <2> HIDE DEF r
  <2> QED BY <1>3, <2>1, <2>2 DEF StreamType
<1> HIDE DEF r
<1>5. B!Contents(c)[c.length] = NL
  <2>1. B!Contents(b) \in Seq(Byte) /\ Len(B!Contents(b)) = b.length
    BY <1>1, ContentsIs
  <2>2. (B!Contents(b) \o l)[b.length + Len(l)] = l[Len(l)]
    BY <1>1, <2>1, RingFields
  <2>3. l[Len(l)] = NL
    BY <1>1 DEF LineOK
  <2> QED BY <1>2, <2>2, <2>3
<1>6. StreamOK(r)
  BY <1>2, <1>4, RingFields DEF StreamOK
<1>7. Whole(s) => Whole(r) /\ B!Contents(r.log_buffer) = B!Contents(b) \o l
  BY <1>2, <1>4, <1>5 DEF Whole
<1> QED BY <1>4, <1>6, <1>7 DEF Logged, r, p, c

LEMMA DropLogs ==
    ASSUME NEW s, StreamOK(s)
    PROVE  Logged(s, mark_discarded(s), <<>>)
<1> DEFINE r == mark_discarded(s)
<1>1. r \in StreamType /\ r.log_buffer = s.log_buffer /\ r.current_index = s.current_index /\ r.release = s.release
      /\ r.partway = s.partway /\ r.special = s.special /\ r.msg_index = s.msg_index /\ r.open = s.open
  BY DEF StreamOK, StreamType, mark_discarded
<1> HIDE DEF r
<1>2. B!Contents(s.log_buffer) \o <<>> = B!Contents(s.log_buffer)
  <2>1. B!Contents(s.log_buffer) \in Seq(Byte)
    BY StreamFields, ContentsIs
  <2> QED BY <2>1
<1>3. StreamOK(r)
  BY <1>1 DEF StreamOK
<1>4. Whole(s) => Whole(r)
  BY <1>1 DEF Whole
<1> QED BY <1>1, <1>2, <1>3, <1>4 DEF Logged, r

\* The parts of a line that did not fit are taken back.
LEMMA RollbackLogs ==
    ASSUME NEW s, StreamOK(s), NEW l \in Seq(Byte), Len(l) <= B!get_free(s.log_buffer)
    PROVE  Logged(s, mark_discarded(rollback_msg([s EXCEPT !.log_buffer = B!append(s.log_buffer, l)])), <<>>)
<1> DEFINE b == s.log_buffer
           c == B!append(b, l)
           d == B!trim_to(c, s.current_index)
           p == [s EXCEPT !.log_buffer = c]
           r == mark_discarded(rollback_msg(p))
<1>1. b \in Ring /\ Len(l) \in Nat
  BY StreamFields
<1>2. c \in Ring /\ c.length = b.length + Len(l) /\ B!Contents(c) = B!Contents(b) \o l
  BY <1>1, AppendAdds
<1> HIDE DEF c
<1>3. d \in Ring /\ d.length = s.current_index
      /\ (s.current_index <= c.length => \A i \in 1 .. s.current_index : B!Contents(d)[i] = B!Contents(c)[i])
  <2>1. s.current_index \in 0 .. Capacity
    BY StreamFields
  <2> QED BY <1>2, <2>1, TrimKeeps
<1> HIDE DEF d
<1>4. r \in StreamType /\ r.log_buffer = d /\ r.current_index = s.current_index /\ r.release = s.release
      /\ r.partway = s.partway /\ r.special = s.special /\ r.msg_index = s.msg_index /\ r.open = s.open
  <2>1. p \in StreamType /\ p.log_buffer = c /\ p.current_index = s.current_index /\ p.release = s.release
        /\ p.partway = s.partway /\ p.special = s.special /\ p.msg_index = s.msg_index /\ p.open = s.open
    BY <1>2 DEF StreamOK, StreamType
  <2> HIDE DEF p
  <2>2. r = [[p EXCEPT !.log_buffer = d] EXCEPT !.discarded = TRUE]
    BY <2>1 DEF mark_discarded, rollback_msg, d
  <2> HIDE DEF r
  <2> QED BY <1>3, <2>1, <2>2 DEF StreamType
<1> HIDE DEF r
<1>5. StreamOK(r)
  BY <1>3, <1>4, StreamFields DEF StreamOK
<1>6. ASSUME Whole(s)
      PROVE  B!Contents(d) = B!Contents(b)
  <2>1. s.current_index = b.length /\ s.current_index <= c.length
    BY <1>1, <1>2, <1>6, RingFields DEF Whole
  <2>2. B!Contents(b) \in Seq(Byte) /\ Len(B!Contents(b)) = b.length
    BY <1>1, ContentsIs
  <2>3. B!Contents(d) \in Seq(Byte) /\ Len(B!Contents(d)) = b.length
    BY <1>3, <2>1, ContentsIs
  <2>4. \A i \in 1 .. b.length : (B!Contents(b) \o l)[i] = B!Contents(b)[i]
    BY <1>1, <2>2, RingFields
  <2>5. \A i \in 1 .. b.length : B!Contents(d)[i] = B!Contents(b)[i]
    BY <1>2, <1>3, <2>1, <2>4
  <2> QED BY <2>2, <2>3, <2>5, SameSeq
<1>7. B!Contents(b) \o <<>> = B!Contents(b)
  <2>1. B!Contents(b) \in Seq(Byte)
    BY <1>1, ContentsIs
  <2> QED BY <2>1
<1>8. Whole(s) => Whole(r) /\ B!Contents(r.log_buffer) = B!Contents(b) \o <<>>
  BY <1>3, <1>4, <1>6, <1>7 DEF Whole
<1> QED BY <1>4, <1>5, <1>8 DEF Logged, r, p, c

----------------------------------------------------------------------------
(* A stream is written *)

\* The line that is found ends with a newline, and is found if the buffer does.
LEMMA FindLineFinds ==
    ASSUME NEW b \in Ring
    PROVE  /\ FindLine(b).len \in 0 .. b.length /\ FindLine(b).will_complete \in BOOLEAN
           /\ FindLine(b).will_complete => FindLine(b).len > 0 /\ B!Contents(b)[FindLine(b).len] = NL
           /\ b.length > 0 /\ B!Contents(b)[b.length] = NL => FindLine(b).will_complete
<1> DEFINE first == B!get_contiguous_length(b)
           ends(span) == {k \in span : B!Contents(b)[k] = NL}
           lead(S) == CHOOSE k \in S : \A j \in S : k <= j
           one == ends(1 .. first)
           two == ends(first + 1 .. b.length)
<1>0. b.cur_idx \in 0 .. Capacity - 1 /\ b.length \in 0 .. Capacity /\ Capacity \in Nat \ {0}
      /\ b.cur_idx \in Nat /\ b.length \in Nat
  BY RingFields
<1>1. first \in 0 .. b.length
  BY <1>0 DEF B!get_contiguous_length, B!Wrap
<1>2. FindLine(b) = IF one # {} THEN [len |-> lead(one), will_complete |-> TRUE]
                    ELSE IF two # {} THEN [len |-> lead(two), will_complete |-> TRUE]
                    ELSE [len |-> b.length, will_complete |-> FALSE]
  BY DEF FindLine
<1>3. ASSUME NEW S \in SUBSET {k \in 1 .. b.length : B!Contents(b)[k] = NL}, S # {}
      PROVE  lead(S) \in 1 .. b.length /\ B!Contents(b)[lead(S)] = NL
  <2>1. S \in SUBSET Nat
    OBVIOUS
  <2>2. \E k \in S : \A j \in S : k <= j
    BY <1>3, <2>1, LeastNumber
  <2>3. lead(S) \in S
    BY <2>2
  <2> HIDE DEF lead
  <2> QED BY <2>3
<1>4. one \in SUBSET {k \in 1 .. b.length : B!Contents(b)[k] = NL}
      /\ two \in SUBSET {k \in 1 .. b.length : B!Contents(b)[k] = NL}
  <2> HIDE DEF first
  <2> QED BY <1>0, <1>1
<1>5. b.length > 0 /\ B!Contents(b)[b.length] = NL => one # {} \/ two # {}
  <2> SUFFICES ASSUME b.length > 0, B!Contents(b)[b.length] = NL
               PROVE  b.length \in one \/ b.length \in two
    OBVIOUS
  <2> HIDE DEF first
  <2> QED BY <1>0, <1>1
<1> HIDE DEF one, two, lead, first
<1>6. CASE one # {}
  <2>1. FindLine(b).len = lead(one) /\ FindLine(b).will_complete = TRUE
    BY <1>2, <1>6
  <2>2. lead(one) \in 1 .. b.length /\ B!Contents(b)[lead(one)] = NL
    BY <1>3, <1>4, <1>6
  <2>3. lead(one) \in 0 .. b.length /\ lead(one) > 0
    BY <1>0, <2>2
  <2> QED BY <2>1, <2>2, <2>3, Zenon
<1>7. CASE one = {} /\ two # {}
  <2>1. FindLine(b).len = lead(two) /\ FindLine(b).will_complete = TRUE
    BY <1>2, <1>7
  <2>2. lead(two) \in 1 .. b.length /\ B!Contents(b)[lead(two)] = NL
    BY <1>3, <1>4, <1>7
  <2>3. lead(two) \in 0 .. b.length /\ lead(two) > 0
    BY <1>0, <2>2
  <2> QED BY <2>1, <2>2, <2>3, Zenon
<1>8. CASE one = {} /\ two = {}
  <2>1. FindLine(b).len = b.length /\ FindLine(b).will_complete = FALSE
    BY <1>2, <1>8
  <2>2. b.length \in 0 .. b.length
    BY <1>0
  <2> QED BY <1>5, <1>8, <2>1, <2>2, Zenon
<1> QED BY <1>6, <1>7, <1>8

\* A write of whole lines: what it wrote comes before what stays buffered.
Drained(s, r, w) ==
    /\ Whole(r) /\ w \in Seq(Byte) /\ w \o B!Contents(r.log_buffer) = B!Contents(s.log_buffer)
    /\ w # <<>> => w[Len(w)] = NL
    /\ ~s.special /\ ~r.special /\ r.msg_index = s.msg_index

\* A write of a notice, or of a part of it.
Noticed(s, r, w) ==
    LET m == IF s.special THEN s.msg_index ELSE 0
    IN  /\ r.log_buffer = s.log_buffer /\ r.current_index = s.current_index /\ r.partway = s.partway
        /\ \/ w = <<>> /\ r.special /\ r.msg_index = m
           \/ w = <<Notice[1]>> /\ m = 0 /\ r.special /\ r.msg_index = 1
           \/ w = Notice /\ m = 0 /\ ~r.special /\ r.msg_index = 0
           \/ w = <<Notice[2]>> /\ m = 1 /\ ~r.special /\ r.msg_index = 0

\* The stream and what was written are typed, and its watcher is as it was.
Typed(s, r, w, short) ==
    StreamOK(r) /\ r.open = s.open /\ r.release = s.release /\ w \in Seq(Bytes) /\ short \in BOOLEAN

\* After writev() the whole line is consumed.
LEMMA WrittenOK ==
    ASSUME NEW s, StreamOK(s), NEW n \in 0 .. s.log_buffer.length, NEW complete \in BOOLEAN
    PROVE  LET r == Written(s, n, complete)
           IN  /\ StreamOK(r) /\ r.open = s.open /\ r.release = s.release
               /\ r.log_buffer = B!consume(s.log_buffer, n) /\ r.partway = ~complete
               /\ r.special = s.special /\ r.msg_index = s.msg_index
               /\ r.current_index = IF complete THEN s.current_index - n ELSE s.current_index
<1> DEFINE r == Written(s, n, complete)
           c == B!consume(s.log_buffer, n)
           x == IF complete THEN s.current_index - n ELSE s.current_index
<1>1. s.log_buffer \in Ring /\ s.current_index \in 0 .. Capacity /\ s.log_buffer.length \in 0 .. s.current_index
      /\ s.current_index \in Nat /\ Capacity \in Nat
  BY StreamFields, LogAssumption
<1>2. c \in Ring /\ c.length = s.log_buffer.length - n
  BY <1>1, ConsumeTakes
<1>3. x \in 0 .. Capacity /\ c.length <= x
  <2> HIDE DEF c
  <2> QED BY <1>1, <1>2
<1> HIDE DEF c, x
<1>4. r = [s EXCEPT !.log_buffer = c, !.partway = ~complete, !.current_index = x]
  BY DEF Written, c, x
<1> HIDE DEF r
<1>5. r \in StreamType /\ r.log_buffer = c /\ r.current_index = x /\ r.partway = ~complete
      /\ r.special = s.special /\ r.msg_index = s.msg_index /\ r.open = s.open /\ r.release = s.release
  BY <1>2, <1>3, <1>4 DEF StreamOK, StreamType
<1>6. StreamOK(r)
  BY <1>3, <1>5 DEF StreamOK
<1> QED BY <1>5, <1>6 DEF r, c, x

LEMMA ByteBytes ==
    ASSUME NEW w \in Seq(Byte)
    PROVE  w \in Seq(Bytes)
BY DEF Byte, Bytes

LEMMA NothingWritten ==
    ASSUME NEW s, StreamOK(s)
    PROVE  Typed(s, s, <<>>, FALSE) /\ (Whole(s) /\ ~s.special => Drained(s, s, <<>>))
<1>1. B!Contents(s.log_buffer) \in Seq(Byte)
  BY StreamFields, ContentsIs
<1>2. <<>> \o B!Contents(s.log_buffer) = B!Contents(s.log_buffer) /\ <<>> \in Seq(Byte) /\ <<>> \in Seq(Bytes)
  BY <1>1
<1> QED BY <1>2 DEF Typed, Drained

\* Writing from the circular buffer.
LEMMA LineWritten ==
    ASSUME NEW s, StreamOK(s), NEW o \in WriteLine(s)
    PROVE  /\ Typed(s, o.stream, o.wrote, o.short)
           /\ Whole(s) /\ ~s.special /\ s.current_index # 0 /\ ~o.short => Drained(s, o.stream, o.wrote)
<1> DEFINE b == s.log_buffer
           line == FindLine(b)
           text == B!extract(b, 0, line.len)
           done == Written(s, line.len, TRUE)
           part == Written(s, line.len, FALSE)
<1>0. b \in Ring /\ b.length \in Nat
  BY StreamFields
<1>1. line.len \in 0 .. b.length /\ line.will_complete \in BOOLEAN
      /\ (line.will_complete => line.len > 0 /\ B!Contents(b)[line.len] = NL)
      /\ (b.length > 0 /\ B!Contents(b)[b.length] = NL => line.will_complete)
  BY <1>0, FindLineFinds
<1> HIDE DEF line
<1>2. text \in Seq(Byte) /\ Len(text) = line.len /\ text \o B!Contents(B!consume(b, line.len)) = B!Contents(b)
      /\ B!consume(b, line.len) \in Ring /\ B!consume(b, line.len).length = b.length - line.len
  BY <1>0, <1>1, ConsumeTakes
<1>3. StreamOK(done) /\ done.open = s.open /\ done.release = s.release
      /\ done.log_buffer = B!consume(b, line.len) /\ done.partway = FALSE
      /\ done.special = s.special /\ done.msg_index = s.msg_index
      /\ done.current_index = s.current_index - line.len
  BY <1>1, WrittenOK, ZenonT(40)
<1>4. StreamOK(part) /\ part.open = s.open /\ part.release = s.release
  BY <1>1, WrittenOK
<1> HIDE DEF text, done, part
<1>5. \/ o.stream = s /\ o.wrote = <<>> /\ o.short = FALSE
      \/ line.will_complete /\ o.stream = done /\ o.wrote = text /\ o.short = FALSE
      \/ ~line.will_complete /\ o.stream = part /\ o.wrote = text /\ o.short = FALSE
      \/ \E n \in 1 .. line.len - 1 : o.stream = part /\ o.wrote = SubSeq(text, 1, n) /\ o.short = TRUE
  <2> DEFINE stop == done.current_index = 0 \/ s.release
  <2>1. WriteLine(s) =
          {Outcome(s, <<>>, "REARM", FALSE, FALSE), Outcome(s, <<>>, "REMOVE", FALSE, FALSE)}
          \cup (IF line.will_complete
                THEN {Outcome(done, text, IF stop THEN "DISARM" ELSE "REARM", stop, FALSE)}
                ELSE {Outcome(part, text, "REARM", FALSE, FALSE)})
          \cup {Outcome(part, SubSeq(text, 1, n), "REARM", FALSE, TRUE) : n \in 1 .. line.len - 1}
    BY DEF WriteLine, line, text, done, part
  <2> HIDE DEF stop
  <2> QED BY <2>1 DEF Outcome
<1>6. CASE o.stream = s /\ o.wrote = <<>> /\ o.short = FALSE
  BY <1>6, NothingWritten
<1>7. CASE line.will_complete /\ o.stream = done /\ o.wrote = text /\ o.short = FALSE
  <2>1. Typed(s, o.stream, o.wrote, o.short)
    BY <1>2, <1>3, <1>7, ByteBytes DEF Typed
  <2>2. ASSUME Whole(s), ~s.special
        PROVE  Drained(s, o.stream, o.wrote)
    <3> DEFINE c == B!consume(b, line.len)
    <3>1. line.len > 0 /\ B!Contents(b)[line.len] = NL
      BY <1>1, <1>7
    <3>2. B!Contents(b) \in Seq(Byte) /\ Len(B!Contents(b)) = b.length
      BY <1>0, ContentsIs
    <3>3. c \in Ring /\ c.length = b.length - line.len /\ B!Contents(c) \in Seq(Byte) /\ Len(B!Contents(c)) = c.length
      BY <1>2, ContentsIs
    <3> HIDE DEF c
    <3>4. text[Len(text)] = NL
      <4>1. (text \o B!Contents(c))[line.len] = text[line.len]
        BY <1>1, <1>2, <3>1, <3>3, <1>0
      <4> QED BY <1>2, <3>1, <4>1 DEF c
    <3>5. c.length > 0 => B!Contents(c)[c.length] = NL
      <4> SUFFICES ASSUME c.length > 0 PROVE B!Contents(c)[c.length] = NL
        OBVIOUS
      <4>1. (text \o B!Contents(c))[line.len + c.length] = B!Contents(c)[c.length]
        BY <1>0, <1>1, <1>2, <3>3
      <4>2. line.len + c.length = b.length /\ b.length > 0
        BY <1>0, <1>1, <3>3
      <4>3. B!Contents(b)[b.length] = NL
        BY <2>2, <4>2 DEF Whole
      <4>4. text \o B!Contents(c) = B!Contents(b)
        BY <1>2 DEF c
      <4> QED BY <4>1, <4>2, <4>3, <4>4
    <3>6. Whole(done)
      <4>1. done.log_buffer = c /\ done.current_index = c.length /\ ~done.partway
        BY <1>3, <2>2, <3>3 DEF c, Whole
      <4> QED BY <3>5, <4>1 DEF Whole
    <3>7. text \o B!Contents(done.log_buffer) = B!Contents(s.log_buffer)
      BY <1>2, <1>3
    <3> QED BY <1>2, <1>3, <1>7, <2>2, <3>4, <3>6, <3>7 DEF Drained
  <2> QED BY <2>1, <2>2
<1>8. CASE ~line.will_complete /\ o.stream = part /\ o.wrote = text /\ o.short = FALSE
  <2>1. Typed(s, o.stream, o.wrote, o.short)
    BY <1>2, <1>4, <1>8, ByteBytes DEF Typed
  <2>2. ~(Whole(s) /\ s.current_index # 0)
    BY <1>0, <1>1, <1>8 DEF Whole
  <2> QED BY <2>1, <2>2
<1>9. CASE \E n \in 1 .. line.len - 1 : o.stream = part /\ o.wrote = SubSeq(text, 1, n) /\ o.short = TRUE
  <2>1. PICK n \in 1 .. line.len - 1 : o.stream = part /\ o.wrote = SubSeq(text, 1, n) /\ o.short = TRUE
    BY <1>9
  <2>2. n \in 0 .. Len(text)
    BY <1>0, <1>1, <1>2
  <2>3. SubSeq(text, 1, n) \in Seq(Byte)
    BY <1>2, <2>2, Prefix
  <2>4. Typed(s, o.stream, o.wrote, o.short)
    BY <1>4, <2>1, <2>3, ByteBytes DEF Typed
  <2> QED BY <2>1, <2>4
<1> QED BY <1>5, <1>6, <1>7, <1>8, <1>9

LEMMA NoticeParts ==
    /\ Notice \in Seq(Int) /\ Len(Notice) = 2 /\ Notice[1] = -2 /\ Notice[2] = -3
    /\ SubSeq(Notice, 1, 2) = Notice /\ SubSeq(Notice, 1, 1) = <<Notice[1]>> /\ SubSeq(Notice, 2, 2) = <<Notice[2]>>
<1>1. Notice \in Seq(Int) /\ Len(Notice) = 2 /\ Notice[1] = -2 /\ Notice[2] = -3
  BY DEF Notice
<1>2. SubSeq(Notice, 1, 2) = Notice
  BY <1>1
<1>3. ASSUME NEW k \in 1 .. 2
      PROVE  SubSeq(Notice, k, k) = <<Notice[k]>>
  <2>1. SubSeq(Notice, k, k) \in Seq(Int) /\ Len(SubSeq(Notice, k, k)) = 1 /\ SubSeq(Notice, k, k)[1] = Notice[k]
    BY <1>1
  <2>2. <<Notice[k]>> \in Seq(Int) /\ Len(<<Notice[k]>>) = 1 /\ <<Notice[k]>>[1] = Notice[k]
    BY <1>1
  <2>3. \A i \in 1 .. Len(<<Notice[k]>>) : i = 1
    BY <2>2
  <2> QED BY <2>1, <2>2, <2>3, SameSeq
<1> QED BY <1>1, <1>2, <1>3

\* The fields of the notice change, the rest of the stream does not.
SameBut(s, r) ==
    /\ StreamOK(r) /\ r.log_buffer = s.log_buffer /\ r.current_index = s.current_index
    /\ r.partway = s.partway /\ r.open = s.open /\ r.release = s.release

LEMMA NoticeFields ==
    ASSUME NEW s, StreamOK(s), NEW sp \in BOOLEAN, NEW r,
           r = [s EXCEPT !.special = sp, !.discarded = FALSE, !.msg_index = 0]
    PROVE  SameBut(s, r) /\ r.special = sp /\ r.msg_index = 0
<1>1. s \in StreamType /\ 0 \in 0 .. 1
  BY DEF StreamOK
<1>2. r \in StreamType
  BY <1>1, Zenon DEF StreamType
<1>3. r.special = sp /\ r.msg_index = 0 /\ r.log_buffer = s.log_buffer
      /\ r.current_index = s.current_index /\ r.partway = s.partway /\ r.open = s.open /\ r.release = s.release
  BY <1>1 DEF StreamType
<1> QED BY <1>2, <1>3 DEF StreamOK, SameBut

LEMMA NoticeBegun ==
    ASSUME NEW s, StreamOK(s), NEW r, r = [s EXCEPT !.special = TRUE, !.discarded = FALSE, !.msg_index = 0]
    PROVE  SameBut(s, r) /\ r.special /\ r.msg_index = 0
<1> DEFINE sp == TRUE
<1>1. sp \in BOOLEAN /\ r = [s EXCEPT !.special = sp, !.discarded = FALSE, !.msg_index = 0]
  OBVIOUS
<1> HIDE DEF sp
<1>2. SameBut(s, r) /\ r.special = sp /\ r.msg_index = 0
  BY <1>1, NoticeFields
<1> QED BY <1>2 DEF sp

LEMMA NoticeDone ==
    ASSUME NEW s, StreamOK(s), NEW r, r = [s EXCEPT !.special = FALSE, !.discarded = FALSE, !.msg_index = 0]
    PROVE  SameBut(s, r) /\ ~r.special /\ r.msg_index = 0
<1> DEFINE sp == FALSE
<1>1. sp \in BOOLEAN /\ r = [s EXCEPT !.special = sp, !.discarded = FALSE, !.msg_index = 0]
  OBVIOUS
<1> HIDE DEF sp
<1>2. SameBut(s, r) /\ r.special = sp /\ r.msg_index = 0
  BY <1>1, NoticeFields
<1> QED BY <1>2 DEF sp

\* Writing a notice.
LEMMA SpecialWritten ==
    ASSUME NEW s, StreamOK(s), NEW o \in WriteSpecial(s)
    PROVE  Typed(s, o.stream, o.wrote, o.short) /\ Noticed(s, o.stream, o.wrote) /\ o.short = FALSE
<1> DEFINE t == IF s.special THEN s ELSE [s EXCEPT !.special = TRUE, !.discarded = FALSE, !.msg_index = 0]
           m == IF s.special THEN s.msg_index ELSE 0
           rest == SubSeq(Notice, m + 1, Len(Notice))
           done == [t EXCEPT !.special = FALSE, !.discarded = FALSE, !.msg_index = 0]
           part(n) == [t EXCEPT !.msg_index = t.msg_index + n]
<1>1. StreamOK(t) /\ t.special /\ t.msg_index = m /\ t.log_buffer = s.log_buffer
      /\ t.current_index = s.current_index /\ t.partway = s.partway /\ t.open = s.open /\ t.release = s.release
  <2>1. CASE s.special
    BY <2>1 DEF StreamOK
  <2>2. CASE ~s.special
    <3>1. t = [s EXCEPT !.special = TRUE, !.discarded = FALSE, !.msg_index = 0]
      BY <2>2
    <3>2. m = 0
      BY <2>2
    <3> HIDE DEF t, m
    <3>3. SameBut(s, t) /\ t.special /\ t.msg_index = 0
      BY <3>1, NoticeBegun, Zenon
    <3> QED BY <3>2, <3>3 DEF SameBut
  <2> QED BY <2>1, <2>2, StreamFields
<1>2. m \in 0 .. 1
  BY StreamFields
<1> HIDE DEF t, m
<1>3. rest = IF m = 0 THEN Notice ELSE <<Notice[2]>>
  <2>1. m = 0 \/ m = 1
    BY <1>2
  <2>2. CASE m = 0
    <3>1. rest = SubSeq(Notice, 1, 2)
      BY <2>2, NoticeParts
    <3> QED BY <2>2, <3>1, NoticeParts
  <2>3. CASE m = 1
    <3>1. rest = SubSeq(Notice, 2, 2)
      BY <2>3, NoticeParts
    <3> QED BY <2>3, <3>1, NoticeParts
  <2> QED BY <2>1, <2>2, <2>3
<1>4. Notice \in Seq(Bytes) /\ <<Notice[1]>> \in Seq(Bytes) /\ <<Notice[2]>> \in Seq(Bytes) /\ <<>> \in Seq(Bytes)
      /\ Len(Notice) = 2 /\ Len(<<Notice[2]>>) = 1 /\ SubSeq(Notice, 1, 1) = <<Notice[1]>>
  BY NoticeParts DEF Bytes
<1> HIDE DEF rest
<1>5. StreamOK(done) /\ ~done.special /\ done.msg_index = 0 /\ done.log_buffer = s.log_buffer
      /\ done.current_index = s.current_index /\ done.partway = s.partway /\ done.open = s.open /\ done.release = s.release
  <2>2. done = [t EXCEPT !.special = FALSE, !.discarded = FALSE, !.msg_index = 0]
    OBVIOUS
  <2> HIDE DEF done
  <2>3. SameBut(t, done) /\ ~done.special /\ done.msg_index = 0
    BY <1>1, <2>2, NoticeDone, Zenon
  <2> QED BY <1>1, <2>3 DEF SameBut
<1>6. ASSUME m = 0
      PROVE  StreamOK(part(1)) /\ part(1).special /\ part(1).msg_index = 1 /\ part(1).log_buffer = s.log_buffer
             /\ part(1).current_index = s.current_index /\ part(1).partway = s.partway /\ part(1).open = s.open
             /\ part(1).release = s.release
  <2> DEFINE r == part(1)
  <2>0. r = [t EXCEPT !.msg_index = 1]
    BY <1>1, <1>6
  <2> HIDE DEF part, r
  <2>1. r \in StreamType /\ r.special = t.special /\ r.msg_index = 1 /\ r.log_buffer = t.log_buffer
        /\ r.current_index = t.current_index /\ r.partway = t.partway /\ r.open = t.open /\ r.release = t.release
    <3>1. t \in StreamType /\ 1 \in 0 .. 1
      BY <1>1 DEF StreamOK
    <3>2. r \in StreamType
      BY <2>0, <3>1, Zenon DEF StreamType
    <3> QED BY <2>0, <3>1, <3>2 DEF StreamType
  <2>2. StreamOK(r)
    BY <1>1, <2>1 DEF StreamOK
  <2> QED BY <1>1, <2>1, <2>2 DEF r
<1> HIDE DEF done, part
<1>7. \/ o.stream = done /\ o.wrote = rest /\ o.short = FALSE
      \/ o.stream = t /\ o.wrote = <<>> /\ o.short = FALSE
      \/ \E n \in 1 .. Len(rest) - 1 : o.stream = part(n) /\ o.wrote = SubSeq(rest, 1, n) /\ o.short = FALSE
  <2>1. WriteSpecial(s) =
          {Outcome(done, rest, IF t.release THEN "DISARM" ELSE "REARM", t.release, FALSE),
           Outcome(t, <<>>, "REARM", FALSE, FALSE),
           Outcome(t, <<>>, "REMOVE", FALSE, FALSE)}
          \cup {Outcome(part(n), SubSeq(rest, 1, n), "REARM", FALSE, FALSE) : n \in 1 .. Len(rest) - 1}
    <3>1. t.msg_index = m
      BY <1>1
    <3> QED BY <3>1 DEF WriteSpecial, done, part, rest, t
  <2> QED BY <2>1 DEF Outcome
<1>8. CASE o.stream = done /\ o.wrote = rest /\ o.short = FALSE
  <2>1. rest \in Seq(Bytes)
    BY <1>3, <1>4
  <2>2. Typed(s, done, rest, FALSE)
    BY <1>5, <2>1 DEF Typed
  <2>3. Noticed(s, done, rest)
    BY <1>2, <1>3, <1>5 DEF Noticed, m
  <2> QED BY <1>8, <2>2, <2>3
<1>9. CASE o.stream = t /\ o.wrote = <<>> /\ o.short = FALSE
  <2>1. Typed(s, t, <<>>, FALSE)
    BY <1>1, <1>4 DEF Typed
  <2>2. Noticed(s, t, <<>>)
    BY <1>1 DEF Noticed, m
  <2> QED BY <1>9, <2>1, <2>2
<1>10. CASE \E n \in 1 .. Len(rest) - 1 : o.stream = part(n) /\ o.wrote = SubSeq(rest, 1, n) /\ o.short = FALSE
  <2>1. PICK n \in 1 .. Len(rest) - 1 : o.stream = part(n) /\ o.wrote = SubSeq(rest, 1, n) /\ o.short = FALSE
    BY <1>10
  <2>2. m = 0 /\ n = 1 /\ rest = Notice
    <3>1. m # 0 => Len(rest) = 1
      BY <1>3, <1>4
    <3>2. m = 0 => rest = Notice /\ Len(rest) = 2
      BY <1>3, <1>4
    <3>3. Len(rest) = 2
      <4>1. ASSUME m # 0 PROVE FALSE
        <5>1. Len(rest) = 1
          BY <3>1, <4>1
        <5>2. n \in 1 .. 0
          BY <5>1
        <5> QED BY <5>2
      <4> QED BY <3>2, <4>1
    <3>4. n = 1
      BY <3>3
    <3>5. m = 0
      BY <3>1, <3>3
    <3> QED BY <3>2, <3>4, <3>5
  <2>3. o.stream = part(1) /\ o.wrote = <<Notice[1]>>
    BY <1>4, <2>1, <2>2
  <2>4. Typed(s, part(1), <<Notice[1]>>, FALSE)
    BY <1>4, <1>6, <2>2 DEF Typed
  <2>5. Noticed(s, part(1), <<Notice[1]>>)
    BY <1>6, <2>2 DEF Noticed, m
  <2> QED BY <2>1, <2>3, <2>4, <2>5
<1> QED BY <1>7, <1>8, <1>9, <1>10

\* One call of fd_event().
LEMMA EventWritten ==
    ASSUME NEW s, StreamOK(s), NEW o \in fd_event(s)
    PROVE  /\ Typed(s, o.stream, o.wrote, o.short)
           /\ Whole(s) /\ ~o.short => Drained(s, o.stream, o.wrote) \/ Noticed(s, o.stream, o.wrote)
<1>1. CASE ~s.partway /\ (s.special \/ s.discarded)
  <2>1. o \in WriteSpecial(s)
    BY <1>1 DEF fd_event
  <2> QED BY <2>1, SpecialWritten
<1>2. CASE ~(~s.partway /\ (s.special \/ s.discarded)) /\ s.current_index = 0
  <2>1. o = Outcome(s, <<>>, "DISARM", TRUE, FALSE)
    BY <1>2 DEF fd_event
  <2>2. o.stream = s /\ o.wrote = <<>> /\ o.short = FALSE
    BY <2>1 DEF Outcome
  <2>3. Whole(s) => ~s.special
    BY <1>2 DEF Whole
  <2> QED BY <2>2, <2>3, NothingWritten
<1>3. CASE ~(~s.partway /\ (s.special \/ s.discarded)) /\ s.current_index # 0
  <2>1. o \in WriteLine(s)
    BY <1>3 DEF fd_event
  <2>2. Whole(s) => ~s.special
    BY <1>3 DEF Whole
  <2> QED BY <1>3, <2>1, <2>2, LineWritten
<1> QED BY <1>1, <1>2, <1>3

LEMMA TextType ==
    ASSUME NEW w \in Seq(Bytes)
    PROVE  TextOf(w) \in Seq(Bytes)
BY LinesType, FlatType DEF TextOf, Lines

LEMMA Joined ==
    ASSUME NEW S, NEW u \in Seq(S), NEW v \in Seq(S)
    PROVE  /\ u \o v \in Seq(S) /\ Len(u \o v) = Len(u) + Len(v) /\ Len(u) \in Nat /\ Len(v) \in Nat
           /\ \A k \in 1 .. Len(u) : (u \o v)[k] = u[k]
           /\ \A k \in 1 .. Len(v) : (u \o v)[Len(u) + k] = v[k]
           /\ u \o <<>> = u
OBVIOUS

\* A write of lines keeps what the stream promises, and moves the text.
LEMMA DrainAdvances ==
    ASSUME NEW s, NEW r, StreamOK(s), StreamOK(r), NEW old \in Seq(Bytes), NEW w,
           Whole(s), Place(old, s), TextEnds(old), Drained(s, r, w)
    PROVE  /\ Whole(r) /\ Place(old \o w, r) /\ TextEnds(old \o w)
           /\ TextOf(old \o w) \o B!Contents(r.log_buffer) = TextOf(old) \o B!Contents(s.log_buffer)
<1>1. Whole(r) /\ w \in Seq(Byte) /\ w \o B!Contents(r.log_buffer) = B!Contents(s.log_buffer)
      /\ (w # <<>> => w[Len(w)] = NL) /\ ~s.special /\ ~r.special /\ r.msg_index = s.msg_index
  BY DEF Drained
<1>2. w \in Seq(Bytes) /\ Len(w) \in Nat /\ Len(old) \in Nat /\ TextOf(old) \in Seq(Bytes)
  BY <1>1, ByteBytes, TextType
<1>3. TextOf(old \o w) = TextOf(old) \o w
  BY <1>1, TextOfBytes
<1>4. B!Contents(r.log_buffer) \in Seq(Bytes)
  BY StreamFields, ContentsIs, ByteBytes
<1>5. (TextOf(old) \o w) \o B!Contents(r.log_buffer) = TextOf(old) \o (w \o B!Contents(r.log_buffer))
  <2> DEFINE u == TextOf(old)
             z == B!Contents(r.log_buffer)
  <2>1. u \in Seq(Bytes) /\ z \in Seq(Bytes)
    BY <1>2, <1>4
  <2> HIDE DEF u, z
  <2>2. (u \o w) \o z = u \o (w \o z)
    BY <1>2, <2>1, Associative
  <2> QED BY <2>2 DEF u, z
<1>6. CASE w = <<>>
  <2>1. old \o w = old
    BY <1>6
  <2>2. Place(old, r)
    BY <1>1 DEF Place
  <2> QED BY <1>1, <1>3, <1>5, <2>1, <2>2
<1>7. CASE w # <<>>
  <2>1. Len(w) > 0 /\ w[Len(w)] = NL
    BY <1>1, <1>2, <1>7
  <2>2. TextEnds(old \o w)
    <3>1. (TextOf(old) \o w)[Len(TextOf(old) \o w)] = NL
      <4> DEFINE u == TextOf(old)
      <4>1. u \in Seq(Bytes)
        BY <1>2
      <4> HIDE DEF u
      <4>2. Len(u \o w) = Len(u) + Len(w) /\ Len(w) \in 1 .. Len(w) /\ \A k \in 1 .. Len(w) : (u \o w)[Len(u) + k] = w[k]
        BY <1>2, <2>1, <4>1, Joined
      <4>3. (u \o w)[Len(u \o w)] = NL
        BY <2>1, <4>2
      <4> QED BY <4>3 DEF u
    <3> QED BY <1>3, <3>1 DEF TextEnds
  <2> DEFINE t == old \o w
  <2>3. Len(t) = Len(old) + Len(w) /\ (\A k \in 1 .. Len(old) : t[k] = old[k])
        /\ (\A k \in 1 .. Len(w) : t[Len(old) + k] = w[k]) /\ t \in Seq(Bytes)
    BY <1>2, Joined
  <2> HIDE DEF t
  <2>4. t # <<>> /\ t[Len(t)] = NL
    <3>1. Len(w) \in 1 .. Len(w)
      BY <1>2, <2>1
    <3>2. t[Len(t)] = NL
      BY <2>1, <2>3, <3>1
    <3>3. Len(t) # 0
      BY <1>2, <2>1, <2>3
    <3> QED BY <3>2, <3>3
  <2>5. ASSUME NEW k \in 2 .. Len(t), t[k] = Notice[1]
        PROVE  t[k - 1] \in {NL, Notice[2]}
    <3>1. CASE k <= Len(old)
      <4>1. k \in 2 .. Len(old) /\ t[k] = old[k] /\ t[k - 1] = old[k - 1]
        BY <1>2, <2>3, <3>1
      <4> QED BY <2>5, <4>1 DEF Place
    <3>2. CASE ~(k <= Len(old))
      <4>1. k - Len(old) \in 1 .. Len(w) /\ Len(old) + (k - Len(old)) = k
        BY <1>2, <2>3, <3>2
      <4>2. t[k] = w[k - Len(old)]
        BY <2>3, <4>1
      <4>3. w[k - Len(old)] \in Byte
        BY <1>1, <4>1
      <4>4. Notice[1] \notin Byte
        BY NoticeParts DEF Byte, Range
      <4> QED BY <2>5, <4>2, <4>3, <4>4
    <3> QED BY <3>1, <3>2
  <2>6. Place(t, r)
    <3>1. EndOfLine(t)
      BY <2>4 DEF EndOfLine
    <3>2. r.msg_index = 1 => r.special
      BY <1>1 DEF Place
    <3> QED BY <1>1, <2>5, <3>1, <3>2 DEF Place
  <2> QED BY <1>1, <1>3, <1>5, <2>2, <2>6 DEF t
<1> QED BY <1>6, <1>7

\* The bytes of a notice come one after the other, between two lines.
LEMMA NoticeAdvances ==
    ASSUME NEW s, NEW r, StreamOK(s), StreamOK(r), NEW old \in Seq(Bytes), NEW w,
           Whole(s), Place(old, s), TextEnds(old), Noticed(s, r, w)
    PROVE  /\ Whole(r) /\ Place(old \o w, r) /\ TextEnds(old \o w)
           /\ TextOf(old \o w) \o B!Contents(r.log_buffer) = TextOf(old) \o B!Contents(s.log_buffer)
<1> DEFINE m == IF s.special THEN s.msg_index ELSE 0
           t == old \o w
<1>1. /\ r.log_buffer = s.log_buffer /\ r.current_index = s.current_index /\ r.partway = s.partway
      /\ \/ w = <<>> /\ r.special /\ r.msg_index = m
         \/ w = <<Notice[1]>> /\ m = 0 /\ r.special /\ r.msg_index = 1
         \/ w = Notice /\ m = 0 /\ ~r.special /\ r.msg_index = 0
         \/ w = <<Notice[2]>> /\ m = 1 /\ ~r.special /\ r.msg_index = 0
  BY DEF Noticed
<1>2. Notice[1] \in Range(Notice) /\ Notice[2] \in Range(Notice) /\ Notice[1] # Notice[2]
      /\ Range(Notice) \subseteq Bytes /\ Notice \in Seq(Range(Notice))
  <2>1. Range(Notice) = {Notice[1], Notice[2]}
    <3>1. DOMAIN Notice = {1, 2}
      BY NoticeParts
    <3> QED BY <3>1 DEF Range
  <2>2. Notice \in Seq(Range(Notice))
    <3>1. Notice \in Seq(Int) /\ Len(Notice) = 2 /\ \A k \in 1 .. 2 : k = 1 \/ k = 2
      BY NoticeParts
    <3>2. \A k \in 1 .. Len(Notice) : Notice[k] \in Range(Notice)
      BY <2>1, <3>1
    <3> QED BY <3>1, <3>2, Retyped
  <2>3. Notice[1] # Notice[2] /\ {Notice[1], Notice[2]} \subseteq Bytes
    BY NoticeParts DEF Bytes
  <2> QED BY <2>1, <2>2, <2>3
<1>3. w \in Seq(Range(Notice)) /\ w \in Seq(Bytes)
  <2>1. <<>> \in Seq(Range(Notice)) /\ <<Notice[1]>> \in Seq(Range(Notice)) /\ <<Notice[2]>> \in Seq(Range(Notice))
    BY <1>2
  <2>2. w = <<>> \/ w = <<Notice[1]>> \/ w = Notice \/ w = <<Notice[2]>>
    BY <1>1
  <2>3. w \in Seq(Range(Notice))
    BY <1>2, <2>1, <2>2
  <2> QED BY <1>2, <2>3
<1>4. Whole(r)
  BY <1>1 DEF Whole
<1>5. TextOf(t) = TextOf(old)
  BY <1>3, TextOfNotice
<1>6. m = 0 => EndOfLine(old)
  BY DEF Place
<1>7. Len(t) = Len(old) + Len(w) /\ (\A k \in 1 .. Len(old) : t[k] = old[k])
      /\ (\A k \in 1 .. Len(w) : t[Len(old) + k] = w[k]) /\ t \in Seq(Bytes) /\ Len(old) \in Nat /\ Len(w) \in Nat
  BY <1>3, Joined
<1>8. \A k \in 2 .. Len(old) : old[k] = Notice[1] => old[k - 1] \in {NL, Notice[2]}
  BY DEF Place
<1>9. Place(t, r)
  <2>1. CASE w = <<>> /\ r.special /\ r.msg_index = m
    <3>1. t = old
      BY <2>1, Joined
    <3>2. m = 1 => s.special /\ s.msg_index = 1
      OBVIOUS
    <3>3. m = 1 => old # <<>> /\ old[Len(old)] = Notice[1]
      BY <3>2 DEF Place
    <3>4. m \in 0 .. 1
      BY StreamFields
    <3> HIDE DEF m, t
    <3>5. IF r.special /\ r.msg_index = 1 THEN old # <<>> /\ old[Len(old)] = Notice[1] ELSE EndOfLine(old)
      BY <1>6, <2>1, <3>3, <3>4
    <3> QED BY <1>8, <2>1, <3>1, <3>5 DEF Place
  <2>2. CASE w = <<Notice[1]>> /\ m = 0 /\ r.special /\ r.msg_index = 1
    <3>1. Len(w) = 1 /\ w[1] = Notice[1]
      BY <2>2
    <3> HIDE DEF m, t
    <3>2. Len(t) = Len(old) + 1 /\ t[Len(old) + 1] = Notice[1] /\ t # <<>>
      BY <1>7, <3>1
    <3>3. ASSUME NEW k \in 2 .. Len(t), t[k] = Notice[1]
          PROVE  t[k - 1] \in {NL, Notice[2]}
      <4>1. CASE k <= Len(old)
        BY <1>7, <1>8, <3>3, <4>1
      <4>2. CASE k = Len(old) + 1
        <5>1. old # <<>> /\ t[k - 1] = old[Len(old)]
          BY <1>7, <3>2, <4>2
        <5> QED BY <1>6, <2>2, <5>1 DEF EndOfLine
      <4> QED BY <1>7, <3>2, <4>1, <4>2
    <3>4. t[Len(t)] = Notice[1]
      BY <3>2
    <3> QED BY <2>2, <3>2, <3>3, <3>4 DEF Place
  <2>3. CASE w = Notice /\ m = 0 /\ ~r.special /\ r.msg_index = 0
    <3>1. Len(w) = 2 /\ w[1] = Notice[1] /\ w[2] = Notice[2]
      BY <2>3, NoticeParts
    <3> HIDE DEF m, t
    <3>2. Len(t) = Len(old) + 2 /\ t[Len(old) + 1] = Notice[1] /\ t[Len(old) + 2] = Notice[2] /\ t # <<>>
      BY <1>7, <3>1
    <3>3. ASSUME NEW k \in 2 .. Len(t), t[k] = Notice[1]
          PROVE  t[k - 1] \in {NL, Notice[2]}
      <4>1. CASE k <= Len(old)
        BY <1>7, <1>8, <3>3, <4>1
      <4>2. CASE k = Len(old) + 1
        <5>1. old # <<>> /\ t[k - 1] = old[Len(old)]
          BY <1>7, <3>2, <4>2
        <5> QED BY <1>6, <2>3, <5>1 DEF EndOfLine
      <4>3. CASE k = Len(old) + 2
        BY <1>2, <3>2, <3>3, <4>3
      <4>4. k <= Len(old) \/ k = Len(old) + 1 \/ k = Len(old) + 2
        BY <1>7, <3>2
      <4> QED BY <4>1, <4>2, <4>3, <4>4
    <3>4. EndOfLine(t)
      BY <3>2 DEF EndOfLine
    <3> QED BY <2>3, <3>3, <3>4 DEF Place
  <2>4. CASE w = <<Notice[2]>> /\ m = 1 /\ ~r.special /\ r.msg_index = 0
    <3>1. Len(w) = 1 /\ w[1] = Notice[2]
      BY <2>4
    <3> HIDE DEF m, t
    <3>2. Len(t) = Len(old) + 1 /\ t[Len(old) + 1] = Notice[2] /\ t # <<>>
      BY <1>7, <3>1
    <3>3. ASSUME NEW k \in 2 .. Len(t), t[k] = Notice[1]
          PROVE  t[k - 1] \in {NL, Notice[2]}
      <4>1. CASE k <= Len(old)
        BY <1>7, <1>8, <3>3, <4>1
      <4>2. CASE k = Len(old) + 1
        BY <1>2, <3>2, <3>3, <4>2
      <4> QED BY <1>7, <3>2, <4>1, <4>2
    <3>4. EndOfLine(t)
      BY <3>2 DEF EndOfLine
    <3> QED BY <2>4, <3>3, <3>4 DEF Place
  <2> QED BY <1>1, <2>1, <2>2, <2>3, <2>4
<1> QED BY <1>1, <1>4, <1>5, <1>9 DEF TextEnds

----------------------------------------------------------------------------
(* The console changes hands *)

LEMMA DiscardKeeps ==
    ASSUME NEW s, StreamOK(s)
    PROVE  /\ StreamOK(discard(s)) /\ discard(s).release = s.release /\ discard(s).open = s.open
           /\ B!Contents(discard(s).log_buffer) = <<>>
           /\ discard(s).special = s.special /\ discard(s).msg_index = s.msg_index
           /\ Whole(s) => Whole(discard(s))
<1> DEFINE c == B!trim_to(s.log_buffer, 0)
           r == discard(s)
<1>1. s.log_buffer \in Ring /\ 0 \in 0 .. Capacity /\ s \in StreamType
  BY StreamFields, LogAssumption DEF StreamOK
<1>2. c \in Ring /\ c.length = 0
  BY <1>1, TrimKeeps
<1> HIDE DEF c
<1>3. r = [s EXCEPT !.current_index = 0, !.log_buffer = c]
  BY DEF discard, c
<1> HIDE DEF r
<1>4. r \in StreamType
  BY <1>1, <1>2, <1>3, Zenon DEF StreamType
<1>5. r.log_buffer = c /\ r.current_index = 0 /\ r.partway = s.partway /\ r.special = s.special
      /\ r.msg_index = s.msg_index /\ r.release = s.release /\ r.open = s.open
  BY <1>1, <1>3 DEF StreamType
<1>6. B!Contents(c) = <<>>
  <2>1. B!Contents(c) \in Seq(Byte) /\ Len(B!Contents(c)) = 0
    BY <1>2, ContentsIs
  <2> QED BY <2>1
<1>7. StreamOK(r)
  BY <1>2, <1>4, <1>5 DEF StreamOK
<1>8. Whole(s) => Whole(r)
  BY <1>2, <1>5 DEF Whole
<1> QED BY <1>5, <1>6, <1>7, <1>8 DEF r

\* The watcher and whether the stream holds the console: no more changes.
Watched(s, r, a, b) ==
    a \in BOOLEAN /\ b \in BOOLEAN /\ r = [s EXCEPT !.open = a, !.release = b, !.enabled = a]

LEMMA WatcherChanges ==
    ASSUME NEW s, StreamOK(s), NEW a, NEW b, NEW r, Watched(s, r, a, b)
    PROVE  StreamOK(r) /\ Core(r) = Core(s) /\ r.open = a /\ r.release = b
<1> USE DEF Watched
<1>1. s \in StreamType
  BY DEF StreamOK
<1>2. r \in StreamType
  BY <1>1, Zenon DEF StreamType
<1>3. r.log_buffer = s.log_buffer /\ r.current_index = s.current_index /\ r.partway = s.partway /\ r.special = s.special
      /\ r.msg_index = s.msg_index /\ r.release = b /\ r.open = a
  BY <1>1 DEF StreamType
<1> QED BY <1>2, <1>3 DEF StreamOK, Core

LEMMA EnableKeeps ==
    ASSUME NEW s, StreamOK(s)
    PROVE  StreamOK(EnableConsoleLog(s)) /\ Core(EnableConsoleLog(s)) = Core(s)
<1> DEFINE r == EnableConsoleLog(s)
<1>1. CASE s.release
  <2>1. r = [s EXCEPT !.open = TRUE, !.release = FALSE, !.enabled = TRUE]
    BY <1>1 DEF EnableConsoleLog, StreamOK, StreamType
  <2> DEFINE a == TRUE
             b == FALSE
  <2>2. Watched(s, r, a, b)
    BY <2>1 DEF Watched
  <2> HIDE DEF a, b, r
  <2>3. StreamOK(r) /\ Core(r) = Core(s)
    BY <2>2, WatcherChanges
  <2> QED BY <2>3 DEF r
<1>2. CASE ~s.release
  BY <1>2 DEF EnableConsoleLog
<1> QED BY <1>1, <1>2

LEMMA RemovedKeeps ==
    ASSUME NEW s, StreamOK(s)
    PROVE  StreamOK(Removed(s)) /\ Core(Removed(s)) = Core(s) /\ ~Removed(s).open
<1> DEFINE r == Removed(s)
           a == TRUE
           b == FALSE
<1>1. Watched(s, r, b, a)
  BY DEF Removed, Watched
<1> HIDE DEF a, b, r
<1>2. StreamOK(r) /\ Core(r) = Core(s) /\ r.open = b
  BY <1>1, WatcherChanges
<1> QED BY <1>2 DEF r, b

LEMMA RearmKeeps ==
    ASSUME NEW s, StreamOK(s), NEW answer
    PROVE  /\ StreamOK(Rearm(s, answer)) /\ Core(Rearm(s, answer)) = Core(s)
           /\ (s.open => ~s.release) => (Rearm(s, answer).open => ~Rearm(s, answer).release)
<1>1. CASE answer = "REMOVE"
  <2>1. Rearm(s, answer) = Removed(s)
    BY <1>1 DEF Rearm
  <2> QED BY <2>1, RemovedKeeps
<1>2. CASE answer = "DISARM"
  <2> DEFINE r == [s EXCEPT !.enabled = FALSE]
  <2>1. Rearm(s, answer) = r
    BY <1>2 DEF Rearm
  <2>2. s \in StreamType
    BY DEF StreamOK
  <2>3. r \in StreamType /\ r.open = s.open /\ r.release = s.release /\ r.log_buffer = s.log_buffer
        /\ r.current_index = s.current_index /\ r.partway = s.partway /\ r.special = s.special /\ r.msg_index = s.msg_index
    BY <2>2 DEF StreamType
  <2> HIDE DEF r
  <2> QED BY <2>1, <2>3 DEF StreamOK, Core
<1>3. CASE answer # "REMOVE" /\ answer # "DISARM"
  BY <1>3 DEF Rearm
<1> QED BY <1>1, <1>2, <1>3

\* Handing over the console may empty the buffer, and no more.
Handed(s, r) == StreamOK(r) /\ (Core(r) = Core(s) \/ Core(r) = Core(discard(s)))

LEMMA PullHands ==
    ASSUME NEW s, StreamOK(s), NEW q, NEW p \in pull_console_queue(s, q)
    PROVE  Handed(s, p.stream)
<1>1. p.stream = s \/ \E d \in {s, discard(s)} : p.stream = EnableConsoleLog(d)
  BY DEF pull_console_queue
<1>2. CASE p.stream = s
  BY <1>2 DEF Handed
<1>3. CASE p.stream = EnableConsoleLog(s)
  BY <1>3, EnableKeeps DEF Handed
<1>4. CASE p.stream = EnableConsoleLog(discard(s))
  BY <1>4, EnableKeeps, DiscardKeeps DEF Handed
<1> QED BY <1>1, <1>2, <1>3, <1>4

LEMMA ReleaseHands ==
    ASSUME NEW o, StreamOK(o.stream), NEW q, NEW p \in ReleaseBy(o, q)
    PROVE  Handed(o.stream, p.stream) /\ (~o.stream.release => p.stream = o.stream)
<1>1. CASE o.gives /\ o.stream.release
  <2>1. p \in pull_console_queue(o.stream, q)
    BY <1>1 DEF ReleaseBy
  <2> QED BY <1>1, <2>1, PullHands
<1>2. CASE ~(o.gives /\ o.stream.release)
  <2>1. p.stream = o.stream
    BY <1>2 DEF ReleaseBy
  <2> QED BY <2>1 DEF Handed
<1> QED BY <1>1, <1>2

\* What a stream promises outlasts the hand-over.
LEMMA HandedKeeps ==
    ASSUME NEW s, NEW r, StreamOK(s), Handed(s, r), NEW w, Whole(s), Place(w, s)
    PROVE  /\ Whole(r) /\ Place(w, r)
           /\ B!Contents(r.log_buffer) = B!Contents(s.log_buffer) \/ B!Contents(r.log_buffer) = <<>>
<1>1. CASE Core(r) = Core(s)
  BY <1>1, SameCore DEF Whole, Place
<1>2. CASE Core(r) = Core(discard(s))
  BY <1>2, SameCore, DiscardKeeps DEF Whole, Place
<1> QED BY <1>1, <1>2 DEF Handed

LEMMA SameKeeps ==
    ASSUME NEW s, NEW r, Core(r) = Core(s), NEW w
    PROVE  (Whole(s) => Whole(r)) /\ (Place(w, s) => Place(w, r)) /\ r.log_buffer = s.log_buffer
BY SameCore DEF Whole, Place

----------------------------------------------------------------------------
(* The steps of a stream *)

\* A line, or nothing, is added to what was sent and to what is pending.
Deposit(i) ==
    \E l \in Seq(Byte) : /\ LineOK(l) /\ sent'[i] = Append(sent[i], l)
                         /\ Pending(i)' = Pending(i) \o l /\ out'[i] = out[i]

\* Text moves from what is pending to the file; the console may lose the rest.
Drain(i) ==
    /\ sent'[i] = sent[i]
    /\ \E p \in Seq(Bytes) : /\ Text(i)' \o p = Text(i) \o Pending(i)
                             /\ Pending(i)' = p \/ (i = DLOG_CONS /\ Pending(i)' = <<>>)

StreamStep(i) == ~cut'[i] => ~cut[i] /\ (Deposit(i) \/ Drain(i))

LEMMA WriteKeeps ==
    ASSUME LogInv, NEW i \in Streams, NEW s, StreamOK(s), Core(s) = Core(stream[i]),
           i = DLOG_MAIN => s.open /\ ~s.release, NEW q, NEW keen, WriteStream(i, s, q, keen)
    PROVE  /\ StreamOK(stream'[i]) /\ out'[i] \in Seq(Bytes) /\ cut'[i] \in BOOLEAN
           /\ i = DLOG_MAIN => (stream'[i].open => ~stream'[i].release)
           /\ ~cut'[i] => ~cut[i] /\ Drain(i) /\ WholeInv(i)'
           /\ stream' = [stream EXCEPT ![i] = stream'[i]] /\ out' = [out EXCEPT ![i] = out'[i]]
           /\ cut' = [cut EXCEPT ![i] = cut'[i]] /\ sent' = sent
<1>1. PICK o \in fd_event(s) :
        /\ \E p \in ReleaseBy(o, q) : stream' = [stream EXCEPT ![i] = Rearm(p.stream, o.rearm)]
        /\ cut' = [cut EXCEPT ![i] = cut[i] \/ o.short]
        /\ out' = [out EXCEPT ![i] = IF cut'[i] THEN <<>> ELSE out[i] \o o.wrote]
  BY DEF WriteStream
<1>2. PICK p \in ReleaseBy(o, q) : stream' = [stream EXCEPT ![i] = Rearm(p.stream, o.rearm)]
  BY <1>1
<1>3. stream \in [Streams -> StreamType] /\ out \in [Streams -> Seq(Bytes)] /\ cut \in [Streams -> BOOLEAN]
      /\ sent' = sent /\ out[i] \in Seq(Bytes) /\ cut[i] \in BOOLEAN
  BY DEF LogInv, LogTypeOK, WriteStream
<1> DEFINE r == Rearm(p.stream, o.rearm)
<1>4. stream'[i] = r /\ cut'[i] = (cut[i] \/ o.short) /\ out'[i] = IF cut'[i] THEN <<>> ELSE out[i] \o o.wrote
  BY <1>1, <1>2, <1>3
<1> HIDE DEF r
<1>5. Typed(s, o.stream, o.wrote, o.short)
      /\ (Whole(s) /\ ~o.short => Drained(s, o.stream, o.wrote) \/ Noticed(s, o.stream, o.wrote))
  BY EventWritten
<1>6. Handed(o.stream, p.stream) /\ (~o.stream.release => p.stream = o.stream)
  BY <1>5, ReleaseHands DEF Typed
<1>7. StreamOK(r) /\ Core(r) = Core(p.stream) /\ ((p.stream.open => ~p.stream.release) => (r.open => ~r.release))
  BY <1>6, RearmKeeps DEF Handed, r
<1>8. i = DLOG_MAIN => (r.open => ~r.release) /\ Core(r) = Core(o.stream)
  BY <1>5, <1>6, <1>7 DEF Typed
<1>9. out'[i] \in Seq(Bytes) /\ cut'[i] \in BOOLEAN
  <2>1. out[i] \o o.wrote \in Seq(Bytes) /\ <<>> \in Seq(Bytes)
    BY <1>3, <1>5 DEF Typed
  <2>2. cut'[i] \in BOOLEAN
    BY <1>3, <1>4, <1>5 DEF Typed
  <2> QED BY <1>4, <2>1, <2>2
<1>10. stream' = [stream EXCEPT ![i] = stream'[i]] /\ out' = [out EXCEPT ![i] = out'[i]] /\ cut' = [cut EXCEPT ![i] = cut'[i]]
  BY <1>1, <1>2, <1>3, <1>4 DEF r
<1>11. ASSUME ~cut'[i]
       PROVE  ~cut[i] /\ Drain(i) /\ WholeInv(i)'
  <2>1. ~cut[i] /\ ~o.short /\ out'[i] = out[i] \o o.wrote
    BY <1>3, <1>4, <1>5, <1>11 DEF Typed
  <2>2. Whole(stream[i]) /\ Place(out[i], stream[i]) /\ TextEnds(out[i])
    BY <2>1 DEF LogInv, WholeInv
  <2>3. Whole(s) /\ Place(out[i], s) /\ s.log_buffer = stream[i].log_buffer
    BY <2>2, SameKeeps
  <2> DEFINE t == out[i] \o o.wrote
  <2>4. Whole(o.stream) /\ Place(t, o.stream) /\ TextEnds(t)
        /\ TextOf(t) \o B!Contents(o.stream.log_buffer) = TextOf(out[i]) \o B!Contents(s.log_buffer)
    <3>1. StreamOK(o.stream)
      BY <1>5 DEF Typed
    <3> HIDE DEF t
    <3>2. CASE Drained(s, o.stream, o.wrote)
      BY <1>3, <2>2, <2>3, <3>1, <3>2, DrainAdvances, SMTT(30) DEF t
    <3>3. CASE Noticed(s, o.stream, o.wrote)
      BY <1>3, <2>2, <2>3, <3>1, <3>3, NoticeAdvances, SMTT(30) DEF t
    <3> QED BY <1>5, <2>1, <2>3, <3>2, <3>3
  <2> HIDE DEF t
  <2>5. Whole(p.stream) /\ Place(t, p.stream)
        /\ (B!Contents(p.stream.log_buffer) = B!Contents(o.stream.log_buffer) \/ B!Contents(p.stream.log_buffer) = <<>>)
    BY <1>5, <1>6, <2>4, HandedKeeps DEF Typed
  <2>6. Whole(r) /\ Place(t, r) /\ r.log_buffer = p.stream.log_buffer
    BY <1>7, <2>5, SameKeeps
  <2>7. WholeInv(i)'
    BY <1>4, <2>1, <2>4, <2>6 DEF WholeInv, t
  <2>8. i = DLOG_MAIN => B!Contents(r.log_buffer) = B!Contents(o.stream.log_buffer)
    BY <1>8, SameKeeps
  <2>9. Drain(i)
    <3> DEFINE x == B!Contents(o.stream.log_buffer)
    <3>1. x \in Seq(Bytes)
      BY <1>5, StreamFields, ContentsIs, ByteBytes DEF Typed
    <3>2. Text(i)' = TextOf(t) /\ Text(i) = TextOf(out[i]) /\ Pending(i)' = B!Contents(r.log_buffer)
          /\ Pending(i) = B!Contents(s.log_buffer)
      BY <1>4, <2>1, <2>3 DEF Text, Pending, t
    <3>3. i = DLOG_MAIN \/ i = DLOG_CONS
      BY DEF Streams
    <3> HIDE DEF x
    <3>4. Text(i)' \o x = Text(i) \o Pending(i)
      BY <2>4, <3>2 DEF x
    <3>5. Pending(i)' = x \/ (i = DLOG_CONS /\ Pending(i)' = <<>>)
      BY <2>5, <2>6, <2>8, <3>2, <3>3 DEF x
    <3> QED BY <1>3, <3>1, <3>4, <3>5 DEF Drain
  <2> QED BY <2>1, <2>7, <2>9
<1> QED BY <1>3, <1>4, <1>7, <1>8, <1>9, <1>10, <1>11

\* The invariant of one stream, and what a step does to it.
StreamInv(i) ==
    /\ StreamOK(stream[i]) /\ out[i] \in Seq(Bytes) /\ cut[i] \in BOOLEAN
    /\ sent[i] \in Seq(Seq(Byte)) /\ \A k \in 1 .. Len(sent[i]) : LineOK(sent[i][k])
    /\ i = DLOG_MAIN => (stream[i].open => ~stream[i].release)
    /\ WholeInv(i)

OnStreams == /\ stream = [i \in Streams |-> stream[i]] /\ out = [i \in Streams |-> out[i]]
             /\ cut = [i \in Streams |-> cut[i]] /\ sent = [i \in Streams |-> sent[i]]

LEMMA InvParts == LogInv <=> OnStreams /\ \A i \in Streams : StreamInv(i)
<1>1. ASSUME LogInv
      PROVE  OnStreams /\ \A i \in Streams : StreamInv(i)
  <2>1. OnStreams
    BY <1>1 DEF LogInv, LogTypeOK, OnStreams
  <2>2. ASSUME NEW i \in Streams PROVE StreamInv(i)
    BY <1>1 DEF LogInv, LogTypeOK, StreamInv
  <2> QED BY <2>1, <2>2
<1>2. ASSUME OnStreams, \A i \in Streams : StreamInv(i)
      PROVE  LogInv
  <2>1. stream \in [Streams -> StreamType]
    <3>1. \A i \in Streams : stream[i] \in StreamType
      BY <1>2 DEF StreamInv, StreamOK
    <3> QED BY <1>2, <3>1 DEF OnStreams
  <2>2. sent \in [Streams -> Seq(Seq(Byte))] /\ out \in [Streams -> Seq(Bytes)] /\ cut \in [Streams -> BOOLEAN]
    <3>1. \A i \in Streams : sent[i] \in Seq(Seq(Byte)) /\ out[i] \in Seq(Bytes) /\ cut[i] \in BOOLEAN
      BY <1>2 DEF StreamInv
    <3> QED BY <1>2, <3>1 DEF OnStreams
  <2>3. DLOG_MAIN \in Streams
    BY DEF Streams
  <2>4. stream[DLOG_MAIN].open => ~stream[DLOG_MAIN].release
    BY <1>2, <2>3 DEF StreamInv
  <2>5. \A i \in Streams : StreamOK(stream[i]) /\ WholeInv(i) /\ \A k \in 1 .. Len(sent[i]) : LineOK(sent[i][k])
    BY <1>2 DEF StreamInv
  <2> QED BY <2>1, <2>2, <2>4, <2>5 DEF LogInv, LogTypeOK
<1> QED BY <1>1, <1>2

\* The same of the state after a step.
LEMMA InvNext ==
    ASSUME OnStreams', \A i \in Streams : StreamInv(i)'
    PROVE  LogInv'
<1>1. stream' \in [Streams -> StreamType]
  <2>1. \A i \in Streams : stream'[i] \in StreamType
    BY DEF StreamInv, StreamOK
  <2> QED BY <2>1 DEF OnStreams
<1>2. sent' \in [Streams -> Seq(Seq(Byte))] /\ out' \in [Streams -> Seq(Bytes)] /\ cut' \in [Streams -> BOOLEAN]
  <2>1. \A i \in Streams : sent'[i] \in Seq(Seq(Byte)) /\ out'[i] \in Seq(Bytes) /\ cut'[i] \in BOOLEAN
    BY DEF StreamInv
  <2> QED BY <2>1 DEF OnStreams
<1>3. DLOG_MAIN \in Streams
  BY DEF Streams
<1>4. stream'[DLOG_MAIN].open => ~stream'[DLOG_MAIN].release
  BY <1>3 DEF StreamInv
<1>5. \A i \in Streams : StreamOK(stream'[i]) /\ WholeInv(i)' /\ \A k \in 1 .. Len(sent'[i]) : LineOK(sent'[i][k])
  BY DEF StreamInv
<1> QED BY <1>1, <1>2, <1>4, <1>5 DEF LogInv, LogTypeOK

Same(i) == sent'[i] = sent[i] /\ out'[i] = out[i] /\ cut'[i] = cut[i]

\* A stream of which only the watcher changes.
LEMMA IdleStep ==
    ASSUME NEW i \in Streams, StreamInv(i), Same(i), StreamOK(stream'[i]), Core(stream'[i]) = Core(stream[i]),
           i = DLOG_MAIN => (stream'[i].open => ~stream'[i].release)
    PROVE  StreamInv(i)' /\ StreamStep(i)
<1>1. WholeInv(i)'
  BY SameKeeps DEF StreamInv, WholeInv, Same
<1>2. Drain(i)
  <2>1. Pending(i) \in Seq(Bytes)
    BY StreamFields, ContentsIs, ByteBytes DEF StreamInv, Pending
  <2>2. Pending(i)' = Pending(i) /\ Text(i)' = Text(i)
    BY SameKeeps DEF Pending, Text, Same
  <2> QED BY <2>1, <2>2 DEF Drain, Same
<1>3. StreamInv(i)'
  BY <1>1 DEF StreamInv, Same
<1> QED BY <1>2, <1>3 DEF StreamStep, Same

\* The console is handed over.
LEMMA HandStep ==
    ASSUME NEW i \in Streams, i = DLOG_CONS, StreamInv(i), Same(i), Handed(stream[i], stream'[i])
    PROVE  StreamInv(i)' /\ StreamStep(i)
<1>0. StreamOK(stream'[i]) /\ DLOG_CONS # DLOG_MAIN
  BY DEF Handed, DLOG_CONS, DLOG_MAIN
<1>1. ASSUME ~cut[i]
      PROVE  Whole(stream'[i]) /\ Place(out[i], stream'[i]) /\ TextEnds(out[i])
             /\ (Pending(i)' = Pending(i) \/ Pending(i)' = <<>>)
  <2>1. Whole(stream[i]) /\ Place(out[i], stream[i]) /\ TextEnds(out[i]) /\ StreamOK(stream[i])
    BY <1>1 DEF StreamInv, WholeInv
  <2> QED BY <2>1, HandedKeeps DEF Pending
<1>2. WholeInv(i)'
  BY <1>1 DEF WholeInv, Same
<1>3. ~cut[i] => Drain(i)
  <2>1. Pending(i) \in Seq(Bytes)
    BY StreamFields, ContentsIs, ByteBytes DEF StreamInv, Pending
  <2>2. Text(i)' = Text(i)
    BY DEF Text, Same
  <2> QED BY <1>1, <2>1, <2>2 DEF Drain, Same
<1>4. StreamInv(i)'
  BY <1>0, <1>2 DEF StreamInv, Same
<1> QED BY <1>3, <1>4 DEF StreamStep, Same

LEMMA LineForOK ==
    ASSUME NEW i, NEW m \in Messages, NEW n \in Nat \ {0}
    PROVE  LineOK(LineFor(i, m, n)) /\ LineFor(i, m, n) # <<>>
<1> DEFINE a == IF i = DLOG_MAIN /\ SyslogFormat THEN <<Mark>> ELSE <<>>
           b == [k \in 1 .. m.len |-> n]
           l == LineFor(i, m, n)
<1>1. m.len \in Nat
  BY LogAssumption
<1>2. n \in Byte /\ Mark \in Byte /\ NL \in Byte /\ n # NL /\ Mark # NL
  <2>1. Range(Notice) = {-2, -3}
    <3>1. DOMAIN Notice = {1, 2}
      BY NoticeParts
    <3> QED BY <3>1, NoticeParts DEF Range
  <2> QED BY <2>1 DEF Byte, NL, Mark
<1>3. a \in Seq(Byte) /\ Len(a) \in Nat /\ \A k \in 1 .. Len(a) : a[k] = Mark
  BY <1>2
<1>4. b \in Seq(Byte) /\ Len(b) = m.len /\ \A k \in 1 .. Len(b) : b[k] = n
  <2>1. b \in [1 .. m.len -> Byte]
    BY <1>2
  <2> QED BY <1>1, <2>1
<1>5. l = (a \o b) \o <<NL>>
  BY DEF LineFor
<1> HIDE DEF a, b, l
<1>6. a \o b \in Seq(Byte) /\ Len(a \o b) = Len(a) + Len(b) /\ \A k \in 1 .. Len(a) + Len(b) : (a \o b)[k] # NL
  BY <1>1, <1>2, <1>3, <1>4
<1>7. l \in Seq(Byte) /\ Len(l) = Len(a \o b) + 1 /\ l[Len(l)] = NL /\ \A k \in 1 .. Len(a \o b) : l[k] # NL
  BY <1>1, <1>2, <1>3, <1>4, <1>5, <1>6
<1>8. Len(a \o b) \in Nat
  BY <1>6
<1>9. LineOK(l)
  BY <1>7, <1>8 DEF LineOK
<1>10. l # <<>>
  BY <1>7, <1>8
<1> QED BY <1>9, <1>10 DEF l

LEMMA PushLogs ==
    ASSUME NEW i \in Streams, StreamOK(stream[i]), NEW m \in Messages, NEW n \in Nat \ {0}
    PROVE  Logged(stream[i], Push(i, m, n),
                  IF B!get_free(stream[i].log_buffer) >= Len(LineFor(i, m, n)) THEN LineFor(i, m, n) ELSE <<>>)
<1> DEFINE s == stream[i]
           l == LineFor(i, m, n)
           free == B!get_free(s.log_buffer)
<1>1. LineOK(l) /\ l # <<>> /\ l \in Seq(Byte) /\ Len(l) \in Nat
  BY LineForOK DEF LineOK
<1>2. free \in Nat
  <2>1. s.log_buffer \in Ring
    BY StreamFields
  <2> QED BY <2>1, RingFields DEF B!get_free
<1> HIDE DEF l
<1>3. CASE free >= Len(l)
  <2>1. Push(i, m, n) = commit_msg([s EXCEPT !.log_buffer = B!append(s.log_buffer, l)])
    <3>1. SubSeq(l, 1, Len(l)) = l
      BY <1>1
    <3> QED BY <1>3, <3>1 DEF Push, push_to_log, log_parts, l
  <2>2. Logged(s, commit_msg([s EXCEPT !.log_buffer = B!append(s.log_buffer, l)]), l)
    BY <1>1, <1>2, <1>3, CommitLogs
  <2> QED BY <1>3, <2>1, <2>2 DEF l
<1>4. CASE ~(free >= Len(l)) /\ m.call = "parts"
  <2> DEFINE x == SubSeq(l, 1, free)
  <2>1. Push(i, m, n) = mark_discarded(rollback_msg([s EXCEPT !.log_buffer = B!append(s.log_buffer, x)]))
    <3>1. free # Len(l)
      BY <1>1, <1>2, <1>4
    <3> QED BY <1>4, <3>1 DEF Push, log_parts, l
  <2>2. x \in Seq(Byte) /\ Len(x) <= free
    BY <1>1, <1>2, <1>4, Prefix
  <2> HIDE DEF x
  <2>3. Logged(s, mark_discarded(rollback_msg([s EXCEPT !.log_buffer = B!append(s.log_buffer, x)])), <<>>)
    BY <2>2, RollbackLogs
  <2> QED BY <1>4, <2>1, <2>3 DEF l
<1>5. CASE ~(free >= Len(l)) /\ m.call # "parts"
  <2>1. Push(i, m, n) = mark_discarded(s)
    BY <1>5 DEF Push, push_to_log, l
  <2>2. Logged(s, mark_discarded(s), <<>>)
    BY DropLogs
  <2> QED BY <1>5, <2>1, <2>2 DEF l
<1> QED BY <1>3, <1>4, <1>5

LEMMA NothingLogged ==
    ASSUME NEW s, StreamOK(s)
    PROVE  Logged(s, s, <<>>)
<1>1. B!Contents(s.log_buffer) \in Seq(Byte)
  BY StreamFields, ContentsIs
<1>2. B!Contents(s.log_buffer) \o <<>> = B!Contents(s.log_buffer)
  BY <1>1
<1> QED BY <1>2 DEF Logged

\* A message was logged.
LEMMA DepositStep ==
    ASSUME NEW i \in Streams, StreamInv(i), NEW l, LineOK(l), Logged(stream[i], stream'[i], l),
           sent'[i] = Append(sent[i], l), out'[i] = out[i], cut'[i] = cut[i]
    PROVE  StreamInv(i)' /\ StreamStep(i)
<1>0. l \in Seq(Byte) /\ sent[i] \in Seq(Seq(Byte))
  BY DEF LineOK, StreamInv
<1>1. sent'[i] \in Seq(Seq(Byte)) /\ Len(sent'[i]) = Len(sent[i]) + 1 /\ sent'[i][Len(sent[i]) + 1] = l
      /\ \A k \in 1 .. Len(sent[i]) : sent'[i][k] = sent[i][k]
  BY <1>0, Appended
<1>2. ASSUME NEW k \in 1 .. Len(sent'[i]) PROVE LineOK(sent'[i][k])
  <2>0. Len(sent[i]) \in Nat
    BY <1>0
  <2>1. CASE k \in 1 .. Len(sent[i])
    BY <1>1, <2>1 DEF StreamInv
  <2>2. CASE k = Len(sent[i]) + 1
    BY <1>1, <2>2
  <2> QED BY <1>1, <2>0, <2>1, <2>2
<1>3. StreamOK(stream'[i]) /\ stream'[i].open = stream[i].open /\ stream'[i].release = stream[i].release
      /\ stream'[i].special = stream[i].special /\ stream'[i].msg_index = stream[i].msg_index
      /\ (Whole(stream[i]) => /\ Whole(stream'[i])
                              /\ B!Contents(stream'[i].log_buffer) = B!Contents(stream[i].log_buffer) \o l)
  BY DEF Logged
<1>4. WholeInv(i)'
  BY <1>3 DEF StreamInv, WholeInv, Place
<1>5. ~cut[i] => Deposit(i)
  BY <1>0, <1>3 DEF Deposit, StreamInv, WholeInv, Pending
<1>6. StreamInv(i)'
  BY <1>1, <1>2, <1>3, <1>4 DEF StreamInv
<1> QED BY <1>5, <1>6 DEF StreamStep

\* The stream that is written, and the other one.
LEMMA WriteStep ==
    ASSUME LogInv, NEW i \in Streams, NEW s, StreamOK(s), Core(s) = Core(stream[i]),
           i = DLOG_MAIN => s.open /\ ~s.release, NEW q, NEW keen, WriteStream(i, s, q, keen)
    PROVE  LogInv' /\ \A j \in Streams : StreamStep(j)
<1>1. /\ StreamOK(stream'[i]) /\ out'[i] \in Seq(Bytes) /\ cut'[i] \in BOOLEAN
      /\ i = DLOG_MAIN => (stream'[i].open => ~stream'[i].release)
      /\ ~cut'[i] => ~cut[i] /\ Drain(i) /\ WholeInv(i)'
      /\ stream' = [stream EXCEPT ![i] = stream'[i]] /\ out' = [out EXCEPT ![i] = out'[i]]
      /\ cut' = [cut EXCEPT ![i] = cut'[i]] /\ sent' = sent
  BY WriteKeeps
<1>2. OnStreams /\ \A j \in Streams : StreamInv(j)
  BY InvParts
<1>3. OnStreams'
  BY <1>1, <1>2 DEF OnStreams
<1>4. StreamInv(i)' /\ StreamStep(i)
  <2>1. WholeInv(i)'
    BY <1>1 DEF WholeInv
  <2> QED BY <1>1, <1>2, <2>1 DEF StreamInv, StreamStep
<1>5. ASSUME NEW j \in Streams, j # i
      PROVE  StreamInv(j)' /\ StreamStep(j)
  <2>1. stream'[j] = stream[j] /\ Same(j)
    BY <1>1, <1>2, <1>5 DEF Same, OnStreams
  <2>2. StreamInv(j)
    BY <1>2
  <2> QED BY <2>1, <2>2, IdleStep DEF StreamInv
<1> QED BY <1>3, <1>4, <1>5, InvNext

\* Every step keeps the invariant and is one of the steps of a stream.
LEMMA LogStep ==
    ASSUME LogInv, [Next]_vars
    PROVE  LogInv' /\ \A i \in Streams : StreamStep(i)
<1>0. OnStreams /\ \A i \in Streams : StreamInv(i)
  BY InvParts
<1>1. CASE UNCHANGED vars
  <2>1. ASSUME NEW i \in Streams PROVE StreamInv(i)' /\ StreamStep(i)
    <3>1. stream'[i] = stream[i] /\ Same(i)
      BY <1>1 DEF vars, Same
    <3>2. StreamInv(i)
      BY <1>0
    <3> QED BY <3>1, <3>2, IdleStep DEF StreamInv
  <2>2. OnStreams'
    BY <1>0, <1>1 DEF vars, OnStreams
  <2> QED BY <2>1, <2>2, InvNext
<1>2. ASSUME NEW m \in Messages, LogMessage(m)
      PROVE  LogInv' /\ \A i \in Streams : StreamStep(i)
  <2> DEFINE n == NextNumber
             to == LogCurrentLine(m)
             line(i) == IF i \in to /\ B!get_free(stream[i].log_buffer) >= Len(LineFor(i, m, n))
                        THEN LineFor(i, m, n) ELSE <<>>
  <2>1. stream' = [i \in Streams |-> IF i \in to THEN Push(i, m, n) ELSE stream[i]]
        /\ sent' = [i \in Streams |-> Append(sent[i], line(i))] /\ out' = out /\ cut' = cut
    BY <1>2 DEF LogMessage
  <2>2. n \in Nat \ {0}
    <3>1. sent[DLOG_MAIN] \in Seq(Seq(Byte))
      BY <1>0 DEF StreamInv, Streams
    <3> QED BY <3>1 DEF NextNumber
  <2> HIDE DEF n, to
  <2>3. ASSUME NEW i \in Streams PROVE StreamInv(i)' /\ StreamStep(i)
    <3>0. StreamInv(i) /\ StreamOK(stream[i])
      BY <1>0 DEF StreamInv
    <3>1. LineOK(line(i))
      <4>1. LineOK(LineFor(i, m, n))
        BY <2>2, LineForOK
      <4>2. LineOK(<<>>)
        BY DEF LineOK
      <4> QED BY <4>1, <4>2
    <3>2. Logged(stream[i], stream'[i], line(i))
      <4>1. CASE i \in to
        <5>1. stream'[i] = Push(i, m, n)
          BY <2>1, <4>1
        <5>2. Logged(stream[i], Push(i, m, n),
                  IF B!get_free(stream[i].log_buffer) >= Len(LineFor(i, m, n)) THEN LineFor(i, m, n) ELSE <<>>)
          BY <2>2, <3>0, PushLogs
        <5> QED BY <4>1, <5>1, <5>2
      <4>2. CASE i \notin to
        <5>1. stream'[i] = stream[i] /\ line(i) = <<>>
          BY <2>1, <4>2
        <5> HIDE DEF line
        <5> QED BY <3>0, <5>1, NothingLogged
      <4> QED BY <4>1, <4>2
    <3> HIDE DEF line
    <3>3. sent'[i] = Append(sent[i], line(i)) /\ out'[i] = out[i] /\ cut'[i] = cut[i]
      BY <2>1
    <3> QED BY <3>0, <3>1, <3>2, <3>3, DepositStep
  <2>4. OnStreams'
    <3> HIDE DEF line
    <3> QED BY <1>0, <2>1 DEF OnStreams
  <2> QED BY <2>3, <2>4, InvNext
<1>3. ASSUME NEW i \in Streams, FdEvent(i)
      PROVE  LogInv' /\ \A j \in Streams : StreamStep(j)
  <2>1. StreamOK(stream[i]) /\ stream[i].open /\ (i = DLOG_MAIN => ~stream[i].release)
        /\ WriteStream(i, stream[i], console_queue, NoService)
    BY <1>0, <1>3 DEF FdEvent, Armed, StreamInv
  <2> QED BY <2>1, WriteStep
<1>4. ASSUME NEW s \in Services, QueueForConsole(s)
      PROVE  LogInv' /\ \A i \in Streams : StreamStep(i)
  <2> DEFINE q == Append(console_queue, s)
             r == [stream[DLOG_CONS] EXCEPT !.release = TRUE]
  <2>1. CASE console_queue = <<>> /\ ~stream[DLOG_CONS].release
    <3>1. WriteStream(DLOG_CONS, r, q, s)
      BY <1>4, <2>1 DEF QueueForConsole
    <3>2. DLOG_CONS \in Streams /\ DLOG_CONS # DLOG_MAIN
      BY DEF Streams, DLOG_CONS, DLOG_MAIN
    <3>3. StreamOK(r) /\ Core(r) = Core(stream[DLOG_CONS])
      <4>1. StreamOK(stream[DLOG_CONS]) /\ stream[DLOG_CONS] \in StreamType
        BY <1>0, <3>2 DEF StreamInv, StreamOK
      <4>2. r \in StreamType
        BY <4>1, Zenon DEF StreamType
      <4> QED BY <4>1, <4>2 DEF StreamOK, StreamType, Core
    <3> HIDE DEF r, q
    <3> QED BY <3>1, <3>2, <3>3, WriteStep
  <2>2. CASE ~(console_queue = <<>> /\ ~stream[DLOG_CONS].release)
    <3>1. stream' = stream /\ sent' = sent /\ out' = out /\ cut' = cut
      BY <1>4, <2>2 DEF QueueForConsole, history
    <3>2. ASSUME NEW i \in Streams PROVE StreamInv(i)' /\ StreamStep(i)
      <4>1. stream'[i] = stream[i] /\ Same(i)
        BY <3>1 DEF Same
      <4>2. StreamInv(i)
        BY <1>0
      <4> QED BY <4>1, <4>2, IdleStep DEF StreamInv
    <3>3. OnStreams'
      BY <1>0, <3>1 DEF OnStreams
    <3> QED BY <3>2, <3>3, InvNext
  <2> QED BY <2>1, <2>2
<1>5. ASSUME NEW s \in Services, UnqueueConsole(s)
      PROVE  LogInv' /\ \A i \in Streams : StreamStep(i)
  <2>1. stream' = stream /\ sent' = sent /\ out' = out /\ cut' = cut
    BY <1>5 DEF UnqueueConsole, history
  <2>2. ASSUME NEW i \in Streams PROVE StreamInv(i)' /\ StreamStep(i)
    <3>1. stream'[i] = stream[i] /\ Same(i)
      BY <2>1 DEF Same
    <3>2. StreamInv(i)
      BY <1>0
    <3> QED BY <3>1, <3>2, IdleStep DEF StreamInv
  <2>3. OnStreams'
    BY <1>0, <2>1 DEF OnStreams
  <2> QED BY <2>2, <2>3, InvNext
<1>6. CASE ReleaseConsole
  <2>1. PICK p \in pull_console_queue(stream[DLOG_CONS], console_queue) :
          stream' = [stream EXCEPT ![DLOG_CONS] = p.stream]
    BY <1>6 DEF ReleaseConsole
  <2>2. sent' = sent /\ out' = out /\ cut' = cut
    BY <1>6 DEF ReleaseConsole, history
  <2>3. DLOG_CONS \in Streams
    BY DEF Streams
  <2>4. ASSUME NEW i \in Streams PROVE StreamInv(i)' /\ StreamStep(i)
    <3>1. Same(i) /\ StreamInv(i) /\ StreamOK(stream[i])
      BY <1>0, <2>2 DEF Same, StreamInv
    <3>2. CASE i = DLOG_CONS
      <4>1. stream'[i] = p.stream
        BY <1>0, <2>1, <3>2 DEF OnStreams
      <4>2. Handed(stream[i], stream'[i])
        BY <3>1, <3>2, <4>1, PullHands
      <4> QED BY <3>1, <3>2, <4>2, HandStep
    <3>3. CASE i # DLOG_CONS
      <4>1. stream'[i] = stream[i]
        BY <1>0, <2>1, <3>3 DEF OnStreams
      <4> QED BY <3>1, <4>1, IdleStep DEF StreamInv
    <3> QED BY <3>2, <3>3
  <2>5. OnStreams'
    BY <1>0, <2>1, <2>2 DEF OnStreams
  <2> QED BY <2>4, <2>5, InvNext
<1>7. CASE SetupMainLog
  <2> DEFINE r == [stream[DLOG_MAIN] EXCEPT !.open = TRUE, !.release = FALSE, !.enabled = TRUE]
  <2>1. stream' = [stream EXCEPT ![DLOG_MAIN] = r]
    BY <1>0, <1>7 DEF SetupMainLog, OnStreams, Streams
  <2>2. sent' = sent /\ out' = out /\ cut' = cut
    BY <1>7 DEF SetupMainLog, history
  <2>3. ASSUME NEW i \in Streams PROVE StreamInv(i)' /\ StreamStep(i)
    <3>1. Same(i) /\ StreamInv(i) /\ StreamOK(stream[i])
      BY <1>0, <2>2 DEF Same, StreamInv
    <3>2. CASE i = DLOG_MAIN
      <4> DEFINE a == TRUE
                 b == FALSE
      <4>1. stream'[i] = r
        BY <1>0, <2>1, <3>2 DEF OnStreams
      <4>2. Watched(stream[i], stream'[i], a, b)
        BY <3>2, <4>1 DEF Watched
      <4> HIDE DEF a, b
      <4>3. StreamOK(stream'[i]) /\ Core(stream'[i]) = Core(stream[i]) /\ stream'[i].release = b
        BY <3>1, <4>2, WatcherChanges
      <4>4. ~stream'[i].release
        BY <4>3 DEF b
      <4> QED BY <3>1, <4>3, <4>4, IdleStep
    <3>3. CASE i # DLOG_MAIN
      <4>1. stream'[i] = stream[i]
        BY <1>0, <2>1, <3>3 DEF OnStreams
      <4> QED BY <3>1, <3>3, <4>1, IdleStep
    <3> QED BY <3>2, <3>3
  <2>4. OnStreams'
    <3> HIDE DEF r
    <3> QED BY <1>0, <2>1, <2>2 DEF OnStreams
  <2> QED BY <2>3, <2>4, InvNext
<1>8. CASE CloseLog
  <2>1. stream' = [i \in Streams |-> IF stream[i].open THEN Removed(stream[i]) ELSE stream[i]]
        /\ sent' = sent /\ out' = out /\ cut' = cut
    BY <1>8 DEF CloseLog, history
  <2>2. ASSUME NEW i \in Streams PROVE StreamInv(i)' /\ StreamStep(i)
    <3>1. Same(i) /\ StreamInv(i) /\ StreamOK(stream[i])
      BY <1>0, <2>1 DEF Same, StreamInv
    <3>2. stream'[i] = Removed(stream[i]) \/ (stream'[i] = stream[i] /\ ~stream[i].open)
      BY <2>1
    <3>3. StreamOK(stream'[i]) /\ Core(stream'[i]) = Core(stream[i]) /\ ~stream'[i].open
      BY <3>1, <3>2, RemovedKeeps
    <3> QED BY <3>1, <3>3, IdleStep
  <2>3. OnStreams'
    BY <1>0, <2>1 DEF OnStreams
  <2> QED BY <2>2, <2>3, InvNext
<1> QED BY <1>1, <1>2, <1>3, <1>4, <1>5, <1>6, <1>7, <1>8 DEF Next

----------------------------------------------------------------------------
(* The main log *)

\* At the start nothing was sent, written or buffered.
LEMMA LogStart ==
    ASSUME Init
    PROVE  LogInv /\ \A i \in Streams : sent[i] = <<>> /\ Text(i) = <<>> /\ Pending(i) = <<>>
<1>1. B!Empty \in Ring /\ B!Empty.length = 0
  BY LogAssumption DEF B!Empty, Ring, Byte, Notice, Range
<1>2. NewStream \in StreamType /\ NewStream.log_buffer = B!Empty /\ NewStream.current_index = 0
      /\ ~NewStream.partway /\ ~NewStream.special /\ NewStream.msg_index = 0
  BY <1>1, LogAssumption DEF NewStream, StreamType
<1>3. TextOf(<<>>) = <<>>
  <2> DEFINE e == <<>>
  <2>1. e \in Seq(Bytes) /\ Len(e) = 0
    OBVIOUS
  <2> HIDE DEF e
  <2>2. Lines(e) \in Seq(Seq(Bytes)) /\ Len(Lines(e)) = 0
    BY <2>1, LinesType
  <2>3. Lines(e) = <<>>
    BY <2>2
  <2> QED BY <2>3, FlattenEmpty DEF TextOf, Lines, e
<1>4. \A i \in Streams : sent[i] = <<>> /\ out[i] = <<>> /\ cut[i] = FALSE
  BY DEF Init
<1>5. ASSUME NEW i \in Streams
      PROVE  stream[i] \in StreamType /\ Core(stream[i]) = Core(NewStream)
             /\ (i = DLOG_MAIN => (stream[i].open => ~stream[i].release))
  <2> DEFINE r == [NewStream EXCEPT !.open = TRUE, !.release = FALSE, !.enabled = TRUE]
  <2>1. stream[i] = IF i = DLOG_CONS THEN r ELSE NewStream
    BY DEF Init
  <2>2. r \in StreamType
    BY <1>2, Zenon DEF StreamType
  <2>3. Core(r) = Core(NewStream)
    BY <1>2 DEF StreamType, Core
  <2>4. ~NewStream.open
    BY DEF NewStream
  <2> QED BY <1>2, <2>1, <2>2, <2>3, <2>4 DEF DLOG_MAIN, DLOG_CONS
<1>6. ASSUME NEW i \in Streams
      PROVE  StreamInv(i) /\ sent[i] = <<>> /\ Text(i) = <<>> /\ Pending(i) = <<>>
  <2>1. stream[i].log_buffer = B!Empty /\ stream[i].current_index = 0 /\ ~stream[i].partway
        /\ ~stream[i].special /\ stream[i].msg_index = 0
    BY <1>2, <1>5, SameCore
  <2>2. Len(B!Contents(B!Empty)) = 0 /\ B!Contents(B!Empty) \in Seq(Byte)
    BY <1>1, ContentsIs
  <2>3. Pending(i) = <<>>
    BY <2>1, <2>2 DEF Pending
  <2>4. Text(i) = <<>>
    BY <1>3, <1>4 DEF Text
  <2>5. StreamOK(stream[i]) /\ Whole(stream[i])
    BY <1>1, <1>5, <2>1 DEF StreamOK, Whole
  <2>6. Place(out[i], stream[i]) /\ TextEnds(out[i])
    BY <1>3, <1>4, <2>1 DEF Place, EndOfLine, TextEnds
  <2>7. sent[i] \in Seq(Seq(Byte)) /\ out[i] \in Seq(Bytes) /\ cut[i] \in BOOLEAN
        /\ \A k \in 1 .. Len(sent[i]) : LineOK(sent[i][k])
    <3>1. <<>> \in Seq(Seq(Byte)) /\ <<>> \in Seq(Bytes) /\ \A k \in 1 .. Len(<<>>) : FALSE
      OBVIOUS
    <3>2. \A k \in 1 .. Len(sent[i]) : LineOK(sent[i][k])
      BY <1>4, <3>1
    <3> QED BY <1>4, <3>1, <3>2
  <2>8. StreamInv(i)
    BY <1>5, <2>5, <2>6, <2>7 DEF StreamInv, WholeInv
  <2> QED BY <1>4, <2>3, <2>4, <2>8
<1>7. OnStreams
  BY DEF Init, OnStreams
<1>8. LogInv
  BY <1>6, <1>7, InvParts
<1> QED BY <1>6, <1>8

\* What is pending and what was sent, as sequences of numbers.
LEMMA PartTypes ==
    ASSUME LogInv, NEW i \in Streams
    PROVE  /\ Text(i) \in Seq(Bytes) /\ Pending(i) \in Seq(Bytes)
           /\ sent[i] \in Seq(Seq(Byte)) /\ sent[i] \in Seq(Seq(Bytes))
           /\ \A k \in 1 .. Len(sent[i]) : LineOK(sent[i][k])
<1>1. StreamInv(i)
  BY InvParts
<1>2. Pending(i) \in Seq(Bytes)
  BY <1>1, StreamFields, ContentsIs, ByteBytes DEF StreamInv, Pending
<1>3. Text(i) \in Seq(Bytes)
  BY <1>1, TextType DEF StreamInv, Text
<1>4. sent[i] \in Seq(Seq(Byte)) /\ \A k \in 1 .. Len(sent[i]) : LineOK(sent[i][k])
  BY <1>1 DEF StreamInv
<1>5. \A k \in 1 .. Len(sent[i]) : sent[i][k] \in Seq(Bytes)
  BY <1>4, ByteBytes
<1>6. sent[i] \in Seq(Seq(Bytes))
  BY <1>4, <1>5, Retyped
<1> QED BY <1>2, <1>3, <1>4, <1>6

LEMMA MainLogStep ==
    ASSUME LogInv, MainLogComplete, StreamStep(DLOG_MAIN)
    PROVE  MainLogComplete'
<1> SUFFICES ASSUME ~cut'[DLOG_MAIN]
             PROVE  Text(DLOG_MAIN)' \o Pending(DLOG_MAIN)' = FlattenSeq(sent'[DLOG_MAIN])
  BY DEF MainLogComplete
<1> DEFINE i == DLOG_MAIN
<1>1. i \in Streams /\ i # DLOG_CONS
  BY DEF Streams, DLOG_MAIN, DLOG_CONS
<1>2. Deposit(i) \/ Drain(i)
  BY DEF StreamStep
<1>3. Text(i) \o Pending(i) = FlattenSeq(sent[i])
  BY DEF StreamStep, MainLogComplete
<1>4. Text(i) \in Seq(Bytes) /\ Pending(i) \in Seq(Bytes) /\ sent[i] \in Seq(Seq(Bytes))
  BY <1>1, PartTypes
<1> HIDE DEF i
<1>5. CASE Deposit(i)
  <2>1. PICK l \in Seq(Byte) : sent'[i] = Append(sent[i], l) /\ Pending(i)' = Pending(i) \o l /\ out'[i] = out[i]
    BY <1>5 DEF Deposit
  <2>2. l \in Seq(Bytes)
    BY ByteBytes
  <2>3. FlattenSeq(Append(sent[i], l)) = FlattenSeq(sent[i]) \o l
    BY <1>4, <2>2, FlattenAppend
  <2>4. (Text(i) \o Pending(i)) \o l = Text(i) \o (Pending(i) \o l)
    BY <1>4, <2>2, Associative
  <2>5. Text(i)' = Text(i)
    BY <2>1 DEF Text
  <2>6. Text(i)' \o Pending(i)' = FlattenSeq(sent'[i])
    BY <1>3, <2>1, <2>3, <2>4, <2>5
  <2> QED BY <2>6 DEF i
<1>6. CASE Drain(i)
  <2>1. PICK p \in Seq(Bytes) : Text(i)' \o p = Text(i) \o Pending(i) /\ Pending(i)' = p
    BY <1>1, <1>6 DEF Drain
  <2>2. sent'[i] = sent[i]
    BY <1>6 DEF Drain
  <2>3. Text(i)' \o Pending(i)' = FlattenSeq(sent'[i])
    BY <1>3, <2>1, <2>2
  <2> QED BY <2>3 DEF i
<1> QED BY <1>2, <1>5, <1>6

\* No line of the main log is lost, changed or reordered, whatever the sizes
\* of the buffer and of the messages: while no write was short, the text that
\* log_stream[DLOG_MAIN] wrote and what its circular buffer holds are the
\* lines that were committed, in their order.
THEOREM MainLogIsComplete == Spec => []MainLogComplete
<1>1. Init => LogInv /\ MainLogComplete
  <2> SUFFICES ASSUME Init PROVE LogInv /\ MainLogComplete
    OBVIOUS
  <2>1. LogInv /\ sent[DLOG_MAIN] = <<>> /\ Text(DLOG_MAIN) = <<>> /\ Pending(DLOG_MAIN) = <<>>
    BY LogStart DEF Streams
  <2>2. <<>> \o <<>> = <<>>
    OBVIOUS
  <2> QED BY <2>1, <2>2, FlattenEmpty DEF MainLogComplete
<1>2. LogInv /\ MainLogComplete /\ [Next]_vars => LogInv' /\ MainLogComplete'
  <2> SUFFICES ASSUME LogInv, MainLogComplete, [Next]_vars
               PROVE  LogInv' /\ MainLogComplete'
    OBVIOUS
  <2>1. LogInv' /\ StreamStep(DLOG_MAIN)
    BY LogStep DEF Streams
  <2> QED BY <2>1, MainLogStep
<1> QED BY <1>1, <1>2, PTL DEF Spec

----------------------------------------------------------------------------
(* The console *)

LEMMA KeptType ==
    ASSUME NEW q \in Seq(Seq(Bytes)), NEW kept
    PROVE  /\ Kept(q, kept) \in Seq(Seq(Bytes)) /\ Len(Kept(q, kept)) = Len(q) /\ Len(q) \in Nat
           /\ DOMAIN q = 1 .. Len(q)
           /\ \A k \in 1 .. Len(q) : Kept(q, kept)[k] = IF k \in kept THEN q[k] ELSE <<>>
<1>1. DOMAIN q = 1 .. Len(q) /\ Len(q) \in Nat
  OBVIOUS
<1>2. \A k \in 1 .. Len(q) : (IF k \in kept THEN q[k] ELSE <<>>) \in Seq(Bytes)
  OBVIOUS
<1>3. Kept(q, kept) \in [1 .. Len(q) -> Seq(Bytes)]
  BY <1>1, <1>2 DEF Kept
<1>4. \A k \in 1 .. Len(q) : Kept(q, kept)[k] = IF k \in kept THEN q[k] ELSE <<>>
  BY <1>1 DEF Kept
<1>5. Kept(q, kept) \in Seq(Seq(Bytes)) /\ Len(Kept(q, kept)) = Len(q)
  BY <1>1, <1>3
<1> QED BY <1>1, <1>4, <1>5

\* A line more that is kept.
LEMMA KeptAppend ==
    ASSUME NEW q \in Seq(Seq(Bytes)), NEW l \in Seq(Bytes), NEW kept \in SUBSET DOMAIN q
    PROVE  /\ FlattenSeq(Kept(Append(q, l), kept \cup {Len(q) + 1})) = FlattenSeq(Kept(q, kept)) \o l
           /\ kept \cup {Len(q) + 1} \in SUBSET DOMAIN Append(q, l)
<1> DEFINE qq == Append(q, l)
           new == kept \cup {Len(q) + 1}
           r == Kept(q, kept)
           rr == Kept(qq, new)
           s == Append(r, l)
<1>1. qq \in Seq(Seq(Bytes)) /\ Len(qq) = Len(q) + 1 /\ qq[Len(q) + 1] = l /\ \A k \in 1 .. Len(q) : qq[k] = q[k]
  BY Appended
<1>2. /\ r \in Seq(Seq(Bytes)) /\ Len(r) = Len(q) /\ Len(q) \in Nat /\ DOMAIN q = 1 .. Len(q)
      /\ \A k \in 1 .. Len(q) : r[k] = IF k \in kept THEN q[k] ELSE <<>>
  BY KeptType
<1> HIDE DEF r
<1>3. /\ s \in Seq(Seq(Bytes)) /\ Len(s) = Len(q) + 1 /\ s[Len(q) + 1] = l
      /\ \A k \in 1 .. Len(q) : s[k] = r[k]
  <2>1. s \in Seq(Seq(Bytes)) /\ Len(s) = Len(r) + 1 /\ s[Len(r) + 1] = l /\ \A k \in 1 .. Len(r) : s[k] = r[k]
    BY <1>2, Appended
  <2> HIDE DEF s
  <2> QED BY <1>2, <2>1
<1> HIDE DEF qq, s
<1>4. /\ rr \in Seq(Seq(Bytes)) /\ Len(rr) = Len(q) + 1 /\ DOMAIN qq = 1 .. Len(q) + 1
      /\ \A k \in 1 .. Len(q) + 1 : rr[k] = IF k \in new THEN qq[k] ELSE <<>>
  <2> HIDE DEF new
  <2>1. /\ Kept(qq, new) \in Seq(Seq(Bytes)) /\ Len(Kept(qq, new)) = Len(qq) /\ DOMAIN qq = 1 .. Len(qq)
        /\ \A k \in 1 .. Len(qq) : Kept(qq, new)[k] = IF k \in new THEN qq[k] ELSE <<>>
    BY <1>1, KeptType
  <2> QED BY <1>1, <2>1
<1> HIDE DEF rr
<1>5. ASSUME NEW k \in 1 .. Len(rr) PROVE rr[k] = s[k]
  <2>1. CASE k \in 1 .. Len(q)
    <3>1. k # Len(q) + 1
      BY <1>2, <2>1
    <3> QED BY <1>1, <1>2, <1>3, <1>4, <2>1, <3>1
  <2>2. CASE k = Len(q) + 1
    BY <1>1, <1>3, <1>4, <2>2
  <2> QED BY <1>2, <1>4, <2>1, <2>2
<1>6. rr = s
  BY <1>3, <1>4, <1>5, SameSeq
<1>7. FlattenSeq(s) = FlattenSeq(r) \o l
  BY <1>2, FlattenAppend DEF s
<1>8. new \in SUBSET DOMAIN qq
  BY <1>2, <1>4
<1> QED BY <1>6, <1>7, <1>8 DEF qq, rr, r

\* A text that is the start of some lines, and ends where a line does, is
\* the first of these lines.
IsStart(T, w) == Len(T) <= Len(w) /\ \A j \in 1 .. Len(T) : T[j] = w[j]

LEMMA StartOfLines ==
    ASSUME NEW r \in Seq(Seq(Bytes)), \A k \in 1 .. Len(r) : LineOK(r[k]),
           NEW T \in Seq(Bytes), T = <<>> \/ T[Len(T)] = NL, IsStart(T, FlattenSeq(r))
    PROVE  \E m \in 0 .. Len(r) : Flat(r, m) = T
<1> DEFINE I == {n \in 0 .. Len(r) : IsStart(T, Flat(r, n)) => \E m \in 0 .. Len(r) : Flat(r, m) = T}
<1>0. Len(r) \in Nat /\ Len(T) \in Nat
  OBVIOUS
<1>1. 0 \in I
  <2>1. Flat(r, 0) = <<>> /\ 0 \in 0 .. Len(r)
    BY <1>0, FlatStart
  <2>2. IsStart(T, <<>>) => T = <<>>
    BY <1>0 DEF IsStart
  <2> QED BY <2>1, <2>2
<1>2. \A k \in 1 .. Len(r) : k - 1 \in I => k \in I
  <2> SUFFICES ASSUME NEW k \in 1 .. Len(r), IsStart(T, Flat(r, k - 1)) => \E m \in 0 .. Len(r) : Flat(r, m) = T,
                      IsStart(T, Flat(r, k))
               PROVE  \E m \in 0 .. Len(r) : Flat(r, m) = T
    OBVIOUS
  <2> DEFINE a == Flat(r, k - 1)
             b == Flat(r, k)
             c == r[k]
  <2>0. k \in 0 .. Len(r) /\ k - 1 \in 0 .. Len(r)
    BY <1>0
  <2>1. a \in Seq(Bytes) /\ b \in Seq(Bytes) /\ b = a \o c /\ c \in Seq(Bytes) /\ LineOK(c)
    <3>1. a \in Seq(Bytes) /\ b \in Seq(Bytes)
      BY <2>0, FlatType
    <3>2. b = a \o c
      BY FlatStep
    <3> QED BY <3>1, <3>2
  <2>2. IsStart(T, b) /\ (IsStart(T, a) => \E m \in 0 .. Len(r) : Flat(r, m) = T)
    OBVIOUS
  <2> HIDE DEF a, b, c
  <2>3. Len(b) = Len(a) + Len(c) /\ Len(a) \in Nat /\ Len(c) \in Nat
        /\ (\A j \in 1 .. Len(a) : b[j] = a[j]) /\ (\A j \in 1 .. Len(c) : b[Len(a) + j] = c[j])
    BY <2>1, Joined
  <2>4. CASE Len(T) <= Len(a)
    <3>1. \A j \in 1 .. Len(T) : T[j] = a[j]
      BY <1>0, <2>2, <2>3, <2>4 DEF IsStart
    <3> QED BY <2>2, <2>4, <3>1 DEF IsStart
  <2>5. CASE Len(T) > Len(a)
    <3> DEFINE j == Len(T) - Len(a)
    <3>1. j \in 1 .. Len(c) /\ Len(a) + j = Len(T) /\ Len(T) \in 1 .. Len(T)
      BY <1>0, <2>2, <2>3, <2>5 DEF IsStart
    <3>2. T # <<>>
      BY <2>3, <2>5
    <3>3. c[j] = NL
      <4>1. T[Len(T)] = NL
        BY <3>2
      <4>2. b[Len(T)] = NL
        BY <2>2, <3>1, <4>1 DEF IsStart
      <4>3. b[Len(a) + j] = c[j]
        BY <2>3, <3>1
      <4> HIDE DEF j
      <4> QED BY <3>1, <4>2, <4>3
    <3> HIDE DEF j
    <3>4. j = Len(c)
      BY <2>1, <3>1, <3>3 DEF LineOK
    <3>5. Len(T) = Len(b)
      BY <2>3, <3>1, <3>4
    <3>6. \A n \in 1 .. Len(T) : T[n] = b[n]
      BY <2>2 DEF IsStart
    <3>7. T = b
      BY <2>1, <3>5, <3>6, SameSeq
    <3> QED BY <2>0, <3>7 DEF b
  <2> QED BY <1>0, <2>3, <2>4, <2>5
<1>3. I \in SUBSET (0 .. Len(r))
  OBVIOUS
<1>4. I = 0 .. Len(r)
  <2> HIDE DEF I
  <2> QED BY <1>0, <1>1, <1>2, <1>3, SetInduction
<1>5. Len(r) \in I
  BY <1>0, <1>4
<1> QED BY <1>5, FlatStart

\* What follows the first m lines is left out.
LEMMA KeptUpTo ==
    ASSUME NEW q \in Seq(Seq(Bytes)), NEW kept \in SUBSET DOMAIN q, NEW m \in 0 .. Len(q)
    PROVE  FlattenSeq(Kept(q, {k \in kept : k <= m})) = Flat(Kept(q, kept), m)
<1> DEFINE some == {k \in kept : k <= m}
           r == Kept(q, kept)
           s == Kept(q, some)
           I == {n \in 0 .. Len(q) : Flat(s, n) = Flat(r, IF n <= m THEN n ELSE m)}
<1>1. /\ r \in Seq(Seq(Bytes)) /\ Len(r) = Len(q) /\ Len(q) \in Nat
      /\ \A k \in 1 .. Len(q) : r[k] = IF k \in kept THEN q[k] ELSE <<>>
  BY KeptType
<1>2. /\ s \in Seq(Seq(Bytes)) /\ Len(s) = Len(q)
      /\ \A k \in 1 .. Len(q) : s[k] = IF k \in some THEN q[k] ELSE <<>>
  <2> HIDE DEF some
  <2> QED BY KeptType
<1>3. \A k \in 1 .. Len(q) : s[k] = IF k <= m THEN r[k] ELSE <<>>
  <2> HIDE DEF r, s
  <2> QED BY <1>1, <1>2
<1> HIDE DEF r, s
<1>4. 0 \in I
  <2>1. Flat(s, 0) = <<>> /\ Flat(r, 0) = <<>>
    BY <1>1, <1>2, FlatStart
  <2> QED BY <1>1, <2>1
<1>5. \A k \in 1 .. Len(q) : k - 1 \in I => k \in I
  <2> SUFFICES ASSUME NEW k \in 1 .. Len(q), Flat(s, k - 1) = Flat(r, IF k - 1 <= m THEN k - 1 ELSE m)
               PROVE  Flat(s, k) = Flat(r, IF k <= m THEN k ELSE m)
    BY <1>1
  <2>1. Flat(s, k) = Flat(s, k - 1) \o s[k] /\ Flat(r, k) = Flat(r, k - 1) \o r[k]
    BY <1>1, <1>2, FlatStep
  <2>2. CASE k <= m
    <3>1. k - 1 <= m
      BY <1>1, <2>2
    <3> QED BY <1>3, <2>1, <2>2, <3>1
  <2>3. CASE ~(k <= m)
    <3>1. (IF k - 1 <= m THEN k - 1 ELSE m) = m
      BY <1>1, <2>3
    <3>2. Flat(r, m) \in Seq(Bytes)
      BY <1>1, FlatType
    <3>3. s[k] = <<>>
      BY <1>3, <2>3
    <3>4. Flat(r, m) \o <<>> = Flat(r, m)
      BY <3>2, Joined
    <3>5. Flat(s, k) = Flat(r, m)
      BY <2>1, <3>1, <3>3, <3>4
    <3> QED BY <2>3, <3>5
  <2> QED BY <2>2, <2>3
<1>6. I \in SUBSET (0 .. Len(q))
  OBVIOUS
<1>7. I = 0 .. Len(q)
  <2> HIDE DEF I
  <2> QED BY <1>1, <1>4, <1>5, <1>6, SetInduction
<1>8. Flat(s, Len(q)) = Flat(r, m)
  <2>1. Len(q) \in I
    <3> HIDE DEF I
    <3> QED BY <1>1, <1>7
  <2>2. (IF Len(q) <= m THEN Len(q) ELSE m) = m
    <3> HIDE DEF I
    <3> QED BY <1>1, SMTT(20)
  <2> QED BY <2>1, <2>2
<1> QED BY <1>2, <1>8, FlatStart DEF r, s

\* The rest of the buffer is dropped: the lines of which it held are left out.
LEMMA KeptCut ==
    ASSUME NEW q \in Seq(Seq(Bytes)), \A k \in 1 .. Len(q) : LineOK(q[k]), NEW kept \in SUBSET DOMAIN q,
           NEW T \in Seq(Bytes), NEW p \in Seq(Bytes), T = <<>> \/ T[Len(T)] = NL,
           FlattenSeq(Kept(q, kept)) = T \o p
    PROVE  \E some \in SUBSET DOMAIN q : FlattenSeq(Kept(q, some)) = T
<1> DEFINE r == Kept(q, kept)
<1>1. /\ r \in Seq(Seq(Bytes)) /\ Len(r) = Len(q)
      /\ \A k \in 1 .. Len(q) : r[k] = IF k \in kept THEN q[k] ELSE <<>>
  BY KeptType
<1>2. IsStart(T, FlattenSeq(r))
  <2>1. Len(T \o p) = Len(T) + Len(p) /\ Len(T) \in Nat /\ Len(p) \in Nat
        /\ \A j \in 1 .. Len(T) : (T \o p)[j] = T[j]
    BY Joined
  <2>2. IsStart(T, T \o p)
    BY <2>1 DEF IsStart
  <2> QED BY <2>2
<1> HIDE DEF r
<1>3. \A k \in 1 .. Len(r) : LineOK(r[k])
  <2>1. LineOK(<<>>)
    BY DEF LineOK
  <2> QED BY <1>1, <2>1
<1>4. PICK m \in 0 .. Len(r) : Flat(r, m) = T
  BY <1>1, <1>2, <1>3, StartOfLines
<1>5. FlattenSeq(Kept(q, {k \in kept : k <= m})) = T
  BY <1>1, <1>4, KeptUpTo DEF r
<1>6. {k \in kept : k <= m} \in SUBSET DOMAIN q
  OBVIOUS
<1> QED BY <1>5, <1>6

\* Some of the accepted lines are what was written and what is pending.
ConsoleKeeps == ~cut[DLOG_CONS] => \E kept \in SUBSET DOMAIN sent[DLOG_CONS] : IsKept(DLOG_CONS, kept)

LEMMA ConsoleStep ==
    ASSUME LogInv, LogInv', ConsoleKeeps, StreamStep(DLOG_CONS)
    PROVE  ConsoleKeeps'
<1> SUFFICES ASSUME ~cut'[DLOG_CONS]
             PROVE  \E kept \in SUBSET DOMAIN sent'[DLOG_CONS] :
                      FlattenSeq(Kept(sent'[DLOG_CONS], kept)) = Text(DLOG_CONS)' \o Pending(DLOG_CONS)'
  BY DEF ConsoleKeeps, IsKept
<1> DEFINE i == DLOG_CONS
<1>1. i \in Streams
  BY DEF Streams
<1>2. Deposit(i) \/ Drain(i)
  BY DEF StreamStep
<1>3. PICK kept \in SUBSET DOMAIN sent[i] : FlattenSeq(Kept(sent[i], kept)) = Text(i) \o Pending(i)
  BY DEF StreamStep, ConsoleKeeps, IsKept
<1>4. Text(i) \in Seq(Bytes) /\ Pending(i) \in Seq(Bytes) /\ sent[i] \in Seq(Seq(Bytes))
      /\ \A k \in 1 .. Len(sent[i]) : LineOK(sent[i][k])
  BY <1>1, PartTypes
<1>5. CASE Deposit(i)
  <2> HIDE DEF i
  <2>1. PICK l \in Seq(Byte) : sent'[i] = Append(sent[i], l) /\ Pending(i)' = Pending(i) \o l /\ out'[i] = out[i]
    BY <1>5 DEF Deposit
  <2>2. l \in Seq(Bytes)
    BY ByteBytes
  <2> DEFINE more == kept \cup {Len(sent[i]) + 1}
  <2>3. FlattenSeq(Kept(sent'[i], more)) = FlattenSeq(Kept(sent[i], kept)) \o l
        /\ more \in SUBSET DOMAIN sent'[i]
    BY <1>3, <1>4, <2>1, <2>2, KeptAppend
  <2>4. (Text(i) \o Pending(i)) \o l = Text(i) \o (Pending(i) \o l)
    BY <1>4, <2>2, Associative
  <2>5. Text(i)' = Text(i)
    BY <2>1 DEF Text
  <2> HIDE DEF more
  <2>6. FlattenSeq(Kept(sent'[i], more)) = Text(i)' \o Pending(i)'
    BY <1>3, <2>1, <2>3, <2>4, <2>5
  <2> QED BY <2>3, <2>6 DEF i
<1>6. CASE Drain(i)
  <2>1. PICK p \in Seq(Bytes) : Text(i)' \o p = Text(i) \o Pending(i) /\ (Pending(i)' = p \/ Pending(i)' = <<>>)
    BY <1>6 DEF Drain
  <2>2. sent'[i] = sent[i]
    BY <1>6 DEF Drain
  <2>3. FlattenSeq(Kept(sent[i], kept)) = Text(i)' \o p
    BY <1>3, <2>1
  <2>4. CASE Pending(i)' = p
    BY <1>3, <2>2, <2>3, <2>4
  <2>5. CASE Pending(i)' = <<>>
    <3>1. Text(i)' \in Seq(Bytes) /\ (Text(i)' = <<>> \/ Text(i)'[Len(Text(i)')] = NL)
      <4>1. out'[i] \in Seq(Bytes) /\ TextEnds(out'[i])
        BY <1>1 DEF LogInv, LogTypeOK, WholeInv
      <4> QED BY <4>1, TextType DEF Text, TextEnds
    <3> DEFINE T == Text(i)'
    <3> HIDE DEF T
    <3>2. T \in Seq(Bytes) /\ (T = <<>> \/ T[Len(T)] = NL) /\ FlattenSeq(Kept(sent[i], kept)) = T \o p
      BY <2>3, <3>1 DEF T
    <3>3. \E some \in SUBSET DOMAIN sent[i] : FlattenSeq(Kept(sent[i], some)) = T
      <4> HIDE DEF i
      <4> QED BY <1>3, <1>4, <2>1, <3>2, KeptCut
    <3>4. T \o Pending(i)' = T
      BY <2>5, <3>2, Joined
    <3> QED BY <2>2, <3>3, <3>4 DEF T
  <2> QED BY <2>1, <2>4, <2>5
<1> QED BY <1>2, <1>5, <1>6

\* The console shows whole lines in their order: while no write was short,
\* what log_stream[DLOG_CONS] wrote and holds is a choice of the lines that
\* were committed, the ones left out being those that discard() dropped when
\* the console came back late, and the notice of discarded messages stands
\* between two lines.
THEOREM ConsoleShowsWholeLines == Spec => []ConsoleWholeLines
<1>1. Init => LogInv /\ ConsoleKeeps
  <2> SUFFICES ASSUME Init PROVE LogInv /\ ConsoleKeeps
    OBVIOUS
  <2>1. LogInv /\ sent[DLOG_CONS] = <<>> /\ Text(DLOG_CONS) = <<>> /\ Pending(DLOG_CONS) = <<>>
    BY LogStart DEF Streams
  <2>2. Kept(<<>>, {}) = <<>>
    <3>1. <<>> \in Seq(Seq(Bytes)) /\ Len(<<>>) = 0
      OBVIOUS
    <3> DEFINE e == <<>>
    <3>2. e \in Seq(Seq(Bytes)) /\ Len(e) = 0
      BY <3>1
    <3> HIDE DEF e
    <3>3. Kept(e, {}) \in Seq(Seq(Bytes)) /\ Len(Kept(e, {})) = 0
      BY <3>2, KeptType
    <3>4. Kept(e, {}) = <<>>
      BY <3>3
    <3> QED BY <3>4 DEF e
  <2>3. FlattenSeq(Kept(sent[DLOG_CONS], {})) = Text(DLOG_CONS) \o Pending(DLOG_CONS)
    <3>1. <<>> \o <<>> = <<>>
      OBVIOUS
    <3> QED BY <2>1, <2>2, <3>1, FlattenEmpty
  <2>4. {} \in SUBSET DOMAIN sent[DLOG_CONS]
    OBVIOUS
  <2> QED BY <2>1, <2>3, <2>4 DEF ConsoleKeeps, IsKept
<1>2. LogInv /\ ConsoleKeeps /\ [Next]_vars => LogInv' /\ ConsoleKeeps'
  <2> SUFFICES ASSUME LogInv, ConsoleKeeps, [Next]_vars
               PROVE  LogInv' /\ ConsoleKeeps'
    OBVIOUS
  <2>1. LogInv' /\ StreamStep(DLOG_CONS)
    BY LogStep DEF Streams
  <2> QED BY <2>1, ConsoleStep
<1>3. LogInv /\ ConsoleKeeps => ConsoleWholeLines
  <2> SUFFICES ASSUME LogInv, ConsoleKeeps, ~cut[DLOG_CONS]
               PROVE  /\ \E kept \in SUBSET DOMAIN sent[DLOG_CONS] :
                           FlattenSeq(Kept(sent[DLOG_CONS], kept)) = Text(DLOG_CONS) \o Pending(DLOG_CONS)
                      /\ \A k \in 2 .. Len(out[DLOG_CONS]) :
                           out[DLOG_CONS][k] = Notice[1] => out[DLOG_CONS][k - 1] \in {NL, Notice[2]}
    BY DEF ConsoleWholeLines, Kept
  <2>1. Place(out[DLOG_CONS], stream[DLOG_CONS])
    BY DEF LogInv, WholeInv, Streams
  <2> QED BY <2>1 DEF Place, ConsoleKeeps, IsKept
<1> QED BY <1>1, <1>2, <1>3, PTL DEF Spec
=============================================================================
