---------------------------- MODULE LoaderProofs ----------------------------
(***************************************************************************)
(* Proofs about Loader, for every set of names, every contents of the      *)
(* files and every order of requests: there is one record per name and no  *)
(* record stays marked as being loaded, whatever fails on the way; and a   *)
(* service that runs has the dependencies that it requires.                *)
(***************************************************************************)
EXTENDS Loader, SequenceTheorems, WellFoundedInduction, TLAPS

----------------------------------------------------------------------------
(* Recursive functions *)

\* A set of natural numbers that is not empty has a least element.
LEMMA LeastNumber ==
    ASSUME NEW I \in SUBSET Nat, I # {}
    PROVE  \E m \in I : \A i \in I : m <= i
<1>1. PICK m \in I : \A i \in I : ~(<<i, m>> \in OpToRel(<, Nat))
  BY WFMin, NatLessThanWellFounded
<1>2. \A i \in I : m <= i
  <2>1. TAKE i \in I
  <2>2. ~(<<i, m>> \in {ss \in Nat \X Nat : ss[1] < ss[2]})
    BY <1>1 DEF OpToRel
  <2> QED BY <2>2
<1> QED BY <1>2

\* Induction on a natural number, for a set.
LEMMA SetInduction ==
    ASSUME NEW n \in Nat, NEW I \in SUBSET (0 .. n), 0 \in I,
           \A k \in 1 .. n : k - 1 \in I => k \in I
    PROVE  I = 0 .. n
<1> SUFFICES ASSUME (0 .. n) \ I # {} PROVE FALSE
  OBVIOUS
<1>1. (0 .. n) \ I \in SUBSET Nat
  OBVIOUS
<1>2. PICK m \in (0 .. n) \ I : \A i \in (0 .. n) \ I : m <= i
  BY <1>1, LeastNumber
<1>3. m \in 1 .. n /\ m - 1 \in 0 .. n
  BY <1>2
<1>4. m - 1 \in I
  BY <1>2, <1>3
<1> QED BY <1>2, <1>3, <1>4

\* One step of Without.
KeepsStep(q, ls, S, k) == IF ls[k] \in S THEN q ELSE Append(q, ls[k])

\* The recursive function of Without, as far as n.
Keeps(f, ls, S, n) == f = [k \in 0 .. n |-> IF k = 0 THEN <<>> ELSE KeepsStep(f[k - 1], ls, S, k)]

LEMMA KeepsExists ==
    ASSUME NEW ls, NEW S, NEW n \in Nat
    PROVE  \E f : Keeps(f, ls, S, n)
<1> DEFINE I == {k \in 0 .. n : \E f : Keeps(f, ls, S, k)}
<1>1. 0 \in I
  <2> DEFINE g == [i \in 0 .. 0 |-> <<>>]
  <2>1. \A i \in 0 .. 0 : i = 0
    OBVIOUS
  <2>2. Keeps(g, ls, S, 0)
    BY <2>1 DEF Keeps
  <2> HIDE DEF g
  <2> QED BY <2>2
<1>2. \A k \in 1 .. n : k - 1 \in I => k \in I
  <2> SUFFICES ASSUME NEW k \in 1 .. n, NEW f, Keeps(f, ls, S, k - 1)
               PROVE  \E g : Keeps(g, ls, S, k)
    OBVIOUS
  <2> DEFINE g == [i \in 0 .. k |-> IF i = k THEN KeepsStep(f[k - 1], ls, S, k) ELSE f[i]]
  <2>1. \A i \in 0 .. k : g[i] = IF i = 0 THEN <<>> ELSE KeepsStep(g[i - 1], ls, S, i)
    <3> SUFFICES ASSUME NEW i \in 0 .. k
                 PROVE  g[i] = IF i = 0 THEN <<>> ELSE KeepsStep(g[i - 1], ls, S, i)
      OBVIOUS
    <3>1. i # 0 => g[i - 1] = f[i - 1]
      OBVIOUS
    <3>2. g[i] = IF i = k THEN KeepsStep(f[k - 1], ls, S, k) ELSE f[i]
      OBVIOUS
    <3>3. i # k => f[i] = IF i = 0 THEN <<>> ELSE KeepsStep(f[i - 1], ls, S, i)
      <4>1. i # k => i \in 0 .. k - 1
        OBVIOUS
      <4>2. f = [j \in 0 .. k - 1 |-> IF j = 0 THEN <<>> ELSE KeepsStep(f[j - 1], ls, S, j)]
        BY DEF Keeps
      <4>3. \A j \in 0 .. k - 1 : f[j] = IF j = 0 THEN <<>> ELSE KeepsStep(f[j - 1], ls, S, j)
        BY <4>2, Zenon
      <4> QED BY <4>1, <4>3
    <3> HIDE DEF g
    <3> QED BY <3>1, <3>2, <3>3
  <2>2. g = [i \in 0 .. k |-> g[i]]
    OBVIOUS
  <2> HIDE DEF g
  <2>3. Keeps(g, ls, S, k)
    BY <2>1, <2>2 DEF Keeps
  <2> QED BY <2>3
<1>3. I \in SUBSET (0 .. n)
  OBVIOUS
<1> HIDE DEF I
<1>4. I = 0 .. n
  BY <1>1, <1>2, <1>3, SetInduction
<1>5. n \in I
  BY <1>4
<1> QED BY <1>5 DEF I

\* What Without leaves are links of the sequence that are not in S.
KeepsFcn(ls, S) == CHOOSE f : Keeps(f, ls, S, Len(ls))

LEMMA WithoutLinks ==
    ASSUME NEW T, NEW ls \in Seq(T), NEW S
    PROVE  /\ Without(ls, S) \in Seq(T)
           /\ \A i \in DOMAIN Without(ls, S) : \E j \in DOMAIN ls : ls[j] = Without(ls, S)[i] /\ ls[j] \notin S
<1> DEFINE f == KeepsFcn(ls, S)
<1>1. Len(ls) \in Nat /\ DOMAIN ls = 1 .. Len(ls)
  OBVIOUS
<1>2. \E g : Keeps(g, ls, S, Len(ls))
  BY <1>1, KeepsExists
<1>3. Keeps(f, ls, S, Len(ls))
  BY <1>2, Zenon DEF KeepsFcn
<1>4. Without(ls, S) = f[Len(ls)]
  BY Zenon DEF Without, KeepsFcn, Keeps, KeepsStep
<1> HIDE DEF f
<1> DEFINE Q(q) == q \in Seq(T) /\ \A i \in DOMAIN q : \E j \in DOMAIN ls : ls[j] = q[i] /\ ls[j] \notin S
<1> DEFINE I == {k \in 0 .. Len(ls) : Q(f[k])}
<1>5. f = [k \in 0 .. Len(ls) |-> IF k = 0 THEN <<>> ELSE KeepsStep(f[k - 1], ls, S, k)]
  BY <1>3 DEF Keeps
<1>0. \A k \in 0 .. Len(ls) : f[k] = IF k = 0 THEN <<>> ELSE KeepsStep(f[k - 1], ls, S, k)
  BY <1>5, Zenon
<1>6. 0 \in I
  <2>1. f[0] = <<>> /\ 0 \in 0 .. Len(ls)
    BY <1>1, <1>0
  <2>2. Q(<<>>)
    OBVIOUS
  <2> QED BY <2>1, <2>2
<1>7. \A k \in 1 .. Len(ls) : k - 1 \in I => k \in I
  <2> SUFFICES ASSUME NEW k \in 1 .. Len(ls), Q(f[k - 1])
               PROVE  Q(f[k])
    BY <1>1
  <2>1. f[k] = IF ls[k] \in S THEN f[k - 1] ELSE Append(f[k - 1], ls[k])
    BY <1>1, <1>0 DEF KeepsStep
  <2>2. k \in DOMAIN ls /\ ls[k] \in T
    BY <1>1
  <2> QED BY <2>1, <2>2
<1>8. I \in SUBSET (0 .. Len(ls))
  OBVIOUS
<1> HIDE DEF I
<1>9. I = 0 .. Len(ls)
  BY <1>1, <1>6, <1>7, <1>8, SetInduction
<1> QED BY <1>1, <1>4, <1>9 DEF I

----------------------------------------------------------------------------
(* Records *)

\* The numbers of records have a bound N; with it, the records and links.
States == {"STOPPED", "STARTING", "STARTED"}
Ids(N) == Names \X (1 .. N)
IdsOrNone(N) == Ids(N) \cup {None}
Links(N) == Ids(N) \X Kinds
Rec(N) ==
    [name : Names, type : Types, loading : BOOLEAN, state : States, deps : Seq(Links(N)),
     dependents : SUBSET Links(N), consumer_for : IdsOrNone(N), log_consumer : IdsOrNone(N),
     pipe : BOOLEAN, console : BOOLEAN]
Typed(R, N) == DOMAIN R \subseteq Ids(N) /\ R \in [DOMAIN R -> Rec(N)]

\* An id has the name of its record.  Only placeholders are marked as being loaded.
Named(R) == \A r \in DOMAIN R : R[r].name = r[1] /\ (R[r].loading => R[r].type = "placeholder")

\* There is one record per name.
Unique(R) == \A r, q \in DOMAIN R : r[1] = q[1] => r = q

\* A placeholder does not run, and has no links of its own: only those of "before" settings of
\* others, which are services that are loaded.
Bare(R, r) ==
    /\ R[r].state = "STOPPED"
    /\ \A i \in DOMAIN R[r].deps : R[r].deps[i][2] = "BEFORE"
    /\ \A l \in R[r].dependents : l[2] # "BEFORE"
BeforeLoaded(R, l) == (l[2] = "BEFORE" /\ l[1] \in DOMAIN R) => R[l[1]].type # "placeholder"
Linked(R) ==
    \A r \in DOMAIN R :
      /\ R[r].type = "placeholder" => Bare(R, r)
      /\ \A i \in DOMAIN R[r].deps : BeforeLoaded(R, R[r].deps[i])

\* A service that runs has what it requires, as far as it is there.
Satisfied(R, l) == (l[2] = "REGULAR" /\ l[1] \in DOMAIN R) => R[l[1]].state = "STARTED"
Running(R) ==
    \A r \in DOMAIN R :
      R[r].state = "STARTED" => \A i \in DOMAIN R[r].deps : Satisfied(R, R[r].deps[i])

Sound(R, N) == Typed(R, N) /\ Named(R) /\ Linked(R) /\ Running(R)

LEMMA RecGrows ==
    ASSUME NEW N \in Nat, NEW M \in Nat, N <= M
    PROVE  /\ Ids(N) \subseteq Ids(M) /\ IdsOrNone(N) \subseteq IdsOrNone(M) /\ Links(N) \subseteq Links(M)
           /\ Seq(Links(N)) \subseteq Seq(Links(M)) /\ Rec(N) \subseteq Rec(M)
<1>1. Ids(N) \subseteq Ids(M) /\ IdsOrNone(N) \subseteq IdsOrNone(M)
  BY DEF Ids, IdsOrNone
<1>2. Links(N) \subseteq Links(M)
  BY <1>1 DEF Links
<1>3. Seq(Links(N)) \subseteq Seq(Links(M))
  BY <1>2
<1>4. Rec(N) \subseteq Rec(M)
  BY <1>1, <1>2, <1>3, Zenon DEF Rec
<1> QED BY <1>1, <1>2, <1>3, <1>4

LEMMA SoundGrows ==
    ASSUME NEW N \in Nat, NEW M \in Nat, N <= M, NEW R, Sound(R, N)
    PROVE  Sound(R, M)
BY RecGrows DEF Sound, Typed

\* A set of numbers with a bound has a greatest element.
LEMMA GreatestNumber ==
    ASSUME NEW N \in Nat, NEW I \in SUBSET (0 .. N), I # {}
    PROVE  Max(I) \in I /\ \A i \in I : i <= Max(I)
<1> DEFINE B == {N - i : i \in I}
<1>0. \A i \in I : i \in 0 .. N /\ N - i \in Nat
  OBVIOUS
<1>1. B \in SUBSET Nat /\ B # {}
  BY <1>0
<1>2. PICK m \in B : \A b \in B : m <= b
  BY <1>1, LeastNumber
<1>3. PICK i \in I : m = N - i
  BY <1>2
<1>4. \A j \in I : i >= j
  <2> SUFFICES ASSUME NEW j \in I PROVE i >= j
    OBVIOUS
  <2>1. m <= N - j
    BY <1>2
  <2>2. i \in 0 .. N /\ j \in 0 .. N
    BY <1>0
  <2> QED BY <1>3, <2>1, <2>2
<1>5. \E x \in I : \A y \in I : x >= y
  BY <1>4
<1>6. Max(I) \in I /\ \A y \in I : Max(I) >= y
  BY <1>5, Zenon DEF Max
<1> QED BY <1>6

LEMMA MentionedIds ==
    ASSUME NEW N \in Nat, NEW R, Typed(R, N)
    PROVE  Mentioned(R) \subseteq IdsOrNone(N)
<1> SUFFICES ASSUME NEW x \in Mentioned(R) PROVE x \in IdsOrNone(N)
  OBVIOUS
<1>0. \A r \in DOMAIN R : /\ R[r].deps \in Seq(Links(N)) /\ R[r].dependents \in SUBSET Links(N)
                          /\ R[r].consumer_for \in IdsOrNone(N) /\ R[r].log_consumer \in IdsOrNone(N)
  BY DEF Typed, Rec
<1>1. CASE x \in DOMAIN R
  BY <1>1 DEF Typed, IdsOrNone
<1>2. CASE \E r \in DOMAIN R : \E i \in DOMAIN R[r].deps : x = R[r].deps[i][1]
  <2>1. PICK r \in DOMAIN R : \E i \in DOMAIN R[r].deps : x = R[r].deps[i][1]
    BY <1>2
  <2>2. PICK i \in DOMAIN R[r].deps : x = R[r].deps[i][1]
    BY <2>1
  <2>3. R[r].deps[i] \in Links(N)
    BY <1>0, <2>2
  <2> QED BY <2>2, <2>3 DEF Links, IdsOrNone
<1>3. CASE \E r \in DOMAIN R : \E l \in R[r].dependents : x = l[1]
  <2>1. PICK r \in DOMAIN R : \E l \in R[r].dependents : x = l[1]
    BY <1>3
  <2>2. PICK l \in R[r].dependents : x = l[1]
    BY <2>1
  <2>3. l \in Links(N)
    BY <1>0, <2>2
  <2> QED BY <2>2, <2>3 DEF Links, IdsOrNone
<1>4. CASE \E r \in DOMAIN R : x \in {R[r].consumer_for, R[r].log_consumer}
  BY <1>0, <1>4
<1> QED BY <1>1, <1>2, <1>3, <1>4, Zenon DEF Mentioned

\* A new number is new.
LEMMA Fresh ==
    ASSUME NEW N \in Nat, NEW R, Typed(R, N), NEW n \in Names
    PROVE  FreshId(R, n) \in Ids(N + 1) /\ FreshId(R, n)[1] = n /\ FreshId(R, n) \notin Mentioned(R)
<1> DEFINE I == {0} \cup {id[2] : id \in Mentioned(R)}
<1>1. I \in SUBSET (0 .. N) /\ I # {}
  BY MentionedIds DEF IdsOrNone, Ids, None
<1>2. Max(I) \in 0 .. N /\ \A i \in I : i <= Max(I)
  <2> HIDE DEF I
  <2> QED BY <1>1, GreatestNumber
<1>3. Max(I) + 1 \in 1 .. Max(I) + 1 /\ <<n, Max(I) + 1>> \notin Mentioned(R)
  BY <1>2
<1>4. \E k \in 1 .. Max(I) + 1 : <<n, k>> \notin Mentioned(R)
  BY <1>3
<1> DEFINE j == CHOOSE k \in 1 .. Max(I) + 1 : <<n, k>> \notin Mentioned(R)
<1>5. j \in 1 .. Max(I) + 1 /\ <<n, j>> \notin Mentioned(R)
  BY <1>4, Zenon
<1>6. FreshId(R, n) = <<n, j>>
  BY Zenon DEF FreshId
<1>7. j \in 1 .. N + 1
  BY <1>2, <1>5
<1> HIDE DEF j
<1> QED BY <1>5, <1>6, <1>7 DEF Ids

\* The fields of a record.
LEMMA RecFields ==
    ASSUME NEW N, NEW a \in Rec(N)
    PROVE  /\ a.name \in Names /\ a.type \in Types /\ a.loading \in BOOLEAN /\ a.state \in States
           /\ a.deps \in Seq(Links(N)) /\ a.dependents \in SUBSET Links(N)
           /\ a.consumer_for \in IdsOrNone(N) /\ a.log_consumer \in IdsOrNone(N)
           /\ a.pipe \in BOOLEAN /\ a.console \in BOOLEAN
BY Zenon DEF Rec

\* A record with other links is a record.
Same(a, b) == b.name = a.name /\ b.type = a.type /\ b.loading = a.loading /\ b.state = a.state

LEMMA SetDeps ==
    ASSUME NEW N, NEW a \in Rec(N), NEW d \in Seq(Links(N))
    PROVE  /\ [a EXCEPT !.deps = d] \in Rec(N) /\ Same(a, [a EXCEPT !.deps = d])
           /\ [a EXCEPT !.deps = d].deps = d /\ [a EXCEPT !.deps = d].dependents = a.dependents
           /\ [a EXCEPT !.deps = d].log_consumer = a.log_consumer
<1>1. [a EXCEPT !.deps = d] \in Rec(N)
  BY Zenon DEF Rec
<1> QED BY <1>1 DEF Rec, Same

LEMMA SetDependents ==
    ASSUME NEW N, NEW a \in Rec(N), NEW d \in SUBSET Links(N)
    PROVE  /\ [a EXCEPT !.dependents = d] \in Rec(N) /\ Same(a, [a EXCEPT !.dependents = d])
           /\ [a EXCEPT !.dependents = d].dependents = d /\ [a EXCEPT !.dependents = d].deps = a.deps
           /\ [a EXCEPT !.dependents = d].log_consumer = a.log_consumer
<1>1. [a EXCEPT !.dependents = d] \in Rec(N)
  BY Zenon DEF Rec
<1> QED BY <1>1 DEF Rec, Same

LEMMA SetConsumers ==
    ASSUME NEW N, NEW a \in Rec(N), NEW c \in IdsOrNone(N)
    PROVE  /\ [a EXCEPT !.log_consumer = c] \in Rec(N) /\ Same(a, [a EXCEPT !.log_consumer = c])
           /\ [a EXCEPT !.log_consumer = c].deps = a.deps /\ [a EXCEPT !.log_consumer = c].dependents = a.dependents
           /\ [a EXCEPT !.consumer_for = c] \in Rec(N) /\ Same(a, [a EXCEPT !.consumer_for = c])
           /\ [a EXCEPT !.consumer_for = c].deps = a.deps /\ [a EXCEPT !.consumer_for = c].dependents = a.dependents
<1>1. [a EXCEPT !.log_consumer = c] \in Rec(N) /\ [a EXCEPT !.consumer_for = c] \in Rec(N)
  BY Zenon DEF Rec
<1> QED BY <1>1 DEF Rec, Same

\* Records with fewer links, and fewer records.
Fewer(a, b) ==
    /\ Same(a, b)
    /\ \A i \in DOMAIN b.deps : \E j \in DOMAIN a.deps : a.deps[j] = b.deps[i]
    /\ b.dependents \subseteq a.dependents
Shrunk(R, S) == DOMAIN S \subseteq DOMAIN R /\ \A x \in DOMAIN S : Fewer(R[x], S[x])
Shrinks(R, S, N) == Typed(S, N) /\ Shrunk(R, S)

LEMMA FewerItself ==
    ASSUME NEW a PROVE Fewer(a, a)
BY DEF Fewer, Same

LEMMA FewerTwice ==
    ASSUME NEW a, NEW b, NEW c, Fewer(a, b), Fewer(b, c) PROVE Fewer(a, c)
<1>1. Same(a, c)
  BY DEF Fewer, Same
<1>2. c.dependents \subseteq a.dependents
  BY DEF Fewer
<1>3. \A i \in DOMAIN c.deps : \E j \in DOMAIN a.deps : a.deps[j] = c.deps[i]
  BY Zenon DEF Fewer
<1> QED BY <1>1, <1>2, <1>3 DEF Fewer

LEMMA ShrinksTwice ==
    ASSUME NEW N, NEW R, NEW S, NEW T, Shrinks(R, S, N), Shrinks(S, T, N)
    PROVE  Shrinks(R, T, N)
BY FewerTwice DEF Shrinks, Shrunk

\* Fewer links and fewer records break nothing.
LEMMA ShrinksSound ==
    ASSUME NEW N, NEW R, NEW S, Sound(R, N), Shrinks(R, S, N)
    PROVE  Sound(S, N) /\ (Unique(R) => Unique(S))
<1>1. DOMAIN S \subseteq DOMAIN R
      /\ \A x \in DOMAIN S : Same(R[x], S[x]) /\ S[x].dependents \subseteq R[x].dependents
  BY DEF Shrinks, Shrunk, Fewer
<1>2. \A x \in DOMAIN S : \A i \in DOMAIN S[x].deps : \E j \in DOMAIN R[x].deps : R[x].deps[j] = S[x].deps[i]
  BY DEF Shrinks, Shrunk, Fewer
<1>3. \A x \in DOMAIN S : S[x].name = R[x].name /\ S[x].type = R[x].type /\ S[x].loading = R[x].loading
                          /\ S[x].state = R[x].state
  BY <1>1 DEF Same
<1>4. Named(S) /\ Typed(S, N)
  BY <1>1, <1>3 DEF Sound, Named, Shrinks
<1>5. Linked(S)
  <2> SUFFICES ASSUME NEW r \in DOMAIN S
               PROVE  /\ S[r].type = "placeholder" => Bare(S, r)
                      /\ \A i \in DOMAIN S[r].deps : BeforeLoaded(S, S[r].deps[i])
    BY DEF Linked
  <2>0. /\ r \in DOMAIN R /\ (R[r].type = "placeholder" => Bare(R, r))
        /\ \A i \in DOMAIN R[r].deps : BeforeLoaded(R, R[r].deps[i])
    BY <1>1 DEF Sound, Linked
  <2>1. S[r].type = "placeholder" => Bare(S, r)
    <3> SUFFICES ASSUME R[r].type = "placeholder" PROVE Bare(S, r)
      BY <1>3
    <3>1. R[r].state = "STOPPED" /\ (\A i \in DOMAIN R[r].deps : R[r].deps[i][2] = "BEFORE")
          /\ \A l \in R[r].dependents : l[2] # "BEFORE"
      BY <2>0 DEF Bare
    <3>2. \A i \in DOMAIN S[r].deps : S[r].deps[i][2] = "BEFORE"
      BY <1>2, <3>1
    <3>3. \A l \in S[r].dependents : l[2] # "BEFORE"
      BY <1>1, <3>1
    <3> QED BY <1>3, <3>1, <3>2, <3>3 DEF Bare
  <2>2. ASSUME NEW i \in DOMAIN S[r].deps PROVE BeforeLoaded(S, S[r].deps[i])
    <3>1. PICK j \in DOMAIN R[r].deps : R[r].deps[j] = S[r].deps[i]
      BY <1>2
    <3>2. BeforeLoaded(R, S[r].deps[i])
      BY <2>0, <3>1
    <3> QED BY <1>1, <1>3, <3>2 DEF BeforeLoaded
  <2> QED BY <2>1, <2>2
<1>6. Running(S)
  <2> SUFFICES ASSUME NEW r \in DOMAIN S, S[r].state = "STARTED", NEW i \in DOMAIN S[r].deps
               PROVE  Satisfied(S, S[r].deps[i])
    BY DEF Running
  <2>1. PICK j \in DOMAIN R[r].deps : R[r].deps[j] = S[r].deps[i]
    BY <1>2
  <2>2. Satisfied(R, R[r].deps[j])
    BY <1>1, <1>3 DEF Sound, Running
  <2> QED BY <1>1, <1>3, <2>1, <2>2 DEF Satisfied
<1>7. Unique(R) => Unique(S)
  BY <1>1 DEF Unique
<1> QED BY <1>4, <1>5, <1>6, <1>7 DEF Sound

\* Records that are changed one by one.
LEMMA ShrinksEach ==
    ASSUME NEW N, NEW R, NEW S, Typed(R, N), DOMAIN S \subseteq DOMAIN R, S = [x \in DOMAIN S |-> S[x]],
           \A x \in DOMAIN S : S[x] \in Rec(N) /\ Fewer(R[x], S[x])
    PROVE  Shrinks(R, S, N)
BY DEF Shrinks, Shrunk, Typed

LEMMA FewerDeps ==
    ASSUME NEW N, NEW a \in Rec(N), NEW S
    PROVE  /\ [a EXCEPT !.deps = Without(a.deps, S)] \in Rec(N) /\ Fewer(a, [a EXCEPT !.deps = Without(a.deps, S)])
           /\ [a EXCEPT !.deps = <<>>] \in Rec(N) /\ Fewer(a, [a EXCEPT !.deps = <<>>])
<1>0. a.deps \in Seq(Links(N))
  BY RecFields
<1>1. ASSUME NEW d \in Seq(Links(N)), \A i \in DOMAIN d : \E j \in DOMAIN a.deps : a.deps[j] = d[i]
      PROVE  [a EXCEPT !.deps = d] \in Rec(N) /\ Fewer(a, [a EXCEPT !.deps = d])
  <2> DEFINE b == [a EXCEPT !.deps = d]
  <2>1. b \in Rec(N) /\ Same(a, b) /\ b.deps = d /\ b.dependents = a.dependents
    BY SetDeps
  <2> HIDE DEF b
  <2>2. Fewer(a, b)
    BY <1>1, <2>1 DEF Fewer
  <2> QED BY <2>1, <2>2 DEF b
<1>2. Without(a.deps, S) \in Seq(Links(N))
      /\ \A i \in DOMAIN Without(a.deps, S) : \E j \in DOMAIN a.deps : a.deps[j] = Without(a.deps, S)[i]
  <2> DEFINE d == a.deps
             T == Links(N)
  <2>0. d \in Seq(T)
    BY <1>0
  <2> HIDE DEF d, T
  <2>1. Without(d, S) \in Seq(T) /\ \A i \in DOMAIN Without(d, S) : \E j \in DOMAIN d : d[j] = Without(d, S)[i]
    BY <2>0, WithoutLinks
  <2> QED BY <2>1, Zenon DEF d, T
<1>3. <<>> \in Seq(Links(N)) /\ \A i \in DOMAIN <<>> : \E j \in DOMAIN a.deps : a.deps[j] = (<<>>)[i]
  OBVIOUS
<1>4. [a EXCEPT !.deps = Without(a.deps, S)] \in Rec(N) /\ Fewer(a, [a EXCEPT !.deps = Without(a.deps, S)])
  BY <1>1, <1>2, Zenon
<1>5. [a EXCEPT !.deps = <<>>] \in Rec(N) /\ Fewer(a, [a EXCEPT !.deps = <<>>])
  BY <1>1, <1>3, Zenon
<1> QED BY <1>4, <1>5

LEMMA FewerDependents ==
    ASSUME NEW N, NEW a \in Rec(N), NEW d \in SUBSET a.dependents
    PROVE  [a EXCEPT !.dependents = d] \in Rec(N) /\ Fewer(a, [a EXCEPT !.dependents = d])
<1> DEFINE b == [a EXCEPT !.dependents = d]
<1>0. d \in SUBSET Links(N)
  BY RecFields
<1>1. b \in Rec(N) /\ Same(a, b) /\ b.dependents = d /\ b.deps = a.deps
  BY <1>0, SetDependents
<1> HIDE DEF b
<1>2. Fewer(a, b)
  BY <1>1 DEF Fewer
<1> QED BY <1>1, <1>2 DEF b

\* The same, for a record that is given.
LEMMA IsFewerDeps ==
    ASSUME NEW N, NEW a \in Rec(N), NEW S, NEW b, b = [a EXCEPT !.deps = Without(a.deps, S)]
    PROVE  b \in Rec(N) /\ Fewer(a, b)
BY FewerDeps
LEMMA IsFewerDependents ==
    ASSUME NEW N, NEW a \in Rec(N), NEW d \in SUBSET a.dependents, NEW b, b = [a EXCEPT !.dependents = d]
    PROVE  b \in Rec(N) /\ Fewer(a, b)
BY FewerDependents

LEMMA Dropped ==
    ASSUME NEW N, NEW R, Typed(R, N), NEW X
    PROVE  Shrinks(R, Drop(R, X), N) /\ DOMAIN Drop(R, X) = DOMAIN R \ X
           /\ \A x \in DOMAIN Drop(R, X) : Drop(R, X)[x] = R[x]
<1> DEFINE S == Drop(R, X)
<1>1. DOMAIN S = DOMAIN R \ X /\ S = [x \in DOMAIN S |-> S[x]] /\ \A x \in DOMAIN S : S[x] = R[x]
  BY DEF Drop
<1>2. \A x \in DOMAIN S : S[x] \in Rec(N) /\ Fewer(R[x], S[x])
  BY <1>1, FewerItself DEF Typed
<1> HIDE DEF S
<1>3. Shrinks(R, S, N)
  BY <1>1, <1>2, ShrinksEach
<1> QED BY <1>1, <1>3 DEF S

LEMMA DroppedUnrefd ==
    ASSUME NEW N, NEW R, Typed(R, N), NEW X
    PROVE  /\ Shrinks(R, DropUnrefd(R, X), N)
           /\ \A x \in DOMAIN R : (x \notin X \/ R[x].type # "placeholder") => x \in DOMAIN DropUnrefd(R, X)
<1> DEFINE Y == {r \in X : IsPlaceholder(R, r) /\ IsUnrefd(R, r)}
<1>1. DropUnrefd(R, X) = Drop(R, Y)
  BY DEF DropUnrefd
<1>2. \A y \in Y : y \in X /\ R[y].type = "placeholder"
  BY DEF IsPlaceholder
<1> HIDE DEF Y
<1>3. Shrinks(R, Drop(R, Y), N) /\ DOMAIN Drop(R, Y) = DOMAIN R \ Y
  BY Dropped
<1>4. \A x \in DOMAIN R : (x \notin X \/ R[x].type # "placeholder") => x \in DOMAIN Drop(R, Y)
  BY <1>2, <1>3
<1> QED BY <1>1, <1>3, <1>4

LEMMA RmDepsShrinks ==
    ASSUME NEW N, NEW R, Typed(R, N), NEW F, NEW to, NEW type
    PROVE  Shrinks(R, RmDeps(R, F, to, type), N) /\ DOMAIN RmDeps(R, F, to, type) = DOMAIN R
<1> DEFINE S == RmDeps(R, F, to, type)
<1>1. DOMAIN S = DOMAIN R /\ S = [x \in DOMAIN S |-> S[x]]
      /\ \A x \in DOMAIN S : S[x] = IF x \in F THEN [R[x] EXCEPT !.deps = Without(R[x].deps, {<<to, type>>})] ELSE R[x]
  BY DEF RmDeps
<1> HIDE DEF S
<1>2. ASSUME NEW x \in DOMAIN S
      PROVE  S[x] \in Rec(N) /\ Fewer(R[x], S[x])
  <2>1. R[x] \in Rec(N) /\ R[x].deps \in Seq(Links(N))
    BY <1>1, RecFields DEF Typed
  <2>2. CASE x \notin F
    BY <1>1, <2>1, <2>2, FewerItself
  <2>3. CASE x \in F
    <3>1. S[x] = [R[x] EXCEPT !.deps = Without(R[x].deps, {<<to, type>>})]
      BY <1>1, <2>3, Zenon
    <3> QED BY <2>1, <3>1, IsFewerDeps
  <2> QED BY <2>2, <2>3
<1> QED BY <1>1, <1>2, ShrinksEach DEF S

LEMMA UnlinkFromShrinks ==
    ASSUME NEW N, NEW R, Typed(R, N), NEW from, NEW ls
    PROVE  Shrinks(R, UnlinkFrom(R, from, ls), N) /\ DOMAIN UnlinkFrom(R, from, ls) = DOMAIN R
<1> DEFINE S == UnlinkFrom(R, from, ls)
           D(x) == R[x].dependents \ {<<from, ls[i][2]>> : i \in {i \in DOMAIN ls : ls[i][1] = x}}
<1>1. DOMAIN S = DOMAIN R /\ S = [x \in DOMAIN S |-> S[x]]
      /\ \A x \in DOMAIN S : S[x] = [R[x] EXCEPT !.dependents = D(x)]
  BY DEF UnlinkFrom
<1>2. \A x : D(x) \subseteq R[x].dependents
  OBVIOUS
<1> HIDE DEF S, D
<1>3. ASSUME NEW x \in DOMAIN S
      PROVE  S[x] \in Rec(N) /\ Fewer(R[x], S[x])
  <2>1. R[x] \in Rec(N) /\ S[x] = [R[x] EXCEPT !.dependents = D(x)] /\ D(x) \in SUBSET R[x].dependents
    BY <1>1, <1>2 DEF Typed
  <2> QED BY <2>1, IsFewerDependents
<1> QED BY <1>1, <1>3, ShrinksEach DEF S

\* One record that gets fewer links.
LEMMA PutFewer ==
    ASSUME NEW N, NEW R, Typed(R, N), NEW r \in DOMAIN R, NEW a \in Rec(N), Fewer(R[r], a)
    PROVE  Shrinks(R, Put(R, r, a), N) /\ DOMAIN Put(R, r, a) = DOMAIN R /\ Put(R, r, a)[r] = a
<1> DEFINE S == Put(R, r, a)
<1>1. DOMAIN S = DOMAIN R /\ S = [x \in DOMAIN S |-> S[x]]
      /\ \A x \in DOMAIN S : S[x] = IF x = r THEN a ELSE R[x]
  BY DEF Put
<1>2. \A x \in DOMAIN S : S[x] \in Rec(N) /\ Fewer(R[x], S[x])
  BY <1>1, FewerItself DEF Typed
<1> HIDE DEF S
<1> QED BY <1>1, <1>2, ShrinksEach DEF S

\* prepare_for_unload(): the record that is unloaded is there until it is deleted.  Nothing else
\* goes if its own links are those of "before" settings and nothing links to it.
LEMMA UnlinkDepsShrinks ==
    ASSUME NEW N, NEW R, Typed(R, N), NEW r \in DOMAIN R
    PROVE  /\ Shrinks(R, UnlinkDeps(R, r), N) /\ r \in DOMAIN UnlinkDeps(R, r)
           /\ (\A i \in DOMAIN R[r].deps : R[r].deps[i][2] = "BEFORE") => DOMAIN UnlinkDeps(R, r) = DOMAIN R
<1> DEFINE U == UnlinkFrom(R, r, R[r].deps)
           A == {t \in DOMAIN R : \E i \in DOMAIN R[r].deps : R[r].deps[i] = <<t, "AFTER">>}
           a == [U[r] EXCEPT !.deps = <<>>]
           P == Put(U, r, a)
<1>0. UnlinkDeps(R, r) = DropUnrefd(P, A \ {r})
  BY DEF UnlinkDeps
<1>1. Shrinks(R, U, N) /\ DOMAIN U = DOMAIN R
  BY UnlinkFromShrinks
<1>2. (\A i \in DOMAIN R[r].deps : R[r].deps[i][2] = "BEFORE") => A = {}
  OBVIOUS
<1> HIDE DEF U, A
<1>3. U[r] \in Rec(N) /\ Typed(U, N) /\ <<>> \in Seq(Links(N))
  BY <1>1 DEF Shrinks, Typed
<1>4. a \in Rec(N) /\ Fewer(U[r], a)
  BY <1>3, FewerDeps, Zenon
<1> HIDE DEF a
<1>5. Shrinks(U, P, N) /\ DOMAIN P = DOMAIN R
  BY <1>1, <1>3, <1>4, PutFewer
<1> HIDE DEF P
<1>6. Typed(P, N)
  BY <1>5 DEF Shrinks
<1>7. Shrinks(P, DropUnrefd(P, A \ {r}), N)
      /\ \A x \in DOMAIN P : x \notin A \ {r} => x \in DOMAIN DropUnrefd(P, A \ {r})
  BY <1>6, DroppedUnrefd
<1>8. Shrinks(R, DropUnrefd(P, A \ {r}), N)
  BY <1>1, <1>5, <1>7, ShrinksTwice
<1>9. A = {} => DOMAIN DropUnrefd(P, A \ {r}) = DOMAIN R
  BY <1>5, <1>7 DEF Shrinks, Shrunk
<1> QED BY <1>0, <1>2, <1>5, <1>7, <1>8, <1>9

LEMMA UnlinkDependentsShrinks ==
    ASSUME NEW N, NEW R, Typed(R, N), NEW r \in DOMAIN R
    PROVE  /\ Shrinks(R, UnlinkDependents(R, r), N)
           /\ R[r].dependents = {} => DOMAIN UnlinkDependents(R, r) = DOMAIN R
<1> DEFINE F == {l[1] : l \in R[r].dependents}
           U == [x \in DOMAIN R |-> IF x \in F THEN [R[x] EXCEPT !.deps = Without(R[x].deps, {r} \X Kinds)] ELSE R[x]]
           a == [U[r] EXCEPT !.dependents = {}]
           P == Put(U, r, a)
<1>0. UnlinkDependents(R, r) = DropUnrefd(P, F)
  BY DEF UnlinkDependents
<1>1. R[r].dependents = {} => F = {}
  OBVIOUS
<1>2. DOMAIN U = DOMAIN R /\ U = [x \in DOMAIN U |-> U[x]]
      /\ \A x \in DOMAIN U : U[x] = IF x \in F THEN [R[x] EXCEPT !.deps = Without(R[x].deps, {r} \X Kinds)] ELSE R[x]
  OBVIOUS
<1> HIDE DEF U, F
<1>3. ASSUME NEW x \in DOMAIN U
      PROVE  U[x] \in Rec(N) /\ Fewer(R[x], U[x])
  <2>1. R[x] \in Rec(N) /\ R[x].deps \in Seq(Links(N))
    BY <1>2, RecFields DEF Typed
  <2>2. CASE x \notin F
    BY <1>2, <2>1, <2>2, FewerItself
  <2>3. CASE x \in F
    <3>1. U[x] = [R[x] EXCEPT !.deps = Without(R[x].deps, {r} \X Kinds)]
      BY <1>2, <2>3, Zenon
    <3> QED BY <2>1, <3>1, IsFewerDeps
  <2> QED BY <2>2, <2>3
<1>4. Shrinks(R, U, N)
  BY <1>2, <1>3, ShrinksEach
<1>5. U[r] \in Rec(N) /\ Typed(U, N)
  BY <1>2, <1>4 DEF Shrinks, Typed
<1>6. a \in Rec(N) /\ Fewer(U[r], a)
  <2>1. {} \in SUBSET U[r].dependents
    OBVIOUS
  <2> QED BY <1>5, <2>1, FewerDependents, Zenon
<1> HIDE DEF a
<1>7. Shrinks(U, P, N) /\ DOMAIN P = DOMAIN R
  BY <1>2, <1>5, <1>6, PutFewer
<1> HIDE DEF P
<1>8. Typed(P, N)
  BY <1>7 DEF Shrinks
<1>9. Shrinks(P, DropUnrefd(P, F), N) /\ \A x \in DOMAIN P : x \notin F => x \in DOMAIN DropUnrefd(P, F)
  BY <1>8, DroppedUnrefd
<1>10. Shrinks(R, DropUnrefd(P, F), N)
  BY <1>4, <1>7, <1>9, ShrinksTwice
<1>11. F = {} => DOMAIN DropUnrefd(P, F) = DOMAIN R
  BY <1>7, <1>9 DEF Shrinks, Shrunk
<1> QED BY <1>0, <1>1, <1>10, <1>11

LEMMA IsFewerConsumers ==
    ASSUME NEW N, NEW a \in Rec(N), NEW c \in IdsOrNone(N), NEW b,
           b = [a EXCEPT !.log_consumer = c] \/ b = [a EXCEPT !.consumer_for = c]
    PROVE  b \in Rec(N) /\ Fewer(a, b) /\ Fewer(b, a)
<1>1. b \in Rec(N) /\ Same(a, b) /\ b.deps = a.deps /\ b.dependents = a.dependents
  <2>1. CASE b = [a EXCEPT !.log_consumer = c]
    <3>1. [a EXCEPT !.log_consumer = c] \in Rec(N)
      BY Zenon DEF Rec
    <3>2. b \in Rec(N)
      BY <2>1, <3>1
    <3> QED BY <2>1, <3>2 DEF Rec, Same
  <2>2. CASE b = [a EXCEPT !.consumer_for = c]
    <3>1. [a EXCEPT !.consumer_for = c] \in Rec(N)
      BY Zenon DEF Rec
    <3>2. b \in Rec(N)
      BY <2>2, <3>1
    <3> QED BY <2>2, <3>2 DEF Rec, Same
  <2> QED BY <2>1, <2>2
<1> QED BY <1>1 DEF Fewer, Same

\* ~process_service()
LEMMA DeleteShrinks ==
    ASSUME NEW N, NEW R, Typed(R, N), NEW r
    PROVE  Shrinks(R, Delete(R, r), N) /\ DOMAIN Delete(R, r) = DOMAIN R \ {r}
<1> DEFINE S == [x \in DOMAIN R |-> IF x = R[r].consumer_for /\ R[r].type \in Processes
                                    THEN [R[x] EXCEPT !.log_consumer = None] ELSE R[x]]
<1>1. Delete(R, r) = Drop(S, {r})
  BY DEF Delete
<1>2. DOMAIN S = DOMAIN R /\ S = [x \in DOMAIN S |-> S[x]]
      /\ \A x \in DOMAIN S : S[x] = R[x] \/ S[x] = [R[x] EXCEPT !.log_consumer = None]
  OBVIOUS
<1> HIDE DEF S
<1>3. ASSUME NEW x \in DOMAIN S PROVE S[x] \in Rec(N) /\ Fewer(R[x], S[x])
  <2>1. R[x] \in Rec(N) /\ None \in IdsOrNone(N)
    BY <1>2 DEF Typed, IdsOrNone
  <2> QED BY <1>2, <2>1, FewerItself, IsFewerConsumers
<1>4. Shrinks(R, S, N)
  BY <1>2, <1>3, ShrinksEach
<1>5. Typed(S, N)
  BY <1>4 DEF Shrinks
<1>6. Shrinks(S, Drop(S, {r}), N) /\ DOMAIN Drop(S, {r}) = DOMAIN S \ {r}
  BY <1>5, Dropped
<1> QED BY <1>1, <1>2, <1>4, <1>6, ShrinksTwice

\* A record that is unloaded and deleted.
LEMMA UnloadShrinks ==
    ASSUME NEW N, NEW R, Typed(R, N), NEW r \in DOMAIN R
    PROVE  LET S == Delete(prepare_for_unload(R, r), r)
           IN  /\ Shrinks(R, S, N) /\ r \notin DOMAIN S
               /\ ((\A i \in DOMAIN R[r].deps : R[r].deps[i][2] = "BEFORE") /\ R[r].dependents = {}) =>
                    DOMAIN S = DOMAIN R \ {r}
<1> DEFINE A == UnlinkDeps(R, r)
           B == UnlinkDependents(A, r)
           S == Delete(B, r)
<1>0. S = Delete(prepare_for_unload(R, r), r)
  BY DEF prepare_for_unload
<1>1. Shrinks(R, A, N) /\ r \in DOMAIN A
      /\ ((\A i \in DOMAIN R[r].deps : R[r].deps[i][2] = "BEFORE") => DOMAIN A = DOMAIN R)
  BY UnlinkDepsShrinks
<1> HIDE DEF A
<1>2. Typed(A, N) /\ (R[r].dependents = {} => A[r].dependents = {})
  BY <1>1 DEF Shrinks, Shrunk, Fewer
<1>3. Shrinks(A, B, N) /\ (A[r].dependents = {} => DOMAIN B = DOMAIN A)
  BY <1>1, <1>2, UnlinkDependentsShrinks
<1> HIDE DEF B
<1>4. Typed(B, N)
  BY <1>3 DEF Shrinks
<1>5. Shrinks(B, S, N) /\ DOMAIN S = DOMAIN B \ {r}
  BY <1>4, DeleteShrinks
<1> HIDE DEF S
<1>6. Shrinks(R, S, N)
  BY <1>1, <1>3, <1>5, ShrinksTwice
<1>7. Shrinks(R, S, N) /\ r \notin DOMAIN S
      /\ ((\A i \in DOMAIN R[r].deps : R[r].deps[i][2] = "BEFORE") /\ R[r].dependents = {} => DOMAIN S = DOMAIN R \ {r})
  BY <1>1, <1>2, <1>3, <1>5, <1>6
<1> QED BY <1>0, <1>7

\* exception_cleanup()
LEMMA CleanupShrinks ==
    ASSUME NEW N, NEW R, Typed(R, N), NEW f, NEW before, NEW of
    PROVE  /\ Shrinks(R, exception_cleanup(R, f, before, of), N)
           /\ f.dummy \notin DOMAIN exception_cleanup(R, f, before, of)
<1> DEFINE S == Drop(R, {f.dummy})
           X == before \cup {f.depends[i][1] : i \in {i \in DOMAIN f.depends : f.depends[i][2] = "AFTER"}} \cup {of}
<1>1. exception_cleanup(R, f, before, of) = DropUnrefd(S, X)
  BY DEF exception_cleanup
<1> HIDE DEF X
<1>2. Shrinks(R, S, N) /\ DOMAIN S = DOMAIN R \ {f.dummy}
  BY Dropped
<1> HIDE DEF S
<1>3. Typed(S, N)
  BY <1>2 DEF Shrinks
<1>4. Shrinks(S, DropUnrefd(S, X), N)
  BY <1>3, DroppedUnrefd
<1>5. Shrinks(R, DropUnrefd(S, X), N)
  BY <1>2, <1>4, ShrinksTwice
<1>6. f.dummy \notin DOMAIN DropUnrefd(S, X)
  BY <1>2, <1>4 DEF Shrinks, Shrunk
<1> QED BY <1>1, <1>5, <1>6

----------------------------------------------------------------------------
(* More records, and more links *)

\* What nothing mentions is not the end of a link.
LEMMA NotMentioned ==
    ASSUME NEW R, NEW id, id \notin Mentioned(R)
    PROVE  id \notin DOMAIN R /\ \A r \in DOMAIN R : \A i \in DOMAIN R[r].deps : R[r].deps[i][1] # id
<1>1. id \notin DOMAIN R
  BY DEF Mentioned
<1>2. ASSUME NEW r \in DOMAIN R, NEW i \in DOMAIN R[r].deps, R[r].deps[i][1] = id PROVE FALSE
  <2>1. id \in {R[r].deps[j][1] : j \in DOMAIN R[r].deps}
    BY <1>2
  <2> QED BY <2>1 DEF Mentioned
<1> QED BY <1>1, <1>2

\* A record that may be added: it does not run, and its links are not in the way.
Addable(R, id, a, N) ==
    /\ id \in Ids(N) /\ id \notin Mentioned(R)
    /\ a \in Rec(N) /\ a.name = id[1] /\ a.state = "STOPPED" /\ (a.loading => a.type = "placeholder")
    /\ a.type = "placeholder" =>
         (\A i \in DOMAIN a.deps : a.deps[i][2] = "BEFORE") /\ (\A l \in a.dependents : l[2] # "BEFORE")
    /\ \A i \in DOMAIN a.deps : BeforeLoaded(R, a.deps[i]) /\ (a.deps[i][2] = "BEFORE" => a.deps[i][1] # id)

\* S has one record more.
Adds(R, S, id) == id \notin DOMAIN R /\ DOMAIN S = DOMAIN R \cup {id} /\ \A x \in DOMAIN R : S[x] = R[x]

LEMMA PutNew ==
    ASSUME NEW N, NEW R, Sound(R, N), NEW id, NEW a, Addable(R, id, a, N)
    PROVE  Sound(Put(R, id, a), N) /\ Adds(R, Put(R, id, a), id) /\ Put(R, id, a)[id] = a
<1> DEFINE S == Put(R, id, a)
<1>0. id \in Ids(N) /\ a \in Rec(N) /\ a.name = id[1] /\ a.state = "STOPPED" /\ (a.loading => a.type = "placeholder")
  BY DEF Addable
<1>1. id \notin DOMAIN R /\ \A r \in DOMAIN R : \A i \in DOMAIN R[r].deps : R[r].deps[i][1] # id
  BY NotMentioned DEF Addable
<1>2. DOMAIN S = DOMAIN R \cup {id} /\ S = [x \in DOMAIN S |-> S[x]] /\ S[id] = a /\ \A x \in DOMAIN R : S[x] = R[x]
  BY <1>1 DEF Put
<1> HIDE DEF S
<1>3. Typed(S, N)
  BY <1>0, <1>2 DEF Sound, Typed
<1>4. Named(S)
  BY <1>0, <1>2 DEF Sound, Named
<1>5. Linked(S)
  <2> SUFFICES ASSUME NEW r \in DOMAIN S
               PROVE  /\ S[r].type = "placeholder" => Bare(S, r)
                      /\ \A i \in DOMAIN S[r].deps : BeforeLoaded(S, S[r].deps[i])
    BY DEF Linked
  <2>1. CASE r = id
    <3>1. a.type = "placeholder" => Bare(S, r)
      BY <1>2, <2>1 DEF Addable, Bare
    <3>2. ASSUME NEW i \in DOMAIN a.deps PROVE BeforeLoaded(S, a.deps[i])
      <4>1. BeforeLoaded(R, a.deps[i]) /\ (a.deps[i][2] = "BEFORE" => a.deps[i][1] # id)
        BY DEF Addable
      <4> QED BY <1>2, <4>1 DEF BeforeLoaded
    <3> QED BY <1>2, <2>1, <3>1, <3>2
  <2>2. CASE r # id
    <3>1. r \in DOMAIN R /\ S[r] = R[r]
      BY <1>2, <2>2
    <3>2. (R[r].type = "placeholder" => Bare(R, r)) /\ \A i \in DOMAIN R[r].deps : BeforeLoaded(R, R[r].deps[i])
      BY <3>1 DEF Sound, Linked
    <3>3. S[r].type = "placeholder" => Bare(S, r)
      BY <3>1, <3>2 DEF Bare
    <3>4. \A i \in DOMAIN S[r].deps : BeforeLoaded(S, S[r].deps[i])
      BY <1>1, <1>2, <3>1, <3>2 DEF BeforeLoaded
    <3> QED BY <3>3, <3>4
  <2> QED BY <2>1, <2>2
<1>6. Running(S)
  <2> SUFFICES ASSUME NEW r \in DOMAIN S, S[r].state = "STARTED", NEW i \in DOMAIN S[r].deps
               PROVE  Satisfied(S, S[r].deps[i])
    BY DEF Running
  <2>1. r \in DOMAIN R /\ S[r] = R[r]
    BY <1>0, <1>2
  <2>2. Satisfied(R, R[r].deps[i]) /\ R[r].deps[i][1] # id
    BY <1>1, <2>1 DEF Sound, Running
  <2> QED BY <1>2, <2>1, <2>2 DEF Satisfied
<1>7. Sound(S, N)
  BY <1>3, <1>4, <1>5, <1>6 DEF Sound
<1> QED BY <1>1, <1>2, <1>7 DEF S, Adds

\* A placeholder, or the mark of a service that is being loaded.
LEMMA PutPlaceholder ==
    ASSUME NEW N \in Nat, NEW R, Sound(R, N), NEW n \in Names, NEW loading \in BOOLEAN
    PROVE  LET id == FreshId(R, n)
               a  == NewRecord(n, "placeholder", loading)
               S  == Put(R, id, a)
           IN  /\ Sound(S, N + 1) /\ Adds(R, S, id) /\ S[id] = a
               /\ id \in Ids(N + 1) /\ id[1] = n /\ a.type = "placeholder" /\ a.loading = loading
<1> DEFINE id == FreshId(R, n)
           a == NewRecord(n, "placeholder", loading)
<1>1. id \in Ids(N + 1) /\ id[1] = n /\ id \notin Mentioned(R)
  BY Fresh DEF Sound
<1>2. a \in Rec(N + 1)
  <2>1. <<>> \in Seq(Links(N + 1)) /\ {} \in SUBSET Links(N + 1) /\ None \in IdsOrNone(N + 1)
    BY DEF IdsOrNone
  <2>2. "placeholder" \in Types /\ "STOPPED" \in States
    BY DEF Types, States
  <2> QED BY <2>1, <2>2 DEF Rec, NewRecord
<1>3. a.name = n /\ a.state = "STOPPED" /\ a.type = "placeholder" /\ a.deps = <<>> /\ a.dependents = {} /\ a.loading = loading
  BY DEF NewRecord
<1> HIDE DEF id, a
<1>4. DOMAIN a.deps = {}
  BY <1>3
<1>5. Addable(R, id, a, N + 1)
  BY <1>1, <1>2, <1>3, <1>4 DEF Addable
<1>6. Sound(R, N + 1)
  BY SoundGrows
<1>7. Sound(Put(R, id, a), N + 1) /\ Adds(R, Put(R, id, a), id) /\ Put(R, id, a)[id] = a
  <2> DEFINE M == N + 1
  <2>1. Sound(R, M) /\ Addable(R, id, a, M)
    BY <1>5, <1>6
  <2> HIDE DEF M
  <2>2. Sound(Put(R, id, a), M) /\ Adds(R, Put(R, id, a), id) /\ Put(R, id, a)[id] = a
    BY <2>1, PutNew
  <2> QED BY <2>2 DEF M
<1> QED BY <1>1, <1>3, <1>7, Zenon DEF id, a

\* S has the same records, with other links.
Relinks(R, S) == DOMAIN S = DOMAIN R /\ \A x \in DOMAIN R : Same(R[x], S[x])

LEMMA RelinksTwice ==
    ASSUME NEW R, NEW S, NEW T, Relinks(R, S), Relinks(S, T)
    PROVE  Relinks(R, T)
BY DEF Relinks, Same

\* More dependents that are not those of "before" settings.
SameDeps(R, S) == \A x \in DOMAIN R : S[x].deps = R[x].deps

LEMMA LinkToSound ==
    ASSUME NEW N, NEW R, Sound(R, N), NEW from \in Ids(N), NEW ls \in Seq(Links(N)),
           \A i \in DOMAIN ls : ls[i][2] # "BEFORE"
    PROVE  /\ Sound(LinkTo(R, from, ls), N) /\ Relinks(R, LinkTo(R, from, ls))
           /\ SameDeps(R, LinkTo(R, from, ls))
<1> DEFINE S == LinkTo(R, from, ls)
           D(x) == R[x].dependents \cup {<<from, ls[i][2]>> : i \in {i \in DOMAIN ls : ls[i][1] = x}}
<1>1. DOMAIN S = DOMAIN R /\ S = [x \in DOMAIN S |-> S[x]]
      /\ \A x \in DOMAIN R : S[x] = [R[x] EXCEPT !.dependents = D(x)]
  BY DEF LinkTo
<1>2. \A i \in DOMAIN ls : ls[i] \in Links(N)
  OBVIOUS
<1>3. \A i \in DOMAIN ls : <<from, ls[i][2]>> \in Links(N)
  BY <1>2 DEF Links
<1>4. ASSUME NEW x \in DOMAIN R
      PROVE  D(x) \in SUBSET Links(N) /\ \A l \in D(x) : l \in R[x].dependents \/ l[2] # "BEFORE"
  <2>1. R[x].dependents \in SUBSET Links(N)
    BY RecFields DEF Sound, Typed
  <2> QED BY <1>3, <2>1
<1> HIDE DEF S, D
<1>5. ASSUME NEW x \in DOMAIN R
      PROVE  S[x] \in Rec(N) /\ Same(R[x], S[x]) /\ S[x].deps = R[x].deps /\ S[x].dependents = D(x)
  <2>1. R[x] \in Rec(N) /\ S[x] = [R[x] EXCEPT !.dependents = D(x)]
    BY <1>1 DEF Sound, Typed
  <2>2. [R[x] EXCEPT !.dependents = D(x)] \in Rec(N)
    BY <1>4, <2>1, Zenon DEF Rec
  <2> QED BY <2>1, <2>2 DEF Rec, Same
<1>6. Typed(S, N)
  BY <1>1, <1>5 DEF Sound, Typed
<1>7. Named(S)
  BY <1>1, <1>5 DEF Sound, Named, Same
<1>8. Linked(S)
  <2> SUFFICES ASSUME NEW r \in DOMAIN R
               PROVE  /\ S[r].type = "placeholder" => Bare(S, r)
                      /\ \A i \in DOMAIN S[r].deps : BeforeLoaded(S, S[r].deps[i])
    BY <1>1 DEF Linked
  <2>1. (R[r].type = "placeholder" => Bare(R, r)) /\ \A i \in DOMAIN R[r].deps : BeforeLoaded(R, R[r].deps[i])
    BY DEF Sound, Linked
  <2>2. S[r].type = "placeholder" => Bare(S, r)
    BY <1>4, <1>5, <2>1 DEF Bare, Same
  <2>3. \A i \in DOMAIN S[r].deps : BeforeLoaded(S, S[r].deps[i])
    BY <1>1, <1>5, <2>1 DEF BeforeLoaded, Same
  <2> QED BY <2>2, <2>3
<1>9. Running(S)
  <2> SUFFICES ASSUME NEW r \in DOMAIN R, S[r].state = "STARTED", NEW i \in DOMAIN S[r].deps
               PROVE  Satisfied(S, S[r].deps[i])
    BY <1>1 DEF Running
  <2>1. Satisfied(R, R[r].deps[i])
    BY <1>5 DEF Sound, Running, Same
  <2> QED BY <1>1, <1>5, <2>1 DEF Satisfied, Same
<1>10. Sound(S, N)
  BY <1>6, <1>7, <1>8, <1>9 DEF Sound
<1> QED BY <1>1, <1>5, <1>10 DEF S, Relinks, SameDeps

\* More links of "before" settings, to a service that is loaded.
MoreBefores(R, S, id) ==
    /\ Relinks(R, S)
    /\ \A x \in DOMAIN R : S[x].dependents \subseteq R[x].dependents
    /\ \A x \in DOMAIN R : \A i \in DOMAIN S[x].deps :
         S[x].deps[i] = <<id, "BEFORE">> \/ \E j \in DOMAIN R[x].deps : R[x].deps[j] = S[x].deps[i]

LEMMA MoreBeforesSound ==
    ASSUME NEW N, NEW R, Sound(R, N), NEW S, Typed(S, N), NEW id \in DOMAIN R,
           R[id].type # "placeholder", MoreBefores(R, S, id)
    PROVE  Sound(S, N)
<1>1. DOMAIN S = DOMAIN R /\ \A x \in DOMAIN R : Same(R[x], S[x]) /\ S[x].dependents \subseteq R[x].dependents
  BY DEF MoreBefores, Relinks
<1>2. \A x \in DOMAIN R : \A i \in DOMAIN S[x].deps :
         S[x].deps[i] = <<id, "BEFORE">> \/ \E j \in DOMAIN R[x].deps : R[x].deps[j] = S[x].deps[i]
  BY DEF MoreBefores
<1>3. \A x \in DOMAIN R : S[x].name = R[x].name /\ S[x].type = R[x].type /\ S[x].loading = R[x].loading
                          /\ S[x].state = R[x].state
  BY <1>1 DEF Same
<1>4. Named(S)
  BY <1>1, <1>3 DEF Sound, Named
<1>5. Linked(S)
  <2> SUFFICES ASSUME NEW r \in DOMAIN R
               PROVE  /\ S[r].type = "placeholder" => Bare(S, r)
                      /\ \A i \in DOMAIN S[r].deps : BeforeLoaded(S, S[r].deps[i])
    BY <1>1 DEF Linked
  <2>0. (R[r].type = "placeholder" => Bare(R, r)) /\ \A i \in DOMAIN R[r].deps : BeforeLoaded(R, R[r].deps[i])
    BY DEF Sound, Linked
  <2>1. S[r].type = "placeholder" => Bare(S, r)
    <3> SUFFICES ASSUME R[r].type = "placeholder" PROVE Bare(S, r)
      BY <1>3
    <3>1. R[r].state = "STOPPED" /\ (\A i \in DOMAIN R[r].deps : R[r].deps[i][2] = "BEFORE")
          /\ \A l \in R[r].dependents : l[2] # "BEFORE"
      BY <2>0 DEF Bare
    <3>2. \A i \in DOMAIN S[r].deps : S[r].deps[i][2] = "BEFORE"
      BY <1>2, <3>1
    <3>3. \A l \in S[r].dependents : l[2] # "BEFORE"
      BY <1>1, <3>1
    <3> QED BY <1>3, <3>1, <3>2, <3>3 DEF Bare
  <2>2. ASSUME NEW i \in DOMAIN S[r].deps PROVE BeforeLoaded(S, S[r].deps[i])
    <3>1. CASE S[r].deps[i] = <<id, "BEFORE">>
      BY <1>1, <1>3, <3>1 DEF BeforeLoaded
    <3>2. CASE \E j \in DOMAIN R[r].deps : R[r].deps[j] = S[r].deps[i]
      <4>1. BeforeLoaded(R, S[r].deps[i])
        BY <2>0, <3>2
      <4> QED BY <1>1, <1>3, <4>1 DEF BeforeLoaded
    <3> QED BY <1>2, <3>1, <3>2
  <2> QED BY <2>1, <2>2
<1>6. Running(S)
  <2> SUFFICES ASSUME NEW r \in DOMAIN R, S[r].state = "STARTED", NEW i \in DOMAIN S[r].deps
               PROVE  Satisfied(S, S[r].deps[i])
    BY <1>1 DEF Running
  <2>1. CASE S[r].deps[i] = <<id, "BEFORE">>
    BY <2>1 DEF Satisfied
  <2>2. CASE \E j \in DOMAIN R[r].deps : R[r].deps[j] = S[r].deps[i]
    <3>1. Satisfied(R, S[r].deps[i])
      BY <1>3, <2>2 DEF Sound, Running
    <3> QED BY <1>1, <1>3, <3>1 DEF Satisfied
  <2> QED BY <1>2, <2>1, <2>2
<1> QED BY <1>4, <1>5, <1>6 DEF Sound

\* A service that is loaded gets other links.
Replaceable(R, r, a) ==
    /\ Same(R[r], a) /\ a.type # "placeholder"
    /\ \A i \in DOMAIN a.deps :
         BeforeLoaded(R, a.deps[i]) /\ (a.state = "STARTED" => Satisfied(R, a.deps[i]))

LEMMA ReplaceLoaded ==
    ASSUME NEW N, NEW R, Sound(R, N), NEW r \in DOMAIN R, NEW a \in Rec(N), Replaceable(R, r, a)
    PROVE  Sound(Put(R, r, a), N) /\ Relinks(R, Put(R, r, a))
<1> DEFINE S == Put(R, r, a)
<1>1. DOMAIN S = DOMAIN R /\ S = [x \in DOMAIN S |-> S[x]] /\ S[r] = a /\ \A x \in DOMAIN R \ {r} : S[x] = R[x]
  BY DEF Put
<1> HIDE DEF S
<1>2. \A x \in DOMAIN R : Same(R[x], S[x])
  BY <1>1 DEF Replaceable, Same
<1>3. \A x \in DOMAIN R : S[x].name = R[x].name /\ S[x].type = R[x].type /\ S[x].loading = R[x].loading
                          /\ S[x].state = R[x].state
  BY <1>2 DEF Same
<1>4. Typed(S, N) /\ Named(S)
  BY <1>1, <1>3 DEF Sound, Typed, Named
<1>5. Linked(S)
  <2> SUFFICES ASSUME NEW x \in DOMAIN R
               PROVE  /\ S[x].type = "placeholder" => Bare(S, x)
                      /\ \A i \in DOMAIN S[x].deps : BeforeLoaded(S, S[x].deps[i])
    BY <1>1 DEF Linked
  <2>1. \A i \in DOMAIN S[x].deps : BeforeLoaded(R, S[x].deps[i])
    BY <1>1 DEF Sound, Linked, Replaceable
  <2>2. \A i \in DOMAIN S[x].deps : BeforeLoaded(S, S[x].deps[i])
    BY <1>1, <1>3, <2>1 DEF BeforeLoaded
  <2>3. S[x].type = "placeholder" => Bare(S, x)
    <3>1. CASE x = r
      BY <1>1, <3>1 DEF Replaceable
    <3>2. CASE x # r
      BY <1>1, <3>2 DEF Sound, Linked, Bare
    <3> QED BY <3>1, <3>2
  <2> QED BY <2>2, <2>3
<1>6. Running(S)
  <2> SUFFICES ASSUME NEW x \in DOMAIN R, S[x].state = "STARTED", NEW i \in DOMAIN S[x].deps
               PROVE  Satisfied(S, S[x].deps[i])
    BY <1>1 DEF Running
  <2>1. Satisfied(R, S[x].deps[i])
    BY <1>1 DEF Sound, Running, Replaceable
  <2> QED BY <1>1, <1>3, <2>1 DEF Satisfied
<1>7. Sound(S, N) /\ Relinks(R, S)
  BY <1>1, <1>2, <1>4, <1>5, <1>6 DEF Sound, Relinks
<1> QED BY <1>7 DEF S

----------------------------------------------------------------------------
(* Frames, and the work of the end of load_reload_service() *)

Frame(N) ==
    [name : Names, reload : IdsOrNone(N), dummy : IdsOrNone(N), todo : Seq(Lines), type : ServiceTypes,
     depends : Seq(Links(N)), after : Seq(Names), before : Seq(Names), consumer_of : Names \cup {NoName},
     pipe : BOOLEAN, console : BOOLEAN, has : SUBSET STRING]

\* A frame has the name of what it replaces: a record, or its dummy.  Its links are its own.
FrameOK(f, N) ==
    /\ f \in Frame(N)
    /\ IF f.reload = None THEN f.dummy # None /\ f.dummy[1] = f.name ELSE f.dummy = None /\ f.reload[1] = f.name
    /\ \A i \in DOMAIN f.depends : f.depends[i][2] # "BEFORE"

LEMMA FrameFields ==
    ASSUME NEW N, NEW f \in Frame(N)
    PROVE  /\ f.name \in Names /\ f.reload \in IdsOrNone(N) /\ f.dummy \in IdsOrNone(N) /\ f.todo \in Seq(Lines)
           /\ f.type \in ServiceTypes /\ f.depends \in Seq(Links(N)) /\ f.after \in Seq(Names) /\ f.before \in Seq(Names)
           /\ f.consumer_of \in Names \cup {NoName} /\ f.pipe \in BOOLEAN /\ f.console \in BOOLEAN
           /\ f.has \in SUBSET STRING
BY Zenon DEF Frame

\* A record is added, and the links of others are changed.
AddsWith(R, S, id) ==
    id \notin DOMAIN R /\ DOMAIN S = DOMAIN R \cup {id} /\ \A x \in DOMAIN R : Same(R[x], S[x])

LEMMA AddsRelinks ==
    ASSUME NEW R, NEW S, NEW T, NEW id, Adds(R, S, id) \/ AddsWith(R, S, id), Relinks(S, T)
    PROVE  AddsWith(R, T, id) /\ Same(S[id], T[id])
BY DEF Adds, AddsWith, Relinks, Same

\* A record that gets its settings.
WithSettings(a, d, p, c, B) == [a EXCEPT !.deps = d, !.pipe = p, !.console = c, !.dependents = B]

LEMMA SetSettings ==
    ASSUME NEW N, NEW a \in Rec(N), NEW d \in Seq(Links(N)), NEW B \in SUBSET Links(N),
           NEW p \in BOOLEAN, NEW c \in BOOLEAN
    PROVE  /\ WithSettings(a, d, p, c, B) \in Rec(N) /\ Same(a, WithSettings(a, d, p, c, B))
           /\ WithSettings(a, d, p, c, B).deps = d
<1> DEFINE b == WithSettings(a, d, p, c, B)
<1>1. b \in Rec(N)
  BY Zenon DEF Rec, WithSettings
<1>2. Same(a, b) /\ b.deps = d
  BY <1>1 DEF Rec, Same, WithSettings
<1> QED BY <1>1, <1>2

\* A record for a service that is loaded: the links of the new record id are ls; the records of B have one to it.
AddsLinks(R, S, id, ls, B) ==
    \A x \in DOMAIN S : \A i \in DOMAIN S[x].deps :
      \/ x \in B /\ S[x].deps[i] = <<id, "BEFORE">>
      \/ x = id /\ \E j \in DOMAIN ls : S[x].deps[i] = ls[j]
      \/ x \in DOMAIN R /\ \E j \in DOMAIN R[x].deps : S[x].deps[i] = R[x].deps[j]

LEMMA AddRecordSound ==
    ASSUME NEW N, NEW w, Sound(w.R, N), FrameOK(w.f, N), w.before \in SUBSET Ids(N),
           NEW id \in Ids(N), id \notin Mentioned(w.R), id[1] = w.f.name
    PROVE  LET S == AddRecord(w, id)
           IN  /\ Sound(S, N) /\ AddsWith(w.R, S, id) /\ AddsLinks(w.R, S, id, w.f.depends, w.before)
               /\ S[id].type = w.f.type /\ S[id].state = "STOPPED" /\ ~S[id].loading
<1> DEFINE f == w.f
           R == w.R
           B == {<<b, "BEFORE">> : b \in w.before}
           a == [NewRecord(w.f.name, w.f.type, FALSE) EXCEPT
                   !.deps = w.f.depends, !.pipe = w.f.pipe, !.console = w.f.console, !.dependents = B]
           A == Put(R, id, a)
           U == [x \in DOMAIN A |-> IF x \in w.before THEN [A[x] EXCEPT !.deps = Append(@, <<id, "BEFORE">>)] ELSE A[x]]
           S == LinkTo(U, id, w.f.depends)
<1>0. S = AddRecord(w, id)
  BY Zenon DEF AddRecord
<1>1. f \in Frame(N) /\ f.name \in Names /\ f.type \in ServiceTypes /\ f.depends \in Seq(Links(N))
      /\ f.pipe \in BOOLEAN /\ f.console \in BOOLEAN /\ \A i \in DOMAIN f.depends : f.depends[i][2] # "BEFORE"
  BY FrameFields DEF FrameOK
<1>3. B \in SUBSET Links(N)
  BY DEF Links, Kinds
<1>4. f.type \in Types /\ f.type # "placeholder" /\ "STOPPED" \in States /\ None \in IdsOrNone(N)
  BY <1>1 DEF Types, ServiceTypes, Output, Processes, States, IdsOrNone
<1>5. a \in Rec(N) /\ a.name = f.name /\ a.type = f.type /\ ~a.loading /\ a.state = "STOPPED" /\ a.deps = f.depends
  <2> DEFINE b == NewRecord(f.name, f.type, FALSE)
  <2>1. <<>> \in Seq(Links(N)) /\ {} \in SUBSET Links(N) /\ FALSE \in BOOLEAN
    OBVIOUS
  <2>2. b \in Rec(N)
    BY <1>1, <1>4, <2>1, Zenon DEF Rec, NewRecord
  <2>3. b.name = f.name /\ b.type = f.type /\ ~b.loading /\ b.state = "STOPPED"
    BY DEF NewRecord
  <2>4. a = WithSettings(b, f.depends, f.pipe, f.console, B)
    BY DEF WithSettings
  <2> HIDE DEF b, f, B, a
  <2>5. a \in Rec(N) /\ Same(b, a) /\ a.deps = f.depends
    BY <1>1, <1>3, <2>2, <2>4, SetSettings
  <2> QED BY <2>3, <2>5 DEF Same
<1> HIDE DEF a, B
<1>6. Addable(R, id, a, N)
  <2>1. \A i \in DOMAIN a.deps : BeforeLoaded(R, a.deps[i]) /\ (a.deps[i][2] = "BEFORE" => a.deps[i][1] # id)
    BY <1>1, <1>5 DEF BeforeLoaded
  <2> QED BY <1>4, <1>5, <2>1 DEF Addable
<1>7. Sound(A, N) /\ Adds(R, A, id) /\ A[id] = a
  BY <1>6, PutNew
<1> HIDE DEF A
<1>8. id \in DOMAIN A /\ A[id].type # "placeholder" /\ Typed(A, N) /\ <<id, "BEFORE">> \in Links(N)
  BY <1>4, <1>5, <1>7 DEF Adds, Sound, Links, Kinds
<1>9. DOMAIN U = DOMAIN A /\ U = [x \in DOMAIN U |-> U[x]]
      /\ \A x \in DOMAIN A : U[x] = A[x] \/ (x \in w.before /\ U[x] = [A[x] EXCEPT !.deps = Append(A[x].deps, <<id, "BEFORE">>)])
  OBVIOUS
<1> HIDE DEF U
<1>10. ASSUME NEW x \in DOMAIN A
       PROVE  /\ U[x] \in Rec(N) /\ Same(A[x], U[x]) /\ U[x].dependents \subseteq A[x].dependents
              /\ \A i \in DOMAIN U[x].deps :
                   (x \in w.before /\ U[x].deps[i] = <<id, "BEFORE">>) \/ \E j \in DOMAIN A[x].deps : A[x].deps[j] = U[x].deps[i]
  <2>1. A[x] \in Rec(N) /\ A[x].deps \in Seq(Links(N))
    BY <1>8, RecFields DEF Typed
  <2>2. CASE U[x] = A[x]
    BY <2>1, <2>2 DEF Same
  <2>3. CASE x \in w.before /\ U[x] = [A[x] EXCEPT !.deps = Append(A[x].deps, <<id, "BEFORE">>)]
    <3> DEFINE q == A[x].deps
               d == Append(q, <<id, "BEFORE">>)
    <3>1. d \in Seq(Links(N)) /\ \A i \in DOMAIN d : d[i] = <<id, "BEFORE">> \/ \E j \in DOMAIN q : q[j] = d[i]
      <4> HIDE DEF q
      <4>1. q \in Seq(Links(N))
        BY <2>1 DEF q
      <4> QED BY <1>8, <4>1
    <3>2. U[x] = [A[x] EXCEPT !.deps = d]
      BY <2>3
    <3> HIDE DEF d
    <3>3. U[x] \in Rec(N) /\ Same(A[x], U[x]) /\ U[x].deps = d /\ U[x].dependents = A[x].dependents
      BY <2>1, <3>1, <3>2, SetDeps
    <3> QED BY <2>3, <3>1, <3>3
  <2> QED BY <1>9, <2>2, <2>3
<1>11. Typed(U, N) /\ MoreBefores(A, U, id) /\ Relinks(A, U)
  BY <1>8, <1>9, <1>10 DEF Typed, MoreBefores, Relinks
<1>12. Sound(U, N)
  BY <1>7, <1>8, <1>11, MoreBeforesSound
<1>13. Sound(S, N) /\ Relinks(U, S) /\ SameDeps(U, S)
  BY <1>1, <1>12, LinkToSound
<1> HIDE DEF S
<1>14. AddsWith(R, U, id) /\ Same(A[id], U[id])
  BY <1>7, <1>11, AddsRelinks
<1>15. AddsWith(R, S, id) /\ Same(U[id], S[id])
  BY <1>13, <1>14, AddsRelinks
<1>16. S[id].type = f.type /\ S[id].state = "STOPPED" /\ ~S[id].loading
  BY <1>5, <1>7, <1>14, <1>15 DEF Same
<1>17. AddsLinks(R, S, id, f.depends, w.before)
  <2> SUFFICES ASSUME NEW x \in DOMAIN S, NEW i \in DOMAIN S[x].deps
               PROVE  \/ x \in w.before /\ S[x].deps[i] = <<id, "BEFORE">>
                      \/ x = id /\ \E j \in DOMAIN f.depends : S[x].deps[i] = f.depends[j]
                      \/ x \in DOMAIN R /\ \E j \in DOMAIN R[x].deps : S[x].deps[i] = R[x].deps[j]
    BY DEF AddsLinks
  <2>1. x \in DOMAIN A /\ S[x].deps = U[x].deps
    BY <1>9, <1>13 DEF Relinks, SameDeps
  <2>2. (x \in w.before /\ S[x].deps[i] = <<id, "BEFORE">>) \/ \E j \in DOMAIN A[x].deps : A[x].deps[j] = S[x].deps[i]
    BY <1>10, <2>1
  <2>3. x = id \/ (x \in DOMAIN R /\ A[x] = R[x])
    BY <1>7, <2>1 DEF Adds
  <2> QED BY <1>5, <1>7, <2>2, <2>3
<1> QED BY <1>0, <1>13, <1>15, <1>16, <1>17

----------------------------------------------------------------------------
(* The "before" settings of others go over to the new record *)

\* One step of MoveBefore.
MovesStep(m, deps, k) ==
    IF m.i > Len(m.rest) THEN m
    ELSE IF m.rest[m.i][2] # "BEFORE" THEN [m EXCEPT !.i = @ + 1]
    ELSE [moved |-> Append(m.moved, m.rest[m.i]), rest |-> RemoveAt(m.rest, m.i),
          i |-> IF m.i = Len(m.rest) THEN 1 ELSE m.i + 1]

\* The recursive function of MoveBefore, as far as n.
Moves(f, deps, n) == f = [k \in 0 .. n |-> IF k = 0 THEN [moved |-> <<>>, rest |-> deps, i |-> 1] ELSE MovesStep(f[k - 1], deps, k)]

LEMMA MovesExists ==
    ASSUME NEW deps, NEW n \in Nat
    PROVE  \E f : Moves(f, deps, n)
<1> DEFINE I == {k \in 0 .. n : \E f : Moves(f, deps, k)}
<1>1. 0 \in I
  <2> DEFINE g == [i \in 0 .. 0 |-> [moved |-> <<>>, rest |-> deps, i |-> 1]]
  <2>1. \A i \in 0 .. 0 : i = 0
    OBVIOUS
  <2>2. Moves(g, deps, 0)
    BY <2>1 DEF Moves
  <2> HIDE DEF g
  <2> QED BY <2>2
<1>2. \A k \in 1 .. n : k - 1 \in I => k \in I
  <2> SUFFICES ASSUME NEW k \in 1 .. n, NEW f, Moves(f, deps, k - 1)
               PROVE  \E g : Moves(g, deps, k)
    OBVIOUS
  <2> DEFINE g == [i \in 0 .. k |-> IF i = k THEN MovesStep(f[k - 1], deps, k) ELSE f[i]]
  <2>1. \A i \in 0 .. k : g[i] = IF i = 0 THEN [moved |-> <<>>, rest |-> deps, i |-> 1] ELSE MovesStep(g[i - 1], deps, i)
    <3> SUFFICES ASSUME NEW i \in 0 .. k
                 PROVE  g[i] = IF i = 0 THEN [moved |-> <<>>, rest |-> deps, i |-> 1] ELSE MovesStep(g[i - 1], deps, i)
      OBVIOUS
    <3>1. i # 0 => g[i - 1] = f[i - 1]
      OBVIOUS
    <3>2. g[i] = IF i = k THEN MovesStep(f[k - 1], deps, k) ELSE f[i]
      OBVIOUS
    <3>3. i # k => f[i] = IF i = 0 THEN [moved |-> <<>>, rest |-> deps, i |-> 1] ELSE MovesStep(f[i - 1], deps, i)
      <4>1. i # k => i \in 0 .. k - 1
        OBVIOUS
      <4>2. f = [j \in 0 .. k - 1 |-> IF j = 0 THEN [moved |-> <<>>, rest |-> deps, i |-> 1] ELSE MovesStep(f[j - 1], deps, j)]
        BY DEF Moves
      <4>3. \A j \in 0 .. k - 1 : f[j] = IF j = 0 THEN [moved |-> <<>>, rest |-> deps, i |-> 1] ELSE MovesStep(f[j - 1], deps, j)
        BY <4>2, Zenon
      <4> QED BY <4>1, <4>3
    <3> HIDE DEF g
    <3> QED BY <3>1, <3>2, <3>3
  <2>2. g = [i \in 0 .. k |-> g[i]]
    OBVIOUS
  <2> HIDE DEF g
  <2>3. Moves(g, deps, k)
    BY <2>1, <2>2 DEF Moves
  <2> QED BY <2>3
<1>3. I \in SUBSET (0 .. n)
  OBVIOUS
<1> HIDE DEF I
<1>4. I = 0 .. n
  BY <1>1, <1>2, <1>3, SetInduction
<1>5. n \in I
  BY <1>4
<1> QED BY <1>5 DEF I


\* What is moved are "before" links; what is moved and what is left were there.
MovesFcn(deps) == CHOOSE f : Moves(f, deps, 2 * Len(deps) + 1)
MovesOK(m, deps, T) ==
    /\ m \in [moved : Seq(T), rest : Seq(T), i : Nat \ {0}]
    /\ \A i \in DOMAIN m.moved : m.moved[i][2] = "BEFORE" /\ \E j \in DOMAIN deps : deps[j] = m.moved[i]
    /\ \A i \in DOMAIN m.rest : \E j \in DOMAIN deps : deps[j] = m.rest[i]

LEMMA RemoveAtLinks ==
    ASSUME NEW T, NEW q \in Seq(T), NEW c \in 1 .. Len(q)
    PROVE  RemoveAt(q, c) \in Seq(T) /\ \A i \in DOMAIN RemoveAt(q, c) : \E j \in DOMAIN q : q[j] = RemoveAt(q, c)[i]
<1> DEFINE u == SubSeq(q, 1, c - 1)
           v == SubSeq(q, c + 1, Len(q))
<1>1. u \in Seq(T) /\ Len(u) = c - 1 /\ \A i \in 1 .. c - 1 : u[i] = q[i]
  OBVIOUS
<1>2. v \in Seq(T) /\ Len(v) = Len(q) - c /\ \A i \in 1 .. Len(q) - c : v[i] = q[c + i]
  OBVIOUS
<1>3. RemoveAt(q, c) = u \o v
  BY DEF RemoveAt
<1> HIDE DEF u, v
<1>4. u \o v \in Seq(T) /\ DOMAIN (u \o v) = 1 .. Len(u) + Len(v)
      /\ \A i \in 1 .. Len(u) + Len(v) : (u \o v)[i] = IF i <= Len(u) THEN u[i] ELSE v[i - Len(u)]
  <2>1. u \in Seq(T) /\ v \in Seq(T)
    BY <1>1, <1>2
  <2>2. u \o v \in Seq(T) /\ Len(u \o v) = Len(u) + Len(v)
        /\ \A i \in 1 .. Len(u) + Len(v) : (u \o v)[i] = IF i <= Len(u) THEN u[i] ELSE v[i - Len(u)]
    BY <2>1, ConcatProperties
  <2>3. DOMAIN (u \o v) = 1 .. Len(u \o v)
    BY <2>2
  <2> QED BY <2>2, <2>3
<1>5. ASSUME NEW i \in 1 .. Len(u) + Len(v) PROVE \E j \in 1 .. Len(q) : q[j] = (u \o v)[i]
  <2>1. CASE i <= Len(u)
    <3>1. (u \o v)[i] = q[i] /\ i \in 1 .. Len(q)
      BY <1>1, <1>2, <1>4, <2>1
    <3> QED BY <3>1
  <2>2. CASE ~(i <= Len(u))
    <3>1. i - Len(u) \in 1 .. Len(q) - c /\ (u \o v)[i] = v[i - Len(u)]
      BY <1>1, <1>2, <1>4, <2>2
    <3>2. (u \o v)[i] = q[i + 1] /\ i + 1 \in 1 .. Len(q)
      BY <1>1, <1>2, <3>1
    <3> QED BY <3>2
  <2> QED BY <2>1, <2>2
<1>6. DOMAIN q = 1 .. Len(q)
  OBVIOUS
<1> QED BY <1>3, <1>4, <1>5, <1>6

LEMMA MovesStepOK ==
    ASSUME NEW T, NEW deps \in Seq(T), NEW m, MovesOK(m, deps, T), NEW k
    PROVE  MovesOK(MovesStep(m, deps, k), deps, T)
<1> DEFINE s == MovesStep(m, deps, k)
<1>0. m \in [moved : Seq(T), rest : Seq(T), i : Nat \ {0}]
  BY DEF MovesOK
<1>1. CASE m.i > Len(m.rest)
  BY <1>1 DEF MovesStep
<1>2. CASE ~(m.i > Len(m.rest)) /\ m.rest[m.i][2] # "BEFORE"
  <2>1. s = [m EXCEPT !.i = m.i + 1]
    BY <1>2 DEF MovesStep
  <2>2. s \in [moved : Seq(T), rest : Seq(T), i : Nat \ {0}] /\ s.moved = m.moved /\ s.rest = m.rest
    BY <1>0, <2>1
  <2> QED BY <2>2 DEF MovesOK
<1>3. CASE ~(m.i > Len(m.rest)) /\ m.rest[m.i][2] = "BEFORE"
  <2> DEFINE q == m.rest
             p == m.moved
             c == m.i
             e == m.rest[m.i]
  <2>0. q \in Seq(T) /\ p \in Seq(T) /\ c \in Nat \ {0}
    BY <1>0
  <2>1. c \in 1 .. Len(q) /\ e \in T /\ e[2] = "BEFORE" /\ \E j \in DOMAIN deps : deps[j] = e
    BY <1>3, <2>0 DEF MovesOK
  <2>2. s = [moved |-> Append(p, e), rest |-> RemoveAt(q, c), i |-> IF c = Len(q) THEN 1 ELSE c + 1]
    BY <1>3, Zenon DEF MovesStep
  <2>3. \A i \in DOMAIN p : p[i][2] = "BEFORE" /\ \E j \in DOMAIN deps : deps[j] = p[i]
    BY DEF MovesOK
  <2>4. \A i \in DOMAIN q : \E j \in DOMAIN deps : deps[j] = q[i]
    BY DEF MovesOK
  <2> HIDE DEF q, p, c, e, s
  <2>5. RemoveAt(q, c) \in Seq(T) /\ \A i \in DOMAIN RemoveAt(q, c) : \E j \in DOMAIN q : q[j] = RemoveAt(q, c)[i]
    BY <2>0, <2>1, RemoveAtLinks
  <2>6. Append(p, e) \in Seq(T) /\ \A i \in DOMAIN Append(p, e) : Append(p, e)[i] = e \/ \E j \in DOMAIN p : p[j] = Append(p, e)[i]
    BY <2>0, <2>1
  <2>7. s \in [moved : Seq(T), rest : Seq(T), i : Nat \ {0}] /\ s.moved = Append(p, e) /\ s.rest = RemoveAt(q, c)
    BY <2>0, <2>2, <2>5, <2>6
  <2>8. \A i \in DOMAIN s.moved : s.moved[i][2] = "BEFORE" /\ \E j \in DOMAIN deps : deps[j] = s.moved[i]
    BY <2>1, <2>3, <2>6, <2>7
  <2>9. \A i \in DOMAIN s.rest : \E j \in DOMAIN deps : deps[j] = s.rest[i]
    BY <2>4, <2>5, <2>7
  <2>10. MovesOK(s, deps, T)
    BY <2>7, <2>8, <2>9 DEF MovesOK
  <2> QED BY <2>10 DEF s
<1> QED BY <1>1, <1>2, <1>3

LEMMA MovesLinks ==
    ASSUME NEW T, NEW deps \in Seq(T)
    PROVE  MovesOK(MoveBefore(deps), deps, T)
<1> DEFINE f == MovesFcn(deps)
           n == 2 * Len(deps) + 1
<1>1. n \in Nat /\ n = 2 * Len(deps) + 1
  OBVIOUS
<1> HIDE DEF n
<1>2. \E g : Moves(g, deps, n)
  BY <1>1, MovesExists
<1>3. Moves(f, deps, n)
  BY <1>1, <1>2, Zenon DEF MovesFcn
<1>4. MoveBefore(deps) = f[n]
  BY <1>1, Zenon DEF MoveBefore, MovesFcn, Moves, MovesStep
<1> HIDE DEF f
<1> DEFINE I == {k \in 0 .. n : MovesOK(f[k], deps, T)}
<1>5. f = [k \in 0 .. n |-> IF k = 0 THEN [moved |-> <<>>, rest |-> deps, i |-> 1] ELSE MovesStep(f[k - 1], deps, k)]
  BY <1>3 DEF Moves
<1>6. \A k \in 0 .. n : f[k] = IF k = 0 THEN [moved |-> <<>>, rest |-> deps, i |-> 1] ELSE MovesStep(f[k - 1], deps, k)
  BY <1>5, Zenon
<1>7. 0 \in I
  <2>1. f[0] = [moved |-> <<>>, rest |-> deps, i |-> 1] /\ 0 \in 0 .. n
    BY <1>1, <1>6
  <2>2. MovesOK(f[0], deps, T)
    BY <2>1 DEF MovesOK
  <2> QED BY <2>1, <2>2
<1>8. \A k \in 1 .. n : k - 1 \in I => k \in I
  <2> SUFFICES ASSUME NEW k \in 1 .. n, MovesOK(f[k - 1], deps, T)
               PROVE  MovesOK(f[k], deps, T)
    BY <1>1
  <2>1. f[k] = MovesStep(f[k - 1], deps, k)
    BY <1>1, <1>6
  <2> DEFINE m == f[k - 1]
  <2>2. MovesOK(m, deps, T)
    OBVIOUS
  <2> HIDE DEF m
  <2>3. MovesOK(MovesStep(m, deps, k), deps, T)
    BY <2>2, MovesStepOK
  <2> QED BY <2>1, <2>3 DEF m
<1>9. I \in SUBSET (0 .. n)
  OBVIOUS
<1> HIDE DEF I
<1>10. I = 0 .. n
  BY <1>1, <1>7, <1>8, <1>9, SetInduction
<1> QED BY <1>1, <1>4, <1>10 DEF I

LEMMA DropOwnBeforesShrinks ==
    ASSUME NEW N, NEW R, Sound(R, N), NEW orig \in DOMAIN R
    PROVE  /\ Shrinks(R, DropOwnBefores(R, orig), N) /\ orig \in DOMAIN DropOwnBefores(R, orig)
           /\ \A x \in DOMAIN R : R[x].type # "placeholder" => x \in DOMAIN DropOwnBefores(R, orig)
           /\ R[orig].type = "placeholder" => DOMAIN DropOwnBefores(R, orig) = DOMAIN R
<1> DEFINE W == {l[1] : l \in {l \in R[orig].dependents : l[2] = "BEFORE"}}
           C == RmDeps(R, W, orig, "BEFORE")
           D == {l \in C[orig].dependents : l[2] # "BEFORE"}
           P == [C EXCEPT ![orig].dependents = D]
           S == DropUnrefd(P, W)
<1>0. S = DropOwnBefores(R, orig)
  BY DEF DropOwnBefores
<1>1. R[orig].type = "placeholder" => W = {}
  BY DEF Sound, Linked, Bare
<1> HIDE DEF W
<1>2. Shrinks(R, C, N) /\ DOMAIN C = DOMAIN R
  BY RmDepsShrinks DEF Sound
<1> HIDE DEF C
<1>3. Typed(C, N) /\ C[orig] \in Rec(N) /\ D \in SUBSET C[orig].dependents
  BY <1>2 DEF Shrinks, Typed
<1>4. P = Put(C, orig, [C[orig] EXCEPT !.dependents = D])
  BY <1>2, <1>3 DEF Put, Typed
<1> HIDE DEF D, P
<1> DEFINE a == [C[orig] EXCEPT !.dependents = D]
<1>5. a \in Rec(N) /\ Fewer(C[orig], a)
  BY <1>3, IsFewerDependents
<1> HIDE DEF a
<1>6. Shrinks(C, Put(C, orig, a), N) /\ DOMAIN Put(C, orig, a) = DOMAIN C
  BY <1>2, <1>3, <1>5, PutFewer
<1>7. Shrinks(C, P, N) /\ DOMAIN P = DOMAIN R
  BY <1>2, <1>4, <1>6 DEF a
<1>8. Typed(P, N) /\ \A x \in DOMAIN R : P[x].type = R[x].type
  BY <1>2, <1>7 DEF Shrinks, Shrunk, Fewer, Same
<1>9. Shrinks(P, S, N) /\ \A x \in DOMAIN P : (x \notin W \/ P[x].type # "placeholder") => x \in DOMAIN S
  BY <1>8, DroppedUnrefd
<1> HIDE DEF S
<1>10. Shrinks(R, S, N)
  BY <1>2, <1>7, <1>9, ShrinksTwice
<1>11. W = {} => DOMAIN S = DOMAIN R
  BY <1>7, <1>9 DEF Shrinks, Shrunk
<1>12. orig \in DOMAIN S /\ \A x \in DOMAIN R : R[x].type # "placeholder" => x \in DOMAIN S
  BY <1>1, <1>7, <1>8, <1>9
<1> QED BY <1>0, <1>1, <1>10, <1>11, <1>12

LEMMA SetLinks ==
    ASSUME NEW N, NEW a \in Rec(N), NEW d \in Seq(Links(N)), NEW D \in SUBSET Links(N)
    PROVE  /\ WithLinks(a, d, D) \in Rec(N) /\ Same(a, WithLinks(a, d, D))
           /\ WithLinks(a, d, D).deps = d /\ WithLinks(a, d, D).dependents = D
<1> DEFINE b == WithLinks(a, d, D)
<1>1. b \in Rec(N)
  BY Zenon DEF Rec, WithLinks
<1>2. Same(a, b) /\ b.deps = d /\ b.dependents = D
  BY <1>1 DEF Rec, Same, WithLinks
<1> QED BY <1>1, <1>2

LEMMA RedirectedLinks ==
    ASSUME NEW N, NEW q \in Seq(Links(N)), NEW orig, NEW id \in Ids(N)
    PROVE  /\ Redirected(q, orig, id) \in Seq(Links(N))
           /\ \A i \in DOMAIN Redirected(q, orig, id) :
                 i \in DOMAIN q /\ Redirected(q, orig, id)[i] = IF q[i][1] = orig THEN <<id, q[i][2]>> ELSE q[i]
<1> DEFINE d == Redirected(q, orig, id)
<1>1. DOMAIN q = 1 .. Len(q) /\ Len(q) \in Nat /\ \A i \in DOMAIN q : q[i] \in Links(N)
  OBVIOUS
<1>2. \A i \in DOMAIN q : <<id, q[i][2]>> \in Links(N)
  BY <1>1 DEF Links
<1>3. DOMAIN d = DOMAIN q /\ \A i \in DOMAIN q : d[i] = IF q[i][1] = orig THEN <<id, q[i][2]>> ELSE q[i]
  BY DEF Redirected
<1>4. d \in [1 .. Len(q) -> Links(N)]
  BY <1>1, <1>2 DEF Redirected
<1>5. d \in Seq(Links(N))
  <2> HIDE DEF d
  <2> QED BY <1>1, <1>4
<1> QED BY <1>3, <1>5

\* Where the links of a record are from, after they went over to the new record.
Descends(R, S, orig, id, x, y) ==
    \A i \in DOMAIN S[x].deps : \E z \in {x, y} : \E j \in DOMAIN R[z].deps :
        \/ S[x].deps[i] = R[z].deps[j] /\ (z = x \/ R[z].deps[j][2] = "BEFORE")
        \/ z = x /\ R[z].deps[j][1] = orig /\ S[x].deps[i] = <<id, R[z].deps[j][2]>>
AllDescend(R, S, orig, id) == \A x \in DOMAIN R : Descends(R, S, orig, id, x, IF x = id THEN orig ELSE x)

LEMMA MoveLinksSound ==
    ASSUME NEW N, NEW R, Sound(R, N), NEW orig \in DOMAIN R, NEW id \in DOMAIN R, orig # id,
           R[orig].state = "STOPPED", R[id].state = "STOPPED", R[id].type # "placeholder"
    PROVE  LET S == MoveLinks(R, orig, id)
           IN  /\ Sound(S, N) /\ Relinks(R, S) /\ S[orig].dependents = {} /\ AllDescend(R, S, orig, id)
               /\ \A i \in DOMAIN S[orig].deps : \E j \in DOMAIN R[orig].deps : R[orig].deps[j] = S[orig].deps[i]
<1> DEFINE m == MoveBefore(R[orig].deps)
           P(x) == Redirected(R[x].deps, orig, id)
           Q(x) == IF x \in Targets(m.moved) THEN (R[x].dependents \ {<<orig, "BEFORE">>}) \cup {<<id, "BEFORE">>}
                   ELSE R[x].dependents
           over(x) == WithLinks(R[x], P(x), Q(x))
           S == MoveLinks(R, orig, id)
<1>1. DOMAIN S = DOMAIN R /\ S = [x \in DOMAIN S |-> S[x]]
  BY Zenon DEF MoveLinks
<1>2. \A x \in DOMAIN R : S[x] =
         IF x = id THEN WithLinks(R[x], P(x) \o m.moved, Q(x) \cup R[orig].dependents)
         ELSE IF x = orig THEN WithLinks(R[x], m.rest, {}) ELSE over(x)
  BY Zenon DEF MoveLinks
<1>3. \A x \in DOMAIN R : R[x] \in Rec(N) /\ R[x].deps \in Seq(Links(N)) /\ R[x].dependents \in SUBSET Links(N)
  BY RecFields DEF Sound, Typed
<1>4. MovesOK(m, R[orig].deps, Links(N))
  <2> DEFINE q == R[orig].deps
             T == Links(N)
  <2>1. q \in Seq(T)
    BY <1>3
  <2> HIDE DEF q, T
  <2>2. MovesOK(MoveBefore(q), q, T)
    BY <2>1, MovesLinks
  <2> QED BY <2>2 DEF q, T
<1>5. m.moved \in Seq(Links(N)) /\ m.rest \in Seq(Links(N))
      /\ (\A i \in DOMAIN m.moved : m.moved[i][2] = "BEFORE" /\ \E j \in DOMAIN R[orig].deps : R[orig].deps[j] = m.moved[i])
      /\ (\A i \in DOMAIN m.rest : \E j \in DOMAIN R[orig].deps : R[orig].deps[j] = m.rest[i])
  BY <1>4 DEF MovesOK
<1> HIDE DEF m
<1>6. id \in Ids(N) /\ <<id, "BEFORE">> \in Links(N)
  BY DEF Sound, Typed, Links, Kinds
<1>7. ASSUME NEW x \in DOMAIN R
      PROVE  /\ P(x) \in Seq(Links(N))
             /\ \A i \in DOMAIN P(x) : i \in DOMAIN R[x].deps
                                       /\ P(x)[i] = IF R[x].deps[i][1] = orig THEN <<id, R[x].deps[i][2]>> ELSE R[x].deps[i]
  <2> DEFINE q == R[x].deps
  <2>1. q \in Seq(Links(N))
    BY <1>3
  <2> HIDE DEF q
  <2>2. /\ Redirected(q, orig, id) \in Seq(Links(N))
        /\ \A i \in DOMAIN Redirected(q, orig, id) :
             i \in DOMAIN q /\ Redirected(q, orig, id)[i] = IF q[i][1] = orig THEN <<id, q[i][2]>> ELSE q[i]
    BY <1>6, <2>1, RedirectedLinks
  <2> QED BY <2>2 DEF q
<1>8. ASSUME NEW x \in DOMAIN R
      PROVE  Q(x) \in SUBSET Links(N) /\ (R[x].type = "placeholder" => Q(x) = R[x].dependents)
  <2>1. Q(x) \in SUBSET Links(N)
    BY <1>3, <1>6
  <2>2. ASSUME x \in Targets(m.moved) PROVE R[x].type # "placeholder"
    <3>1. PICK i \in DOMAIN m.moved : x = m.moved[i][1]
      BY <2>2 DEF Targets
    <3>2. PICK j \in DOMAIN R[orig].deps : R[orig].deps[j] = m.moved[i]
      BY <1>5
    <3>3. BeforeLoaded(R, R[orig].deps[j])
      BY DEF Sound, Linked
    <3> QED BY <1>5, <3>1, <3>2, <3>3 DEF BeforeLoaded
  <2> QED BY <2>1, <2>2
<1> HIDE DEF P, Q
<1>9. ASSUME NEW x \in DOMAIN R
      PROVE  over(x) \in Rec(N) /\ Same(R[x], over(x)) /\ over(x).deps = P(x) /\ over(x).dependents = Q(x)
  BY <1>3, <1>7, <1>8, SetLinks
<1> HIDE DEF S, over
<1>10. ASSUME NEW x \in DOMAIN R
       PROVE  /\ S[x] \in Rec(N) /\ Same(R[x], S[x])
              /\ Descends(R, S, orig, id, x, IF x = id THEN orig ELSE x)
              /\ x # id => S[x].dependents \subseteq Q(x)
  <2>1. CASE x = id
    <3> DEFINE d == P(x) \o m.moved
               D == Q(x) \cup R[orig].dependents
    <3>1. D \in SUBSET Links(N)
      BY <1>3, <1>8
    <3>2. P(x) \in Seq(Links(N)) /\ m.moved \in Seq(Links(N))
      BY <1>5, <1>7
    <3>3. d \in Seq(Links(N)) /\ \A i \in DOMAIN d : (\E j \in DOMAIN P(x) : d[i] = P(x)[j]) \/ \E j \in DOMAIN m.moved : d[i] = m.moved[j]
      <4> DEFINE u == P(x)
                 v == m.moved
      <4>1. u \in Seq(Links(N)) /\ v \in Seq(Links(N))
        BY <3>2
      <4> HIDE DEF u, v
      <4>2. u \o v \in Seq(Links(N)) /\ Len(u \o v) = Len(u) + Len(v)
            /\ \A i \in 1 .. Len(u) + Len(v) : (u \o v)[i] = IF i <= Len(u) THEN u[i] ELSE v[i - Len(u)]
        BY <4>1, ConcatProperties
      <4>3. \A i \in 1 .. Len(u) + Len(v) : IF i <= Len(u) THEN i \in DOMAIN u ELSE i - Len(u) \in DOMAIN v
        BY <4>1
      <4>4. DOMAIN (u \o v) = 1 .. Len(u) + Len(v)
        BY <4>2
      <4>5. \A i \in DOMAIN (u \o v) : (\E j \in DOMAIN u : (u \o v)[i] = u[j]) \/ \E j \in DOMAIN v : (u \o v)[i] = v[j]
        BY <4>2, <4>3, <4>4
      <4> QED BY <4>2, <4>5 DEF u, v
    <3>4. S[x] = WithLinks(R[x], d, D)
      BY <1>2, <2>1
    <3> HIDE DEF d, D
    <3>5. S[x] \in Rec(N) /\ Same(R[x], S[x]) /\ S[x].deps = d
      BY <1>3, <3>1, <3>3, <3>4, SetLinks
    <3>7. Descends(R, S, orig, id, x, orig)
      <4> SUFFICES ASSUME NEW i \in DOMAIN d
                   PROVE  \E z \in {x, orig} : \E j \in DOMAIN R[z].deps :
                            \/ d[i] = R[z].deps[j] /\ (z = x \/ R[z].deps[j][2] = "BEFORE")
                            \/ z = x /\ R[z].deps[j][1] = orig /\ d[i] = <<id, R[z].deps[j][2]>>
        BY <3>5 DEF Descends
      <4>1. CASE \E j \in DOMAIN P(x) : d[i] = P(x)[j]
        BY <1>7, <4>1
      <4>2. CASE \E j \in DOMAIN m.moved : d[i] = m.moved[j]
        BY <1>5, <4>2
      <4> QED BY <3>3, <4>1, <4>2
    <3> QED BY <2>1, <3>5, <3>7
  <2>2. CASE x # id /\ x = orig
    <3>1. S[x] = WithLinks(R[x], m.rest, {}) /\ {} \in SUBSET Links(N)
      BY <1>2, <2>2
    <3>2. S[x] \in Rec(N) /\ Same(R[x], S[x]) /\ S[x].deps = m.rest /\ S[x].dependents = {}
      BY <1>3, <1>5, <3>1, SetLinks
    <3>3. Descends(R, S, orig, id, x, x)
      BY <1>5, <2>2, <3>2 DEF Descends
    <3> QED BY <2>2, <3>2, <3>3
  <2>3. CASE x # id /\ x # orig
    <3>1. S[x] = over(x)
      BY <1>2, <2>3
    <3>2. Descends(R, S, orig, id, x, x)
      <4>1. S[x].deps = P(x)
        BY <1>9, <3>1
      <4> SUFFICES ASSUME NEW i \in DOMAIN P(x)
                   PROVE  \E j \in DOMAIN R[x].deps :
                            \/ P(x)[i] = R[x].deps[j]
                            \/ R[x].deps[j][1] = orig /\ P(x)[i] = <<id, R[x].deps[j][2]>>
        BY <4>1 DEF Descends
      <4> QED BY <1>7
    <3> QED BY <1>9, <2>3, <3>1, <3>2
  <2> QED BY <2>1, <2>2, <2>3
<1>11. Relinks(R, S) /\ Typed(S, N)
  BY <1>1, <1>10 DEF Relinks, Typed, Sound
<1>12. \A x \in DOMAIN R : S[x].name = R[x].name /\ S[x].type = R[x].type /\ S[x].loading = R[x].loading
                           /\ S[x].state = R[x].state
  BY <1>10 DEF Same
<1>13. Named(S)
  BY <1>1, <1>12 DEF Named, Sound
<1>14. ASSUME NEW x \in DOMAIN R
       PROVE  \A i \in DOMAIN S[x].deps : BeforeLoaded(S, S[x].deps[i])
  <2> SUFFICES ASSUME NEW i \in DOMAIN S[x].deps PROVE BeforeLoaded(S, S[x].deps[i])
    OBVIOUS
  <2>1. PICK z \in {x, IF x = id THEN orig ELSE x} : \E j \in DOMAIN R[z].deps :
            \/ S[x].deps[i] = R[z].deps[j]
            \/ R[z].deps[j][1] = orig /\ S[x].deps[i] = <<id, R[z].deps[j][2]>>
    BY <1>10 DEF Descends
  <2>2. PICK j \in DOMAIN R[z].deps :
            \/ S[x].deps[i] = R[z].deps[j]
            \/ R[z].deps[j][1] = orig /\ S[x].deps[i] = <<id, R[z].deps[j][2]>>
    BY <2>1
  <2>3. BeforeLoaded(R, R[z].deps[j])
    BY DEF Sound, Linked
  <2>4. CASE S[x].deps[i] = R[z].deps[j]
    BY <1>1, <1>12, <2>3, <2>4 DEF BeforeLoaded
  <2>5. CASE S[x].deps[i] = <<id, R[z].deps[j][2]>>
    BY <1>1, <1>12, <2>5 DEF BeforeLoaded
  <2> QED BY <2>2, <2>4, <2>5
<1>15. ASSUME NEW x \in DOMAIN R, R[x].type = "placeholder"
       PROVE  Bare(S, x)
  <2>1. x # id /\ Bare(R, x)
    BY <1>15 DEF Sound, Linked
  <2>2. S[x].dependents \subseteq R[x].dependents
    BY <1>8, <1>10, <1>15, <2>1
  <2>3. \A i \in DOMAIN S[x].deps : S[x].deps[i][2] = "BEFORE"
    <3> SUFFICES ASSUME NEW i \in DOMAIN S[x].deps PROVE S[x].deps[i][2] = "BEFORE"
      OBVIOUS
    <3>1. Descends(R, S, orig, id, x, x)
      BY <1>10, <2>1
    <3>2. PICK j \in DOMAIN R[x].deps :
            \/ S[x].deps[i] = R[x].deps[j]
            \/ R[x].deps[j][1] = orig /\ S[x].deps[i] = <<id, R[x].deps[j][2]>>
      BY <3>1 DEF Descends
    <3>3. R[x].deps[j][2] = "BEFORE"
      BY <2>1 DEF Bare
    <3> QED BY <3>2, <3>3
  <2> QED BY <1>12, <2>1, <2>2, <2>3 DEF Bare
<1>16. Linked(S)
  BY <1>1, <1>12, <1>14, <1>15 DEF Linked
<1>17. Running(S)
  <2> SUFFICES ASSUME NEW x \in DOMAIN R, S[x].state = "STARTED", NEW i \in DOMAIN S[x].deps
               PROVE  Satisfied(S, S[x].deps[i])
    BY <1>1 DEF Running
  <2>1. x # id /\ R[x].state = "STARTED"
    BY <1>12
  <2>2. Descends(R, S, orig, id, x, x)
    BY <1>10, <2>1
  <2>3. PICK j \in DOMAIN R[x].deps :
          \/ S[x].deps[i] = R[x].deps[j]
          \/ R[x].deps[j][1] = orig /\ S[x].deps[i] = <<id, R[x].deps[j][2]>>
    BY <2>2 DEF Descends
  <2>4. Satisfied(R, R[x].deps[j])
    BY <2>1 DEF Sound, Running
  <2>5. CASE S[x].deps[i] = R[x].deps[j]
    BY <1>1, <1>12, <2>4, <2>5 DEF Satisfied
  <2>6. CASE R[x].deps[j][1] = orig /\ S[x].deps[i] = <<id, R[x].deps[j][2]>>
    BY <2>4, <2>6 DEF Satisfied
  <2> QED BY <2>3, <2>5, <2>6
<1>18. Sound(S, N)
  BY <1>11, <1>13, <1>16, <1>17 DEF Sound
<1>19. S[orig].dependents = {}
       /\ \A i \in DOMAIN S[orig].deps : \E j \in DOMAIN R[orig].deps : R[orig].deps[j] = S[orig].deps[i]
  <2>1. S[orig] = WithLinks(R[orig], m.rest, {}) /\ {} \in SUBSET Links(N)
    BY <1>2
  <2>2. S[orig].deps = m.rest /\ S[orig].dependents = {}
    BY <1>3, <1>5, <2>1, SetLinks
  <2> QED BY <1>5, <2>2
<1>20. AllDescend(R, S, orig, id)
  BY <1>10 DEF AllDescend
<1> QED BY <1>11, <1>18, <1>19, <1>20 DEF S

LEMMA TellConsumerShrinks ==
    ASSUME NEW N, NEW R, Typed(R, N), NEW type, NEW orig, NEW id \in Ids(N)
    PROVE  Shrinks(R, TellConsumer(R, type, orig, id), N) /\ DOMAIN TellConsumer(R, type, orig, id) = DOMAIN R
<1> DEFINE c == R[orig].log_consumer
           T == TellConsumer(R, type, orig, id)
<1>1. CASE type \in Output /\ c \in DOMAIN R
  <2> DEFINE a == [R[c] EXCEPT !.consumer_for = id]
  <2>1. T = Put(R, c, a)
    BY <1>1 DEF TellConsumer, Put, Typed
  <2>2. id \in IdsOrNone(N) /\ R[c] \in Rec(N)
    BY <1>1 DEF IdsOrNone, Typed
  <2>3. a \in Rec(N) /\ Fewer(R[c], a)
    BY <2>2, IsFewerConsumers
  <2> HIDE DEF a, c, T
  <2> QED BY <1>1, <2>1, <2>3, PutFewer DEF T
<1>2. CASE ~(type \in Output /\ c \in DOMAIN R)
  <2>1. T = R
    BY <1>2 DEF TellConsumer
  <2>2. R = [x \in DOMAIN R |-> R[x]] /\ \A x \in DOMAIN R : R[x] \in Rec(N)
    BY DEF Typed
  <2>3. Shrinks(R, R, N)
    BY <2>2, FewerItself, ShrinksEach
  <2> QED BY <2>1, <2>3
<1> QED BY <1>1, <1>2

\* A new record takes the place of the record orig.  Nothing else goes if orig is a placeholder.
Replaces(R, S, orig, id, N) ==
    /\ Sound(S, N) /\ Unique(S)
    /\ id \in Ids(N) /\ id \notin DOMAIN R /\ id[1] = orig[1] /\ orig \notin DOMAIN S
    /\ DOMAIN S \subseteq DOMAIN R \cup {id}
    /\ R[orig].type = "placeholder" => DOMAIN S = (DOMAIN R \cup {id}) \ {orig}
    /\ \A x \in DOMAIN S : IF x = id THEN S[x].type # "placeholder" /\ ~S[x].loading ELSE Same(R[x], S[x])

\* A link l of z: one of those that were, of the new record, or to it.
AddedLink(R, id, ls, B, z, l) ==
    \/ z \in B /\ l = <<id, "BEFORE">>
    \/ z = id /\ \E j \in DOMAIN ls : l = ls[j]
    \/ z \in DOMAIN R /\ \E j \in DOMAIN R[z].deps : l = R[z].deps[j]
\* Links to orig lead to id now, and the "before" links of orig are links of id.
TakenLink(orig, id, x, m, z, l) ==
    \/ z = x /\ m = l
    \/ z = x /\ l[1] = orig /\ m = <<id, l[2]>>
    \/ x = id /\ z = orig /\ l[2] = "BEFORE" /\ m = l
TakesLinks(R, S, orig, id, ls, B) ==
    \A x \in DOMAIN S : \A i \in DOMAIN S[x].deps :
      \E z, l : AddedLink(R, id, ls, B, z, l) /\ TakenLink(orig, id, x, S[x].deps[i], z, l)

Replacement(w, orig, id) ==
    LET told == TellConsumer(MoveLinks(DropOwnBefores(AddRecord(w, id), orig), orig, id), w.f.type, orig, id)
    IN  Delete(prepare_for_unload(told, orig), orig)

LEMMA ReplacementReplaces ==
    ASSUME NEW N, NEW w, Sound(w.R, N), Unique(w.R), FrameOK(w.f, N), w.before \in SUBSET Ids(N),
           NEW id \in Ids(N), id \notin Mentioned(w.R), id[1] = w.f.name,
           NEW orig \in DOMAIN w.R, orig[1] = w.f.name, w.R[orig].state = "STOPPED"
    PROVE  /\ Replaces(w.R, Replacement(w, orig, id), orig, id, N)
           /\ TakesLinks(w.R, Replacement(w, orig, id), orig, id, w.f.depends, w.before)
<1> DEFINE R == w.R
           A == AddRecord(w, id)
           B == DropOwnBefores(A, orig)
           C == MoveLinks(B, orig, id)
           D == TellConsumer(C, w.f.type, orig, id)
           S == Delete(prepare_for_unload(D, orig), orig)
<1>0. S = Replacement(w, orig, id)
  BY DEF Replacement
<1>1. Sound(A, N) /\ AddsWith(R, A, id) /\ A[id].type = w.f.type /\ A[id].state = "STOPPED" /\ ~A[id].loading
      /\ AddsLinks(R, A, id, w.f.depends, w.before)
  BY AddRecordSound
<1>2. w.f.type \in ServiceTypes /\ w.f.type # "placeholder"
  BY FrameFields DEF FrameOK, ServiceTypes, Output, Processes
<1> HIDE DEF A
<1>3. id \notin DOMAIN R /\ DOMAIN A = DOMAIN R \cup {id} /\ \A x \in DOMAIN R : Same(R[x], A[x])
  BY <1>1 DEF AddsWith
<1>4. orig \in DOMAIN A /\ orig # id /\ A[orig].state = "STOPPED" /\ A[orig].type = R[orig].type
  BY <1>3 DEF Same
<1>5. /\ Shrinks(A, B, N) /\ orig \in DOMAIN B /\ \A x \in DOMAIN A : A[x].type # "placeholder" => x \in DOMAIN B
      /\ A[orig].type = "placeholder" => DOMAIN B = DOMAIN A
  BY <1>1, <1>4, DropOwnBeforesShrinks
<1> HIDE DEF B
<1>6. Sound(B, N) /\ id \in DOMAIN B /\ \A x \in DOMAIN B : x \in DOMAIN A /\ Fewer(A[x], B[x])
  BY <1>1, <1>2, <1>3, <1>5, ShrinksSound DEF Shrinks, Shrunk
<1>7. \A x \in DOMAIN B : Same(A[x], B[x])
  BY <1>6 DEF Fewer
<1>8. B[orig].state = "STOPPED" /\ B[id].state = "STOPPED" /\ B[id].type # "placeholder"
  BY <1>1, <1>2, <1>4, <1>5, <1>6, <1>7 DEF Same
<1>9. /\ Sound(C, N) /\ Relinks(B, C) /\ C[orig].dependents = {} /\ AllDescend(B, C, orig, id)
      /\ \A i \in DOMAIN C[orig].deps : \E j \in DOMAIN B[orig].deps : B[orig].deps[j] = C[orig].deps[i]
  BY <1>4, <1>5, <1>6, <1>8, MoveLinksSound
<1> HIDE DEF C
<1>10. DOMAIN C = DOMAIN B /\ \A x \in DOMAIN B : Same(B[x], C[x])
  BY <1>9 DEF Relinks
<1>11. Shrinks(C, D, N) /\ DOMAIN D = DOMAIN C
  BY <1>9, TellConsumerShrinks DEF Sound
<1> HIDE DEF D
<1>12. Sound(D, N) /\ orig \in DOMAIN D /\ Fewer(C[orig], D[orig])
  BY <1>5, <1>9, <1>10, <1>11, ShrinksSound DEF Shrinks, Shrunk
<1>13. \A x \in DOMAIN D : Same(C[x], D[x])
  BY <1>11 DEF Shrinks, Shrunk, Fewer
<1>14. /\ Shrinks(D, S, N) /\ orig \notin DOMAIN S
       /\ ((\A i \in DOMAIN D[orig].deps : D[orig].deps[i][2] = "BEFORE") /\ D[orig].dependents = {}) =>
            DOMAIN S = DOMAIN D \ {orig}
  BY <1>12, UnloadShrinks DEF Sound
<1> HIDE DEF S
<1>15. Sound(S, N) /\ DOMAIN S \subseteq DOMAIN D /\ \A x \in DOMAIN S : Same(D[x], S[x])
  BY <1>12, <1>14, ShrinksSound DEF Shrinks, Shrunk, Fewer
<1>16. DOMAIN S \subseteq DOMAIN R \cup {id}
  BY <1>3, <1>6, <1>10, <1>11, <1>15
<1>17. ASSUME NEW x \in DOMAIN S PROVE Same(A[x], S[x])
  <2>1. x \in DOMAIN D /\ x \in DOMAIN C /\ x \in DOMAIN B
    BY <1>10, <1>11, <1>15
  <2>2. Same(A[x], B[x]) /\ Same(B[x], C[x]) /\ Same(C[x], D[x]) /\ Same(D[x], S[x])
    BY <1>7, <1>10, <1>13, <1>15, <2>1
  <2> QED BY <2>2 DEF Same
<1>18. \A x \in DOMAIN S : IF x = id THEN S[x].type # "placeholder" /\ ~S[x].loading ELSE Same(R[x], S[x])
  <2> SUFFICES ASSUME NEW x \in DOMAIN S
               PROVE  IF x = id THEN S[x].type # "placeholder" /\ ~S[x].loading ELSE Same(R[x], S[x])
    OBVIOUS
  <2>1. CASE x = id
    BY <1>1, <1>2, <1>17, <2>1 DEF Same
  <2>2. CASE x # id
    <3>1. Same(A[x], S[x]) /\ Same(R[x], A[x])
      BY <1>3, <1>16, <1>17, <2>2
    <3> QED BY <2>2, <3>1 DEF Same
  <2> QED BY <2>1, <2>2
<1>19. ASSUME R[orig].type = "placeholder" PROVE DOMAIN S = (DOMAIN R \cup {id}) \ {orig}
  <2>1. Bare(B, orig)
    BY <1>4, <1>5, <1>6, <1>7, <1>19 DEF Sound, Linked, Same
  <2>2. \A i \in DOMAIN C[orig].deps : C[orig].deps[i][2] = "BEFORE"
    BY <1>9, <2>1 DEF Bare
  <2>3. (\A i \in DOMAIN D[orig].deps : D[orig].deps[i][2] = "BEFORE") /\ D[orig].dependents = {}
    BY <1>9, <1>12, <2>2 DEF Fewer
  <2> QED BY <1>3, <1>4, <1>5, <1>10, <1>11, <1>14, <1>19, <2>3
<1>20. Unique(S)
  <2> SUFFICES ASSUME NEW x \in DOMAIN S, NEW y \in DOMAIN S, x[1] = y[1]
               PROVE  x = y
    BY DEF Unique
  <2>1. ASSUME NEW z \in DOMAIN S, z # id PROVE z[1] # id[1]
    BY <1>14, <1>16, <2>1 DEF Unique
  <2> QED BY <1>16, <2>1 DEF Unique
<1>21. id[1] = orig[1]
  OBVIOUS
<1>22. ASSUME NEW x \in DOMAIN S, NEW i \in DOMAIN S[x].deps
       PROVE  \E z, l : AddedLink(R, id, w.f.depends, w.before, z, l) /\ TakenLink(orig, id, x, S[x].deps[i], z, l)
  <2>1. x \in DOMAIN D /\ x \in DOMAIN C /\ x \in DOMAIN B /\ Fewer(D[x], S[x]) /\ Fewer(C[x], D[x])
    BY <1>10, <1>11, <1>14 DEF Shrinks, Shrunk
  <2>2. Fewer(C[x], S[x])
    BY <2>1, FewerTwice
  <2>3. PICK j \in DOMAIN C[x].deps : C[x].deps[j] = S[x].deps[i]
    BY <2>2 DEF Fewer
  <2> DEFINE y == IF x = id THEN orig ELSE x
  <2>4. Descends(B, C, orig, id, x, y)
    BY <1>9, <2>1 DEF AllDescend
  <2>5. \E z \in {x, y} : \E h \in DOMAIN B[z].deps :
          \/ C[x].deps[j] = B[z].deps[h] /\ (z = x \/ B[z].deps[h][2] = "BEFORE")
          \/ z = x /\ B[z].deps[h][1] = orig /\ C[x].deps[j] = <<id, B[z].deps[h][2]>>
    BY <2>4 DEF Descends
  <2>6. PICK z \in {x, y} : \E h \in DOMAIN B[z].deps :
          \/ C[x].deps[j] = B[z].deps[h] /\ (z = x \/ B[z].deps[h][2] = "BEFORE")
          \/ z = x /\ B[z].deps[h][1] = orig /\ C[x].deps[j] = <<id, B[z].deps[h][2]>>
    BY <2>5
  <2>7. PICK h \in DOMAIN B[z].deps :
          \/ C[x].deps[j] = B[z].deps[h] /\ (z = x \/ B[z].deps[h][2] = "BEFORE")
          \/ z = x /\ B[z].deps[h][1] = orig /\ C[x].deps[j] = <<id, B[z].deps[h][2]>>
    BY <2>6
  <2> DEFINE l == B[z].deps[h]
  <2>8. z = x \/ (x = id /\ z = orig)
    BY <2>6
  <2>9. TakenLink(orig, id, x, S[x].deps[i], z, l)
    BY <2>3, <2>7, <2>8 DEF TakenLink
  <2>10. z \in DOMAIN B /\ z \in DOMAIN A /\ Fewer(A[z], B[z])
    BY <1>5, <1>6, <2>1, <2>8
  <2>11. PICK g \in DOMAIN A[z].deps : A[z].deps[g] = l
    BY <2>10 DEF Fewer
  <2>12. \/ z \in w.before /\ A[z].deps[g] = <<id, "BEFORE">>
         \/ z = id /\ \E e \in DOMAIN w.f.depends : A[z].deps[g] = w.f.depends[e]
         \/ z \in DOMAIN R /\ \E e \in DOMAIN R[z].deps : A[z].deps[g] = R[z].deps[e]
    BY <1>1, <2>10 DEF AddsLinks
  <2>13. AddedLink(R, id, w.f.depends, w.before, z, l)
    BY <2>11, <2>12 DEF AddedLink
  <2> HIDE DEF l
  <2> QED BY <2>9, <2>13
<1>23. TakesLinks(R, S, orig, id, w.f.depends, w.before)
  BY <1>22 DEF TakesLinks
<1> QED BY <1>0, <1>3, <1>14, <1>15, <1>16, <1>18, <1>19, <1>20, <1>21, <1>23 DEF Replaces

----------------------------------------------------------------------------
(* The links of a record are replaced *)

LEMMA OnlyBeforeLinks ==
    ASSUME NEW T, NEW q \in Seq(T)
    PROVE  /\ OnlyBefore(q) \in Seq(T)
           /\ \A i \in DOMAIN OnlyBefore(q) : OnlyBefore(q)[i][2] = "BEFORE" /\ \E j \in DOMAIN q : q[j] = OnlyBefore(q)[i]
<1> DEFINE X == {l \in ToSet(q) : l[2] # "BEFORE"}
<1>1. \A j \in DOMAIN q : q[j] \in ToSet(q)
  BY DEF ToSet
<1>2. \A j \in DOMAIN q : q[j] \notin X => q[j][2] = "BEFORE"
  BY <1>1
<1>3. OnlyBefore(q) = Without(q, X)
  BY DEF OnlyBefore
<1> HIDE DEF X
<1>4. /\ Without(q, X) \in Seq(T)
      /\ \A i \in DOMAIN Without(q, X) : \E j \in DOMAIN q : q[j] = Without(q, X)[i] /\ q[j] \notin X
  BY WithoutLinks
<1> QED BY <1>2, <1>3, <1>4

LEMMA ConcatLinks ==
    ASSUME NEW T, NEW u \in Seq(T), NEW v \in Seq(T)
    PROVE  /\ u \o v \in Seq(T)
           /\ \A i \in DOMAIN (u \o v) : (\E j \in DOMAIN u : (u \o v)[i] = u[j]) \/ \E j \in DOMAIN v : (u \o v)[i] = v[j]
<1>2. u \o v \in Seq(T) /\ Len(u \o v) = Len(u) + Len(v)
      /\ \A i \in 1 .. Len(u) + Len(v) : (u \o v)[i] = IF i <= Len(u) THEN u[i] ELSE v[i - Len(u)]
  BY ConcatProperties
<1>3. \A i \in 1 .. Len(u) + Len(v) : IF i <= Len(u) THEN i \in DOMAIN u ELSE i - Len(u) \in DOMAIN v
  OBVIOUS
<1>4. DOMAIN (u \o v) = 1 .. Len(u) + Len(v)
  BY <1>2
<1> QED BY <1>2, <1>3, <1>4

\* The record r has the links ls, and the "before" links that it had; the records of B have one to it.
GivesLinks(R, S, r, ls, B) ==
    \A x \in DOMAIN S : \A i \in DOMAIN S[x].deps :
      \/ x \in B /\ S[x].deps[i] = <<r, "BEFORE">>
      \/ x = r /\ \E j \in DOMAIN ls : S[x].deps[i] = ls[j]
      \/ (x # r \/ S[x].deps[i][2] = "BEFORE") /\ \E j \in DOMAIN R[x].deps : S[x].deps[i] = R[x].deps[j]

LEMMA ReplaceLinksSound ==
    ASSUME NEW N, NEW w, Sound(w.R, N), FrameOK(w.f, N), w.before \in SUBSET Ids(N),
           NEW r \in DOMAIN w.R, w.R[r].type # "placeholder",
           w.R[r].state = "STARTED" => \A i \in DOMAIN w.f.depends : Satisfied(w.R, w.f.depends[i])
    PROVE  /\ Sound(ReplaceLinks(w, r), N) /\ Relinks(w.R, ReplaceLinks(w, r))
           /\ GivesLinks(w.R, ReplaceLinks(w, r), r, w.f.depends, w.before)
<1> DEFINE R == w.R
           q == R[r].deps
           W == {l[1] : l \in {l \in R[r].dependents : l[2] = "BEFORE"}}
           U == UnlinkFrom(R, r, NoBefore(q))
           C == RmDeps(U, W, r, "BEFORE")
           more(x) == [C[x] EXCEPT !.deps = <<<<r, "BEFORE">>>> \o C[x].deps]
           X == [x \in DOMAIN C |-> IF x # r /\ x \in w.before THEN more(x) ELSE C[x]]
           B == {l \in C[r].dependents : l[2] # "BEFORE"} \cup {<<b, "BEFORE">> : b \in w.before}
           d == w.f.depends \o OnlyBefore(q)
           a == WithLinks(C[r], d, B)
           P == Put(X, r, a)
<1>1. r \in Ids(N) /\ q \in Seq(Links(N)) /\ Typed(R, N)
  BY RecFields DEF Sound, Typed
<1>2. Shrinks(R, U, N) /\ DOMAIN U = DOMAIN R
  BY <1>1, UnlinkFromShrinks
<1>3. ReplaceLinks(w, r) = LinkTo([x \in DOMAIN C |-> IF x = r THEN a ELSE IF x \in w.before THEN more(x) ELSE C[x]], r, w.f.depends)
  BY Zenon DEF ReplaceLinks
<1> HIDE DEF U, W
<1>4. Shrinks(U, C, N) /\ DOMAIN C = DOMAIN R
  BY <1>2, RmDepsShrinks DEF Shrinks
<1> HIDE DEF C
<1>5. Shrinks(R, C, N)
  BY <1>2, <1>4, ShrinksTwice
<1>6. Sound(C, N) /\ \A x \in DOMAIN C : Same(R[x], C[x])
  BY <1>5, ShrinksSound DEF Shrinks, Shrunk, Fewer
<1>7. \A x \in DOMAIN C : C[x] \in Rec(N) /\ C[x].deps \in Seq(Links(N)) /\ C[x].dependents \in SUBSET Links(N)
  BY <1>6, RecFields DEF Sound, Typed
<1>8. w.f.depends \in Seq(Links(N)) /\ \A i \in DOMAIN w.f.depends : w.f.depends[i][2] # "BEFORE"
  BY FrameFields DEF FrameOK
<1>9. <<r, "BEFORE">> \in Links(N) /\ <<<<r, "BEFORE">>>> \in Seq(Links(N))
  BY <1>1 DEF Links, Kinds
<1>10. ASSUME NEW x \in DOMAIN C
       PROVE  /\ more(x) \in Rec(N) /\ Same(C[x], more(x)) /\ more(x).dependents = C[x].dependents
              /\ \A i \in DOMAIN more(x).deps : more(x).deps[i] = <<r, "BEFORE">> \/ \E j \in DOMAIN C[x].deps : C[x].deps[j] = more(x).deps[i]
  <2> DEFINE u == <<<<r, "BEFORE">>>>
             v == C[x].deps
             b == C[x]
             e == u \o v
  <2>1. u \in Seq(Links(N)) /\ v \in Seq(Links(N)) /\ b \in Rec(N) /\ \A i \in DOMAIN u : u[i] = <<r, "BEFORE">>
    BY <1>7, <1>9
  <2>2. more(x) = [b EXCEPT !.deps = e]
    OBVIOUS
  <2> HIDE DEF u, v, b
  <2>3. e \in Seq(Links(N)) /\ \A i \in DOMAIN e : (\E j \in DOMAIN u : e[i] = u[j]) \/ \E j \in DOMAIN v : e[i] = v[j]
    BY <2>1, ConcatLinks
  <2> HIDE DEF e
  <2>4. /\ [b EXCEPT !.deps = e] \in Rec(N) /\ Same(b, [b EXCEPT !.deps = e])
        /\ [b EXCEPT !.deps = e].deps = e /\ [b EXCEPT !.deps = e].dependents = b.dependents
    BY <2>1, <2>3, SetDeps
  <2>5. \A i \in DOMAIN e : e[i] = <<r, "BEFORE">> \/ \E j \in DOMAIN v : v[j] = e[i]
    BY <2>1, <2>3
  <2> QED BY <2>2, <2>4, <2>5 DEF b, v
<1> HIDE DEF more
<1>11. /\ DOMAIN X = DOMAIN C /\ X = [x \in DOMAIN X |-> X[x]]
       /\ \A x \in DOMAIN C : X[x] = IF x # r /\ x \in w.before THEN more(x) ELSE C[x]
  OBVIOUS
<1>12. P = [x \in DOMAIN C |-> IF x = r THEN a ELSE IF x \in w.before THEN more(x) ELSE C[x]]
  <2> HIDE DEF a
  <2> QED BY <1>4 DEF Put
<1> HIDE DEF X
<1>13. Typed(X, N) /\ Relinks(C, X)
  <2>1. \A x \in DOMAIN C : X[x] \in Rec(N) /\ Same(C[x], X[x])
    BY <1>7, <1>10, <1>11 DEF Same
  <2>2. DOMAIN X \subseteq Ids(N)
    BY <1>6, <1>11 DEF Sound, Typed
  <2> QED BY <1>11, <2>1, <2>2 DEF Typed, Relinks
<1>14. MoreBefores(C, X, r)
  <2>1. \A x \in DOMAIN C : X[x].dependents \subseteq C[x].dependents
    BY <1>10, <1>11
  <2>2. \A x \in DOMAIN C : \A i \in DOMAIN X[x].deps :
          X[x].deps[i] = <<r, "BEFORE">> \/ \E j \in DOMAIN C[x].deps : C[x].deps[j] = X[x].deps[i]
    BY <1>10, <1>11
  <2> QED BY <1>13, <2>1, <2>2 DEF MoreBefores
<1>15. r \in DOMAIN C /\ C[r].type # "placeholder"
  BY <1>4, <1>6 DEF Same
<1>16. Sound(X, N)
  BY <1>6, <1>13, <1>14, <1>15, MoreBeforesSound
<1>17. B \in SUBSET Links(N)
  BY <1>7, <1>15 DEF Links, Kinds
<1>18. /\ OnlyBefore(q) \in Seq(Links(N))
       /\ \A i \in DOMAIN OnlyBefore(q) : OnlyBefore(q)[i][2] = "BEFORE" /\ \E j \in DOMAIN q : q[j] = OnlyBefore(q)[i]
  <2> HIDE DEF q
  <2> QED BY <1>1, OnlyBeforeLinks
<1>19. /\ d \in Seq(Links(N))
       /\ \A i \in DOMAIN d : (\E j \in DOMAIN w.f.depends : d[i] = w.f.depends[j]) \/ \E j \in DOMAIN OnlyBefore(q) : d[i] = OnlyBefore(q)[j]
  <2> DEFINE u == w.f.depends
             v == OnlyBefore(q)
  <2>1. u \in Seq(Links(N)) /\ v \in Seq(Links(N))
    BY <1>8, <1>18
  <2> HIDE DEF u, v
  <2>2. u \o v \in Seq(Links(N)) /\ \A i \in DOMAIN (u \o v) : (\E j \in DOMAIN u : (u \o v)[i] = u[j]) \/ \E j \in DOMAIN v : (u \o v)[i] = v[j]
    BY <2>1, ConcatLinks
  <2> QED BY <2>2 DEF u, v
<1> HIDE DEF d, B
<1>20. a \in Rec(N) /\ Same(C[r], a) /\ a.deps = d
  BY <1>7, <1>15, <1>17, <1>19, SetLinks
<1> HIDE DEF a
<1>21. \A x \in DOMAIN R : x \in DOMAIN X /\ X[x].type = R[x].type /\ X[x].state = R[x].state
  BY <1>4, <1>6, <1>13 DEF Relinks, Same
<1>22. X[r] = C[r]
  BY <1>11, <1>15
<1>23. ASSUME NEW i \in DOMAIN d
       PROVE  BeforeLoaded(X, d[i]) /\ (a.state = "STARTED" => Satisfied(X, d[i]))
  <2>1. CASE \E j \in DOMAIN w.f.depends : d[i] = w.f.depends[j]
    <3>1. PICK j \in DOMAIN w.f.depends : d[i] = w.f.depends[j]
      BY <2>1
    <3>2. BeforeLoaded(X, d[i])
      BY <1>8, <3>1 DEF BeforeLoaded
    <3>3. a.state = "STARTED" => Satisfied(R, d[i])
      BY <1>6, <1>15, <1>20, <3>1 DEF Same
    <3>4. DOMAIN X = DOMAIN R
      BY <1>4, <1>11
    <3> QED BY <1>21, <3>2, <3>3, <3>4 DEF Satisfied
  <2>2. CASE \E j \in DOMAIN OnlyBefore(q) : d[i] = OnlyBefore(q)[j]
    <3>1. d[i][2] = "BEFORE" /\ \E j \in DOMAIN q : q[j] = d[i]
      BY <1>18, <2>2
    <3>2. BeforeLoaded(R, d[i])
      BY <3>1 DEF Sound, Linked
    <3>3. DOMAIN X = DOMAIN R
      BY <1>4, <1>11
    <3> QED BY <1>21, <3>1, <3>2, <3>3 DEF BeforeLoaded, Satisfied
  <2> QED BY <1>19, <2>1, <2>2
<1>24. Replaceable(X, r, a)
  BY <1>15, <1>20, <1>22, <1>23 DEF Replaceable, Same
<1>25. r \in DOMAIN X
  BY <1>11, <1>15
<1>26. Sound(P, N) /\ Relinks(X, P)
  BY <1>16, <1>20, <1>24, <1>25, ReplaceLoaded
<1>30. P[r] = a /\ \A x \in DOMAIN C : x # r => P[x] = X[x]
  BY <1>11, <1>15 DEF Put
<1> HIDE DEF P
<1>27. Sound(LinkTo(P, r, w.f.depends), N) /\ Relinks(P, LinkTo(P, r, w.f.depends)) /\ SameDeps(P, LinkTo(P, r, w.f.depends))
  BY <1>1, <1>8, <1>26, LinkToSound
<1>28. Relinks(R, C)
  BY <1>4, <1>6 DEF Relinks
<1>29. Relinks(R, LinkTo(P, r, w.f.depends))
  BY <1>13, <1>26, <1>27, <1>28, RelinksTwice
<1> DEFINE S == LinkTo(P, r, w.f.depends)
<1>31. DOMAIN S = DOMAIN C /\ \A x \in DOMAIN C : S[x].deps = P[x].deps
  BY <1>13, <1>26, <1>27 DEF Relinks, SameDeps
<1> HIDE DEF S
<1>32. ASSUME NEW x \in DOMAIN S, NEW i \in DOMAIN S[x].deps
       PROVE  \/ x \in w.before /\ S[x].deps[i] = <<r, "BEFORE">>
              \/ x = r /\ \E j \in DOMAIN w.f.depends : S[x].deps[i] = w.f.depends[j]
              \/ (x # r \/ S[x].deps[i][2] = "BEFORE") /\ \E j \in DOMAIN R[x].deps : S[x].deps[i] = R[x].deps[j]
  <2>1. CASE x = r
    <3>1. S[x].deps = d /\ R[x].deps = q
      BY <1>20, <1>30, <1>31, <2>1
    <3> QED BY <1>18, <1>19, <2>1, <3>1
  <2>2. CASE x # r
    <3>1. x \in DOMAIN C /\ S[x].deps = X[x].deps
      BY <1>30, <1>31, <2>2
    <3>2. (x \in w.before /\ S[x].deps[i] = <<r, "BEFORE">>) \/ \E j \in DOMAIN C[x].deps : C[x].deps[j] = S[x].deps[i]
      BY <1>10, <1>11, <2>2, <3>1
    <3>3. Fewer(R[x], C[x])
      BY <1>5, <3>1 DEF Shrinks, Shrunk
    <3> QED BY <2>2, <3>2, <3>3 DEF Fewer
  <2> QED BY <2>1, <2>2
<1>33. GivesLinks(R, S, r, w.f.depends, w.before)
  BY <1>32 DEF GivesLinks
<1> QED BY <1>3, <1>12, <1>27, <1>29, <1>33 DEF S

LEMMA GivesFewerLinks ==
    ASSUME NEW R, NEW S, NEW r, NEW ls, NEW B, GivesLinks(R, S, r, ls, B), NEW T, Shrunk(S, T)
    PROVE  GivesLinks(R, T, r, ls, B)
<1> SUFFICES ASSUME NEW x \in DOMAIN T, NEW i \in DOMAIN T[x].deps
             PROVE  \/ x \in B /\ T[x].deps[i] = <<r, "BEFORE">>
                    \/ x = r /\ \E j \in DOMAIN ls : T[x].deps[i] = ls[j]
                    \/ (x # r \/ T[x].deps[i][2] = "BEFORE") /\ \E j \in DOMAIN R[x].deps : T[x].deps[i] = R[x].deps[j]
  BY DEF GivesLinks
<1>1. x \in DOMAIN S /\ \E j \in DOMAIN S[x].deps : S[x].deps[j] = T[x].deps[i]
  BY DEF Shrunk, Fewer
<1>2. PICK j \in DOMAIN S[x].deps : S[x].deps[j] = T[x].deps[i]
  BY <1>1
<1>3. \/ x \in B /\ S[x].deps[j] = <<r, "BEFORE">>
      \/ x = r /\ \E h \in DOMAIN ls : S[x].deps[j] = ls[h]
      \/ (x # r \/ S[x].deps[j][2] = "BEFORE") /\ \E h \in DOMAIN R[x].deps : S[x].deps[j] = R[x].deps[h]
  BY <1>1 DEF GivesLinks
<1> QED BY <1>2, <1>3

LEMMA SetOutput ==
    ASSUME NEW N, NEW a \in Rec(N), NEW c \in BOOLEAN, NEW p \in BOOLEAN, NEW b, b = [a EXCEPT !.console = c, !.pipe = p]
    PROVE  b \in Rec(N) /\ Fewer(a, b)
<1>1. b \in Rec(N)
  BY Zenon DEF Rec
<1>2. Same(a, b) /\ b.deps = a.deps /\ b.dependents = a.dependents
  BY <1>1 DEF Rec, Same
<1> QED BY <1>1, <1>2 DEF Fewer

Updated(w, r) == [ReplaceLinks(w, r) EXCEPT ![r] = [@ EXCEPT !.console = w.f.console, !.pipe = w.f.pipe]]

LEMMA UpdatedSound ==
    ASSUME NEW N, NEW w, Sound(w.R, N), FrameOK(w.f, N), w.before \in SUBSET Ids(N),
           NEW r \in DOMAIN w.R, w.R[r].type # "placeholder",
           w.R[r].state = "STARTED" => \A i \in DOMAIN w.f.depends : Satisfied(w.R, w.f.depends[i])
    PROVE  /\ Sound(Updated(w, r), N) /\ Relinks(w.R, Updated(w, r))
           /\ GivesLinks(w.R, Updated(w, r), r, w.f.depends, w.before)
<1> DEFINE R == ReplaceLinks(w, r)
           b == [R[r] EXCEPT !.console = w.f.console, !.pipe = w.f.pipe]
<1>1. Sound(R, N) /\ Relinks(w.R, R) /\ GivesLinks(w.R, R, r, w.f.depends, w.before)
  BY ReplaceLinksSound
<1>2. Updated(w, r) = [R EXCEPT ![r] = b]
  BY DEF Updated
<1>3. w.f.console \in BOOLEAN /\ w.f.pipe \in BOOLEAN
  BY FrameFields DEF FrameOK
<1> HIDE DEF R
<1>4. r \in DOMAIN R /\ R[r] \in Rec(N) /\ Typed(R, N)
  BY <1>1 DEF Relinks, Sound, Typed
<1>5. b \in Rec(N) /\ Fewer(R[r], b)
  BY <1>3, <1>4, SetOutput
<1> HIDE DEF b
<1>6. Updated(w, r) = Put(R, r, b)
  BY <1>2, <1>4 DEF Put, Typed
<1>7. Shrinks(R, Put(R, r, b), N) /\ DOMAIN Put(R, r, b) = DOMAIN R
  BY <1>4, <1>5, PutFewer
<1>8. Sound(Put(R, r, b), N)
  BY <1>1, <1>7, ShrinksSound
<1>9. Relinks(R, Put(R, r, b))
  BY <1>7 DEF Relinks, Shrinks, Shrunk, Fewer
<1>10. GivesLinks(w.R, Put(R, r, b), r, w.f.depends, w.before)
  BY <1>1, <1>7, GivesFewerLinks DEF Shrinks
<1> QED BY <1>1, <1>6, <1>8, <1>9, <1>10, RelinksTwice

\* The consumer of the output, and what it consumes from.
Marked(R, r, of) ==
    [x \in DOMAIN R |-> IF x = r THEN [R[x] EXCEPT !.consumer_for = of]
                        ELSE IF x = of THEN [R[x] EXCEPT !.log_consumer = r] ELSE R[x]]

LEMMA MarkedSound ==
    ASSUME NEW N, NEW R, Sound(R, N), NEW r \in IdsOrNone(N), NEW of \in IdsOrNone(N)
    PROVE  Sound(Marked(R, r, of), N) /\ Relinks(R, Marked(R, r, of)) /\ Shrunk(R, Marked(R, r, of))
<1> DEFINE S == Marked(R, r, of)
<1>1. /\ DOMAIN S = DOMAIN R /\ S = [x \in DOMAIN S |-> S[x]]
      /\ \A x \in DOMAIN R : S[x] = [R[x] EXCEPT !.consumer_for = of] \/ S[x] = [R[x] EXCEPT !.log_consumer = r] \/ S[x] = R[x]
  BY DEF Marked
<1> HIDE DEF S
<1>2. \A x \in DOMAIN R : R[x] \in Rec(N)
  BY DEF Sound, Typed
<1>3. ASSUME NEW x \in DOMAIN R PROVE S[x] \in Rec(N) /\ Fewer(R[x], S[x])
  <2>1. CASE S[x] = [R[x] EXCEPT !.consumer_for = of]
    BY <1>2, <2>1, IsFewerConsumers
  <2>2. CASE S[x] = [R[x] EXCEPT !.log_consumer = r]
    BY <1>2, <2>2, IsFewerConsumers
  <2>3. CASE S[x] = R[x]
    BY <1>2, <2>3, FewerItself
  <2> QED BY <1>1, <2>1, <2>2, <2>3
<1>4. Shrinks(R, S, N)
  BY <1>1, <1>3, ShrinksEach DEF Sound
<1>5. Sound(S, N)
  BY <1>4, ShrinksSound
<1>6. Relinks(R, S)
  BY <1>1, <1>3 DEF Relinks, Fewer
<1> QED BY <1>4, <1>5, <1>6 DEF S, Shrinks
----------------------------------------------------------------------------
(* unload_service() *)

LEMMA NoBeforeLinks ==
    ASSUME NEW T, NEW q \in Seq(T)
    PROVE  /\ NoBefore(q) \in Seq(T)
           /\ \A i \in DOMAIN NoBefore(q) : NoBefore(q)[i][2] # "BEFORE" /\ \E j \in DOMAIN q : q[j] = NoBefore(q)[i]
<1> DEFINE X == {l \in ToSet(q) : l[2] = "BEFORE"}
<1>1. \A j \in DOMAIN q : q[j] \in ToSet(q)
  BY DEF ToSet
<1>2. \A j \in DOMAIN q : q[j] \notin X => q[j][2] # "BEFORE"
  BY <1>1
<1>3. NoBefore(q) = Without(q, X)
  BY DEF NoBefore
<1> HIDE DEF X
<1>4. /\ Without(q, X) \in Seq(T)
      /\ \A i \in DOMAIN Without(q, X) : \E j \in DOMAIN q : q[j] = Without(q, X)[i] /\ q[j] \notin X
  BY WithoutLinks
<1> QED BY <1>2, <1>3, <1>4

\* Links that are only an ordering are moved; those of a placeholder are not.
Reorders(R, S) ==
    \A x \in DOMAIN R :
      /\ \A i \in DOMAIN S[x].deps :
           S[x].deps[i][2] = "AFTER" \/ \E j \in DOMAIN R[x].deps : R[x].deps[j] = S[x].deps[i]
      /\ R[x].type = "placeholder" =>
           /\ S[x].dependents \subseteq R[x].dependents
           /\ \A i \in DOMAIN S[x].deps : \E j \in DOMAIN R[x].deps : R[x].deps[j] = S[x].deps[i]

LEMMA ReordersSound ==
    ASSUME NEW N, NEW R, Sound(R, N), NEW S, Typed(S, N), Relinks(R, S), Reorders(R, S)
    PROVE  Sound(S, N)
<1>1. DOMAIN S = DOMAIN R /\ \A x \in DOMAIN R : S[x].name = R[x].name /\ S[x].type = R[x].type
                                                 /\ S[x].loading = R[x].loading /\ S[x].state = R[x].state
  BY DEF Relinks, Same
<1>2. Named(S)
  BY <1>1 DEF Sound, Named
<1>3. ASSUME NEW x \in DOMAIN R, NEW i \in DOMAIN S[x].deps
      PROVE  BeforeLoaded(S, S[x].deps[i]) /\ (R[x].state = "STARTED" => Satisfied(S, S[x].deps[i]))
  <2>1. CASE S[x].deps[i][2] = "AFTER"
    BY <2>1 DEF BeforeLoaded, Satisfied
  <2>2. CASE \E j \in DOMAIN R[x].deps : R[x].deps[j] = S[x].deps[i]
    <3>1. BeforeLoaded(R, S[x].deps[i]) /\ (R[x].state = "STARTED" => Satisfied(R, S[x].deps[i]))
      BY <2>2 DEF Sound, Linked, Running
    <3> QED BY <1>1, <3>1 DEF BeforeLoaded, Satisfied
  <2> QED BY <2>1, <2>2 DEF Reorders
<1>4. ASSUME NEW x \in DOMAIN R, R[x].type = "placeholder" PROVE Bare(S, x)
  <2>1. Bare(R, x)
    BY <1>4 DEF Sound, Linked
  <2> QED BY <1>1, <1>4, <2>1 DEF Bare, Reorders
<1>5. Linked(S)
  BY <1>1, <1>3, <1>4 DEF Linked
<1>6. Running(S)
  BY <1>1, <1>3 DEF Running
<1> QED BY <1>2, <1>5, <1>6 DEF Sound

\* The links that lead to r by "after", and those of r by "before", go over to id.
PassesOn(R, S, r, id) ==
    \A x \in DOMAIN S : \A i \in DOMAIN S[x].deps :
      \/ x \in DOMAIN R /\ \E j \in DOMAIN R[x].deps : S[x].deps[i] = R[x].deps[j]
      \/ x \in DOMAIN R /\ S[x].deps[i] = <<id, "AFTER">> /\ \E j \in DOMAIN R[x].deps : R[x].deps[j] = <<r, "AFTER">>
      \/ x = id /\ S[x].deps[i][2] = "BEFORE" /\ \E j \in DOMAIN R[r].deps : S[x].deps[i] = R[r].deps[j]

LEMMA TakeOverSound ==
    ASSUME NEW N, NEW R, Sound(R, N), NEW r \in DOMAIN R, NEW id \in Ids(N), id \notin Mentioned(R), id[1] = r[1],
           NEW before \in Seq(Links(N)), NEW after \in SUBSET Links(N),
           \A i \in DOMAIN before : before[i][2] = "BEFORE" /\ \E j \in DOMAIN R[r].deps : R[r].deps[j] = before[i],
           \A l \in after : l[2] # "BEFORE"
    PROVE  LET S == TakeOver(R, r, id, before, after)
           IN  Sound(S, N) /\ AddsWith(R, S, id) /\ ~S[id].loading /\ PassesOn(R, S, r, id)
<1> DEFINE n == NewRecord(R[r].name, "placeholder", FALSE)
           a == WithLinks(n, before, after)
           P == Put(R, id, a)
           d(x) == [i \in DOMAIN R[x].deps |-> IF R[x].deps[i] = <<r, "AFTER">> THEN <<id, "AFTER">> ELSE R[x].deps[i]]
           D(x) == IF x \in Targets(before) THEN (R[x].dependents \ {<<r, "BEFORE">>}) \cup {<<id, "BEFORE">>}
                   ELSE R[x].dependents
           S == TakeOver(R, r, id, before, after)
<1>1. R[r].name \in Names /\ R[r].name = r[1] /\ R[r] \in Rec(N)
  BY RecFields DEF Sound, Typed, Named
<1>2. n \in Rec(N) /\ n.name = r[1] /\ n.type = "placeholder" /\ ~n.loading /\ n.state = "STOPPED"
  <2>1. <<>> \in Seq(Links(N)) /\ {} \in SUBSET Links(N) /\ None \in IdsOrNone(N)
    BY DEF IdsOrNone
  <2>2. "placeholder" \in Types /\ "STOPPED" \in States
    BY DEF Types, States
  <2> QED BY <1>1, <2>1, <2>2, Zenon DEF NewRecord, Rec
<1> HIDE DEF n
<1>3. a \in Rec(N) /\ Same(n, a) /\ a.deps = before /\ a.dependents = after
  BY <1>2, SetLinks
<1> HIDE DEF a
<1>4. ASSUME NEW i \in DOMAIN before PROVE BeforeLoaded(R, before[i]) /\ before[i][1] # id
  <2>1. PICK j \in DOMAIN R[r].deps : R[r].deps[j] = before[i]
    OBVIOUS
  <2> QED BY <2>1, NotMentioned DEF Sound, Linked
<1>5. Addable(R, id, a, N)
  BY <1>2, <1>3, <1>4 DEF Addable, Same
<1>6. Sound(P, N) /\ Adds(R, P, id) /\ P[id] = a
  BY <1>5, PutNew
<1>7. id \notin DOMAIN R
  BY NotMentioned
<1>8. /\ DOMAIN S = DOMAIN R \cup {id} /\ S = [x \in DOMAIN S |-> S[x]] /\ S[id] = a
      /\ \A x \in DOMAIN R : S[x] = WithLinks(R[x], d(x), D(x))
  BY <1>7, Zenon DEF TakeOver, Put, a, n
<1> HIDE DEF S, P
<1>9. DOMAIN P = DOMAIN S /\ \A x \in DOMAIN R : P[x] = R[x]
  BY <1>6, <1>8 DEF Adds
<1>10. <<id, "AFTER">> \in Links(N) /\ <<id, "BEFORE">> \in Links(N)
  BY DEF Links, Kinds
<1>11. ASSUME NEW x \in DOMAIN R
       PROVE  d(x) \in Seq(Links(N)) /\ DOMAIN d(x) = DOMAIN R[x].deps /\ D(x) \in SUBSET Links(N)
              /\ \A i \in DOMAIN d(x) : d(x)[i] = IF R[x].deps[i] = <<r, "AFTER">> THEN <<id, "AFTER">> ELSE R[x].deps[i]
  <2> DEFINE q == R[x].deps
             e == [i \in DOMAIN q |-> IF q[i] = <<r, "AFTER">> THEN <<id, "AFTER">> ELSE q[i]]
  <2>1. q \in Seq(Links(N)) /\ R[x].dependents \in SUBSET Links(N)
    BY RecFields DEF Sound, Typed
  <2>2. D(x) \in SUBSET Links(N)
    BY <1>10, <2>1
  <2>3. e = d(x)
    OBVIOUS
  <2> HIDE DEF q
  <2>4. DOMAIN q = 1 .. Len(q) /\ Len(q) \in Nat /\ \A i \in DOMAIN q : q[i] \in Links(N)
    BY <2>1
  <2>5. e \in [1 .. Len(q) -> Links(N)] /\ DOMAIN e = DOMAIN q
        /\ \A i \in DOMAIN e : e[i] = IF q[i] = <<r, "AFTER">> THEN <<id, "AFTER">> ELSE q[i]
    BY <1>10, <2>4
  <2> HIDE DEF e
  <2>6. e \in Seq(Links(N))
    BY <2>4, <2>5
  <2> QED BY <2>2, <2>3, <2>5, <2>6 DEF q
<1> HIDE DEF d
<1>12. ASSUME NEW x \in DOMAIN R, R[x].type = "placeholder" PROVE D(x) = R[x].dependents
  <2>1. SUFFICES ASSUME x \in Targets(before) PROVE FALSE
    OBVIOUS
  <2>2. PICK i \in DOMAIN before : x = before[i][1]
    BY <2>1 DEF Targets
  <2> QED BY <1>4, <1>12, <2>2 DEF BeforeLoaded
<1> HIDE DEF D
<1>13. ASSUME NEW x \in DOMAIN R
       PROVE  S[x] \in Rec(N) /\ Same(R[x], S[x]) /\ S[x].deps = d(x) /\ S[x].dependents = D(x)
  <2>1. R[x] \in Rec(N)
    BY DEF Sound, Typed
  <2> QED BY <1>8, <1>11, <2>1, SetLinks
<1>14. Typed(S, N)
  <2>1. \A x \in DOMAIN S : S[x] \in Rec(N)
    BY <1>3, <1>8, <1>13
  <2>2. DOMAIN S \subseteq Ids(N)
    BY <1>8 DEF Sound, Typed
  <2> QED BY <1>8, <2>1, <2>2 DEF Typed
<1>15. Relinks(P, S)
  BY <1>6, <1>8, <1>9, <1>13 DEF Relinks, Same
<1>16. Reorders(P, S)
  <2> SUFFICES ASSUME NEW x \in DOMAIN P
               PROVE  /\ \A i \in DOMAIN S[x].deps :
                           S[x].deps[i][2] = "AFTER" \/ \E j \in DOMAIN P[x].deps : P[x].deps[j] = S[x].deps[i]
                      /\ P[x].type = "placeholder" =>
                           /\ S[x].dependents \subseteq P[x].dependents
                           /\ \A i \in DOMAIN S[x].deps : \E j \in DOMAIN P[x].deps : P[x].deps[j] = S[x].deps[i]
    BY DEF Reorders
  <2>1. CASE x = id
    BY <1>6, <1>8, <2>1
  <2>2. CASE x # id
    <3>1. x \in DOMAIN R /\ P[x] = R[x] /\ S[x].deps = d(x) /\ S[x].dependents = D(x)
      BY <1>8, <1>9, <1>13, <2>2
    <3>2. ASSUME NEW i \in DOMAIN d(x)
          PROVE  d(x)[i] = <<id, "AFTER">> \/ \E j \in DOMAIN R[x].deps : R[x].deps[j] = d(x)[i]
      BY <1>11, <3>1
    <3>3. ASSUME R[x].type = "placeholder", NEW i \in DOMAIN d(x)
          PROVE  \E j \in DOMAIN R[x].deps : R[x].deps[j] = d(x)[i]
      <4>1. Bare(R, x) /\ i \in DOMAIN R[x].deps
        BY <1>11, <3>1, <3>3 DEF Sound, Linked
      <4>2. R[x].deps[i][2] = "BEFORE"
        BY <4>1 DEF Bare
      <4>3. R[x].deps[i] # <<r, "AFTER">>
        BY <4>2
      <4> QED BY <1>11, <3>1, <3>3, <4>1, <4>3
    <3> QED BY <1>12, <3>1, <3>2, <3>3
  <2> QED BY <2>1, <2>2
<1>17. Sound(S, N)
  BY <1>6, <1>14, <1>15, <1>16, ReordersSound
<1>18. AddsWith(R, S, id) /\ ~S[id].loading
  BY <1>2, <1>3, <1>7, <1>8, <1>13 DEF AddsWith, Same
<1>19. ASSUME NEW x \in DOMAIN S, NEW i \in DOMAIN S[x].deps
       PROVE  \/ x \in DOMAIN R /\ \E j \in DOMAIN R[x].deps : S[x].deps[i] = R[x].deps[j]
              \/ x \in DOMAIN R /\ S[x].deps[i] = <<id, "AFTER">> /\ \E j \in DOMAIN R[x].deps : R[x].deps[j] = <<r, "AFTER">>
              \/ x = id /\ S[x].deps[i][2] = "BEFORE" /\ \E j \in DOMAIN R[r].deps : S[x].deps[i] = R[r].deps[j]
  <2>1. CASE x = id
    <3>1. S[x].deps = before
      BY <1>3, <1>8, <2>1
    <3> QED BY <2>1, <3>1
  <2>2. CASE x # id
    <3>1. x \in DOMAIN R /\ S[x].deps = d(x) /\ i \in DOMAIN d(x)
      BY <1>8, <1>13, <2>2
    <3>2. i \in DOMAIN R[x].deps /\ d(x)[i] = IF R[x].deps[i] = <<r, "AFTER">> THEN <<id, "AFTER">> ELSE R[x].deps[i]
      BY <1>11, <3>1
    <3>3. CASE R[x].deps[i] = <<r, "AFTER">>
      BY <3>1, <3>2, <3>3
    <3>4. CASE R[x].deps[i] # <<r, "AFTER">>
      BY <3>1, <3>2, <3>4
    <3> QED BY <3>3, <3>4
  <2> QED BY <2>1, <2>2
<1>20. PassesOn(R, S, r, id)
  BY <1>19 DEF PassesOn
<1> QED BY <1>17, <1>18, <1>20 DEF S

LEMMA PassesOnFewer ==
    ASSUME NEW R, NEW S, NEW r, NEW id, PassesOn(R, S, r, id), NEW T, Shrunk(S, T)
    PROVE  PassesOn(R, T, r, id)
<1> SUFFICES ASSUME NEW x \in DOMAIN T, NEW i \in DOMAIN T[x].deps
             PROVE  \/ x \in DOMAIN R /\ \E j \in DOMAIN R[x].deps : T[x].deps[i] = R[x].deps[j]
                    \/ /\ x \in DOMAIN R /\ T[x].deps[i] = <<id, "AFTER">>
                       /\ \E j \in DOMAIN R[x].deps : R[x].deps[j] = <<r, "AFTER">>
                    \/ x = id /\ T[x].deps[i][2] = "BEFORE" /\ \E j \in DOMAIN R[r].deps : T[x].deps[i] = R[r].deps[j]
  BY DEF PassesOn
<1>1. x \in DOMAIN S /\ \E j \in DOMAIN S[x].deps : S[x].deps[j] = T[x].deps[i]
  BY DEF Shrunk, Fewer
<1>2. PICK j \in DOMAIN S[x].deps : S[x].deps[j] = T[x].deps[i]
  BY <1>1
<1>3. \/ x \in DOMAIN R /\ \E h \in DOMAIN R[x].deps : S[x].deps[j] = R[x].deps[h]
      \/ x \in DOMAIN R /\ S[x].deps[j] = <<id, "AFTER">> /\ \E h \in DOMAIN R[x].deps : R[x].deps[h] = <<r, "AFTER">>
      \/ x = id /\ S[x].deps[j][2] = "BEFORE" /\ \E h \in DOMAIN R[r].deps : S[x].deps[j] = R[r].deps[h]
  BY <1>1 DEF PassesOn
<1> QED BY <1>2, <1>3

LEMMA UnloadSound ==
    ASSUME NEW N \in Nat, NEW R, Sound(R, N), Unique(R), NEW r \in DOMAIN R, R[r].type # "placeholder",
           R[r].state = "STOPPED", \A x \in DOMAIN R : ~R[x].loading
    PROVE  LET S == unload_service(R, r)
           IN  /\ Sound(S, N + 1) /\ Unique(S) /\ (\A x \in DOMAIN S : ~S[x].loading)
               /\ \E id : id \notin Mentioned(R) /\ PassesOn(R, S, r, id)
<1> DEFINE M == N + 1
           after == {l \in R[r].dependents : l[2] = "AFTER"}
           before == OnlyBefore(R[r].deps)
           id == FreshId(R, R[r].name)
           bare == after = {} /\ before = <<>> /\ R[r].log_consumer = None
           made == IF bare THEN R ELSE TakeOver(R, r, id, before, after)
           D == made[r].dependents \ after
           a == WithLinks(made[r], NoBefore(R[r].deps), D)
           left == [made EXCEPT ![r] = a]
           S == Delete(prepare_for_unload(left, r), r)
<1>0. S = unload_service(R, r)
  BY Zenon DEF unload_service
<1>1. Sound(R, M) /\ M \in Nat
  BY SoundGrows
<1>2. R[r].name \in Names /\ R[r].name = r[1] /\ Typed(R, N)
  BY RecFields DEF Sound, Typed, Named
<1>3. id \in Ids(M) /\ id[1] = r[1] /\ id \notin Mentioned(R)
  BY <1>2, Fresh
<1> HIDE DEF M, id
<1>4. R[r].deps \in Seq(Links(M)) /\ R[r].dependents \in SUBSET Links(M)
  BY <1>1, RecFields DEF Sound, Typed
<1>5. /\ before \in Seq(Links(M))
      /\ \A i \in DOMAIN before : before[i][2] = "BEFORE" /\ \E j \in DOMAIN R[r].deps : R[r].deps[j] = before[i]
  <2> DEFINE q == R[r].deps
  <2> HIDE DEF q
  <2>1. /\ OnlyBefore(q) \in Seq(Links(M))
        /\ \A i \in DOMAIN OnlyBefore(q) : OnlyBefore(q)[i][2] = "BEFORE" /\ \E j \in DOMAIN q : q[j] = OnlyBefore(q)[i]
    BY <1>4, OnlyBeforeLinks DEF q
  <2> QED BY <2>1 DEF q
<1>6. after \in SUBSET Links(M) /\ \A l \in after : l[2] # "BEFORE"
  BY <1>4
<1> HIDE DEF before, after
<1>7. /\ Sound(made, M) /\ DOMAIN R \subseteq DOMAIN made /\ DOMAIN made \subseteq DOMAIN R \cup {id}
      /\ \A x \in DOMAIN made : ~made[x].loading
      /\ Same(R[r], made[r]) /\ PassesOn(R, made, r, id)
  <2>1. CASE bare
    BY <1>1, <2>1 DEF Same, PassesOn
  <2>2. CASE ~bare
    <3> DEFINE T == TakeOver(R, r, id, before, after)
    <3>1. Sound(T, M) /\ AddsWith(R, T, id) /\ ~T[id].loading /\ PassesOn(R, T, r, id)
      BY <1>1, <1>3, <1>5, <1>6, TakeOverSound
    <3>2. made = T
      BY <2>2
    <3> HIDE DEF T, made
    <3> QED BY <3>1, <3>2 DEF AddsWith, Same
  <2> QED BY <2>1, <2>2
<1> HIDE DEF made
<1>8. r \in DOMAIN made /\ made[r] \in Rec(M) /\ D \in SUBSET Links(M)
  BY <1>7, RecFields DEF Sound, Typed
<1>9. /\ NoBefore(R[r].deps) \in Seq(Links(M))
      /\ \A i \in DOMAIN NoBefore(R[r].deps) :
            NoBefore(R[r].deps)[i][2] # "BEFORE" /\ \E j \in DOMAIN R[r].deps : R[r].deps[j] = NoBefore(R[r].deps)[i]
  <2> DEFINE q == R[r].deps
  <2> HIDE DEF q
  <2>1. /\ NoBefore(q) \in Seq(Links(M))
        /\ \A i \in DOMAIN NoBefore(q) : NoBefore(q)[i][2] # "BEFORE" /\ \E j \in DOMAIN q : q[j] = NoBefore(q)[i]
    BY <1>4, NoBeforeLinks DEF q
  <2> QED BY <2>1 DEF q
<1> HIDE DEF D
<1>10. a \in Rec(M) /\ Same(made[r], a) /\ a.deps = NoBefore(R[r].deps)
  BY <1>8, <1>9, SetLinks
<1> HIDE DEF a
<1>11. Replaceable(made, r, a)
  BY <1>7, <1>9, <1>10 DEF Replaceable, Same, BeforeLoaded
<1>12. left = Put(made, r, a)
  BY <1>7, <1>8 DEF Put, Sound, Typed
<1> HIDE DEF left
<1>13. Sound(left, M) /\ Relinks(made, left)
  <2>1. Sound(Put(made, r, a), M) /\ Relinks(made, Put(made, r, a))
    BY <1>7, <1>8, <1>10, <1>11, ReplaceLoaded
  <2> QED BY <1>12, <2>1
<1>14. Shrinks(left, S, M) /\ r \notin DOMAIN S
  BY <1>8, <1>13, UnloadShrinks DEF Sound, Relinks
<1> HIDE DEF S
<1>15. Sound(S, M) /\ DOMAIN S \subseteq DOMAIN left /\ \A x \in DOMAIN S : S[x].loading = left[x].loading
  BY <1>13, <1>14, ShrinksSound DEF Shrinks, Shrunk, Fewer, Same
<1>16. DOMAIN left = DOMAIN made /\ \A x \in DOMAIN left : left[x].loading = made[x].loading
  BY <1>13 DEF Relinks, Same
<1>17. \A x \in DOMAIN S : ~S[x].loading
  BY <1>7, <1>15, <1>16
<1>18. Unique(S)
  <2> SUFFICES ASSUME NEW x \in DOMAIN S, NEW y \in DOMAIN S, x[1] = y[1]
               PROVE  x = y
    BY DEF Unique
  <2>1. DOMAIN S \subseteq DOMAIN R \cup {id}
    BY <1>7, <1>15, <1>16
  <2>2. ASSUME NEW z \in DOMAIN S, z # id PROVE z[1] # id[1]
    BY <1>3, <1>14, <2>1, <2>2 DEF Unique
  <2> QED BY <2>1, <2>2 DEF Unique
<1>19. DOMAIN left = DOMAIN made /\ left[r] = a /\ \A x \in DOMAIN made : x # r => left[x] = made[x]
  BY <1>8, <1>12 DEF Put
<1>20. PassesOn(R, left, r, id)
  <2> SUFFICES ASSUME NEW x \in DOMAIN left, NEW i \in DOMAIN left[x].deps
               PROVE  \/ x \in DOMAIN R /\ \E j \in DOMAIN R[x].deps : left[x].deps[i] = R[x].deps[j]
                      \/ /\ x \in DOMAIN R /\ left[x].deps[i] = <<id, "AFTER">>
                         /\ \E j \in DOMAIN R[x].deps : R[x].deps[j] = <<r, "AFTER">>
                      \/ x = id /\ left[x].deps[i][2] = "BEFORE" /\ \E j \in DOMAIN R[r].deps : left[x].deps[i] = R[r].deps[j]
    BY DEF PassesOn
  <2>1. CASE x = r
    <3>1. left[x].deps = NoBefore(R[r].deps)
      BY <1>10, <1>19, <2>1
    <3>2. \E j \in DOMAIN R[r].deps : R[r].deps[j] = left[x].deps[i]
      BY <1>9, <3>1
    <3> QED BY <2>1, <3>2
  <2>2. CASE x # r
    <3>1. x \in DOMAIN made /\ left[x] = made[x]
      BY <1>19, <2>2
    <3> QED BY <1>7, <3>1 DEF PassesOn
  <2> QED BY <2>1, <2>2
<1>21. PassesOn(R, S, r, id)
  BY <1>14, <1>20, PassesOnFewer DEF Shrinks
<1> QED BY <1>0, <1>3, <1>15, <1>17, <1>18, <1>21 DEF M

----------------------------------------------------------------------------
(* The end of load_reload_service(), up to the new record *)

LEMMA FrameGrows ==
    ASSUME NEW N \in Nat, NEW M \in Nat, N <= M, NEW f, FrameOK(f, N)
    PROVE  FrameOK(f, M)
<1>1. IdsOrNone(N) \subseteq IdsOrNone(M) /\ Seq(Links(N)) \subseteq Seq(Links(M))
  BY RecGrows
<1>2. f \in Frame(M)
  BY <1>1, Zenon DEF FrameOK, Frame
<1> QED BY <1>2 DEF FrameOK

LEMMA FindService ==
    ASSUME NEW N, NEW R, Typed(R, N), Named(R), NEW n
    PROVE  LET e == find_service(R, n)
           IN  \/ e = None /\ \A r \in DOMAIN R : r[1] # n
               \/ e # None /\ e \in DOMAIN R /\ e[1] = n
<1> DEFINE F == {r \in DOMAIN R : R[r].name = n}
           e == find_service(R, n)
<1>1. e = IF F = {} THEN None ELSE CHOOSE r \in F : TRUE
  BY DEF find_service
<1>2. \A r \in DOMAIN R : r # None /\ R[r].name = r[1]
  <2>1. \A r \in Ids(N) : r # None
    BY DEF Ids, None
  <2> QED BY <2>1 DEF Typed, Named
<1>3. CASE F = {}
  BY <1>1, <1>2, <1>3
<1>4. CASE F # {}
  <2>1. e \in F
    BY <1>1, <1>4
  <2> QED BY <1>2, <2>1
<1> QED BY <1>3, <1>4

\* The records are there, and perhaps new placeholders.
Grew(R, S) ==
    /\ DOMAIN R \subseteq DOMAIN S /\ \A x \in DOMAIN R : S[x] = R[x]
    /\ \A x \in DOMAIN S : x \notin DOMAIN R => S[x].type = "placeholder" /\ ~S[x].loading /\ S[x].deps = <<>>

LEMMA GrewTwice ==
    ASSUME NEW R, NEW S, NEW T, Grew(R, S), Grew(S, T)
    PROVE  Grew(R, T)
BY DEF Grew

\* A placeholder for a name that has no record.
LEMMA NewPlaceholder ==
    ASSUME NEW N \in Nat, NEW R, Sound(R, N), Unique(R), NEW n \in Names, \A r \in DOMAIN R : r[1] # n
    PROVE  LET id == FreshId(R, n)
               S  == Put(R, id, NewRecord(n, "placeholder", FALSE))
           IN  /\ Sound(S, N + 1) /\ Unique(S) /\ Grew(R, S)
               /\ id \in Ids(N + 1) /\ id \in DOMAIN S /\ id[1] = n /\ id \notin Mentioned(R)
<1> DEFINE id == FreshId(R, n)
           a == NewRecord(n, "placeholder", FALSE)
           S == Put(R, id, a)
<1>1. /\ Sound(S, N + 1) /\ Adds(R, S, id) /\ S[id] = a
      /\ id \in Ids(N + 1) /\ id[1] = n /\ a.type = "placeholder" /\ a.loading = FALSE
  BY PutPlaceholder
<1>0. a.deps = <<>>
  BY DEF NewRecord
<1>4. id \notin Mentioned(R)
  BY Fresh DEF Sound
<1> HIDE DEF id, a, S
<1>2. Unique(S)
  BY <1>1 DEF Unique, Adds
<1>3. Grew(R, S)
  BY <1>0, <1>1 DEF Grew, Adds
<1>5. id \in DOMAIN S
  BY <1>1 DEF Adds
<1> QED BY <1>1, <1>2, <1>3, <1>4, <1>5 DEF id, a, S

\* What is known of the work: the records and the frame that it began with are R and f.
Work(R, f, kind, before, of, rval) ==
    [R : {R}, f : {f}, kind : {kind}, before : {before}, of : {of}, rval : {rval}]
IsWork(w) == w \in Work(w.R, w.f, w.kind, w.before, w.of, w.rval)
SameFrame(f, g) ==
    /\ g.name = f.name /\ g.reload = f.reload /\ g.dummy = f.dummy /\ g.type = f.type
    /\ g.after = f.after /\ g.before = f.before
    /\ \A i \in DOMAIN g.depends : g.depends[i][2] = "AFTER" \/ \E j \in DOMAIN f.depends : f.depends[j] = g.depends[i]
WorkOK(w, R, f, N) ==
    /\ IsWork(w)
    /\ Sound(w.R, N) /\ Unique(w.R) /\ Grew(R, w.R)
    /\ FrameOK(w.f, N) /\ SameFrame(f, w.f)
    /\ w.before \in SUBSET Ids(N) /\ w.of \in IdsOrNone(N)
    /\ w.kind \in {"none", "load", "cyclic"}
\* What check_settings_for_reload() makes sure of.
Checked(R, f) ==
    (f.reload # None /\ R[f.reload].state # "STOPPED") =>
      /\ f.type = R[f.reload].type
      /\ \A i \in DOMAIN f.depends : f.depends[i][2] = "REGULAR" => R[f.depends[i][1]].state = "STARTED"
Works(w, R, f) == (\E N \in Nat : WorkOK(w, R, f, N)) /\ (w.kind = "none" => Checked(R, f))

LEMMA WorkGrows ==
    ASSUME NEW N \in Nat, NEW M \in Nat, N <= M, NEW w, NEW R, NEW f, WorkOK(w, R, f, N)
    PROVE  WorkOK(w, R, f, M)
<1>1. Sound(w.R, M) /\ FrameOK(w.f, M)
  BY SoundGrows, FrameGrows DEF WorkOK
<1>2. Ids(N) \subseteq Ids(M) /\ IdsOrNone(N) \subseteq IdsOrNone(M)
  BY RecGrows
<1> QED BY <1>1, <1>2 DEF WorkOK

LEMMA WorkFields ==
    ASSUME NEW R, NEW f, NEW k, NEW b, NEW o, NEW v, NEW w \in Work(R, f, k, b, o, v)
    PROVE  w.R = R /\ w.f = f /\ w.kind = k /\ w.before = b /\ w.of = o /\ w.rval = v /\ IsWork(w)
<1>1. w.R = R /\ w.f = f /\ w.kind = k /\ w.before = b /\ w.of = o /\ w.rval = v
  BY DEF Work
<1> QED BY <1>1 DEF IsWork

LEMMA WorkFails ==
    ASSUME NEW N, NEW w, NEW R, NEW f, WorkOK(w, R, f, N), NEW k \in {"load", "cyclic"}
    PROVE  WorkOK(Fails(w, k), R, f, N) /\ Fails(w, k).kind = k
<1> DEFINE v == Fails(w, k)
<1>1. w \in Work(w.R, w.f, w.kind, w.before, w.of, w.rval)
  BY DEF WorkOK, IsWork
<1>2. v \in Work(w.R, w.f, k, w.before, w.of, w.rval)
  BY <1>1, Zenon DEF Fails, Work
<1> HIDE DEF v
<1>3. v.R = w.R /\ v.f = w.f /\ v.kind = k /\ v.before = w.before /\ v.of = w.of /\ v.rval = w.rval /\ IsWork(v)
  BY <1>2, WorkFields
<1> QED BY <1>3 DEF WorkOK, v

LEMMA UnlessSame ==
    ASSUME NEW N, NEW w, NEW R, NEW f, WorkOK(w, R, f, N), NEW k \in {"load", "cyclic"}, NEW b
    PROVE  LET v == Unless(w, b, k, w)
           IN  WorkOK(v, R, f, N) /\ (v.kind = "none" => v = w /\ ~b)
<1>1. WorkOK(Fails(w, k), R, f, N) /\ Fails(w, k).kind = k
  BY WorkFails
<1>2. k # "none"
  OBVIOUS
<1> QED BY <1>1, <1>2 DEF Unless

\* The settings are checked before anything is changed.
LEMMA SettingsChecked ==
    ASSUME NEW N \in Nat, NEW w, WorkOK(w, w.R, w.f, N)
    PROVE  LET c == check_settings_for_reload(finalise(ReadEnvFile(w)))
           IN  Works(c, w.R, w.f) /\ (c.kind = "none" => c = w)
<1> DEFINE R == w.R
           f == w.f
           a == ReadEnvFile(w)
           b == finalise(a)
           c == check_settings_for_reload(b)
<1>0. "load" \in {"load", "cyclic"}
  OBVIOUS
<1>1. WorkOK(a, R, f, N) /\ (a.kind = "none" => a = w)
  <2> HIDE DEF R, f
  <2> QED BY <1>0, UnlessSame DEF ReadEnvFile, R, f
<1> HIDE DEF a
<1>2. WorkOK(b, R, f, N) /\ (b.kind = "none" => b = a)
  <2> HIDE DEF R, f
  <2> QED BY <1>0, <1>1, UnlessSame, ZenonT(40) DEF finalise
<1> HIDE DEF b
<1>3. ASSUME b.f.reload = None PROVE Works(c, R, f) /\ (c.kind = "none" => c = w)
  <2>1. c = b
    BY <1>3 DEF check_settings_for_reload
  <2>2. c.kind = "none" => Checked(R, f)
    BY <1>1, <1>2, <1>3, <2>1 DEF Checked
  <2> QED BY <1>1, <1>2, <2>1, <2>2 DEF Works
<1>4. ASSUME b.f.reload # None PROVE Works(c, R, f) /\ (c.kind = "none" => c = w)
  <2> DEFINE old == b.R[b.f.reload]
             bad == \/ /\ old.state # "STOPPED"
                       /\ \/ b.f.type # old.type
                          \/ old.state # "STARTED"
                          \/ \E i \in DOMAIN b.f.depends :
                               b.f.depends[i][2] = "REGULAR" /\ b.R[b.f.depends[i][1]].state # "STARTED"
                          \/ b.f.console # old.console
                          \/ b.f.type \in Output /\ b.f.pipe # old.pipe
                    \/ old.log_consumer # None /\ (b.f.type \notin Output \/ ~b.f.pipe)
  <2>1. c = Unless(b, bad, "load", b)
    BY <1>4, Zenon DEF check_settings_for_reload
  <2>2. ~bad => Checked(b.R, b.f)
    BY DEF Checked
  <2> HIDE DEF bad, R, f, c
  <2>3. WorkOK(c, R, f, N) /\ (c.kind = "none" => c = b /\ ~bad)
    <3> DEFINE v == Unless(b, bad, "load", b)
    <3>1. WorkOK(v, R, f, N) /\ (v.kind = "none" => v = b /\ ~bad)
      BY <1>0, <1>2, UnlessSame
    <3> QED BY <2>1, <3>1
  <2>4. c.kind = "none" => Checked(R, f)
    BY <1>1, <1>2, <2>2, <2>3 DEF R, f
  <2> QED BY <1>1, <1>2, <2>3, <2>4 DEF Works
<1>5. Works(c, R, f) /\ (c.kind = "none" => c = w)
  BY <1>3, <1>4
<1> QED BY <1>5 DEF b, a

\* Other records, a service that is consumed from.
LEMMA WorkWith ==
    ASSUME NEW N, NEW w, NEW R, NEW f, WorkOK(w, R, f, N), NEW v,
           NEW S, NEW g, NEW b \in SUBSET Ids(N), NEW o \in IdsOrNone(N),
           v \in Work(S, g, w.kind, b, o, w.rval),
           Sound(S, N), Unique(S), Grew(w.R, S), FrameOK(g, N), SameFrame(f, g)
    PROVE  WorkOK(v, R, f, N) /\ v.kind = w.kind
<1>1. v.R = S /\ v.f = g /\ v.kind = w.kind /\ v.before = b /\ v.of = o /\ IsWork(v)
  BY WorkFields
<1>2. Grew(R, S)
  BY GrewTwice DEF WorkOK
<1> QED BY <1>1, <1>2 DEF WorkOK

LEMMA GrewItself ==
    ASSUME NEW R PROVE Grew(R, R)
BY DEF Grew

\* The work goes on with the frame g, and with the services of B.
Extends(w, v, g, B) == w.kind = "none" /\ v.f = g /\ v.before = B /\ Grew(w.R, v.R)

LEMMA FindConsumedWorks ==
    ASSUME NEW w, NEW R, NEW f, Works(w, R, f)
    PROVE  /\ Works(FindConsumed(w), R, f)
           /\ FindConsumed(w).kind = "none" => Extends(w, FindConsumed(w), w.f, w.before)
<1> DEFINE of == IF w.f.consumer_of = NoName THEN None ELSE find_service(w.R, w.f.consumer_of)
           id == FreshId(w.R, w.f.consumer_of)
           running == w.f.reload # None /\ w.R[w.f.reload].state # "STOPPED" /\ w.f.type \in Processes
           bad == \/ running /\ w.R[w.f.reload].consumer_for # of
                  \/ /\ of # None
                     /\ \/ w.R[of].type \notin Output \cup {"placeholder"}
                        \/ w.R[of].type # "placeholder" /\ ~w.R[of].pipe
                        \/ w.R[of].log_consumer \notin {None, w.f.reload}
           S == Put(w.R, id, NewRecord(w.f.consumer_of, "placeholder", FALSE))
           done == IF w.f.consumer_of = NoName THEN w
                   ELSE IF of # None THEN [w EXCEPT !.of = of]
                   ELSE [w EXCEPT !.of = id, !.R = S]
           v == FindConsumed(w)
<1>1. v = IF w.kind # "none" THEN w ELSE IF bad THEN Fails(w, "load") ELSE done
  BY Zenon DEF FindConsumed, Unless
<1>2. PICK N \in Nat : WorkOK(w, R, f, N)
  BY DEF Works
<1> DEFINE M == N + 1
<1>3. M \in Nat /\ WorkOK(w, R, f, M)
  BY <1>2, WorkGrows
<1>4. Sound(w.R, N) /\ Unique(w.R) /\ FrameOK(w.f, M) /\ SameFrame(f, w.f) /\ Sound(w.R, M)
      /\ w.before \in SUBSET Ids(M) /\ w \in Work(w.R, w.f, w.kind, w.before, w.of, w.rval)
  BY <1>2, <1>3 DEF WorkOK, IsWork
<1>5. w.f.consumer_of \in Names \cup {NoName}
  BY <1>4, FrameFields DEF FrameOK
<1> HIDE DEF bad, v
<1>6. CASE w.kind # "none" \/ (~bad /\ w.f.consumer_of = NoName)
  <2>1. v = w
    BY <1>1, <1>6
  <2> QED BY <2>1, GrewItself DEF v, Extends
<1>7. CASE w.kind = "none" /\ bad
  <2>1. v = Fails(w, "load")
    BY <1>1, <1>7
  <2>2. WorkOK(Fails(w, "load"), R, f, N) /\ Fails(w, "load").kind = "load"
    BY <1>2, WorkFails
  <2> QED BY <2>1, <2>2 DEF Works, v
<1>8. CASE w.kind = "none" /\ ~bad /\ w.f.consumer_of # NoName
  <2>1. CASE of # None
    <3>1. of \in DOMAIN w.R
      BY <1>4, <1>8, <2>1, FindService DEF Sound
    <3>2. of \in IdsOrNone(M)
      BY <1>4, <3>1 DEF Sound, Typed, IdsOrNone
    <3>3. v = [w EXCEPT !.of = of]
      BY <1>1, <1>8, <2>1
    <3> HIDE DEF of, M
    <3>4. v \in Work(w.R, w.f, w.kind, w.before, of, w.rval)
      BY <1>4, <3>3, Zenon DEF Work
    <3>5. WorkOK(v, R, f, M) /\ v.kind = w.kind
      BY <1>3, <1>4, <3>2, <3>4, GrewItself, WorkWith
    <3>6. v.f = w.f /\ v.before = w.before /\ v.R = w.R
      BY <3>4, WorkFields
    <3>7. Extends(w, v, w.f, w.before)
      BY <1>8, <3>6, GrewItself DEF Extends
    <3> QED BY <1>3, <3>5, <3>7 DEF Works, v
  <2>2. CASE of = None
    <3>1. \A r \in DOMAIN w.R : r[1] # w.f.consumer_of
      BY <1>4, <1>8, <2>2, FindService DEF Sound
    <3>2. Sound(S, M) /\ Unique(S) /\ Grew(w.R, S) /\ id \in Ids(M)
      BY <1>2, <1>4, <1>5, <1>8, <3>1, NewPlaceholder
    <3>3. v = [w EXCEPT !.of = id, !.R = S]
      BY <1>1, <1>8, <2>2
    <3> HIDE DEF S, id, M
    <3>4. v \in Work(S, w.f, w.kind, w.before, id, w.rval) /\ id \in IdsOrNone(M)
      BY <1>4, <3>2, <3>3, Zenon DEF Work, IdsOrNone
    <3>5. WorkOK(v, R, f, M) /\ v.kind = w.kind
      BY <1>3, <1>4, <3>2, <3>4, WorkWith
    <3>6. v.f = w.f /\ v.before = w.before /\ v.R = S
      BY <3>4, WorkFields
    <3>7. Extends(w, v, w.f, w.before)
      BY <1>8, <3>2, <3>6 DEF Extends
    <3> QED BY <1>3, <3>5, <3>7 DEF Works, v
  <2> QED BY <2>1, <2>2
<1> QED BY <1>6, <1>7, <1>8

\* A link that only orders is appended.
LEMMA FrameAfter ==
    ASSUME NEW N, NEW f, NEW g, FrameOK(g, N), SameFrame(f, g), NEW id \in Ids(N), NEW h,
           h = [g EXCEPT !.depends = Append(g.depends, <<id, "AFTER">>)]
    PROVE  /\ FrameOK(h, N) /\ SameFrame(f, h) /\ h.name = g.name
           /\ \A i \in DOMAIN h.depends : h.depends[i] = <<id, "AFTER">> \/ \E j \in DOMAIN g.depends : g.depends[j] = h.depends[i]
<1> DEFINE q == g.depends
           l == <<id, "AFTER">>
           d == Append(q, l)
<1>1. q \in Seq(Links(N)) /\ l \in Links(N) /\ g \in Frame(N)
  BY FrameFields DEF FrameOK, Links, Kinds
<1>2. h = [g EXCEPT !.depends = d] /\ l[2] = "AFTER"
  OBVIOUS
<1> HIDE DEF l
<1>3. d \in Seq(Links(N)) /\ DOMAIN d = 1 .. Len(q) + 1 /\ DOMAIN q = 1 .. Len(q) /\ Len(q) \in Nat
      /\ \A i \in 1 .. Len(q) + 1 : d[i] = IF i <= Len(q) THEN q[i] ELSE l
  BY <1>1
<1>4. \A i \in DOMAIN d : d[i] = l \/ \E j \in DOMAIN q : q[j] = d[i]
  BY <1>3
<1> HIDE DEF d
<1>5. h \in Frame(N)
  BY <1>1, <1>2, <1>3, Zenon DEF Frame
<1>6. /\ h.depends = d /\ h.name = g.name /\ h.reload = g.reload /\ h.dummy = g.dummy /\ h.type = g.type
      /\ h.after = g.after /\ h.before = g.before
  BY <1>1, <1>2 DEF Frame
<1>7. FrameOK(h, N)
  BY <1>2, <1>4, <1>5, <1>6 DEF FrameOK
<1>8. SameFrame(f, h)
  BY <1>2, <1>4, <1>6 DEF SameFrame
<1> QED BY <1>4, <1>6, <1>7, <1>8 DEF l

\* The record for the name of an "after" or "before" setting: one that was there, or a new one.
Orders(w, v, n, id) ==
    n # w.f.name /\ id[1] = n /\ id \in DOMAIN v.R /\ (id \in DOMAIN w.R \/ id \notin Mentioned(w.R))

LEMMA AddAfterWorks ==
    ASSUME NEW w, NEW R, NEW f, Works(w, R, f), NEW n \in Names
    PROVE  /\ Works(AddAfter(w, n), R, f)
           /\ AddAfter(w, n).kind = "none" =>
                \E id : Orders(w, AddAfter(w, n), n, id)
                       /\ Extends(w, AddAfter(w, n), [w.f EXCEPT !.depends = Append(w.f.depends, <<id, "AFTER">>)], w.before)
                       /\ ~AddAfter(w, n).R[id].loading
<1> DEFINE found == find_service(w.R, n)
           id == IF found # None THEN found ELSE FreshId(w.R, n)
           bad == n = w.f.name \/ (found # None /\ w.R[found].loading)
           S == IF found # None THEN w.R ELSE Put(w.R, id, NewRecord(n, "placeholder", FALSE))
           g == [w.f EXCEPT !.depends = Append(w.f.depends, <<id, "AFTER">>)]
           B == w.before
           done == [w EXCEPT !.f = g, !.R = S]
           v == AddAfter(w, n)
<1>1. v = IF w.kind # "none" THEN w ELSE IF bad THEN Fails(w, "cyclic") ELSE done
  BY Zenon DEF AddAfter, Unless
<1>2. PICK N \in Nat : WorkOK(w, R, f, N)
  BY DEF Works
<1> DEFINE M == N + 1
<1>3. M \in Nat /\ WorkOK(w, R, f, M)
  BY <1>2, WorkGrows
<1>4. Sound(w.R, N) /\ Unique(w.R) /\ FrameOK(w.f, M) /\ SameFrame(f, w.f) /\ Sound(w.R, M)
      /\ w.before \in SUBSET Ids(M) /\ w.of \in IdsOrNone(M)
      /\ w \in Work(w.R, w.f, w.kind, w.before, w.of, w.rval)
  BY <1>2, <1>3 DEF WorkOK, IsWork
<1>5. Sound(S, M) /\ Unique(S) /\ Grew(w.R, S) /\ id \in Ids(M)
      /\ id \in DOMAIN S /\ id[1] = n /\ IF found # None THEN id = found /\ id \in DOMAIN w.R ELSE id \notin Mentioned(w.R)
  <2>1. CASE found # None
    <3>1. found \in DOMAIN w.R /\ found[1] = n
      BY <1>4, <2>1, FindService DEF Sound
    <3> QED BY <1>4, <2>1, <3>1, GrewItself DEF Sound, Typed
  <2>2. CASE found = None
    <3>1. \A r \in DOMAIN w.R : r[1] # n
      BY <1>4, <2>2, FindService DEF Sound
    <3> DEFINE i == FreshId(w.R, n)
               P == Put(w.R, i, NewRecord(n, "placeholder", FALSE))
    <3>2. Sound(P, M) /\ Unique(P) /\ Grew(w.R, P) /\ i \in Ids(M)
          /\ i \in DOMAIN P /\ i[1] = n /\ i \notin Mentioned(w.R)
      BY <1>2, <1>4, <3>1, NewPlaceholder
    <3>3. id = i /\ S = P
      BY <2>2
    <3> HIDE DEF i, P, S, id
    <3> QED BY <2>2, <3>2, <3>3
  <2> QED BY <2>1, <2>2
<1>9. /\ ~bad => n # w.f.name
      /\ (~bad /\ found # None) => ~w.R[found].loading
  OBVIOUS
<1> HIDE DEF bad, v, S, id, M
<1>6. CASE w.kind # "none"
  <2>1. v = w
    BY <1>1, <1>6
  <2> QED BY <1>6, <2>1 DEF v
<1>7. CASE w.kind = "none" /\ bad
  <2>1. v = Fails(w, "cyclic")
    BY <1>1, <1>7
  <2>2. WorkOK(Fails(w, "cyclic"), R, f, N) /\ Fails(w, "cyclic").kind = "cyclic"
    BY <1>2, WorkFails
  <2> QED BY <2>1, <2>2 DEF Works, v
<1>8. CASE w.kind = "none" /\ ~bad
  <2>1. v = done
    BY <1>1, <1>8
  <2>2. FrameOK(g, M) /\ SameFrame(f, g) /\ B \in SUBSET Ids(M)
    BY <1>4, <1>5, FrameAfter
  <2> HIDE DEF g, B
  <2>3. v \in Work(S, g, w.kind, B, w.of, w.rval)
    BY <1>4, <2>1, Zenon DEF Work, B
  <2>4. WorkOK(v, R, f, M) /\ v.kind = w.kind
    BY <1>3, <1>4, <1>5, <2>2, <2>3, WorkWith
  <2>5. v.f = g /\ v.before = w.before /\ v.R = S
    BY <2>3, WorkFields DEF B
  <2>6. Orders(w, v, n, id) /\ Extends(w, v, g, w.before)
    BY <1>5, <1>8, <1>9, <2>5 DEF Orders, Extends
  <2>7. ~S[id].loading
    <3>1. CASE found # None
      <4>1. found \in DOMAIN w.R
        BY <1>4, <3>1, FindService DEF Sound
      <4> QED BY <1>5, <1>8, <1>9, <3>1, <4>1 DEF Grew
    <3>2. CASE found = None
      <4>1. id \notin DOMAIN w.R
        BY <1>5, <3>2, NotMentioned
      <4> QED BY <1>5, <4>1 DEF Grew
    <3> QED BY <3>1, <3>2
  <2> QED BY <1>3, <2>4, <2>5, <2>6, <2>7 DEF Works, v, g
<1> QED BY <1>6, <1>7, <1>8

LEMMA AddBeforeWorks ==
    ASSUME NEW w, NEW R, NEW f, Works(w, R, f), NEW n \in Names
    PROVE  /\ Works(AddBefore(w, n), R, f)
           /\ AddBefore(w, n).kind = "none" =>
                \E id : Orders(w, AddBefore(w, n), n, id) /\ Extends(w, AddBefore(w, n), w.f, w.before \cup {id})
                       /\ (id \in DOMAIN w.R => ~check_cycle(w.R, w.f.depends, id))
<1> DEFINE found == find_service(w.R, n)
           id == IF found # None THEN found ELSE FreshId(w.R, n)
           bad == n = w.f.name \/ (found # None /\ check_cycle(w.R, w.f.depends, found))
           S == IF found # None THEN w.R ELSE Put(w.R, id, NewRecord(n, "placeholder", FALSE))
           g == w.f
           B == w.before \cup {id}
           done == [w EXCEPT !.before = B, !.R = S]
           v == AddBefore(w, n)
<1>1. v = IF w.kind # "none" THEN w ELSE IF bad THEN Fails(w, "cyclic") ELSE done
  BY Zenon DEF AddBefore, Unless
<1>2. PICK N \in Nat : WorkOK(w, R, f, N)
  BY DEF Works
<1> DEFINE M == N + 1
<1>3. M \in Nat /\ WorkOK(w, R, f, M)
  BY <1>2, WorkGrows
<1>4. Sound(w.R, N) /\ Unique(w.R) /\ FrameOK(w.f, M) /\ SameFrame(f, w.f) /\ Sound(w.R, M)
      /\ w.before \in SUBSET Ids(M) /\ w.of \in IdsOrNone(M)
      /\ w \in Work(w.R, w.f, w.kind, w.before, w.of, w.rval)
  BY <1>2, <1>3 DEF WorkOK, IsWork
<1>5. Sound(S, M) /\ Unique(S) /\ Grew(w.R, S) /\ id \in Ids(M)
      /\ id \in DOMAIN S /\ id[1] = n /\ IF found # None THEN id = found /\ id \in DOMAIN w.R ELSE id \notin Mentioned(w.R)
  <2>1. CASE found # None
    <3>1. found \in DOMAIN w.R /\ found[1] = n
      BY <1>4, <2>1, FindService DEF Sound
    <3> QED BY <1>4, <2>1, <3>1, GrewItself DEF Sound, Typed
  <2>2. CASE found = None
    <3>1. \A r \in DOMAIN w.R : r[1] # n
      BY <1>4, <2>2, FindService DEF Sound
    <3> DEFINE i == FreshId(w.R, n)
               P == Put(w.R, i, NewRecord(n, "placeholder", FALSE))
    <3>2. Sound(P, M) /\ Unique(P) /\ Grew(w.R, P) /\ i \in Ids(M)
          /\ i \in DOMAIN P /\ i[1] = n /\ i \notin Mentioned(w.R)
      BY <1>2, <1>4, <3>1, NewPlaceholder
    <3>3. id = i /\ S = P
      BY <2>2
    <3> HIDE DEF i, P, S, id
    <3> QED BY <2>2, <3>2, <3>3
  <2> QED BY <2>1, <2>2
<1>9. /\ ~bad => n # w.f.name
      /\ (~bad /\ found # None) => ~check_cycle(w.R, w.f.depends, found)
  OBVIOUS
<1> HIDE DEF bad, v, S, id, M
<1>6. CASE w.kind # "none"
  <2>1. v = w
    BY <1>1, <1>6
  <2> QED BY <1>6, <2>1 DEF v
<1>7. CASE w.kind = "none" /\ bad
  <2>1. v = Fails(w, "cyclic")
    BY <1>1, <1>7
  <2>2. WorkOK(Fails(w, "cyclic"), R, f, N) /\ Fails(w, "cyclic").kind = "cyclic"
    BY <1>2, WorkFails
  <2> QED BY <2>1, <2>2 DEF Works, v
<1>8. CASE w.kind = "none" /\ ~bad
  <2>1. v = done
    BY <1>1, <1>8
  <2>2. FrameOK(g, M) /\ SameFrame(f, g) /\ B \in SUBSET Ids(M)
    BY <1>4, <1>5
  <2> HIDE DEF g, B
  <2>3. v \in Work(S, g, w.kind, B, w.of, w.rval)
    BY <1>4, <2>1, Zenon DEF Work, g
  <2>4. WorkOK(v, R, f, M) /\ v.kind = w.kind
    BY <1>3, <1>4, <1>5, <2>2, <2>3, WorkWith
  <2>5. v.f = w.f /\ v.before = w.before \cup {id} /\ v.R = S
    BY <2>3, WorkFields DEF B, g
  <2>6. Orders(w, v, n, id) /\ Extends(w, v, w.f, w.before \cup {id})
    BY <1>5, <1>8, <1>9, <2>5 DEF Orders, Extends
  <2>7. id \in DOMAIN w.R => ~check_cycle(w.R, w.f.depends, id)
    <3>1. CASE found # None
      BY <1>5, <1>8, <1>9, <3>1
    <3>2. CASE found = None
      BY <1>5, <3>2, NotMentioned
    <3> QED BY <3>1, <3>2
  <2> QED BY <1>3, <2>4, <2>6, <2>7 DEF Works, v
<1> QED BY <1>6, <1>7, <1>8

\* One step of AddAfters.
AddAftersRunStep(v, w, k) == AddAfter(v, w.f.after[k])

\* The recursive function of AddAfters, as far as n.
AddAftersRun(f, w, n) == f = [k \in 0 .. n |-> IF k = 0 THEN w ELSE AddAftersRunStep(f[k - 1], w, k)]

LEMMA AddAftersRunExists ==
    ASSUME NEW w, NEW n \in Nat
    PROVE  \E f : AddAftersRun(f, w, n)
<1> DEFINE I == {k \in 0 .. n : \E f : AddAftersRun(f, w, k)}
<1>1. 0 \in I
  <2> DEFINE g == [i \in 0 .. 0 |-> w]
  <2>1. \A i \in 0 .. 0 : i = 0
    OBVIOUS
  <2>2. AddAftersRun(g, w, 0)
    BY <2>1 DEF AddAftersRun
  <2> HIDE DEF g
  <2> QED BY <2>2
<1>2. \A k \in 1 .. n : k - 1 \in I => k \in I
  <2> SUFFICES ASSUME NEW k \in 1 .. n, NEW f, AddAftersRun(f, w, k - 1)
               PROVE  \E g : AddAftersRun(g, w, k)
    OBVIOUS
  <2> DEFINE g == [i \in 0 .. k |-> IF i = k THEN AddAftersRunStep(f[k - 1], w, k) ELSE f[i]]
  <2>1. \A i \in 0 .. k : g[i] = IF i = 0 THEN w ELSE AddAftersRunStep(g[i - 1], w, i)
    <3> SUFFICES ASSUME NEW i \in 0 .. k
                 PROVE  g[i] = IF i = 0 THEN w ELSE AddAftersRunStep(g[i - 1], w, i)
      OBVIOUS
    <3>1. i # 0 => g[i - 1] = f[i - 1]
      OBVIOUS
    <3>2. g[i] = IF i = k THEN AddAftersRunStep(f[k - 1], w, k) ELSE f[i]
      OBVIOUS
    <3>3. i # k => f[i] = IF i = 0 THEN w ELSE AddAftersRunStep(f[i - 1], w, i)
      <4>1. i # k => i \in 0 .. k - 1
        OBVIOUS
      <4>2. f = [j \in 0 .. k - 1 |-> IF j = 0 THEN w ELSE AddAftersRunStep(f[j - 1], w, j)]
        BY DEF AddAftersRun
      <4>3. \A j \in 0 .. k - 1 : f[j] = IF j = 0 THEN w ELSE AddAftersRunStep(f[j - 1], w, j)
        BY <4>2, Zenon
      <4> QED BY <4>1, <4>3
    <3> HIDE DEF g
    <3> QED BY <3>1, <3>2, <3>3
  <2>2. g = [i \in 0 .. k |-> g[i]]
    OBVIOUS
  <2> HIDE DEF g
  <2>3. AddAftersRun(g, w, k)
    BY <2>1, <2>2 DEF AddAftersRun
  <2> QED BY <2>3
<1>3. I \in SUBSET (0 .. n)
  OBVIOUS
<1> HIDE DEF I
<1>4. I = 0 .. n
  BY <1>1, <1>2, <1>3, SetInduction
<1>5. n \in I
  BY <1>4
<1> QED BY <1>5 DEF I


AddAftersRunFcn(w) == CHOOSE h : AddAftersRun(h, w, Len(w.f.after))

LEMMA AddAftersWorks ==
    ASSUME NEW w, NEW R, NEW f, Works(w, R, f)
    PROVE  Works(AddAfters(w), R, f)
<1> DEFINE n == Len(w.f.after)
           h == AddAftersRunFcn(w)
<1>0. w.f.after \in Seq(Names)
  BY FrameFields DEF Works, WorkOK, FrameOK
<1>1. n \in Nat /\ \A k \in 1 .. n : w.f.after[k] \in Names
  BY <1>0
<1>2. AddAfters(w) = h[n]
  BY Zenon DEF AddAfters, AddAftersRunFcn, AddAftersRun, AddAftersRunStep
<1>3. AddAftersRun(h, w, n)
  BY <1>1, AddAftersRunExists DEF AddAftersRunFcn
<1>4. h = [k \in 0 .. n |-> IF k = 0 THEN w ELSE AddAftersRunStep(h[k - 1], w, k)]
  BY <1>3 DEF AddAftersRun
<1> HIDE DEF n, h
<1>5. \A k \in 0 .. n : h[k] = IF k = 0 THEN w ELSE AddAftersRunStep(h[k - 1], w, k)
  BY <1>4, Zenon
<1> DEFINE I == {k \in 0 .. n : Works(h[k], R, f)}
<1>6. I \in SUBSET (0 .. n) /\ 0 \in I
  BY <1>1, <1>5
<1>7. \A k \in 1 .. n : k - 1 \in I => k \in I
  <2> SUFFICES ASSUME NEW k \in 1 .. n, k - 1 \in I PROVE k \in I
    OBVIOUS
  <2>1. k \in 0 .. n /\ k # 0 /\ Works(h[k - 1], R, f)
    BY <1>1
  <2>2. h[k] = AddAfter(h[k - 1], w.f.after[k])
    BY <1>5, <2>1 DEF AddAftersRunStep
  <2>3. Works(h[k], R, f)
    BY <1>1, <2>1, <2>2, AddAfterWorks
  <2> QED BY <2>1, <2>3
<1> HIDE DEF I
<1>8. I = 0 .. n
  BY <1>1, <1>6, <1>7, SetInduction
<1>9. n \in I
  BY <1>1, <1>8
<1> QED BY <1>2, <1>9 DEF I

\* One step of AddBefores.
AddBeforesRunStep(v, w, k) == AddBefore(v, w.f.before[k])

\* The recursive function of AddBefores, as far as n.
AddBeforesRun(f, w, n) == f = [k \in 0 .. n |-> IF k = 0 THEN w ELSE AddBeforesRunStep(f[k - 1], w, k)]

LEMMA AddBeforesRunExists ==
    ASSUME NEW w, NEW n \in Nat
    PROVE  \E f : AddBeforesRun(f, w, n)
<1> DEFINE I == {k \in 0 .. n : \E f : AddBeforesRun(f, w, k)}
<1>1. 0 \in I
  <2> DEFINE g == [i \in 0 .. 0 |-> w]
  <2>1. \A i \in 0 .. 0 : i = 0
    OBVIOUS
  <2>2. AddBeforesRun(g, w, 0)
    BY <2>1 DEF AddBeforesRun
  <2> HIDE DEF g
  <2> QED BY <2>2
<1>2. \A k \in 1 .. n : k - 1 \in I => k \in I
  <2> SUFFICES ASSUME NEW k \in 1 .. n, NEW f, AddBeforesRun(f, w, k - 1)
               PROVE  \E g : AddBeforesRun(g, w, k)
    OBVIOUS
  <2> DEFINE g == [i \in 0 .. k |-> IF i = k THEN AddBeforesRunStep(f[k - 1], w, k) ELSE f[i]]
  <2>1. \A i \in 0 .. k : g[i] = IF i = 0 THEN w ELSE AddBeforesRunStep(g[i - 1], w, i)
    <3> SUFFICES ASSUME NEW i \in 0 .. k
                 PROVE  g[i] = IF i = 0 THEN w ELSE AddBeforesRunStep(g[i - 1], w, i)
      OBVIOUS
    <3>1. i # 0 => g[i - 1] = f[i - 1]
      OBVIOUS
    <3>2. g[i] = IF i = k THEN AddBeforesRunStep(f[k - 1], w, k) ELSE f[i]
      OBVIOUS
    <3>3. i # k => f[i] = IF i = 0 THEN w ELSE AddBeforesRunStep(f[i - 1], w, i)
      <4>1. i # k => i \in 0 .. k - 1
        OBVIOUS
      <4>2. f = [j \in 0 .. k - 1 |-> IF j = 0 THEN w ELSE AddBeforesRunStep(f[j - 1], w, j)]
        BY DEF AddBeforesRun
      <4>3. \A j \in 0 .. k - 1 : f[j] = IF j = 0 THEN w ELSE AddBeforesRunStep(f[j - 1], w, j)
        BY <4>2, Zenon
      <4> QED BY <4>1, <4>3
    <3> HIDE DEF g
    <3> QED BY <3>1, <3>2, <3>3
  <2>2. g = [i \in 0 .. k |-> g[i]]
    OBVIOUS
  <2> HIDE DEF g
  <2>3. AddBeforesRun(g, w, k)
    BY <2>1, <2>2 DEF AddBeforesRun
  <2> QED BY <2>3
<1>3. I \in SUBSET (0 .. n)
  OBVIOUS
<1> HIDE DEF I
<1>4. I = 0 .. n
  BY <1>1, <1>2, <1>3, SetInduction
<1>5. n \in I
  BY <1>4
<1> QED BY <1>5 DEF I


AddBeforesRunFcn(w) == CHOOSE h : AddBeforesRun(h, w, Len(w.f.before))

LEMMA AddBeforesWorks ==
    ASSUME NEW w, NEW R, NEW f, Works(w, R, f)
    PROVE  Works(AddBefores(w), R, f)
<1> DEFINE n == Len(w.f.before)
           h == AddBeforesRunFcn(w)
<1>0. w.f.before \in Seq(Names)
  BY FrameFields DEF Works, WorkOK, FrameOK
<1>1. n \in Nat /\ \A k \in 1 .. n : w.f.before[k] \in Names
  BY <1>0
<1>2. AddBefores(w) = h[n]
  BY Zenon DEF AddBefores, AddBeforesRunFcn, AddBeforesRun, AddBeforesRunStep
<1>3. AddBeforesRun(h, w, n)
  BY <1>1, AddBeforesRunExists DEF AddBeforesRunFcn
<1>4. h = [k \in 0 .. n |-> IF k = 0 THEN w ELSE AddBeforesRunStep(h[k - 1], w, k)]
  BY <1>3 DEF AddBeforesRun
<1> HIDE DEF n, h
<1>5. \A k \in 0 .. n : h[k] = IF k = 0 THEN w ELSE AddBeforesRunStep(h[k - 1], w, k)
  BY <1>4, Zenon
<1> DEFINE I == {k \in 0 .. n : Works(h[k], R, f)}
<1>6. I \in SUBSET (0 .. n) /\ 0 \in I
  BY <1>1, <1>5
<1>7. \A k \in 1 .. n : k - 1 \in I => k \in I
  <2> SUFFICES ASSUME NEW k \in 1 .. n, k - 1 \in I PROVE k \in I
    OBVIOUS
  <2>1. k \in 0 .. n /\ k # 0 /\ Works(h[k - 1], R, f)
    BY <1>1
  <2>2. h[k] = AddBefore(h[k - 1], w.f.before[k])
    BY <1>5, <2>1 DEF AddBeforesRunStep
  <2>3. Works(h[k], R, f)
    BY <1>1, <2>1, <2>2, AddBeforeWorks
  <2> QED BY <2>1, <2>3
<1> HIDE DEF I
<1>8. I = 0 .. n
  BY <1>1, <1>6, <1>7, SetInduction
<1>9. n \in I
  BY <1>1, <1>8
<1> QED BY <1>2, <1>9 DEF I

----------------------------------------------------------------------------
(* The new record, or the one that is updated *)

\* The records after a service is loaded: those that there were, except the one that was
\* replaced.  If that was a placeholder then only it goes.
After(R, S, orig, id) ==
    /\ \A x \in DOMAIN S : IF x \in DOMAIN R THEN Same(R[x], S[x]) ELSE ~S[x].loading
    /\ R[orig].type = "placeholder" =>
         /\ orig \notin DOMAIN S /\ DOMAIN R \ {orig} \subseteq DOMAIN S
         /\ id \in DOMAIN S /\ id \notin DOMAIN R /\ id[1] = orig[1] /\ S[id].type # "placeholder"

Done(v, R, orig) ==
    /\ IsWork(v) /\ v.kind = "none"
    /\ \E N \in Nat : /\ Sound(v.R, N) /\ Unique(v.R) /\ v.rval \in Ids(N) /\ v.of \in IdsOrNone(N)
                      /\ After(R, v.R, orig, v.rval)

\* What a frame replaces.
Original(f) == IF f.reload # None THEN f.reload ELSE f.dummy
Ready(R, f) ==
    /\ Original(f) \in DOMAIN R
    /\ f.reload = None => R[f.dummy].type = "placeholder"
    /\ \A i \in DOMAIN f.depends : f.depends[i][1] \in DOMAIN R

\* What becomes of the links.
Updates(w, v, r) ==
    /\ ~check_cycle(w.R, w.f.depends, r)
    /\ Relinks(w.R, v.R) /\ GivesLinks(w.R, v.R, r, w.f.depends, w.before)
Creates(w, v, orig) ==
    /\ w.f.reload # None => ~check_cycle(w.R, w.f.depends, w.f.reload)
    /\ \E N, id : id \notin Mentioned(w.R) /\ Replaces(w.R, v.R, orig, id, N)
                  /\ TakesLinks(w.R, v.R, orig, id, w.f.depends, w.before)

LEMMA UpdateDone ==
    ASSUME NEW w, NEW R, NEW f, Works(w, R, f), w.kind = "none", Ready(R, f),
           w.f.reload # None, w.R[w.f.reload].type = w.f.type
    PROVE  LET v == update_depenencies(w)
           IN  /\ (Works(v, R, f) /\ v.kind # "none") \/ Done(v, R, Original(f))
               /\ v.kind = "none" => Updates(w, v, w.f.reload)
<1> DEFINE r == w.f.reload
           bad == check_cycle(w.R, w.f.depends, r)
           S == Updated(w, r)
           v == update_depenencies(w)
<1>1. v = IF bad THEN Fails(w, "cyclic") ELSE [w EXCEPT !.rval = r, !.R = S]
  BY Zenon DEF update_depenencies, Unless, Updated
<1>2. PICK N \in Nat : WorkOK(w, R, f, N)
  BY DEF Works
<1>3. Sound(w.R, N) /\ Unique(w.R) /\ Grew(R, w.R) /\ FrameOK(w.f, N) /\ SameFrame(f, w.f)
      /\ w.before \in SUBSET Ids(N) /\ w.of \in IdsOrNone(N)
      /\ w \in Work(w.R, w.f, "none", w.before, w.of, w.rval)
  BY <1>2 DEF WorkOK, IsWork
<1>4. r = f.reload /\ r = Original(f) /\ r \in DOMAIN R /\ r \in DOMAIN w.R /\ w.R[r] = R[r] /\ w.f.type = f.type
  BY <1>3 DEF SameFrame, Original, Ready, Grew
<1>5. w.R[r].type # "placeholder"
  BY <1>3, FrameFields DEF FrameOK, ServiceTypes, Output, Processes
<1>6. r \in Ids(N)
  BY <1>3, <1>4 DEF Sound, Typed
<1>9. ~bad => ~check_cycle(w.R, w.f.depends, r)
  OBVIOUS
<1> HIDE DEF bad, v
<1>7. ASSUME bad PROVE Works(v, R, f) /\ v.kind # "none"
  <2>1. WorkOK(Fails(w, "cyclic"), R, f, N) /\ Fails(w, "cyclic").kind = "cyclic"
    BY <1>2, WorkFails
  <2> QED BY <1>1, <1>7, <2>1 DEF Works
<1>8. ASSUME ~bad PROVE Done(v, R, Original(f)) /\ Updates(w, v, r)
  <2>1. w.R[r].state = "STARTED" => \A i \in DOMAIN w.f.depends : Satisfied(w.R, w.f.depends[i])
    <3> SUFFICES ASSUME w.R[r].state = "STARTED", NEW i \in DOMAIN w.f.depends, w.f.depends[i][2] = "REGULAR"
                 PROVE  w.R[w.f.depends[i][1]].state = "STARTED"
      BY DEF Satisfied
    <3>1. PICK j \in DOMAIN f.depends : f.depends[j] = w.f.depends[i]
      BY <1>3 DEF SameFrame
    <3>2. R[f.depends[j][1]].state = "STARTED"
      BY <1>4, <3>1 DEF Works, Checked
    <3>3. f.depends[j][1] \in DOMAIN R
      BY DEF Ready
    <3> QED BY <1>3, <3>1, <3>2, <3>3 DEF Grew
  <2>2. Sound(S, N) /\ Relinks(w.R, S) /\ GivesLinks(w.R, S, r, w.f.depends, w.before)
    BY <1>3, <1>4, <1>5, <2>1, UpdatedSound
  <2>3. v = [w EXCEPT !.rval = r, !.R = S]
    BY <1>1, <1>8
  <2> HIDE DEF S, r
  <2>4. v \in Work(S, w.f, "none", w.before, w.of, r)
    BY <1>3, <2>3, Zenon DEF Work
  <2>5. v.R = S /\ v.kind = "none" /\ v.of = w.of /\ v.rval = r /\ IsWork(v)
    BY <2>4, WorkFields
  <2>6. Unique(S)
    BY <1>3, <2>2 DEF Unique, Relinks
  <2>7. After(R, S, r, r)
    BY <1>3, <1>4, <1>5, <2>2 DEF After, Relinks, Grew, Same
  <2>8. Updates(w, v, r)
    BY <1>8, <1>9, <2>2, <2>5 DEF Updates
  <2>9. Done(v, R, Original(f))
    BY <1>3, <1>4, <1>6, <2>2, <2>5, <2>6, <2>7 DEF Done
  <2> QED BY <2>8, <2>9
<1> QED BY <1>7, <1>8 DEF v

LEMMA CreateDone ==
    ASSUME NEW w, NEW R, NEW f, Works(w, R, f), w.kind = "none", Ready(R, f),
           ~(w.f.reload # None /\ w.R[w.f.reload].type = w.f.type)
    PROVE  LET v == create_new_record(w)
           IN  /\ (Works(v, R, f) /\ v.kind # "none") \/ Done(v, R, Original(f))
               /\ v.kind = "none" => Creates(w, v, Original(f))
<1> DEFINE orig == Original(w.f)
           id == FreshId(w.R, w.f.name)
           bad == w.f.reload # None /\ check_cycle(w.R, w.f.depends, w.f.reload)
           S == Replacement(w, orig, id)
           v == create_new_record(w)
<1>1. v = IF bad THEN Fails(w, "cyclic") ELSE [w EXCEPT !.rval = id, !.R = S]
  BY Zenon DEF create_new_record, Unless, Replacement, Original
<1>2. PICK N \in Nat : WorkOK(w, R, f, N)
  BY DEF Works
<1> DEFINE M == N + 1
<1>3. WorkOK(w, R, f, M) /\ M \in Nat
  <2>1. M \in Nat /\ N <= M
    OBVIOUS
  <2> HIDE DEF M
  <2> QED BY <1>2, <2>1, WorkGrows
<1>4. Sound(w.R, M) /\ Unique(w.R) /\ Grew(R, w.R) /\ FrameOK(w.f, M) /\ SameFrame(f, w.f)
      /\ w.before \in SUBSET Ids(M) /\ w.of \in IdsOrNone(M) /\ Typed(w.R, N)
      /\ w \in Work(w.R, w.f, "none", w.before, w.of, w.rval)
  BY <1>2, <1>3 DEF WorkOK, IsWork, Sound
<1>5. orig = Original(f) /\ orig \in DOMAIN R /\ orig \in DOMAIN w.R /\ w.R[orig] = R[orig]
  BY <1>4 DEF SameFrame, Original, Ready, Grew
<1>6. orig[1] = w.f.name /\ w.f.name \in Names
  BY <1>4, FrameFields DEF FrameOK, Original
<1>7. w.R[orig].state = "STOPPED"
  <2>1. CASE f.reload = None
    <3>1. R[orig].type = "placeholder"
      BY <1>5, <2>1 DEF Ready, Original
    <3>2. Bare(w.R, orig)
      BY <1>4, <1>5, <3>1 DEF Sound, Linked
    <3> QED BY <3>2 DEF Bare
  <2>2. CASE f.reload # None
    <3>1. f.reload = orig /\ f.reload = w.f.reload /\ f.type = w.f.type
      BY <1>4, <1>5, <2>2 DEF SameFrame, Original
    <3>2. R[orig].type # f.type
      BY <1>5, <2>2, <3>1
    <3> QED BY <1>5, <2>2, <3>1, <3>2 DEF Works, Checked
  <2> QED BY <2>1, <2>2
<1>8. id \in Ids(M) /\ id[1] = w.f.name /\ id \notin Mentioned(w.R)
  BY <1>2, <1>4, <1>6, Fresh
<1>11. (~bad /\ w.f.reload # None) => ~check_cycle(w.R, w.f.depends, w.f.reload)
  OBVIOUS
<1> HIDE DEF bad, v, M, id, orig
<1>9. ASSUME bad PROVE Works(v, R, f) /\ v.kind # "none"
  <2>1. WorkOK(Fails(w, "cyclic"), R, f, N) /\ Fails(w, "cyclic").kind = "cyclic"
    BY <1>2, WorkFails
  <2> QED BY <1>1, <1>9, <2>1 DEF Works
<1>10. ASSUME ~bad PROVE Done(v, R, Original(f)) /\ Creates(w, v, Original(f))
  <2>1. Replaces(w.R, S, orig, id, M) /\ TakesLinks(w.R, S, orig, id, w.f.depends, w.before)
    BY <1>4, <1>5, <1>6, <1>7, <1>8, ReplacementReplaces
  <2>2. v = [w EXCEPT !.rval = id, !.R = S]
    BY <1>1, <1>10
  <2> HIDE DEF S
  <2>3. v \in Work(S, w.f, "none", w.before, w.of, id)
    BY <1>4, <2>2, Zenon DEF Work
  <2>4. v.R = S /\ v.kind = "none" /\ v.of = w.of /\ v.rval = id /\ IsWork(v)
    BY <2>3, WorkFields
  <2>5. /\ Sound(S, M) /\ Unique(S) /\ id \in Ids(M) /\ id \notin DOMAIN w.R /\ id[1] = orig[1] /\ orig \notin DOMAIN S
        /\ DOMAIN S \subseteq DOMAIN w.R \cup {id}
        /\ w.R[orig].type = "placeholder" => DOMAIN S = (DOMAIN w.R \cup {id}) \ {orig}
        /\ \A x \in DOMAIN S : IF x = id THEN S[x].type # "placeholder" /\ ~S[x].loading ELSE Same(w.R[x], S[x])
    BY <2>1 DEF Replaces
  <2>6. /\ DOMAIN R \subseteq DOMAIN w.R /\ (\A x \in DOMAIN R : w.R[x] = R[x])
        /\ \A x \in DOMAIN w.R : x \notin DOMAIN R => ~w.R[x].loading
    BY <1>4 DEF Grew
  <2>7. \A x \in DOMAIN S : IF x \in DOMAIN R THEN Same(R[x], S[x]) ELSE ~S[x].loading
    <3> SUFFICES ASSUME NEW x \in DOMAIN S PROVE IF x \in DOMAIN R THEN Same(R[x], S[x]) ELSE ~S[x].loading
      OBVIOUS
    <3>1. CASE x = id
      BY <2>5, <2>6, <3>1
    <3>2. CASE x # id
      <4>1. Same(w.R[x], S[x]) /\ x \in DOMAIN w.R
        BY <2>5, <3>2
      <4> QED BY <2>6, <4>1 DEF Same
    <3> QED BY <3>1, <3>2
  <2>8. ASSUME R[orig].type = "placeholder"
        PROVE  /\ orig \notin DOMAIN S /\ DOMAIN R \ {orig} \subseteq DOMAIN S
               /\ id \in DOMAIN S /\ id \notin DOMAIN R /\ id[1] = orig[1] /\ S[id].type # "placeholder"
    BY <1>5, <2>5, <2>6, <2>8
  <2>9. After(R, S, orig, id)
    BY <2>7, <2>8 DEF After
  <2>10. Creates(w, v, Original(f))
    BY <1>5, <1>8, <1>10, <1>11, <2>1, <2>4 DEF Creates
  <2>11. Done(v, R, Original(f))
    BY <1>3, <1>4, <1>5, <2>4, <2>5, <2>9 DEF Done
  <2> QED BY <2>10, <2>11
<1> QED BY <1>9, <1>10 DEF v

LEMMA MarkDone ==
    ASSUME NEW w, NEW R, NEW orig, Done(w, R, orig)
    PROVE  Done(MarkConsumer(w), R, orig) /\ (MarkConsumer(w).R = w.R \/ Shrunk(w.R, MarkConsumer(w).R))
<1> DEFINE v == MarkConsumer(w)
           S == Marked(w.R, w.rval, w.of)
<1>1. v = IF w.f.type \notin Processes THEN w ELSE [w EXCEPT !.R = S]
  BY Zenon DEF MarkConsumer, Unless, Marked, Done
<1>2. PICK N \in Nat : /\ Sound(w.R, N) /\ Unique(w.R) /\ w.rval \in Ids(N) /\ w.of \in IdsOrNone(N)
                       /\ After(R, w.R, orig, w.rval)
  BY DEF Done
<1>3. Sound(S, N) /\ Relinks(w.R, S) /\ Shrunk(w.R, S)
  BY <1>2, MarkedSound DEF IdsOrNone
<1>4. w \in Work(w.R, w.f, "none", w.before, w.of, w.rval) /\ w.kind = "none"
  BY DEF Done, IsWork
<1> HIDE DEF S, v
<1>5. CASE w.f.type \notin Processes
  BY <1>1, <1>5 DEF v
<1>6. CASE w.f.type \in Processes
  <2>1. v = [w EXCEPT !.R = S]
    BY <1>1, <1>6
  <2>2. v \in Work(S, w.f, "none", w.before, w.of, w.rval)
    BY <1>4, <2>1, Zenon DEF Work
  <2>3. v.R = S /\ v.kind = "none" /\ v.of = w.of /\ v.rval = w.rval /\ IsWork(v)
    BY <1>4, <2>2, WorkFields
  <2>4. Unique(S)
    BY <1>2, <1>3 DEF Unique, Relinks
  <2>5. After(R, S, orig, w.rval)
    BY <1>2, <1>3 DEF After, Relinks, Same
  <2> QED BY <1>2, <1>3, <2>3, <2>4, <2>5 DEF Done, v
<1> QED BY <1>5, <1>6

----------------------------------------------------------------------------
(* The inductive invariant: records R, frames K, what the last call gave t *)

Frames(K, N) == K \in Seq(Frame(N)) /\ \A i \in DOMAIN K : FrameOK(K[i], N)
Returns(t, N) == t = NoReturn \/ (\E id \in Ids(N) : t = Returned(id)) \/ \E k \in Errors : t = Thrown(k)

\* A frame that waits for a call is at a line that names a service.
Calls(f) == f.todo # <<>> /\ f.todo[1].set \in DOMAIN DepTypes \cup DOMAIN EntryTypes
Callers(K, t) == \A i \in DOMAIN K : (i < Len(K) \/ t # NoReturn) => Calls(K[i])

\* A record that is marked is the dummy of a frame.
Marks(R, K) == \A r \in DOMAIN R : R[r].loading => \E i \in DOMAIN K : K[i].dummy = r

\* No error is on its way up.  (An error other than "not found" goes up to the first frame.)
Calm(t) == t.kind \in {"none", "ok", "not_found"}

\* Until there is one, each frame has its dummy, or the placeholder that it fills in: that is
\* there, or another call has loaded the service.  The services that a frame depends on are loaded.
Dummies(R, K) == \A i \in DOMAIN K : K[i].reload = None => K[i].dummy \in DOMAIN R /\ R[K[i].dummy].loading
Distinct(K) == \A i, j \in DOMAIN K : (i # j /\ K[i].dummy # None) => K[i].dummy # K[j].dummy
Fills(R, f, r) ==
    /\ r[1] = f.name
    /\ IF r = f.reload THEN R[r].type = "placeholder" /\ ~R[r].loading ELSE R[r].type # "placeholder"
Pending(R, K) == \A i \in DOMAIN K : (i > 1 /\ K[i].reload # None) => \E r \in DOMAIN R : Fills(R, K[i], r)
IsLoaded(R, r) == r \in DOMAIN R /\ R[r].type # "placeholder"
Loaded(R, K) == \A i \in DOMAIN K : \A j \in DOMAIN K[i].depends : IsLoaded(R, K[i].depends[j][1])
Result(R, K, t) == (K # <<>> /\ t.kind = "ok") => IsLoaded(R, t.id)
Tidy(R, K, t) == Dummies(R, K) /\ Distinct(K) /\ Pending(R, K) /\ Loaded(R, K) /\ Result(R, K, t)

LoaderInv(R, K, t, N) ==
    /\ Sound(R, N) /\ Unique(R) /\ Frames(K, N) /\ Returns(t, N) /\ Callers(K, t) /\ Marks(R, K)
    /\ Calm(t) => Tidy(R, K, t)

LEMMA InvGrows ==
    ASSUME NEW N \in Nat, NEW M \in Nat, N <= M, NEW R, NEW K, NEW t, LoaderInv(R, K, t, N)
    PROVE  LoaderInv(R, K, t, M)
<1>1. Sound(R, M)
  BY SoundGrows DEF LoaderInv
<1>2. \A i \in DOMAIN K : FrameOK(K[i], M)
  BY FrameGrows DEF LoaderInv, Frames
<1>3. K \in Seq(Frame(M))
  <2>1. K \in Seq(Frame(N)) /\ \A i \in DOMAIN K : K[i] \in Frame(M)
    BY <1>2 DEF LoaderInv, Frames, FrameOK
  <2> QED BY <2>1
<1>4. Returns(t, M)
  BY RecGrows DEF LoaderInv, Returns
<1> QED BY <1>1, <1>2, <1>3, <1>4 DEF LoaderInv, Frames

\* The stack without its last frame.
LEMMA Popped ==
    ASSUME NEW T, NEW K \in Seq(T), K # <<>>
    PROVE  LET B == SubSeq(K, 1, Len(K) - 1)
           IN  /\ B \in Seq(T) /\ Len(K) \in DOMAIN K /\ Len(K) \in Nat \ {0} /\ DOMAIN K = 1 .. Len(K)
               /\ DOMAIN B = 1 .. Len(K) - 1 /\ \A i \in DOMAIN B : B[i] = K[i]
<1> DEFINE n == Len(K) - 1
           B == SubSeq(K, 1, n)
<1>1. Len(K) \in Nat /\ Len(K) # 0 /\ DOMAIN K = 1 .. Len(K)
  OBVIOUS
<1>2. n \in Nat /\ 1 \in 1 .. Len(K) + 1 /\ n \in 0 .. Len(K)
  BY <1>1
<1> HIDE DEF n
<1>3. B \in Seq(T) /\ Len(B) = n /\ \A i \in 1 .. n : B[i] = K[i]
  BY <1>1, <1>2
<1>4. DOMAIN B = 1 .. n
  BY <1>2, <1>3
<1> HIDE DEF B
<1> QED BY <1>1, <1>3, <1>4 DEF B, n

LEMMA KindsCalm ==
    /\ Calm(NoReturn) /\ NoReturn.kind = "none"
    /\ \A id : Calm(Returned(id)) /\ Returned(id).kind = "ok" /\ Returned(id).id = id
    /\ \A k \in Errors : Thrown(k).kind = k /\ (Calm(Thrown(k)) <=> k = "not_found")
BY DEF Calm, NoReturn, Returned, Thrown, Errors

\* A call throws: its dummy is gone.
LEMMA PopThrow ==
    ASSUME NEW N \in Nat, NEW R, NEW K, NEW t, LoaderInv(R, K, t, N), K # <<>>,
           NEW M \in Nat, N <= M, NEW S, Sound(S, M), Unique(S),
           NEW k \in {"load", "cyclic", "description"},
           \A x \in DOMAIN S : S[x].loading => x \in DOMAIN R /\ R[x].loading,
           K[Len(K)].dummy \notin DOMAIN S
    PROVE  LoaderInv(S, SubSeq(K, 1, Len(K) - 1), Thrown(k), M)
<1> DEFINE B == SubSeq(K, 1, Len(K) - 1)
<1>1. Frames(K, M) /\ Marks(R, K) /\ Callers(K, t)
  BY InvGrows DEF LoaderInv
<1>2. /\ B \in Seq(Frame(M)) /\ Len(K) \in DOMAIN K /\ Len(K) \in Nat \ {0} /\ DOMAIN K = 1 .. Len(K)
      /\ DOMAIN B = 1 .. Len(K) - 1 /\ \A i \in DOMAIN B : B[i] = K[i]
  BY <1>1, Popped DEF Frames
<1> HIDE DEF B
<1>3. Frames(B, M)
  BY <1>1, <1>2 DEF Frames
<1>7. Callers(B, Thrown(k))
  BY <1>1, <1>2 DEF Callers
<1>4. Marks(S, B)
  <2> SUFFICES ASSUME NEW x \in DOMAIN S, S[x].loading PROVE \E i \in DOMAIN B : B[i].dummy = x
    BY DEF Marks
  <2>1. PICK i \in DOMAIN K : K[i].dummy = x
    BY <1>1 DEF Marks
  <2>2. i # Len(K)
    BY <2>1
  <2>3. i \in DOMAIN B
    BY <1>2, <2>2
  <2> QED BY <1>2, <2>1, <2>3
<1>5. k \in Errors /\ Returns(Thrown(k), M)
  BY DEF Returns, Errors
<1>6. ~Calm(Thrown(k))
  BY <1>5, KindsCalm
<1> QED BY <1>3, <1>4, <1>5, <1>6, <1>7 DEF LoaderInv, B

\* A call returns: its record is there.
LEMMA PopDone ==
    ASSUME NEW N \in Nat, NEW R, NEW K, LoaderInv(R, K, NoReturn, N), K # <<>>,
           NEW M \in Nat, N <= M, NEW S, Sound(S, M), Unique(S), NEW id \in Ids(M),
           Original(K[Len(K)]) \in DOMAIN R, After(R, S, Original(K[Len(K)]), id)
    PROVE  LoaderInv(S, SubSeq(K, 1, Len(K) - 1), Returned(id), M)
<1> DEFINE n == Len(K)
           f == K[n]
           B == SubSeq(K, 1, Len(K) - 1)
           orig == Original(f)
<1>1. /\ Frames(K, M) /\ Marks(R, K) /\ Sound(R, M) /\ Unique(R) /\ Callers(K, NoReturn)
      /\ Dummies(R, K) /\ Distinct(K) /\ Pending(R, K) /\ Loaded(R, K)
  BY InvGrows, KindsCalm DEF LoaderInv, Tidy
<1>2. /\ B \in Seq(Frame(M)) /\ n \in DOMAIN K /\ n \in Nat \ {0} /\ DOMAIN K = 1 .. n
      /\ DOMAIN B = 1 .. n - 1 /\ \A i \in DOMAIN B : B[i] = K[i]
  BY <1>1, Popped DEF Frames
<1>3. FrameOK(f, M)
  BY <1>1, <1>2 DEF Frames
<1>20. Callers(B, Returned(id))
  BY <1>1, <1>2 DEF Callers
<1> HIDE DEF B, n
<1>4. \A i \in DOMAIN B : i \in DOMAIN K /\ i # n /\ n > 1
  BY <1>2
<1>5. Frames(B, M)
  BY <1>1, <1>2, <1>4 DEF Frames
<1>6. \A x \in DOMAIN R : x # None
  <2>1. \A x \in Ids(M) : x # None
    BY DEF Ids, None
  <2> QED BY <1>1, <2>1 DEF Sound, Typed
<1>7. \A x \in DOMAIN S : IF x \in DOMAIN R THEN Same(R[x], S[x]) ELSE ~S[x].loading
  BY DEF After, n
<1>8. orig \in DOMAIN R /\ (f.reload = None => orig = f.dummy /\ R[orig].loading) /\ (f.reload # None => orig = f.reload /\ f.dummy = None)
  BY <1>1, <1>2, <1>3 DEF Original, Dummies, FrameOK, n
<1>9. f.reload = None => R[orig].type = "placeholder"
  BY <1>1, <1>8 DEF Sound, Named
<1>10. (n > 1 /\ f.reload # None) => R[orig].type = "placeholder" /\ ~R[orig].loading
  <2> SUFFICES ASSUME n > 1, f.reload # None PROVE R[orig].type = "placeholder" /\ ~R[orig].loading
    OBVIOUS
  <2>1. PICK r \in DOMAIN R : Fills(R, f, r)
    BY <1>1, <1>2 DEF Pending
  <2>2. r[1] = orig[1]
    BY <1>3, <1>8, <2>1 DEF Fills, FrameOK
  <2>3. r = orig
    BY <1>1, <1>8, <2>2 DEF Unique
  <2> QED BY <1>8, <2>1, <2>3 DEF Fills
<1>11. R[orig].type = "placeholder" =>
         /\ orig \notin DOMAIN S /\ DOMAIN R \ {orig} \subseteq DOMAIN S
         /\ id \in DOMAIN S /\ id \notin DOMAIN R /\ id[1] = orig[1] /\ S[id].type # "placeholder"
  BY DEF After, n
<1> HIDE DEF orig, f
<1>12. Marks(S, B)
  <2> SUFFICES ASSUME NEW x \in DOMAIN S, S[x].loading PROVE \E i \in DOMAIN B : B[i].dummy = x
    BY DEF Marks
  <2>1. x \in DOMAIN R /\ R[x].loading
    BY <1>7 DEF Same
  <2>2. PICK i \in DOMAIN K : K[i].dummy = x
    BY <1>1, <2>1 DEF Marks
  <2>3. i # n
    <3> SUFFICES ASSUME i = n PROVE FALSE
      OBVIOUS
    <3>1. f.dummy = x
      BY <2>2 DEF f
    <3>2. f.reload = None
      BY <1>6, <1>8, <2>1, <3>1
    <3> QED BY <1>8, <1>9, <1>11, <3>1, <3>2
  <2>4. i \in DOMAIN B
    BY <1>2, <2>3
  <2> QED BY <1>2, <2>2, <2>4
<1>13. ASSUME NEW i \in DOMAIN B
       PROVE  R[orig].type = "placeholder" /\ (f.reload # None => ~R[orig].loading)
  BY <1>4, <1>9, <1>10
<1>14. Dummies(S, B)
  <2> SUFFICES ASSUME NEW i \in DOMAIN B, K[i].reload = None
               PROVE  K[i].dummy \in DOMAIN S /\ S[K[i].dummy].loading
    BY <1>2 DEF Dummies
  <2>1. i \in DOMAIN K /\ i # n /\ K[i].dummy \in DOMAIN R /\ R[K[i].dummy].loading
    BY <1>1, <1>4 DEF Dummies
  <2>2. K[i].dummy # orig
    <3>1. CASE f.reload = None
      BY <1>1, <1>2, <1>6, <1>8, <2>1, <3>1 DEF Distinct, f
    <3>2. CASE f.reload # None
      BY <1>13, <2>1, <3>2
    <3> QED BY <3>1, <3>2
  <2>3. K[i].dummy \in DOMAIN S
    BY <1>11, <1>13, <2>1, <2>2
  <2> QED BY <1>7, <2>1, <2>3 DEF Same
<1>15. Distinct(B)
  BY <1>1, <1>2, <1>4 DEF Distinct
<1>16. Pending(S, B)
  <2> SUFFICES ASSUME NEW i \in DOMAIN B, i > 1, K[i].reload # None
               PROVE  \E r \in DOMAIN S : Fills(S, K[i], r)
    BY <1>2 DEF Pending
  <2>1. PICK r \in DOMAIN R : Fills(R, K[i], r)
    BY <1>1, <1>4 DEF Pending
  <2>2. CASE r = orig
    <3>1. R[orig].type = "placeholder" /\ K[i].reload = orig
      BY <1>13, <2>1, <2>2 DEF Fills
    <3>2. id \in DOMAIN S /\ id # orig /\ id[1] = K[i].name /\ S[id].type # "placeholder"
      BY <1>8, <1>11, <2>1, <2>2, <3>1 DEF Fills
    <3> QED BY <3>1, <3>2 DEF Fills
  <2>3. CASE r # orig
    <3>1. r \in DOMAIN S /\ Same(R[r], S[r])
      BY <1>7, <1>11, <1>13, <2>3
    <3> QED BY <2>1, <3>1 DEF Fills, Same
  <2> QED BY <2>2, <2>3
<1>17. Loaded(S, B)
  <2> SUFFICES ASSUME NEW i \in DOMAIN B, NEW j \in DOMAIN K[i].depends
               PROVE  IsLoaded(S, K[i].depends[j][1])
    BY <1>2 DEF Loaded
  <2> DEFINE x == K[i].depends[j][1]
  <2>1. x \in DOMAIN R /\ R[x].type # "placeholder"
    BY <1>1, <1>4 DEF Loaded, IsLoaded
  <2> HIDE DEF x
  <2>2. x \in DOMAIN S /\ Same(R[x], S[x])
    BY <1>7, <1>11, <1>13, <2>1
  <2>3. IsLoaded(S, x)
    BY <2>1, <2>2 DEF IsLoaded, Same
  <2> QED BY <2>3 DEF x
<1>18. Result(S, B, Returned(id))
  <2> SUFFICES ASSUME B # <<>> PROVE IsLoaded(S, id)
    BY KindsCalm DEF Result
  <2>1. \E i \in DOMAIN B : TRUE
    BY <1>2
  <2> QED BY <1>11, <1>13, <2>1 DEF IsLoaded
<1>19. Returns(Returned(id), M)
  BY DEF Returns
<1> QED BY <1>5, <1>12, <1>14, <1>15, <1>16, <1>17, <1>18, <1>19, <1>20 DEF LoaderInv, Tidy, B

\* The last frame goes on.
LEMMA SetTop ==
    ASSUME NEW N, NEW R, NEW K, NEW t, LoaderInv(R, K, t, N), K # <<>>, Calm(t),
           NEW g, FrameOK(g, N), g.name = K[Len(K)].name, g.reload = K[Len(K)].reload, g.dummy = K[Len(K)].dummy,
           \A j \in DOMAIN g.depends : IsLoaded(R, g.depends[j][1])
    PROVE  LoaderInv(R, Append(SubSeq(K, 1, Len(K) - 1), g), NoReturn, N)
<1> DEFINE n == Len(K)
           B == SubSeq(K, 1, Len(K) - 1)
           L == Append(B, g)
<1>1. /\ Frames(K, N) /\ Marks(R, K) /\ Callers(K, t)
      /\ Dummies(R, K) /\ Distinct(K) /\ Pending(R, K) /\ Loaded(R, K)
  BY DEF LoaderInv, Tidy
<1>2. /\ B \in Seq(Frame(N)) /\ n \in DOMAIN K /\ n \in Nat \ {0} /\ DOMAIN K = 1 .. n
      /\ DOMAIN B = 1 .. n - 1 /\ \A i \in DOMAIN B : B[i] = K[i]
  BY <1>1, Popped DEF Frames
<1>3. g \in Frame(N)
  BY DEF FrameOK
<1> HIDE DEF B
<1>4. L \in Seq(Frame(N)) /\ Len(L) = n /\ DOMAIN L = DOMAIN K /\ \A i \in DOMAIN K : L[i] = IF i = n THEN g ELSE K[i]
  <2> HIDE DEF n
  <2>1. Len(B) = n - 1
    BY <1>2
  <2>2. L \in Seq(Frame(N)) /\ Len(L) = Len(B) + 1 /\ DOMAIN L = 1 .. Len(B) + 1 /\ \A i \in 1 .. Len(B) + 1 : L[i] = IF i <= Len(B) THEN B[i] ELSE g
    BY <1>2, <1>3
  <2> QED BY <1>2, <2>1, <2>2
<1> HIDE DEF L
<1>11. Callers(L, NoReturn)
  <2> SUFFICES ASSUME NEW i \in DOMAIN L, i < Len(L) PROVE Calls(L[i])
    BY DEF Callers
  <2>1. i \in DOMAIN K /\ i < Len(K) /\ L[i] = K[i]
    BY <1>2, <1>4
  <2> QED BY <1>1, <2>1 DEF Callers
<1>5. \A i \in DOMAIN K : L[i].name = K[i].name /\ L[i].reload = K[i].reload /\ L[i].dummy = K[i].dummy
  BY <1>4 DEF n
<1>6. Frames(L, N)
  BY <1>1, <1>4 DEF Frames
<1>7. Marks(R, L) /\ Dummies(R, L) /\ Distinct(L)
  BY <1>1, <1>4, <1>5 DEF Marks, Dummies, Distinct
<1>8. Pending(R, L)
  <2> SUFFICES ASSUME NEW i \in DOMAIN K, i > 1, K[i].reload # None
               PROVE  \E r \in DOMAIN R : Fills(R, L[i], r)
    BY <1>4, <1>5 DEF Pending
  <2>1. PICK r \in DOMAIN R : Fills(R, K[i], r)
    BY <1>1 DEF Pending
  <2>2. Fills(R, L[i], r)
    BY <1>5, <2>1 DEF Fills
  <2> QED BY <2>2
<1>9. Loaded(R, L)
  BY <1>1, <1>4 DEF Loaded
<1>10. Returns(NoReturn, N) /\ Result(R, L, NoReturn)
  BY KindsCalm DEF Returns, Result
<1> QED BY <1>6, <1>7, <1>8, <1>9, <1>10, <1>11 DEF LoaderInv, Tidy, L, B

\* A new call.
LEMMA NewFrameOK ==
    ASSUME NEW N, NEW n \in Names, NEW reload \in IdsOrNone(N), NEW dummy \in IdsOrNone(N), NEW lines \in Seq(Lines),
           IF reload = None THEN dummy # None /\ dummy[1] = n ELSE dummy = None /\ reload[1] = n
    PROVE  LET f == NewFrame(n, reload, dummy, lines)
           IN  FrameOK(f, N) /\ f.name = n /\ f.reload = reload /\ f.dummy = dummy /\ f.depends = <<>>
<1> DEFINE f == NewFrame(n, reload, dummy, lines)
<1>1. <<>> \in Seq(Links(N)) /\ <<>> \in Seq(Names) /\ "internal" \in ServiceTypes /\ {} \in SUBSET STRING
  BY DEF ServiceTypes
<1>2. f \in Frame(N)
  BY <1>1, Zenon DEF NewFrame, Frame
<1>3. f.name = n /\ f.reload = reload /\ f.dummy = dummy /\ f.depends = <<>>
  BY DEF NewFrame
<1> QED BY <1>2, <1>3 DEF FrameOK

LEMMA PushFrame ==
    ASSUME NEW N, NEW R, NEW K, LoaderInv(R, K, NoReturn, N), K # <<>> => Calls(K[Len(K)]),
           NEW M, Frames(K, M), NEW S, Sound(S, M), Unique(S),
           NEW f, FrameOK(f, M), f.depends = <<>>,
           \A x \in DOMAIN S : S[x].loading => x = f.dummy \/ (x \in DOMAIN R /\ R[x].loading),
           \A x \in DOMAIN R : x \in DOMAIN S /\ S[x] = R[x],
           f.reload = None => f.dummy \in DOMAIN S /\ S[f.dummy].loading /\ f.dummy \notin DOMAIN R,
           (K # <<>> /\ f.reload # None) => \E r \in DOMAIN S : Fills(S, f, r)
    PROVE  LoaderInv(S, Append(K, f), NoReturn, M)
<1> DEFINE n == Len(K) + 1
           L == Append(K, f)
<1>1. /\ Callers(K, NoReturn) /\ Marks(R, K) /\ Dummies(R, K) /\ Distinct(K) /\ Pending(R, K) /\ Loaded(R, K)
  BY KindsCalm DEF LoaderInv, Tidy
<1>2. f \in Frame(M) /\ K \in Seq(Frame(M))
  BY DEF FrameOK, Frames
<1>3. /\ L \in Seq(Frame(M)) /\ DOMAIN K = 1 .. Len(K) /\ Len(K) \in Nat /\ DOMAIN L = 1 .. n
      /\ \A i \in 1 .. n : L[i] = IF i <= Len(K) THEN K[i] ELSE f
  BY <1>2
<1> HIDE DEF L
<1>4. /\ n \in DOMAIN L /\ L[n] = f /\ (\A i \in DOMAIN K : i \in DOMAIN L /\ L[i] = K[i])
      /\ \A i \in DOMAIN L : i = n \/ i \in DOMAIN K
  BY <1>3
<1>5. n > 1 => K # <<>>
  BY <1>3
<1>6. n \notin DOMAIN K
  BY <1>3
<1>16. Callers(L, NoReturn)
  <2> SUFFICES ASSUME NEW i \in DOMAIN L, i < Len(L) PROVE Calls(L[i])
    BY DEF Callers
  <2>1. Len(L) = n /\ i \in DOMAIN K /\ L[i] = K[i] /\ (i < Len(K) \/ i = Len(K)) /\ K # <<>>
    BY <1>3, <1>4
  <2> QED BY <1>1, <2>1 DEF Callers
<1> HIDE DEF n
<1>7. Frames(L, M)
  BY <1>3, <1>4 DEF Frames
<1>8. Marks(S, L)
  BY <1>1, <1>4 DEF Marks
<1>9. Dummies(S, L)
  BY <1>1, <1>4 DEF Dummies
<1>10. ASSUME NEW i \in DOMAIN K, K[i].dummy # None PROVE K[i].dummy \in DOMAIN R
  <2>1. FrameOK(K[i], M)
    BY DEF Frames
  <2> QED BY <1>1, <1>10, <2>1 DEF FrameOK, Dummies
<1>11. f.dummy # None => f.reload = None
  BY DEF FrameOK
<1>12. Distinct(L)
  BY <1>1, <1>4, <1>6, <1>10, <1>11 DEF Distinct
<1>13. Pending(S, L)
  <2> SUFFICES ASSUME NEW i \in DOMAIN L, i > 1, L[i].reload # None PROVE \E r \in DOMAIN S : Fills(S, L[i], r)
    BY DEF Pending
  <2>1. CASE i = n
    BY <1>4, <1>5, <2>1
  <2>2. CASE i # n
    <3>1. i \in DOMAIN K /\ L[i] = K[i]
      BY <1>4, <2>2
    <3>2. PICK r \in DOMAIN R : Fills(R, K[i], r)
      BY <1>1, <3>1 DEF Pending
    <3>3. Fills(S, K[i], r)
      BY <3>2 DEF Fills
    <3> QED BY <3>1, <3>3
  <2> QED BY <2>1, <2>2
<1>14. Loaded(S, L)
  <2> SUFFICES ASSUME NEW i \in DOMAIN L, NEW j \in DOMAIN L[i].depends
               PROVE  IsLoaded(S, L[i].depends[j][1])
    BY DEF Loaded
  <2>1. i # n
    BY <1>4
  <2>2. IsLoaded(R, L[i].depends[j][1])
    BY <1>1, <1>4, <2>1 DEF Loaded
  <2> QED BY <2>2 DEF IsLoaded
<1>15. Returns(NoReturn, M) /\ Result(S, L, NoReturn)
  BY KindsCalm DEF Returns, Result
<1> QED BY <1>7, <1>8, <1>9, <1>12, <1>13, <1>14, <1>15, <1>16 DEF LoaderInv, Tidy, L

\* The call marks a service that is not there with a dummy.
LEMMA PushNew ==
    ASSUME NEW N \in Nat, NEW R, NEW K, LoaderInv(R, K, NoReturn, N), K # <<>> => Calls(K[Len(K)]),
           NEW n \in Names, NEW lines \in Seq(Lines),
           \A r \in DOMAIN R : r[1] # n
    PROVE  LET id == FreshId(R, n)
           IN  LoaderInv(Put(R, id, NewRecord(n, "placeholder", TRUE)),
                         Append(K, NewFrame(n, None, id, lines)), NoReturn, N + 1)
<1> DEFINE M == N + 1
           id == FreshId(R, n)
           a == NewRecord(n, "placeholder", TRUE)
           S == Put(R, id, a)
           f == NewFrame(n, None, id, lines)
<1>1. /\ Sound(S, M) /\ Adds(R, S, id) /\ S[id] = a /\ id \in Ids(M) /\ id[1] = n /\ a.type = "placeholder" /\ a.loading = TRUE
  <2> DEFINE yes == TRUE
             b == NewRecord(n, "placeholder", yes)
             T == Put(R, id, b)
  <2>1. Sound(R, N) /\ yes \in BOOLEAN
    BY DEF LoaderInv
  <2> HIDE DEF yes
  <2>2. /\ Sound(T, M) /\ Adds(R, T, id) /\ T[id] = b /\ id \in Ids(M) /\ id[1] = n
        /\ b.type = "placeholder" /\ b.loading = yes
    BY <2>1, PutPlaceholder
  <2> QED BY <2>2 DEF yes
<1>2. M \in Nat /\ N <= M
  OBVIOUS
<1> HIDE DEF M, id, a, S
<1>3. LoaderInv(R, K, NoReturn, M)
  BY <1>2, InvGrows
<1>4. id # None /\ id \in IdsOrNone(M) /\ None \in IdsOrNone(M)
  BY <1>1 DEF Ids, IdsOrNone, None
<1>5. FrameOK(f, M) /\ f.name = n /\ f.reload = None /\ f.dummy = id /\ f.depends = <<>>
  BY <1>1, <1>4, NewFrameOK
<1> HIDE DEF f
<1>6. id \notin DOMAIN R /\ DOMAIN S = DOMAIN R \cup {id} /\ \A x \in DOMAIN R : S[x] = R[x]
  BY <1>1 DEF Adds
<1>7. Unique(S)
  BY <1>1, <1>6 DEF LoaderInv, Unique
<1>8. LoaderInv(S, Append(K, f), NoReturn, M)
  BY <1>1, <1>3, <1>5, <1>6, <1>7, PushFrame DEF LoaderInv
<1> QED BY <1>8 DEF M, id, a, S, f

\* The call is to replace a record.
LEMMA PushReload ==
    ASSUME NEW N, NEW R, NEW K, LoaderInv(R, K, NoReturn, N), K # <<>> => Calls(K[Len(K)]),
           NEW r \in DOMAIN R, NEW lines \in Seq(Lines),
           K = <<>> \/ (R[r].type = "placeholder" /\ ~R[r].loading)
    PROVE  LoaderInv(R, Append(K, NewFrame(r[1], r, None, lines)), NoReturn, N)
<1> DEFINE f == NewFrame(r[1], r, None, lines)
<1>1. r \in Ids(N) /\ r[1] \in Names /\ r # None /\ r \in IdsOrNone(N) /\ None \in IdsOrNone(N)
  BY DEF LoaderInv, Sound, Typed, Ids, IdsOrNone, None
<1>2. FrameOK(f, N) /\ f.name = r[1] /\ f.reload = r /\ f.dummy = None /\ f.depends = <<>>
  BY <1>1, NewFrameOK
<1> HIDE DEF f
<1>3. K # <<>> => Fills(R, f, r)
  BY <1>2 DEF Fills
<1>4. LoaderInv(R, Append(K, f), NoReturn, N)
  BY <1>1, <1>2, <1>3, PushFrame DEF LoaderInv
<1> QED BY <1>4 DEF f

----------------------------------------------------------------------------
(* Lines, calls and returns *)

LEMMA LineVals ==
    ASSUME NEW l \in Lines
    PROVE  /\ l.set \in DOMAIN DepTypes \cup DOMAIN EntryTypes \cup {"after", "before", "consumer_of"} => l.val \in Names
           /\ l.set \in DOMAIN DirTypes => l.val \in Seq(Names)
           /\ l.set = "type" => l.val \in ServiceTypes
           /\ l.set = "other" => l.val \in STRING
<1>1. /\ DOMAIN DepTypes = {"depends_on", "depends_ms", "waits_for"}
      /\ DOMAIN DirTypes = {"depends_on_d", "depends_ms_d", "waits_for_d"}
      /\ DOMAIN EntryTypes = {"entry", "entry_ms", "entry_soft"}
  BY DEF DepTypes, DirTypes, EntryTypes
<1> DEFINE A == DOMAIN DepTypes \cup DOMAIN EntryTypes \cup {"after", "before", "consumer_of"}
           O == {"log_type", "options", "other", "bad", "include", "include_opt", "missing", "unreadable"}
<1>2. \/ l.set \in A /\ l.val \in Names
      \/ l.set \in DOMAIN DirTypes /\ l.val \in Seq(Names)
      \/ l.set = "type" /\ l.val \in ServiceTypes
      \/ l.set \in O /\ l.val \in STRING
  <2> HIDE DEF A, O
  <2>1. \/ l \in [set : A, val : Names]
        \/ l \in [set : DOMAIN DirTypes, val : Seq(Names)]
        \/ l \in [set : {"type"}, val : ServiceTypes]
        \/ l \in [set : O, val : STRING]
    BY Zenon DEF Lines, A, O
  <2> QED BY <2>1
<1> QED BY <1>1, <1>2

\* Nothing changes but what the last call gave.
LEMMA SetReturn ==
    ASSUME NEW N, NEW R, NEW K, LoaderInv(R, K, NoReturn, N), K # <<>> => Calls(K[Len(K)]),
           NEW t, Returns(t, N), K # <<>> /\ t.kind = "ok" => IsLoaded(R, t.id)
    PROVE  LoaderInv(R, K, t, N)
<1>1. Callers(K, NoReturn) /\ Frames(K, N) /\ Tidy(R, K, NoReturn)
  BY KindsCalm DEF LoaderInv
<1>2. K \in Seq(Frame(N))
  BY <1>1 DEF Frames
<1>3. \A i \in DOMAIN K : (i < Len(K) \/ i = Len(K)) /\ K # <<>>
  BY <1>2
<1>4. Callers(K, t)
  BY <1>1, <1>3 DEF Callers
<1>5. Tidy(R, K, t)
  BY <1>1 DEF Tidy, Result
<1> QED BY <1>4, <1>5 DEF LoaderInv

\* The call of load_reload_service() for a service that is not there, or to replace a record.
LEMMA CallStep ==
    ASSUME NEW N \in Nat, LoaderInv(recs, stack, NoReturn, N), ret = NoReturn,
           stack # <<>> => Calls(stack[Len(stack)]), disk \in [Names -> Seq(Lines)],
           NEW n \in Names, NEW reload,
           \/ reload = None /\ \A r \in DOMAIN recs : r[1] # n
           \/ /\ reload # None /\ reload \in DOMAIN recs /\ reload[1] = n
              /\ stack = <<>> \/ (recs[reload].type = "placeholder" /\ ~recs[reload].loading),
           Call(recs, n, reload)
    PROVE  \E M \in Nat : LoaderInv(recs', stack', ret', M)
<1>1. disk[n] \in Seq(Lines)
  OBVIOUS
<1>2. CASE disk[n] = Missing \/ (disk[n] # Missing /\ disk[n] = Unreadable)
  <2>1. PICK k \in {"not_found", "load"} : ret' = Thrown(k) /\ recs' = recs /\ stack' = stack
    BY <1>2 DEF Call
  <2>2. k \in Errors
    BY DEF Errors
  <2>3. Returns(Thrown(k), N) /\ Thrown(k).kind # "ok"
    BY <2>2, KindsCalm DEF Returns
  <2>4. LoaderInv(recs, stack, Thrown(k), N)
    BY <2>3, SetReturn
  <2> QED BY <2>1, <2>4
<1>3. CASE disk[n] # Missing /\ disk[n] # Unreadable /\ reload = None
  <2> DEFINE id == FreshId(recs, n)
             S == Put(recs, id, NewRecord(n, "placeholder", TRUE))
             K == Append(stack, NewFrame(n, None, id, disk[n]))
  <2>1. LoaderInv(S, K, NoReturn, N + 1)
    BY <1>1, <1>3, PushNew
  <2>2. recs' = S /\ stack' = K /\ ret' = NoReturn
    BY <1>3, Zenon DEF Call
  <2> HIDE DEF S, K
  <2>3. N + 1 \in Nat
    OBVIOUS
  <2> QED BY <2>1, <2>2, <2>3
<1>4. CASE disk[n] # Missing /\ disk[n] # Unreadable /\ reload # None
  <2> DEFINE K == Append(stack, NewFrame(reload[1], reload, None, disk[n]))
  <2>1. LoaderInv(recs, K, NoReturn, N)
    BY <1>1, <1>4, PushReload
  <2>2. recs' = recs /\ stack' = K /\ ret' = NoReturn
    BY <1>4, Zenon DEF Call
  <2> HIDE DEF K
  <2> QED BY <2>1, <2>2
<1> QED BY <1>2, <1>3, <1>4

LEMMA LoadStep ==
    ASSUME NEW N \in Nat, LoaderInv(recs, stack, NoReturn, N), ret = NoReturn,
           stack # <<>> => Calls(stack[Len(stack)]), disk \in [Names -> Seq(Lines)],
           NEW n \in Names, NEW avoid, load_service(n, avoid)
    PROVE  \E M \in Nat : LoaderInv(recs', stack', ret', M)
<1> DEFINE e == find_service(recs, n)
<1>1. Typed(recs, N) /\ Named(recs)
  BY DEF LoaderInv, Sound
<1>2. \/ e = None /\ \A r \in DOMAIN recs : r[1] # n
      \/ e # None /\ e \in DOMAIN recs /\ e[1] = n
  BY <1>1, FindService
<1>3. CASE e = None
  <2>1. Call(recs, n, None)
    BY <1>3 DEF load_service
  <2> QED BY <1>2, <1>3, <2>1, CallStep
<1>4. CASE e # None /\ (e = avoid \/ recs[e].loading)
  <2>1. ret' = Thrown("cyclic") /\ recs' = recs /\ stack' = stack
    BY <1>4 DEF load_service
  <2>2. "cyclic" \in Errors
    BY DEF Errors
  <2>3. Returns(Thrown("cyclic"), N) /\ Thrown("cyclic").kind # "ok"
    BY <2>2, KindsCalm DEF Returns
  <2>4. LoaderInv(recs, stack, Thrown("cyclic"), N)
    BY <2>3, SetReturn
  <2> QED BY <2>1, <2>4
<1>5. CASE e # None /\ ~(e = avoid \/ recs[e].loading) /\ recs[e].type # "placeholder"
  <2>1. ret' = Returned(e) /\ recs' = recs /\ stack' = stack
    BY <1>5 DEF load_service
  <2>2. e \in Ids(N)
    BY <1>1, <1>2, <1>5 DEF Typed
  <2>3. Returns(Returned(e), N) /\ Returned(e).id = e
    BY <2>2, KindsCalm DEF Returns
  <2>4. IsLoaded(recs, e)
    BY <1>2, <1>5 DEF IsLoaded
  <2>5. LoaderInv(recs, stack, Returned(e), N)
    BY <2>3, <2>4, SetReturn
  <2> QED BY <2>1, <2>5
<1>6. CASE e # None /\ ~(e = avoid \/ recs[e].loading) /\ recs[e].type = "placeholder"
  <2>1. Call(recs, n, e)
    BY <1>6 DEF load_service
  <2> HIDE DEF e
  <2> QED BY <1>2, <1>6, <2>1, CallStep
<1> QED BY <1>3, <1>4, <1>5, <1>6

\* An error ends the last call.
LEMMA ThrowStep ==
    ASSUME NEW N \in Nat, LoaderInv(recs, stack, ret, N), stack # <<>>,
           NEW M \in Nat, N <= M, NEW R, Sound(R, M), Unique(R),
           \A x \in DOMAIN R : R[x].loading => x \in DOMAIN recs /\ recs[x].loading,
           NEW f, f.dummy = Top.dummy, NEW k \in {"load", "cyclic", "description"}, NEW before, NEW of,
           Throw(R, f, k, before, of)
    PROVE  \E L \in Nat : LoaderInv(recs', stack', ret', L)
<1> DEFINE S == exception_cleanup(R, f, before, of)
<1>1. Shrinks(R, S, M) /\ f.dummy \notin DOMAIN S
  BY CleanupShrinks DEF Sound
<1>2. recs' = S /\ stack' = SubSeq(stack, 1, Len(stack) - 1) /\ ret' = Thrown(k)
  BY DEF Throw, Below
<1> HIDE DEF S
<1>3. Sound(S, M) /\ Unique(S)
  BY <1>1, ShrinksSound
<1>4. \A x \in DOMAIN S : S[x].loading => x \in DOMAIN recs /\ recs[x].loading
  BY <1>1 DEF Shrinks, Shrunk, Fewer, Same
<1>5. stack[Len(stack)].dummy \notin DOMAIN S
  BY <1>1 DEF Top
<1>6. LoaderInv(S, SubSeq(stack, 1, Len(stack) - 1), Thrown(k), M)
  BY <1>3, <1>4, <1>5, PopThrow
<1> QED BY <1>2, <1>6

\* The last call goes on, with other settings.
SameCall(f, g) == g.name = f.name /\ g.reload = f.reload /\ g.dummy = f.dummy /\ g.depends = f.depends

LEMMA ContinueStep ==
    ASSUME NEW N \in Nat, LoaderInv(recs, stack, NoReturn, N), stack # <<>>,
           NEW g \in Frame(N), SameCall(Top, g), Continue(g)
    PROVE  \E M \in Nat : LoaderInv(recs', stack', ret', M)
<1>1. Frames(stack, N) /\ Loaded(recs, stack)
  BY KindsCalm DEF LoaderInv, Tidy
<1>2. Len(stack) \in DOMAIN stack
  BY <1>1 DEF Frames
<1>3. FrameOK(Top, N) /\ \A j \in DOMAIN Top.depends : IsLoaded(recs, Top.depends[j][1])
  BY <1>1, <1>2 DEF Frames, Loaded, Top
<1>4. FrameOK(g, N) /\ \A j \in DOMAIN g.depends : IsLoaded(recs, g.depends[j][1])
  BY <1>3 DEF FrameOK, SameCall
<1>5. g.name = stack[Len(stack)].name /\ g.reload = stack[Len(stack)].reload /\ g.dummy = stack[Len(stack)].dummy
  BY DEF SameCall, Top
<1>6. LoaderInv(recs, Append(SubSeq(stack, 1, Len(stack) - 1), g), NoReturn, N)
  BY <1>4, <1>5, SetTop, KindsCalm
<1>7. stack' = Append(SubSeq(stack, 1, Len(stack) - 1), g) /\ recs' = recs /\ ret' = NoReturn
  BY DEF Continue, Below
<1> QED BY <1>6, <1>7

\* The line that is read.
LEMMA TopLine ==
    ASSUME NEW N, LoaderInv(recs, stack, ret, N), NEW sets, HasLine(sets)
    PROVE  /\ ret = NoReturn /\ stack # <<>> /\ FrameOK(Top, N) /\ Top \in Frame(N) /\ Top.todo \in Seq(Lines)
           /\ Line \in Lines /\ Line.set \in sets /\ Tail(Top.todo) \in Seq(Lines)
           /\ Top = stack[Len(stack)] /\ Top.todo # <<>> /\ Line = Top.todo[1]
<1>1. Frames(stack, N) /\ ret = NoReturn /\ stack # <<>> /\ Top.todo # <<>> /\ Line.set \in sets
  BY DEF LoaderInv, HasLine, Reading
<1>2. Len(stack) \in DOMAIN stack
  BY <1>1 DEF Frames
<1>3. FrameOK(Top, N) /\ Top \in Frame(N)
  BY <1>1, <1>2 DEF Frames, Top, FrameOK
<1>4. Top.todo \in Seq(Lines)
  BY <1>3, FrameFields
<1> DEFINE q == Top.todo
<1>5. q \in Seq(Lines) /\ q # <<>>
  BY <1>1, <1>4
<1> HIDE DEF q
<1>6. q[1] \in Lines /\ Tail(q) \in Seq(Lines)
  BY <1>5
<1> QED BY <1>1, <1>3, <1>4, <1>6 DEF q, Line, Top

LEMMA FrameTodo ==
    ASSUME NEW N, NEW f \in Frame(N), NEW q \in Seq(Lines), NEW h, h = [f EXCEPT !.todo = q]
    PROVE  h \in Frame(N) /\ SameCall(f, h)
<1>1. h \in Frame(N)
  BY Zenon DEF Frame
<1>2. SameCall(f, h)
  BY <1>1 DEF Frame, SameCall
<1> QED BY <1>1, <1>2

LEMMA FrameNext ==
    ASSUME NEW N, NEW f \in Frame(N), f.todo # <<>>
    PROVE  Next_(f) \in Frame(N) /\ SameCall(f, Next_(f))
<1> DEFINE q == f.todo
<1>1. q \in Seq(Lines) /\ q # <<>>
  BY FrameFields
<1>2. Next_(f) = [f EXCEPT !.todo = Tail(q)]
  BY DEF Next_
<1> HIDE DEF q
<1>3. Tail(q) \in Seq(Lines)
  BY <1>1
<1> QED BY <1>2, <1>3, FrameTodo

\* The last call goes on after a line that is one of its settings.
LEMMA SettingStep ==
    ASSUME NEW N \in Nat, LoaderInv(recs, stack, ret, N), NEW sets, HasLine(sets),
           NEW h \in Frame(N), SameCall(Next_(Top), h), Continue(h)
    PROVE  \E M \in Nat : LoaderInv(recs', stack', ret', M)
<1>1. ret = NoReturn /\ stack # <<>> /\ Top \in Frame(N) /\ Top.todo # <<>>
  BY TopLine
<1>2. SameCall(Top, Next_(Top))
  BY <1>1, FrameNext
<1>3. SameCall(Top, h)
  BY <1>2 DEF SameCall
<1> QED BY <1>1, <1>3, ContinueStep

LEMMA TypeLineStep ==
    ASSUME NEW N \in Nat, LoaderInv(recs, stack, ret, N), TypeLine
    PROVE  \E M \in Nat : LoaderInv(recs', stack', ret', M)
<1> DEFINE g == Next_(Top)
           v == Line.val
           h == [g EXCEPT !.type = v]
<1>1. HasLine({"type"}) /\ Continue(h)
  BY DEF TypeLine
<1>2. Top \in Frame(N) /\ Top.todo # <<>> /\ Line \in Lines /\ Line.set = "type"
  BY <1>1, TopLine
<1>3. g \in Frame(N)
  BY <1>2, FrameNext
<1>4. v \in ServiceTypes
  BY <1>2, <1>3, LineVals
<1> HIDE DEF g, v
<1>5. h \in Frame(N)
  BY <1>3, <1>4, Zenon DEF Frame
<1>6. SameCall(g, h)
  BY <1>3, <1>5 DEF Frame, SameCall
<1> QED BY <1>1, <1>5, <1>6, SettingStep DEF g

LEMMA LogTypeLineStep ==
    ASSUME NEW N \in Nat, LoaderInv(recs, stack, ret, N), LogTypeLine
    PROVE  \E M \in Nat : LoaderInv(recs', stack', ret', M)
<1> DEFINE g == Next_(Top)
           v == (Line.val = "pipe")
           h == [g EXCEPT !.pipe = v]
<1>1. HasLine({"log_type"}) /\ Continue(h)
  BY DEF LogTypeLine
<1>2. Top \in Frame(N) /\ Top.todo # <<>> /\ Line \in Lines /\ Line.set = "log_type"
  BY <1>1, TopLine
<1>3. g \in Frame(N)
  BY <1>2, FrameNext
<1>4. v \in BOOLEAN
  BY <1>2, <1>3
<1> HIDE DEF g, v
<1>5. h \in Frame(N)
  BY <1>3, <1>4, Zenon DEF Frame
<1>6. SameCall(g, h)
  BY <1>3, <1>5 DEF Frame, SameCall
<1> QED BY <1>1, <1>5, <1>6, SettingStep DEF g

LEMMA OptionsLineStep ==
    ASSUME NEW N \in Nat, LoaderInv(recs, stack, ret, N), OptionsLine
    PROVE  \E M \in Nat : LoaderInv(recs', stack', ret', M)
<1> DEFINE g == Next_(Top)
           v == (Line.val = "starts-on-console")
           h == [g EXCEPT !.console = v]
<1>1. HasLine({"options"}) /\ Continue(h)
  BY DEF OptionsLine
<1>2. Top \in Frame(N) /\ Top.todo # <<>> /\ Line \in Lines /\ Line.set = "options"
  BY <1>1, TopLine
<1>3. g \in Frame(N)
  BY <1>2, FrameNext
<1>4. v \in BOOLEAN
  BY <1>2, <1>3
<1> HIDE DEF g, v
<1>5. h \in Frame(N)
  BY <1>3, <1>4, Zenon DEF Frame
<1>6. SameCall(g, h)
  BY <1>3, <1>5 DEF Frame, SameCall
<1> QED BY <1>1, <1>5, <1>6, SettingStep DEF g

LEMMA OtherLineStep ==
    ASSUME NEW N \in Nat, LoaderInv(recs, stack, ret, N), OtherLine
    PROVE  \E M \in Nat : LoaderInv(recs', stack', ret', M)
<1> DEFINE g == Next_(Top)
           v == g.has \cup {Line.val}
           h == [g EXCEPT !.has = v]
<1>1. HasLine({"other"}) /\ Continue(h)
  BY DEF OtherLine
<1>2. Top \in Frame(N) /\ Top.todo # <<>> /\ Line \in Lines /\ Line.set = "other"
  BY <1>1, TopLine
<1>3. g \in Frame(N)
  BY <1>2, FrameNext
<1>4. v \in SUBSET STRING
  BY <1>2, <1>3, LineVals, FrameFields
<1> HIDE DEF g, v
<1>5. h \in Frame(N)
  BY <1>3, <1>4, Zenon DEF Frame
<1>6. SameCall(g, h)
  BY <1>3, <1>5 DEF Frame, SameCall
<1> QED BY <1>1, <1>5, <1>6, SettingStep DEF g

LEMMA OrderingLineStep ==
    ASSUME NEW N \in Nat, LoaderInv(recs, stack, ret, N), OrderingLine
    PROVE  \E M \in Nat : LoaderInv(recs', stack', ret', M)
<1> DEFINE g == Next_(Top)
           u == Append(g.after, Line.val)
           v == Append(g.before, Line.val)
           a == [g EXCEPT !.after = u]
           b == [g EXCEPT !.before = v]
<1>1. HasLine({"after", "before"}) /\ (Continue(a) \/ Continue(b))
  BY DEF OrderingLine
<1>2. Top \in Frame(N) /\ Top.todo # <<>> /\ Line \in Lines /\ Line.set \in {"after", "before"}
  BY <1>1, TopLine
<1>3. g \in Frame(N)
  BY <1>2, FrameNext
<1>4. g.after \in Seq(Names) /\ g.before \in Seq(Names) /\ Line.val \in Names
  BY <1>2, <1>3, LineVals, FrameFields
<1>5. u \in Seq(Names) /\ v \in Seq(Names)
  BY <1>4
<1> HIDE DEF g, u, v
<1>6. a \in Frame(N) /\ b \in Frame(N)
  BY <1>3, <1>5, Zenon DEF Frame
<1>7. SameCall(g, a) /\ SameCall(g, b)
  BY <1>3, <1>6 DEF Frame, SameCall
<1> HIDE DEF a, b
<1> QED BY <1>1, <1>6, <1>7, SettingStep DEF g

\* An error of this line.
LEMMA LineThrows ==
    ASSUME NEW N \in Nat, LoaderInv(recs, stack, ret, N), stack # <<>>,
           NEW k \in {"load", "cyclic", "description"}, Throw(recs, Top, k, {}, None)
    PROVE  \E M \in Nat : LoaderInv(recs', stack', ret', M)
<1>1. Sound(recs, N) /\ Unique(recs) /\ N <= N
  BY DEF LoaderInv
<1> QED BY <1>1, ThrowStep

LEMMA ConsumerLineStep ==
    ASSUME NEW N \in Nat, LoaderInv(recs, stack, ret, N), ConsumerLine
    PROVE  \E M \in Nat : LoaderInv(recs', stack', ret', M)
<1> DEFINE g == Next_(Top)
           v == Line.val
           h == [g EXCEPT !.consumer_of = v]
<1>1. HasLine({"consumer_of"}) /\ (Throw(recs, Top, "description", {}, None) \/ Continue(h))
  BY DEF ConsumerLine
<1>2. stack # <<>> /\ Top \in Frame(N) /\ Top.todo # <<>> /\ Line \in Lines /\ Line.set = "consumer_of"
  BY <1>1, TopLine
<1>3. g \in Frame(N)
  BY <1>2, FrameNext
<1>4. v \in Names \cup {NoName}
  BY <1>2, LineVals
<1> HIDE DEF g, v
<1>5. h \in Frame(N)
  BY <1>3, <1>4, Zenon DEF Frame
<1>6. SameCall(g, h)
  BY <1>3, <1>5 DEF Frame, SameCall
<1> HIDE DEF h
<1>7. CASE Continue(h)
  BY <1>1, <1>5, <1>6, <1>7, SettingStep DEF g
<1>8. CASE Throw(recs, Top, "description", {}, None)
  BY <1>2, <1>8, LineThrows
<1> QED BY <1>1, <1>7, <1>8

LEMMA BadLineStep ==
    ASSUME NEW N \in Nat, LoaderInv(recs, stack, ret, N), BadLine
    PROVE  \E M \in Nat : LoaderInv(recs', stack', ret', M)
<1>1. HasLine({"bad"}) /\ Throw(recs, Top, "description", {}, None)
  BY DEF BadLine
<1>2. stack # <<>>
  BY <1>1, TopLine
<1> QED BY <1>1, <1>2, LineThrows

LEMMA SkipLine ==
    ASSUME NEW N \in Nat, LoaderInv(recs, stack, ret, N), NEW sets, HasLine(sets), Continue(Next_(Top))
    PROVE  \E M \in Nat : LoaderInv(recs', stack', ret', M)
<1>1. Top \in Frame(N) /\ Top.todo # <<>>
  BY TopLine
<1>2. Next_(Top) \in Frame(N) /\ SameCall(Next_(Top), Next_(Top))
  BY <1>1, FrameNext DEF SameCall
<1> QED BY <1>2, SettingStep

\* Other lines come before the rest.
LEMMA InsertLines ==
    ASSUME NEW N \in Nat, LoaderInv(recs, stack, ret, N), NEW sets, HasLine(sets),
           NEW q \in Seq(Lines), NEW h, h = [Top EXCEPT !.todo = q \o Tail(Top.todo)], Continue(h)
    PROVE  \E M \in Nat : LoaderInv(recs', stack', ret', M)
<1> DEFINE s == Tail(Top.todo)
<1>1. ret = NoReturn /\ stack # <<>> /\ Top \in Frame(N) /\ s \in Seq(Lines)
  BY TopLine
<1> HIDE DEF s
<1>2. q \o s \in Seq(Lines)
  BY <1>1
<1>3. h \in Frame(N) /\ SameCall(Top, h)
  BY <1>1, <1>2, FrameTodo DEF s
<1> QED BY <1>1, <1>3, ContinueStep

LEMMA IncludeLineStep ==
    ASSUME NEW N \in Nat, LoaderInv(recs, stack, ret, N), IncludeLine
    PROVE  \E M \in Nat : LoaderInv(recs', stack', ret', M)
<1> DEFINE q == Includes[Line.val]
           h == [Top EXCEPT !.todo = q \o Tail(Top.todo)]
<1>1. HasLine({"include", "include_opt"}) /\ stack # <<>>
  BY TopLine DEF IncludeLine
<1>2. CASE Line.val \in DOMAIN Includes
  <2>1. q \in Seq(Lines) /\ Continue(h)
    BY <1>2, LoaderAssumption DEF IncludeLine
  <2> HIDE DEF q
  <2> QED BY <1>1, <2>1, InsertLines
<1>3. CASE Line.val \notin DOMAIN Includes /\ Line.set = "include"
  <2>1. Throw(recs, Top, "load", {}, None)
    BY <1>3 DEF IncludeLine
  <2> QED BY <1>1, <2>1, LineThrows
<1>4. CASE Line.val \notin DOMAIN Includes /\ Line.set # "include"
  <2>1. Continue(Next_(Top))
    BY <1>4 DEF IncludeLine
  <2> QED BY <1>1, <2>1, SkipLine
<1> QED BY <1>2, <1>3, <1>4

LEMMA DirectoryLineStep ==
    ASSUME NEW N \in Nat, LoaderInv(recs, stack, ret, N), DirectoryLine
    PROVE  \E M \in Nat : LoaderInv(recs', stack', ret', M)
<1> DEFINE v == Line.val
           e(n) == [set |-> DirTypes[Line.set], val |-> n]
           q == [i \in 1 .. Len(v) |-> e(v[i])]
           h == [Top EXCEPT !.todo = q \o Tail(Top.todo)]
<1>1. HasLine(DOMAIN DirTypes) /\ (Continue(h) \/ Continue(Next_(Top)))
  BY Zenon DEF DirectoryLine
<1>2. Line \in Lines /\ Line.set \in DOMAIN DirTypes
  BY <1>1, TopLine
<1>3. v \in Seq(Names)
  BY <1>2, LineVals
<1>4. DirTypes[Line.set] \in DOMAIN EntryTypes
  BY <1>2 DEF DirTypes, EntryTypes
<1>5. ASSUME NEW n \in Names PROVE e(n) \in Lines
  <2>1. e(n) \in [set : DOMAIN DepTypes \cup DOMAIN EntryTypes \cup {"after", "before", "consumer_of"}, val : Names]
    BY <1>4
  <2> QED BY <2>1, Zenon DEF Lines
<1> HIDE DEF e, v
<1>6. q \in Seq(Lines)
  <2>1. Len(v) \in Nat /\ \A i \in 1 .. Len(v) : v[i] \in Names
    BY <1>3
  <2>2. q \in [1 .. Len(v) -> Lines]
    BY <1>5, <2>1
  <2> HIDE DEF q
  <2> QED BY <2>1, <2>2
<1> HIDE DEF q
<1>7. CASE Continue(h)
  BY <1>1, <1>6, <1>7, InsertLines
<1>8. CASE Continue(Next_(Top))
  BY <1>1, <1>8, SkipLine
<1> QED BY <1>1, <1>7, <1>8

\* A line that names a service to load.
LEMMA LoadLineStep ==
    ASSUME NEW N \in Nat, LoaderInv(recs, stack, ret, N), disk \in [Names -> Seq(Lines)], DependencyLine \/ DirectoryEntry
    PROVE  \E M \in Nat : LoaderInv(recs', stack', ret', M)
<1> DEFINE sets == DOMAIN DepTypes \cup DOMAIN EntryTypes
<1>1. PICK avoid : HasLine(sets) /\ load_service(Line.val, avoid)
  BY DEF DependencyLine, DirectoryEntry, HasLine
<1> HIDE DEF sets
<1>2. /\ ret = NoReturn /\ stack # <<>> /\ Line \in Lines /\ Line.set \in sets
      /\ Top = stack[Len(stack)] /\ Top.todo # <<>> /\ Line = Top.todo[1]
  BY <1>1, TopLine
<1>3. Line.val \in Names
  BY <1>2, LineVals DEF sets
<1>4. Calls(stack[Len(stack)])
  BY <1>2 DEF Calls, sets
<1> QED BY <1>1, <1>2, <1>3, <1>4, LoadStep

\* The link to the service that is loaded is one of the links of the frame.
LEMMA FrameDepends ==
    ASSUME NEW N, NEW f \in Frame(N), FrameOK(f, N), NEW id \in Ids(N), NEW k \in {"REGULAR", "MILESTONE", "WAITS_FOR"},
           NEW h, h = [f EXCEPT !.depends = Append(f.depends, <<id, k>>)]
    PROVE  /\ FrameOK(h, N) /\ h.name = f.name /\ h.reload = f.reload /\ h.dummy = f.dummy
           /\ \A j \in DOMAIN h.depends : h.depends[j] = <<id, k>> \/ \E i \in DOMAIN f.depends : f.depends[i] = h.depends[j]
<1> DEFINE q == f.depends
           l == <<id, k>>
           d == Append(q, l)
<1>1. q \in Seq(Links(N)) /\ l \in Links(N) /\ l[2] # "BEFORE"
  BY FrameFields DEF Links, Kinds
<1>2. h = [f EXCEPT !.depends = d]
  OBVIOUS
<1> HIDE DEF l
<1>3. d \in Seq(Links(N)) /\ DOMAIN d = 1 .. Len(q) + 1 /\ DOMAIN q = 1 .. Len(q) /\ Len(q) \in Nat
      /\ \A i \in 1 .. Len(q) + 1 : d[i] = IF i <= Len(q) THEN q[i] ELSE l
  BY <1>1
<1>4. \A i \in DOMAIN d : d[i] = l \/ \E j \in DOMAIN q : q[j] = d[i]
  BY <1>3
<1> HIDE DEF d
<1>5. h \in Frame(N)
  BY <1>2, <1>3, Zenon DEF Frame
<1>6. h.depends = d /\ h.name = f.name /\ h.reload = f.reload /\ h.dummy = f.dummy
  BY <1>2 DEF Frame
<1>7. FrameOK(h, N)
  BY <1>1, <1>4, <1>5, <1>6 DEF FrameOK
<1> QED BY <1>4, <1>6, <1>7 DEF l

LEMMA CallReturnsStep ==
    ASSUME NEW N \in Nat, LoaderInv(recs, stack, ret, N), CallReturns
    PROVE  \E M \in Nat : LoaderInv(recs', stack', ret', M)
<1> DEFINE entry == Line.set \in DOMAIN EntryTypes
           type == IF entry THEN EntryTypes[Line.set] ELSE DepTypes[Line.set]
           g == Next_(Top)
           h == [g EXCEPT !.depends = Append(g.depends, <<ret.id, type>>)]
           n == Len(stack)
<1>1. Frames(stack, N) /\ Callers(stack, ret) /\ Returns(ret, N) /\ stack # <<>> /\ ret # NoReturn
  BY DEF LoaderInv, CallReturns
<1>2. n \in DOMAIN stack /\ Top = stack[n] /\ Line = Top.todo[1]
  BY <1>1 DEF Frames, Top, Line
<1>3. FrameOK(Top, N) /\ Top \in Frame(N) /\ Calls(Top)
  BY <1>1, <1>2 DEF Frames, FrameOK, Callers
<1>4. Top.todo # <<>> /\ Line.set \in DOMAIN DepTypes \cup DOMAIN EntryTypes
  BY <1>2, <1>3 DEF Calls
<1>5. type \in {"REGULAR", "MILESTONE", "WAITS_FOR"}
  BY <1>4 DEF DepTypes, EntryTypes
<1>6. g \in Frame(N) /\ SameCall(Top, g)
  BY <1>3, <1>4, FrameNext
<1>7. FrameOK(g, N)
  BY <1>3, <1>6 DEF FrameOK, SameCall
<1>8. \/ ret.kind = "ok" /\ Continue(h)
      \/ ret.kind # "ok" /\ entry /\ ret.kind = "not_found" /\ Continue(g)
      \/ /\ ret.kind # "ok" /\ ~(entry /\ ret.kind = "not_found")
         /\ Throw(recs, Top, IF entry THEN ret.kind ELSE "load", {}, None)
  BY Zenon DEF CallReturns
<1>9. ret.kind \in {"ok"} \cup Errors /\ (ret.kind = "ok" => ret.id \in Ids(N))
  <2>1. "ok" \notin Errors
    BY DEF Errors
  <2> QED BY <1>1, <2>1, KindsCalm DEF Returns
<1>10. ASSUME Calm(ret)
       PROVE  /\ \A j \in DOMAIN g.depends : IsLoaded(recs, g.depends[j][1])
              /\ ret.kind = "ok" => IsLoaded(recs, ret.id)
  <2>1. Loaded(recs, stack) /\ Result(recs, stack, ret)
    BY <1>10 DEF LoaderInv, Tidy
  <2> QED BY <1>1, <1>2, <1>6, <2>1 DEF Loaded, Result, SameCall
<1>11. g.name = stack[n].name /\ g.reload = stack[n].reload /\ g.dummy = stack[n].dummy
  BY <1>2, <1>6 DEF SameCall
<1> HIDE DEF g, type
<1>12. ASSUME NEW x, Continue(x), Calm(ret), FrameOK(x, N), x.name = g.name, x.reload = g.reload, x.dummy = g.dummy,
              \A j \in DOMAIN x.depends : IsLoaded(recs, x.depends[j][1])
       PROVE  \E M \in Nat : LoaderInv(recs', stack', ret', M)
  <2>1. x.name = stack[n].name /\ x.reload = stack[n].reload /\ x.dummy = stack[n].dummy
    BY <1>11, <1>12
  <2>2. LoaderInv(recs, Append(SubSeq(stack, 1, Len(stack) - 1), x), NoReturn, N)
    BY <1>1, <1>12, <2>1, SetTop
  <2>3. stack' = Append(SubSeq(stack, 1, Len(stack) - 1), x) /\ recs' = recs /\ ret' = NoReturn
    BY <1>12 DEF Continue, Below
  <2> QED BY <2>2, <2>3
<1>13. CASE ret.kind = "ok" /\ Continue(h)
  <2> DEFINE id == ret.id
  <2>1. id \in Ids(N) /\ Calm(ret)
    BY <1>9, <1>13 DEF Calm
  <2> HIDE DEF id, h
  <2>2. h = [g EXCEPT !.depends = Append(g.depends, <<id, type>>)]
    BY DEF h, id
  <2>3. /\ FrameOK(h, N) /\ h.name = g.name /\ h.reload = g.reload /\ h.dummy = g.dummy
        /\ \A j \in DOMAIN h.depends : h.depends[j] = <<id, type>> \/ \E i \in DOMAIN g.depends : g.depends[i] = h.depends[j]
    BY <1>5, <1>6, <1>7, <2>1, <2>2, FrameDepends
  <2>4. \A j \in DOMAIN h.depends : IsLoaded(recs, h.depends[j][1])
    <3> SUFFICES ASSUME NEW j \in DOMAIN h.depends PROVE IsLoaded(recs, h.depends[j][1])
      OBVIOUS
    <3>1. CASE h.depends[j] = <<id, type>>
      BY <1>10, <1>13, <2>1, <3>1 DEF id
    <3>2. CASE \E i \in DOMAIN g.depends : g.depends[i] = h.depends[j]
      BY <1>10, <2>1, <3>2
    <3> QED BY <2>3, <3>1, <3>2
  <2> QED BY <1>12, <1>13, <2>1, <2>3, <2>4
<1>14. CASE ret.kind = "not_found" /\ Continue(g)
  <2>1. Calm(ret)
    BY <1>14 DEF Calm
  <2> QED BY <1>7, <1>10, <1>12, <1>14, <2>1
<1>15. CASE /\ ret.kind # "ok" /\ ~(entry /\ ret.kind = "not_found")
            /\ Throw(recs, Top, IF entry THEN ret.kind ELSE "load", {}, None)
  <2> DEFINE k == IF entry THEN ret.kind ELSE "load"
  <2>1. k \in {"load", "cyclic", "description"}
    BY <1>9, <1>15 DEF Errors
  <2> HIDE DEF k
  <2>2. Throw(recs, Top, k, {}, None)
    BY <1>15 DEF k
  <2> QED BY <1>1, <2>1, <2>2, LineThrows
<1> QED BY <1>8, <1>13, <1>14, <1>15
----------------------------------------------------------------------------
(* The end of load_reload_service() *)

StartWork(R, f) == [R |-> R, f |-> f, kind |-> "none", before |-> {}, of |-> None, rval |-> None]
EndWork(R, f) ==
    MarkConsumer(CreateOrUpdate(AddBefores(AddAfters(FindConsumed(
        check_settings_for_reload(finalise(ReadEnvFile(StartWork(R, f)))))))))

LEMMA WorkEnds ==
    ASSUME NEW N \in Nat, NEW R, NEW f, Sound(R, N), Unique(R), FrameOK(f, N), Ready(R, f)
    PROVE  LET w == EndWork(R, f)
           IN  (Works(w, R, f) /\ w.kind # "none") \/ Done(w, R, Original(f))
<1> DEFINE w0 == StartWork(R, f)
           w1 == check_settings_for_reload(finalise(ReadEnvFile(w0)))
           w2 == FindConsumed(w1)
           w3 == AddAfters(w2)
           w4 == AddBefores(w3)
           w5 == CreateOrUpdate(w4)
           w == MarkConsumer(w5)
<1>0. w = EndWork(R, f)
  BY DEF EndWork
<1>1. WorkOK(w0, R, f, N) /\ w0.R = R /\ w0.f = f
  <2>1. w0 \in Work(R, f, "none", {}, None, None)
    BY Zenon DEF StartWork, Work
  <2> HIDE DEF w0
  <2>2. w0.R = R /\ w0.f = f /\ w0.kind = "none" /\ w0.before = {} /\ w0.of = None /\ IsWork(w0)
    BY <2>1, WorkFields
  <2>3. {} \in SUBSET Ids(N) /\ None \in IdsOrNone(N) /\ SameFrame(f, f)
    BY DEF IdsOrNone, SameFrame
  <2> QED BY <2>2, <2>3, GrewItself DEF WorkOK
<1> HIDE DEF w0
<1>2. Works(w1, R, f)
  BY <1>1, SettingsChecked
<1> HIDE DEF w1
<1>3. Works(w2, R, f)
  BY <1>2, FindConsumedWorks
<1> HIDE DEF w2
<1>4. Works(w3, R, f)
  BY <1>3, AddAftersWorks
<1> HIDE DEF w3
<1>5. Works(w4, R, f)
  BY <1>4, AddBeforesWorks
<1> HIDE DEF w4
<1>6. (Works(w5, R, f) /\ w5.kind # "none") \/ Done(w5, R, Original(f))
  <2>1. CASE w4.kind # "none"
    <3>1. w5 = w4
      BY <2>1 DEF CreateOrUpdate, KeepsRecord
    <3> QED BY <1>5, <2>1, <3>1
  <2>2. CASE w4.kind = "none" /\ w4.f.reload # None /\ w4.R[w4.f.reload].type = w4.f.type
    <3>1. w5 = update_depenencies(w4)
      BY <2>2 DEF CreateOrUpdate, KeepsRecord
    <3>2. (Works(update_depenencies(w4), R, f) /\ update_depenencies(w4).kind # "none")
          \/ Done(update_depenencies(w4), R, Original(f))
      BY <1>5, <2>2, UpdateDone
    <3> QED BY <3>1, <3>2
  <2>3. CASE w4.kind = "none" /\ ~(w4.f.reload # None /\ w4.R[w4.f.reload].type = w4.f.type)
    <3>1. w5 = create_new_record(w4)
      BY <2>3 DEF CreateOrUpdate, KeepsRecord
    <3>2. (Works(create_new_record(w4), R, f) /\ create_new_record(w4).kind # "none")
          \/ Done(create_new_record(w4), R, Original(f))
      BY <1>5, <2>3, CreateDone
    <3> QED BY <3>1, <3>2
  <2> QED BY <2>1, <2>2, <2>3
<1> HIDE DEF w5
<1>7. CASE Works(w5, R, f) /\ w5.kind # "none"
  <2>1. w = w5
    BY <1>7 DEF MarkConsumer, Unless
  <2> QED BY <1>0, <1>7, <2>1
<1>8. CASE Done(w5, R, Original(f))
  <2>1. Done(w, R, Original(f))
    BY <1>8, MarkDone
  <2> QED BY <1>0, <2>1
<1> QED BY <1>6, <1>7, <1>8

LEMMA FinishStep ==
    ASSUME NEW N \in Nat, LoaderInv(recs, stack, ret, N), Finish
    PROVE  \E M \in Nat : LoaderInv(recs', stack', ret', M)
<1> DEFINE n == Len(stack)
           f == Top
           w == EndWork(recs, f)
<1>1. /\ Sound(recs, N) /\ Unique(recs) /\ Frames(stack, N) /\ stack # <<>> /\ ret = NoReturn
      /\ LoaderInv(recs, stack, NoReturn, N) /\ Dummies(recs, stack) /\ Loaded(recs, stack)
  BY KindsCalm DEF LoaderInv, Tidy, Finish, Reading
<1>2. n \in DOMAIN stack /\ f = stack[n]
  BY <1>1 DEF Frames, Top
<1>3. FrameOK(f, N)
  BY <1>1, <1>2 DEF Frames
<1>4. Ready(recs, f)
  <2>1. f.reload \in DOMAIN recs \cup {None}
    BY DEF Finish
  <2>2. f.reload = None => f.dummy \in DOMAIN recs /\ recs[f.dummy].loading
    BY <1>1, <1>2 DEF Dummies
  <2>3. f.reload = None => recs[f.dummy].type = "placeholder"
    BY <1>1, <2>2 DEF Sound, Named
  <2>4. \A i \in DOMAIN f.depends : f.depends[i][1] \in DOMAIN recs
    BY <1>1, <1>2 DEF Loaded, IsLoaded
  <2> QED BY <2>1, <2>2, <2>3, <2>4 DEF Ready, Original
<1>5. (Works(w, recs, f) /\ w.kind # "none") \/ Done(w, recs, Original(f))
  BY <1>1, <1>3, <1>4, WorkEnds
<1>6. IF w.kind # "none" THEN Throw(w.R, w.f, w.kind, w.before, w.of)
      ELSE recs' = w.R /\ stack' = Below /\ ret' = Returned(w.rval)
  BY Zenon DEF Finish, EndWork, StartWork
<1> HIDE DEF w, f
<1>7. CASE Works(w, recs, f) /\ w.kind # "none"
  <2>1. PICK M0 \in Nat : WorkOK(w, recs, f, M0)
    BY <1>7 DEF Works
  <2>2. PICK M \in Nat : M0 <= M /\ N <= M
    <3>1. M0 <= M0 + N /\ N <= M0 + N /\ M0 + N \in Nat
      OBVIOUS
    <3> QED BY <3>1
  <2>3. WorkOK(w, recs, f, M)
    BY <2>1, <2>2, WorkGrows
  <2>4. Sound(w.R, M) /\ Unique(w.R) /\ Grew(recs, w.R) /\ w.f.dummy = f.dummy /\ w.kind \in {"load", "cyclic", "description"}
    BY <1>7, <2>3 DEF WorkOK, SameFrame
  <2>5. \A x \in DOMAIN w.R : w.R[x].loading => x \in DOMAIN recs /\ recs[x].loading
    BY <2>4 DEF Grew
  <2>6. Throw(w.R, w.f, w.kind, w.before, w.of) /\ w.f.dummy = Top.dummy
    BY <1>6, <1>7, <2>4 DEF f
  <2> QED BY <1>1, <2>2, <2>4, <2>5, <2>6, ThrowStep
<1>8. CASE Done(w, recs, Original(f))
  <2>1. PICK M0 \in Nat : /\ Sound(w.R, M0) /\ Unique(w.R) /\ w.rval \in Ids(M0)
                          /\ After(recs, w.R, Original(f), w.rval)
    BY <1>8 DEF Done
  <2>2. PICK M \in Nat : M0 <= M /\ N <= M
    <3>1. M0 <= M0 + N /\ N <= M0 + N /\ M0 + N \in Nat
      OBVIOUS
    <3> QED BY <3>1
  <2>3. Sound(w.R, M) /\ w.rval \in Ids(M)
    BY <2>1, <2>2, SoundGrows, RecGrows
  <2>4. Original(f) \in DOMAIN recs
    BY <1>4 DEF Ready
  <2>5. LoaderInv(w.R, SubSeq(stack, 1, Len(stack) - 1), Returned(w.rval), M)
    BY <1>1, <1>2, <2>1, <2>2, <2>3, <2>4, PopDone
  <2>6. recs' = w.R /\ stack' = SubSeq(stack, 1, Len(stack) - 1) /\ ret' = Returned(w.rval)
    BY <1>6, <1>8 DEF Done, Below
  <2> QED BY <2>5, <2>6
<1> QED BY <1>5, <1>7, <1>8

----------------------------------------------------------------------------
(* Requests, and what others do when no call is in progress *)

LEMMA NoCalls ==
    ASSUME NEW N, NEW R, Sound(R, N), Unique(R), \A r \in DOMAIN R : ~R[r].loading
    PROVE  LoaderInv(R, <<>>, NoReturn, N)
<1>1. DOMAIN << >> = {}
  OBVIOUS
<1>2. Frames(<<>>, N)
  BY <1>1 DEF Frames
<1>3. Returns(NoReturn, N) /\ Callers(<<>>, NoReturn)
  BY <1>1 DEF Returns, Callers
<1>4. Marks(R, <<>>)
  BY DEF Marks
<1>5. Tidy(R, <<>>, NoReturn)
  BY <1>1 DEF Tidy, Dummies, Distinct, Pending, Loaded, Result
<1> QED BY <1>2, <1>3, <1>4, <1>5 DEF LoaderInv

LEMMA NothingMarked ==
    ASSUME NEW N, NEW R, NEW t, LoaderInv(R, <<>>, t, N)
    PROVE  Sound(R, N) /\ Unique(R) /\ \A r \in DOMAIN R : ~R[r].loading
<1>1. DOMAIN << >> = {}
  OBVIOUS
<1> QED BY <1>1 DEF LoaderInv, Marks

LEMMA RequestStep ==
    ASSUME NEW N \in Nat, LoaderInv(recs, stack, ret, N), disk \in [Names -> Seq(Lines)],
           \/ \E n \in Names : LoadRequest(n)
           \/ \E r \in DOMAIN recs : reload_service(r)
    PROVE  \E M \in Nat : LoaderInv(recs', stack', ret', M)
<1>1. CASE \E n \in Names : LoadRequest(n)
  <2>1. PICK n \in Names : LoadRequest(n)
    BY <1>1
  <2>2. stack = <<>> /\ ret = NoReturn /\ load_service(n, None)
    BY <2>1 DEF LoadRequest, Idle
  <2>3. LoaderInv(recs, stack, NoReturn, N)
    BY <2>2
  <2>4. stack # <<>> => Calls(stack[Len(stack)])
    BY <2>2
  <2> QED BY <2>2, <2>3, <2>4, LoadStep
<1>2. CASE \E r \in DOMAIN recs : reload_service(r)
  <2>1. PICK r \in DOMAIN recs : reload_service(r)
    BY <1>2
  <2>2. stack = <<>> /\ ret = NoReturn /\ Call(recs, recs[r].name, r)
    BY <2>1 DEF reload_service, Idle
  <2>3. LoaderInv(recs, stack, NoReturn, N)
    BY <2>2
  <2>4. stack # <<>> => Calls(stack[Len(stack)])
    BY <2>2
  <2>5. recs[r].name = r[1] /\ recs[r].name \in Names /\ r # None
    <3>1. r \in Ids(N) /\ recs[r] \in Rec(N) /\ recs[r].name = r[1]
      BY DEF LoaderInv, Sound, Typed, Named
    <3> QED BY <3>1, RecFields DEF Ids, None
  <2> QED BY <2>2, <2>3, <2>4, <2>5, CallStep
<1> QED BY <1>1, <1>2

LEMMA UnloadStep ==
    ASSUME NEW N \in Nat, LoaderInv(recs, stack, ret, N), NEW r \in DOMAIN recs, Unload(r)
    PROVE  \E M \in Nat : LoaderInv(recs', stack', ret', M)
<1> DEFINE S == unload_service(recs, r)
<1>1. /\ stack = <<>> /\ ret = NoReturn /\ recs[r].type # "placeholder" /\ recs[r].state = "STOPPED"
      /\ recs' = S /\ stack' = <<>> /\ ret' = NoReturn
  BY DEF Unload, Idle
<1>2. Sound(recs, N) /\ Unique(recs) /\ \A x \in DOMAIN recs : ~recs[x].loading
  BY <1>1, NothingMarked
<1>3. Sound(S, N + 1) /\ Unique(S) /\ \A x \in DOMAIN S : ~S[x].loading
  BY <1>1, <1>2, UnloadSound
<1>4. N + 1 \in Nat
  OBVIOUS
<1> HIDE DEF S
<1>5. LoaderInv(S, <<>>, NoReturn, N + 1)
  BY <1>3, NoCalls
<1> QED BY <1>1, <1>4, <1>5

LEMMA SetState ==
    ASSUME NEW N, NEW a \in Rec(N), NEW st \in States, NEW b, b = [a EXCEPT !.state = st]
    PROVE  /\ b \in Rec(N) /\ b.name = a.name /\ b.type = a.type /\ b.loading = a.loading /\ b.state = st
           /\ b.deps = a.deps /\ b.dependents = a.dependents
<1>1. b \in Rec(N)
  BY Zenon DEF Rec
<1> QED BY <1>1 DEF Rec

\* A service starts only when what it requires runs, and stops only when nothing that runs requires it.
LEMMA StateStep ==
    ASSUME NEW N \in Nat, LoaderInv(recs, stack, ret, N), NEW r \in DOMAIN recs, ChangeState(r)
    PROVE  \E M \in Nat : LoaderInv(recs', stack', ret', M)
<1>1. /\ stack = <<>> /\ ret = NoReturn /\ recs[r].type # "placeholder" /\ Intact
      /\ stack' = <<>> /\ ret' = NoReturn
  BY DEF ChangeState, Idle
<1>2. PICK st \in States \ {recs[r].state} :
         /\ st = "STARTED" => \A t \in Requires(r) : recs[t].state = "STARTED"
         /\ st # "STARTED" => \A l \in recs[r].dependents : l[2] = "REGULAR" => recs[l[1]].state # "STARTED"
         /\ recs' = [recs EXCEPT ![r].state = st]
  BY DEF ChangeState, States
<1> DEFINE R == recs
           a == [R[r] EXCEPT !.state = st]
           S == Put(R, r, a)
<1>3. Sound(R, N) /\ Unique(R) /\ \A x \in DOMAIN R : ~R[x].loading
  BY <1>1, NothingMarked
<1>4. recs' = S
  BY <1>2, <1>3 DEF Put, Sound, Typed
<1>5. \A x \in DOMAIN R : R[x] \in Rec(N)
  BY <1>3 DEF Sound, Typed
<1>6. /\ a \in Rec(N) /\ a.name = R[r].name /\ a.type = R[r].type /\ a.loading = R[r].loading /\ a.state = st
      /\ a.deps = R[r].deps /\ a.dependents = R[r].dependents
  BY <1>5, SetState
<1> HIDE DEF a
<1>7. /\ DOMAIN S = DOMAIN R /\ S = [x \in DOMAIN S |-> S[x]]
      /\ \A x \in DOMAIN R : S[x] = IF x = r THEN a ELSE R[x]
  BY DEF Put
<1> HIDE DEF S
<1>8. \A x \in DOMAIN R : /\ S[x] \in Rec(N) /\ S[x].name = R[x].name /\ S[x].type = R[x].type /\ S[x].loading = R[x].loading
                          /\ S[x].deps = R[x].deps /\ S[x].dependents = R[x].dependents
                          /\ S[x].state = IF x = r THEN st ELSE R[x].state
  BY <1>5, <1>6, <1>7
<1>9. Typed(S, N) /\ Named(S) /\ Unique(S)
  <2>1. DOMAIN S \subseteq Ids(N)
    BY <1>3, <1>7 DEF Sound, Typed
  <2>2. Typed(S, N)
    BY <1>7, <1>8, <2>1 DEF Typed
  <2>3. Named(S) /\ Unique(S)
    BY <1>3, <1>7, <1>8 DEF Sound, Named, Unique
  <2> QED BY <2>2, <2>3
<1>10. Linked(S)
  <2> SUFFICES ASSUME NEW x \in DOMAIN R
               PROVE  /\ S[x].type = "placeholder" => Bare(S, x)
                      /\ \A i \in DOMAIN S[x].deps : BeforeLoaded(S, S[x].deps[i])
    BY <1>7 DEF Linked
  <2>1. \A i \in DOMAIN R[x].deps : BeforeLoaded(R, R[x].deps[i])
    BY <1>3 DEF Sound, Linked
  <2>2. R[x].type = "placeholder" => Bare(R, x) /\ x # r
    BY <1>1, <1>3 DEF Sound, Linked
  <2>3. S[x].type = "placeholder" => Bare(S, x)
    BY <1>8, <2>2 DEF Bare
  <2>4. \A i \in DOMAIN S[x].deps : BeforeLoaded(S, S[x].deps[i])
    BY <1>7, <1>8, <2>1 DEF BeforeLoaded
  <2> QED BY <2>3, <2>4
<1>11. Running(S)
  <2> SUFFICES ASSUME NEW x \in DOMAIN R, S[x].state = "STARTED", NEW i \in DOMAIN R[x].deps,
                      R[x].deps[i][2] = "REGULAR", R[x].deps[i][1] \in DOMAIN R
               PROVE  S[R[x].deps[i][1]].state = "STARTED"
    BY <1>7, <1>8 DEF Running, Satisfied
  <2> DEFINE t == R[x].deps[i][1]
  <2>1. CASE x = r
    <3>1. st = "STARTED" /\ t \in Requires(r)
      BY <1>8, <2>1 DEF Requires
    <3>2. R[t].state = "STARTED"
      BY <1>2, <3>1
    <3> QED BY <1>8, <3>1, <3>2
  <2>2. CASE x # r
    <3>1. R[x].state = "STARTED"
      BY <1>8, <2>2
    <3>2. R[t].state = "STARTED"
      BY <1>3, <3>1 DEF Sound, Running, Satisfied
    <3>3. t = r => st = "STARTED"
      <4> SUFFICES ASSUME t = r, st # "STARTED" PROVE FALSE
        OBVIOUS
      <4>1. <<x, R[x].deps[i][2]>> \in R[t].dependents
        BY <1>1 DEF Intact
      <4>2. <<x, "REGULAR">> \in R[r].dependents
        BY <4>1
      <4> QED BY <1>2, <3>1, <4>2
    <3> QED BY <1>8, <3>2, <3>3
  <2> QED BY <2>1, <2>2
<1>12. LoaderInv(S, <<>>, NoReturn, N)
  BY <1>3, <1>7, <1>8, <1>9, <1>10, <1>11, NoCalls DEF Sound
<1> QED BY <1>1, <1>4, <1>12

LEMMA EndStep ==
    ASSUME NEW N \in Nat, LoaderInv(recs, stack, ret, N), RequestEnds
    PROVE  \E M \in Nat : LoaderInv(recs', stack', ret', M)
<1>1. stack = <<>> /\ recs' = recs /\ stack' = <<>> /\ ret' = NoReturn
  BY DEF RequestEnds
<1>2. Sound(recs, N) /\ Unique(recs) /\ \A r \in DOMAIN recs : ~recs[r].loading
  BY <1>1, NothingMarked
<1>3. LoaderInv(recs, <<>>, NoReturn, N)
  BY <1>2, NoCalls
<1> QED BY <1>1, <1>3
----------------------------------------------------------------------------
(* Theorems *)

\* The inductive invariant.
IInv == disk \in [Names -> Seq(Lines)] /\ \E N \in Nat : LoaderInv(recs, stack, ret, N)

LEMMA InitIInv == Init => IInv
<1> SUFFICES ASSUME Init PROVE IInv
  OBVIOUS
<1>1. disk \in [Names -> Seq(Lines)]
  <2>1. \A n \in Names : disk[n] \in Seq(Lines)
    BY LoaderAssumption DEF Init
  <2>2. disk \in [Names -> UNION {Descriptions[n] : n \in Names}]
    BY DEF Init
  <2> QED BY <2>1, <2>2
<1>2. Sound(recs, 0) /\ Unique(recs) /\ \A r \in DOMAIN recs : ~recs[r].loading
  <2>1. recs = <<>> /\ DOMAIN recs = {}
    BY DEF Init
  <2>2. Typed(recs, 0)
    <3>1. recs = [x \in {} |-> recs[x]]
      BY <2>1
    <3> QED BY <2>1, <3>1 DEF Typed
  <2> QED BY <2>1, <2>2 DEF Sound, Named, Linked, Running, Unique
<1>3. LoaderInv(recs, <<>>, NoReturn, 0)
  BY <1>2, NoCalls
<1>4. stack = <<>> /\ ret = NoReturn /\ 0 \in Nat
  BY DEF Init
<1> QED BY <1>1, <1>3, <1>4 DEF IInv

LEMMA DiskStep ==
    ASSUME disk \in [Names -> Seq(Lines)], Next
    PROVE  disk' \in [Names -> Seq(Lines)]
<1>1. CASE \E n \in Names : Edit(n)
  <2>1. PICK n \in Names : Edit(n)
    BY <1>1
  <2>2. PICK d \in Descriptions[n] : disk' = [disk EXCEPT ![n] = d]
    BY <2>1 DEF Edit
  <2>3. d \in Seq(Lines)
    BY <2>1, <2>2, LoaderAssumption
  <2> QED BY <2>1, <2>2, <2>3
<1>2. CASE ~\E n \in Names : Edit(n)
  <2>1. disk' = disk
    BY <1>2 DEF Next, LoadRequest, load_service, Call, reload_service, Unload, ChangeState, DependencyLine,
                DirectoryLine, DirectoryEntry, CallReturns, OrderingLine, ConsumerLine, TypeLine, LogTypeLine,
                OptionsLine, OtherLine, BadLine, IncludeLine, Finish, RequestEnds, Continue, Throw
  <2> QED BY <2>1
<1> QED BY <1>1, <1>2

LEMMA NextIInv == IInv /\ [Next]_vars => IInv'
<1> SUFFICES ASSUME IInv, [Next]_vars PROVE IInv'
  OBVIOUS
<1>1. disk \in [Names -> Seq(Lines)]
  BY DEF IInv
<1>2. PICK N \in Nat : LoaderInv(recs, stack, ret, N)
  BY DEF IInv
<1>3. CASE UNCHANGED vars
  BY <1>1, <1>2, <1>3 DEF vars, IInv
<1>4. CASE Next
  <2>1. disk' \in [Names -> Seq(Lines)]
    BY <1>1, <1>4, DiskStep
  <2>2. \E M \in Nat : LoaderInv(recs', stack', ret', M)
    <3>1. CASE (\E n \in Names : LoadRequest(n)) \/ \E r \in DOMAIN recs : reload_service(r)
      BY <1>1, <1>2, <3>1, RequestStep
    <3>2. CASE \E n \in Names : Edit(n)
      BY <1>2, <3>2 DEF Edit
    <3>3. CASE \E r \in DOMAIN recs : Unload(r)
      BY <1>2, <3>3, UnloadStep
    <3>4. CASE \E r \in DOMAIN recs : ChangeState(r)
      BY <1>2, <3>4, StateStep
    <3>5. CASE DependencyLine \/ DirectoryEntry
      BY <1>1, <1>2, <3>5, LoadLineStep
    <3>6. CASE DirectoryLine
      BY <1>2, <3>6, DirectoryLineStep
    <3>7. CASE CallReturns
      BY <1>2, <3>7, CallReturnsStep
    <3>8. CASE OrderingLine
      BY <1>2, <3>8, OrderingLineStep
    <3>9. CASE ConsumerLine
      BY <1>2, <3>9, ConsumerLineStep
    <3>10. CASE TypeLine
      BY <1>2, <3>10, TypeLineStep
    <3>11. CASE LogTypeLine
      BY <1>2, <3>11, LogTypeLineStep
    <3>12. CASE OptionsLine
      BY <1>2, <3>12, OptionsLineStep
    <3>13. CASE OtherLine
      BY <1>2, <3>13, OtherLineStep
    <3>14. CASE BadLine
      BY <1>2, <3>14, BadLineStep
    <3>15. CASE IncludeLine
      BY <1>2, <3>15, IncludeLineStep
    <3>16. CASE Finish
      BY <1>2, <3>16, FinishStep
    <3>17. CASE RequestEnds
      BY <1>2, <3>17, EndStep
    <3> QED BY <1>4, <3>1, <3>2, <3>3, <3>4, <3>5, <3>6, <3>7, <3>8, <3>9, <3>10, <3>11, <3>12, <3>13, <3>14,
               <3>15, <3>16, <3>17 DEF Next
  <2> QED BY <2>1, <2>2 DEF IInv
<1> QED BY <1>3, <1>4

\* There is one record per name, and when no call is in progress no record is marked as being
\* loaded: for every set of names, every contents of the files, every order of requests and whatever
\* fails on the way (load_reload_service(), exception_cleanup()).
THEOREM OneRecordPerName == Spec => []RecordsUnique
<1>1. IInv => RecordsUnique
  <2> SUFFICES ASSUME NEW N \in Nat, LoaderInv(recs, stack, ret, N) PROVE RecordsUnique
    BY DEF IInv
  <2>1. \A r \in DOMAIN recs : recs[r].name = r[1]
    BY DEF LoaderInv, Sound, Named
  <2>2. \A r, q \in DOMAIN recs : recs[r].name = recs[q].name => r = q
    BY <2>1 DEF LoaderInv, Unique
  <2>3. Idle => \A r \in DOMAIN recs : ~recs[r].loading
    BY NothingMarked DEF Idle
  <2> QED BY <2>2, <2>3 DEF RecordsUnique
<1> QED BY <1>1, InitIInv, NextIInv, PTL DEF Spec

\* A service that runs has the dependencies that it requires, whatever was loaded, reloaded and
\* unloaded (check_settings_for_reload(), update_depenencies(), unload_service()).
THEOREM RunningKeepsDeps == Spec => []RunningHasDeps
<1>1. IInv => RunningHasDeps
  <2> SUFFICES ASSUME NEW N \in Nat, LoaderInv(recs, stack, ret, N), Intact,
                      NEW r \in DOMAIN recs, recs[r].state = "STARTED", NEW t \in Requires(r)
               PROVE  recs[t].state = "STARTED"
    BY DEF IInv, RunningHasDeps
  <2>1. PICK i \in DOMAIN recs[r].deps : recs[r].deps[i][2] = "REGULAR" /\ t = recs[r].deps[i][1]
    BY DEF Requires
  <2>2. t \in DOMAIN recs
    BY <2>1 DEF Intact
  <2>3. Satisfied(recs, recs[r].deps[i])
    BY DEF LoaderInv, Sound, Running
  <2> QED BY <2>1, <2>2, <2>3 DEF Satisfied
<1> QED BY <1>1, InitIInv, NextIInv, PTL DEF Spec

----------------------------------------------------------------------------
(* No cycle: the links as arcs <<x, y, k>>, from x to y, of kind k *)

Arcs(R) == UNION {{<<x, R[x].deps[i][1], R[x].deps[i][2]>> : i \in DOMAIN R[x].deps} : x \in DOMAIN R}

\* Sets that arcs do not leave: those other than "before", and all.
Keeping(A, S) == \A x, y, k : (<<x, y, k>> \in A /\ k # "BEFORE" /\ x \in S) => y \in S
KeepingAll(A, S) == \A x, y, k : (<<x, y, k>> \in A /\ x \in S) => y \in S

\* No way leads back from the end of an arc to its start, unless by another "before" arc:
\* a set that arcs do not leave has the one and not the other.
NoWayBack(A) == \A x, y, k : <<x, y, k>> \in A => \E S : y \in S /\ x \notin S /\ Keeping(A, S)

\* No way leads from T to b.
Avoids(A, T, b) == \E C : KeepingAll(A, C) /\ T \subseteq C /\ b \notin C

LEMMA ArcOf ==
    ASSUME NEW R, NEW x \in DOMAIN R, NEW i \in DOMAIN R[x].deps
    PROVE  <<x, R[x].deps[i][1], R[x].deps[i][2]>> \in Arcs(R)
BY DEF Arcs

LEMMA ArcIs ==
    ASSUME NEW R, NEW x, NEW y, NEW k, <<x, y, k>> \in Arcs(R)
    PROVE  x \in DOMAIN R /\ \E i \in DOMAIN R[x].deps : R[x].deps[i][1] = y /\ R[x].deps[i][2] = k
<1>1. PICK z \in DOMAIN R : <<x, y, k>> \in {<<z, R[z].deps[i][1], R[z].deps[i][2]>> : i \in DOMAIN R[z].deps}
  BY DEF Arcs
<1>2. PICK i \in DOMAIN R[z].deps : <<x, y, k>> = <<z, R[z].deps[i][1], R[z].deps[i][2]>>
  BY <1>1
<1> QED BY <1>2

\* Every arc is a triple of some x, y and k.
FewerArcs(A, B) == \A x, y, k : <<x, y, k>> \in B => <<x, y, k>> \in A

LEMMA FewerArcsNoWayBack ==
    ASSUME NEW A, NEW B, NoWayBack(A), FewerArcs(A, B)
    PROVE  NoWayBack(B)
<1> SUFFICES ASSUME NEW x, NEW y, NEW k, <<x, y, k>> \in B PROVE \E S : y \in S /\ x \notin S /\ Keeping(B, S)
  BY DEF NoWayBack
<1>1. PICK S : y \in S /\ x \notin S /\ Keeping(A, S)
  BY DEF NoWayBack, FewerArcs
<1>2. Keeping(B, S)
  BY <1>1 DEF Keeping, FewerArcs
<1> QED BY <1>1, <1>2

\* No arc has id at an end.  No way leads from T to the records of B, and id is not one of them.
Absent(A, id) == \A x, y, k : <<x, y, k>> \in A => x # id /\ y # id
AllAvoided(A, T, B, id) == \A b \in B : b # id /\ Avoids(A, T, b)

\* A new record id takes the place of orig, with links to the records of T; orig is not reached
\* from there.  The services of B get a "before" link to it, and are not reached from there either.
Taken(A, D, orig, id, T, B) ==
    \A x, y, k : <<x, y, k>> \in D =>
      \/ <<x, y, k>> \in A
      \/ y = id /\ <<x, orig, k>> \in A
      \/ x = id /\ y \in T
      \/ x = id /\ k = "BEFORE" /\ <<orig, y, "BEFORE">> \in A
      \/ x \in B /\ y = id /\ k = "BEFORE"

LEMMA TakenNoWayBack ==
    ASSUME NEW A, NEW D, NEW orig, NEW id, NEW T, NEW B, NoWayBack(A), Taken(A, D, orig, id, T, B),
           Absent(A, id), orig # id, id \notin T, Avoids(A, T, orig), AllAvoided(A, T, B, id)
    PROVE  NoWayBack(D)
<1>1. PICK C0 : KeepingAll(A, C0) /\ T \subseteq C0 /\ orig \notin C0
  BY DEF Avoids
<1> DEFINE C == C0 \ {id}
<1>2. KeepingAll(A, C) /\ T \subseteq C /\ orig \notin C /\ id \notin C
  BY <1>1 DEF KeepingAll, Absent
<1> HIDE DEF C
<1>3. ASSUME NEW S, Keeping(A, S), orig \notin S, id \notin S PROVE Keeping(D, S)
  <2> SUFFICES ASSUME NEW u, NEW v, NEW j, <<u, v, j>> \in D, j # "BEFORE", u \in S PROVE v \in S
    BY DEF Keeping
  <2>0. \/ <<u, v, j>> \in A
        \/ v = id /\ <<u, orig, j>> \in A
        \/ u = id /\ v \in T
        \/ u = id /\ j = "BEFORE" /\ <<orig, v, "BEFORE">> \in A
        \/ u \in B /\ v = id /\ j = "BEFORE"
    BY DEF Taken
  <2>1. (v = id /\ <<u, orig, j>> \in A) \/ <<u, v, j>> \in A
    BY <1>3, <2>0
  <2> QED BY <1>3, <2>1 DEF Keeping
<1> SUFFICES ASSUME NEW x, NEW y, NEW k, <<x, y, k>> \in D PROVE \E S : y \in S /\ x \notin S /\ Keeping(D, S)
  BY DEF NoWayBack
<1>4. CASE <<x, y, k>> \in A \/ (y = id /\ <<x, orig, k>> \in A)
  <2> DEFINE z == IF y = id THEN orig ELSE y
  <2>1. <<x, z, k>> \in A
    BY <1>4 DEF Absent
  <2>2. x # id /\ z # id
    BY <2>1 DEF Absent
  <2>3. PICK S0 : z \in S0 /\ x \notin S0 /\ Keeping(A, S0)
    BY <2>1 DEF NoWayBack
  <2> DEFINE S == S0 \ {id}
  <2>4. z \in S /\ x \notin S /\ Keeping(A, S) /\ id \notin S
    BY <2>2, <2>3 DEF Keeping, Absent
  <2> HIDE DEF S
  <2>5. CASE orig \notin S
    <3>1. y \in S
      BY <2>4, <2>5
    <3> QED BY <1>3, <2>4, <2>5, <3>1
  <2>6. CASE orig \in S /\ x \notin C
    <3> DEFINE U == (S \cup C) \cup {id}
    <3>1. y \in U /\ x \notin U
      BY <2>2, <2>4, <2>6
    <3>2. Keeping(D, U)
      <4> SUFFICES ASSUME NEW u, NEW v, NEW j, <<u, v, j>> \in D, j # "BEFORE", u \in U PROVE v \in U
        BY DEF Keeping
      <4>1. CASE <<u, v, j>> \in A \/ (v = id /\ <<u, orig, j>> \in A)
        <5>1. CASE v = id
          BY <5>1
        <5>2. CASE v # id
          <6>1. <<u, v, j>> \in A /\ u # id
            BY <4>1, <5>2 DEF Absent
          <6> QED BY <1>2, <2>4, <6>1 DEF Keeping, KeepingAll
        <5> QED BY <5>1, <5>2
      <4>2. CASE u = id /\ v \in T
        BY <1>2, <4>2
      <4> QED BY <4>1, <4>2 DEF Taken
    <3> QED BY <3>1, <3>2
  <2>7. CASE orig \in S /\ x \in C
    <3> DEFINE U == S \cap C
    <3>1. z \in C
      BY <1>2, <2>1, <2>7 DEF KeepingAll
    <3>2. y \in U /\ x \notin U
      BY <1>2, <2>4, <3>1
    <3>3. Keeping(A, U) /\ orig \notin U /\ id \notin U
      BY <1>2, <2>4 DEF Keeping, KeepingAll
    <3> HIDE DEF U
    <3> QED BY <1>3, <3>2, <3>3
  <2> QED BY <2>5, <2>6, <2>7
<1>5. CASE x = id /\ y \in T
  <2>1. Keeping(A, C)
    BY <1>2 DEF Keeping, KeepingAll
  <2> QED BY <1>2, <1>3, <1>5, <2>1
<1>6. CASE x = id /\ k = "BEFORE" /\ <<orig, y, "BEFORE">> \in A
  <2>1. PICK S0 : y \in S0 /\ orig \notin S0 /\ Keeping(A, S0)
    BY <1>6 DEF NoWayBack
  <2> DEFINE S == S0 \ {id}
  <2>2. y \in S /\ orig \notin S /\ id \notin S /\ Keeping(A, S)
    BY <1>6, <2>1 DEF Keeping, Absent
  <2> HIDE DEF S
  <2> QED BY <1>3, <1>6, <2>2
<1>7. CASE x \in B /\ y = id /\ k = "BEFORE"
  <2>1. PICK E : KeepingAll(A, E) /\ T \subseteq E /\ x \notin E
    BY <1>7 DEF Avoids, AllAvoided
  <2> DEFINE U == E \cup {id}
  <2>2. y \in U /\ x \notin U
    BY <1>7, <2>1 DEF AllAvoided
  <2>3. Keeping(D, U)
    <3> SUFFICES ASSUME NEW u, NEW v, NEW j, <<u, v, j>> \in D, j # "BEFORE", u \in U PROVE v \in U
      BY DEF Keeping
    <3>1. CASE <<u, v, j>> \in A \/ (v = id /\ <<u, orig, j>> \in A)
      <4>1. CASE v = id
        BY <4>1
      <4>2. CASE v # id
        <5>1. <<u, v, j>> \in A /\ u # id
          BY <3>1, <4>2 DEF Absent
        <5> QED BY <2>1, <5>1 DEF KeepingAll
      <4> QED BY <4>1, <4>2
    <3>2. CASE u = id /\ v \in T
      BY <2>1, <3>2
    <3> QED BY <3>1, <3>2 DEF Taken
  <2> HIDE DEF U
  <2> QED BY <2>2, <2>3
<1> QED BY <1>4, <1>5, <1>6, <1>7 DEF Taken

\* The record r gets links to the records of T instead of its own, except "before" links; r is not
\* reached from there.  The services of B get a "before" link to it, and are not reached from there.
Relinked(A, D, r, T, B) ==
    \A x, y, k : <<x, y, k>> \in D =>
      \/ (x # r \/ k = "BEFORE") /\ <<x, y, k>> \in A
      \/ x = r /\ y \in T
      \/ x \in B /\ y = r /\ k = "BEFORE"

LEMMA RelinkedNoWayBack ==
    ASSUME NEW A, NEW D, NEW r, NEW T, NEW B, NoWayBack(A), Relinked(A, D, r, T, B), Avoids(A, T, r),
           AllAvoided(A, T, B, r)
    PROVE  NoWayBack(D)
<1>1. PICK C : KeepingAll(A, C) /\ T \subseteq C /\ r \notin C
  BY DEF Avoids
<1>2. ASSUME NEW S, Keeping(A, S), r \notin S PROVE Keeping(D, S)
  <2> SUFFICES ASSUME NEW u, NEW v, NEW j, <<u, v, j>> \in D, j # "BEFORE", u \in S PROVE v \in S
    BY DEF Keeping
  <2>1. <<u, v, j>> \in A
    BY <1>2 DEF Relinked
  <2> QED BY <1>2, <2>1 DEF Keeping
<1>3. ASSUME NEW S, Keeping(A, S), T \subseteq S PROVE Keeping(D, S)
  <2> SUFFICES ASSUME NEW u, NEW v, NEW j, <<u, v, j>> \in D, j # "BEFORE", u \in S PROVE v \in S
    BY DEF Keeping
  <2>1. <<u, v, j>> \in A \/ v \in T
    BY DEF Relinked
  <2> QED BY <1>3, <2>1 DEF Keeping
<1> SUFFICES ASSUME NEW x, NEW y, NEW k, <<x, y, k>> \in D PROVE \E S : y \in S /\ x \notin S /\ Keeping(D, S)
  BY DEF NoWayBack
<1>4. CASE (x # r \/ k = "BEFORE") /\ <<x, y, k>> \in A
  <2>1. PICK S : y \in S /\ x \notin S /\ Keeping(A, S)
    BY <1>4 DEF NoWayBack
  <2>2. CASE r \notin S
    BY <1>2, <2>1, <2>2
  <2>3. CASE r \in S /\ x \notin C
    <3> DEFINE U == S \cup C
    <3>1. y \in U /\ x \notin U /\ Keeping(A, U) /\ T \subseteq U
      BY <1>1, <2>1, <2>3 DEF Keeping, KeepingAll
    <3> HIDE DEF U
    <3> QED BY <1>3, <3>1
  <2>4. CASE x \in C
    <3> DEFINE U == S \cap C
    <3>1. y \in C
      BY <1>1, <1>4, <2>4 DEF KeepingAll
    <3>2. y \in U /\ x \notin U /\ Keeping(A, U) /\ r \notin U
      BY <1>1, <2>1, <3>1 DEF Keeping, KeepingAll
    <3> HIDE DEF U
    <3> QED BY <1>2, <3>2
  <2> QED BY <2>2, <2>3, <2>4
<1>5. CASE x = r /\ y \in T
  <2>1. Keeping(A, C) /\ y \in C /\ x \notin C
    BY <1>1, <1>5 DEF Keeping, KeepingAll
  <2> QED BY <1>1, <1>2, <2>1
<1>6. CASE x \in B /\ y = r /\ k = "BEFORE"
  <2>1. PICK E : KeepingAll(A, E) /\ T \subseteq E /\ x \notin E
    BY <1>6 DEF Avoids, AllAvoided
  <2> DEFINE U == E \cup {r}
  <2>2. y \in U /\ x \notin U
    BY <1>6, <2>1 DEF AllAvoided
  <2>3. Keeping(D, U)
    <3> SUFFICES ASSUME NEW u, NEW v, NEW j, <<u, v, j>> \in D, j # "BEFORE", u \in U PROVE v \in U
      BY DEF Keeping
    <3>1. CASE u # r /\ <<u, v, j>> \in A
      BY <2>1, <3>1 DEF KeepingAll
    <3>2. CASE v \in T
      BY <2>1, <3>2
    <3> QED BY <3>1, <3>2 DEF Relinked
  <2> HIDE DEF U
  <2> QED BY <2>2, <2>3
<1> QED BY <1>4, <1>5, <1>6 DEF Relinked

\* A placeholder id takes over the "after" links to r, and its "before" links.
Replaced(A, D, r, id) ==
    \A x, y, k : <<x, y, k>> \in D =>
      \/ <<x, y, k>> \in A
      \/ y = id /\ k = "AFTER" /\ <<x, r, k>> \in A
      \/ x = id /\ k = "BEFORE" /\ <<r, y, k>> \in A

LEMMA ReplacedNoWayBack ==
    ASSUME NEW A, NEW D, NEW r, NEW id, NoWayBack(A), Replaced(A, D, r, id), Absent(A, id)
    PROVE  NoWayBack(D)
<1>1. ASSUME NEW S, Keeping(A, S), id \in S PROVE Keeping(D, S)
  <2> SUFFICES ASSUME NEW u, NEW v, NEW j, <<u, v, j>> \in D, j # "BEFORE", u \in S PROVE v \in S
    BY DEF Keeping
  <2>1. <<u, v, j>> \in A \/ v = id
    BY DEF Replaced
  <2> QED BY <1>1, <2>1 DEF Keeping
<1> SUFFICES ASSUME NEW x, NEW y, NEW k, <<x, y, k>> \in D PROVE \E S : y \in S /\ x \notin S /\ Keeping(D, S)
  BY DEF NoWayBack
<1>2. CASE <<x, y, k>> \in A
  <2>1. PICK S : y \in S /\ x \notin S /\ Keeping(A, S)
    BY <1>2 DEF NoWayBack
  <2> DEFINE U == S \cup {id}
  <2>2. y \in U /\ x \notin U /\ Keeping(A, U) /\ id \in U
    BY <1>2, <2>1 DEF Keeping, Absent
  <2> HIDE DEF U
  <2> QED BY <1>1, <2>2
<1>3. CASE y = id /\ k = "AFTER" /\ <<x, r, k>> \in A
  <2> DEFINE U == {id}
  <2>1. y \in U /\ x \notin U /\ Keeping(A, U) /\ id \in U
    BY <1>3 DEF Keeping, Absent
  <2> HIDE DEF U
  <2> QED BY <1>1, <2>1
<1>4. CASE x = id /\ k = "BEFORE" /\ <<r, y, k>> \in A
  <2>1. PICK S0 : y \in S0 /\ r \notin S0 /\ Keeping(A, S0)
    BY <1>4 DEF NoWayBack
  <2> DEFINE S == S0 \ {id}
  <2>2. y \in S /\ x \notin S /\ r \notin S /\ id \notin S /\ Keeping(A, S)
    BY <1>4, <2>1 DEF Keeping, Absent
  <2> HIDE DEF S
  <2>3. Keeping(D, S)
    <3> SUFFICES ASSUME NEW u, NEW v, NEW j, <<u, v, j>> \in D, j # "BEFORE", u \in S PROVE v \in S
      BY DEF Keeping
    <3>1. <<u, v, j>> \in A \/ <<u, r, j>> \in A
      BY <2>2 DEF Replaced
    <3> QED BY <2>2, <3>1 DEF Keeping
  <2> QED BY <2>2, <2>3
<1> QED BY <1>2, <1>3, <1>4 DEF Replaced

\* No link leads to a record that is marked as being loaded.
Unlinked(R) == \A x, y, k : <<x, y, k>> \in Arcs(R) => (y \in DOMAIN R => ~R[y].loading)
Safe(R) == NoWayBack(Arcs(R)) /\ Unlinked(R)

LEMMA ArcEnds ==
    ASSUME NEW N, NEW R, Typed(R, N), NEW x, NEW y, NEW k, <<x, y, k>> \in Arcs(R)
    PROVE  x \in DOMAIN R /\ x \in Ids(N) /\ y \in Ids(N) /\ k \in Kinds
<1>1. x \in DOMAIN R /\ \E i \in DOMAIN R[x].deps : R[x].deps[i][1] = y /\ R[x].deps[i][2] = k
  BY ArcIs
<1>2. PICK i \in DOMAIN R[x].deps : R[x].deps[i][1] = y /\ R[x].deps[i][2] = k
  BY <1>1
<1>3. R[x] \in Rec(N)
  BY <1>1 DEF Typed
<1>4. R[x].deps \in Seq(Links(N))
  BY <1>3, RecFields
<1>5. R[x].deps[i] \in Links(N)
  BY <1>2, <1>4
<1> QED BY <1>1, <1>2, <1>5 DEF Typed, Links

LEMMA ShrunkArcs ==
    ASSUME NEW R, NEW S, Shrunk(R, S)
    PROVE  FewerArcs(Arcs(R), Arcs(S))
<1> SUFFICES ASSUME NEW x, NEW y, NEW k, <<x, y, k>> \in Arcs(S) PROVE <<x, y, k>> \in Arcs(R)
  BY DEF FewerArcs
<1>1. x \in DOMAIN S /\ \E i \in DOMAIN S[x].deps : S[x].deps[i][1] = y /\ S[x].deps[i][2] = k
  BY ArcIs
<1>2. PICK i \in DOMAIN S[x].deps : S[x].deps[i][1] = y /\ S[x].deps[i][2] = k
  BY <1>1
<1>3. x \in DOMAIN R /\ Fewer(R[x], S[x])
  BY <1>1 DEF Shrunk
<1>4. PICK j \in DOMAIN R[x].deps : R[x].deps[j] = S[x].deps[i]
  BY <1>3 DEF Fewer
<1>5. <<x, R[x].deps[j][1], R[x].deps[j][2]>> \in Arcs(R)
  BY <1>3, ArcOf
<1> QED BY <1>2, <1>4, <1>5

LEMMA ShrunkSafe ==
    ASSUME NEW R, NEW S, Shrunk(R, S), Safe(R)
    PROVE  Safe(S)
<1>1. FewerArcs(Arcs(R), Arcs(S))
  BY ShrunkArcs
<1>2. NoWayBack(Arcs(S))
  BY <1>1, FewerArcsNoWayBack DEF Safe
<1>3. ASSUME NEW x, NEW y, NEW k, <<x, y, k>> \in Arcs(S), y \in DOMAIN S PROVE ~S[y].loading
  <2>1. <<x, y, k>> \in Arcs(R) /\ y \in DOMAIN R /\ S[y].loading = R[y].loading
    BY <1>1, <1>3 DEF FewerArcs, Shrunk, Fewer, Same
  <2>2. ~R[y].loading
    BY <2>1 DEF Safe, Unlinked
  <2> QED BY <2>1, <2>2
<1> QED BY <1>2, <1>3 DEF Safe, Unlinked

\* The records with their links, and others without.
KeepsLinks(R, S) ==
    /\ DOMAIN R \subseteq DOMAIN S /\ \A x \in DOMAIN R : S[x].deps = R[x].deps /\ S[x].loading = R[x].loading
    /\ \A x \in DOMAIN S : x \notin DOMAIN R => S[x].deps = <<>>
    /\ \A x \in DOMAIN S : (x \notin DOMAIN R /\ S[x].loading) => Absent(Arcs(R), x)

LEMMA KeepsLinksSafe ==
    ASSUME NEW R, NEW S, KeepsLinks(R, S)
    PROVE  FewerArcs(Arcs(R), Arcs(S)) /\ (Safe(R) => Safe(S))
<1>1. FewerArcs(Arcs(R), Arcs(S))
  <2> SUFFICES ASSUME NEW x, NEW y, NEW k, <<x, y, k>> \in Arcs(S) PROVE <<x, y, k>> \in Arcs(R)
    BY DEF FewerArcs
  <2>1. x \in DOMAIN S /\ \E i \in DOMAIN S[x].deps : S[x].deps[i][1] = y /\ S[x].deps[i][2] = k
    BY ArcIs
  <2>2. PICK i \in DOMAIN S[x].deps : S[x].deps[i][1] = y /\ S[x].deps[i][2] = k
    BY <2>1
  <2>3. x \in DOMAIN R /\ S[x].deps = R[x].deps
    BY <2>1, <2>2 DEF KeepsLinks
  <2>4. <<x, R[x].deps[i][1], R[x].deps[i][2]>> \in Arcs(R)
    BY <2>3, ArcOf
  <2> QED BY <2>2, <2>3, <2>4
<1>2. ASSUME Safe(R) PROVE Safe(S)
  <2>1. NoWayBack(Arcs(S))
    BY <1>1, <1>2, FewerArcsNoWayBack DEF Safe
  <2>2. ASSUME NEW x, NEW y, NEW k, <<x, y, k>> \in Arcs(S), y \in DOMAIN S PROVE ~S[y].loading
    <3>1. <<x, y, k>> \in Arcs(R)
      BY <1>1, <2>2 DEF FewerArcs
    <3>2. CASE y \in DOMAIN R
      <4>1. ~R[y].loading
        BY <1>2, <3>1, <3>2 DEF Safe, Unlinked
      <4> QED BY <3>2, <4>1 DEF KeepsLinks
    <3>3. CASE y \notin DOMAIN R
      BY <2>2, <3>1, <3>3 DEF KeepsLinks, Absent
    <3> QED BY <3>2, <3>3
  <2> QED BY <2>1, <2>2 DEF Safe, Unlinked
<1> QED BY <1>1, <1>2

LEMMA NotMentionedAbsent ==
    ASSUME NEW R, NEW id, id \notin Mentioned(R)
    PROVE  Absent(Arcs(R), id)
<1> SUFFICES ASSUME NEW x, NEW y, NEW k, <<x, y, k>> \in Arcs(R) PROVE x # id /\ y # id
  BY DEF Absent
<1>1. x \in DOMAIN R /\ \E i \in DOMAIN R[x].deps : R[x].deps[i][1] = y /\ R[x].deps[i][2] = k
  BY ArcIs
<1> QED BY <1>1, NotMentioned

\* No way leads to a record that no link leads to.
LEMMA NotEntered ==
    ASSUME NEW N, NEW R, Typed(R, N), NEW T \in SUBSET Ids(N), NEW b, b \notin T,
           \A x, y, k : <<x, y, k>> \in Arcs(R) => y # b
    PROVE  Avoids(Arcs(R), T, b)
<1> DEFINE C == Ids(N) \ {b}
<1>1. T \subseteq C /\ b \notin C
  OBVIOUS
<1>2. KeepingAll(Arcs(R), C)
  BY ArcEnds DEF KeepingAll
<1> QED BY <1>1, <1>2 DEF Avoids

\* check_cycle()
LEMMA CycleChecked ==
    ASSUME NEW N, NEW R, Typed(R, N), NEW ls \in Seq(Links(N)), NEW b \in DOMAIN R, ~check_cycle(R, ls, b)
    PROVE  Avoids(Arcs(R), Targets(ls), b)
<1> DEFINE closed(S) == \A r \in S : \A i \in DOMAIN R[r].deps :
               (R[r].deps[i][2] \in Kinds /\ R[r].deps[i][1] \in DOMAIN R) => R[r].deps[i][1] \in S
<1>1. b \notin {t \in DOMAIN R : \A S \in SUBSET (DOMAIN R) : (Targets(ls) \cap DOMAIN R \subseteq S /\ closed(S)) => t \in S}
  BY Zenon DEF check_cycle, Reached
<1>2. PICK S \in SUBSET (DOMAIN R) : Targets(ls) \cap DOMAIN R \subseteq S /\ closed(S) /\ b \notin S
  BY <1>1
<1> DEFINE C == S \cup (Ids(N) \ DOMAIN R)
<1>3. Targets(ls) \subseteq Ids(N)
  <2>1. ASSUME NEW i \in DOMAIN ls PROVE ls[i][1] \in Ids(N)
    <3>1. ls[i] \in Links(N)
      OBVIOUS
    <3> QED BY <3>1 DEF Links
  <2> QED BY <2>1 DEF Targets
<1>4. Targets(ls) \subseteq C /\ b \notin C
  BY <1>2, <1>3
<1>5. KeepingAll(Arcs(R), C)
  <2> SUFFICES ASSUME NEW x, NEW y, NEW k, <<x, y, k>> \in Arcs(R), x \in C PROVE y \in C
    BY DEF KeepingAll
  <2>1. x \in DOMAIN R /\ y \in Ids(N) /\ k \in Kinds
    BY ArcEnds
  <2>2. PICK i \in DOMAIN R[x].deps : R[x].deps[i][1] = y /\ R[x].deps[i][2] = k
    BY ArcIs
  <2>3. x \in S
    BY <2>1
  <2>4. y \in DOMAIN R => y \in S
    BY <1>2, <2>1, <2>2, <2>3
  <2> QED BY <2>1, <2>4
<1> QED BY <1>4, <1>5 DEF Avoids

LEMMA FewerArcsAvoids ==
    ASSUME NEW A, NEW B, FewerArcs(A, B), NEW T, NEW b, Avoids(A, T, b)
    PROVE  Avoids(B, T, b)
<1>1. PICK C : KeepingAll(A, C) /\ T \subseteq C /\ b \notin C
  BY DEF Avoids
<1>2. KeepingAll(B, C)
  BY <1>1 DEF KeepingAll, FewerArcs
<1> QED BY <1>1, <1>2 DEF Avoids

LEMMA GrewLinks ==
    ASSUME NEW R, NEW S, Grew(R, S)
    PROVE  KeepsLinks(R, S) /\ FewerArcs(Arcs(R), Arcs(S)) /\ (Safe(R) => Safe(S))
<1>1. KeepsLinks(R, S)
  BY DEF Grew, KeepsLinks
<1> QED BY <1>1, KeepsLinksSafe

----------------------------------------------------------------------------
(* The links that a load adds *)

\* What a service is to depend on is loaded, and leads to no service of B: those get a link to it.
Chosen(R, f, B) ==
    /\ \A i \in DOMAIN f.depends : f.depends[i][1] \in DOMAIN R /\ ~R[f.depends[i][1]].loading
    /\ \A b \in B : b \in DOMAIN R /\ b[1] # f.name /\ Avoids(Arcs(R), Targets(f.depends), b)
Careful(w) == w.kind = "none" => Chosen(w.R, w.f, w.before)
NoneBefore(w) == w.kind = "none" => w.before = {}

LEMMA ChosenGrows ==
    ASSUME NEW R, NEW S, Grew(R, S), NEW f, NEW B, Chosen(R, f, B)
    PROVE  Chosen(S, f, B)
<1>1. FewerArcs(Arcs(R), Arcs(S))
  BY GrewLinks
<1>2. ASSUME NEW b \in B PROVE b \in DOMAIN S /\ b[1] # f.name /\ Avoids(Arcs(S), Targets(f.depends), b)
  <2>1. b \in DOMAIN R /\ b[1] # f.name /\ Avoids(Arcs(R), Targets(f.depends), b)
    BY DEF Chosen
  <2>2. Avoids(Arcs(S), Targets(f.depends), b)
    BY <1>1, <2>1, FewerArcsAvoids
  <2> QED BY <2>1, <2>2 DEF Grew
<1>3. \A i \in DOMAIN f.depends : f.depends[i][1] \in DOMAIN S /\ ~S[f.depends[i][1]].loading
  BY DEF Chosen, Grew
<1> QED BY <1>2, <1>3 DEF Chosen

LEMMA FindConsumedCareful ==
    ASSUME NEW w, NEW R, NEW f, Works(w, R, f), Careful(w), NoneBefore(w)
    PROVE  Careful(FindConsumed(w)) /\ NoneBefore(FindConsumed(w))
<1> DEFINE v == FindConsumed(w)
<1>1. v.kind = "none" => Extends(w, v, w.f, w.before)
  BY FindConsumedWorks
<1> HIDE DEF v
<1> SUFFICES ASSUME v.kind = "none" PROVE Chosen(v.R, v.f, v.before) /\ v.before = {}
  BY DEF Careful, NoneBefore, v
<1>2. w.kind = "none" /\ v.f = w.f /\ v.before = w.before /\ Grew(w.R, v.R)
  BY <1>1 DEF Extends
<1>3. Chosen(w.R, w.f, w.before) /\ w.before = {}
  BY <1>2 DEF Careful, NoneBefore
<1> QED BY <1>2, <1>3, ChosenGrows

LEMMA AddAfterCareful ==
    ASSUME NEW w, NEW R, NEW f, Works(w, R, f), Careful(w), NoneBefore(w), NEW n \in Names
    PROVE  Careful(AddAfter(w, n)) /\ NoneBefore(AddAfter(w, n))
<1> DEFINE v == AddAfter(w, n)
           F(id) == [w.f EXCEPT !.depends = Append(w.f.depends, <<id, "AFTER">>)]
<1>1. Works(v, R, f) /\ (v.kind = "none" => \E id : Orders(w, v, n, id) /\ Extends(w, v, F(id), w.before) /\ ~v.R[id].loading)
  BY AddAfterWorks
<1> HIDE DEF v, F
<1> SUFFICES ASSUME v.kind = "none" PROVE Chosen(v.R, v.f, v.before) /\ v.before = {}
  BY DEF Careful, NoneBefore, v
<1>2. PICK id : Orders(w, v, n, id) /\ Extends(w, v, F(id), w.before) /\ ~v.R[id].loading
  BY <1>1
<1>3. /\ w.kind = "none" /\ v.f = F(id) /\ v.before = w.before /\ Grew(w.R, v.R)
      /\ id \in DOMAIN v.R /\ ~v.R[id].loading
  BY <1>2 DEF Extends, Orders
<1>4. Chosen(w.R, w.f, w.before) /\ w.before = {}
  BY <1>3 DEF Careful, NoneBefore
<1>5. Chosen(v.R, w.f, w.before)
  BY <1>3, <1>4, ChosenGrows
<1>6. PICK N \in Nat : WorkOK(w, R, f, N)
  BY DEF Works
<1>7. PICK M \in Nat : WorkOK(v, R, f, M)
  BY <1>1 DEF Works
<1>8. PICK L \in Nat : N <= L /\ M <= L
  <2>1. N <= N + M /\ M <= N + M /\ N + M \in Nat
    OBVIOUS
  <2> QED BY <2>1
<1>9. FrameOK(w.f, L) /\ SameFrame(f, w.f)
  BY <1>6, <1>8, FrameGrows DEF WorkOK
<1>10. id \in Ids(L)
  <2>1. id \in Ids(M)
    BY <1>3, <1>7 DEF WorkOK, Sound, Typed
  <2> QED BY <1>8, <2>1, RecGrows
<1>11. v.f = [w.f EXCEPT !.depends = Append(w.f.depends, <<id, "AFTER">>)]
  BY <1>3 DEF F
<1>12. \A i \in DOMAIN v.f.depends : v.f.depends[i] = <<id, "AFTER">> \/ \E j \in DOMAIN w.f.depends : w.f.depends[j] = v.f.depends[i]
  BY <1>9, <1>10, <1>11, FrameAfter
<1>13. ASSUME NEW i \in DOMAIN v.f.depends PROVE v.f.depends[i][1] \in DOMAIN v.R /\ ~v.R[v.f.depends[i][1]].loading
  <2>1. CASE v.f.depends[i] = <<id, "AFTER">>
    BY <1>3, <2>1
  <2>2. CASE \E j \in DOMAIN w.f.depends : w.f.depends[j] = v.f.depends[i]
    BY <1>5, <2>2 DEF Chosen
  <2> QED BY <1>12, <2>1, <2>2
<1> QED BY <1>3, <1>4, <1>13 DEF Chosen

LEMMA AddBeforeCareful ==
    ASSUME NEW w, NEW R, NEW f, Works(w, R, f), Careful(w), NEW n \in Names
    PROVE  Careful(AddBefore(w, n))
<1> DEFINE v == AddBefore(w, n)
<1>1. v.kind = "none" => \E id : Orders(w, v, n, id) /\ Extends(w, v, w.f, w.before \cup {id})
                               /\ (id \in DOMAIN w.R => ~check_cycle(w.R, w.f.depends, id))
  BY AddBeforeWorks
<1> HIDE DEF v
<1> SUFFICES ASSUME v.kind = "none" PROVE Chosen(v.R, v.f, v.before)
  BY DEF Careful, v
<1>2. PICK id : Orders(w, v, n, id) /\ Extends(w, v, w.f, w.before \cup {id})
              /\ (id \in DOMAIN w.R => ~check_cycle(w.R, w.f.depends, id))
  BY <1>1
<1>3. /\ w.kind = "none" /\ v.f = w.f /\ v.before = w.before \cup {id} /\ Grew(w.R, v.R)
      /\ n # w.f.name /\ id[1] = n /\ id \in DOMAIN v.R /\ (id \in DOMAIN w.R \/ id \notin Mentioned(w.R))
  BY <1>2 DEF Extends, Orders
<1>4. Chosen(w.R, w.f, w.before)
  BY <1>3 DEF Careful
<1>5. PICK N \in Nat : WorkOK(w, R, f, N)
  BY DEF Works
<1>6. Typed(w.R, N) /\ w.f.depends \in Seq(Links(N))
  BY <1>5, FrameFields DEF WorkOK, Sound, FrameOK
<1>7. Avoids(Arcs(w.R), Targets(w.f.depends), id)
  <2>1. CASE id \in DOMAIN w.R
    BY <1>2, <1>6, <2>1, CycleChecked
  <2>2. CASE id \notin DOMAIN w.R
    <3>1. Absent(Arcs(w.R), id)
      BY <1>3, <2>2, NotMentionedAbsent
    <3>2. Targets(w.f.depends) \subseteq DOMAIN w.R
      BY <1>4 DEF Chosen, Targets
    <3>3. Targets(w.f.depends) \in SUBSET Ids(N)
      BY <1>6, <3>2 DEF Typed
    <3>4. \A x, y, k : <<x, y, k>> \in Arcs(w.R) => y # id
      BY <3>1 DEF Absent
    <3> QED BY <1>6, <2>2, <3>2, <3>3, <3>4, NotEntered
  <2> QED BY <2>1, <2>2
<1>8. Avoids(Arcs(v.R), Targets(w.f.depends), id)
  BY <1>3, <1>7, GrewLinks, FewerArcsAvoids
<1>9. Chosen(v.R, w.f, w.before)
  BY <1>3, <1>4, ChosenGrows
<1> QED BY <1>3, <1>8, <1>9 DEF Chosen

LEMMA AddAftersCareful ==
    ASSUME NEW w, NEW R, NEW f, Works(w, R, f), Careful(w), NoneBefore(w)
    PROVE  Careful(AddAfters(w)) /\ NoneBefore(AddAfters(w))
<1> DEFINE n == Len(w.f.after)
           h == AddAftersRunFcn(w)
<1>0. w.f.after \in Seq(Names)
  BY FrameFields DEF Works, WorkOK, FrameOK
<1>1. n \in Nat /\ \A k \in 1 .. n : w.f.after[k] \in Names
  BY <1>0
<1>2. AddAfters(w) = h[n]
  BY Zenon DEF AddAfters, AddAftersRunFcn, AddAftersRun, AddAftersRunStep
<1>3. AddAftersRun(h, w, n)
  BY <1>1, AddAftersRunExists DEF AddAftersRunFcn
<1>4. h = [k \in 0 .. n |-> IF k = 0 THEN w ELSE AddAftersRunStep(h[k - 1], w, k)]
  BY <1>3 DEF AddAftersRun
<1> HIDE DEF n, h
<1>5. \A k \in 0 .. n : h[k] = IF k = 0 THEN w ELSE AddAftersRunStep(h[k - 1], w, k)
  BY <1>4, Zenon
<1> DEFINE I == {k \in 0 .. n : Works(h[k], R, f) /\ Careful(h[k]) /\ NoneBefore(h[k])}
<1>6. I \in SUBSET (0 .. n) /\ 0 \in I
  BY <1>1, <1>5
<1>7. \A k \in 1 .. n : k - 1 \in I => k \in I
  <2> SUFFICES ASSUME NEW k \in 1 .. n, k - 1 \in I PROVE k \in I
    OBVIOUS
  <2>1. k \in 0 .. n /\ k # 0 /\ Works(h[k - 1], R, f) /\ Careful(h[k - 1]) /\ NoneBefore(h[k - 1])
    BY <1>1
  <2>2. h[k] = AddAfter(h[k - 1], w.f.after[k])
    BY <1>5, <2>1 DEF AddAftersRunStep
  <2>3. Works(h[k], R, f)
    BY <1>1, <2>1, <2>2, AddAfterWorks
  <2>4. Careful(h[k]) /\ NoneBefore(h[k])
    BY <1>1, <2>1, <2>2, AddAfterCareful
  <2> QED BY <2>1, <2>3, <2>4
<1> HIDE DEF I
<1>8. I = 0 .. n
  BY <1>1, <1>6, <1>7, SetInduction
<1>9. n \in I
  BY <1>1, <1>8
<1> QED BY <1>2, <1>9 DEF I

LEMMA AddBeforesCareful ==
    ASSUME NEW w, NEW R, NEW f, Works(w, R, f), Careful(w)
    PROVE  Careful(AddBefores(w))
<1> DEFINE n == Len(w.f.before)
           h == AddBeforesRunFcn(w)
<1>0. w.f.before \in Seq(Names)
  BY FrameFields DEF Works, WorkOK, FrameOK
<1>1. n \in Nat /\ \A k \in 1 .. n : w.f.before[k] \in Names
  BY <1>0
<1>2. AddBefores(w) = h[n]
  BY Zenon DEF AddBefores, AddBeforesRunFcn, AddBeforesRun, AddBeforesRunStep
<1>3. AddBeforesRun(h, w, n)
  BY <1>1, AddBeforesRunExists DEF AddBeforesRunFcn
<1>4. h = [k \in 0 .. n |-> IF k = 0 THEN w ELSE AddBeforesRunStep(h[k - 1], w, k)]
  BY <1>3 DEF AddBeforesRun
<1> HIDE DEF n, h
<1>5. \A k \in 0 .. n : h[k] = IF k = 0 THEN w ELSE AddBeforesRunStep(h[k - 1], w, k)
  BY <1>4, Zenon
<1> DEFINE I == {k \in 0 .. n : Works(h[k], R, f) /\ Careful(h[k])}
<1>6. I \in SUBSET (0 .. n) /\ 0 \in I
  BY <1>1, <1>5
<1>7. \A k \in 1 .. n : k - 1 \in I => k \in I
  <2> SUFFICES ASSUME NEW k \in 1 .. n, k - 1 \in I PROVE k \in I
    OBVIOUS
  <2>1. k \in 0 .. n /\ k # 0 /\ Works(h[k - 1], R, f) /\ Careful(h[k - 1])
    BY <1>1
  <2>2. h[k] = AddBefore(h[k - 1], w.f.before[k])
    BY <1>5, <2>1 DEF AddBeforesRunStep
  <2>3. Works(h[k], R, f)
    BY <1>1, <2>1, <2>2, AddBeforeWorks
  <2>4. Careful(h[k])
    BY <1>1, <2>1, <2>2, AddBeforeCareful
  <2> QED BY <2>1, <2>3, <2>4
<1> HIDE DEF I
<1>8. I = 0 .. n
  BY <1>1, <1>6, <1>7, SetInduction
<1>9. n \in I
  BY <1>1, <1>8
<1> QED BY <1>2, <1>9 DEF I

----------------------------------------------------------------------------
(* No cycle: the steps *)

LEMMA ChosenTargets ==
    ASSUME NEW R, NEW f, NEW B, Chosen(R, f, B), NEW y \in Targets(f.depends)
    PROVE  y \in DOMAIN R /\ ~R[y].loading
BY DEF Chosen, Targets

LEMMA UpdatedSafe ==
    ASSUME NEW R, NEW S, NEW r \in DOMAIN R, NEW f, NEW B, Relinks(R, S), GivesLinks(R, S, r, f.depends, B), Safe(R),
           Chosen(R, f, B), r[1] = f.name, ~R[r].loading, Avoids(Arcs(R), Targets(f.depends), r)
    PROVE  Safe(S)
<1> DEFINE T == Targets(f.depends)
<1>1. Relinked(Arcs(R), Arcs(S), r, T, B)
  <2> SUFFICES ASSUME NEW x, NEW y, NEW k, <<x, y, k>> \in Arcs(S)
               PROVE  \/ (x # r \/ k = "BEFORE") /\ <<x, y, k>> \in Arcs(R)
                      \/ x = r /\ y \in T
                      \/ x \in B /\ y = r /\ k = "BEFORE"
    BY DEF Relinked
  <2>1. x \in DOMAIN S /\ \E i \in DOMAIN S[x].deps : S[x].deps[i][1] = y /\ S[x].deps[i][2] = k
    BY ArcIs
  <2>2. PICK i \in DOMAIN S[x].deps : S[x].deps[i][1] = y /\ S[x].deps[i][2] = k
    BY <2>1
  <2>3. \/ x \in B /\ S[x].deps[i] = <<r, "BEFORE">>
        \/ x = r /\ \E j \in DOMAIN f.depends : S[x].deps[i] = f.depends[j]
        \/ (x # r \/ S[x].deps[i][2] = "BEFORE") /\ \E j \in DOMAIN R[x].deps : S[x].deps[i] = R[x].deps[j]
    BY <2>1 DEF GivesLinks
  <2>4. CASE x \in B /\ S[x].deps[i] = <<r, "BEFORE">>
    BY <2>2, <2>4
  <2>5. CASE x = r /\ \E j \in DOMAIN f.depends : S[x].deps[i] = f.depends[j]
    BY <2>2, <2>5 DEF Targets
  <2>6. CASE (x # r \/ S[x].deps[i][2] = "BEFORE") /\ \E j \in DOMAIN R[x].deps : S[x].deps[i] = R[x].deps[j]
    <3>1. PICK j \in DOMAIN R[x].deps : S[x].deps[i] = R[x].deps[j]
      BY <2>6
    <3>2. x \in DOMAIN R
      BY <2>1 DEF Relinks
    <3>3. <<x, R[x].deps[j][1], R[x].deps[j][2]>> \in Arcs(R)
      BY <3>2, ArcOf
    <3> QED BY <2>2, <2>6, <3>1, <3>3
  <2> QED BY <2>3, <2>4, <2>5, <2>6
<1>2. AllAvoided(Arcs(R), T, B, r)
  BY DEF Chosen, AllAvoided
<1>3. NoWayBack(Arcs(S))
  BY <1>1, <1>2, RelinkedNoWayBack DEF Safe
<1>4. ASSUME NEW x, NEW y, NEW k, <<x, y, k>> \in Arcs(S), y \in DOMAIN S PROVE ~S[y].loading
  <2>1. y \in DOMAIN R /\ S[y].loading = R[y].loading
    BY <1>4 DEF Relinks, Same
  <2>2. <<x, y, k>> \in Arcs(R) \/ y \in T \/ y = r
    BY <1>1, <1>4 DEF Relinked
  <2>3. ~R[y].loading
    <3>1. CASE <<x, y, k>> \in Arcs(R)
      BY <2>1, <3>1 DEF Safe, Unlinked
    <3>2. CASE y \in T
      BY <3>2, ChosenTargets
    <3> QED BY <2>2, <3>1, <3>2
  <2> QED BY <2>1, <2>3
<1> QED BY <1>3, <1>4 DEF Safe, Unlinked

LEMMA ReplacedSafe ==
    ASSUME NEW N, NEW R, NEW S, NEW orig \in DOMAIN R, NEW id, NEW f, NEW B, Replaces(R, S, orig, id, N), Safe(R),
           TakesLinks(R, S, orig, id, f.depends, B), id \notin Mentioned(R),
           Chosen(R, f, B), orig[1] = f.name, Avoids(Arcs(R), Targets(f.depends), orig)
    PROVE  Safe(S)
<1> DEFINE T == Targets(f.depends)
<1>1. id \notin DOMAIN R /\ orig # id /\ Absent(Arcs(R), id)
  BY NotMentioned, NotMentionedAbsent
<1>2. T \subseteq DOMAIN R /\ id \notin T /\ orig \notin T
  BY <1>1, ChosenTargets DEF Avoids
<1>3. orig \notin B /\ id \notin B
  BY <1>1 DEF Chosen
<1>4. Taken(Arcs(R), Arcs(S), orig, id, T, B)
  <2> SUFFICES ASSUME NEW x, NEW y, NEW k, <<x, y, k>> \in Arcs(S)
               PROVE  \/ <<x, y, k>> \in Arcs(R)
                      \/ y = id /\ <<x, orig, k>> \in Arcs(R)
                      \/ x = id /\ y \in T
                      \/ x = id /\ k = "BEFORE" /\ <<orig, y, "BEFORE">> \in Arcs(R)
                      \/ x \in B /\ y = id /\ k = "BEFORE"
    BY DEF Taken
  <2>1. x \in DOMAIN S /\ \E i \in DOMAIN S[x].deps : S[x].deps[i][1] = y /\ S[x].deps[i][2] = k
    BY ArcIs
  <2>2. PICK i \in DOMAIN S[x].deps : S[x].deps[i][1] = y /\ S[x].deps[i][2] = k
    BY <2>1
  <2> DEFINE m == S[x].deps[i]
  <2>3. \E z, l : AddedLink(R, id, f.depends, B, z, l) /\ TakenLink(orig, id, x, m, z, l)
    BY <2>1 DEF TakesLinks
  <2> HIDE DEF m
  <2>4. PICK z, l : AddedLink(R, id, f.depends, B, z, l) /\ TakenLink(orig, id, x, m, z, l)
    BY <2>3
  <2>5. m[1] = y /\ m[2] = k
    BY <2>2 DEF m
  <2>6. \/ z = x /\ m = l
        \/ z = x /\ l[1] = orig /\ m = <<id, l[2]>>
        \/ x = id /\ z = orig /\ l[2] = "BEFORE" /\ m = l
    BY <2>4 DEF TakenLink
  <2>7. CASE z \in B /\ l = <<id, "BEFORE">>
    <3>1. l[1] = id /\ l[2] = "BEFORE" /\ l[1] # orig /\ z # orig
      BY <1>1, <1>3, <2>7
    <3> QED BY <2>5, <2>6, <2>7, <3>1
  <2>8. CASE z = id /\ \E j \in DOMAIN f.depends : l = f.depends[j]
    <3>1. l[1] \in T
      BY <2>8 DEF Targets
    <3>2. l[1] # orig /\ z # orig
      BY <1>1, <1>2, <2>8, <3>1
    <3> QED BY <2>5, <2>6, <2>8, <3>1, <3>2
  <2>9. CASE z \in DOMAIN R /\ \E j \in DOMAIN R[z].deps : l = R[z].deps[j]
    <3>1. PICK j \in DOMAIN R[z].deps : l = R[z].deps[j]
      BY <2>9
    <3>2. <<z, R[z].deps[j][1], R[z].deps[j][2]>> \in Arcs(R)
      BY <2>9, ArcOf
    <3>3. <<z, l[1], l[2]>> \in Arcs(R)
      BY <3>1, <3>2
    <3>4. CASE z = x /\ m = l
      BY <2>5, <3>3, <3>4
    <3>5. CASE z = x /\ l[1] = orig /\ m = <<id, l[2]>>
      BY <2>5, <3>3, <3>5
    <3>6. CASE x = id /\ z = orig /\ l[2] = "BEFORE" /\ m = l
      BY <2>5, <3>3, <3>6
    <3> QED BY <2>6, <3>4, <3>5, <3>6
  <2> QED BY <2>4, <2>7, <2>8, <2>9 DEF AddedLink
<1>5. AllAvoided(Arcs(R), T, B, id)
  BY <1>3 DEF Chosen, AllAvoided
<1>6. NoWayBack(Arcs(S))
  BY <1>1, <1>2, <1>4, <1>5, TakenNoWayBack DEF Safe
<1>7. ASSUME NEW x, NEW y, NEW k, <<x, y, k>> \in Arcs(S), y \in DOMAIN S PROVE ~S[y].loading
  <2>1. CASE y = id
    BY <1>7, <2>1 DEF Replaces
  <2>2. CASE y # id
    <3>1. y \in DOMAIN R /\ S[y].loading = R[y].loading
      BY <1>7, <2>2 DEF Replaces, Same
    <3>2. <<x, y, k>> \in Arcs(R) \/ y \in T \/ <<orig, y, "BEFORE">> \in Arcs(R)
      <4>1. \/ <<x, y, k>> \in Arcs(R)
            \/ y = id /\ <<x, orig, k>> \in Arcs(R)
            \/ x = id /\ y \in T
            \/ x = id /\ k = "BEFORE" /\ <<orig, y, "BEFORE">> \in Arcs(R)
            \/ x \in B /\ y = id /\ k = "BEFORE"
        <5> HIDE DEF T
        <5> QED BY <1>4, <1>7 DEF Taken
      <4> QED BY <2>2, <4>1
    <3>3. ~R[y].loading
      <4>1. CASE <<x, y, k>> \in Arcs(R) \/ <<orig, y, "BEFORE">> \in Arcs(R)
        BY <3>1, <4>1 DEF Safe, Unlinked
      <4>2. CASE y \in T
        BY <4>2, ChosenTargets
      <4> QED BY <3>2, <4>1, <4>2
    <3> QED BY <3>1, <3>3
  <2> QED BY <2>1, <2>2
<1> QED BY <1>6, <1>7 DEF Safe, Unlinked

LEMMA UnloadSafe ==
    ASSUME NEW R, NEW S, NEW r, NEW id, Safe(R), id \notin Mentioned(R), PassesOn(R, S, r, id), r \in DOMAIN R,
           \A x \in DOMAIN S : ~S[x].loading
    PROVE  Safe(S)
<1>1. Absent(Arcs(R), id)
  BY NotMentionedAbsent
<1>2. Replaced(Arcs(R), Arcs(S), r, id)
  <2> SUFFICES ASSUME NEW x, NEW y, NEW k, <<x, y, k>> \in Arcs(S)
               PROVE  \/ <<x, y, k>> \in Arcs(R)
                      \/ y = id /\ k = "AFTER" /\ <<x, r, k>> \in Arcs(R)
                      \/ x = id /\ k = "BEFORE" /\ <<r, y, k>> \in Arcs(R)
    BY DEF Replaced
  <2>1. x \in DOMAIN S /\ \E i \in DOMAIN S[x].deps : S[x].deps[i][1] = y /\ S[x].deps[i][2] = k
    BY ArcIs
  <2>2. PICK i \in DOMAIN S[x].deps : S[x].deps[i][1] = y /\ S[x].deps[i][2] = k
    BY <2>1
  <2>3. \/ x \in DOMAIN R /\ \E j \in DOMAIN R[x].deps : S[x].deps[i] = R[x].deps[j]
        \/ x \in DOMAIN R /\ S[x].deps[i] = <<id, "AFTER">> /\ \E j \in DOMAIN R[x].deps : R[x].deps[j] = <<r, "AFTER">>
        \/ x = id /\ S[x].deps[i][2] = "BEFORE" /\ \E j \in DOMAIN R[r].deps : S[x].deps[i] = R[r].deps[j]
    BY <2>1 DEF PassesOn
  <2>4. CASE x \in DOMAIN R /\ \E j \in DOMAIN R[x].deps : S[x].deps[i] = R[x].deps[j]
    <3>1. PICK j \in DOMAIN R[x].deps : S[x].deps[i] = R[x].deps[j]
      BY <2>4
    <3>2. <<x, R[x].deps[j][1], R[x].deps[j][2]>> \in Arcs(R)
      BY <2>4, ArcOf
    <3> QED BY <2>2, <3>1, <3>2
  <2>5. CASE x \in DOMAIN R /\ S[x].deps[i] = <<id, "AFTER">> /\ \E j \in DOMAIN R[x].deps : R[x].deps[j] = <<r, "AFTER">>
    <3>1. PICK j \in DOMAIN R[x].deps : R[x].deps[j] = <<r, "AFTER">>
      BY <2>5
    <3>2. <<x, R[x].deps[j][1], R[x].deps[j][2]>> \in Arcs(R)
      BY <2>5, ArcOf
    <3> QED BY <2>2, <2>5, <3>1, <3>2
  <2>6. CASE x = id /\ S[x].deps[i][2] = "BEFORE" /\ \E j \in DOMAIN R[r].deps : S[x].deps[i] = R[r].deps[j]
    <3>1. PICK j \in DOMAIN R[r].deps : S[x].deps[i] = R[r].deps[j]
      BY <2>6
    <3>2. <<r, R[r].deps[j][1], R[r].deps[j][2]>> \in Arcs(R)
      BY ArcOf
    <3> QED BY <2>2, <2>6, <3>1, <3>2
  <2> QED BY <2>3, <2>4, <2>5, <2>6
<1>3. NoWayBack(Arcs(S))
  BY <1>1, <1>2, ReplacedNoWayBack DEF Safe
<1> QED BY <1>3 DEF Safe, Unlinked

LEMMA WorksSafe ==
    ASSUME NEW w, NEW R, NEW f, Works(w, R, f), Safe(R)
    PROVE  Safe(w.R)
<1>1. Grew(R, w.R)
  BY DEF Works, WorkOK
<1> QED BY <1>1, GrewLinks

\* The record that is updated is not reached from what it is to depend on: check_cycle() has looked.
LEMMA UpdateSafe ==
    ASSUME NEW w, NEW R, NEW f, Works(w, R, f), w.kind = "none", Ready(R, f), Safe(R), Careful(w),
           w.f.reload # None, w.R[w.f.reload].type = w.f.type
    PROVE  Safe(update_depenencies(w).R)
<1> DEFINE r == w.f.reload
           v == update_depenencies(w)
<1>1. /\ (Works(v, R, f) /\ v.kind # "none") \/ Done(v, R, Original(f))
      /\ v.kind = "none" => Updates(w, v, r)
  BY UpdateDone
<1> HIDE DEF v
<1>2. CASE v.kind # "none"
  <2>1. Works(v, R, f)
    BY <1>1, <1>2 DEF Done
  <2> QED BY <2>1, WorksSafe DEF v
<1>3. CASE v.kind = "none"
  <2>1. ~check_cycle(w.R, w.f.depends, r) /\ Relinks(w.R, v.R) /\ GivesLinks(w.R, v.R, r, w.f.depends, w.before)
    BY <1>1, <1>3 DEF Updates
  <2>2. PICK N \in Nat : WorkOK(w, R, f, N)
    BY DEF Works
  <2>3. Sound(w.R, N) /\ Grew(R, w.R) /\ FrameOK(w.f, N) /\ SameFrame(f, w.f)
    BY <2>2 DEF WorkOK
  <2>4. r = Original(f) /\ r \in DOMAIN w.R
    BY <2>3 DEF SameFrame, Original, Ready, Grew
  <2>5. w.f.type # "placeholder" /\ w.f.depends \in Seq(Links(N)) /\ r[1] = w.f.name
    BY <2>3, FrameFields DEF FrameOK, ServiceTypes, Output, Processes
  <2>6. ~w.R[r].loading
    BY <2>3, <2>4, <2>5 DEF Sound, Named
  <2>7. Typed(w.R, N) /\ Chosen(w.R, w.f, w.before)
    BY <2>3 DEF Sound, Careful
  <2>8. Avoids(Arcs(w.R), Targets(w.f.depends), r)
    BY <2>1, <2>4, <2>5, <2>7, CycleChecked
  <2>9. Safe(w.R)
    BY WorksSafe
  <2> QED BY <2>1, <2>4, <2>5, <2>6, <2>7, <2>8, <2>9, UpdatedSafe DEF v
<1> QED BY <1>2, <1>3

\* A record that is replaced is not reached either; to a dummy no link leads.
LEMMA CreateSafe ==
    ASSUME NEW w, NEW R, NEW f, Works(w, R, f), w.kind = "none", Ready(R, f), Safe(R), Careful(w),
           f.reload = None => R[f.dummy].loading,
           ~(w.f.reload # None /\ w.R[w.f.reload].type = w.f.type)
    PROVE  Safe(create_new_record(w).R)
<1> DEFINE orig == Original(f)
           v == create_new_record(w)
<1>1. /\ (Works(v, R, f) /\ v.kind # "none") \/ Done(v, R, Original(f))
      /\ v.kind = "none" => Creates(w, v, orig)
  BY CreateDone
<1> HIDE DEF v
<1>2. CASE v.kind # "none"
  <2>1. Works(v, R, f)
    BY <1>1, <1>2 DEF Done
  <2> QED BY <2>1, WorksSafe DEF v
<1>3. CASE v.kind = "none"
  <2>1. /\ w.f.reload # None => ~check_cycle(w.R, w.f.depends, w.f.reload)
        /\ \E N, id : id \notin Mentioned(w.R) /\ Replaces(w.R, v.R, orig, id, N)
                      /\ TakesLinks(w.R, v.R, orig, id, w.f.depends, w.before)
    BY <1>1, <1>3 DEF Creates
  <2>2. PICK N \in Nat : WorkOK(w, R, f, N)
    BY DEF Works
  <2>3. Typed(w.R, N) /\ Grew(R, w.R) /\ FrameOK(w.f, N) /\ SameFrame(f, w.f)
    BY <2>2 DEF WorkOK, Sound
  <2>4. orig = Original(w.f) /\ orig \in DOMAIN w.R /\ w.R[orig] = R[orig] /\ w.f.reload = f.reload
    BY <2>3 DEF SameFrame, Original, Ready, Grew
  <2>5. w.f.depends \in Seq(Links(N)) /\ orig[1] = w.f.name
    BY <2>3, <2>4, FrameFields DEF FrameOK, Original
  <2>6. Safe(w.R) /\ Chosen(w.R, w.f, w.before)
    BY WorksSafe DEF Careful
  <2> HIDE DEF orig
  <2>7. Avoids(Arcs(w.R), Targets(w.f.depends), orig)
    <3>1. CASE f.reload # None
      <4>1. orig = w.f.reload
        BY <2>4, <3>1 DEF Original
      <4> QED BY <2>1, <2>3, <2>4, <2>5, <3>1, <4>1, CycleChecked
    <3>2. CASE f.reload = None
      <4>1. w.R[orig].loading
        BY <2>4, <3>2 DEF Original, orig
      <4>2. \A x, y, k : <<x, y, k>> \in Arcs(w.R) => y # orig
        BY <2>4, <2>6, <4>1 DEF Safe, Unlinked
      <4>3. \A y \in Targets(w.f.depends) : y \in DOMAIN w.R /\ ~w.R[y].loading
        BY <2>6, ChosenTargets
      <4>4. Targets(w.f.depends) \in SUBSET Ids(N) /\ orig \notin Targets(w.f.depends)
        BY <2>3, <4>1, <4>3 DEF Typed
      <4> QED BY <2>3, <4>2, <4>4, NotEntered
    <3> QED BY <3>1, <3>2
  <2>8. PICK M, id : id \notin Mentioned(w.R) /\ Replaces(w.R, v.R, orig, id, M)
                     /\ TakesLinks(w.R, v.R, orig, id, w.f.depends, w.before)
    BY <2>1
  <2> QED BY <2>4, <2>5, <2>6, <2>7, <2>8, ReplacedSafe DEF v
<1> QED BY <1>2, <1>3

LEMMA WorkSafe ==
    ASSUME NEW N \in Nat, NEW R, NEW f, Sound(R, N), Unique(R), FrameOK(f, N), Ready(R, f), Safe(R),
           Chosen(R, f, {}), f.reload = None => R[f.dummy].loading
    PROVE  Safe(EndWork(R, f).R)
<1> DEFINE w0 == StartWork(R, f)
           w1 == check_settings_for_reload(finalise(ReadEnvFile(w0)))
           w2 == FindConsumed(w1)
           w3 == AddAfters(w2)
           w4 == AddBefores(w3)
           w5 == CreateOrUpdate(w4)
           w == MarkConsumer(w5)
<1>0. w = EndWork(R, f)
  BY DEF EndWork
<1>1. WorkOK(w0, R, f, N) /\ w0.R = R /\ w0.f = f /\ w0.before = {}
  <2>1. w0 \in Work(R, f, "none", {}, None, None)
    BY Zenon DEF StartWork, Work
  <2> HIDE DEF w0
  <2>2. w0.R = R /\ w0.f = f /\ w0.kind = "none" /\ w0.before = {} /\ w0.of = None /\ IsWork(w0)
    BY <2>1, WorkFields
  <2>3. {} \in SUBSET Ids(N) /\ None \in IdsOrNone(N) /\ SameFrame(f, f)
    BY DEF IdsOrNone, SameFrame
  <2> QED BY <2>2, <2>3, GrewItself DEF WorkOK
<1> HIDE DEF w0
<1>2. Works(w1, R, f) /\ Careful(w1) /\ NoneBefore(w1)
  <2>1. Works(w1, R, f) /\ (w1.kind = "none" => w1 = w0)
    BY <1>1, SettingsChecked
  <2> HIDE DEF w1
  <2> QED BY <1>1, <2>1 DEF Careful, NoneBefore
<1> HIDE DEF w1
<1>3. Works(w2, R, f) /\ Careful(w2) /\ NoneBefore(w2)
  BY <1>2, FindConsumedWorks, FindConsumedCareful
<1> HIDE DEF w2
<1>4. Works(w3, R, f) /\ Careful(w3)
  BY <1>3, AddAftersWorks, AddAftersCareful
<1> HIDE DEF w3
<1>5. Works(w4, R, f) /\ Careful(w4)
  BY <1>4, AddBeforesWorks, AddBeforesCareful
<1> HIDE DEF w4
<1>6. ((Works(w5, R, f) /\ w5.kind # "none") \/ Done(w5, R, Original(f))) /\ Safe(w5.R)
  <2>1. CASE w4.kind # "none"
    <3>1. w5 = w4
      BY <2>1 DEF CreateOrUpdate, KeepsRecord
    <3> QED BY <1>5, <2>1, <3>1, WorksSafe
  <2>2. CASE w4.kind = "none" /\ w4.f.reload # None /\ w4.R[w4.f.reload].type = w4.f.type
    <3> DEFINE v == update_depenencies(w4)
    <3>1. w5 = v
      BY <2>2 DEF CreateOrUpdate, KeepsRecord
    <3>2. (Works(v, R, f) /\ v.kind # "none") \/ Done(v, R, Original(f))
      BY <1>5, <2>2, UpdateDone
    <3>3. Safe(v.R)
      BY <1>5, <2>2, UpdateSafe
    <3> HIDE DEF v, w5
    <3> QED BY <3>1, <3>2, <3>3
  <2>3. CASE w4.kind = "none" /\ ~(w4.f.reload # None /\ w4.R[w4.f.reload].type = w4.f.type)
    <3> DEFINE v == create_new_record(w4)
    <3>1. w5 = v
      BY <2>3 DEF CreateOrUpdate, KeepsRecord
    <3>2. (Works(v, R, f) /\ v.kind # "none") \/ Done(v, R, Original(f))
      BY <1>5, <2>3, CreateDone
    <3>3. Safe(v.R)
      BY <1>5, <2>3, CreateSafe
    <3> HIDE DEF v, w5
    <3> QED BY <3>1, <3>2, <3>3
  <2> QED BY <2>1, <2>2, <2>3
<1> HIDE DEF w5
<1>7. CASE Works(w5, R, f) /\ w5.kind # "none"
  <2>1. w = w5
    BY <1>7 DEF MarkConsumer, Unless
  <2> QED BY <1>0, <1>6, <2>1
<1>8. CASE Done(w5, R, Original(f))
  <2>1. w.R = w5.R \/ Shrunk(w5.R, w.R)
    BY <1>8, MarkDone
  <2> HIDE DEF w
  <2>2. Safe(w.R)
    BY <1>6, <2>1, ShrunkSafe
  <2> QED BY <1>0, <2>2
<1> QED BY <1>6, <1>7, <1>8

LEMMA ThrowSafe ==
    ASSUME NEW N, NEW R, Typed(R, N), Safe(R), NEW f, NEW k, NEW before, NEW of, Throw(R, f, k, before, of)
    PROVE  Safe(recs')
<1>1. recs' = exception_cleanup(R, f, before, of)
  BY DEF Throw
<1>2. Shrunk(R, exception_cleanup(R, f, before, of))
  BY CleanupShrinks DEF Shrinks
<1> QED BY <1>1, <1>2, ShrunkSafe

\* The new dummy has no links, and none leads to it.
LEMMA CallSafe ==
    ASSUME NEW N \in Nat, Typed(recs, N), Safe(recs), NEW n \in Names, NEW reload, Call(recs, n, reload)
    PROVE  Safe(recs')
<1> DEFINE id == FreshId(recs, n)
           a == NewRecord(n, "placeholder", TRUE)
           S == Put(recs, id, a)
<1>1. recs' = recs \/ recs' = S
  BY Zenon DEF Call
<1>2. id \notin Mentioned(recs)
  BY Fresh
<1>3. a.deps = <<>>
  BY DEF NewRecord
<1> HIDE DEF id, a
<1>4. id \notin DOMAIN recs /\ Absent(Arcs(recs), id)
  BY <1>2, NotMentioned, NotMentionedAbsent
<1>5. DOMAIN S = DOMAIN recs \cup {id} /\ S[id] = a /\ \A x \in DOMAIN recs : S[x] = recs[x]
  BY <1>4 DEF Put
<1> HIDE DEF S
<1>6. KeepsLinks(recs, S)
  BY <1>3, <1>4, <1>5 DEF KeepsLinks
<1>7. Safe(S)
  BY <1>6, KeepsLinksSafe
<1> QED BY <1>1, <1>7

LEMMA LoadSafe ==
    ASSUME NEW N \in Nat, Typed(recs, N), Safe(recs), NEW n \in Names, NEW avoid, load_service(n, avoid)
    PROVE  Safe(recs')
<1>1. recs' = recs \/ \E reload : Call(recs, n, reload)
  BY Zenon DEF load_service
<1> QED BY <1>1, CallSafe

LEMMA FinishSafe ==
    ASSUME NEW N \in Nat, LoaderInv(recs, stack, ret, N), Safe(recs), Finish
    PROVE  Safe(recs')
<1> DEFINE n == Len(stack)
           f == Top
           w == EndWork(recs, f)
<1>1. /\ Sound(recs, N) /\ Unique(recs) /\ Frames(stack, N) /\ stack # <<>> /\ ret = NoReturn
      /\ Dummies(recs, stack) /\ Loaded(recs, stack)
  BY KindsCalm DEF LoaderInv, Tidy, Finish, Reading
<1>2. n \in DOMAIN stack /\ f = stack[n]
  BY <1>1 DEF Frames, Top
<1>3. FrameOK(f, N)
  BY <1>1, <1>2 DEF Frames
<1>4. f.reload = None => f.dummy \in DOMAIN recs /\ recs[f.dummy].loading
  BY <1>1, <1>2 DEF Dummies
<1>5. Chosen(recs, f, {})
  <2>1. ASSUME NEW i \in DOMAIN f.depends PROVE f.depends[i][1] \in DOMAIN recs /\ ~recs[f.depends[i][1]].loading
    <3>1. IsLoaded(recs, f.depends[i][1])
      BY <1>1, <1>2 DEF Loaded
    <3> QED BY <1>1, <3>1 DEF IsLoaded, Sound, Named
  <2> QED BY <2>1 DEF Chosen
<1>6. Ready(recs, f)
  <2>1. f.reload \in DOMAIN recs \cup {None}
    BY DEF Finish
  <2>2. f.reload = None => recs[f.dummy].type = "placeholder"
    BY <1>1, <1>4 DEF Sound, Named
  <2>3. \A i \in DOMAIN f.depends : f.depends[i][1] \in DOMAIN recs
    BY <1>5 DEF Chosen
  <2> QED BY <1>4, <2>1, <2>2, <2>3 DEF Ready, Original
<1>7. (Works(w, recs, f) /\ w.kind # "none") \/ Done(w, recs, Original(f))
  BY <1>1, <1>3, <1>6, WorkEnds
<1>8. Safe(w.R)
  BY <1>1, <1>3, <1>4, <1>5, <1>6, WorkSafe
<1>9. IF w.kind # "none" THEN Throw(w.R, w.f, w.kind, w.before, w.of) ELSE recs' = w.R
  BY Zenon DEF Finish, EndWork, StartWork
<1> HIDE DEF w, f
<1>10. CASE w.kind # "none"
  <2>1. PICK M \in Nat : WorkOK(w, recs, f, M)
    BY <1>7, <1>10 DEF Works, Done
  <2>2. Typed(w.R, M)
    BY <2>1 DEF WorkOK, Sound
  <2> QED BY <1>8, <1>9, <1>10, <2>2, ThrowSafe
<1>11. CASE w.kind = "none"
  BY <1>8, <1>9, <1>11
<1> QED BY <1>10, <1>11

\* Lines other than those that name a service leave the records alone, or end the load.
LEMMA LineSafe ==
    ASSUME NEW N \in Nat, Typed(recs, N), Safe(recs),
           \/ DirectoryLine \/ CallReturns \/ OrderingLine \/ ConsumerLine \/ TypeLine \/ LogTypeLine
           \/ OptionsLine \/ OtherLine \/ BadLine \/ IncludeLine
    PROVE  Safe(recs')
<1>1. recs' = recs \/ \E k : Throw(recs, Top, k, {}, None)
  <2>1. CASE DirectoryLine \/ OrderingLine \/ TypeLine \/ LogTypeLine \/ OptionsLine \/ OtherLine
    BY <2>1 DEF DirectoryLine, OrderingLine, TypeLine, LogTypeLine, OptionsLine, OtherLine, Continue
  <2>2. CASE CallReturns
    BY <2>2, Zenon DEF CallReturns, Continue
  <2>3. CASE ConsumerLine
    BY <2>3, Zenon DEF ConsumerLine, Continue
  <2>4. CASE BadLine
    BY <2>4, Zenon DEF BadLine
  <2>5. CASE IncludeLine
    BY <2>5, Zenon DEF IncludeLine, Continue
  <2> QED BY <2>1, <2>2, <2>3, <2>4, <2>5
<1> QED BY <1>1, ThrowSafe

LEMMA StateSafe ==
    ASSUME NEW N, Typed(recs, N), Safe(recs), NEW r \in DOMAIN recs, ChangeState(r)
    PROVE  Safe(recs')
<1>1. PICK st \in States : recs' = [recs EXCEPT ![r].state = st]
  BY DEF ChangeState, States
<1> DEFINE a == [recs[r] EXCEPT !.state = st]
<1>2. recs[r] \in Rec(N)
  BY DEF Typed
<1>3. a.deps = recs[r].deps /\ a.loading = recs[r].loading
  BY <1>2, SetState
<1>4. DOMAIN recs' = DOMAIN recs /\ recs'[r] = a /\ \A x \in DOMAIN recs : x # r => recs'[x] = recs[x]
  BY <1>1 DEF Typed
<1> HIDE DEF a
<1>5. KeepsLinks(recs, recs')
  BY <1>3, <1>4 DEF KeepsLinks
<1> QED BY <1>5, KeepsLinksSafe

LEMMA InitSafe == Init => Safe(recs)
<1> SUFFICES ASSUME Init PROVE Safe(recs)
  OBVIOUS
<1>1. DOMAIN recs = {}
  BY DEF Init
<1>2. \A x, y, k : <<x, y, k>> \notin Arcs(recs)
  BY <1>1, ArcIs
<1> QED BY <1>2 DEF Safe, NoWayBack, Unlinked

LEMMA NextSafe == IInv /\ Safe(recs) /\ [Next]_vars => Safe(recs')
<1> SUFFICES ASSUME IInv, Safe(recs), [Next]_vars PROVE Safe(recs')
  OBVIOUS
<1>1. PICK N \in Nat : LoaderInv(recs, stack, ret, N)
  BY DEF IInv
<1>2. Typed(recs, N) /\ Sound(recs, N)
  BY <1>1 DEF LoaderInv, Sound
<1>3. CASE UNCHANGED vars
  BY <1>3 DEF vars
<1>4. CASE \E n \in Names : LoadRequest(n)
  <2>1. PICK n \in Names : load_service(n, None)
    BY <1>4 DEF LoadRequest
  <2> QED BY <1>2, <2>1, LoadSafe
<1>5. CASE \E r \in DOMAIN recs : reload_service(r)
  <2>1. PICK r \in DOMAIN recs : Call(recs, recs[r].name, r)
    BY <1>5 DEF reload_service
  <2>2. recs[r].name \in Names
    BY <1>2, RecFields DEF Typed
  <2> QED BY <1>2, <2>1, <2>2, CallSafe
<1>6. CASE (\E n \in Names : Edit(n)) \/ RequestEnds
  BY <1>6 DEF Edit, RequestEnds
<1>7. CASE \E r \in DOMAIN recs : Unload(r)
  <2>1. PICK r \in DOMAIN recs : Unload(r)
    BY <1>7
  <2> DEFINE S == unload_service(recs, r)
  <2>2. stack = <<>> /\ recs[r].type # "placeholder" /\ recs[r].state = "STOPPED" /\ recs' = S
    BY <2>1 DEF Unload, Idle
  <2>3. Sound(recs, N) /\ Unique(recs) /\ \A x \in DOMAIN recs : ~recs[x].loading
    BY <1>1, <2>2, NothingMarked
  <2>4. (\A x \in DOMAIN S : ~S[x].loading) /\ \E id : id \notin Mentioned(recs) /\ PassesOn(recs, S, r, id)
    BY <2>2, <2>3, UnloadSound
  <2> HIDE DEF S
  <2> QED BY <2>2, <2>4, UnloadSafe
<1>8. CASE \E r \in DOMAIN recs : ChangeState(r)
  BY <1>2, <1>8, StateSafe
<1>9. CASE DependencyLine \/ DirectoryEntry
  <2> DEFINE sets == DOMAIN DepTypes \cup DOMAIN EntryTypes
  <2>1. PICK avoid : HasLine(sets) /\ load_service(Line.val, avoid)
    BY <1>9 DEF DependencyLine, DirectoryEntry, HasLine
  <2> HIDE DEF sets
  <2>2. Line \in Lines /\ Line.set \in sets
    BY <1>1, <2>1, TopLine
  <2>3. Line.val \in Names
    BY <2>2, LineVals DEF sets
  <2> QED BY <1>2, <2>1, <2>3, LoadSafe
<1>10. CASE \/ DirectoryLine \/ CallReturns \/ OrderingLine \/ ConsumerLine \/ TypeLine \/ LogTypeLine
            \/ OptionsLine \/ OtherLine \/ BadLine \/ IncludeLine
  BY <1>2, <1>10, LineSafe
<1>11. CASE Finish
  BY <1>1, <1>11, FinishSafe
<1> QED BY <1>3, <1>4, <1>5, <1>6, <1>7, <1>8, <1>9, <1>10, <1>11 DEF Next

\* The records that lead back to r are outside of a set that no link other than "before" leaves.
LEMMA SafeNoCycle == Safe(recs) => NoCycleLoaded
<1> SUFFICES ASSUME Safe(recs), NEW r \in DOMAIN recs, NEW i \in DOMAIN recs[r].deps
             PROVE  r \notin Reached(recs, {recs[r].deps[i][1]}, Kinds \ {"BEFORE"})
  BY DEF NoCycleLoaded
<1> DEFINE t == recs[r].deps[i][1]
           kinds == Kinds \ {"BEFORE"}
           closed(S) == \A x \in S : \A j \in DOMAIN recs[x].deps :
               (recs[x].deps[j][2] \in kinds /\ recs[x].deps[j][1] \in DOMAIN recs) => recs[x].deps[j][1] \in S
<1>1. <<r, t, recs[r].deps[i][2]>> \in Arcs(recs)
  BY ArcOf
<1>2. PICK C : t \in C /\ r \notin C /\ Keeping(Arcs(recs), C)
  BY <1>1 DEF Safe, NoWayBack
<1> DEFINE S == C \cap DOMAIN recs
<1>3. S \in SUBSET (DOMAIN recs) /\ {t} \cap DOMAIN recs \subseteq S /\ r \notin S
  BY <1>2
<1>4. ASSUME NEW x \in S, NEW j \in DOMAIN recs[x].deps, recs[x].deps[j][2] # "BEFORE", recs[x].deps[j][1] \in DOMAIN recs
      PROVE  recs[x].deps[j][1] \in S
  <2>1. <<x, recs[x].deps[j][1], recs[x].deps[j][2]>> \in Arcs(recs)
    BY ArcOf
  <2> QED BY <1>2, <1>4, <2>1 DEF Keeping
<1> HIDE DEF S
<1>5. closed(S)
  BY <1>4
<1>6. r \notin {u \in DOMAIN recs : \A W \in SUBSET (DOMAIN recs) : ({t} \cap DOMAIN recs \subseteq W /\ closed(W)) => u \in W}
  BY <1>3, <1>5
<1> QED BY <1>6, Zenon DEF Reached

\* Services that depend on each other are not loaded, for every set of names, every contents of the
\* files and every order of loads, reloads and unloads, whatever fails on the way: no cycle of links
\* has fewer than two "before" links (check_is_loading(), check_cycle(), load_reload_service()).
THEOREM NoCycleIsLoaded == Spec => []NoCycleLoaded
<1> DEFINE J == IInv /\ Safe(recs)
<1>1. Init => J
  BY InitIInv, InitSafe
<1>2. J /\ [Next]_vars => J'
  BY NextIInv, NextSafe
<1>3. J => NoCycleLoaded
  BY SafeNoCycle
<1> HIDE DEF J
<1> QED BY <1>1, <1>2, <1>3, PTL DEF Spec
=============================================================================
