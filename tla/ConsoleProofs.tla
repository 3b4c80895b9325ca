--------------------------- MODULE ConsoleProofs ---------------------------
(***************************************************************************)
(* The console in Service has one owner at most and is never lost, for     *)
(* every set of services and every order of calls.  The argument needs the *)
(* stack: between the owner that gives the console back and the one that   *)
(* gets it, the console is with a call of pull_console_queue() that is     *)
(* still to be made.                                                       *)
(***************************************************************************)
EXTENDS ServiceProofs

----------------------------------------------------------------------------
(* Some links of a sequence of links *)

\* The recursive function of Only.
Picks(f, q, P) ==
    f = [n \in 0 .. Len(q) |->
            IF n = 0 THEN <<>> ELSE IF q[n] \in P THEN Append(f[n - 1], q[n]) ELSE f[n - 1]]

\* A set of natural numbers that is not empty has a least element.
LEMMA Least ==
    ASSUME NEW I \in SUBSET Nat, I # {}
    PROVE  \E m \in I : \A i \in I : m <= i
<1>1. PICK m \in I : \A i \in I : ~(<<i, m>> \in OpToRel(<, Nat))
  BY WFMin, NatLessThanWellFounded
<1>2. \A i \in I : m <= i
  <2>1. TAKE i \in I
  <2>2. ~(<<i, m>> \in {ss \in Nat \X Nat : ss[1] < ss[2]})
    BY <1>1 DEF OpToRel
  <2> QED BY <2>2
<1> QED BY <1>2

\* It exists.
LEMMA PicksExists ==
    ASSUME NEW S, NEW q \in Seq(S), NEW P
    PROVE  \E f : Picks(f, q, P)
<1> DEFINE Upto(f, n) ==
        f = [k \in 0 .. n |-> IF k = 0 THEN <<>> ELSE IF q[k] \in P THEN Append(f[k - 1], q[k]) ELSE f[k - 1]]
           I == {n \in 0 .. Len(q) : ~\E f : Upto(f, n)}
<1>1. I = {}
  <2> SUFFICES ASSUME I # {} PROVE FALSE
    OBVIOUS
  <2>0. I \in SUBSET Nat
    OBVIOUS
  <2>1. PICK m \in I : \A i \in I : m <= i
    <3> HIDE DEF I
    <3> QED BY <2>0, Least
  <2>2. m \in 0 .. Len(q) /\ m \in Nat /\ Len(q) \in Nat /\ ~\E f : Upto(f, m)
    <3>1. m \in 0 .. Len(q) /\ ~\E f : Upto(f, m)
      <4> HIDE DEF Upto
      <4> QED OBVIOUS
    <3>2. m \in Nat /\ Len(q) \in Nat  BY <2>0
    <3> HIDE DEF Upto, I
    <3> QED BY <3>1, <3>2
  <2>3. CASE m = 0
    <3> DEFINE g == [k \in 0 .. 0 |-> <<>>]
    <3>1. Upto(g, 0)
      <4>1. \A k \in 0 .. 0 : k = 0  OBVIOUS
      <4> QED BY <4>1
    <3> QED BY <2>2, <2>3, <3>1
  <2>4. CASE m # 0
    <3>1. m - 1 \in 0 .. Len(q) /\ m - 1 \notin I
      <4> HIDE DEF I
      <4> QED BY <2>1, <2>2, <2>4
    <3>2. PICK f : Upto(f, m - 1)
      BY <3>1
    <3> DEFINE g == [k \in 0 .. m |-> IF k = m THEN (IF q[m] \in P THEN Append(f[m - 1], q[m]) ELSE f[m - 1])
                                      ELSE f[k]]
    <3>3. Upto(g, m)
      <4>1. \A k \in 0 .. m : g[k] = IF k = 0 THEN <<>> ELSE IF q[k] \in P THEN Append(g[k - 1], q[k]) ELSE g[k - 1]
        <5> SUFFICES ASSUME NEW k \in 0 .. m
                     PROVE  g[k] = IF k = 0 THEN <<>> ELSE IF q[k] \in P THEN Append(g[k - 1], q[k]) ELSE g[k - 1]
          OBVIOUS
        <5>1. CASE k = m
          <6>1. g[m - 1] = f[m - 1]  BY <2>2, <2>4
          <6>2. g[m] = IF q[m] \in P THEN Append(f[m - 1], q[m]) ELSE f[m - 1]  BY <2>2
          <6> HIDE DEF g
          <6> QED BY <2>4, <5>1, <6>1, <6>2
        <5>2. CASE k # m
          <6>1. k \in 0 .. m - 1 /\ g[k] = f[k] /\ (k # 0 => g[k - 1] = f[k - 1])  BY <2>2, <5>2
          <6>2. f[k] = IF k = 0 THEN <<>> ELSE IF q[k] \in P THEN Append(f[k - 1], q[k]) ELSE f[k - 1]
            BY <3>2, <6>1
          <6> HIDE DEF g
          <6> QED BY <6>1, <6>2
        <5> QED BY <5>1, <5>2
      <4> QED BY <4>1
    <3> QED BY <2>2, <3>3
  <2> QED BY <2>3, <2>4
<1>2. Len(q) \in 0 .. Len(q)
  OBVIOUS
<1> QED BY <1>1, <1>2 DEF Picks

\* The links that are picked are a sequence of links.
LEMMA OnlyType ==
    ASSUME NEW S, NEW q \in Seq(S), NEW P
    PROVE  Only(q, P) \in Seq(S)
<1> DEFINE f == CHOOSE g : Picks(g, q, P)
<1>1. Picks(f, q, P) /\ Only(q, P) = f[Len(q)]
  <2>1. Picks(f, q, P)
    <3>1. \E g : Picks(g, q, P)  BY PicksExists
    <3> QED BY <3>1, Zenon
  <2>2. Only(q, P) = f[Len(q)]
    BY Zenon DEF Only, Picks
  <2> QED BY <2>1, <2>2
<1> HIDE DEF f
<1>2. \A n \in 0 .. Len(q) :
        f[n] = IF n = 0 THEN <<>> ELSE IF q[n] \in P THEN Append(f[n - 1], q[n]) ELSE f[n - 1]
  BY <1>1 DEF Picks
<1> DEFINE I == {n \in 0 .. Len(q) : f[n] \notin Seq(S)}
<1>3. I = {}
  <2> SUFFICES ASSUME I # {} PROVE FALSE
    OBVIOUS
  <2>0. I \in SUBSET Nat
    OBVIOUS
  <2>1. PICK m \in I : \A i \in I : m <= i
    <3> HIDE DEF I
    <3> QED BY <2>0, Least
  <2>2. CASE m = 0
    <3>1. 0 \in 0 .. Len(q)  OBVIOUS
    <3>2. f[0] = <<>>  BY <1>2, <3>1
    <3>3. <<>> \in Seq(S)  OBVIOUS
    <3>4. f[m] \notin Seq(S)  OBVIOUS
    <3> HIDE DEF I
    <3> QED BY <2>2, <3>2, <3>3, <3>4
  <2>3. CASE m # 0
    <3>1. m \in 1 .. Len(q) /\ m - 1 \in 0 .. Len(q) /\ m - 1 \notin I
      BY <2>1, <2>3
    <3>2. f[m - 1] \in Seq(S) /\ q[m] \in S
      BY <3>1
    <3>3. Append(f[m - 1], q[m]) \in Seq(S)  BY <3>2
    <3>4. f[m] = IF q[m] \in P THEN Append(f[m - 1], q[m]) ELSE f[m - 1]  BY <1>2, <3>1
    <3>5. f[m] \notin Seq(S)  OBVIOUS
    <3> HIDE DEF I
    <3> QED BY <3>2, <3>3, <3>4, <3>5
  <2> QED BY <2>2, <2>3
<1>4. Len(q) \in 0 .. Len(q)
  OBVIOUS
<1> QED BY <1>1, <1>3, <1>4

\* The loops over dependencies and dependents are over sequences of links.
LEMMA LinkSequences ==
    ASSUME TypeOK, NEW s, NEW P
    PROVE  /\ DependsOn(s) \in Seq(Links) /\ Dependents(s) \in Seq(Links)
           /\ Only(DependsOn(s), P) \in Seq(Links) /\ Only(Dependents(s), P) \in Seq(Links)
<1>1. links \in Seq(Links)
  BY DEF TypeOK
<1>2. DependsOn(s) \in Seq(Links) /\ Dependents(s) \in Seq(Links)
  BY <1>1, OnlyType DEF DependsOn, Dependents
<1> QED BY <1>2, OnlyType

----------------------------------------------------------------------------
(***************************************************************************)
(* The invariant.  The console is with the log, or a service has it, or a  *)
(* call of pull_console_queue() that is still to be made will give it to   *)
(* one: never two of these.  Nobody queues while the log has it.           *)
(***************************************************************************)
IsPull(call) == call[1] = "pull_console_queue"
OnePull(c) == \A i, j \in DOMAIN c : IsPull(c[i]) /\ IsPull(c[j]) => i = j
SomePull(c) == \E i \in DOMAIN c : IsPull(c[i])
Stack(c) == \E S : c \in Seq(S)
Owned == \E s \in Services : svc[s].have_console

ConsoleInv ==
    /\ Stack(calls) /\ OnePull(calls)
    /\ \A s, t \in Services : svc[s].have_console /\ svc[t].have_console => s = t
    /\ ~(SomePull(calls) /\ Owned)
    /\ log_console = "released" <=> SomePull(calls) \/ Owned
    /\ log_console = "held" => console_queue = <<>>

PullFree(c) == Stack(c) /\ ~SomePull(c)

\* A step that has nothing to do with the console.
SameOwner == \A s \in Services : svc'[s].have_console = svc[s].have_console
SameConsole == log_console' = log_console /\ (console_queue = <<>> => console_queue' = <<>>)
SamePulls ==
    Stack(calls) /\ OnePull(calls) =>
        Stack(calls') /\ OnePull(calls') /\ (SomePull(calls') <=> SomePull(calls))

LEMMA SameInv ==
    ASSUME ConsoleInv, SameOwner, SameConsole, SamePulls
    PROVE  ConsoleInv'
<1>1. Owned' <=> Owned
  BY DEF SameOwner, Owned
<1>2. Stack(calls') /\ OnePull(calls') /\ (SomePull(calls') <=> SomePull(calls))
  BY DEF ConsoleInv, SamePulls
<1>3. \A s, t \in Services : svc'[s].have_console /\ svc'[t].have_console => s = t
  BY DEF ConsoleInv, SameOwner
<1>4. (log_console = "released" <=> SomePull(calls) \/ Owned)'
  BY <1>1, <1>2 DEF ConsoleInv, SameConsole
<1>5. (log_console = "held" => console_queue = <<>>)'
  BY DEF ConsoleInv, SameConsole
<1> QED BY <1>1, <1>2, <1>3, <1>4, <1>5 DEF ConsoleInv

\* Calls that a step makes.
LEMMA QuietNothing == PullFree(<<>>)
<1>1. <<>> \in Seq({})
  OBVIOUS
<1> QED BY <1>1 DEF PullFree, Stack, SomePull

LEMMA QuietOne ==
    ASSUME NEW call, ~IsPull(call)
    PROVE  PullFree(<<call>>)
<1>1. <<call>> \in Seq({call})
  OBVIOUS
<1>2. \A i \in DOMAIN <<call>> : <<call>>[i] = call
  OBVIOUS
<1>3. Stack(<<call>>)
  BY <1>1, Zenon DEF Stack
<1>4. ~SomePull(<<call>>)
  BY <1>2, Zenon DEF SomePull
<1> QED BY <1>3, <1>4, Zenon DEF PullFree

LEMMA QuietTwo ==
    ASSUME NEW a, NEW b, ~IsPull(a), ~IsPull(b)
    PROVE  PullFree(<<a, b>>)
<1>1. <<a, b>> \in Seq({a, b})
  OBVIOUS
<1>2. \A i \in DOMAIN <<a, b>> : <<a, b>>[i] \in {a, b}
  OBVIOUS
<1>3. Stack(<<a, b>>)
  BY <1>1, Zenon DEF Stack
<1>4. ~SomePull(<<a, b>>)
  BY <1>2, Zenon DEF SomePull
<1> QED BY <1>3, <1>4, Zenon DEF PullFree

LEMMA StackBoth ==
    ASSUME NEW c, NEW d, Stack(c), Stack(d)
    PROVE  /\ Stack(c \o d) /\ Len(c) \in Nat /\ Len(d) \in Nat /\ Len(c \o d) = Len(c) + Len(d)
           /\ DOMAIN c = 1 .. Len(c) /\ DOMAIN d = 1 .. Len(d) /\ DOMAIN (c \o d) = 1 .. Len(c) + Len(d)
           /\ \A i \in 1 .. Len(c) + Len(d) : (c \o d)[i] = IF i <= Len(c) THEN c[i] ELSE d[i - Len(c)]
<1>1. PICK S : c \in Seq(S)
  BY DEF Stack
<1>2. PICK T : d \in Seq(T)
  BY DEF Stack
<1>3. c \in Seq(S \cup T) /\ d \in Seq(S \cup T)
  BY <1>1, <1>2
<1>4. c \o d \in Seq(S \cup T)
  BY <1>3
<1> QED BY <1>3, <1>4 DEF Stack

LEMMA QuietBoth ==
    ASSUME NEW c, NEW d, PullFree(c), PullFree(d)
    PROVE  PullFree(c \o d)
<1>1. /\ Stack(c \o d) /\ Len(c) \in Nat /\ Len(d) \in Nat
      /\ DOMAIN c = 1 .. Len(c) /\ DOMAIN d = 1 .. Len(d) /\ DOMAIN (c \o d) = 1 .. Len(c) + Len(d)
      /\ \A i \in 1 .. Len(c) + Len(d) : (c \o d)[i] = IF i <= Len(c) THEN c[i] ELSE d[i - Len(c)]
  BY StackBoth DEF PullFree
<1>2. ASSUME NEW i \in 1 .. Len(c) + Len(d)
      PROVE  ~IsPull((c \o d)[i])
  <2>1. CASE i <= Len(c)
    <3>1. i \in DOMAIN c /\ (c \o d)[i] = c[i]  BY <1>1, <2>1
    <3> QED BY <3>1 DEF PullFree, SomePull
  <2>2. CASE ~(i <= Len(c))
    <3>1. i - Len(c) \in DOMAIN d /\ (c \o d)[i] = d[i - Len(c)]  BY <1>1, <2>2
    <3> QED BY <3>1 DEF PullFree, SomePull
  <2> QED BY <2>1, <2>2
<1>3. ~SomePull(c \o d)
  BY <1>1, <1>2, Zenon DEF SomePull
<1> QED BY <1>1, <1>3 DEF PullFree

LEMMA QuietEach ==
    ASSUME NEW op, NEW ls \in Seq(Links), op # "pull_console_queue"
    PROVE  PullFree(Each(op, ls))
<1>1. Each(op, ls) \in Seq({<<op, l>> : l \in Links})
  BY DEF Each
<1>2. \A i \in DOMAIN Each(op, ls) : ~IsPull(Each(op, ls)[i])
  BY DEF Each, IsPull
<1> QED BY <1>1, <1>2 DEF PullFree, Stack, SomePull

LEMMA QuietPins ==
    ASSUME TypeOK, NEW s, NEW pin
    PROVE  PullFree(EachPin(s, pin))
<1>1. DependsOn(s) \in Seq(Links)
  BY LinkSequences
<1>2. EachPin(s, pin) \in Seq({<<"pin_dependency", l, pin>> : l \in Links})
  BY <1>1 DEF EachPin
<1>3. \A i \in DOMAIN EachPin(s, pin) : ~IsPull(EachPin(s, pin)[i])
  BY DEF EachPin, IsPull
<1> QED BY <1>2, <1>3 DEF PullFree, Stack, SomePull

\* A call that makes quiet calls, or an event that does, moves no pull.
QuietStep ==
    calls # <<>> /\ ~IsPull(Head(calls)) /\ \E made : PullFree(made) /\ Return(made)
QuietEvent == Idle /\ PullFree(calls')

LEMMA QuietStepPulls ==
    ASSUME QuietStep
    PROVE  SamePulls
<1> SUFFICES ASSUME Stack(calls), OnePull(calls)
             PROVE  Stack(calls') /\ OnePull(calls') /\ (SomePull(calls') <=> SomePull(calls))
  BY DEF SamePulls
<1>1. PICK made : PullFree(made) /\ calls' = made \o Tail(calls)
  BY DEF QuietStep, Return
<1>2. PICK S : calls \in Seq(S)
  BY DEF Stack
<1> DEFINE d == Tail(calls)
           n == Len(made)
<1>3. /\ calls # <<>> /\ ~IsPull(calls[1]) /\ Len(calls) \in Nat /\ Len(calls) > 0
      /\ DOMAIN calls = 1 .. Len(calls) /\ Len(d) = Len(calls) - 1
      /\ \A i \in 1 .. Len(d) : d[i] = calls[i + 1]
  BY <1>2 DEF QuietStep
<1>4. Stack(d)
  BY <1>2, <1>3 DEF Stack
<1>5. /\ Stack(calls') /\ n \in Nat /\ Len(d) \in Nat
      /\ DOMAIN made = 1 .. n /\ DOMAIN calls' = 1 .. n + Len(d)
      /\ \A i \in 1 .. n + Len(d) : calls'[i] = IF i <= n THEN made[i] ELSE d[i - n]
  BY <1>1, <1>4, StackBoth DEF PullFree
<1> HIDE DEF d, n
<1>6. \A i \in 1 .. n + Len(d) : IsPull(calls'[i]) =>
         i - n \in 1 .. Len(d) /\ i - n + 1 \in 1 .. Len(calls) /\ IsPull(calls[i - n + 1])
  BY <1>1, <1>3, <1>5 DEF PullFree, SomePull
<1>7. \A i \in 1 .. Len(calls) : IsPull(calls[i]) =>
         i - 1 + n \in 1 .. n + Len(d) /\ IsPull(calls'[i - 1 + n])
  <2> SUFFICES ASSUME NEW i \in 1 .. Len(calls), IsPull(calls[i])
               PROVE  i - 1 + n \in 1 .. n + Len(d) /\ IsPull(calls'[i - 1 + n])
    OBVIOUS
  <2>1. i # 1 /\ i - 1 \in 1 .. Len(d)  BY <1>3
  <2>2. d[i - 1] = calls[i]  BY <1>3, <2>1
  <2>3. i - 1 + n \in 1 .. n + Len(d) /\ ~(i - 1 + n <= n) /\ (i - 1 + n) - n = i - 1  BY <1>5, <2>1
  <2> QED BY <1>5, <2>2, <2>3
<1>8. OnePull(calls')
  <2> SUFFICES ASSUME NEW i \in 1 .. n + Len(d), NEW j \in 1 .. n + Len(d), IsPull(calls'[i]), IsPull(calls'[j])
               PROVE  i = j
    BY <1>5 DEF OnePull
  <2>1. i - n + 1 = j - n + 1  BY <1>3, <1>6 DEF OnePull
  <2> QED BY <1>5, <2>1
<1>9. SomePull(calls') <=> SomePull(calls)
  BY <1>3, <1>5, <1>6, <1>7 DEF SomePull
<1> QED BY <1>5, <1>8, <1>9

LEMMA QuietEventPulls ==
    ASSUME QuietEvent
    PROVE  SamePulls
<1>1. ~SomePull(calls)
  BY DEF QuietEvent, Idle, SomePull
<1> QED BY <1>1 DEF QuietEvent, PullFree, SamePulls, SomePull, OnePull

----------------------------------------------------------------------------
(* The calls of the handlers, and their updates of a record *)

LEMMA OtherCalls ==
    ASSUME NEW s, NEW b, NEW c, NEW d, NEW k
    PROVE  /\ ~IsPull(<<"do_start", s>>) /\ ~IsPull(<<"activate", s>>) /\ ~IsPull(<<"initiate_start", s>>)
           /\ ~IsPull(<<"all_deps_started", s>>) /\ ~IsPull(<<"bring_up", s>>) /\ ~IsPull(<<"started", s>>)
           /\ ~IsPull(<<"stopped", s>>) /\ ~IsPull(<<"start", s>>) /\ ~IsPull(<<"forced_stop", s>>)
           /\ ~IsPull(<<"check_restart", s>>) /\ ~IsPull(<<"prop_stop", s>>) /\ ~IsPull(<<"bring_down", s>>)
           /\ ~IsPull(<<"dependencies_released", s>>) /\ ~IsPull(<<"execute_transition", s>>)
           /\ ~IsPull(<<"pin_start", s>>) /\ ~IsPull(<<"pin_stop", s>>) /\ ~IsPull(<<"unpin", s>>)
           /\ ~IsPull(<<"unpin_started", s>>) /\ ~IsPull(<<"unpin_stopped", s>>) /\ ~IsPull(<<"require", s>>)
           /\ ~IsPull(<<"reattach", s>>) /\ ~IsPull(<<"notify_started", s>>) /\ ~IsPull(<<"fail_dependent", s>>)
           /\ ~IsPull(<<"break_soft", s>>) /\ ~IsPull(<<"dependent_stopped", s>>)
           /\ ~IsPull(<<"release_dependency", s>>) /\ ~IsPull(<<"start_dep", s>>)
           /\ ~IsPull(<<"failed_to_start", s, b>>) /\ ~IsPull(<<"start_failed", s, b>>)
           /\ ~IsPull(<<"now_stopped", s, b>>) /\ ~IsPull(<<"chain", s, b>>) /\ ~IsPull(<<"stop", s, b>>)
           /\ ~IsPull(<<"do_stop", s, b>>) /\ ~IsPull(<<"interrupt_start", s, b>>)
           /\ ~IsPull(<<"enter_stopping", s, b>>) /\ ~IsPull(<<"do_propagation", s, b>>)
           /\ ~IsPull(<<"pin_dependency", s, b>>)
           /\ ~IsPull(<<"do_stop_for", s, b, c>>) /\ ~IsPull(<<"stop_dependents", s, k, b, c, d>>)
           /\ ~IsPull(<<"process_queues">>)
BY DEF IsPull

\* A call that is not a pull and makes no pull is a quiet step.
LEMMA Returns ==
    \A call, made : Calling(call) /\ ~IsPull(call) /\ Return(made) /\ PullFree(made) => QuietStep
BY Zenon DEF Calling, QuietStep

LEMMA SetOwner ==
    ASSUME TypeOK, NEW s \in Services, NEW r, SetRecord(s, r), r.have_console = svc[s].have_console
    PROVE  SameOwner
BY DEF TypeOK, SetRecord, SameOwner

LEMMA ReleasedOwner ==
    ASSUME NEW r \in SvcType
    PROVE  /\ Released(r).have_console = r.have_console
           /\ Deactivated(r).have_console = r.have_console
           /\ ForcedStop(r).have_console = r.have_console
<1>1. \A q \in SvcType : Released(q).have_console = q.have_console
  BY Zenon DEF Released, SvcType
<1>2. [r EXCEPT !.start_explicit = FALSE] \in SvcType
  BY Zenon DEF SvcType
<1>3. [r EXCEPT !.start_explicit = FALSE].have_console = r.have_console
  BY Zenon DEF SvcType
<1>4. Deactivated(r).have_console = r.have_console
  BY <1>1, <1>2, <1>3, Zenon DEF Deactivated
<1>5. ForcedStop(r).have_console = r.have_console
  BY Zenon DEF ForcedStop, SvcType
<1> QED BY <1>1, <1>4, <1>5

LEMMA GivenUpOwner ==
    ASSUME NEW l, svc[l.to] \in SvcType
    PROVE  GivenUp(l).have_console = svc[l.to].have_console
<1> DEFINE r == Released(svc[l.to])
<1>1. r \in SvcType /\ r.have_console = svc[l.to].have_console
  BY ReleasedWith, ReleasedOwner DEF With
<1> HIDE DEF r
<1>2. \A b : [r EXCEPT !.terminated = b].have_console = r.have_console
  BY <1>1, Zenon DEF SvcType
<1>3. GivenUp(l) = svc[l.to] \/ \E b : GivenUp(l) = [r EXCEPT !.terminated = b]
  BY Zenon DEF GivenUp, r
<1> QED BY <1>1, <1>2, <1>3, Zenon

\* There is nothing to unlink from an empty queue.
LEMMA UnqueueNothing ==
    ASSUME NEW s, UnqueueConsole(s), console_queue = <<>>
    PROVE  console_queue' = <<>>
<1>1. RemoveFirst(console_queue, s) \in Seq({})
  <2>1. console_queue \in Seq({})
    OBVIOUS
  <2> QED BY <2>1, RemoveFirstType
<1>2. RemoveFirst(console_queue, s) = <<>>
  BY <1>1
<1> QED BY <1>2 DEF UnqueueConsole

QuietHandler == SameOwner /\ SameConsole /\ (QuietStep \/ QuietEvent)

LEMMA PureCalls ==
    ASSUME TypeOK, NEW s \in Services, NEW b, NEW k, NEW fr, NEW rd, NEW all,
           \/ BringUp(s) \/ BringDown(s) \/ InterruptStart(s, b) \/ Chain(s, b) \/ PropagationDone(s, k)
           \/ DependentsTold(s, k, fr, rd, all)
    PROVE  QuietHandler
<1>1. QuietStep
  BY QuietNothing, QuietOne, OtherCalls, Returns, Zenon
     DEF BringUp, BringDown, InterruptStart, Chain, PropagationDone, DependentsTold
<1>2. svc' = svc /\ console' = console
  BY Zenon DEF BringUp, BringDown, InterruptStart, Chain, PropagationDone, DependentsTold
<1> QED BY <1>1, <1>2, Zenon DEF QuietHandler, SameOwner, SameConsole, console

LEMMA StartingCalls ==
    ASSUME TypeOK, NEW s \in Services,
           \/ Start(s) \/ DoStart(s) \/ Activate(s) \/ InitiateStart(s) \/ AllDepsStarted(s) \/ Started(s)
    PROVE  QuietHandler
<1>0. svc[s] \in SvcType /\ DependsOn(s) \in Seq(Links) /\ Dependents(s) \in Seq(Links)
      /\ \A P : Only(DependsOn(s), P) \in Seq(Links)
  BY Typed, LinkSequences
<1>1. QuietStep
  BY <1>0, QuietNothing, QuietOne, QuietBoth, QuietEach, OtherCalls, Returns, Zenon
     DEF Activate, AllDepsStarted, DoStart, InitiateStart, Start, Started
<1>2. SameOwner
  <2>0. svc[s] \in SvcType
    BY <1>0
  <2>1. \A r : SetRecord(s, r) /\ r.have_console = svc[s].have_console => SameOwner
    BY SetOwner
  <2>2. UNCHANGED svc => SameOwner
    BY Zenon DEF SameOwner
  <2> QED BY <2>0, <2>1, <2>2, Zenon DEF Activate, AllDepsStarted, DoStart, InitiateStart, Start, Started, SvcType
<1>3. SameConsole
  BY Zenon DEF Activate, AllDepsStarted, DoStart, InitiateStart, Start, Started, SameConsole, console
<1> QED BY <1>1, <1>2, <1>3 DEF QuietHandler

LEMMA StoppingCalls ==
    ASSUME TypeOK, NEW s \in Services,
           \/ Stopped(s) \/ CheckRestart(s) \/ PropStop(s) \/ DependenciesReleased(s)
    PROVE  QuietHandler
<1>0. svc[s] \in SvcType /\ DependsOn(s) \in Seq(Links) /\ Dependents(s) \in Seq(Links)
      /\ \A P : Only(DependsOn(s), P) \in Seq(Links)
  BY Typed, LinkSequences
<1>1. QuietStep
  BY <1>0, QuietNothing, QuietOne, QuietBoth, QuietEach, OtherCalls, Returns, Zenon
     DEF CheckRestart, DependenciesReleased, PropStop, Stopped
<1>2. SameOwner
  <2>0. svc[s] \in SvcType
    BY <1>0
  <2>1. \A r : SetRecord(s, r) /\ r.have_console = svc[s].have_console => SameOwner
    BY SetOwner
  <2>2. UNCHANGED svc => SameOwner
    BY Zenon DEF SameOwner
  <2> QED BY <2>0, <2>1, <2>2, Zenon DEF CheckRestart, DependenciesReleased, PropStop, Stopped, SvcType
<1>3. SameConsole
  BY Zenon DEF CheckRestart, DependenciesReleased, PropStop, Stopped, SameConsole, console
<1> QED BY <1>1, <1>2, <1>3 DEF QuietHandler

LEMMA PinCallsQuiet ==
    ASSUME TypeOK, NEW s \in Services,
           \/ PinStop(s) \/ UnpinStopped(s)
    PROVE  QuietHandler
<1>0. svc[s] \in SvcType /\ DependsOn(s) \in Seq(Links) /\ Dependents(s) \in Seq(Links)
      /\ \A P : Only(DependsOn(s), P) \in Seq(Links)
  BY Typed, LinkSequences
<1>1. QuietStep
  BY <1>0, QuietNothing, QuietOne, QuietBoth, QuietEach, OtherCalls, Returns, Zenon
     DEF PinStop, UnpinStopped
<1>2. SameOwner
  <2>0. svc[s] \in SvcType
    BY <1>0
  <2>1. \A r : SetRecord(s, r) /\ r.have_console = svc[s].have_console => SameOwner
    BY SetOwner
  <2>2. UNCHANGED svc => SameOwner
    BY Zenon DEF SameOwner
  <2> QED BY <2>0, <2>1, <2>2, Zenon DEF PinStop, UnpinStopped, SvcType
<1>3. SameConsole
  BY Zenon DEF PinStop, UnpinStopped, SameConsole, console
<1> QED BY <1>1, <1>2, <1>3 DEF QuietHandler

LEMMA PropagationCalls ==
    ASSUME TypeOK, NEW s \in Services, NEW k,
           \/ PropagateRequire(s, k) \/ PropagateFailure(s, k) \/ PropagateStart(s, k) \/ PropagateStop(s, k)
    PROVE  QuietHandler
<1>0. svc[s] \in SvcType /\ DependsOn(s) \in Seq(Links) /\ Dependents(s) \in Seq(Links)
      /\ \A P : Only(DependsOn(s), P) \in Seq(Links)
  BY Typed, LinkSequences
<1>1. QuietStep
  BY <1>0, QuietOne, QuietTwo, QuietBoth, QuietEach, OtherCalls, Returns, Zenon
     DEF AtPropagation, PropagateFailure, PropagateRequire, PropagateStart, PropagateStop
<1>2. SameOwner
  <2>0. svc[s] \in SvcType
    BY <1>0
  <2>1. \A r : SetRecord(s, r) /\ r.have_console = svc[s].have_console => SameOwner
    BY SetOwner
  <2>2. UNCHANGED svc => SameOwner
    BY Zenon DEF SameOwner
  <2> QED BY <2>0, <2>1, <2>2, Zenon DEF PropagateFailure, PropagateRequire, PropagateStart, PropagateStop, SvcType
<1>3. SameConsole
  BY Zenon DEF PropagateFailure, PropagateRequire, PropagateStart, PropagateStop, SameConsole, console
<1> QED BY <1>1, <1>2, <1>3 DEF QuietHandler

LEMMA FlagCalls ==
    ASSUME TypeOK, NEW s \in Services, NEW b,
           \/ StartFailed(s, b) \/ DoStop(s, b)
    PROVE  QuietHandler
<1>0. svc[s] \in SvcType /\ DependsOn(s) \in Seq(Links) /\ Dependents(s) \in Seq(Links)
      /\ \A P : Only(DependsOn(s), P) \in Seq(Links)
  BY Typed, LinkSequences
<1>1. QuietStep
  BY <1>0, QuietNothing, QuietOne, QuietBoth, QuietEach, OtherCalls, Returns, Zenon
     DEF DoStop, StartFailed
<1>2. SameOwner
  <2>0. svc[s] \in SvcType
    BY <1>0
  <2>1. \A r : SetRecord(s, r) /\ r.have_console = svc[s].have_console => SameOwner
    BY SetOwner
  <2>2. UNCHANGED svc => SameOwner
    BY Zenon DEF SameOwner
  <2> QED BY <2>0, <2>1, <2>2, Zenon DEF DoStop, StartFailed, SvcType
<1>3. SameConsole
  BY Zenon DEF DoStop, StartFailed, SameConsole, console
<1> QED BY <1>1, <1>2, <1>3 DEF QuietHandler

LEMMA PinningCalls ==
    ASSUME TypeOK, NEW s \in Services, NEW k,
           \/ PinStart(s) \/ Unpin(s) \/ UnpinStarted(s) \/ PropagatePin(s, k)
    PROVE  QuietHandler
<1>1. QuietStep
  <2>1. \A pin : PullFree(EachPin(s, pin))
    BY QuietPins
  <2> QED BY <2>1, QuietNothing, QuietOne, QuietTwo, QuietBoth, OtherCalls, Returns, Zenon
          DEF PinStart, Unpin, UnpinStarted, PropagatePin, AtPropagation
<1>2. SameOwner
  <2>0. svc[s] \in SvcType
    BY Typed
  <2>1. \A r : SetRecord(s, r) /\ r.have_console = svc[s].have_console => SameOwner
    BY SetOwner
  <2>2. UNCHANGED svc => SameOwner
    BY Zenon DEF SameOwner
  <2> QED BY <2>0, <2>1, <2>2, Zenon DEF PinStart, Unpin, UnpinStarted, PropagatePin, SvcType
<1>3. SameConsole
  BY Zenon DEF PinStart, Unpin, UnpinStarted, PropagatePin, SameConsole, console
<1> QED BY <1>1, <1>2, <1>3 DEF QuietHandler

LEMMA StopCalls ==
    ASSUME TypeOK, NEW s \in Services, NEW b, NEW c,
           \/ Stop(s, b) \/ ForceStop(s) \/ DoStopFor(s, b, c) \/ NowStopped(s, b) \/ ExecuteTransition(s)
    PROVE  QuietHandler
<1>1. QuietStep
  BY QuietNothing, QuietOne, QuietBoth, OtherCalls, Returns, Zenon
     DEF Stop, ForceStop, DoStopFor, NowStopped, ExecuteTransition
<1>2. SameOwner
  <2>0. svc[s] \in SvcType
    BY Typed
  <2>1. \A r : SetRecord(s, r) /\ r.have_console = svc[s].have_console => SameOwner
    BY SetOwner
  <2>2. /\ ForcedStop(svc[s]).have_console = svc[s].have_console
        /\ Deactivated(svc[s]).have_console = svc[s].have_console
    BY <2>0, ReleasedOwner
  <2>3. CASE Stop(s, b)
    BY <2>0, <2>1, <2>3, Zenon DEF Stop, SvcType
  <2>4. CASE ForceStop(s) \/ DoStopFor(s, b, c)
    BY <2>1, <2>2, <2>4, Zenon DEF ForceStop, DoStopFor
  <2>5. CASE NowStopped(s, b)
    <3> DEFINE r == [svc[s] EXCEPT !.state = "STOPPED"]
    <3>1. r \in SvcType /\ r.have_console = svc[s].have_console
      BY <2>0, Zenon DEF SvcType
    <3>2. Deactivated(r).have_console = svc[s].have_console
      BY <3>1, ReleasedOwner
    <3>3. SetRecord(s, r) \/ SetRecord(s, Deactivated(r))
      BY <2>5, Zenon DEF NowStopped
    <3> QED BY <2>1, <3>1, <3>2, <3>3, Zenon
  <2>6. CASE ExecuteTransition(s)
    BY <2>0, <2>1, <2>6, Zenon DEF ExecuteTransition, SvcType
  <2> QED BY <2>3, <2>4, <2>5, <2>6
<1>3. SameConsole
  BY Zenon DEF Stop, ForceStop, DoStopFor, NowStopped, ExecuteTransition, SameConsole, console
<1> QED BY <1>1, <1>2, <1>3 DEF QuietHandler

LEMMA ReleaseCalls ==
    ASSUME TypeOK, NEW s \in Services, NEW k, PropagateRelease(s, k)
    PROVE  QuietHandler
<1>0. DependsOn(s) \in Seq(Links)
  BY LinkSequences
<1>1. QuietStep
  BY <1>0, QuietOne, QuietBoth, QuietEach, OtherCalls, Returns, Zenon DEF PropagateRelease, AtPropagation
<1>2. SameOwner /\ SameConsole
  BY Zenon DEF PropagateRelease, SameOwner, SameConsole, console
<1> QED BY <1>1, <1>2 DEF QuietHandler

\* A service that fails or stops leaves the console queue; it has no console.
LEMMA LeavingCalls ==
    ASSUME TypeOK, NEW s \in Services, NEW b, FailedToStart(s, b) \/ EnterStopping(s, b)
    PROVE  QuietHandler
<1>0. svc[s] \in SvcType /\ Dependents(s) \in Seq(Links)
  BY Typed, LinkSequences
<1>1. QuietStep
  BY <1>0, QuietNothing, QuietOne, QuietBoth, QuietEach, OtherCalls, Returns, Zenon
     DEF FailedToStart, EnterStopping
<1>2. SameOwner
  <2>1. \A r : SetRecord(s, r) /\ r.have_console = svc[s].have_console => SameOwner
    BY SetOwner
  <2>2. CASE FailedToStart(s, b)
    <3> DEFINE r == [svc[s] EXCEPT !.desired = "STOPPED", !.waiting_for_console = FALSE]
    <3>1. r \in SvcType /\ r.have_console = svc[s].have_console
      BY <1>0, Zenon DEF SvcType
    <3>2. Deactivated(r).have_console = svc[s].have_console
      BY <3>1, ReleasedOwner
    <3>3. SetRecord(s, Deactivated(r))
      BY <2>2, Zenon DEF FailedToStart
    <3> QED BY <2>1, <3>2, <3>3, Zenon
  <2>3. CASE EnterStopping(s, b)
    <3>0. svc[s] \in SvcType
      BY <1>0
    <3> QED BY <2>1, <2>3, <3>0, Zenon DEF EnterStopping, SvcType
  <2> QED BY <2>2, <2>3
<1>3. SameConsole
  <2>1. UnqueueConsole(s) /\ console_queue = <<>> => console_queue' = <<>>
    BY UnqueueNothing
  <2> QED BY <2>1, Zenon DEF FailedToStart, EnterStopping, SameConsole
<1> QED BY <1>1, <1>2, <1>3 DEF QuietHandler

----------------------------------------------------------------------------
(* The calls for a link *)

LEMMA PureLinkCalls ==
    ASSUME TypeOK, NEW l \in Links, NotifyStarted(l) \/ DependentStopped(l) \/ StartDep(l)
    PROVE  QuietHandler
<1>1. QuietStep
  BY QuietNothing, QuietTwo, OtherCalls, Returns, Zenon DEF NotifyStarted, DependentStopped, StartDep
<1>2. SameOwner /\ SameConsole
  BY Zenon DEF NotifyStarted, DependentStopped, StartDep, SameOwner, SameConsole, console
<1> QED BY <1>1, <1>2 DEF QuietHandler

LEMMA LinkCalls ==
    ASSUME TypeOK, NEW l \in Links, NEW pin,
           \/ Require(l) \/ Reattach(l) \/ BreakSoft(l) \/ ReleaseDependency(l) \/ PinDependency(l, pin)
    PROVE  QuietHandler
<1>0. l.to \in Services /\ svc[l.to] \in SvcType
  BY Typed
<1>1. QuietStep
  BY QuietNothing, QuietOne, OtherCalls, Returns, Zenon
     DEF Require, Reattach, BreakSoft, ReleaseDependency, GiveUpStops, PinDependency
<1>2. SameOwner
  <2>1. \A r : SetRecord(l.to, r) /\ r.have_console = svc[l.to].have_console => SameOwner
    BY <1>0, SetOwner
  <2>2. UNCHANGED svc => SameOwner
    BY Zenon DEF SameOwner
  <2>3. Released(svc[l.to]).have_console = svc[l.to].have_console
    BY <1>0, ReleasedOwner
  <2>4. CASE Require(l) \/ Reattach(l) \/ PinDependency(l, pin)
    BY <1>0, <2>1, <2>2, <2>4, Zenon DEF Require, Reattach, PinDependency, SvcType
  <2>5. CASE BreakSoft(l)
    BY <2>1, <2>2, <2>3, <2>5, Zenon DEF BreakSoft
  <2>6. CASE ReleaseDependency(l)
    <3>1. GivenUp(l).have_console = svc[l.to].have_console
      BY <1>0, GivenUpOwner
    <3> QED BY <2>1, <2>6, <3>1, Zenon DEF ReleaseDependency
  <2> QED BY <2>4, <2>5, <2>6
<1>3. SameConsole
  BY Zenon DEF Require, Reattach, BreakSoft, ReleaseDependency, PinDependency, SameConsole, console
<1> QED BY <1>1, <1>2, <1>3 DEF QuietHandler

\* failed_to_start() changes the records of both ends of the link.
LEMMA FailDependentCall ==
    ASSUME TypeOK, NEW l \in Links, FailDependent(l)
    PROVE  QuietHandler
<1>0. /\ l.from \in Services /\ l.to \in Services /\ l.from # l.to
      /\ svc[l.from] \in SvcType /\ svc[l.to] \in SvcType
  BY Typed
<1>1. QuietStep
  BY QuietNothing, OtherCalls, Returns, Zenon DEF FailDependent
<1>2. SameOwner
  <2> DEFINE fails == l.type \in {"REGULAR", "MILESTONE"} /\ svc[l.from].state = "STARTING"
             p == IF fails THEN svc[l.from].prop \cup {"failure"} ELSE svc[l.from].prop
             f == [svc[l.from] EXCEPT !.prop = p]
             g == IF dep[l].holding_acq THEN Released(svc[l.to]) ELSE svc[l.to]
  <2>1. svc' = [svc EXCEPT ![l.from] = f, ![l.to] = g]
    BY Zenon DEF FailDependent
  <2> HIDE DEF p
  <2>2. f.have_console = svc[l.from].have_console
    BY <1>0, Zenon DEF SvcType
  <2>3. g.have_console = svc[l.to].have_console
    <3>1. Released(svc[l.to]).have_console = svc[l.to].have_console
      BY <1>0, ReleasedOwner
    <3> QED BY <3>1, Zenon
  <2>4. svc \in [Services -> SvcType]
    BY DEF TypeOK
  <2> HIDE DEF f, g
  <2> QED BY <1>0, <2>1, <2>2, <2>3, <2>4 DEF SameOwner
<1>3. SameConsole
  BY Zenon DEF FailDependent, SameConsole, console
<1> QED BY <1>1, <1>2, <1>3 DEF QuietHandler

LEMMA StopDependentCall ==
    ASSUME TypeOK, NEW l \in Links, NEW k, NEW fr \in BOOLEAN, NEW rd \in BOOLEAN, NEW all \in BOOLEAN,
           StopDependent(l, k, fr, rd, all)
    PROVE  QuietHandler
<1>0. l.from \in Services /\ svc[l.from] \in SvcType
  BY Typed
<1>1. QuietStep
  <2>1. Calling(<<"stop_dependents", l.to, k, fr, rd, all>>)
    BY Zenon DEF StopDependent
  <2>2. \E made : PullFree(made) /\ Return(made)
    BY QuietNothing, QuietOne, QuietBoth, OtherCalls, Zenon DEF StopDependent
  <2> QED BY <2>1, <2>2, OtherCalls, Returns, Zenon
<1>2. SameOwner
  <2>1. \A r : SetRecord(l.from, r) /\ r.have_console = svc[l.from].have_console => SameOwner
    BY <1>0, SetOwner
  <2>2. UNCHANGED svc => SameOwner
    BY Zenon DEF SameOwner
  <2> DEFINE f == l.from
             s == l.to
             asked == [svc[f] EXCEPT !.desired = "STOPPED", !.terminated = FALSE]
             forced == IF ~svc[s].force_stop THEN svc[f]
                       ELSE IF svc[s].desired = "STOPPED" THEN ForcedStop(asked) ELSE ForcedStop(svc[f])
             cancelled == [forced EXCEPT !.desired = "STOPPED"]
  <2>3. forced \in SvcType /\ forced.have_console = svc[f].have_console
    <3>1. asked \in SvcType /\ asked.have_console = svc[f].have_console
      BY <1>0, Zenon DEF SvcType
    <3> HIDE DEF asked
    <3>2. ForcedStop(asked) \in SvcType /\ ForcedStop(svc[f]) \in SvcType
      BY <1>0, <3>1, ForcedStopKept DEF Kept, With
    <3>3. /\ ForcedStop(asked).have_console = asked.have_console
          /\ ForcedStop(svc[f]).have_console = svc[f].have_console
      BY <1>0, <3>1, ReleasedOwner
    <3> QED BY <1>0, <3>1, <3>2, <3>3, Zenon
  <2>4. \/ UNCHANGED svc
        \/ SetRecord(f, forced)
        \/ \E b, c : SetRecord(f, [forced EXCEPT !.terminated = b, !.in_user_restart = c])
        \/ \E b : SetRecord(f, [Deactivated(cancelled) EXCEPT !.terminated = b])
    BY Zenon DEF StopDependent
  <2> HIDE DEF forced
  <2>5. cancelled \in SvcType /\ cancelled.have_console = svc[f].have_console
    BY <2>3, Zenon DEF SvcType
  <2>6. Deactivated(cancelled) \in SvcType /\ Deactivated(cancelled).have_console = svc[f].have_console
    BY <2>5, DeactivatedWith, ReleasedOwner DEF With
  <2> DEFINE down == Deactivated(cancelled)
  <2>7. down \in SvcType /\ down.have_console = svc[f].have_console
    BY <2>6
  <2> HIDE DEF down
  <2>8. \A b : [down EXCEPT !.terminated = b].have_console = svc[f].have_console
    BY <2>7, Zenon DEF SvcType
  <2>9. \A b, c : [forced EXCEPT !.terminated = b, !.in_user_restart = c].have_console = svc[f].have_console
    BY <2>3, Zenon DEF SvcType
  <2> QED BY <2>1, <2>2, <2>3, <2>4, <2>8, <2>9, Zenon DEF down
<1>3. SameConsole
  BY Zenon DEF StopDependent, SameConsole, console
<1> QED BY <1>1, <1>2, <1>3 DEF QuietHandler

----------------------------------------------------------------------------
(* process_queues(), and the orders *)

\* A call in front of the stack moves the others by one.
LEMMA PushedPulls ==
    ASSUME NEW call, Stack(calls), calls' = <<call>> \o calls
    PROVE  /\ Stack(calls')
           /\ ~IsPull(call) => (OnePull(calls) => OnePull(calls')) /\ (SomePull(calls') <=> SomePull(calls))
           /\ IsPull(call) /\ ~SomePull(calls) => OnePull(calls') /\ SomePull(calls')
<1>1. PICK S : calls \in Seq(S)
  BY DEF Stack
<1>2. Stack(<<call>>)
  <2>1. <<call>> \in Seq({call})  OBVIOUS
  <2> QED BY <2>1, Zenon DEF Stack
<1> DEFINE n == Len(calls)
<1>3. Stack(calls')
  BY <1>2, StackBoth
<1>4. n \in Nat /\ DOMAIN calls = 1 .. n
  BY <1>1
<1>5. /\ DOMAIN calls' = 1 .. 1 + n
      /\ \A i \in 1 .. 1 + n : calls'[i] = IF i <= 1 THEN call ELSE calls[i - 1]
  BY <1>2, <1>4, StackBoth
<1> HIDE DEF n
<1>6. /\ calls'[1] = call
      /\ \A i \in 1 .. 1 + n : i # 1 => i - 1 \in DOMAIN calls /\ calls'[i] = calls[i - 1]
      /\ \A i \in DOMAIN calls : i + 1 \in 1 .. 1 + n /\ i + 1 # 1 /\ (i + 1) - 1 = i
  BY <1>4, <1>5
<1>7. ASSUME ~IsPull(call)
      PROVE  (OnePull(calls) => OnePull(calls')) /\ (SomePull(calls') <=> SomePull(calls))
  <2>1. ASSUME OnePull(calls), NEW i \in 1 .. 1 + n, NEW j \in 1 .. 1 + n, IsPull(calls'[i]), IsPull(calls'[j])
        PROVE  i = j
    <3>1. i # 1 /\ j # 1  BY <1>6, <1>7, <2>1
    <3>2. i - 1 = j - 1  BY <1>6, <2>1, <3>1 DEF OnePull
    <3> QED BY <1>4, <3>2
  <2>2. OnePull(calls) => OnePull(calls')
    BY <1>5, <2>1 DEF OnePull
  <2>3. SomePull(calls') <=> SomePull(calls)
    <3>1. SomePull(calls') => SomePull(calls)
      BY <1>5, <1>6, <1>7 DEF SomePull
    <3>2. ASSUME NEW i \in DOMAIN calls, IsPull(calls[i])
          PROVE  SomePull(calls')
      <4>1. calls'[i + 1] = calls[i]
        BY <1>6
      <4> QED BY <1>5, <1>6, <3>2, <4>1 DEF SomePull
    <3> QED BY <3>1, <3>2 DEF SomePull
  <2> QED BY <2>2, <2>3
<1>8. ASSUME IsPull(call), ~SomePull(calls)
      PROVE  OnePull(calls') /\ SomePull(calls')
  <2>1. \A i \in 1 .. 1 + n : IsPull(calls'[i]) => i = 1
    BY <1>6, <1>8 DEF SomePull
  <2>2. 1 \in 1 .. 1 + n
    BY <1>4
  <2> QED BY <1>5, <1>6, <1>8, <2>1, <2>2 DEF OnePull, SomePull
<1> QED BY <1>3, <1>7, <1>8

LEMMA ProcessQueuesCall ==
    ASSUME TypeOK, ProcessQueues
    PROVE  SameOwner /\ SameConsole /\ SamePulls
<1>1. SameOwner /\ SameConsole
  BY Zenon DEF ProcessQueues, SameOwner, SameConsole, console
<1>2. CASE \E call : ~IsPull(call) /\ calls' = <<call>> \o calls
  BY <1>1, <1>2, PushedPulls DEF SamePulls
<1>3. CASE Calling(<<"process_queues">>) /\ Return(<<>>)
  <2>1. QuietStep
    BY <1>3, QuietNothing, OtherCalls, Returns, Zenon
  <2> QED BY <1>1, <2>1, QuietStepPulls
<1>4. (\E call : ~IsPull(call) /\ calls' = <<call>> \o calls) \/ (Calling(<<"process_queues">>) /\ Return(<<>>))
  BY OtherCalls, Zenon DEF ProcessQueues
<1> QED BY <1>1, <1>2, <1>3, <1>4

LEMMA OrderQuiet ==
    ASSUME NEW op, NEW made, Order(op, made), PullFree(made)
    PROVE  QuietEvent
BY QuietOne, QuietBoth, OtherCalls, Zenon DEF Order, QuietEvent

LEMMA PinCallsQuietly ==
    ASSUME NEW s
    PROVE  /\ \A pin \in PinCalls("pin_start", s) : PullFree(pin)
           /\ \A pin \in PinCalls("pin_stop", s) : PullFree(pin)
<1>1. \A op : ~IsPull(<<op, s>>) => \A pin \in PinCalls(op, s) : PullFree(pin)
  BY QuietNothing, QuietOne, Zenon DEF PinCalls
<1> QED BY <1>1, OtherCalls, Zenon

LEMMA PureOrders ==
    ASSUME TypeOK, NEW s \in Services,
           \/ StartService(s) \/ StopService(s) \/ ReleaseService(s) \/ UnpinService(s) \/ WakeService(s)
    PROVE  QuietHandler
<1>0. Only(Dependents(s), {l \in Links : /\ ~IsOnlyOrdering(l) /\ ~dep[l].holding_acq
                                         /\ svc[l.from].state \in {"STARTED", "STARTING"}}) \in Seq(Links)
  BY LinkSequences
<1>1. WakeLinks(s) \in Seq(Links)
  BY <1>0, Zenon DEF WakeLinks
<1>2. /\ \A pin \in PinCalls("pin_start", s) : PullFree(pin)
      /\ \A pin \in PinCalls("pin_stop", s) : PullFree(pin)
  BY PinCallsQuietly
<1>3. QuietEvent
  <2>1. \A op, made : Order(op, made) /\ PullFree(made) => QuietEvent
    BY OrderQuiet
  <2>2. PullFree(Each("require", WakeLinks(s)))
    BY <1>1, QuietEach
  <2> QED BY <1>2, <2>1, <2>2, QuietOne, QuietTwo, QuietBoth, OtherCalls, Zenon
          DEF StartService, StopService, ReleaseService, UnpinService, WakeService
<1>4. SameOwner /\ SameConsole
  BY Zenon DEF StartService, StopService, ReleaseService, UnpinService, WakeService, SameOwner, SameConsole, console
<1> QED BY <1>3, <1>4 DEF QuietHandler

LEMMA RecordOrders ==
    ASSUME TypeOK, NEW s \in Services, NEW b, RestartService(s) \/ SetTrigger(s, b)
    PROVE  QuietHandler
<1>1. QuietEvent
  <2>1. \A op, made : Order(op, made) /\ PullFree(made) => QuietEvent
    BY OrderQuiet
  <2> QED BY <2>1, QuietNothing, QuietOne, OtherCalls, Zenon DEF RestartService, SetTrigger
<1>2. SameOwner
  <2>0. svc[s] \in SvcType
    BY Typed
  <2>1. \A r : SetRecord(s, r) /\ r.have_console = svc[s].have_console => SameOwner
    BY SetOwner
  <2> QED BY <2>0, <2>1, Zenon DEF RestartService, SetTrigger, SvcType
<1>3. SameConsole
  BY Zenon DEF RestartService, SetTrigger, SameConsole, console
<1> QED BY <1>1, <1>2, <1>3 DEF QuietHandler

LEMMA LinkOrders ==
    ASSUME TypeOK, NEW l \in Links, NEW b, RmServiceDep(l) \/ AddServiceDep(l, b)
    PROVE  QuietHandler
<1>1. QuietEvent
  <2>1. \A op, made : Order(op, made) /\ PullFree(made) => QuietEvent
    BY OrderQuiet
  <2>2. CASE RmServiceDep(l)
    BY <2>1, <2>2, QuietNothing, QuietOne, OtherCalls, Zenon DEF RmServiceDep, GiveUpStops
  <2>3. CASE AddServiceDep(l, b)
    BY <2>3, QuietNothing, QuietOne, QuietBoth, OtherCalls, Zenon DEF AddServiceDep, QuietEvent
  <2> QED BY <2>2, <2>3
<1>2. SameOwner
  <2>1. l.to \in Services /\ svc[l.to] \in SvcType
    BY Typed
  <2>2. GivenUp(l).have_console = svc[l.to].have_console
    BY <2>1, GivenUpOwner
  <2>3. \A r : SetRecord(l.to, r) /\ r.have_console = svc[l.to].have_console => SameOwner
    BY <2>1, SetOwner
  <2>4. UNCHANGED svc => SameOwner
    BY Zenon DEF SameOwner
  <2> QED BY <2>2, <2>3, <2>4, Zenon DEF RmServiceDep, AddServiceDep
<1>3. SameConsole
  BY Zenon DEF RmServiceDep, AddServiceDep, SameConsole, console
<1> QED BY <1>1, <1>2, <1>3 DEF QuietHandler

LEMMA StopAllOrder ==
    ASSUME TypeOK, StopAllServices
    PROVE  QuietHandler
<1> DEFINE call(i) == IF i % 2 = 1 THEN <<"stop", Records[(i + 1) \div 2], FALSE>>
                                   ELSE <<"unpin", Records[i \div 2]>>
           made == [i \in 1 .. 2 * Len(Records) |-> call(i)]
<1>1. PullFree(made)
  <2>1. \A i : ~IsPull(call(i))
    BY OtherCalls, Zenon
  <2> HIDE DEF call
  <2>2. Len(Records) \in Nat
    BY ConfigAssumption
  <2>3. made \in Seq({call(i) : i \in 1 .. 2 * Len(Records)})
    BY <2>2
  <2>4. ~SomePull(made)
    BY <2>1 DEF SomePull
  <2> QED BY <2>3, <2>4, Zenon DEF PullFree, Stack
<1>2. QuietEvent
  <2>1. Order("shutdown", made)
    BY Zenon DEF StopAllServices
  <2> QED BY <1>1, <2>1, OrderQuiet
<1>3. SameOwner /\ SameConsole
  BY Zenon DEF StopAllServices, SameOwner, SameConsole, console
<1> QED BY <1>2, <1>3 DEF QuietHandler

----------------------------------------------------------------------------
(* The steps that move the console *)

\* The rest of the stack has no pull: what is put before it decides.
LEMMA ReturnedPulls ==
    ASSUME NEW made, Stack(calls), calls # <<>>, Return(made), Stack(made),
           ~SomePull(calls) \/ (OnePull(calls) /\ IsPull(Head(calls)))
    PROVE  Stack(calls') /\ (OnePull(made) => OnePull(calls')) /\ (SomePull(calls') <=> SomePull(made))
<1>1. PICK S : calls \in Seq(S)
  BY DEF Stack
<1> DEFINE d == Tail(calls)
           n == Len(made)
<1>2. /\ Len(calls) \in Nat /\ Len(calls) > 0 /\ DOMAIN calls = 1 .. Len(calls)
      /\ Len(d) = Len(calls) - 1 /\ Head(calls) = calls[1]
      /\ \A i \in 1 .. Len(d) : d[i] = calls[i + 1]
  BY <1>1
<1>3. Stack(d)
  BY <1>1 DEF Stack
<1>4. /\ Stack(calls') /\ n \in Nat /\ Len(d) \in Nat
      /\ DOMAIN made = 1 .. n /\ DOMAIN calls' = 1 .. n + Len(d)
      /\ \A i \in 1 .. n + Len(d) : calls'[i] = IF i <= n THEN made[i] ELSE d[i - n]
  BY <1>3, StackBoth DEF Return
<1> HIDE DEF d, n
<1>5. \A i \in 1 .. Len(d) : ~IsPull(d[i])
  <2> SUFFICES ASSUME NEW i \in 1 .. Len(d), IsPull(d[i]) PROVE FALSE
    OBVIOUS
  <2>1. i + 1 \in DOMAIN calls /\ 1 \in DOMAIN calls /\ i + 1 # 1 /\ IsPull(calls[i + 1])
    BY <1>2, <1>4
  <2> QED BY <1>2, <2>1 DEF SomePull, OnePull
<1>6. \A i \in 1 .. n + Len(d) : IsPull(calls'[i]) => i \in 1 .. n /\ IsPull(made[i])
  <2> SUFFICES ASSUME NEW i \in 1 .. n + Len(d), IsPull(calls'[i])
               PROVE  i \in 1 .. n /\ IsPull(made[i])
    OBVIOUS
  <2>1. i <= n
    <3> SUFFICES ASSUME ~(i <= n) PROVE FALSE
      OBVIOUS
    <3>1. i - n \in 1 .. Len(d) /\ calls'[i] = d[i - n]  BY <1>4
    <3> QED BY <1>5, <3>1
  <2> QED BY <1>4, <2>1
<1>7. \A i \in 1 .. n : i \in 1 .. n + Len(d) /\ calls'[i] = made[i]
  BY <1>4
<1>8. OnePull(made) => OnePull(calls')
  BY <1>4, <1>6 DEF OnePull
<1>9. SomePull(calls') <=> SomePull(made)
  BY <1>4, <1>6, <1>7 DEF SomePull
<1> QED BY <1>4, <1>8, <1>9

LEMMA ThePull ==
    LET pull == <<<<"pull_console_queue">>>>
    IN  Stack(pull) /\ OnePull(pull) /\ SomePull(pull)
<1> DEFINE call == <<"pull_console_queue">>
<1>1. <<call>> \in Seq({call}) /\ DOMAIN <<call>> = {1} /\ <<call>>[1] = call
  OBVIOUS
<1>2. IsPull(call)
  BY DEF IsPull
<1> HIDE DEF call
<1>3. Stack(<<call>>)
  BY <1>1, Zenon DEF Stack
<1>4. OnePull(<<call>>) /\ SomePull(<<call>>)
  BY <1>1, <1>2 DEF OnePull, SomePull
<1> QED BY <1>3, <1>4 DEF call

\* The log has written what it had to: the console goes to the next in the queue.
LEMMA LogReleasesConsoleStep ==
    ASSUME TypeOK, ConsoleInv, LogReleasesConsole
    PROVE  ConsoleInv'
<1>1. Stack(calls') /\ OnePull(calls') /\ SomePull(calls')
  BY ThePull, Zenon DEF LogReleasesConsole
<1>2. ~Owned /\ svc' = svc /\ log_console' = "released"
  <2>1. log_console = "releasing" /\ svc' = svc /\ log_console' = "released"
    BY DEF LogReleasesConsole
  <2> QED BY <2>1 DEF ConsoleInv
<1>3. ~Owned'
  BY <1>2, Zenon DEF Owned
<1> QED BY <1>1, <1>2, <1>3 DEF ConsoleInv, Owned

\* started() and stopped() give the console back.
LEMMA ReleaseConsoleStep ==
    ASSUME TypeOK, ConsoleInv, NEW s \in Services, ReleaseConsole(s)
    PROVE  ConsoleInv'
<1>0. /\ svc[s].have_console /\ SetRecord(s, [svc[s] EXCEPT !.have_console = FALSE])
      /\ calls' = <<<<"pull_console_queue">>>> \o calls
      /\ console_queue' = console_queue /\ log_console' = log_console
  BY Zenon DEF ReleaseConsole, console
<1>1. Owned /\ ~SomePull(calls) /\ log_console = "released" /\ Stack(calls)
  BY <1>0 DEF ConsoleInv, Owned
<1>2. Stack(calls') /\ OnePull(calls') /\ SomePull(calls')
  <2>1. IsPull(<<"pull_console_queue">>)
    BY DEF IsPull
  <2> QED BY <1>0, <1>1, <2>1, PushedPulls
<1>3. ~Owned'
  <2>1. svc \in [Services -> SvcType] /\ svc[s] \in SvcType
    BY DEF TypeOK
  <2>2. svc'[s] = [svc[s] EXCEPT !.have_console = FALSE] /\ \A t \in Services : t # s => svc'[t] = svc[t]
    BY <1>0, <2>1 DEF SetRecord
  <2>3. ~svc'[s].have_console
    BY <2>1, <2>2, Zenon DEF SvcType
  <2> QED BY <1>0, <2>2, <2>3 DEF Owned, ConsoleInv
<1> QED BY <1>0, <1>1, <1>2, <1>3 DEF ConsoleInv, Owned

\* all_deps_started() queues the service; the log is asked if it has the console.
LEMMA QueueForConsoleInv ==
    ASSUME TypeOK, ConsoleInv, NEW s \in Services, QueueForConsole(s)
    PROVE  ConsoleInv'
<1>0. /\ calls # <<>> /\ Head(calls) = <<"all_deps_started", s>>
      /\ SetRecord(s, [svc[s] EXCEPT !.waiting_for_console = TRUE])
  BY Zenon DEF QueueForConsole, Calling
<1>1. SameOwner
  <2>0. svc[s] \in SvcType
    BY Typed
  <2>1. \A r : SetRecord(s, r) /\ r.have_console = svc[s].have_console => SameOwner
    BY SetOwner
  <2> QED BY <1>0, <2>0, <2>1, Zenon DEF SvcType
<1>2. /\ Owned' <=> Owned
      /\ \A t, u \in Services : svc'[t].have_console /\ svc'[u].have_console => t = u
  BY <1>1 DEF SameOwner, Owned, ConsoleInv
<1>3. CASE Return(<<>>) /\ (IF AsksForConsole THEN log_console' = "releasing" ELSE UNCHANGED log_console)
  <2>1. QuietStep
    BY <1>0, <1>3, QuietNothing, OtherCalls, Zenon DEF QuietStep
  <2>2. Stack(calls') /\ OnePull(calls') /\ (SomePull(calls') <=> SomePull(calls))
    BY <2>1, QuietStepPulls DEF SamePulls, ConsoleInv
  <2>3. (log_console = "released" <=> SomePull(calls) \/ Owned)'
    BY <1>2, <1>3, <2>2 DEF ConsoleInv, AsksForConsole
  <2>4. log_console' # "held"
    BY <1>3 DEF ConsoleInv, AsksForConsole
  <2> QED BY <1>2, <2>2, <2>3, <2>4 DEF ConsoleInv
<1>4. CASE AsksForConsole /\ log_console' = "released" /\ Return(<<<<"pull_console_queue">>>>)
  <2>1. ~SomePull(calls) /\ ~Owned /\ Stack(calls)
    BY <1>4 DEF AsksForConsole, ConsoleInv
  <2>2. Stack(calls') /\ OnePull(calls') /\ SomePull(calls')
    BY <1>0, <1>4, <2>1, ThePull, ReturnedPulls
  <2> QED BY <1>2, <1>4, <2>1, <2>2 DEF ConsoleInv
<1>5. \/ Return(<<>>) /\ (IF AsksForConsole THEN log_console' = "releasing" ELSE UNCHANGED log_console)
      \/ AsksForConsole /\ log_console' = "released" /\ Return(<<<<"pull_console_queue">>>>)
  BY Zenon DEF QueueForConsole
<1> QED BY <1>3, <1>4, <1>5

\* pull_console_queue() gives the console to the service it pops, to the next one
\* if that has no use for it, or back to the log.
LEMMA PullConsoleQueueInv ==
    ASSUME TypeOK, ConsoleInv, PullConsoleQueue
    PROVE  ConsoleInv'
<1>0. calls # <<>> /\ Head(calls) = <<"pull_console_queue">>
  BY Zenon DEF PullConsoleQueue, Calling
<1>1. IsPull(Head(calls)) /\ Stack(calls) /\ OnePull(calls) /\ SomePull(calls)
  <2>1. IsPull(Head(calls)) /\ Stack(calls) /\ OnePull(calls)
    BY <1>0 DEF IsPull, ConsoleInv
  <2>2. PICK S : calls \in Seq(S)
    BY <2>1 DEF Stack
  <2>3. 1 \in DOMAIN calls /\ calls[1] = Head(calls)
    BY <1>0, <2>2
  <2> QED BY <2>1, <2>3 DEF SomePull
<1>2. ~Owned /\ log_console = "released"
  BY <1>1 DEF ConsoleInv
<1>3. Stack(<<>>) /\ OnePull(<<>>) /\ ~SomePull(<<>>)
  BY QuietNothing DEF PullFree, OnePull, SomePull
<1>4. CASE console_queue = <<>>
  <2>1. log_console' = "held" /\ Return(<<>>) /\ svc' = svc /\ console_queue' = <<>>
    BY <1>4, Zenon DEF PullConsoleQueue
  <2>2. Stack(calls') /\ OnePull(calls') /\ ~SomePull(calls')
    BY <1>0, <1>1, <1>3, <2>1, ReturnedPulls
  <2>3. ~Owned'
    BY <1>2, <2>1, Zenon DEF Owned
  <2> QED BY <2>1, <2>2, <2>3 DEF ConsoleInv, Owned
<1>5. CASE console_queue # <<>>
  <2> DEFINE s == Head(console_queue)
             use == svc[s].state = "STARTING" /\ CheckDepsStarted(s)
  <2>1. /\ SetRecord(s, [svc[s] EXCEPT !.waiting_for_console = FALSE, !.have_console = use])
        /\ Return(IF use THEN <<<<"all_deps_started", s>>>> ELSE <<<<"pull_console_queue">>>>)
        /\ log_console' = log_console
    BY <1>5, Zenon DEF PullConsoleQueue
  <2>2. s \in Services /\ svc[s] \in SvcType /\ svc \in [Services -> SvcType]
    BY <1>5 DEF TypeOK
  <2> HIDE DEF s, use
  <2>3. /\ svc'[s] = [svc[s] EXCEPT !.waiting_for_console = FALSE, !.have_console = use]
        /\ \A t \in Services : t # s => svc'[t] = svc[t]
    BY <2>1, <2>2 DEF SetRecord
  <2>4. svc'[s].have_console = use
    BY <2>2, <2>3, Zenon DEF SvcType
  <2>5. \A t \in Services : svc'[t].have_console => t = s
    BY <1>2, <2>3 DEF Owned
  <2>6. Owned' <=> use
    BY <2>2, <2>4, <2>5 DEF Owned
  <2>7. CASE use
    <3>1. PullFree(<<<<"all_deps_started", s>>>>)
      BY QuietOne, OtherCalls, Zenon
    <3>2. Stack(<<<<"all_deps_started", s>>>>) /\ OnePull(<<<<"all_deps_started", s>>>>)
          /\ ~SomePull(<<<<"all_deps_started", s>>>>)
      BY <3>1, Zenon DEF PullFree, SomePull, OnePull
    <3>3. Return(<<<<"all_deps_started", s>>>>)
      BY <2>1, <2>7
    <3>4. Stack(calls') /\ OnePull(calls') /\ ~SomePull(calls')
      BY <1>0, <1>1, <3>2, <3>3, ReturnedPulls
    <3> QED BY <1>2, <2>1, <2>5, <2>6, <2>7, <3>4 DEF ConsoleInv
  <2>8. CASE ~use
    <3>1. Return(<<<<"pull_console_queue">>>>)
      BY <2>1, <2>8
    <3>2. Stack(calls') /\ OnePull(calls') /\ SomePull(calls')
      BY <1>0, <1>1, <3>1, ThePull, ReturnedPulls
    <3> QED BY <1>2, <2>1, <2>5, <2>6, <2>8, <3>2 DEF ConsoleInv
  <2> QED BY <2>7, <2>8
<1> QED BY <1>4, <1>5

----------------------------------------------------------------------------
(* The whole system *)

LEMMA QuietHandlerInv ==
    ASSUME ConsoleInv, QuietHandler
    PROVE  ConsoleInv'
BY SameInv, QuietStepPulls, QuietEventPulls DEF QuietHandler

\* Every step of every handler keeps the invariant.
LEMMA ConsoleStep ==
    ASSUME TypeOK, ConsoleInv, [Next]_vars
    PROVE  ConsoleInv'
<1>1. CASE UNCHANGED vars
  BY <1>1, SameInv DEF vars, console, SameOwner, SameConsole, SamePulls
<1>2. CASE ServiceCall
  <2>1. ASSUME NEW s \in Services, QueueForConsole(s) \/ ReleaseConsole(s)
        PROVE  ConsoleInv'
    BY <2>1, QueueForConsoleInv, ReleaseConsoleStep
  <2>2. ASSUME NEW s \in Services,
               \/ Start(s) \/ DoStart(s) \/ Activate(s) \/ InitiateStart(s)
               \/ AllDepsStarted(s) \/ BringUp(s) \/ Started(s) \/ Stopped(s)
               \/ ForceStop(s) \/ CheckRestart(s) \/ PropStop(s) \/ BringDown(s)
               \/ DependenciesReleased(s) \/ ExecuteTransition(s)
               \/ PinStart(s) \/ PinStop(s) \/ Unpin(s)
               \/ UnpinStarted(s) \/ UnpinStopped(s)
        PROVE  QuietHandler
    BY <2>2, StartingCalls, PureCalls, StoppingCalls, StopCalls, PinningCalls, PinCallsQuiet, Zenon
  <2>3. ASSUME NEW s \in Services, NEW b,
               \/ FailedToStart(s, b) \/ StartFailed(s, b) \/ NowStopped(s, b)
               \/ Chain(s, b) \/ Stop(s, b) \/ DoStop(s, b)
               \/ InterruptStart(s, b) \/ EnterStopping(s, b)
        PROVE  QuietHandler
    BY <2>3, LeavingCalls, FlagCalls, StopCalls, PureCalls, Zenon
  <2>4. ASSUME NEW s \in Services, NEW fr, NEW rd, NEW all, NEW k,
               DoStopFor(s, fr, rd) \/ DependentsTold(s, k, fr, rd, all)
        PROVE  QuietHandler
    BY <2>4, StopCalls, PureCalls, Zenon
  <2>5. ASSUME NEW s \in Services, NEW k,
               \/ PropagationDone(s, k) \/ PropagateRequire(s, k)
               \/ PropagateRelease(s, k) \/ PropagateFailure(s, k)
               \/ PropagateStart(s, k) \/ PropagateStop(s, k) \/ PropagatePin(s, k)
        PROVE  QuietHandler
    BY <2>5, PureCalls, PropagationCalls, ReleaseCalls, PinningCalls, Zenon
  <2> QED BY <1>2, <2>1, <2>2, <2>3, <2>4, <2>5, QuietHandlerInv, Zenon DEF ServiceCall
<1>3. CASE LinkCall
  <2>1. ASSUME NEW l \in Links, NEW pin,
               \/ Require(l) \/ Reattach(l) \/ NotifyStarted(l) \/ FailDependent(l)
               \/ BreakSoft(l) \/ DependentStopped(l) \/ ReleaseDependency(l)
               \/ StartDep(l) \/ PinDependency(l, pin)
        PROVE  QuietHandler
    BY <2>1, LinkCalls, PureLinkCalls, FailDependentCall, Zenon
  <2>2. ASSUME NEW l \in Links, NEW fr \in BOOLEAN, NEW rd \in BOOLEAN, NEW all \in BOOLEAN, NEW k,
               StopDependent(l, k, fr, rd, all)
        PROVE  QuietHandler
    BY <2>2, StopDependentCall, Zenon
  <2> QED BY <1>3, <2>1, <2>2, QuietHandlerInv, Zenon DEF LinkCall
<1>4. CASE ControlOrder
  <2>1. ASSUME NEW s \in Services, NEW b,
               \/ StartService(s) \/ StopService(s) \/ RestartService(s)
               \/ WakeService(s) \/ ReleaseService(s) \/ UnpinService(s)
               \/ SetTrigger(s, b)
        PROVE  QuietHandler
    BY <2>1, PureOrders, RecordOrders, Zenon
  <2>2. ASSUME NEW l \in Links, NEW b, RmServiceDep(l) \/ AddServiceDep(l, b)
        PROVE  QuietHandler
    BY <2>2, LinkOrders, Zenon
  <2> QED BY <1>4, <2>1, <2>2, StopAllOrder, QuietHandlerInv, Zenon DEF ControlOrder
<1>5. CASE ProcessQueues
  BY <1>5, ProcessQueuesCall, SameInv
<1>6. CASE PullConsoleQueue \/ LogReleasesConsole
  BY <1>6, PullConsoleQueueInv, LogReleasesConsoleStep
<1> QED BY <1>1, <1>2, <1>3, <1>4, <1>5, <1>6 DEF Next, CallStep

LEMMA InitConsole == Init => ConsoleInv
<1> SUFFICES ASSUME Init PROVE ConsoleInv
  OBVIOUS
<1>1. calls = <<>> /\ log_console = "held" /\ console_queue = <<>>
  BY DEF Init
<1>2. \A s \in Services : ~svc[s].have_console
  BY Zenon DEF Init, NewRecord
<1>3. Stack(<<>>) /\ OnePull(<<>>) /\ ~SomePull(<<>>)
  BY QuietNothing DEF PullFree, OnePull, SomePull
<1> QED BY <1>1, <1>2, <1>3 DEF ConsoleInv, Owned

LEMMA ConsoleInvHolds == Spec => []ConsoleInv
<1>1. Init => ConsoleInv
  BY InitConsole
<1>2. TypeOK /\ ConsoleInv /\ [Next]_vars => ConsoleInv'
  BY ConsoleStep
<1> QED BY <1>1, <1>2, TypeCorrect, PTL DEF Spec

LEMMA OwnerFromInv == ConsoleInv => OneConsoleOwner
<1> SUFFICES ASSUME ConsoleInv PROVE OneConsoleOwner
  OBVIOUS
<1> DEFINE O == {s \in Services : svc[s].have_console}
<1>1. Cardinality(O) <= 1
  <2>1. CASE O = {}
    BY <2>1, FS_EmptySet
  <2>2. CASE O # {}
    <3>1. PICK s : s \in O
      BY <2>2
    <3>2. O = {s}
      BY <3>1 DEF ConsoleInv
    <3>3. Cardinality({s}) = 1
      BY FS_Singleton
    <3> HIDE DEF O
    <3> QED BY <3>2, <3>3
  <2> QED BY <2>1, <2>2
<1>2. (\E s \in Services : svc[s].have_console) => log_console = "released"
  BY DEF ConsoleInv, Owned
<1> QED BY <1>1, <1>2 DEF OneConsoleOwner

LEMMA NotLostFromInv == ConsoleInv => ConsoleNotLost
BY DEF ConsoleInv, ConsoleNotLost, Idle, SomePull, Owned

(***************************************************************************)
(* The console has one owner at most, and none while the log has it,       *)
(* however the services that want it are started, fail, stop and restart:  *)
(* started(), stopped(), acquired_console() and the log never give it out  *)
(* twice.                                                                  *)
(***************************************************************************)
THEOREM ConsoleHasOneOwner == Spec => []OneConsoleOwner
BY OwnerFromInv, ConsoleInvHolds, PTL

(***************************************************************************)
(* The console is not lost: whenever dinit waits for the next event, a     *)
(* console that the log has given up is with a service, and no service     *)
(* queues for one that the log keeps, which would never reach it.          *)
(***************************************************************************)
THEOREM ConsoleIsNotLost == Spec => []ConsoleNotLost
BY NotLostFromInv, ConsoleInvHolds, PTL
=============================================================================
