--------------------------- MODULE ServiceProofs ---------------------------
(***************************************************************************)
(* Proofs about Service, for every set of services, every dependency graph *)
(* and every order of calls:                                               *)
(*                                                                         *)
(*   - TypeCorrect: the type invariant;                                    *)
(*   - AcquisitionRefined: every step of every handler is a step of the    *)
(*     abstract specification Acquisition or leaves its state alone;       *)
(*   - BoundHolds: required_by never falls below what is owed.             *)
(*                                                                         *)
(* Every action changes the record of one service or two; `With' and       *)
(* `Kept' say what it does to the two fields that Acquisition sees.  A     *)
(* step lemma then says which step of Acquisition that is.                 *)
(***************************************************************************)
EXTENDS Service, FiniteSetTheorems, SequenceTheorems, WellFoundedInduction, TLAPS

With(n, e) == {q \in SvcType : q.required_by = n /\ q.start_explicit = e}
Kept(r) == With(r.required_by, r.start_explicit)

SameCounts ==
    \A s \in Services : /\ svc'[s].required_by = svc[s].required_by
                        /\ svc'[s].start_explicit = svc[s].start_explicit
SameHeld == \A l \in Links : dep'[l].holding_acq = dep[l].holding_acq

RecordsOK == svc \in [Services -> SvcType]
DepsOK == dep \in [Links -> DepType]
QueuesOK ==
    /\ links \in Seq(Links)
    /\ prop_queue \in Seq(Services) /\ stop_queue \in Seq(Services)
    /\ console_queue \in Seq(Services)
    /\ log_console \in {"held", "releasing", "released"}
    /\ active_services \in Int
    /\ restart_enabled \in BOOLEAN

\* What every step of the system is shown to do.
GoodStep == TypeOK' /\ (Acq!Next \/ UNCHANGED Acq!vars)

----------------------------------------------------------------------------
(* Records, queues and links *)

\* A record's fields have their types.
LEMMA Fields ==
    ASSUME NEW r \in SvcType
    PROVE  /\ r.required_by \in Int /\ r.prop \in SUBSET PropFlags
           /\ r.state \in {"STOPPED", "STARTING", "STARTED", "STOPPING"}
           /\ r.desired \in {"STOPPED", "STARTED"}
           /\ r.start_explicit \in BOOLEAN /\ r.terminated \in BOOLEAN
BY DEF SvcType

\* The type invariant gives the record of a service and the ends of a link.
LEMMA Typed ==
    ASSUME TypeOK
    PROVE  /\ \A s \in Services : svc[s] \in SvcType
           /\ \A l \in Links : l.from \in Services /\ l.to \in Services /\ l.from # l.to
           /\ \A l \in Links : dep[l] \in DepType
BY LinksAssumption DEF TypeOK

\* The type invariant is that of the records, the links and the rest.
LEMMA TypeParts == TypeOK <=> RecordsOK /\ DepsOK /\ QueuesOK
BY DEF TypeOK, RecordsOK, DepsOK, QueuesOK

\* The same in the next state.
LEMMA TypePartsNext == TypeOK' <=> RecordsOK' /\ DepsOK' /\ QueuesOK'
BY DEF TypeOK, RecordsOK, DepsOK, QueuesOK

\* Adding a prop_xxx flag, or taking some away, leaves a set of flags.
LEMMA FlagSets ==
    ASSUME NEW r \in SvcType
    PROVE  /\ r.prop \in SUBSET PropFlags
           /\ \A p \in PropFlags : r.prop \cup {p} \in SUBSET PropFlags
           /\ \A p : r.prop \ p \in SUBSET PropFlags
BY Fields

\* slist insertion keeps a queue a sequence of services.
LEMMA EnqueueType ==
    ASSUME NEW q \in Seq(Services), NEW s \in Services
    PROVE  Enqueue(q, s) \in Seq(Services)
BY DEF Enqueue

\* Unlinking an element from a list leaves a list.
LEMMA RemoveFirstType ==
    ASSUME NEW S, NEW q \in Seq(S), NEW e
    PROVE  RemoveFirst(q, e) \in Seq(S)
<1> DEFINE I == {i \in 1 .. Len(q) : q[i] = e}
<1>1. I # {} => Min(I) \in 1 .. Len(q)
  <2>1. HAVE I # {}
  <2>a. I \subseteq Nat
    OBVIOUS
  <2> HIDE DEF I
  <2>2. PICK m \in I : \A i \in I : ~(<<i, m>> \in OpToRel(<, Nat))
    BY <2>1, <2>a, WFMin, NatLessThanWellFounded
  <2>3. \A i \in I : m <= i
    <3>1. TAKE i \in I
    <3>2. ~(<<i, m>> \in {ss \in Nat \X Nat : ss[1] < ss[2]})
      BY <2>2 DEF OpToRel
    <3>3. i \in Nat /\ m \in Nat
      BY <2>a
    <3> QED BY <3>2, <3>3
  <2>4. Min(I) \in I
    BY <2>3 DEF Min
  <2> QED BY <2>4 DEF I
<1>2. CASE I = {}
  BY <1>2 DEF RemoveFirst
<1>3. CASE I # {}
  <2>1. RemoveFirst(q, e) = SubSeq(q, 1, Min(I) - 1) \o SubSeq(q, Min(I) + 1, Len(q))
    BY <1>3 DEF RemoveFirst, RemoveAt, SelectInSeq
  <2> DEFINE n == Min(I)
  <2>2. n \in 1 .. Len(q)
    BY <1>1, <1>3
  <2> HIDE DEF n
  <2>3. SubSeq(q, 1, n - 1) \in Seq(S) /\ SubSeq(q, n + 1, Len(q)) \in Seq(S)
    BY <2>2
  <2>4. SubSeq(q, 1, n - 1) \o SubSeq(q, n + 1, Len(q)) \in Seq(S)
    BY <2>3
  <2> QED BY <2>1, <2>4 DEF n
<1> QED BY <1>2, <1>3

\* dlist::append keeps the console queue a sequence of services.
LEMMA AppendConsoleType ==
    ASSUME NEW q \in Seq(Services), NEW s \in Services
    PROVE  AppendConsole(q, s) \in Seq(Services)
BY DEF AppendConsole

\* The helpers that queue a service keep the type of the queue they change.
LEMMA QueueTypes ==
    ASSUME TypeOK, NEW s \in Services
    PROVE  /\ AddPropQueue(s) => prop_queue' \in Seq(Services)
           /\ AddTransitionQueue(s) => stop_queue' \in Seq(Services)
           /\ UnqueueConsole(s) => console_queue' \in Seq(Services)
<1>1. /\ prop_queue \in Seq(Services) /\ stop_queue \in Seq(Services)
      /\ console_queue \in Seq(Services)
  BY DEF TypeOK
<1> QED
  BY <1>1, EnqueueType, RemoveFirstType DEF AddPropQueue, AddTransitionQueue, UnqueueConsole

\* dependency_started() at most queues the service.
LEMMA DependencyStartedType ==
    ASSUME TypeOK, NEW s \in Services, DependencyStarted(s)
    PROVE  stop_queue' \in Seq(Services)
BY QueueTypes DEF DependencyStarted, TypeOK

\* release() takes one from the count and leaves the activation.
LEMMA ReleasedWith ==
    ASSUME NEW r \in SvcType
    PROVE  Released(r) \in With(r.required_by - 1, r.start_explicit)
<1>1. r.required_by - 1 \in Int /\ 0 \in Int
  BY Fields
<1>2. r.required_by = 1 => r.required_by - 1 = 0
  BY Fields
<1>3. /\ r.prop \in SUBSET PropFlags
      /\ r.prop \ {"require", "release"} \in SUBSET PropFlags
      /\ r.prop \cup {"release"} \in SUBSET PropFlags
  BY Fields DEF PropFlags
<1>4. CASE r.required_by # 1
  BY <1>1, <1>4, Zenon DEF Released, With, SvcType
<1>5. CASE r.required_by = 1
  BY <1>1, <1>2, <1>3, <1>5, Zenon DEF Released, With, SvcType
<1> QED
  BY <1>4, <1>5

\* Taking back an explicit activation takes one from the count with it.
LEMMA DeactivatedWith ==
    ASSUME NEW r \in SvcType
    PROVE  /\ r.start_explicit => Deactivated(r) \in With(r.required_by - 1, FALSE)
           /\ ~r.start_explicit => Deactivated(r) = r
<1> DEFINE q == [r EXCEPT !.start_explicit = FALSE]
<1>1. q \in SvcType /\ q.required_by = r.required_by /\ q.start_explicit = FALSE
  BY Zenon DEF SvcType
<1>2. Released(q) \in With(r.required_by - 1, FALSE)
  <2> HIDE DEF q
  <2> QED BY <1>1, ReleasedWith
<1>3. r.start_explicit => Deactivated(r) = Released(q)
  BY Zenon DEF Deactivated
<1>4. ~r.start_explicit => Deactivated(r) = r
  BY DEF Deactivated
<1> HIDE DEF q
<1> QED BY <1>2, <1>3, <1>4

\* forced_stop() touches neither the count nor the activation.
LEMMA ForcedStopKept ==
    ASSUME NEW r \in SvcType
    PROVE  ForcedStop(r) \in Kept(r)
<1>1. r.prop \in SUBSET PropFlags /\ r.prop \cup {"stop"} \in SUBSET PropFlags
  BY Fields DEF PropFlags
<1>2. CASE r.state = "STOPPED"
  BY <1>2 DEF ForcedStop, Kept, With
<1>3. CASE r.state # "STOPPED" /\ Pinned(r)
  BY <1>1, <1>3, Zenon DEF ForcedStop, Kept, With, SvcType
<1>4. CASE r.state # "STOPPED" /\ ~Pinned(r)
  BY <1>1, <1>4, Zenon DEF ForcedStop, Kept, With, SvcType
<1> QED BY <1>2, <1>3, <1>4

----------------------------------------------------------------------------
(* Steps of Acquisition *)

\* Counts, activations and holders that stay the same are a stutter.
LEMMA SameStep ==
    ASSUME SameCounts, SameHeld
    PROVE  UNCHANGED Acq!vars
<1>1. [s \in Services |-> svc[s].required_by]' = [s \in Services |-> svc[s].required_by]
  BY DEF SameCounts
<1>2. {s \in Services : svc[s].start_explicit}' = {s \in Services : svc[s].start_explicit}
  BY Zenon DEF SameCounts
<1>3. {l \in Links : dep[l].holding_acq}' = {l \in Links : dep[l].holding_acq}
  BY Zenon DEF SameHeld
<1> QED BY <1>1, <1>2, <1>3 DEF Acq!vars

\* Replacing a record by one that counts the same changes no count.
LEMMA KeptRecord ==
    ASSUME TypeOK, NEW s \in Services, NEW r \in Kept(svc[s]), SetRecord(s, r)
    PROVE  RecordsOK' /\ SameCounts
BY DEF TypeOK, SetRecord, Kept, With, SameCounts, RecordsOK

\* A step that leaves the records alone changes no count.
LEMMA SvcUnchanged ==
    ASSUME TypeOK, UNCHANGED svc
    PROVE  RecordsOK' /\ SameCounts
BY DEF TypeOK, SameCounts, RecordsOK

\* A step that leaves the links alone changes no holder.
LEMMA DepUnchanged ==
    ASSUME TypeOK, UNCHANGED dep
    PROVE  DepsOK' /\ SameHeld
BY DEF TypeOK, SameHeld, DepsOK

\* A step that counts nothing is a good step.
LEMMA KeptStep ==
    ASSUME RecordsOK', SameCounts, DepsOK', SameHeld, QueuesOK'
    PROVE  GoodStep
BY SameStep, TypePartsNext DEF GoodStep

\* start() of a service that is not activated.
LEMMA MarkStep ==
    ASSUME TypeOK, NEW s \in Services, ~svc[s].start_explicit, SameHeld,
           NEW r \in With(svc[s].required_by + 1, TRUE), SetRecord(s, r)
    PROVE  RecordsOK' /\ Acq!MarkActive(s)
<1>1. RecordsOK'
  BY DEF TypeOK, SetRecord, With, RecordsOK
<1>2. [t \in Services |-> svc[t].required_by]' =
          [[t \in Services |-> svc[t].required_by] EXCEPT ![s] = @ + 1]
  BY DEF TypeOK, SetRecord, With
<1>3. {t \in Services : svc[t].start_explicit}' = {t \in Services : svc[t].start_explicit} \cup {s}
  BY Zenon DEF TypeOK, SetRecord, With
<1>4. {l \in Links : dep[l].holding_acq}' = {l \in Links : dep[l].holding_acq}
  BY Zenon DEF SameHeld
<1> QED BY <1>1, <1>2, <1>3, <1>4 DEF Acq!MarkActive

\* The activation is taken back: by stop(), a failed start or a stop.
LEMMA UnmarkStep ==
    ASSUME TypeOK, NEW s \in Services, svc[s].start_explicit, SameHeld,
           NEW r \in With(svc[s].required_by - 1, FALSE), SetRecord(s, r)
    PROVE  RecordsOK' /\ Acq!UnmarkActive(s)
<1>1. RecordsOK'
  BY DEF TypeOK, SetRecord, With, RecordsOK
<1>2. [t \in Services |-> svc[t].required_by]' =
          [[t \in Services |-> svc[t].required_by] EXCEPT ![s] = @ - 1]
  BY DEF TypeOK, SetRecord, With
<1>3. {t \in Services : svc[t].start_explicit}' = {t \in Services : svc[t].start_explicit} \ {s}
  BY Zenon DEF TypeOK, SetRecord, With
<1>4. {l \in Links : dep[l].holding_acq}' = {l \in Links : dep[l].holding_acq}
  BY Zenon DEF SameHeld
<1> QED BY <1>1, <1>2, <1>3, <1>4 DEF Acq!UnmarkActive

\* require() for a link.
LEMMA AcquireStep ==
    ASSUME TypeOK, NEW l \in Links,
           NEW r \in With(svc[l.to].required_by + 1, svc[l.to].start_explicit),
           SetRecord(l.to, r), dep' = [dep EXCEPT ![l].holding_acq = TRUE]
    PROVE  RecordsOK' /\ DepsOK' /\ Acq!Acquire(l)
<1>0. l.to \in Services
  BY Typed
<1>1. RecordsOK'
  BY <1>0 DEF TypeOK, SetRecord, With, RecordsOK
<1>2. [t \in Services |-> svc[t].required_by]' =
          [[t \in Services |-> svc[t].required_by] EXCEPT ![l.to] = @ + 1]
  BY <1>0 DEF TypeOK, SetRecord, With
<1>3. {t \in Services : svc[t].start_explicit}' = {t \in Services : svc[t].start_explicit}
  BY <1>0, Zenon DEF TypeOK, SetRecord, With
<1>4. DepsOK' /\ {m \in Links : dep[m].holding_acq}' = {m \in Links : dep[m].holding_acq} \cup {l}
  BY DEF TypeOK, DepType, DepsOK
<1> QED BY <1>1, <1>2, <1>3, <1>4 DEF Acq!Acquire

\* release() by a link that holds; the link does not hold afterwards.
LEMMA GiveUpStep ==
    ASSUME TypeOK, NEW l \in Links, dep[l].holding_acq, ~dep'[l].holding_acq,
           \A m \in Links \ {l} : dep'[m].holding_acq = dep[m].holding_acq,
           svc'[l.to] \in With(svc[l.to].required_by - 1, svc[l.to].start_explicit),
           \A t \in Services \ {l.to} : svc'[t] \in Kept(svc[t])
    PROVE  Acq!GiveUp(l)
<1>0. l.to \in Services
  BY Typed
<1>1. [t \in Services |-> svc[t].required_by]' =
          [[t \in Services |-> svc[t].required_by] EXCEPT ![l.to] = @ - 1]
  BY <1>0 DEF Kept, With
<1>2. {t \in Services : svc[t].start_explicit}' = {t \in Services : svc[t].start_explicit}
  <2>1. \A t \in Services : svc'[t].start_explicit = svc[t].start_explicit
    BY DEF Kept, With
  <2> QED BY <2>1, Zenon
<1>3. {m \in Links : dep[m].holding_acq}' = {m \in Links : dep[m].holding_acq} \ {l}
  BY Zenon
<1>4. l \in {m \in Links : dep[m].holding_acq}
  OBVIOUS
<1> QED BY <1>1, <1>2, <1>3, <1>4 DEF Acq!GiveUp

----------------------------------------------------------------------------
(* Steps that neither acquire nor release *)

\* The updates of one record that such steps make keep count and activation.
LEMMA KeptUpdates ==
    ASSUME NEW r \in SvcType, NEW p \in SUBSET PropFlags, NEW b \in BOOLEAN
    PROVE  /\ r \in Kept(r)
           /\ [r EXCEPT !.desired = "STARTED"] \in Kept(r)
           /\ [r EXCEPT !.prop = p] \in Kept(r)
           /\ [r EXCEPT !.start_failed = FALSE, !.state = "STARTING",
                        !.waiting_for_deps = TRUE] \in Kept(r)
           /\ [r EXCEPT !.waiting_for_console = TRUE] \in Kept(r)
           /\ [r EXCEPT !.waiting_for_console = FALSE, !.have_console = b] \in Kept(r)
           /\ [r EXCEPT !.have_console = FALSE] \in Kept(r)
           /\ [r EXCEPT !.waiting_for_deps = FALSE] \in Kept(r)
           /\ [r EXCEPT !.state = "STARTED"] \in Kept(r)
           /\ [r EXCEPT !.start_failed = TRUE, !.pinned_started = FALSE] \in Kept(r)
           /\ [r EXCEPT !.force_stop = FALSE] \in Kept(r)
           /\ [r EXCEPT !.in_auto_restart = FALSE, !.in_user_restart = FALSE] \in Kept(r)
           /\ [r EXCEPT !.in_auto_restart = TRUE] \in Kept(r)
           /\ [r EXCEPT !.prop = p, !.terminated = FALSE, !.state = "STOPPED"] \in Kept(r)
           /\ [r EXCEPT !.dept_pinned = b] \in Kept(r)
           /\ [r EXCEPT !.pinned_started = b] \in Kept(r)
           /\ [r EXCEPT !.pinned_stopped = b] \in Kept(r)
           /\ [r EXCEPT !.is_triggered = b] \in Kept(r)
           /\ [r EXCEPT !.terminated = FALSE, !.force_stop = TRUE] \in Kept(r)
<1>1. r \in Kept(r)
  BY Zenon DEF SvcType, Kept, With
<1>2. [r EXCEPT !.desired = "STARTED"] \in Kept(r)
  BY Zenon DEF SvcType, Kept, With
<1>3. [r EXCEPT !.prop = p] \in Kept(r)
  BY Zenon DEF SvcType, Kept, With
<1>4. [r EXCEPT !.start_failed = FALSE, !.state = "STARTING", !.waiting_for_deps = TRUE] \in Kept(r)
  BY Zenon DEF SvcType, Kept, With
<1>5. [r EXCEPT !.waiting_for_console = TRUE] \in Kept(r)
  BY Zenon DEF SvcType, Kept, With
<1>6. [r EXCEPT !.waiting_for_console = FALSE, !.have_console = b] \in Kept(r)
  BY Zenon DEF SvcType, Kept, With
<1>7. [r EXCEPT !.have_console = FALSE] \in Kept(r)
  BY Zenon DEF SvcType, Kept, With
<1>8. [r EXCEPT !.waiting_for_deps = FALSE] \in Kept(r)
  BY Zenon DEF SvcType, Kept, With
<1>9. [r EXCEPT !.state = "STARTED"] \in Kept(r)
  BY Zenon DEF SvcType, Kept, With
<1>10. [r EXCEPT !.start_failed = TRUE, !.pinned_started = FALSE] \in Kept(r)
  BY Zenon DEF SvcType, Kept, With
<1>11. [r EXCEPT !.force_stop = FALSE] \in Kept(r)
  BY Zenon DEF SvcType, Kept, With
<1>12. [r EXCEPT !.in_auto_restart = FALSE, !.in_user_restart = FALSE] \in Kept(r)
  BY Zenon DEF SvcType, Kept, With
<1>13. [r EXCEPT !.in_auto_restart = TRUE] \in Kept(r)
  BY Zenon DEF SvcType, Kept, With
<1>14. [r EXCEPT !.prop = p, !.terminated = FALSE, !.state = "STOPPED"] \in Kept(r)
  BY Zenon DEF SvcType, Kept, With
<1>15. [r EXCEPT !.dept_pinned = b] \in Kept(r)
  BY Zenon DEF SvcType, Kept, With
<1>16. [r EXCEPT !.pinned_started = b] \in Kept(r)
  BY Zenon DEF SvcType, Kept, With
<1>17. [r EXCEPT !.pinned_stopped = b] \in Kept(r)
  BY Zenon DEF SvcType, Kept, With
<1>18. [r EXCEPT !.is_triggered = b] \in Kept(r)
  BY Zenon DEF SvcType, Kept, With
<1>19. [r EXCEPT !.terminated = FALSE, !.force_stop = TRUE] \in Kept(r)
  BY Zenon DEF SvcType, Kept, With
<1> QED BY <1>1, <1>2, <1>3, <1>4, <1>5, <1>6, <1>7, <1>8, <1>9, <1>10, <1>11,
       <1>12, <1>13, <1>14, <1>15, <1>16, <1>17, <1>18, <1>19

\* Starting, and what happens once a service is up.
LEMMA StartingSteps ==
    ASSUME TypeOK, NEW s \in Services,
           \/ DoStart(s) \/ Activate(s) \/ AllDepsStarted(s)
           \/ ReleaseConsole(s) \/ Started(s)
    PROVE  GoodStep
<1>a. svc[s] \in SvcType
  BY Typed
<1>b. /\ svc[s].prop \in SUBSET PropFlags
      /\ svc[s].prop \cup {"require"} \in SUBSET PropFlags
      /\ svc[s].prop \ {"require", "release"} \in SUBSET PropFlags
      /\ TRUE \in BOOLEAN
  BY <1>a, FlagSets DEF PropFlags
<1>1. CASE DoStart(s)
  <2>1. RecordsOK' /\ SameCounts
    BY <1>1, <1>a, <1>b, KeptUpdates, KeptRecord, Zenon DEF DoStart
  <2>2. QueuesOK'
    BY <1>1, QueueTypes DEF DoStart, TypeOK, QueuesOK, queues, console, globals
  <2>3. DepsOK' /\ SameHeld
    BY <1>1, DepUnchanged DEF DoStart
  <2> QED BY <2>1, <2>2, <2>3, KeptStep
<1>2. CASE Activate(s)
  <2>1. RecordsOK' /\ SameCounts
    BY <1>2, <1>a, <1>b, KeptUpdates, KeptRecord, Zenon DEF Activate
  <2>2. QueuesOK'
    BY <1>2, QueueTypes DEF Activate, TypeOK, QueuesOK, queues, console, globals
  <2>3. DepsOK' /\ SameHeld
    BY <1>2, DepUnchanged DEF Activate
  <2> QED BY <2>1, <2>2, <2>3, KeptStep
<1>3. CASE AllDepsStarted(s)
  <2>1. RecordsOK' /\ SameCounts
    BY <1>3, <1>a, <1>b, KeptUpdates, KeptRecord, Zenon DEF AllDepsStarted
  <2>2. QueuesOK'
    BY <1>3, QueueTypes DEF AllDepsStarted, TypeOK, QueuesOK, queues, console, globals
  <2>3. DepsOK' /\ SameHeld
    BY <1>3, DepUnchanged DEF AllDepsStarted
  <2> QED BY <2>1, <2>2, <2>3, KeptStep
<1>4. CASE ReleaseConsole(s)
  <2>1. RecordsOK' /\ SameCounts
    BY <1>4, <1>a, <1>b, KeptUpdates, KeptRecord, Zenon DEF ReleaseConsole
  <2>2. QueuesOK'
    BY <1>4, QueueTypes DEF ReleaseConsole, TypeOK, QueuesOK, queues, console, globals
  <2>3. DepsOK' /\ SameHeld
    BY <1>4, DepUnchanged DEF ReleaseConsole
  <2> QED BY <2>1, <2>2, <2>3, KeptStep
<1>5. CASE Started(s)
  <2>1. RecordsOK' /\ SameCounts
    BY <1>5, <1>a, <1>b, KeptUpdates, KeptRecord, Zenon DEF Started
  <2>2. QueuesOK'
    BY <1>5, QueueTypes DEF Started, TypeOK, QueuesOK, queues, console, globals
  <2>3. DepsOK' /\ SameHeld
    BY <1>5, DepUnchanged DEF Started
  <2> QED BY <2>1, <2>2, <2>3, KeptStep
<1> QED BY <1>1, <1>2, <1>3, <1>4, <1>5

\* Stopping, and the steps of the two queues.
LEMMA StoppingSteps ==
    ASSUME TypeOK, NEW s \in Services,
           \/ Stopped(s) \/ CheckRestart(s) \/ PropStop(s)
           \/ DependenciesReleased(s) \/ ExecuteTransition(s)
           \/ RestartService(s)
    PROVE  GoodStep
<1>a. svc[s] \in SvcType
  BY Typed
<1>b. /\ svc[s].prop \in SUBSET PropFlags
      /\ svc[s].prop \cup {"stop"} \in SUBSET PropFlags
      /\ svc[s].prop \ {"release"} \in SUBSET PropFlags
      /\ TRUE \in BOOLEAN
  BY <1>a, FlagSets DEF PropFlags
<1>1. CASE Stopped(s)
  <2>1. RecordsOK' /\ SameCounts
    BY <1>1, <1>a, <1>b, KeptUpdates, KeptRecord, Zenon DEF Stopped
  <2>2. QueuesOK'
    BY <1>1, QueueTypes DEF Stopped, TypeOK, QueuesOK, queues, console, globals
  <2>3. DepsOK' /\ SameHeld
    BY <1>1, DepUnchanged DEF Stopped
  <2> QED BY <2>1, <2>2, <2>3, KeptStep
<1>2. CASE CheckRestart(s)
  <2>1. RecordsOK' /\ SameCounts
    BY <1>2, <1>a, <1>b, KeptUpdates, KeptRecord, Zenon DEF CheckRestart
  <2>2. QueuesOK'
    BY <1>2, QueueTypes DEF CheckRestart, TypeOK, QueuesOK, queues, console, globals
  <2>3. DepsOK' /\ SameHeld
    BY <1>2, DepUnchanged DEF CheckRestart
  <2> QED BY <2>1, <2>2, <2>3, KeptStep
<1>3. CASE PropStop(s)
  <2>1. RecordsOK' /\ SameCounts
    BY <1>3, <1>a, <1>b, KeptUpdates, KeptRecord, Zenon DEF PropStop
  <2>2. QueuesOK'
    BY <1>3, QueueTypes DEF PropStop, TypeOK, QueuesOK, queues, console, globals
  <2>3. DepsOK' /\ SameHeld
    BY <1>3, DepUnchanged DEF PropStop
  <2> QED BY <2>1, <2>2, <2>3, KeptStep
<1>4. CASE DependenciesReleased(s)
  <2>1. RecordsOK' /\ SameCounts
    BY <1>4, <1>a, <1>b, KeptUpdates, KeptRecord, Zenon DEF DependenciesReleased
  <2>2. QueuesOK'
    BY <1>4, QueueTypes DEF DependenciesReleased, TypeOK, QueuesOK, queues, console, globals
  <2>3. DepsOK' /\ SameHeld
    BY <1>4, DepUnchanged DEF DependenciesReleased
  <2> QED BY <2>1, <2>2, <2>3, KeptStep
<1>5. CASE ExecuteTransition(s)
  <2>1. RecordsOK' /\ SameCounts
    BY <1>5, <1>a, <1>b, KeptUpdates, KeptRecord, Zenon DEF ExecuteTransition
  <2>2. QueuesOK'
    BY <1>5, QueueTypes DEF ExecuteTransition, TypeOK, QueuesOK, queues, console, globals
  <2>3. DepsOK' /\ SameHeld
    BY <1>5, DepUnchanged DEF ExecuteTransition
  <2> QED BY <2>1, <2>2, <2>3, KeptStep
<1>6. CASE RestartService(s)
  <2>1. RecordsOK' /\ SameCounts
    BY <1>6, <1>a, <1>b, KeptUpdates, KeptRecord, Zenon DEF RestartService
  <2>2. QueuesOK'
    BY <1>6, QueueTypes DEF RestartService, TypeOK, QueuesOK, queues, console, globals
  <2>3. DepsOK' /\ SameHeld
    BY <1>6, DepUnchanged DEF RestartService
  <2> QED BY <2>1, <2>2, <2>3, KeptStep
<1> QED BY <1>1, <1>2, <1>3, <1>4, <1>5, <1>6

\* Setting and removing pins.
LEMMA PinSteps ==
    ASSUME TypeOK, NEW s \in Services,
           \/ PinStart(s) \/ PinStop(s) \/ Unpin(s) \/ UnpinStopped(s)
    PROVE  GoodStep
<1>a. svc[s] \in SvcType
  BY Typed
<1>b. /\ svc[s].prop \in SUBSET PropFlags
      /\ TRUE \in BOOLEAN /\ FALSE \in BOOLEAN
  BY <1>a, FlagSets DEF PropFlags
<1>1. CASE PinStart(s)
  <2>1. RecordsOK' /\ SameCounts
    BY <1>1, <1>a, <1>b, KeptUpdates, KeptRecord, Zenon DEF PinStart
  <2>2. QueuesOK'
    BY <1>1, QueueTypes DEF PinStart, TypeOK, QueuesOK, queues, console, globals
  <2>3. DepsOK' /\ SameHeld
    BY <1>1, DepUnchanged DEF PinStart
  <2> QED BY <2>1, <2>2, <2>3, KeptStep
<1>2. CASE PinStop(s)
  <2>1. RecordsOK' /\ SameCounts
    BY <1>2, <1>a, <1>b, KeptUpdates, KeptRecord, Zenon DEF PinStop
  <2>2. QueuesOK'
    BY <1>2, QueueTypes DEF PinStop, TypeOK, QueuesOK, queues, console, globals
  <2>3. DepsOK' /\ SameHeld
    BY <1>2, DepUnchanged DEF PinStop
  <2> QED BY <2>1, <2>2, <2>3, KeptStep
<1>3. CASE Unpin(s)
  <2>1. RecordsOK' /\ SameCounts
    BY <1>3, <1>a, <1>b, KeptUpdates, KeptRecord, Zenon DEF Unpin
  <2>2. QueuesOK'
    BY <1>3, QueueTypes DEF Unpin, TypeOK, QueuesOK, queues, console, globals
  <2>3. DepsOK' /\ SameHeld
    BY <1>3, DepUnchanged DEF Unpin
  <2> QED BY <2>1, <2>2, <2>3, KeptStep
<1>4. CASE UnpinStopped(s)
  <2>1. RecordsOK' /\ SameCounts
    BY <1>4, <1>a, <1>b, KeptUpdates, KeptRecord, Zenon DEF UnpinStopped
  <2>2. QueuesOK'
    BY <1>4, QueueTypes DEF UnpinStopped, TypeOK, QueuesOK, queues, console, globals
  <2>3. DepsOK' /\ SameHeld
    BY <1>4, DepUnchanged DEF UnpinStopped
  <2> QED BY <2>1, <2>2, <2>3, KeptStep
<1> QED BY <1>1, <1>2, <1>3, <1>4

\* Steps and orders that change no record.
LEMMA PureSteps ==
    ASSUME TypeOK, NEW s \in Services,
           \/ BringUp(s) \/ BringDown(s) \/ StartService(s)
           \/ StopService(s) \/ WakeService(s) \/ ReleaseService(s)
           \/ UnpinService(s)
    PROVE  GoodStep
<1>1. CASE BringUp(s)
  <2>1. RecordsOK' /\ SameCounts
    BY <1>1, SvcUnchanged DEF BringUp
  <2>2. QueuesOK'
    BY <1>1, QueueTypes DEF BringUp, TypeOK, QueuesOK, queues, console, globals
  <2>3. DepsOK' /\ SameHeld
    BY <1>1, DepUnchanged DEF BringUp
  <2> QED BY <2>1, <2>2, <2>3, KeptStep
<1>2. CASE BringDown(s)
  <2>1. RecordsOK' /\ SameCounts
    BY <1>2, SvcUnchanged DEF BringDown
  <2>2. QueuesOK'
    BY <1>2, QueueTypes DEF BringDown, TypeOK, QueuesOK, queues, console, globals
  <2>3. DepsOK' /\ SameHeld
    BY <1>2, DepUnchanged DEF BringDown
  <2> QED BY <2>1, <2>2, <2>3, KeptStep
<1>3. CASE StartService(s)
  <2>1. RecordsOK' /\ SameCounts
    BY <1>3, SvcUnchanged DEF StartService
  <2>2. QueuesOK'
    BY <1>3, QueueTypes DEF StartService, TypeOK, QueuesOK, queues, console, globals
  <2>3. DepsOK' /\ SameHeld
    BY <1>3, DepUnchanged DEF StartService
  <2> QED BY <2>1, <2>2, <2>3, KeptStep
<1>4. CASE StopService(s)
  <2>1. RecordsOK' /\ SameCounts
    BY <1>4, SvcUnchanged DEF StopService
  <2>2. QueuesOK'
    BY <1>4, QueueTypes DEF StopService, TypeOK, QueuesOK, queues, console, globals
  <2>3. DepsOK' /\ SameHeld
    BY <1>4, DepUnchanged DEF StopService
  <2> QED BY <2>1, <2>2, <2>3, KeptStep
<1>5. CASE WakeService(s)
  <2>1. RecordsOK' /\ SameCounts
    BY <1>5, SvcUnchanged DEF WakeService
  <2>2. QueuesOK'
    BY <1>5, QueueTypes DEF WakeService, TypeOK, QueuesOK, queues, console, globals
  <2>3. DepsOK' /\ SameHeld
    BY <1>5, DepUnchanged DEF WakeService
  <2> QED BY <2>1, <2>2, <2>3, KeptStep
<1>6. CASE ReleaseService(s)
  <2>1. RecordsOK' /\ SameCounts
    BY <1>6, SvcUnchanged DEF ReleaseService
  <2>2. QueuesOK'
    BY <1>6, QueueTypes DEF ReleaseService, TypeOK, QueuesOK, queues, console, globals
  <2>3. DepsOK' /\ SameHeld
    BY <1>6, DepUnchanged DEF ReleaseService
  <2> QED BY <2>1, <2>2, <2>3, KeptStep
<1>7. CASE UnpinService(s)
  <2>1. RecordsOK' /\ SameCounts
    BY <1>7, SvcUnchanged DEF UnpinService
  <2>2. QueuesOK'
    BY <1>7, QueueTypes DEF UnpinService, TypeOK, QueuesOK, queues, console, globals
  <2>3. DepsOK' /\ SameHeld
    BY <1>7, DepUnchanged DEF UnpinService
  <2> QED BY <2>1, <2>2, <2>3, KeptStep
<1> QED BY <1>1, <1>2, <1>3, <1>4, <1>5, <1>6, <1>7

\* The same, with a parameter.
LEMMA PureFlagSteps ==
    ASSUME TypeOK, NEW s \in Services, NEW b \in BOOLEAN,
           \/ Chain(s, b) \/ InterruptStart(s, b)
    PROVE  GoodStep
<1>1. CASE Chain(s, b)
  <2>1. RecordsOK' /\ SameCounts
    BY <1>1, SvcUnchanged DEF Chain
  <2>2. QueuesOK'
    BY <1>1, QueueTypes DEF Chain, TypeOK, QueuesOK, queues, console, globals
  <2>3. DepsOK' /\ SameHeld
    BY <1>1, DepUnchanged DEF Chain
  <2> QED BY <2>1, <2>2, <2>3, KeptStep
<1>2. CASE InterruptStart(s, b)
  <2>1. RecordsOK' /\ SameCounts
    BY <1>2, SvcUnchanged DEF InterruptStart
  <2>2. QueuesOK'
    BY <1>2, QueueTypes DEF InterruptStart, TypeOK, QueuesOK, queues, console, globals
  <2>3. DepsOK' /\ SameHeld
    BY <1>2, DepUnchanged DEF InterruptStart
  <2> QED BY <2>1, <2>2, <2>3, KeptStep
<1> QED BY <1>1, <1>2

\* Steps whose parameter is a flag.
LEMMA FlagSteps ==
    ASSUME TypeOK, NEW s \in Services, NEW b \in BOOLEAN,
           \/ StartFailed(s, b) \/ SetTrigger(s, b)
    PROVE  GoodStep
<1>a. svc[s] \in SvcType
  BY Typed
<1>b. /\ svc[s].prop \in SUBSET PropFlags
      /\ TRUE \in BOOLEAN /\ FALSE \in BOOLEAN
  BY <1>a, FlagSets DEF PropFlags
<1>1. CASE StartFailed(s, b)
  <2>1. RecordsOK' /\ SameCounts
    BY <1>1, <1>a, <1>b, KeptUpdates, KeptRecord, Zenon DEF StartFailed
  <2>2. QueuesOK'
    BY <1>1, QueueTypes DEF StartFailed, TypeOK, QueuesOK, queues, console, globals
  <2>3. DepsOK' /\ SameHeld
    BY <1>1, DepUnchanged DEF StartFailed
  <2> QED BY <2>1, <2>2, <2>3, KeptStep
<1>2. CASE SetTrigger(s, b)
  <2>1. RecordsOK' /\ SameCounts
    BY <1>2, <1>a, <1>b, KeptUpdates, KeptRecord, Zenon DEF SetTrigger
  <2>2. QueuesOK'
    BY <1>2, QueueTypes DEF SetTrigger, TypeOK, QueuesOK, queues, console, globals
  <2>3. DepsOK' /\ SameHeld
    BY <1>2, DepUnchanged DEF SetTrigger
  <2> QED BY <2>1, <2>2, <2>3, KeptStep
<1> QED BY <1>1, <1>2

\* do_propagation(), flag by flag.
LEMMA PropagationSteps ==
    ASSUME TypeOK, NEW s \in Services, NEW k \in 1 .. 6,
           \/ PropagationDone(s, k) \/ PropagateRequire(s, k)
           \/ PropagateRelease(s, k) \/ PropagateFailure(s, k)
           \/ PropagateStart(s, k) \/ PropagateStop(s, k)
    PROVE  GoodStep
<1>a. svc[s] \in SvcType
  BY Typed
<1>b. /\ svc[s].prop \in SUBSET PropFlags
      /\ \A f : svc[s].prop \ {f} \in SUBSET PropFlags
      /\ TRUE \in BOOLEAN
  BY <1>a, FlagSets DEF PropFlags
<1>1. CASE PropagationDone(s, k)
  <2>1. RecordsOK' /\ SameCounts
    BY <1>1, SvcUnchanged DEF PropagationDone
  <2>2. QueuesOK'
    BY <1>1, QueueTypes DEF PropagationDone, TypeOK, QueuesOK, queues, console, globals
  <2>3. DepsOK' /\ SameHeld
    BY <1>1, DepUnchanged DEF PropagationDone
  <2> QED BY <2>1, <2>2, <2>3, KeptStep
<1>2. CASE PropagateRequire(s, k)
  <2>1. RecordsOK' /\ SameCounts
    BY <1>2, <1>a, <1>b, KeptUpdates, KeptRecord, Zenon DEF PropagateRequire
  <2>2. QueuesOK'
    BY <1>2, QueueTypes DEF PropagateRequire, TypeOK, QueuesOK, queues, console, globals
  <2>3. DepsOK' /\ SameHeld
    BY <1>2, DepUnchanged DEF PropagateRequire
  <2> QED BY <2>1, <2>2, <2>3, KeptStep
<1>3. CASE PropagateRelease(s, k)
  <2>1. RecordsOK' /\ SameCounts
    BY <1>3, SvcUnchanged DEF PropagateRelease
  <2>2. QueuesOK'
    BY <1>3, QueueTypes DEF PropagateRelease, TypeOK, QueuesOK, queues, console, globals
  <2>3. DepsOK' /\ SameHeld
    BY <1>3, DepUnchanged DEF PropagateRelease
  <2> QED BY <2>1, <2>2, <2>3, KeptStep
<1>4. CASE PropagateFailure(s, k)
  <2>1. RecordsOK' /\ SameCounts
    BY <1>4, <1>a, <1>b, KeptUpdates, KeptRecord, Zenon DEF PropagateFailure
  <2>2. QueuesOK'
    BY <1>4, QueueTypes DEF PropagateFailure, TypeOK, QueuesOK, queues, console, globals
  <2>3. DepsOK' /\ SameHeld
    BY <1>4, DepUnchanged DEF PropagateFailure
  <2> QED BY <2>1, <2>2, <2>3, KeptStep
<1>5. CASE PropagateStart(s, k)
  <2>1. RecordsOK' /\ SameCounts
    BY <1>5, <1>a, <1>b, KeptUpdates, KeptRecord, Zenon DEF PropagateStart
  <2>2. QueuesOK'
    BY <1>5, QueueTypes DEF PropagateStart, TypeOK, QueuesOK, queues, console, globals
  <2>3. DepsOK' /\ SameHeld
    BY <1>5, DepUnchanged DEF PropagateStart
  <2> QED BY <2>1, <2>2, <2>3, KeptStep
<1>6. CASE PropagateStop(s, k)
  <2>1. RecordsOK' /\ SameCounts
    BY <1>6, <1>a, <1>b, KeptUpdates, KeptRecord, Zenon DEF PropagateStop
  <2>2. QueuesOK'
    BY <1>6, QueueTypes DEF PropagateStop, TypeOK, QueuesOK, queues, console, globals
  <2>3. DepsOK' /\ SameHeld
    BY <1>6, DepUnchanged DEF PropagateStop
  <2> QED BY <2>1, <2>2, <2>3, KeptStep
<1> QED BY <1>1, <1>2, <1>3, <1>4, <1>5, <1>6

\* UnpinStarted releases a service that is up and that nobody requires.
LEMMA UnpinStartedStep ==
    ASSUME TypeOK, NEW s \in Services, UnpinStarted(s)
    PROVE  GoodStep
<1> DEFINE r == [svc[s] EXCEPT !.prop = @ \cup {"release"}]
<1>1. svc[s] \in SvcType
  BY Typed
<1>2. svc[s].prop \cup {"release"} \in SUBSET PropFlags
  BY <1>1, FlagSets DEF PropFlags
<1>3. r \in Kept(svc[s])
  BY <1>1, <1>2, KeptUpdates, Zenon
<1>4. SetRecord(s, r) \/ UNCHANGED svc
  BY Zenon DEF UnpinStarted
<1>5. RecordsOK' /\ SameCounts
  <2> HIDE DEF r
  <2> QED BY <1>3, <1>4, KeptRecord, SvcUnchanged
<1>6. QueuesOK'
  BY QueueTypes DEF UnpinStarted, TypeOK, QueuesOK, queues, console, globals
<1>7. DepsOK' /\ SameHeld
  BY DepUnchanged DEF UnpinStarted
<1> QED BY <1>5, <1>6, <1>7, KeptStep

\* do_stop() resets the restart flags, unless the service is pinned.
LEMMA DoStopStep ==
    ASSUME TypeOK, NEW s \in Services, NEW b \in BOOLEAN, DoStop(s, b)
    PROVE  GoodStep
<1> DEFINE r == [svc[s] EXCEPT !.in_auto_restart = FALSE, !.in_user_restart = FALSE]
<1>1. svc[s] \in SvcType
  BY Typed
<1>2. r \in Kept(svc[s])
  BY <1>1, KeptUpdates, {} \in SUBSET PropFlags, TRUE \in BOOLEAN, Zenon
<1>3. SetRecord(s, r) \/ UNCHANGED svc
  BY Zenon DEF DoStop
<1>4. RecordsOK' /\ SameCounts
  <2> HIDE DEF r
  <2> QED BY <1>2, <1>3, KeptRecord, SvcUnchanged
<1>5. QueuesOK'
  BY DEF DoStop, TypeOK, QueuesOK, queues, console, globals
<1>6. DepsOK' /\ SameHeld
  BY DepUnchanged DEF DoStop
<1> QED BY <1>4, <1>5, <1>6, KeptStep

\* The dependents' pin is set to what do_propagation() finds.
LEMMA PropagatePinStep ==
    ASSUME TypeOK, NEW s \in Services, NEW k \in 1 .. 6, PropagatePin(s, k)
    PROVE  GoodStep
<1> DEFINE pin == \E l \in LinkSet : l.to = s /\ IsHard(l) /\ IsStartPinned(l.from)
           r == [svc[s] EXCEPT !.dept_pinned = pin]
<1>1. svc[s] \in SvcType
  BY Typed
<1>2. SetRecord(s, r)
  BY Zenon DEF PropagatePin
<1>3. pin \in BOOLEAN
  OBVIOUS
<1>4. r \in Kept(svc[s])
  <2> HIDE DEF pin
  <2> QED BY <1>1, <1>3, KeptUpdates, {} \in SUBSET PropFlags, Zenon
<1>5. RecordsOK' /\ SameCounts
  <2> HIDE DEF r
  <2> QED BY <1>2, <1>4, KeptRecord
<1>6. QueuesOK'
  BY DEF PropagatePin, TypeOK, QueuesOK, queues, console, globals
<1>7. DepsOK' /\ SameHeld
  BY DepUnchanged DEF PropagatePin
<1> QED BY <1>5, <1>6, <1>7, KeptStep

\* forced_stop() sets flags and queues the service.
LEMMA ForceStopStep ==
    ASSUME TypeOK, NEW s \in Services, ForceStop(s)
    PROVE  GoodStep
<1>1. svc[s] \in SvcType
  BY Typed
<1>2. RecordsOK' /\ SameCounts
  BY <1>1, ForcedStopKept, KeptRecord DEF ForceStop
<1>3. QueuesOK'
  BY QueueTypes DEF ForceStop, TypeOK, QueuesOK, queues, console, globals
<1>4. DepsOK' /\ SameHeld
  BY DepUnchanged DEF ForceStop
<1> QED BY <1>2, <1>3, <1>4, KeptStep

\* The console queue is appended to, and the log may give the console up.
LEMMA QueueForConsoleStep ==
    ASSUME TypeOK, NEW s \in Services, QueueForConsole(s)
    PROVE  GoodStep
<1> DEFINE r == [svc[s] EXCEPT !.waiting_for_console = TRUE]
<1>1. svc[s] \in SvcType
  BY Typed
<1>2. r \in Kept(svc[s])
  BY <1>1, KeptUpdates, {} \in SUBSET PropFlags, TRUE \in BOOLEAN, Zenon
<1>3. SetRecord(s, r)
  BY Zenon DEF QueueForConsole
<1>4. RecordsOK' /\ SameCounts
  <2> HIDE DEF r
  <2> QED BY <1>2, <1>3, KeptRecord
<1>5. console_queue' \in Seq(Services)
  BY AppendConsoleType DEF QueueForConsole, TypeOK
<1>6. log_console' \in {"held", "releasing", "released"}
  BY DEF QueueForConsole, TypeOK
<1>7. QueuesOK'
  BY <1>5, <1>6 DEF QueueForConsole, TypeOK, QueuesOK, queues, globals
<1>8. DepsOK' /\ SameHeld
  BY DepUnchanged DEF QueueForConsole
<1> QED BY <1>4, <1>7, <1>8, KeptStep

\* The console is handed to the service at the head of the queue, or the log.
LEMMA PullConsoleQueueStep ==
    ASSUME TypeOK, PullConsoleQueue
    PROVE  GoodStep
<1> DEFINE s == Head(console_queue)
           use == svc[s].state = "STARTING" /\ CheckDepsStarted(s)
           r == [svc[s] EXCEPT !.waiting_for_console = FALSE, !.have_console = use]
<1>1. RecordsOK' /\ SameCounts
  <2>1. CASE console_queue = <<>>
    BY <2>1, SvcUnchanged DEF PullConsoleQueue
  <2>2. CASE console_queue # <<>>
    <3>1. SetRecord(s, r)
      BY <2>2, Zenon DEF PullConsoleQueue
    <3>2. s \in Services
      BY <2>2 DEF TypeOK
    <3>3. use \in BOOLEAN
      OBVIOUS
    <3>4. r \in Kept(svc[s])
      <4>1. svc[s] \in SvcType
        BY <3>2, Typed
      <4> HIDE DEF use, s
      <4> QED BY <4>1, <3>3, KeptUpdates, {} \in SUBSET PropFlags, Zenon
    <3> HIDE DEF r, s
    <3> QED BY <3>1, <3>2, <3>4, KeptRecord
  <2> QED BY <2>1, <2>2
<1>2. console_queue' \in Seq(Services)
  <2>1. \/ UNCHANGED console_queue
        \/ console_queue # <<>> /\ console_queue' = Tail(console_queue)
    BY Zenon DEF PullConsoleQueue
  <2> QED BY <2>1, HeadTailProperties DEF TypeOK
<1>3. log_console' \in {"held", "releasing", "released"}
  BY DEF PullConsoleQueue, TypeOK
<1>4. QueuesOK'
  BY <1>2, <1>3 DEF PullConsoleQueue, TypeOK, QueuesOK, queues, globals
<1>5. DepsOK' /\ SameHeld
  BY DepUnchanged DEF PullConsoleQueue
<1> QED BY <1>1, <1>4, <1>5, KeptStep

\* start_check_dependencies() sets waiting_on flags and holds nothing.
LEMMA InitiateStartStep ==
    ASSUME TypeOK, NEW s \in Services, InitiateStart(s)
    PROVE  GoodStep
<1> DEFINE r == [svc[s] EXCEPT !.start_failed = FALSE, !.state = "STARTING",
                               !.waiting_for_deps = TRUE]
           W == MustWaitOn(s) \cup MustWaitFor(s)
<1>1. svc[s] \in SvcType
  BY Typed
<1>2. r \in Kept(svc[s])
  BY <1>1, KeptUpdates, {} \in SUBSET PropFlags, TRUE \in BOOLEAN, Zenon
<1>3. SetRecord(s, r)
  BY Zenon DEF InitiateStart
<1>4. RecordsOK' /\ SameCounts
  <2> HIDE DEF r
  <2> QED BY <1>2, <1>3, KeptRecord
<1>5. QueuesOK'
  BY QueueTypes DEF InitiateStart, TypeOK, QueuesOK, console, globals
<1>6. dep' = [l \in Links |-> IF l \in W THEN [dep[l] EXCEPT !.waiting_on = TRUE] ELSE dep[l]]
  BY DEF InitiateStart
<1>7. DepsOK' /\ SameHeld
  <2> HIDE DEF W
  <2> QED BY <1>6 DEF DepsOK, SameHeld, TypeOK, DepType
<1> QED BY <1>4, <1>5, <1>7, KeptStep

\* The state changes to STOPPING; a queued service leaves the console queue.
LEMMA EnterStoppingStep ==
    ASSUME TypeOK, NEW s \in Services, NEW b \in BOOLEAN, EnterStopping(s, b)
    PROVE  GoodStep
<1> DEFINE w == ~b
           c == IF svc[s].state = "STARTING" THEN FALSE ELSE svc[s].waiting_for_console
           r == [svc[s] EXCEPT !.state = "STOPPING", !.waiting_for_deps = w,
                               !.waiting_for_console = c]
<1>1. svc[s] \in SvcType
  BY Typed
<1>2. SetRecord(s, r)
  BY Zenon DEF EnterStopping
<1>3. w \in BOOLEAN /\ c \in BOOLEAN
  BY <1>1 DEF SvcType
<1>4. r \in Kept(svc[s])
  <2> HIDE DEF w, c
  <2> QED BY <1>1, <1>3, Zenon DEF Kept, With, SvcType
<1>5. RecordsOK' /\ SameCounts
  <2> HIDE DEF r
  <2> QED BY <1>2, <1>4, KeptRecord
<1>6. QueuesOK'
  BY QueueTypes DEF EnterStopping, TypeOK, QueuesOK, globals
<1>7. DepsOK' /\ SameHeld
  BY DepUnchanged DEF EnterStopping
<1> QED BY <1>5, <1>6, <1>7, KeptStep

\* The steps of whole handlers that change no record and no link.
LEMMA QueueSteps ==
    ASSUME TypeOK, ProcessQueues \/ StopAllServices \/ LogReleasesConsole
    PROVE  GoodStep
<1>1. RecordsOK' /\ SameCounts
  BY SvcUnchanged DEF ProcessQueues, StopAllServices, LogReleasesConsole
<1>2. DepsOK' /\ SameHeld
  BY DepUnchanged DEF ProcessQueues, StopAllServices, LogReleasesConsole
<1>3. QueuesOK'
  <2>1. CASE ProcessQueues
    <3>1. \/ prop_queue # <<>> /\ prop_queue' = Tail(prop_queue) /\ UNCHANGED stop_queue
          \/ stop_queue # <<>> /\ stop_queue' = Tail(stop_queue) /\ UNCHANGED prop_queue
          \/ UNCHANGED <<prop_queue, stop_queue>>
      BY <2>1 DEF ProcessQueues, queues
    <3>2. prop_queue' \in Seq(Services) /\ stop_queue' \in Seq(Services)
      BY <3>1, HeadTailProperties DEF TypeOK
    <3> QED BY <2>1, <3>2 DEF ProcessQueues, TypeOK, QueuesOK, console, globals
  <2>2. CASE StopAllServices \/ LogReleasesConsole
    BY <2>2 DEF StopAllServices, LogReleasesConsole, TypeOK, QueuesOK,
                queues, console, globals
  <2> QED BY <2>1, <2>2
<1> QED BY <1>1, <1>2, <1>3, KeptStep

\* The end of stop_dependents() only chooses the next call.
LEMMA DependentsToldStep ==
    ASSUME TypeOK, NEW s, NEW k, NEW fr, NEW rd, NEW all, DependentsTold(s, k, fr, rd, all)
    PROVE  GoodStep
<1>1. RecordsOK' /\ SameCounts
  BY SvcUnchanged DEF DependentsTold
<1>2. DepsOK' /\ SameHeld
  BY DepUnchanged DEF DependentsTold
<1>3. QueuesOK'
  BY DEF DependentsTold, TypeOK, QueuesOK, queues, console, globals
<1> QED BY <1>1, <1>2, <1>3, KeptStep

\* Telling a link's other end that a service started, stopped or is pinned.
LEMMA NotifySteps ==
    ASSUME TypeOK, NEW l \in Links, NEW pin \in BOOLEAN,
           \/ NotifyStarted(l) \/ DependentStopped(l) \/ StartDep(l)
           \/ PinDependency(l, pin)
    PROVE  GoodStep
<1>0. l.to \in Services /\ l.from \in Services /\ svc[l.to] \in SvcType
  BY Typed
<1>1. CASE NotifyStarted(l)
  <2>1. RecordsOK' /\ SameCounts
    BY <1>1, SvcUnchanged DEF NotifyStarted
  <2>2. QueuesOK'
    BY <1>0, <1>1, DependencyStartedType
    DEF NotifyStarted, TypeOK, QueuesOK, console, globals
  <2>3. DepsOK' /\ SameHeld
    BY <1>1 DEF NotifyStarted, DepsOK, SameHeld, TypeOK, DepType
  <2> QED BY <2>1, <2>2, <2>3, KeptStep
<1>2. CASE DependentStopped(l) \/ StartDep(l)
  <2>1. RecordsOK' /\ SameCounts
    BY <1>2, SvcUnchanged DEF DependentStopped, StartDep
  <2>2. QueuesOK'
    BY <1>0, <1>2, QueueTypes
    DEF DependentStopped, StartDep, TypeOK, QueuesOK, queues, console, globals
  <2>3. DepsOK' /\ SameHeld
    BY <1>2, DepUnchanged DEF DependentStopped, StartDep
  <2> QED BY <2>1, <2>2, <2>3, KeptStep
<1>3. CASE PinDependency(l, pin)
  <2> DEFINE r == [svc[l.to] EXCEPT !.prop = @ \cup {"pin_dpt"}]
  <2>1. svc[l.to].prop \cup {"pin_dpt"} \in SUBSET PropFlags
    BY <1>0, FlagSets DEF PropFlags
  <2>2. r \in Kept(svc[l.to])
    BY <1>0, <2>1, KeptUpdates, Zenon
  <2>3. SetRecord(l.to, r) \/ UNCHANGED svc
    BY <1>3, Zenon DEF PinDependency
  <2>4. RecordsOK' /\ SameCounts
    <3> HIDE DEF r
    <3> QED BY <1>0, <2>2, <2>3, KeptRecord, SvcUnchanged
  <2>5. QueuesOK'
    BY <1>0, <1>3, QueueTypes DEF PinDependency, TypeOK, QueuesOK, console, globals
  <2>6. DepsOK' /\ SameHeld
    BY <1>3, DepUnchanged DEF PinDependency
  <2> QED BY <2>4, <2>5, <2>6, KeptStep
<1> QED BY <1>1, <1>2, <1>3

\* A dependency is added; what it acquires is left to the calls that follow.
LEMMA AddServiceDepStep ==
    ASSUME TypeOK, NEW l \in Links, NEW b \in BOOLEAN, AddServiceDep(l, b)
    PROVE  GoodStep
<1>1. RecordsOK' /\ SameCounts
  BY SvcUnchanged DEF AddServiceDep
<1>2. DepsOK' /\ SameHeld
  BY DepUnchanged DEF AddServiceDep
<1>3. links' = links \/ links' = Append(links, l)
  BY DEF AddServiceDep
<1>4. QueuesOK'
  BY <1>3 DEF AddServiceDep, TypeOK, QueuesOK, queues, console
<1> QED BY <1>1, <1>2, <1>4, KeptStep

----------------------------------------------------------------------------
(* Steps that acquire or release *)

\* A step of Acquisition that keeps the types is a good step.
LEMMA CountStep ==
    ASSUME RecordsOK', DepsOK', QueuesOK', Acq!Next
    PROVE  GoodStep
BY TypePartsNext DEF GoodStep

\* start() counts an explicit activation once.
LEMMA StartStep ==
    ASSUME TypeOK, NEW s \in Services, Start(s)
    PROVE  GoodStep
<1> DEFINE n == IF svc[s].start_explicit THEN svc[s].required_by ELSE svc[s].required_by + 1
           r == [svc[s] EXCEPT !.required_by = n, !.start_explicit = TRUE]
<1>1. svc[s] \in SvcType /\ n \in Int /\ svc[s].start_explicit \in BOOLEAN
  BY Typed, Fields
<1>2. r \in With(n, TRUE)
  <2> HIDE DEF n
  <2> QED BY <1>1, Zenon DEF With, SvcType
<1>3. SetRecord(s, r) \/ UNCHANGED svc
  BY Zenon DEF Start
<1>4. DepsOK' /\ SameHeld
  BY DepUnchanged DEF Start
<1>5. QueuesOK'
  BY DEF Start, TypeOK, QueuesOK, queues, console, globals
<1>6. CASE UNCHANGED svc
  BY <1>4, <1>5, <1>6, SvcUnchanged, KeptStep
<1>7. CASE SetRecord(s, r) /\ svc[s].start_explicit
  <2>1. r \in Kept(svc[s])
    <3> HIDE DEF r
    <3> QED BY <1>1, <1>2, <1>7 DEF Kept, With
  <2> HIDE DEF r
  <2> QED BY <1>4, <1>5, <1>7, <2>1, KeptRecord, KeptStep
<1>8. CASE SetRecord(s, r) /\ ~svc[s].start_explicit
  <2>1. r \in With(svc[s].required_by + 1, TRUE)
    BY <1>2, <1>8, Zenon
  <2> HIDE DEF r
  <2>2. RecordsOK' /\ Acq!MarkActive(s)
    BY <1>4, <1>8, <2>1, MarkStep
  <2> QED BY <1>4, <1>5, <2>2, CountStep DEF Acq!Next
<1> QED BY <1>3, <1>6, <1>7, <1>8

(***************************************************************************)
(* A record with the count and the activation of a service, put in its     *)
(* place after the activation has been taken back, if there was one.       *)
(***************************************************************************)
LEMMA DeactivateStep ==
    ASSUME TypeOK, NEW s \in Services, NEW q \in Kept(svc[s]), NEW r \in SvcType,
           r \in Kept(Deactivated(q)), SetRecord(s, r), DepsOK', SameHeld, QueuesOK'
    PROVE  GoodStep
<1>1. /\ q \in SvcType /\ q.required_by = svc[s].required_by
      /\ q.start_explicit = svc[s].start_explicit /\ q.start_explicit \in BOOLEAN
  BY Fields DEF Kept, With
<1>2. CASE q.start_explicit
  <2>1. Deactivated(q) \in With(q.required_by - 1, FALSE)
    BY <1>1, <1>2, DeactivatedWith
  <2>2. r \in With(svc[s].required_by - 1, FALSE)
    BY <1>1, <2>1 DEF Kept, With
  <2>3. RecordsOK' /\ Acq!UnmarkActive(s)
    BY <1>1, <1>2, <2>2, UnmarkStep
  <2> QED BY <2>3, CountStep DEF Acq!Next
<1>3. CASE ~q.start_explicit
  <2>1. Deactivated(q) = q
    BY <1>1, <1>3, DeactivatedWith
  <2>2. r \in Kept(svc[s])
    BY <1>1, <2>1 DEF Kept, With
  <2> QED BY <2>2, KeptRecord, KeptStep
<1> QED BY <1>1, <1>2, <1>3

\* failed_to_start(), stopped() and do_stop() take the activation back.
LEMMA DeactivatingSteps ==
    ASSUME TypeOK, NEW s \in Services, NEW b \in BOOLEAN, NEW rd \in BOOLEAN,
           FailedToStart(s, b) \/ NowStopped(s, b) \/ DoStopFor(s, b, rd)
    PROVE  GoodStep
<1>0. svc[s] \in SvcType /\ svc[s] \in Kept(svc[s])
  BY Typed DEF Kept, With
<1>a. ASSUME NEW q \in Kept(svc[s]) PROVE Deactivated(q) \in SvcType
  <2>1. q \in SvcType /\ q.start_explicit \in BOOLEAN
    BY Fields DEF Kept, With
  <2> QED BY <2>1, DeactivatedWith DEF With
<1>1. CASE FailedToStart(s, b)
  <2> DEFINE r == [svc[s] EXCEPT !.desired = "STOPPED", !.waiting_for_console = FALSE]
  <2>1. r \in Kept(svc[s])
    BY <1>0, Zenon DEF Kept, With, SvcType
  <2>2. SetRecord(s, Deactivated(r))
    BY <1>1, Zenon DEF FailedToStart
  <2>3. DepsOK' /\ SameHeld
    BY <1>1, DepUnchanged DEF FailedToStart
  <2>4. QueuesOK'
    BY <1>1, QueueTypes DEF FailedToStart, TypeOK, QueuesOK, globals
  <2> HIDE DEF r
  <2>5. Deactivated(r) \in SvcType /\ Deactivated(r) \in Kept(Deactivated(r))
    BY <1>a, <2>1 DEF Kept, With
  <2> QED BY <2>1, <2>2, <2>3, <2>4, <2>5, DeactivateStep
<1>2. CASE NowStopped(s, b)
  <2> DEFINE r == [svc[s] EXCEPT !.state = "STOPPED"]
  <2>1. r \in Kept(svc[s])
    BY <1>0, Zenon DEF Kept, With, SvcType
  <2>2. SetRecord(s, IF b THEN r ELSE Deactivated(r))
    BY <1>2, Zenon DEF NowStopped
  <2>3. DepsOK' /\ SameHeld
    BY <1>2, DepUnchanged DEF NowStopped
  <2>4. QueuesOK'
    BY <1>2, QueueTypes DEF NowStopped, TypeOK, QueuesOK, console
  <2> HIDE DEF r
  <2>5. Deactivated(r) \in SvcType /\ Deactivated(r) \in Kept(Deactivated(r))
    BY <1>a, <2>1 DEF Kept, With
  <2>6. CASE b
    BY <2>1, <2>2, <2>3, <2>4, <2>6, KeptRecord, KeptStep
  <2>7. CASE ~b
    BY <2>1, <2>2, <2>3, <2>4, <2>5, <2>7, DeactivateStep
  <2> QED BY <2>6, <2>7
<1>3. CASE DoStopFor(s, b, rd)
  <2>1. SetRecord(s, IF b THEN svc[s] ELSE Deactivated(svc[s]))
    BY <1>3 DEF DoStopFor
  <2>2. DepsOK' /\ SameHeld
    BY <1>3, DepUnchanged DEF DoStopFor
  <2>3. QueuesOK'
    BY <1>3, QueueTypes DEF DoStopFor, TypeOK, QueuesOK, console, globals
  <2>4. Deactivated(svc[s]) \in SvcType /\ Deactivated(svc[s]) \in Kept(Deactivated(svc[s]))
    BY <1>0, <1>a DEF Kept, With
  <2>5. CASE b
    BY <1>0, <2>1, <2>2, <2>3, <2>5, KeptRecord, KeptStep
  <2>6. CASE ~b
    BY <1>0, <2>1, <2>2, <2>3, <2>4, <2>6, DeactivateStep
  <2> QED BY <2>5, <2>6
<1> QED BY <1>1, <1>2, <1>3

\* stop() takes the activation back even when a pin keeps the service up.
LEMMA StopStep ==
    ASSUME TypeOK, NEW s \in Services, NEW b \in BOOLEAN, Stop(s, b)
    PROVE  GoodStep
<1> DEFINE n == svc[s].required_by - (IF svc[s].start_explicit THEN 1 ELSE 0)
           acts == ~IsStartPinned(s)
           takedown == (b \/ n = 0) /\ svc[s].state # "STOPPED"
           releases == "require" \notin svc[s].prop
           d == IF b \/ n = 0 THEN "STOPPED" ELSE svc[s].desired
           p == CASE ~acts \/ n # 0 -> svc[s].prop
                  [] acts /\ n = 0 /\ releases -> svc[s].prop \cup {"release"}
                  [] OTHER -> svc[s].prop \ {"release"}
           t == IF acts /\ takedown THEN FALSE ELSE svc[s].terminated
           r == [svc[s] EXCEPT !.start_explicit = FALSE, !.required_by = n,
                               !.desired = d, !.prop = p, !.terminated = t]
<1>1. svc[s] \in SvcType /\ n \in Int /\ svc[s].start_explicit \in BOOLEAN
  BY Typed, Fields
<1>2. d \in {"STOPPED", "STARTED"} /\ t \in BOOLEAN
  BY <1>1, Fields
<1>3. p \in SUBSET PropFlags
  <2>1. /\ svc[s].prop \in SUBSET PropFlags
        /\ svc[s].prop \cup {"release"} \in SUBSET PropFlags
        /\ svc[s].prop \ {"release"} \in SUBSET PropFlags
    BY <1>1, FlagSets DEF PropFlags
  <2> HIDE DEF acts, n, releases
  <2> QED BY <2>1, Zenon
<1>4. SetRecord(s, r)
  BY Zenon DEF Stop
<1>5. r \in With(n, FALSE)
  <2> HIDE DEF n, d, p, t
  <2> QED BY <1>1, <1>2, <1>3, Zenon DEF With, SvcType
<1>6. DepsOK' /\ SameHeld
  BY DepUnchanged DEF Stop
<1>7. QueuesOK'
  BY QueueTypes DEF Stop, TypeOK, QueuesOK, console, globals
<1> HIDE DEF r
<1>8. CASE svc[s].start_explicit
  <2>1. n = svc[s].required_by - 1
    BY <1>8
  <2>2. RecordsOK' /\ Acq!UnmarkActive(s)
    BY <1>4, <1>5, <1>6, <1>8, <2>1, UnmarkStep
  <2> QED BY <1>6, <1>7, <2>2, CountStep DEF Acq!Next
<1>9. CASE ~svc[s].start_explicit
  <2>1. n = svc[s].required_by
    BY <1>1, <1>9, Fields
  <2>2. r \in Kept(svc[s])
    BY <1>1, <1>5, <1>9, <2>1 DEF Kept, With
  <2> QED BY <1>4, <1>6, <1>7, <2>2, KeptRecord, KeptStep
<1> QED BY <1>8, <1>9

\* require() and the re-attaching loop of do_start() acquire over a link.
LEMMA AcquiringSteps ==
    ASSUME TypeOK, NEW l \in Links, Require(l) \/ Reattach(l)
    PROVE  GoodStep
<1>0. /\ l.to \in Services /\ svc[l.to] \in SvcType
      /\ svc[l.to].required_by + 1 \in Int
  BY Typed, Fields
<1>1. CASE Require(l)
  <2> DEFINE wake == Wakes(svc[l.to])
             p == IF wake THEN svc[l.to].prop \cup {"start"} ELSE svc[l.to].prop
             r == [svc[l.to] EXCEPT !.required_by = @ + 1, !.prop = p]
  <2>1. p \in SUBSET PropFlags
    BY <1>0, FlagSets DEF PropFlags
  <2>2. SetRecord(l.to, r)
    BY <1>1, Zenon DEF Require
  <2>3. r \in With(svc[l.to].required_by + 1, svc[l.to].start_explicit)
    <3> HIDE DEF p
    <3> QED BY <1>0, <2>1, Zenon DEF With, SvcType
  <2>4. dep' = [dep EXCEPT ![l].holding_acq = TRUE]
    BY <1>1 DEF Require
  <2>5. QueuesOK'
    BY <1>0, <1>1, QueueTypes DEF Require, TypeOK, QueuesOK, console, globals
  <2> HIDE DEF r
  <2>6. RecordsOK' /\ DepsOK' /\ Acq!Acquire(l)
    BY <2>2, <2>3, <2>4, AcquireStep
  <2> QED BY <2>5, <2>6, CountStep DEF Acq!Next
<1>2. CASE Reattach(l)
  <2> DEFINE r == [svc[l.to] EXCEPT !.required_by = @ + 1]
  <2>1. \/ UNCHANGED <<dep, svc>>
        \/ SetRecord(l.to, r) /\ dep' = [dep EXCEPT ![l].holding_acq = TRUE]
    BY <1>2, Zenon DEF Reattach
  <2>2. r \in With(svc[l.to].required_by + 1, svc[l.to].start_explicit)
    BY <1>0, Zenon DEF With, SvcType
  <2>3. QueuesOK'
    BY <1>2 DEF Reattach, TypeOK, QueuesOK, queues, console, globals
  <2> HIDE DEF r
  <2>4. CASE UNCHANGED <<dep, svc>>
    BY <2>3, <2>4, SvcUnchanged, DepUnchanged, KeptStep
  <2>5. CASE SetRecord(l.to, r) /\ dep' = [dep EXCEPT ![l].holding_acq = TRUE]
    <3>1. RecordsOK' /\ DepsOK' /\ Acq!Acquire(l)
      BY <2>2, <2>5, AcquireStep
    <3> QED BY <2>3, <3>1, CountStep DEF Acq!Next
  <2> QED BY <2>1, <2>4, <2>5
<1> QED BY <1>1, <1>2

\* What is left of link l's acquisition: none, and the other links keep theirs.
Dropped(l) ==
    /\ DepsOK' /\ ~dep'[l].holding_acq
    /\ \A m \in Links \ {l} : dep'[m].holding_acq = dep[m].holding_acq

\* The ways in which the code resets the flags of a link.
LEMMA DroppedLink ==
    ASSUME TypeOK, NEW l \in Links,
           \/ dep' = [dep EXCEPT ![l].holding_acq = FALSE]
           \/ dep' = [dep EXCEPT ![l] = NewLink]
           \/ \E w \in BOOLEAN :
                 dep' = [dep EXCEPT ![l] = [waiting_on |-> w, holding_acq |-> FALSE]]
    PROVE  Dropped(l)
<1> USE DEF Dropped, DepsOK, TypeOK, DepType
<1>1. CASE dep' = [dep EXCEPT ![l].holding_acq = FALSE]
  BY <1>1
<1>2. ASSUME NEW w \in BOOLEAN,
             dep' = [dep EXCEPT ![l] = [waiting_on |-> w, holding_acq |-> FALSE]]
      PROVE  Dropped(l)
  BY <1>2
<1> QED BY <1>1, <1>2 DEF NewLink

\* A link that gives up what it holds, if it holds, makes a good step.
LEMMA DropStep ==
    ASSUME TypeOK, NEW l \in Links, RecordsOK', QueuesOK', Dropped(l),
           \A t \in Services \ {l.to} : svc'[t] \in Kept(svc[t]),
           dep[l].holding_acq =>
               svc'[l.to] \in With(svc[l.to].required_by - 1, svc[l.to].start_explicit),
           ~dep[l].holding_acq => svc'[l.to] \in Kept(svc[l.to])
    PROVE  GoodStep
<1>0. l.to \in Services /\ dep[l].holding_acq \in BOOLEAN
  BY Typed DEF DepType
<1>1. CASE dep[l].holding_acq
  <2>1. Acq!GiveUp(l)
    BY <1>1, GiveUpStep DEF Dropped
  <2> QED BY <2>1, CountStep DEF Acq!Next, Dropped
<1>2. CASE ~dep[l].holding_acq
  <2>1. SameCounts
    BY <1>2 DEF SameCounts, Kept, With
  <2>2. dep'[l].holding_acq \in BOOLEAN
    BY DEF Dropped, DepsOK, DepType
  <2>3. dep'[l].holding_acq = dep[l].holding_acq
    BY <1>0, <1>2, <2>2, Zenon DEF Dropped
  <2>4. SameHeld
    BY <2>3 DEF SameHeld, Dropped
  <2> QED BY <2>1, <2>4, KeptStep DEF Dropped
<1> QED BY <1>0, <1>1, <1>2

\* The same when the dependency's record is the only one that changes.
LEMMA DropRecordStep ==
    ASSUME TypeOK, NEW l \in Links, NEW r, SetRecord(l.to, r), QueuesOK', Dropped(l),
           dep[l].holding_acq =>
               r \in With(svc[l.to].required_by - 1, svc[l.to].start_explicit),
           ~dep[l].holding_acq => r \in Kept(svc[l.to])
    PROVE  GoodStep
<1>1. l.to \in Services /\ dep[l].holding_acq \in BOOLEAN
  BY Typed DEF DepType
<1>2. r \in SvcType
  BY <1>1 DEF Kept, With
<1>3. RecordsOK' /\ svc'[l.to] = r /\ \A t \in Services \ {l.to} : svc'[t] = svc[t]
  BY <1>1, <1>2 DEF SetRecord, TypeOK, RecordsOK
<1>4. \A t \in Services \ {l.to} : svc'[t] \in Kept(svc[t])
  BY <1>3, Typed DEF Kept, With
<1> QED BY <1>3, <1>4, DropStep

\* The record of a dependency after `if (dep.holding_acq) dep_to->release()'.
LEMMA GivenUpWith ==
    ASSUME TypeOK, NEW l \in Links
    PROVE  /\ dep[l].holding_acq =>
                  GivenUp(l) \in With(svc[l.to].required_by - 1, svc[l.to].start_explicit)
           /\ ~dep[l].holding_acq => GivenUp(l) \in Kept(svc[l.to])
<1> DEFINE q == Released(svc[l.to])
           t == IF ReleaseStops(svc[l.to]) THEN FALSE ELSE q.terminated
           r == [q EXCEPT !.terminated = t]
<1>1. svc[l.to] \in SvcType
  BY Typed
<1>2. q \in With(svc[l.to].required_by - 1, svc[l.to].start_explicit) /\ q \in SvcType
  BY <1>1, ReleasedWith DEF With
<1>3. t \in BOOLEAN
  <2> HIDE DEF q
  <2> QED BY <1>2, Fields
<1>4. dep[l].holding_acq => GivenUp(l) = r
  BY Zenon DEF GivenUp
<1>5. r \in With(svc[l.to].required_by - 1, svc[l.to].start_explicit)
  <2> HIDE DEF q, t
  <2>1. r \in SvcType /\ r.required_by = q.required_by /\ r.start_explicit = q.start_explicit
    BY <1>2, <1>3, Zenon DEF SvcType
  <2> HIDE DEF r
  <2> QED BY <1>2, <2>1 DEF With
<1>6. ~dep[l].holding_acq => GivenUp(l) = svc[l.to]
  BY DEF GivenUp
<1> HIDE DEF r
<1> QED BY <1>1, <1>4, <1>5, <1>6 DEF Kept, With

\* release_dependencies() and rm_dep() give up what the link holds.
LEMMA GivingUpSteps ==
    ASSUME TypeOK, NEW l \in Links, ReleaseDependency(l) \/ RmServiceDep(l)
    PROVE  GoodStep
<1>0. l.to \in Services
  BY Typed
<1>1. SetRecord(l.to, GivenUp(l)) /\ GiveUpQueues(l)
  BY DEF ReleaseDependency, RmServiceDep
<1>2. Dropped(l)
  BY DroppedLink DEF ReleaseDependency, RmServiceDep
<1>3. prop_queue' \in Seq(Services)
  BY <1>0, <1>1, QueueTypes DEF GiveUpQueues, TypeOK
<1>4. links' \in Seq(Links)
  BY RemoveFirstType DEF ReleaseDependency, RmServiceDep, TypeOK, globals
<1>5. QueuesOK'
  BY <1>3, <1>4 DEF ReleaseDependency, RmServiceDep, TypeOK, QueuesOK, console, globals
<1> QED BY <1>1, <1>2, <1>5, GivenUpWith, DropRecordStep

\* stopped() and stop_dependents() break a soft dependency.
LEMMA BreakSoftStep ==
    ASSUME TypeOK, NEW l \in Links, BreakSoft(l)
    PROVE  GoodStep
<1> DEFINE r == IF dep[l].holding_acq THEN Released(svc[l.to]) ELSE svc[l.to]
<1>0. l.to \in Services /\ l.from \in Services /\ svc[l.to] \in SvcType
  BY Typed
<1>1. CASE IsHard(l)
  <2>1. UNCHANGED <<svc, dep, queues>>
    BY <1>1 DEF BreakSoft
  <2>2. QueuesOK'
    BY <2>1 DEF BreakSoft, TypeOK, QueuesOK, queues, console, globals
  <2> QED BY <2>1, <2>2, SvcUnchanged, DepUnchanged, KeptStep
<1>2. CASE ~IsHard(l)
  <2>1. SetRecord(l.to, r) /\ dep' = [dep EXCEPT ![l] = NewLink]
    BY <1>2 DEF BreakSoft
  <2>2. prop_queue' \in Seq(Services)
    BY <1>0, <1>2, QueueTypes DEF BreakSoft, TypeOK
  <2>3. stop_queue' \in Seq(Services)
    BY <1>0, <1>2, DependencyStartedType DEF BreakSoft, TypeOK
  <2>4. QueuesOK'
    BY <2>2, <2>3 DEF BreakSoft, TypeOK, QueuesOK, console, globals
  <2>5. /\ dep[l].holding_acq =>
               r \in With(svc[l.to].required_by - 1, svc[l.to].start_explicit)
        /\ ~dep[l].holding_acq => r \in Kept(svc[l.to])
    BY <1>0, ReleasedWith DEF Kept, With
  <2>6. Dropped(l)
    BY <2>1, DroppedLink
  <2> HIDE DEF r
  <2> QED BY <2>1, <2>4, <2>5, <2>6, DropRecordStep
<1> QED BY <1>1, <1>2

\* failed_to_start() marks a dependent and gives up what its link holds.
LEMMA FailDependentStep ==
    ASSUME TypeOK, NEW l \in Links, FailDependent(l)
    PROVE  GoodStep
<1> DEFINE strict == l.type \in {"REGULAR", "MILESTONE"}
           fails == strict /\ svc[l.from].state = "STARTING"
           holds == dep[l].holding_acq
           q == IF fails THEN Enqueue(prop_queue, l.from) ELSE prop_queue
           p == IF fails THEN svc[l.from].prop \cup {"failure"} ELSE svc[l.from].prop
           failed == [svc[l.from] EXCEPT !.prop = p]
           freed == IF holds THEN Released(svc[l.to]) ELSE svc[l.to]
           w == IF strict THEN dep[l].waiting_on ELSE FALSE
<1>0. /\ l.to \in Services /\ l.from \in Services /\ l.from # l.to
      /\ svc[l.to] \in SvcType /\ svc[l.from] \in SvcType
      /\ holds \in BOOLEAN /\ w \in BOOLEAN
  BY Typed DEF DepType
<1>1. svc' = [svc EXCEPT ![l.from] = failed, ![l.to] = freed]
  BY Zenon DEF FailDependent
<1>2. dep' = [dep EXCEPT ![l] = [waiting_on |-> w, holding_acq |-> FALSE]]
  BY Zenon DEF FailDependent
<1>3. prop_queue' \in Seq(Services)
  <2>1. prop_queue \in Seq(Services)
    BY DEF TypeOK
  <2>2. q \in Seq(Services) /\ Enqueue(q, l.to) \in Seq(Services)
    BY <1>0, <2>1, EnqueueType
  <2>3. prop_queue' = q \/ prop_queue' = Enqueue(q, l.to)
    BY DEF FailDependent
  <2> QED BY <2>2, <2>3
<1>4. stop_queue' \in Seq(Services)
  BY <1>0, DependencyStartedType DEF FailDependent, TypeOK
<1>5. QueuesOK'
  BY <1>3, <1>4 DEF FailDependent, TypeOK, QueuesOK, console, globals
<1>6. Dropped(l)
  <2> HIDE DEF w
  <2> QED BY <1>0, <1>2, DroppedLink
<1>7. failed \in Kept(svc[l.from])
  <2>1. p \in SUBSET PropFlags
    BY <1>0, FlagSets DEF PropFlags
  <2> HIDE DEF p
  <2> QED BY <1>0, <2>1, Zenon DEF Kept, With, SvcType
<1>8. /\ holds => freed \in With(svc[l.to].required_by - 1, svc[l.to].start_explicit)
      /\ ~holds => freed \in Kept(svc[l.to])
  BY <1>0, ReleasedWith DEF Kept, With
<1> HIDE DEF failed, freed
<1>9. failed \in SvcType /\ freed \in SvcType
  BY <1>0, <1>7, <1>8 DEF Kept, With
<1>10. /\ RecordsOK' /\ svc'[l.from] = failed /\ svc'[l.to] = freed
       /\ \A t \in Services \ {l.from, l.to} : svc'[t] = svc[t]
  BY <1>0, <1>1, <1>9 DEF TypeOK, RecordsOK
<1>11. \A t \in Services \ {l.to} : svc'[t] \in Kept(svc[t])
  BY <1>7, <1>10, Typed DEF Kept, With
<1> QED BY <1>5, <1>6, <1>8, <1>10, <1>11, DropStep

(***************************************************************************)
(* stop_dependents() may force a dependent to stop, cancel its start or    *)
(* mark it for a restart; only the second counts.                          *)
(***************************************************************************)
LEMMA StopDependentStep ==
    ASSUME TypeOK, NEW l \in Links, NEW k, NEW fr, NEW rd, NEW all,
           StopDependent(l, k, fr, rd, all)
    PROVE  GoodStep
<1> DEFINE s == l.to
           f == l.from
           stopping == [svc[f] EXCEPT !.desired = "STOPPED", !.terminated = FALSE]
           forced == IF ~svc[s].force_stop THEN svc[f]
                     ELSE IF svc[s].desired = "STOPPED"
                     THEN ForcedStop(stopping)
                     ELSE ForcedStop(svc[f])
           fq == IF svc[s].force_stop /\ ForcedStopQueues(svc[f])
                 THEN Enqueue(prop_queue, f) ELSE prop_queue
           cancels == /\ forced.state # "STOPPED" /\ svc[s].desired = "STOPPED"
                      /\ forced.desired # "STOPPED"
           restarts == /\ forced.state \notin {"STOPPED", "STOPPING"}
                       /\ svc[s].desired # "STOPPED" /\ rd
           cancelled == [forced EXCEPT !.desired = "STOPPED"]
           deactivates == cancels /\ forced.start_explicit
           stops == deactivates /\ ReleaseStops(forced)
           t == IF stops THEN FALSE ELSE Deactivated(cancelled).terminated
           c == [Deactivated(cancelled) EXCEPT !.terminated = t]
           u == [forced EXCEPT !.terminated = FALSE, !.in_user_restart = TRUE]
           r == CASE cancels -> c [] ~cancels /\ restarts -> u [] OTHER -> forced
<1>0. f \in Services /\ s \in Services /\ svc[f] \in SvcType
  BY Typed
<1>1. forced \in Kept(svc[f]) /\ forced \in SvcType
  <2>1. stopping \in Kept(svc[f])
    BY <1>0, Zenon DEF Kept, With, SvcType
  <2>2. svc[f] \in Kept(svc[f]) /\ ForcedStop(svc[f]) \in Kept(svc[f])
    BY <1>0, ForcedStopKept DEF Kept, With
  <2> HIDE DEF stopping, s, f
  <2>3. ForcedStop(stopping) \in Kept(svc[f])
    BY <2>1, ForcedStopKept DEF Kept, With
  <2> QED BY <2>2, <2>3 DEF Kept, With
<1>2. DepsOK' /\ SameHeld
  BY DepUnchanged DEF StopDependent
<1>3. (UNCHANGED svc) \/ SetRecord(f, r)
  BY Zenon DEF StopDependent
<1>4. QueuesOK'
  <2>1. prop_queue' \in {prop_queue, fq, Enqueue(fq, f)}
    BY DEF StopDependent
  <2>2. prop_queue \in Seq(Services)
    BY DEF TypeOK
  <2>3. fq \in Seq(Services)
    BY <1>0, <2>2, EnqueueType
  <2>4. prop_queue' \in Seq(Services)
    <3> HIDE DEF fq, f
    <3> QED BY <1>0, <2>1, <2>2, <2>3, EnqueueType
  <2> QED BY <2>4 DEF StopDependent, TypeOK, QueuesOK, console, globals
<1>5. CASE UNCHANGED svc
  BY <1>2, <1>4, <1>5, SvcUnchanged, KeptStep
<1>6. CASE SetRecord(f, r) /\ cancels
  <2>1. cancelled \in Kept(svc[f]) /\ cancelled \in SvcType
    <3> HIDE DEF forced
    <3>1. cancelled \in Kept(forced)
      BY <1>1, Zenon DEF Kept, With, SvcType
    <3> HIDE DEF cancelled
    <3> QED BY <1>1, <3>1 DEF Kept, With
  <2>2. r = c
    BY <1>6, Zenon
  <2> HIDE DEF stops, cancelled
  <2>3. Deactivated(cancelled) \in SvcType
    <3>1. cancelled.start_explicit \in BOOLEAN
      BY <2>1, Fields
    <3> QED BY <2>1, <3>1, DeactivatedWith DEF With
  <2>4. c \in Kept(Deactivated(cancelled)) /\ c \in SvcType
    <3> DEFINE d == Deactivated(cancelled)
    <3> HIDE DEF d
    <3>1. d \in SvcType
      BY <2>3 DEF d
    <3>2. (IF stops THEN FALSE ELSE d.terminated) \in BOOLEAN
      BY <3>1, Fields
    <3>3. [d EXCEPT !.terminated = IF stops THEN FALSE ELSE d.terminated] \in Kept(d)
      BY <3>1, <3>2, Zenon DEF Kept, With, SvcType
    <3>4. c \in Kept(d)
      BY <3>3, Zenon DEF d
    <3> HIDE DEF c
    <3> QED BY <3>4 DEF d, Kept, With
  <2> HIDE DEF c, f, r
  <2> QED BY <1>0, <1>2, <1>4, <1>6, <2>1, <2>2, <2>4, DeactivateStep
<1>7. CASE SetRecord(f, r) /\ ~cancels
  <2>1. u \in Kept(svc[f])
    <3> HIDE DEF forced
    <3>1. u \in Kept(forced)
      BY <1>1, Zenon DEF Kept, With, SvcType
    <3> HIDE DEF u
    <3> QED BY <1>1, <3>1 DEF Kept, With
  <2>2. r = u \/ r = forced
    <3> HIDE DEF cancels, restarts, u, forced
    <3> QED BY <1>7, Zenon
  <2> HIDE DEF u, forced, f, r
  <2> QED BY <1>0, <1>1, <1>2, <1>4, <1>7, <2>1, <2>2, KeptRecord, KeptStep
<1> QED BY <1>3, <1>5, <1>6, <1>7

----------------------------------------------------------------------------
(* The whole system *)

\* Every step of every handler keeps the type and is a step of Acquisition.
LEMMA NextStep ==
    ASSUME TypeOK, [Next]_vars
    PROVE  GoodStep
<1>1. CASE UNCHANGED vars
  <2>1. QueuesOK'
    BY <1>1 DEF vars, TypeOK, QueuesOK, queues, console, globals
  <2> QED BY <1>1, <2>1, SvcUnchanged, DepUnchanged, KeptStep DEF vars
<1>2. CASE ServiceCall
  <2>1. ASSUME NEW s \in Services,
               \/ Start(s) \/ DoStart(s) \/ Activate(s) \/ InitiateStart(s)
               \/ QueueForConsole(s) \/ AllDepsStarted(s) \/ BringUp(s)
               \/ ReleaseConsole(s) \/ Started(s) \/ Stopped(s)
               \/ ForceStop(s) \/ CheckRestart(s) \/ PropStop(s) \/ BringDown(s)
               \/ DependenciesReleased(s) \/ ExecuteTransition(s)
               \/ PinStart(s) \/ PinStop(s) \/ Unpin(s)
               \/ UnpinStarted(s) \/ UnpinStopped(s)
        PROVE  GoodStep
    BY <2>1, StartStep, StartingSteps, InitiateStartStep, QueueForConsoleStep, PureSteps,
       StoppingSteps, ForceStopStep, PinSteps, UnpinStartedStep, Zenon
  <2>2. ASSUME NEW s \in Services, NEW b \in BOOLEAN,
               \/ FailedToStart(s, b) \/ StartFailed(s, b) \/ NowStopped(s, b)
               \/ Chain(s, b) \/ Stop(s, b) \/ DoStop(s, b)
               \/ InterruptStart(s, b) \/ EnterStopping(s, b)
        PROVE  GoodStep
    BY <2>2, DeactivatingSteps, FlagSteps, PureFlagSteps, StopStep, DoStopStep,
       EnterStoppingStep, Zenon
  <2>3. ASSUME NEW s \in Services, NEW fr \in BOOLEAN, NEW rd \in BOOLEAN, NEW all, NEW k,
               DoStopFor(s, fr, rd) \/ DependentsTold(s, k, fr, rd, all)
        PROVE  GoodStep
    BY <2>3, DeactivatingSteps, DependentsToldStep, Zenon
  <2>4. ASSUME NEW s \in Services, NEW k \in 1 .. 6,
               \/ PropagationDone(s, k) \/ PropagateRequire(s, k)
               \/ PropagateRelease(s, k) \/ PropagateFailure(s, k)
               \/ PropagateStart(s, k) \/ PropagateStop(s, k) \/ PropagatePin(s, k)
        PROVE  GoodStep
    BY <2>4, PropagationSteps, PropagatePinStep, Zenon
  <2> QED BY <1>2, <2>1, <2>2, <2>3, <2>4 DEF ServiceCall
<1>3. CASE LinkCall
  <2> SUFFICES ASSUME NEW l \in Links, NEW pin \in BOOLEAN, NEW fr, NEW rd, NEW all, NEW k,
                      \/ Require(l) \/ Reattach(l) \/ NotifyStarted(l) \/ FailDependent(l)
                      \/ BreakSoft(l) \/ DependentStopped(l) \/ ReleaseDependency(l)
                      \/ StartDep(l) \/ PinDependency(l, pin)
                      \/ StopDependent(l, k, fr, rd, all)
               PROVE  GoodStep
    BY <1>3, Zenon DEF LinkCall
  <2> QED
    BY AcquiringSteps, NotifySteps, FailDependentStep, BreakSoftStep, GivingUpSteps,
       StopDependentStep, Zenon
<1>4. CASE ControlOrder
  <2>1. ASSUME NEW s \in Services, NEW b \in BOOLEAN,
               \/ StartService(s) \/ StopService(s) \/ RestartService(s)
               \/ WakeService(s) \/ ReleaseService(s) \/ UnpinService(s)
               \/ SetTrigger(s, b)
        PROVE  GoodStep
    BY <2>1, PureSteps, StoppingSteps, FlagSteps, Zenon
  <2>2. ASSUME NEW l \in Links, NEW b \in BOOLEAN, RmServiceDep(l) \/ AddServiceDep(l, b)
        PROVE  GoodStep
    BY <2>2, GivingUpSteps, AddServiceDepStep, Zenon
  <2>3. CASE StopAllServices
    BY <2>3, QueueSteps
  <2> QED BY <1>4, <2>1, <2>2, <2>3, TRUE \in BOOLEAN, Zenon DEF ControlOrder
<1>5. CASE PullConsoleQueue \/ ProcessQueues \/ LogReleasesConsole
  BY <1>5, PullConsoleQueueStep, QueueSteps
<1> QED BY <1>1, <1>2, <1>3, <1>4, <1>5 DEF Next, CallStep

\* The initial state has its type and is an initial state of Acquisition.
LEMMA InitOK ==
    ASSUME Init
    PROVE  TypeOK /\ Acq!Init
<1>1. NewRecord \in SvcType
  <2>1. {} \in SUBSET PropFlags /\ 0 \in Int
    OBVIOUS
  <2> QED BY <2>1, Zenon DEF NewRecord, SvcType, ExitStatuses
<1>2. TypeOK
  BY <1>1, ConfigAssumption DEF Init, TypeOK, DepType, NewLink
<1>3. [s \in Services |-> svc[s].required_by] = [s \in Services |-> 0]
  BY DEF Init, NewRecord
<1>4. {s \in Services : svc[s].start_explicit} = {}
  BY Zenon DEF Init, NewRecord
<1>5. {l \in Links : dep[l].holding_acq} = {}
  BY DEF Init, NewLink
<1> QED BY <1>2, <1>3, <1>4, <1>5 DEF Acq!Init

(***************************************************************************)
(* The type invariant: whatever the services, their dependencies and the   *)
(* orders given, every flag, count and queue of the service set has its    *)
(* type.                                                                   *)
(***************************************************************************)
THEOREM TypeCorrect == Spec => []TypeOK
<1>1. Init => TypeOK
  BY InitOK
<1>2. TypeOK /\ [Next]_vars => TypeOK'
  BY NextStep DEF GoodStep
<1> QED BY <1>1, <1>2, PTL DEF Spec

(***************************************************************************)
(* The service graph implements Acquisition: start(), require(),           *)
(* release(), stop() and every path that runs through them change a count  *)
(* only together with the flag on whose behalf it is counted.              *)
(***************************************************************************)
THEOREM AcquisitionRefined == Spec => ImplementsAcquisition
<1>1. Init => Acq!Init
  BY InitOK
<1>2. TypeOK /\ [Next]_vars => [Acq!Next]_(Acq!vars)
  BY NextStep DEF GoodStep
<1>3. Spec => []TypeOK
  BY TypeCorrect
<1> QED BY <1>1, <1>2, <1>3, PTL DEF Spec, ImplementsAcquisition, Acq!Spec

\* Acquiring, giving up, marking and unmarking keep the count large enough.
LEMMA BoundStep ==
    ASSUME TypeOK, TypeOK', AcquisitionBound, Acq!Next \/ UNCHANGED Acq!vars
    PROVE  AcquisitionBound'
<1> SUFFICES ASSUME NEW s \in Services
             PROVE  svc'[s].required_by >= Activation(s)' + Cardinality(Acquirers(s)')
  BY DEF AcquisitionBound
<1> DEFINE held == {m \in Links : dep[m].holding_acq}
           active == {t \in Services : svc[t].start_explicit}
           count == [t \in Services |-> svc[t].required_by]
<1>1. /\ Acquirers(s) = {m \in held : m.to = s}
      /\ Acquirers(s)' = {m \in held' : m.to = s}
  BY Zenon DEF Acquirers
<1>2. /\ Activation(s) = IF s \in active THEN 1 ELSE 0
      /\ Activation(s)' = IF s \in active' THEN 1 ELSE 0
  BY Zenon DEF Activation
<1>3. /\ count[s] = svc[s].required_by /\ count'[s] = svc'[s].required_by
      /\ svc[s].required_by \in Int /\ svc'[s].required_by \in Int
  BY Fields DEF TypeOK
<1>4. /\ IsFiniteSet(Acquirers(s)) /\ IsFiniteSet(Acquirers(s)')
      /\ Cardinality(Acquirers(s)) \in Nat /\ Cardinality(Acquirers(s)') \in Nat
  BY LinksAssumption, FS_Subset, FS_CardinalityType DEF Acquirers
<1>5. svc[s].required_by >= Activation(s) + Cardinality(Acquirers(s))
  BY DEF AcquisitionBound
<1>6. ASSUME NEW l \in Links, Acq!Acquire(l)
      PROVE  svc'[s].required_by >= Activation(s)' + Cardinality(Acquirers(s)')
  <2>1. /\ count' = [count EXCEPT ![l.to] = @ + 1]
        /\ held' = held \cup {l} /\ active' = active
    BY <1>6 DEF Acq!Acquire
  <2>2. l.to \in Services
    BY Typed
  <2> HIDE DEF held, active, count
  <2>3. CASE l.to = s
    <3>1. Acquirers(s)' = Acquirers(s) \cup {l}
      BY <1>1, <2>1, <2>3
    <3>2. Cardinality(Acquirers(s)') <= Cardinality(Acquirers(s)) + 1
      BY <1>4, <3>1, FS_AddElement
    <3>3. count'[s] = count[s] + 1
      BY <2>1, <2>3 DEF count
    <3> QED BY <1>2, <1>3, <1>4, <1>5, <2>1, <3>2, <3>3
  <2>4. CASE l.to # s
    <3>1. Acquirers(s)' = Acquirers(s)
      BY <1>1, <2>1, <2>4
    <3>2. count'[s] = count[s]
      BY <2>1, <2>4 DEF count
    <3> QED BY <1>2, <1>3, <1>4, <1>5, <2>1, <3>1, <3>2
  <2> QED BY <2>3, <2>4
<1>7. ASSUME NEW l \in Links, Acq!GiveUp(l)
      PROVE  svc'[s].required_by >= Activation(s)' + Cardinality(Acquirers(s)')
  <2>1. /\ count' = [count EXCEPT ![l.to] = @ - 1]
        /\ l \in held /\ held' = held \ {l} /\ active' = active
    BY <1>7 DEF Acq!GiveUp
  <2>2. l.to \in Services
    BY Typed
  <2> HIDE DEF held, active, count
  <2>3. CASE l.to = s
    <3>1. l \in Acquirers(s) /\ Acquirers(s)' = Acquirers(s) \ {l}
      BY <1>1, <2>1, <2>3
    <3>2. Cardinality(Acquirers(s)') = Cardinality(Acquirers(s)) - 1
      BY <1>4, <3>1, FS_RemoveElement
    <3>3. count'[s] = count[s] - 1
      BY <2>1, <2>3 DEF count
    <3> QED BY <1>2, <1>3, <1>4, <1>5, <2>1, <3>2, <3>3
  <2>4. CASE l.to # s
    <3>1. Acquirers(s)' = Acquirers(s)
      BY <1>1, <2>1, <2>4
    <3>2. count'[s] = count[s]
      BY <2>1, <2>4 DEF count
    <3> QED BY <1>2, <1>3, <1>4, <1>5, <2>1, <3>1, <3>2
  <2> QED BY <2>3, <2>4
<1>8. ASSUME NEW t \in Services, Acq!MarkActive(t) \/ Acq!UnmarkActive(t)
      PROVE  svc'[s].required_by >= Activation(s)' + Cardinality(Acquirers(s)')
  <2>1. /\ held' = held
        /\ \/ /\ t \notin active /\ count' = [count EXCEPT ![t] = @ + 1]
              /\ active' = active \cup {t}
           \/ /\ t \in active /\ count' = [count EXCEPT ![t] = @ - 1]
              /\ active' = active \ {t}
    BY <1>8 DEF Acq!MarkActive, Acq!UnmarkActive
  <2>2. DOMAIN count = Services
    OBVIOUS
  <2> HIDE DEF held, active, count
  <2>3. Acquirers(s)' = Acquirers(s)
    BY <1>1, <2>1
  <2>4. count'[s] - Activation(s)' = count[s] - Activation(s)
    <3>1. CASE s # t
      <4>1. count'[s] = count[s]
        BY <2>1, <2>2, <3>1
      <4> QED BY <1>2, <2>1, <3>1, <4>1
    <3>2. CASE s = t /\ t \notin active
      <4>1. count'[s] = count[s] + 1
        BY <2>1, <2>2, <3>2
      <4>2. Activation(s)' = 1 /\ Activation(s) = 0
        BY <1>2, <2>1, <3>2
      <4> QED BY <1>3, <4>1, <4>2
    <3>3. CASE s = t /\ t \in active
      <4>1. count'[s] = count[s] - 1
        BY <2>1, <2>2, <3>3
      <4>2. Activation(s)' = 0 /\ Activation(s) = 1
        BY <1>2, <2>1, <3>3
      <4> QED BY <1>3, <4>1, <4>2
    <3> QED BY <3>1, <3>2, <3>3
  <2> QED BY <1>2, <1>3, <1>4, <1>5, <2>3, <2>4
<1>9. CASE UNCHANGED Acq!vars
  <2>1. count' = count /\ held' = held /\ active' = active
    BY <1>9 DEF Acq!vars
  <2> HIDE DEF held, active, count
  <2> QED BY <1>1, <1>2, <1>3, <1>5, <2>1
<1> QED BY <1>6, <1>7, <1>8, <1>9 DEF Acq!Next

\* Nobody is required at the beginning.
LEMMA InitBound == Init => AcquisitionBound
<1> SUFFICES ASSUME Init, NEW s \in Services
             PROVE  svc[s].required_by >= Activation(s) + Cardinality(Acquirers(s))
  BY DEF AcquisitionBound
<1>1. Acquirers(s) = {}
  BY DEF Init, NewLink, Acquirers
<1>2. svc[s].required_by = 0 /\ Activation(s) = 0
  BY DEF Init, NewRecord, Activation
<1> QED BY <1>1, <1>2, FS_EmptySet

(***************************************************************************)
(* required_by is never below the explicit activation plus the links that  *)
(* hold an acquisition, so no order of events, pins included, lets         *)
(* release() count a dependency down to zero under a dependent that holds  *)
(* it.                                                                     *)
(***************************************************************************)
THEOREM BoundHolds == Spec => []AcquisitionBound
<1>1. Init => AcquisitionBound
  BY InitBound
<1>2. TypeOK /\ TypeOK' /\ AcquisitionBound /\ [Next]_vars => AcquisitionBound'
  BY NextStep, BoundStep DEF GoodStep
<1> QED BY <1>1, <1>2, TypeCorrect, PTL DEF Spec
=============================================================================
