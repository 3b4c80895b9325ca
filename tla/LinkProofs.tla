----------------------------- MODULE LinkProofs -----------------------------
(***************************************************************************)
(* The dependency graph of Service has no cycle, whatever dependencies     *)
(* clients add and remove and in whatever state the services are.          *)
(***************************************************************************)
EXTENDS ServiceProofs

----------------------------------------------------------------------------
(* Sets of links *)

\* What the check of add_service_dep() visits: the dependency itself and, with
\* a service, all that it depends on.
LEMMA ReachableClosed ==
    ASSUME NEW s \in Services, \A l \in LinkSet : l.to \in Services
    PROVE  s \in Reachable(s) /\ \A l \in LinkSet : l.from \in Reachable(s) => l.to \in Reachable(s)
BY DEF Reachable

\* A link of which no chain of dependencies leads back closes no cycle: a cycle
\* through it would go on from its end over links that were there before.
LEMMA AddLinkAcyclic ==
    ASSUME NEW ls, NEW l, NEW R, Acyclic(ls), l.to \in R, l.from \notin R,
           \A m \in ls : m.from \in R => m.to \in R
    PROVE  Acyclic(ls \cup {l})
<1> SUFFICES ASSUME NEW S \in SUBSET (ls \cup {l}), S # {}, \A k \in S : \E m \in S : m.from = k.to
             PROVE  FALSE
  BY DEF Acyclic
<1>1. CASE l \notin S
  BY <1>1 DEF Acyclic
<1>2. CASE l \in S
  <2> DEFINE T == {m \in S : m.from \in R}
  <2>1. T \in SUBSET ls
    OBVIOUS
  <2>2. T # {}
    BY <1>2
  <2>3. \A k \in T : \E m \in T : m.from = k.to
    BY <2>1
  <2> HIDE DEF T
  <2> QED BY <2>1, <2>2, <2>3 DEF Acyclic
<1> QED BY <1>1, <1>2

\* Fewer links make no cycle.
LEMMA FewerLinksAcyclic ==
    ASSUME NEW ls, NEW ms \in SUBSET ls, Acyclic(ls)
    PROVE  Acyclic(ms)
BY DEF Acyclic

\* Unlinking leaves links that were there.
LEMMA RemoveFirstRange ==
    ASSUME NEW S, NEW q \in Seq(S), NEW e
    PROVE  \A i \in DOMAIN RemoveFirst(q, e) : \E j \in DOMAIN q : RemoveFirst(q, e)[i] = q[j]
<1> DEFINE R == {q[j] : j \in DOMAIN q}
<1>1. q \in Seq(R)
  OBVIOUS
<1>2. RemoveFirst(q, e) \in Seq(R)
  <2> HIDE DEF R
  <2> QED BY <1>1, RemoveFirstType
<1>3. \A i \in DOMAIN RemoveFirst(q, e) : RemoveFirst(q, e)[i] \in R
  <2> HIDE DEF R
  <2> QED BY <1>2
<1> QED BY <1>3

----------------------------------------------------------------------------
(* Steps that leave the links alone *)

LEMMA ServiceCallLinks ==
    ASSUME NEW s \in Services,
           \/ Start(s) \/ DoStart(s) \/ Activate(s) \/ InitiateStart(s)
           \/ QueueForConsole(s) \/ AllDepsStarted(s) \/ BringUp(s)
           \/ ReleaseConsole(s) \/ Started(s) \/ Stopped(s)
           \/ ForceStop(s) \/ CheckRestart(s) \/ PropStop(s) \/ BringDown(s)
           \/ DependenciesReleased(s) \/ ExecuteTransition(s)
           \/ PinStart(s) \/ PinStop(s) \/ Unpin(s) \/ UnpinStarted(s) \/ UnpinStopped(s)
    PROVE  links' = links
BY Zenon DEF Start, DoStart, Activate, InitiateStart, QueueForConsole, AllDepsStarted, BringUp, ReleaseConsole, Started,
             Stopped, ForceStop, CheckRestart, PropStop, BringDown, DependenciesReleased, ExecuteTransition, PinStart,
             PinStop, Unpin, UnpinStarted, UnpinStopped, globals

LEMMA FlagCallLinks ==
    ASSUME NEW s \in Services, NEW b, NEW fr, NEW rd, NEW all, NEW k,
           \/ FailedToStart(s, b) \/ StartFailed(s, b) \/ NowStopped(s, b)
           \/ Chain(s, b) \/ Stop(s, b) \/ DoStop(s, b)
           \/ InterruptStart(s, b) \/ EnterStopping(s, b)
           \/ DoStopFor(s, fr, rd) \/ DependentsTold(s, k, fr, rd, all)
           \/ PropagationDone(s, k) \/ PropagateRequire(s, k)
           \/ PropagateRelease(s, k) \/ PropagateFailure(s, k)
           \/ PropagateStart(s, k) \/ PropagateStop(s, k) \/ PropagatePin(s, k)
    PROVE  links' = links
BY Zenon DEF FailedToStart, StartFailed, NowStopped, Chain, Stop, DoStop, InterruptStart, EnterStopping, DoStopFor,
             DependentsTold, PropagationDone, PropagateRequire, PropagateRelease, PropagateFailure, PropagateStart,
             PropagateStop, PropagatePin, globals

LEMMA LinkCallLinks ==
    ASSUME NEW l \in Links, NEW pin, NEW fr, NEW rd, NEW all, NEW k,
           \/ Require(l) \/ Reattach(l) \/ NotifyStarted(l) \/ FailDependent(l)
           \/ BreakSoft(l) \/ DependentStopped(l) \/ ReleaseDependency(l) \/ StartDep(l)
           \/ PinDependency(l, pin) \/ StopDependent(l, k, fr, rd, all)
    PROVE  links' = links
BY Zenon DEF Require, Reattach, NotifyStarted, FailDependent, BreakSoft, DependentStopped, ReleaseDependency, StartDep,
             PinDependency, StopDependent, globals

LEMMA OrderLinks ==
    ASSUME NEW s \in Services, NEW b,
           \/ StartService(s) \/ StopService(s) \/ RestartService(s)
           \/ WakeService(s) \/ ReleaseService(s) \/ UnpinService(s)
           \/ SetTrigger(s, b) \/ StopAllServices
           \/ PullConsoleQueue \/ ProcessQueues \/ LogReleasesConsole
    PROVE  links' = links
BY Zenon DEF StartService, StopService, RestartService, WakeService, ReleaseService, UnpinService, SetTrigger,
             StopAllServices, PullConsoleQueue, ProcessQueues, LogReleasesConsole, globals

\* A step adds a link that closes no cycle, takes one away, or neither.
LinkChange ==
    \/ links' = links
    \/ \E l \in Links : links' = RemoveFirst(links, l)
    \/ \E l \in Links : l.from \notin Reachable(l.to) /\ links' = Append(links, l)

LEMMA LinkStep ==
    ASSUME TypeOK, [Next]_vars
    PROVE  LinkChange
<1>1. CASE UNCHANGED vars
  BY <1>1 DEF vars, globals, LinkChange
<1>2. CASE ServiceCall
  <2> SUFFICES links' = links  BY DEF LinkChange
  <2> SUFFICES ASSUME NEW s \in Services, NEW b, NEW fr, NEW rd, NEW all, NEW k,
               \/ \/ Start(s) \/ DoStart(s) \/ Activate(s) \/ InitiateStart(s)
                  \/ QueueForConsole(s) \/ AllDepsStarted(s) \/ BringUp(s)
                  \/ ReleaseConsole(s) \/ Started(s) \/ Stopped(s)
                  \/ ForceStop(s) \/ CheckRestart(s) \/ PropStop(s) \/ BringDown(s)
                  \/ DependenciesReleased(s) \/ ExecuteTransition(s)
                  \/ PinStart(s) \/ PinStop(s) \/ Unpin(s) \/ UnpinStarted(s) \/ UnpinStopped(s)
               \/ \/ FailedToStart(s, b) \/ StartFailed(s, b) \/ NowStopped(s, b)
                  \/ Chain(s, b) \/ Stop(s, b) \/ DoStop(s, b)
                  \/ InterruptStart(s, b) \/ EnterStopping(s, b)
                  \/ DoStopFor(s, fr, rd) \/ DependentsTold(s, k, fr, rd, all)
                  \/ PropagationDone(s, k) \/ PropagateRequire(s, k)
                  \/ PropagateRelease(s, k) \/ PropagateFailure(s, k)
                  \/ PropagateStart(s, k) \/ PropagateStop(s, k) \/ PropagatePin(s, k)
               PROVE  links' = links
    BY <1>2, ZenonT(40) DEF ServiceCall
  <2> QED BY ServiceCallLinks, FlagCallLinks, ZenonT(40)
<1>3. CASE LinkCall
  <2> SUFFICES links' = links  BY DEF LinkChange
  <2> SUFFICES ASSUME NEW l \in Links, NEW pin, NEW fr, NEW rd, NEW all, NEW k,
                      \/ Require(l) \/ Reattach(l) \/ NotifyStarted(l) \/ FailDependent(l)
                      \/ BreakSoft(l) \/ DependentStopped(l) \/ ReleaseDependency(l) \/ StartDep(l)
                      \/ PinDependency(l, pin) \/ StopDependent(l, k, fr, rd, all)
               PROVE  links' = links
    BY <1>3, Zenon DEF LinkCall
  <2> QED BY LinkCallLinks, Zenon
<1>4. CASE ControlOrder
  <2>1. ASSUME NEW s \in Services, NEW b,
               \/ StartService(s) \/ StopService(s) \/ RestartService(s)
               \/ WakeService(s) \/ ReleaseService(s) \/ UnpinService(s)
               \/ SetTrigger(s, b)
        PROVE  LinkChange
    BY <2>1, OrderLinks, Zenon DEF LinkChange
  <2>2. ASSUME NEW l \in Links, RmServiceDep(l)
        PROVE  LinkChange
    BY <2>2 DEF RmServiceDep, LinkChange
  <2>3. ASSUME NEW l \in Links, NEW b \in BOOLEAN, AddServiceDep(l, b)
        PROVE  LinkChange
    BY <2>3 DEF AddServiceDep, LinkChange
  <2>4. ASSUME StopAllServices
        PROVE  LinkChange
    BY <2>4 DEF StopAllServices, LinkChange
  <2> QED BY <1>4, <2>1, <2>2, <2>3, <2>4, Zenon DEF ControlOrder
<1>5. CASE PullConsoleQueue \/ ProcessQueues \/ LogReleasesConsole
  BY <1>5, Zenon DEF PullConsoleQueue, ProcessQueues, LogReleasesConsole, globals, LinkChange
<1> QED BY <1>1, <1>2, <1>3, <1>4, <1>5 DEF Next, CallStep

\* Every step of the service set keeps the graph without a cycle.
LEMMA NoCycleStep ==
    ASSUME TypeOK, NoCycle, [Next]_vars
    PROVE  NoCycle'
<1>0. links \in Seq(Links)
  BY DEF TypeOK
<1>1. CASE links' = links
  BY <1>1 DEF NoCycle, LinkSet
<1>2. CASE \E l \in Links : links' = RemoveFirst(links, l)
  <2>1. LinkSet' \in SUBSET LinkSet
    BY <1>0, <1>2, RemoveFirstRange DEF LinkSet
  <2> QED BY <2>1, FewerLinksAcyclic DEF NoCycle
<1>3. CASE \E l \in Links : l.from \notin Reachable(l.to) /\ links' = Append(links, l)
  <2>1. PICK l \in Links : l.from \notin Reachable(l.to) /\ links' = Append(links, l)
    BY <1>3
  <2>2. l.to \in Services /\ \A m \in LinkSet : m.to \in Services
    BY <1>0, Typed DEF LinkSet
  <2>3. l.to \in Reachable(l.to) /\ \A m \in LinkSet : m.from \in Reachable(l.to) => m.to \in Reachable(l.to)
    BY <2>2, ReachableClosed
  <2>4. LinkSet' = LinkSet \cup {l}
    BY <1>0, <2>1 DEF LinkSet
  <2>5. Acyclic(LinkSet \cup {l})
    BY <2>1, <2>3, AddLinkAcyclic DEF NoCycle
  <2> QED BY <2>4, <2>5 DEF NoCycle
<1> QED BY <1>1, <1>2, <1>3, LinkStep DEF LinkChange

(***************************************************************************)
(* The dependencies never form a cycle: add_service_dep() refuses the link *)
(* that would close one, over however many services it goes, and           *)
(* rm_service_dep() opens none.                                            *)
(***************************************************************************)
THEOREM NoCycleHolds == Spec => []NoCycle
<1>1. Init => NoCycle
  BY LoadedAcyclic DEF Init, NoCycle, LinkSet
<1>2. TypeOK /\ NoCycle /\ [Next]_vars => NoCycle'
  BY NoCycleStep
<1> QED BY <1>1, <1>2, TypeCorrect, PTL DEF Spec
=============================================================================
