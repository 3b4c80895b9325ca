---------------------------- MODULE ProcProofs ----------------------------
(***************************************************************************)
(* What is proved of Service holds with the processes too: the steps of    *)
(* ProcService change one record at a time, and of it neither the count    *)
(* nor the activation nor the console, and they make no call of            *)
(* pull_console_queue().                                                   *)
(***************************************************************************)
EXTENDS ProcService, ConsoleProofs, LinkProofs

\* What a step of a process or of one of its watchers does to the rest.
Untouched(s, r) == r \in Kept(svc[s]) /\ r.have_console = svc[s].have_console
LocalStep ==
    /\ \E s \in Services : \E r : Untouched(s, r) /\ SetRecord(s, r)
    /\ QuietStep \/ QuietEvent
    /\ UNCHANGED <<dep, queues, console, globals>>

LEMMA LocalGood ==
    ASSUME TypeOK, LocalStep
    PROVE  GoodStep
<1>0. PICK s \in Services : \E r : Untouched(s, r) /\ SetRecord(s, r)
  BY DEF LocalStep
<1>1. PICK r : Untouched(s, r) /\ SetRecord(s, r)
  BY <1>0
<1>2. RecordsOK' /\ SameCounts
  BY <1>1, KeptRecord DEF Untouched
<1>3. DepsOK' /\ SameHeld
  BY DepUnchanged DEF LocalStep
<1>4. QueuesOK'
  BY DEF LocalStep, TypeOK, QueuesOK, queues, console, globals
<1> QED BY <1>2, <1>3, <1>4, KeptStep

LEMMA LocalConsole ==
    ASSUME TypeOK, ConsoleInv, LocalStep
    PROVE  ConsoleInv'
<1>0. PICK s \in Services : \E r : Untouched(s, r) /\ SetRecord(s, r)
  BY DEF LocalStep
<1>1. PICK r : Untouched(s, r) /\ SetRecord(s, r)
  BY <1>0
<1>2. SameOwner
  BY <1>1, SetOwner DEF Untouched
<1>3. SameConsole
  BY DEF LocalStep, console, SameConsole
<1> QED BY <1>2, <1>3, QuietHandlerInv DEF LocalStep, QuietHandler

LEMMA LocalLinks ==
    ASSUME NoCycle, LocalStep
    PROVE  NoCycle'
BY DEF LocalStep, globals, NoCycle, LinkSet

----------------------------------------------------------------------------
(* The steps *)

LEMMA ProcUpdates ==
    ASSUME TypeOK, NEW s \in Services, NEW b \in BOOLEAN, NEW e \in ExitStatuses
    PROVE  /\ Untouched(s, svc[s])
           /\ Untouched(s, [svc[s] EXCEPT !.state = "STOPPING"])
           /\ \A d \in {"STOPPED", "STARTED"} : Untouched(s, [svc[s] EXCEPT !.desired = d])
           /\ Untouched(s, [svc[s] EXCEPT !.in_auto_restart = TRUE])
           /\ Untouched(s, [svc[s] EXCEPT !.terminated = b])
           /\ Untouched(s, [svc[s] EXCEPT !.terminated = FALSE, !.state = "STOPPING"])
           /\ Untouched(s, [svc[s] EXCEPT !.terminated = TRUE, !.force_stop = TRUE])
           /\ Untouched(s, [svc[s] EXCEPT !.exit = e])
<1>0. svc[s] \in SvcType
  BY Typed
<1> DEFINE r == svc[s]
<1> HIDE DEF r
<1>r. r \in SvcType
  BY <1>0 DEF r
<1>1. r \in Kept(r)
  BY <1>r, Zenon DEF SvcType, Kept, With
<1>2. [r EXCEPT !.state = "STOPPING"] \in Kept(r) /\ [r EXCEPT !.state = "STOPPING"].have_console = r.have_console
  BY <1>r, Zenon DEF SvcType, Kept, With
<1>3. \A d \in {"STOPPED", "STARTED"} :
         [r EXCEPT !.desired = d] \in Kept(r) /\ [r EXCEPT !.desired = d].have_console = r.have_console
  BY <1>r, Zenon DEF SvcType, Kept, With
<1>4. [r EXCEPT !.in_auto_restart = TRUE] \in Kept(r)
      /\ [r EXCEPT !.in_auto_restart = TRUE].have_console = r.have_console
  BY <1>r, Zenon DEF SvcType, Kept, With
<1>5. [r EXCEPT !.terminated = b] \in Kept(r) /\ [r EXCEPT !.terminated = b].have_console = r.have_console
  BY <1>r, Zenon DEF SvcType, Kept, With
<1>6. [r EXCEPT !.terminated = FALSE, !.state = "STOPPING"] \in Kept(r)
      /\ [r EXCEPT !.terminated = FALSE, !.state = "STOPPING"].have_console = r.have_console
  BY <1>r, Zenon DEF SvcType, Kept, With
<1>7. [r EXCEPT !.terminated = TRUE, !.force_stop = TRUE] \in Kept(r)
      /\ [r EXCEPT !.terminated = TRUE, !.force_stop = TRUE].have_console = r.have_console
  BY <1>r, Zenon DEF SvcType, Kept, With
<1>8. [r EXCEPT !.exit = e] \in Kept(r) /\ [r EXCEPT !.exit = e].have_console = r.have_console
  BY <1>r, Zenon DEF SvcType, Kept, With
<1> QED BY <1>1, <1>2, <1>3, <1>4, <1>5, <1>6, <1>7, <1>8, Zenon DEF Untouched, r

\* The calls that only services with a process make.
LEMMA ProcCalls ==
    ASSUME NEW s
    PROVE  /\ ~IsPull(<<"do_restart", s>>) /\ ~IsPull(<<"do_smooth_recovery", s>>)
           /\ ~IsPull(<<"unrecoverable_stop", s>>) /\ ~IsPull(<<"exec_failed", s>>)
           /\ ~IsPull(<<"exec_succeeded", s>>) /\ ~IsPull(<<"exec_seen", s>>)
           /\ ~IsPull(<<"handle_exit_status", s>>) /\ ~IsPull(<<"handle_unexpected_termination", s>>)
           /\ ~IsPull(<<"start_again", s>>) /\ ~IsPull(<<"recovery_begun", s>>)
           /\ ~IsPull(<<"handle_stop_exit", s>>)
BY DEF IsPull

\* A step of the running handler, and an event.
LEMMA DoesLocal ==
    ASSUME NEW call, ~IsPull(call), Calling(call), NEW s \in Services, NEW r, NEW p, NEW made,
           Does(s, r, p, made), Untouched(s, r), PullFree(made)
    PROVE  LocalStep
<1>1. QuietStep
  BY Returns, Zenon DEF Does
<1> QED BY <1>1, Zenon DEF Does, LocalStep

LEMMA EventLocal ==
    ASSUME NEW s \in Services, NEW r, NEW p, NEW made,
           Event(s, r, p, made), Untouched(s, r), PullFree(made)
    PROVE  LocalStep
<1>1. QuietEvent
  BY Zenon DEF Event, QuietEvent
<1> QED BY <1>1, Zenon DEF Event, LocalStep

LEMMA QuietThree ==
    ASSUME NEW a, NEW b, NEW c, ~IsPull(a), ~IsPull(b), ~IsPull(c)
    PROVE  PullFree(<<a, b, c>>)
<1>1. <<a, b, c>> \in Seq({a, b, c})
  OBVIOUS
<1>2. \A i \in DOMAIN <<a, b, c>> : <<a, b, c>>[i] \in {a, b, c}
  OBVIOUS
<1>3. Stack(<<a, b, c>>)
  BY <1>1, Zenon DEF Stack
<1>4. ~SomePull(<<a, b, c>>)
  BY <1>2, Zenon DEF SomePull
<1> QED BY <1>3, <1>4, Zenon DEF PullFree

LEMMA StartingProcess ==
    ASSUME TypeOK, NEW s \in Processes, NEW all,
           \/ BringUpProcess(s) \/ RestartProcess(s) \/ DoRestart(s) \/ UnrecoverableStop(s)
           \/ CheckProcessRestart(s) \/ InterruptProcess(s, all)
    PROVE  LocalStep
<1>0. s \in Services
  BY DEF Processes
<1>d. \A call, r, p, made : ~IsPull(call) /\ Calling(call) /\ Does(s, r, p, made) /\ Untouched(s, r) /\ PullFree(made) => LocalStep
  BY <1>0, DoesLocal
<1>u. /\ Untouched(s, svc[s])
      /\ Untouched(s, [svc[s] EXCEPT !.state = "STOPPING"])
      /\ Untouched(s, [svc[s] EXCEPT !.desired = "STOPPED"])
      /\ Untouched(s, [svc[s] EXCEPT !.in_auto_restart = TRUE])
      /\ Untouched(s, [svc[s] EXCEPT !.terminated = FALSE])
      /\ Untouched(s, [svc[s] EXCEPT !.terminated = TRUE])
      /\ Untouched(s, [svc[s] EXCEPT !.terminated = FALSE, !.state = "STOPPING"])
      /\ Untouched(s, [svc[s] EXCEPT !.terminated = TRUE, !.force_stop = TRUE])
  BY <1>0, ProcUpdates, TRUE \in BOOLEAN, FALSE \in BOOLEAN, "none" \in ExitStatuses, Zenon DEF ExitStatuses
<1>1. CASE BringUpProcess(s) \/ RestartProcess(s)
  BY <1>1, <1>d, <1>u, QuietNothing, QuietOne, QuietTwo, QuietThree, QuietBoth, ProcCalls, OtherCalls, Zenon DEF BringUpProcess, RestartProcess, NotBroughtUp
<1>2. CASE DoRestart(s)
  BY <1>2, <1>d, <1>u, QuietNothing, QuietOne, QuietTwo, QuietThree, QuietBoth, ProcCalls, OtherCalls, Zenon DEF DoRestart
<1>3. CASE UnrecoverableStop(s)
  BY <1>3, <1>d, <1>u, QuietNothing, QuietOne, QuietTwo, QuietThree, QuietBoth, ProcCalls, OtherCalls, Zenon DEF UnrecoverableStop
<1>4. CASE CheckProcessRestart(s)
  BY <1>4, <1>d, <1>u, QuietNothing, QuietOne, QuietTwo, QuietThree, QuietBoth, ProcCalls, OtherCalls, Zenon DEF CheckProcessRestart
<1>5. CASE InterruptProcess(s, all)
  BY <1>5, <1>d, <1>u, QuietNothing, QuietOne, QuietTwo, QuietThree, QuietBoth, ProcCalls, OtherCalls, Zenon DEF InterruptProcess, Interrupted
<1> QED BY <1>1, <1>2, <1>3, <1>4, <1>5

LEMMA StoppingProcess ==
    ASSUME TypeOK, NEW s \in Processes,
           \/ BringDownProcess(s) \/ BringDownScripted(s) \/ HandleStopExit(s)
           \/ ExecSeen(s) \/ ExecSucceeded(s) \/ ExecFailed(s) \/ LauncherExecFailed(s) \/ ScriptExecFailed(s)
    PROVE  LocalStep
<1>0. s \in Services
  BY DEF Processes
<1>d. \A call, r, p, made : ~IsPull(call) /\ Calling(call) /\ Does(s, r, p, made) /\ Untouched(s, r) /\ PullFree(made) => LocalStep
  BY <1>0, DoesLocal
<1>u. /\ Untouched(s, svc[s])
      /\ Untouched(s, [svc[s] EXCEPT !.state = "STOPPING"])
      /\ Untouched(s, [svc[s] EXCEPT !.desired = "STOPPED"])
      /\ Untouched(s, [svc[s] EXCEPT !.in_auto_restart = TRUE])
      /\ Untouched(s, [svc[s] EXCEPT !.terminated = FALSE])
      /\ Untouched(s, [svc[s] EXCEPT !.terminated = TRUE])
      /\ Untouched(s, [svc[s] EXCEPT !.terminated = FALSE, !.state = "STOPPING"])
      /\ Untouched(s, [svc[s] EXCEPT !.terminated = TRUE, !.force_stop = TRUE])
  BY <1>0, ProcUpdates, TRUE \in BOOLEAN, FALSE \in BOOLEAN, "none" \in ExitStatuses, Zenon DEF ExitStatuses
<1>1. CASE BringDownProcess(s) \/ BringDownScripted(s) \/ HandleStopExit(s)
  BY <1>1, <1>d, <1>u, QuietNothing, QuietOne, QuietTwo, QuietThree, QuietBoth, ProcCalls, OtherCalls, Zenon DEF BringDownProcess, BringDownScripted, HandleStopExit
<1>2. CASE ExecSeen(s) \/ ExecSucceeded(s)
  BY <1>2, <1>d, <1>u, QuietNothing, QuietOne, QuietTwo, QuietThree, QuietBoth, ProcCalls, OtherCalls, Zenon DEF ExecSeen, ExecSucceeded
<1>3. CASE ExecFailed(s) \/ LauncherExecFailed(s)
  BY <1>3, <1>d, <1>u, QuietNothing, QuietOne, QuietTwo, QuietThree, QuietBoth, ProcCalls, OtherCalls, Zenon DEF ExecFailed, LauncherExecFailed, StartNotExecuted, StopForGood
<1>4. CASE ScriptExecFailed(s)
  BY <1>4, <1>d, <1>u, QuietNothing, QuietOne, QuietTwo, QuietThree, QuietBoth, ProcCalls, OtherCalls, Zenon DEF ScriptExecFailed
<1> QED BY <1>1, <1>2, <1>3, <1>4

LEMMA EndedProcess ==
    ASSUME TypeOK, NEW s \in Processes,
           \/ UnexpectedTermination(s) \/ StartAgain(s) \/ RecoveryBegun(s)
           \/ ProcessEnded(s) \/ ScriptEnded(s) \/ LauncherEnded(s) \/ RelaunchEnded(s) \/ DaemonEnded(s)
    PROVE  LocalStep
<1>0. s \in Services
  BY DEF Processes
<1>d. \A call, r, p, made : ~IsPull(call) /\ Calling(call) /\ Does(s, r, p, made) /\ Untouched(s, r) /\ PullFree(made) => LocalStep
  BY <1>0, DoesLocal
<1>u. /\ Untouched(s, svc[s])
      /\ Untouched(s, [svc[s] EXCEPT !.state = "STOPPING"])
      /\ Untouched(s, [svc[s] EXCEPT !.desired = "STOPPED"])
      /\ Untouched(s, [svc[s] EXCEPT !.in_auto_restart = TRUE])
      /\ Untouched(s, [svc[s] EXCEPT !.terminated = FALSE])
      /\ Untouched(s, [svc[s] EXCEPT !.terminated = TRUE])
      /\ Untouched(s, [svc[s] EXCEPT !.terminated = FALSE, !.state = "STOPPING"])
      /\ Untouched(s, [svc[s] EXCEPT !.terminated = TRUE, !.force_stop = TRUE])
  BY <1>0, ProcUpdates, TRUE \in BOOLEAN, FALSE \in BOOLEAN, "none" \in ExitStatuses, Zenon DEF ExitStatuses
<1>x. \A e \in Exits : Untouched(s, [svc[s] EXCEPT !.exit = e])
  BY <1>0, ProcUpdates, ProcConfigAssumption
<1>1. CASE UnexpectedTermination(s) \/ StartAgain(s) \/ RecoveryBegun(s)
  BY <1>1, <1>d, <1>u, QuietNothing, QuietOne, QuietTwo, QuietThree, QuietBoth, ProcCalls, OtherCalls, Zenon DEF UnexpectedTermination, StartAgain, RecoveryBegun
<1>2. \A p : Terminates(s, p) /\ Calling(<<"handle_exit_status", s>>) => LocalStep
  <2>1. \A b : Untouched(s, [svc[s] EXCEPT !.desired = IF b THEN "STOPPED" ELSE svc[s].desired])
    <3>1. svc[s].desired \in {"STOPPED", "STARTED"}
      BY <1>0, Typed, Fields
    <3>2. \A d \in {"STOPPED", "STARTED"} : Untouched(s, [svc[s] EXCEPT !.desired = d])
      BY <1>0, ProcUpdates, TRUE \in BOOLEAN, "none" \in ExitStatuses, Zenon DEF ExitStatuses
    <3> QED BY <3>1, <3>2, Zenon
  <2> QED BY <1>d, <1>u, <2>1, QuietNothing, QuietOne, QuietTwo, QuietThree, QuietBoth, ProcCalls, OtherCalls, Zenon DEF Terminates
<1>3. \A p : EndsStop(s, p) /\ Calling(<<"handle_exit_status", s>>) => LocalStep
  BY <1>d, <1>u, QuietNothing, QuietOne, QuietTwo, QuietThree, QuietBoth, ProcCalls, OtherCalls, Zenon DEF EndsStop
<1>4. \A p : EndsEarly(s, p) /\ Calling(<<"handle_exit_status", s>>) => LocalStep
  BY <1>d, <1>u, QuietNothing, QuietOne, QuietTwo, QuietThree, QuietBoth, ProcCalls, OtherCalls, Zenon DEF EndsEarly
<1>5. \A p : FailsStart(s, p) /\ Calling(<<"handle_exit_status", s>>) => LocalStep
  BY <1>d, <1>u, QuietNothing, QuietOne, QuietTwo, QuietThree, QuietBoth, ProcCalls, OtherCalls, Zenon DEF FailsStart
<1>6. CASE ProcessEnded(s) \/ DaemonEnded(s)
  BY <1>2, <1>3, <1>4, <1>5, <1>6, <1>d, <1>u, QuietTwo, ProcCalls, OtherCalls, Zenon DEF ProcessEnded, DaemonEnded
<1>7. CASE ScriptEnded(s)
  BY <1>5, <1>7, <1>d, <1>u, QuietTwo, ProcCalls, OtherCalls, Zenon DEF ScriptEnded
<1>8. \A p, made : \A status \in Exits :
         Ended(s, p, status, made) /\ PullFree(made) /\ Calling(<<"handle_exit_status", s>>) => LocalStep
  BY <1>d, <1>x, QuietNothing, QuietOne, QuietTwo, QuietThree, QuietBoth, ProcCalls, OtherCalls, Zenon DEF Ended
<1>9. CASE LauncherEnded(s)
  BY <1>5, <1>8, <1>9, <1>d, <1>u, QuietNothing, QuietOne, QuietTwo, QuietThree, QuietBoth, ProcCalls, OtherCalls, Zenon DEF LauncherEnded
<1>10. CASE RelaunchEnded(s)
  BY <1>4, <1>8, <1>10, <1>d, <1>u, <1>x, QuietNothing, QuietOne, QuietTwo, QuietThree, QuietBoth, ProcCalls, OtherCalls, Zenon DEF RelaunchEnded
<1> QED BY <1>1, <1>6, <1>7, <1>9, <1>10

LEMMA ProcessEvents ==
    ASSUME TypeOK, NEW s \in Processes,
           \/ StatusRead(s) \/ StopStatusRead(s) \/ ChildEvent(s) \/ StopCommandEnds(s)
           \/ Ready(s) \/ NotReady(s) \/ TimerExpired(s) \/ IntervalEnds(s)
    PROVE  LocalStep
<1>0. s \in Services
  BY DEF Processes
<1>e. \A r, p, made : Event(s, r, p, made) /\ Untouched(s, r) /\ PullFree(made) => LocalStep
  BY <1>0, EventLocal
<1>u. /\ Untouched(s, svc[s])
      /\ Untouched(s, [svc[s] EXCEPT !.state = "STOPPING"])
      /\ Untouched(s, [svc[s] EXCEPT !.desired = "STOPPED"])
      /\ Untouched(s, [svc[s] EXCEPT !.in_auto_restart = TRUE])
      /\ Untouched(s, [svc[s] EXCEPT !.terminated = FALSE])
      /\ Untouched(s, [svc[s] EXCEPT !.terminated = TRUE])
      /\ Untouched(s, [svc[s] EXCEPT !.terminated = FALSE, !.state = "STOPPING"])
      /\ Untouched(s, [svc[s] EXCEPT !.terminated = TRUE, !.force_stop = TRUE])
  BY <1>0, ProcUpdates, TRUE \in BOOLEAN, FALSE \in BOOLEAN, "none" \in ExitStatuses, Zenon DEF ExitStatuses
<1>x. \A e \in Exits : Untouched(s, [svc[s] EXCEPT !.exit = e])
  BY <1>0, ProcUpdates, ProcConfigAssumption
<1>1. CASE StatusRead(s) \/ StopStatusRead(s)
  BY <1>1, <1>e, <1>u, QuietNothing, QuietOne, QuietTwo, QuietThree, QuietBoth, ProcCalls, OtherCalls, Zenon
     DEF StatusRead, StopStatusRead, ExecEvent, ExecFailedEvent, StopExecEvent, StopExecFailedEvent
<1>2. CASE ChildEvent(s)
  BY <1>2, <1>e, <1>x, QuietNothing, QuietOne, QuietTwo, QuietThree, QuietBoth, ProcCalls, OtherCalls, Zenon DEF ChildEvent, ChildEnds
<1>3. CASE StopCommandEnds(s) \/ Ready(s) \/ NotReady(s) \/ IntervalEnds(s)
  BY <1>3, <1>e, <1>u, QuietNothing, QuietOne, QuietTwo, QuietThree, QuietBoth, ProcCalls, OtherCalls, Zenon DEF StopCommandEnds, Ready, NotReady, IntervalEnds
<1>4. CASE TimerExpired(s)
  <2>1. \A p : Untouched(s, [Interrupted(svc[s], p) EXCEPT !.terminated = FALSE])
    <3>0. svc[s] \in SvcType
      BY <1>0, Typed
    <3> DEFINE r == [svc[s] EXCEPT !.state = "STOPPING"]
    <3>1. r \in Kept(svc[s]) /\ r.have_console = svc[s].have_console /\ r \in SvcType
      BY <1>u DEF Untouched, Kept, With
    <3> HIDE DEF r
    <3>2. /\ [r EXCEPT !.terminated = FALSE] \in Kept(r)
          /\ [r EXCEPT !.terminated = FALSE].have_console = r.have_console
      BY <3>1, Zenon DEF SvcType, Kept, With
    <3>3. Untouched(s, [r EXCEPT !.terminated = FALSE])
      BY <3>1, <3>2 DEF Untouched, Kept, With
    <3> QED BY <1>u, <3>3, Zenon DEF Interrupted, r
  <2> QED BY <1>4, <1>e, <1>u, <2>1, QuietNothing, QuietOne, QuietTwo, QuietThree, QuietBoth, ProcCalls, OtherCalls, Zenon DEF TimerExpired
<1> QED BY <1>1, <1>2, <1>3, <1>4

----------------------------------------------------------------------------
(* The whole system *)

\* A step is one of Service, or local.
LEMMA ProcStep ==
    ASSUME TypeOK, [ProcNext]_pvars
    PROVE  [Next]_vars \/ LocalStep
<1>1. CASE UNCHANGED pvars
  BY <1>1 DEF pvars
<1>2. CASE Next /\ UNCHANGED proc
  BY <1>2
<1>3. CASE ProcCall
  <2>1. PICK s \in Processes :
           \/ BringUpProcess(s) \/ RestartProcess(s) \/ DoRestart(s) \/ UnrecoverableStop(s)
           \/ CheckProcessRestart(s) \/ BringDownProcess(s) \/ BringDownScripted(s)
           \/ ExecSeen(s) \/ ExecSucceeded(s) \/ ExecFailed(s)
           \/ LauncherExecFailed(s) \/ ScriptExecFailed(s)
           \/ UnexpectedTermination(s) \/ StartAgain(s) \/ RecoveryBegun(s)
           \/ ProcessEnded(s) \/ ScriptEnded(s) \/ LauncherEnded(s) \/ RelaunchEnded(s)
           \/ DaemonEnded(s) \/ HandleStopExit(s)
           \/ \E all \in BOOLEAN : InterruptProcess(s, all)
    BY <1>3, Zenon DEF ProcCall
  <2>2. LocalStep
    BY <2>1, StartingProcess, StoppingProcess, EndedProcess, Zenon
  <2> QED BY <2>2
<1>4. CASE ProcEvent
  <2>1. LocalStep
    BY <1>4, ProcessEvents, Zenon DEF ProcEvent
  <2> QED BY <2>1
<1> QED BY <1>1, <1>2, <1>3, <1>4 DEF ProcNext

LEMMA ProcGood ==
    ASSUME TypeOK, [ProcNext]_pvars
    PROVE  GoodStep
BY ProcStep, NextStep, LocalGood

(***************************************************************************)
(* The type invariant of the service set, with services that run           *)
(* processes: no child that ends, no timer and no status pipe brings a     *)
(* record or a queue out of its type.                                      *)
(***************************************************************************)
THEOREM ProcTypeCorrect == ProcSpec => []TypeOK
<1>1. ProcInit => TypeOK
  BY InitOK DEF ProcInit
<1>2. TypeOK /\ [ProcNext]_pvars => TypeOK'
  BY ProcGood DEF GoodStep
<1> QED BY <1>1, <1>2, PTL DEF ProcSpec

(***************************************************************************)
(* The service graph implements Acquisition also when services have        *)
(* processes that fail to be executed, end at any time, recover and are    *)
(* restarted: none of this acquires or releases but through the calls that *)
(* mark it.                                                                *)
(***************************************************************************)
THEOREM ProcAcquisitionRefined == ProcSpec => ImplementsAcquisition
<1>1. ProcInit => Acq!Init
  BY InitOK DEF ProcInit
<1>2. TypeOK /\ [ProcNext]_pvars => [Acq!Next]_(Acq!vars)
  BY ProcGood DEF GoodStep
<1> QED BY <1>1, <1>2, ProcTypeCorrect, PTL DEF ProcSpec, ImplementsAcquisition, Acq!Spec

(***************************************************************************)
(* A process that ends, and whatever follows from it, does not let the     *)
(* count of a service fall below what is owed to its dependents.           *)
(***************************************************************************)
THEOREM ProcBoundHolds == ProcSpec => []AcquisitionBound
<1>1. ProcInit => AcquisitionBound
  BY InitBound DEF ProcInit
<1>2. TypeOK /\ TypeOK' /\ AcquisitionBound /\ [ProcNext]_pvars => AcquisitionBound'
  BY ProcGood, BoundStep DEF GoodStep
<1> QED BY <1>1, <1>2, ProcTypeCorrect, PTL DEF ProcSpec

LEMMA ProcConsoleInv == ProcSpec => []ConsoleInv
<1>1. ProcInit => ConsoleInv
  BY InitConsole DEF ProcInit
<1>2. TypeOK /\ ConsoleInv /\ [ProcNext]_pvars => ConsoleInv'
  BY ProcStep, ConsoleStep, LocalConsole
<1> QED BY <1>1, <1>2, ProcTypeCorrect, PTL DEF ProcSpec

(***************************************************************************)
(* One owner of the console, whatever the processes that use it do: one    *)
(* that fails, is interrupted or ends hands it on exactly once.            *)
(***************************************************************************)
THEOREM ProcConsoleHasOneOwner == ProcSpec => []OneConsoleOwner
BY ProcConsoleInv, OwnerFromInv, PTL

(***************************************************************************)
(* The console is not lost when the process that has it fails or ends.     *)
(***************************************************************************)
THEOREM ProcConsoleIsNotLost == ProcSpec => []ConsoleNotLost
BY ProcConsoleInv, NotLostFromInv, PTL

(***************************************************************************)
(* No cycle of dependencies, with processes.                               *)
(***************************************************************************)
THEOREM ProcNoCycle == ProcSpec => []NoCycle
<1>1. ProcInit => NoCycle
  BY LoadedAcyclic DEF ProcInit, Init, NoCycle, LinkSet
<1>2. TypeOK /\ NoCycle /\ [ProcNext]_pvars => NoCycle'
  BY ProcStep, NoCycleStep, LocalLinks
<1> QED BY <1>1, <1>2, ProcTypeCorrect, PTL DEF ProcSpec
=============================================================================
