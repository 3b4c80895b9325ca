---------------------------- MODULE SystemProofs ----------------------------
(***************************************************************************)
(* Proofs about System: a shutdown that was ordered ends with no service   *)
(* active, whatever roles and shutdown types are allowed.                  *)
(***************************************************************************)
EXTENDS System, TLAPS

\* Where the program is before it has looked at the shutdown type, or while it
\* deals with services that stopped without an order.
Unordered == {"open", "log", "start", "ready", "failure", "prompt", "prompted", "answered"}

Returns == {"exited", "close", "again", "prompt", "exec"}     \* the returns of flush_log()

\* The program knows of no order where it starts services by itself: there its
\* copy of the shutdown type is NONE.  (A client's start is refused by the
\* current type, the program's own start by nothing.)
NoOrderKnown ==
    /\ pc \in Unordered => sd = "NONE"
    /\ pc = "flush" => after \in Returns
    /\ pc = "flush" /\ after = "prompt" => sd = "NONE"

\* Once the program has left the main loop for a shutdown, no service is
\* active, and starts are refused: the type, once set, is not reset.
LeftWithoutServices ==
    sd \notin {"NONE", "REBOOT"} /\ pc \notin {"loop", "killed"} => active = {} /\ type # "NONE"

SystemInv == NoOrderKnown /\ LeftWithoutServices

USE DEF Unordered, Returns

\* The program starts with no order, no service and no copy of the type.
LEMMA SystemInit == Init => SystemInv
BY DEF Init, SystemInv, NoOrderKnown, LeftWithoutServices

\* The event handlers keep the invariant: what they may start they start only
\* while no shutdown is ordered, and none of them takes an order back.
LEMMA HandlerStep ==
    ASSUME SystemInv,
           \/ \E s \in active : ServiceStops(s)
           \/ ClientStarts \/ (\E t \in OrderTypes : Order(t)) \/ sigint_reboot_cb \/ sigterm_cb
           \/ sigquit_cb \/ sigusr1_cb \/ rootfs_is_rw \/ LogReady \/ LogStream \/ FlushTimer
           \/ ConsoleInput \/ control_socket_cb \/ FileSystem
    PROVE  SystemInv'
<1> USE DEF SystemInv, NoOrderKnown, LeftWithoutServices, Event, svcs, program
<1>1. CASE \E s \in active : ServiceStops(s)  BY <1>1 DEF ServiceStops
<1>2. CASE ClientStarts  BY <1>2 DEF ClientStarts, start_service, is_shutting_down
<1>3. CASE \E t \in OrderTypes : Order(t)
  BY <1>3, SystemAssumption DEF Order, stop_all, Types
<1>4. CASE sigint_reboot_cb \/ sigterm_cb
  BY <1>4 DEF sigint_reboot_cb, sigterm_cb, Order, stop_all
<1>5. CASE sigquit_cb  BY <1>5 DEF sigquit_cb
<1>6. CASE sigusr1_cb  BY <1>6 DEF sigusr1_cb
<1>7. CASE rootfs_is_rw  BY <1>7 DEF rootfs_is_rw
<1>8. CASE LogReady \/ LogStream \/ FlushTimer \/ ConsoleInput \/ control_socket_cb
  BY <1>8 DEF LogReady, LogStream, FlushTimer, ConsoleInput, control_socket_cb
<1>9. CASE FileSystem  BY <1>9 DEF FileSystem
<1> QED  BY <1>1, <1>2, <1>3, <1>4, <1>5, <1>6, <1>7, <1>8, <1>9

\* So do the steps of the program itself.
LEMMA MainStep ==
    ASSUME SystemInv, Main
    PROVE  SystemInv'
<1> USE DEF SystemInv, NoOrderKnown, LeftWithoutServices, Goto, flush_log, svcs
<1>1. CASE OpenAtStart \/ LogAtStart  BY <1>1 DEF OpenAtStart, LogAtStart
<1>2. CASE StartServices  BY <1>2 DEF StartServices, start_service
<1>3. CASE Ready  BY <1>3 DEF Ready
<1>4. CASE LoopRuns \/ FlushRuns \/ PromptRuns \/ RunForEver \/ LeaveRun
  BY <1>4 DEF LoopRuns, FlushRuns, PromptRuns, RunForEver, LeaveRun, EnterRun
<1>5. CASE LoopEnds  BY <1>5 DEF LoopEnds
<1>6. CASE FlushEnds  BY <1>6 DEF FlushEnds
<1>7. CASE CloseSocket  BY <1>7 DEF CloseSocket
<1>8. CASE SoftReboot \/ ExecAgain  BY <1>8 DEF SoftReboot, ExecAgain
<1>9. CASE BootFailure  BY <1>9 DEF BootFailure, start_service
<1>10. CASE NoTerminal \/ PromptAgain  BY <1>10 DEF NoTerminal, PromptAgain, stop_all
<1>11. CASE Answer  BY <1>11 DEF Answer, start_service, stop_all
<1>12. CASE AfterPrompt  BY <1>12 DEF AfterPrompt, start_service
<1>13. CASE ExecShutdown  BY <1>13 DEF ExecShutdown
<1> QED
  BY <1>1, <1>2, <1>3, <1>4, <1>5, <1>6, <1>7, <1>8, <1>9, <1>10, <1>11, <1>12, <1>13 DEF Main

\* The invariant holds throughout.
LEMMA SystemInvHolds == Spec => []SystemInv
<1>1. SystemInv /\ [Next]_vars => SystemInv'
  <2> SUFFICES ASSUME SystemInv, [Next]_vars PROVE SystemInv'
    OBVIOUS
  <2>1. CASE UNCHANGED vars
    BY <2>1 DEF vars, program, svcs, SystemInv, NoOrderKnown, LeftWithoutServices
  <2>2. CASE Main  BY <2>2, MainStep
  <2>3. CASE Next /\ ~Main  BY <2>3, HandlerStep DEF Next
  <2> QED  BY <2>1, <2>2, <2>3
<1> QED  BY <1>1, SystemInit, PTL DEF Spec

\* A shutdown that was ordered ends with no service active, whatever orders,
\* starts and signals the event loop handles in the four places where it runs.
THEOREM ShutdownIsComplete == Spec => []EndsWithoutServices
<1>1. SystemInv => EndsWithoutServices
  BY DEF SystemInv, LeftWithoutServices, EndsWithoutServices, Ended
<1> QED  BY <1>1, SystemInvHolds, PTL
=============================================================================
