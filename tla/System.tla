------------------------------- MODULE System -------------------------------
(***************************************************************************)
(* The main program (dinit_main(), dinit.cc): start-up, the main loop that *)
(* runs the event loop until no service is active, and what follows it -   *)
(* the log flush, the soft reboot, the prompt after a failed boot and the  *)
(* hand-over to the shutdown program.  The event loop is run in four       *)
(* places, and whatever it handles (signals, orders over a control         *)
(* connection, services that stop, timers) may change what the program     *)
(* read before.  How services start and stop is the subject of Service;    *)
(* here a service is active or not, and told to stop or not.               *)
(***************************************************************************)
EXTENDS Integers, FiniteSets, TLC

CONSTANTS
    Roles,         \* subset of {"init", "container", "daemon", "user"}
    OrderTypes     \* shutdown types that clients order

Types == {"NONE", "REMAIN", "HALT", "REBOOT", "SOFTREBOOT", "POWEROFF", "KEXEC"}

ASSUME SystemAssumption ==
    Roles \subseteq {"init", "container", "daemon", "user"} /\ OrderTypes \subseteq Types \ {"NONE"}

VARIABLES
    role,          \* am_system_init and am_system_mgr
    pc,            \* where the program is
    after,         \* where flush_log() returns to
    in_run,        \* event_loop.run() is in progress
    handled,       \* it has handled an event
    active,        \* services that are active
    stopping,      \* those that have been told to stop
    type,          \* services->get_shutdown_type()
    sd,            \* the local variable shutdown_type
    open,          \* control_socket_open
    file,          \* the socket file: "none", "ours", "dead" or of an "other" instance
    rw,            \* the file system can be written
    ready_fd,      \* socket_ready_fd is set
    log_open,      \* external_log_open
    flushed,       \* is_log_flushed()
    timer,         \* log_flush_timer: "off", "armed" or "expired"
    input          \* console_input_ready

program == <<role, pc, after, in_run, handled>>
svcs == <<active, stopping, type>>
socket == <<open, file, ready_fd>>
logging == <<log_open, flushed, timer>>
vars == <<program, svcs, sd, socket, rw, logging, input>>

am_system_mgr == role \in {"init", "container"}      \* process 1
am_system_init == role \in {"init", "daemon"}        \* root, or --system
is_shutting_down == type # "NONE"

Init ==
    /\ role \in Roles /\ pc = "open" /\ after = "none" /\ in_run = FALSE /\ handled = FALSE
    /\ active = {} /\ stopping = {} /\ type = "NONE" /\ sd = "NONE"
    /\ open = FALSE /\ file \in {"none", "dead", "other"} /\ rw \in BOOLEAN
    /\ ready_fd \in BOOLEAN
    /\ log_open = FALSE /\ flushed = TRUE /\ timer = "off" /\ input = FALSE
-----------------------------------------------------------------------------
(***************************************************************************)
(* What the program and its event handlers call                            *)
(***************************************************************************)
\* open_control_socket(): [open, file, ok], one for each way that it can end.
\* A socket whose file is gone is opened again; a read-only file system is
\* no failure unless it is to be reported.
open_control_socket(report) ==
    IF open /\ file # "none" THEN {[open |-> TRUE, file |-> file, ok |-> TRUE]}
    ELSE {[open |-> FALSE, file |-> file, ok |-> FALSE]}
         \cup IF file = "other" THEN {}
              ELSE IF ~rw THEN {[open |-> FALSE, file |-> file, ok |-> ~report]}
              ELSE {[open |-> TRUE, file |-> "ours", ok |-> TRUE],
                    [open |-> FALSE, file |-> "none", ok |-> FALSE],
                    [open |-> FALSE, file |-> "dead", ok |-> FALSE]}

\* control_socket_ready(), of a socket that is open or not.
control_socket_ready(is_open) ==
    ready_fd' = (ready_fd /\ ~is_open)

close_control_socket ==
    /\ open' = FALSE
    /\ file' = IF open THEN "none" ELSE file
    /\ UNCHANGED ready_fd

setup_external_log == IF log_open THEN UNCHANGED log_open ELSE log_open' \in BOOLEAN

\* stop_all_services()
stop_all(t) == type' = t /\ stopping' = active /\ UNCHANGED active

\* A service of this name is loaded and started, or cannot be.
start_service(s) == active' = active \cup {s} /\ stopping' = stopping \ {s} /\ UNCHANGED type

Goto(p) == pc' = p /\ UNCHANGED <<role, after, in_run, handled>>

\* flush_log(): at most five seconds, then on to p.
flush_log(p) ==
    /\ pc' = "flush" /\ after' = p /\ timer' = "armed"
    /\ UNCHANGED <<role, in_run, handled, log_open, flushed>>
-----------------------------------------------------------------------------
(***************************************************************************)
(* Start-up                                                                *)
(***************************************************************************)
OpenAtStart ==
    /\ pc = "open"
    /\ \E r \in open_control_socket(~am_system_init) :
         /\ open' = r.open /\ file' = r.file
         /\ IF r.ok THEN Goto("log") /\ UNCHANGED logging ELSE flush_log("exited")
    /\ UNCHANGED <<svcs, sd, ready_fd, rw, input>>

\* Only if a log is specified.
LogAtStart ==
    /\ pc = "log"
    /\ \/ Goto("start") /\ UNCHANGED logging
       \/ log_open' = TRUE /\ Goto("start") /\ UNCHANGED <<flushed, timer>>
       \/ ~am_system_init /\ flush_log("exited")
    /\ UNCHANGED <<svcs, sd, socket, rw, input>>

StartServices ==
    /\ pc = "start" /\ Goto("ready")
    /\ UNCHANGED svcs \/ start_service("boot")
    /\ UNCHANGED <<sd, socket, rw, logging, input>>

Ready ==
    /\ pc = "ready" /\ Goto("loop")
    /\ control_socket_ready(open)
    /\ UNCHANGED <<svcs, sd, open, file, rw, logging, input>>
-----------------------------------------------------------------------------
(***************************************************************************)
(* The event loop: run() handles one event or more, then returns.          *)
(***************************************************************************)
EnterRun ==
    /\ in_run' = TRUE /\ handled' = FALSE
    /\ UNCHANGED <<role, pc, after, svcs, sd, socket, rw, logging, input>>
LeaveRun ==
    /\ in_run /\ handled
    /\ in_run' = FALSE /\ handled' = FALSE
    /\ pc' = IF pc = "prompt" THEN "prompted" ELSE pc
    /\ UNCHANGED <<role, after, svcs, sd, socket, rw, logging, input>>

Event == in_run /\ handled' = TRUE /\ UNCHANGED <<role, pc, after, in_run>>

\* A service stops, because it was told to or by itself.
ServiceStops(s) ==
    /\ Event /\ s \in active
    /\ active' = active \ {s} /\ stopping' = stopping \ {s} /\ UNCHANGED type
    /\ UNCHANGED <<sd, socket, rw, logging, input>>

\* A start order of a client, which is refused during a shutdown.
\* Mutant: it is not.
StartAnyTime ==
    /\ Event
    /\ start_service("other")
    /\ UNCHANGED <<sd, socket, rw, logging, input>>
ClientStarts ==
    /\ Event /\ ~is_shutting_down
    /\ start_service("other")
    /\ UNCHANGED <<sd, socket, rw, logging, input>>

\* A shutdown order of a client; sigint_reboot_cb(), sigterm_cb().
Order(t) == Event /\ stop_all(t) /\ UNCHANGED <<sd, socket, rw, logging, input>>
sigint_reboot_cb == am_system_mgr /\ Order("REBOOT")
sigterm_cb == Order("HALT")

\* sigquit_cb(): the shutdown program takes over at once, if it can be run.
sigquit_cb ==
    /\ am_system_mgr
    /\ close_control_socket
    /\ \/ Event
       \/ in_run /\ pc' = "killed" /\ in_run' = FALSE /\ handled' = FALSE /\ UNCHANGED <<role, after>>
    /\ UNCHANGED <<svcs, sd, rw, logging, input>>

sigusr1_cb ==
    /\ Event
    /\ \E r \in open_control_socket(TRUE) : open' = r.open /\ file' = r.file
    /\ UNCHANGED <<svcs, sd, ready_fd, rw, logging, input>>

\* The service with the option rw-ready has started: rootfs_is_rw().
rootfs_is_rw ==
    /\ Event /\ "boot" \in active
    /\ \E r \in open_control_socket(TRUE) :
         open' = r.open /\ file' = r.file /\ control_socket_ready(r.open)
    /\ setup_external_log
    /\ UNCHANGED <<svcs, sd, rw, flushed, timer, input>>

\* The service with the option log-ready has started.
LogReady ==
    /\ Event /\ "boot" \in active
    /\ setup_external_log
    /\ UNCHANGED <<svcs, sd, socket, rw, flushed, timer, input>>

\* The log streams are written to, and written out.
LogStream ==
    /\ Event /\ flushed' = ~flushed
    /\ UNCHANGED <<svcs, sd, socket, rw, log_open, timer, input>>

FlushTimer ==
    /\ Event /\ timer = "armed" /\ timer' = "expired"
    /\ UNCHANGED <<svcs, sd, socket, rw, log_open, flushed, input>>

ConsoleInput ==
    /\ Event /\ pc = "prompt" /\ ~input /\ input' = TRUE
    /\ UNCHANGED <<svcs, sd, socket, rw, logging>>

\* control_socket_cb(): a connection is accepted (see Connection).
control_socket_cb == Event /\ open /\ UNCHANGED <<svcs, sd, socket, rw, logging, input>>

\* Others change the file system: it becomes writable, the file is removed.
FileSystem ==
    /\ rw' = TRUE
    /\ file' \in {file, "none"}
    /\ UNCHANGED <<program, svcs, sd, open, ready_fd, logging, input>>
-----------------------------------------------------------------------------
(***************************************************************************)
(* The main loop, and what follows it                                      *)
(***************************************************************************)
\* run_event_loop: until no service is active.  The shutdown type is read
\* once; with REMAIN the program goes back to the test.
LoopRuns == pc = "loop" /\ ~in_run /\ active # {} /\ EnterRun
LoopEnds ==
    /\ pc = "loop" /\ ~in_run /\ active = {}
    /\ sd' = type
    /\ IF type = "REMAIN" THEN Goto("loop") /\ UNCHANGED logging ELSE flush_log("close")
    /\ UNCHANGED <<svcs, socket, rw, input>>

\* Mutant: the flush waits for the log, however long that takes.
FlushWaits == flushed
FlushDone == flushed \/ timer = "expired"
FlushRuns == pc = "flush" /\ ~in_run /\ ~FlushDone /\ EnterRun
FlushEnds ==
    /\ pc = "flush" /\ ~in_run /\ FlushDone
    /\ pc' = after /\ after' = "none"
    /\ UNCHANGED <<role, in_run, handled, svcs, sd, socket, rw, logging, input>>

CloseSocket ==
    /\ pc = "close"
    /\ close_control_socket
    /\ Goto(CASE ~am_system_mgr -> "exited"
              [] am_system_mgr /\ sd = "SOFTREBOOT" -> "soft"
              [] am_system_mgr /\ sd = "NONE" -> "failure"
              [] OTHER -> "exec")
    /\ UNCHANGED <<svcs, sd, rw, logging, input>>

\* do_soft_reboot(): the shutdown program is run as a child, and an error of it
\* is logged; then dinit is executed anew.  If that fails, a reboot follows.
SoftReboot ==
    /\ pc = "soft"
    /\ (Goto("again") /\ UNCHANGED logging) \/ flush_log("again")
    /\ UNCHANGED <<svcs, sd, socket, rw, input>>
ExecAgain ==
    /\ pc = "again"
    /\ \/ Goto("new_dinit") /\ UNCHANGED <<sd, logging>>
       \/ sd' = "REBOOT" /\ flush_log("exec")
    /\ UNCHANGED <<svcs, socket, rw, input>>

\* All services have stopped without an order.  The recovery service is started
\* first if auto_recovery is set.
BootFailure ==
    /\ pc = "failure"
    /\ \/ Goto("prompt") /\ UNCHANGED <<svcs, logging>>
       \/ start_service("recovery") /\ Goto("prompt") /\ UNCHANGED logging
       \/ flush_log("prompt") /\ UNCHANGED svcs
    /\ UNCHANGED <<sd, socket, rw, input>>

\* confirm_restart_boot(): without a terminal the system is halted; otherwise
\* the event loop runs until there is input or an order.
NoTerminal ==
    /\ pc = "prompt" /\ ~in_run
    /\ stop_all("HALT") /\ Goto("answered")
    /\ UNCHANGED <<sd, socket, rw, logging, input>>
PromptRuns == pc = "prompt" /\ ~in_run /\ EnterRun
PromptAgain ==
    /\ pc = "prompted" /\ ~input /\ type = "NONE"
    /\ Goto("prompt")
    /\ UNCHANGED <<svcs, sd, socket, rw, logging, input>>
Answer ==
    /\ pc = "prompted" /\ (input \/ type # "NONE") /\ input' = FALSE
    /\ \/ Goto("answered") /\ UNCHANGED svcs                  \* 's', no character, or an order only
       \/ input /\ Goto("prompt") /\ UNCHANGED svcs           \* another character, or no recovery service
       \/ input /\ Goto("answered") /\ (stop_all("REBOOT") \/ stop_all("POWEROFF") \/ start_service("recovery"))
    /\ UNCHANGED <<sd, socket, rw, logging>>

AfterPrompt ==
    /\ pc = "answered"
    /\ \/ active # {} /\ Goto("loop") /\ UNCHANGED <<svcs, sd, logging>>
       \/ active = {} /\ type # "NONE" /\ sd' = type /\ Goto("exec") /\ UNCHANGED <<svcs, logging>>
       \/ active = {} /\ type = "NONE" /\ sd' = type /\ start_service("boot") /\ Goto("loop") /\ UNCHANGED logging
       \/ active = {} /\ type = "NONE" /\ sd' = "REBOOT" /\ flush_log("exec") /\ UNCHANGED svcs
    /\ UNCHANGED <<socket, rw, input>>

\* The shutdown program is executed.  If it cannot be, the event loop is run for ever.
ExecShutdown ==
    /\ pc = "exec"
    /\ Goto("shut_down") \/ Goto("forever")
    /\ UNCHANGED <<svcs, sd, socket, rw, logging, input>>
RunForEver == pc = "forever" /\ ~in_run /\ EnterRun

Main ==
    \/ OpenAtStart \/ LogAtStart \/ StartServices \/ Ready \/ LoopRuns \/ LoopEnds \/ FlushRuns \/ FlushEnds
    \/ CloseSocket \/ SoftReboot \/ ExecAgain \/ BootFailure \/ NoTerminal \/ PromptRuns \/ PromptAgain \/ Answer
    \/ AfterPrompt \/ ExecShutdown \/ RunForEver \/ LeaveRun

Told == \E s \in stopping : ServiceStops(s)

Next ==
    \/ Main
    \/ \E s \in active : ServiceStops(s)
    \/ ClientStarts \/ (\E t \in OrderTypes : Order(t)) \/ sigint_reboot_cb \/ sigterm_cb \/ sigquit_cb \/ sigusr1_cb
    \/ rootfs_is_rw \/ LogReady \/ LogStream \/ FlushTimer \/ ConsoleInput \/ control_socket_cb \/ FileSystem

\* The program goes on; a service that is told to stop does (the subject of
\* Service and ProcService), and a timer that is armed expires.  An event that
\* has happened stays pending while the event loop is not running, and run()
\* handles what is pending: strong fairness of these two.
Fairness == WF_vars(Main) /\ SF_vars(Told) /\ SF_vars(FlushTimer)

Spec == Init /\ [][Next]_vars /\ Fairness
-----------------------------------------------------------------------------
(***************************************************************************)
(* Properties                                                              *)
(***************************************************************************)
Ended == {"exited", "new_dinit", "shut_down", "killed", "forever"}

\* Once a shutdown is ordered and every service told to stop, the program comes
\* to its end, whatever else happens in the four places that run the event
\* loop: a log that cannot be written holds it up for no more than the five
\* seconds of flush_log(), and no late order, start or signal sends it back.
ProgramEnds ==
    (pc = "loop" /\ type \notin {"NONE", "REMAIN"} /\ active \subseteq stopping) ~> (pc \in Ended)

\* A shutdown that was ordered ends with no service active: a start order that
\* comes in the meantime, or while the log is being flushed, is refused.  (Only
\* SIGQUIT shuts down without a roll-back; REBOOT is also what the program falls
\* back on, without an order.)
EndsWithoutServices == pc \in Ended \ {"killed"} /\ sd \notin {"NONE", "REBOOT"} => active = {}

\* Readiness that could not be reported at the start, as there was no socket
\* then, is reported when there is one.  (It does not hold; README.)
ReadinessReported == pc = "loop" /\ ~in_run /\ open => ~ready_fd

\* With the type REMAIN, the program goes on to handle events.  (It does not
\* hold; README.)
RemainServes == (pc = "loop" /\ type = "REMAIN" /\ active = {}) ~> in_run
=============================================================================
