---------------------------- MODULE ProcService ----------------------------
(***************************************************************************)
(* Services with a process: base_process_service, process_service,         *)
(* bgproc_service and scripted_service (baseproc-service.cc,               *)
(* proc-service.cc, proc-service.h).  They give `Service' the bring_up(),  *)
(* bring_down(), interrupt_start() and check_restart() that it leaves open *)
(* and bring in events of their own: the status pipe of a child that is    *)
(* about to exec, the end of a child, a readiness notification, the one    *)
(* timer.  Each comes between any two others, and between any two orders.  *)
(***************************************************************************)
EXTENDS Service

CONSTANTS
    ProcConfig,  \* the settings of the services that have a process
    Exits        \* the ways in which processes end

ProcConfigType ==
    [notify : BOOLEAN,              \* readiness notification
     stop_command : BOOLEAN, start_interruptible : BOOLEAN,
     smooth_recovery : BOOLEAN, skippable : BOOLEAN,
     start_timeout : BOOLEAN, stop_timeout : BOOLEAN,  \* whether there is one
     max_restarts : Nat,            \* max_restart_interval_count, 0: no limit
     exec_fails : BOOLEAN]   \* whether a socket, a fork or an exec may fail

ASSUME ProcConfigAssumption ==
    /\ ProcConfig \in [Services -> ProcConfigType]
    /\ Exits \subseteq ExitStatuses \ {"none"}

VARIABLE proc  \* what base_process_service adds to each service_record

pvars == <<vars, proc>>

(***************************************************************************)
(* `pid' and `stop_pid' say whether there is such a process, `watched'     *)
(* whether its end will be reported.  waiting_for_execstat is one flag for *)
(* both commands; `status_pipe' and `stop_pipe' are the watchers that wait *)
(* for the exec of each.  `armed' is the timer, `fresh' the time since     *)
(* restart_interval_time (still within the interval), `recovering' is      *)
(* doing_smooth_recovery.  `killed' and `stop_killed' are outside dinit:   *)
(* the process was sent SIGKILL.                                           *)
(***************************************************************************)
NewProc ==
    [pid |-> FALSE, watched |-> FALSE, tracking_child |-> FALSE, stop_pid |-> FALSE,
     waiting_for_execstat |-> FALSE, status_pipe |-> FALSE, stop_pipe |-> FALSE,
     armed |-> FALSE, waiting_restart_timer |-> FALSE,
     waiting_stopstart_timer |-> FALSE, stop_issued |-> FALSE,
     recovering |-> FALSE, interrupting_start |-> FALSE,
     notification |-> "closed", restarts |-> 0, fresh |-> FALSE,
     killed |-> FALSE, stop_killed |-> FALSE]

Processes == {s \in Services : Config[s].kind \in {"process", "bgprocess", "scripted"}}
Scripted(s) == Config[s].kind = "scripted"

SetProc(s, p) == proc' = [proc EXCEPT ![s] = p]

\* A step of the running handler, and an event that starts one.
Does(s, r, p, made) ==
    /\ SetRecord(s, r) /\ SetProc(s, p) /\ Return(made)
    /\ UNCHANGED <<dep, queues, console, globals>>
Event(s, r, p, made) ==
    /\ Idle
    /\ SetRecord(s, r) /\ SetProc(s, p) /\ calls' = made
    /\ UNCHANGED <<dep, queues, console, globals>>

----------------------------------------------------------------------------
(* The timer and the commands *)

\* `if (waiting_stopstart_timer) { stop the timer; clear the flag }'
TimerEnded(p) ==
    IF p.waiting_stopstart_timer
    THEN [p EXCEPT !.armed = FALSE, !.waiting_stopstart_timer = FALSE] ELSE p

\* `if (timeout != 0) arm the timer'
TimerBegun(p, timeout) ==
    IF timeout THEN [p EXCEPT !.armed = TRUE, !.waiting_stopstart_timer = TRUE] ELSE p

\* start_ps_process(), as far as the parent goes.  A status pipe that is still
\* unread is forgotten: its event is then handled by reading the new one.
Forked(s, p) ==
    [p EXCEPT !.pid = TRUE, !.watched = TRUE, !.killed = FALSE,
              !.status_pipe = TRUE, !.waiting_for_execstat = TRUE,
              !.notification = IF ProcConfig[s].notify THEN "open" ELSE "closed"]
StopForked(p) ==
    [p EXCEPT !.stop_pid = TRUE, !.stop_killed = FALSE,
              !.stop_pipe = TRUE, !.waiting_for_execstat = TRUE]

\* There is no socket, pipe or child to be had; all_deps_started() fails the start.
NotBroughtUp(s, p) ==
    /\ ProcConfig[s].exec_fails
    /\ Does(s, [svc[s] EXCEPT !.state = "STOPPING"], p, <<<<"failed_to_start", s, TRUE>>>>)

\* bring_up(): the ordinary start.
BringUpProcess(s) ==
    LET counted == [proc[s] EXCEPT !.restarts = 0, !.fresh = TRUE]
        p == Forked(s, counted)
    IN  /\ Calling(<<"bring_up", s>>)
        /\ s \in Processes /\ ~svc[s].in_auto_restart
        /\ \/ Does(s, svc[s], IF ProcConfig[s].start_timeout THEN TimerBegun(p, TRUE)
                                                           ELSE TimerEnded(p), <<>>)
           \/ NotBroughtUp(s, counted) \/ NotBroughtUp(s, proc[s])

\* restart_ps_process(): at once, or when the restart delay is over.
RestartProcess(s) ==
    /\ \/ Calling(<<"bring_up", s>>) /\ s \in Processes /\ svc[s].in_auto_restart
       \/ Calling(<<"do_smooth_recovery", s>>)
    /\ \/ Does(s, svc[s], proc[s], <<<<"do_restart", s>>>>)
       \/ Does(s, svc[s], [proc[s] EXCEPT !.armed = TRUE, !.waiting_restart_timer = TRUE], <<>>)
       \/ Calling(<<"bring_up", s>>) /\ NotBroughtUp(s, proc[s])

\* Mutant: a failed fork is forgotten.
DoRestartQuietly(s) ==
    /\ Calling(<<"do_restart", s>>)
    /\ \/ Does(s, svc[s], Forked(s, [proc[s] EXCEPT !.waiting_restart_timer = FALSE]), <<>>)
       \/ /\ ProcConfig[s].exec_fails
          /\ Does(s, svc[s], [proc[s] EXCEPT !.waiting_restart_timer = FALSE], <<>>)

DoRestart(s) ==
    LET p == [proc[s] EXCEPT !.waiting_restart_timer = FALSE]
    IN  /\ Calling(<<"do_restart", s>>)
        /\ \/ Does(s, svc[s], TimerBegun(Forked(s, p), ProcConfig[s].start_timeout), <<>>)
           \/ /\ ProcConfig[s].exec_fails
              /\ Does(s, svc[s], p,
                      << IF svc[s].state = "STARTING" THEN <<"failed_to_start", s, TRUE>>
                                                      ELSE <<"unrecoverable_stop", s>>,
                         <<"process_queues">> >>)

UnrecoverableStop(s) ==
    /\ Calling(<<"unrecoverable_stop", s>>)
    /\ Does(s, [svc[s] EXCEPT !.desired = "STOPPED"], proc[s], <<<<"forced_stop", s>>>>)

(***************************************************************************)
(* interrupt_start(): a restart that is waiting for its delay is given up, *)
(* otherwise the process is signalled and the service STOPPING.            *)
(***************************************************************************)
Interrupted(r, p) == IF p.waiting_restart_timer THEN r ELSE [r EXCEPT !.state = "STOPPING"]
\* Mutant: a process that ignores SIGINT gets all the time it wants.
InterruptingForEver(s, p) ==
    [TimerEnded(p) EXCEPT !.waiting_restart_timer = FALSE,
                          !.armed = @ /\ ~p.waiting_restart_timer]
Interrupting(s, p) ==
    IF p.waiting_restart_timer
    THEN [p EXCEPT !.armed = FALSE, !.waiting_restart_timer = FALSE,
                   !.interrupting_start = FALSE]
    ELSE [(IF ProcConfig[s].stop_timeout THEN TimerBegun(p, TRUE) ELSE TimerEnded(p))
            EXCEPT !.interrupting_start = Scripted(s)]

\* do_stop(): can_interrupt_start() and interrupt_start().
InterruptProcess(s, all) ==
    /\ Calling(<<"interrupt_start", s, all>>)
    /\ s \in Processes
    /\ IF proc[s].waiting_restart_timer \/ ProcConfig[s].start_interruptible
       THEN Does(s, Interrupted(svc[s], proc[s]), Interrupting(s, proc[s]),
                 IF proc[s].waiting_restart_timer THEN <<<<"enter_stopping", s, all>>>> ELSE <<>>)
       ELSE Does(s, svc[s], proc[s], <<>>)

\* check_restart(): whether another automatic restart is allowed.
RestartsLeft(s) ==
    ProcConfig[s].max_restarts = 0 \/ ~proc[s].fresh
        \/ proc[s].restarts < ProcConfig[s].max_restarts
\* Mutant: restarts are not counted.
RestartCountedNever(s) == proc[s]
RestartCounted(s) ==
    IF ProcConfig[s].max_restarts = 0 THEN proc[s]
    ELSE [proc[s] EXCEPT !.fresh = TRUE, !.restarts = IF proc[s].fresh THEN @ + 1 ELSE 1]

\* do_stop(): the check for a process that is to be restarted automatically.
CheckProcessRestart(s) ==
    /\ Calling(<<"check_restart", s>>)
    /\ s \in Processes /\ ~Scripted(s)
    /\ IF RestartsLeft(s)
       THEN Does(s, [svc[s] EXCEPT !.in_auto_restart = TRUE], RestartCounted(s),
                 <<<<"do_stop_for", s, TRUE, FALSE>>>>)
       ELSE Does(s, [svc[s] EXCEPT !.desired = "STOPPED"], proc[s],
                 <<<<"do_stop_for", s, FALSE, FALSE>>>>)

----------------------------------------------------------------------------
(* Bringing down *)

\* process_service::bring_down(): kill the process or run the stop command.
BringDownProcess(s) ==
    LET p == proc[s]
        issued(q) == [TimerBegun(q, ProcConfig[s].stop_timeout) EXCEPT !.stop_issued = TRUE]
    IN  /\ Calling(<<"bring_down", s>>)
        /\ s \in Processes /\ ~Scripted(s)
        /\ \/ /\ p.stop_pid \/ p.stop_issued \/ p.waiting_for_execstat
              /\ Does(s, svc[s], p, <<>>)
           \/ /\ ~p.stop_pid /\ ~p.stop_issued /\ ~p.waiting_for_execstat /\ p.pid
              /\ \/ ProcConfig[s].stop_command /\ Does(s, svc[s], issued(StopForked(p)), <<>>)
                 \/ /\ ~ProcConfig[s].stop_command \/ ProcConfig[s].exec_fails
                    /\ IF p.tracking_child THEN Does(s, svc[s], issued(p), <<>>)
                                           ELSE Does(s, svc[s], p, <<<<"stopped", s>>>>)
           \/ /\ ~p.stop_pid /\ ~p.stop_issued /\ ~p.waiting_for_execstat /\ ~p.pid
              /\ Does(s, svc[s],
                      [p EXCEPT !.recovering = FALSE, !.waiting_restart_timer = FALSE,
                                !.armed = IF p.waiting_restart_timer THEN FALSE ELSE @],
                      <<<<"stopped", s>>>>)

\* scripted_service::bring_down(): run the stop script.
BringDownScripted(s) ==
    /\ Calling(<<"bring_down", s>>)
    /\ s \in Processes /\ Scripted(s)
    /\ \/ proc[s].pid /\ Does(s, svc[s], proc[s], <<>>)
       \/ /\ ~proc[s].pid /\ ProcConfig[s].stop_command
          /\ Does(s, svc[s], TimerBegun(Forked(s, proc[s]), ProcConfig[s].stop_timeout), <<>>)
       \/ /\ ~proc[s].pid /\ (~ProcConfig[s].stop_command \/ ProcConfig[s].exec_fails)
          /\ Does(s, svc[s], proc[s], <<<<"stopped", s>>>>)

----------------------------------------------------------------------------
(* The command has been executed, or could not be *)

\* exec_status_pipe_watcher: the child reports a failed exec ...
ExecFailedEvent(s) ==
    LET p == [proc[s] EXCEPT !.status_pipe = FALSE, !.waiting_for_execstat = FALSE]
    IN  /\ proc[s].status_pipe /\ ProcConfig[s].exec_fails
        /\ Event(s, svc[s],
                 IF p.pid THEN [TimerEnded(p) EXCEPT !.pid = FALSE, !.watched = FALSE] ELSE p,
                 <<<<"exec_failed", s>>, <<"process_queues">>>>)

\* ... or closes the pipe; the process may have ended in the meantime.
ExecEvent(s) ==
    /\ proc[s].status_pipe
    /\ Event(s, svc[s],
             [proc[s] EXCEPT !.status_pipe = FALSE, !.waiting_for_execstat = FALSE],
             <<<<"exec_succeeded", s>>, <<"exec_seen", s>>, <<"process_queues">>>>)

ExecSeen(s) ==
    /\ Calling(<<"exec_seen", s>>)
    /\ Does(s, svc[s], proc[s],
            IF proc[s].pid THEN <<>> ELSE <<<<"handle_exit_status", s>>>>)

ExecSucceeded(s) ==
    LET p == [proc[s] EXCEPT !.tracking_child = TRUE]
    IN  /\ Calling(<<"exec_succeeded", s>>)
        /\ CASE Config[s].kind # "process" -> Does(s, svc[s], proc[s], <<>>)
             [] Config[s].kind = "process" /\ svc[s].state = "STARTING" ->
                    IF ProcConfig[s].notify
                    THEN Does(s, svc[s], [p EXCEPT !.notification = "enabled"], <<>>)
                    ELSE Does(s, svc[s], TimerEnded(p), <<<<"started", s>>>>)
             [] Config[s].kind = "process" /\ svc[s].state = "STARTED" ->
                    Does(s, svc[s], IF p.notification = "closed" THEN TimerEnded(p) ELSE p, <<>>)
             [] OTHER ->
                    Does(s, svc[s], p,
                         IF svc[s].state = "STOPPING" /\ StopCheckDependents(s)
                         THEN <<<<"bring_down", s>>>> ELSE <<>>)

StopForGood(s, p) ==
    Does(s, [svc[s] EXCEPT !.terminated = TRUE], p, <<<<"unrecoverable_stop", s>>>>)

\* process_service and bgproc_service: a failed start, unless the process was
\* up before and this is a smooth recovery.
StartNotExecuted(s, p) ==
    Does(s, [svc[s] EXCEPT !.terminated = FALSE, !.state = "STOPPING"], p,
         <<<<"failed_to_start", s, TRUE>>>>)
ExecFailed(s) ==
    LET p == [TimerEnded(proc[s]) EXCEPT !.notification = "closed"]
    IN  /\ Calling(<<"exec_failed", s>>) /\ Config[s].kind = "process"
        /\ IF svc[s].state = "STARTING" THEN StartNotExecuted(s, p)
           ELSE StopForGood(s, [p EXCEPT !.recovering = FALSE])
LauncherExecFailed(s) ==
    LET p == TimerEnded(proc[s])
    IN  /\ Calling(<<"exec_failed", s>>) /\ Config[s].kind = "bgprocess"
        /\ IF ~proc[s].recovering THEN StartNotExecuted(s, p)
           ELSE StopForGood(s, [p EXCEPT !.recovering = FALSE])

\* Mutant: a script that cannot be executed leaves the service as it is.
ScriptExecFailedIgnored(s) ==
    /\ Calling(<<"exec_failed", s>>) /\ Scripted(s)
    /\ Does(s, svc[s], proc[s], <<>>)

\* scripted_service: no start script, or no stop script.
ScriptExecFailed(s) ==
    /\ Calling(<<"exec_failed", s>>) /\ Scripted(s)
    /\ CASE svc[s].state = "STARTING" ->
               Does(s, [svc[s] EXCEPT !.terminated = FALSE], proc[s],
                    <<<<"failed_to_start", s, TRUE>>>>)
         [] svc[s].state = "STOPPING" -> Does(s, svc[s], proc[s], <<<<"stopped", s>>>>)
         [] OTHER -> Does(s, svc[s], proc[s], <<>>)

\* ready_notify_watcher: the process is ready, or will never say so.
Ready(s) ==
    /\ proc[s].notification = "enabled" /\ svc[s].state = "STARTING"
    /\ Event(s, svc[s], TimerEnded(proc[s]), <<<<"started", s>>, <<"process_queues">>>>)
NotReady(s) ==
    /\ proc[s].notification = "enabled"
    /\ IF svc[s].state = "STARTING"
       THEN Event(s, [svc[s] EXCEPT !.state = "STOPPING"], TimerEnded(proc[s]),
                  <<<<"failed_to_start", s, FALSE>>, <<"bring_down", s>>, <<"process_queues">>>>)
       ELSE Event(s, svc[s], [proc[s] EXCEPT !.notification = "closed"], <<>>)

----------------------------------------------------------------------------
(* A process has ended *)

\* Mutant: the end is handled although the exec status is still to come.
ChildEndsAtOnce(s, status) ==
    /\ proc[s].watched
    /\ Event(s, [svc[s] EXCEPT !.exit = status],
             TimerEnded([proc[s] EXCEPT !.pid = FALSE, !.watched = FALSE]),
             <<<<"handle_exit_status", s>>>>)

\* service_child_watcher: an end before the exec status is left to ExecSeen.
ChildEnds(s, status) ==
    LET p == [proc[s] EXCEPT !.pid = FALSE, !.watched = FALSE]
        r == [svc[s] EXCEPT !.exit = status]
    IN  /\ proc[s].watched
        /\ IF p.waiting_for_execstat THEN Event(s, r, p, <<>>)
           ELSE Event(s, r, TimerEnded(p), <<<<"handle_exit_status", s>>>>)

\* Mutant: nobody is told.
UnexpectedTerminationAlone(s) ==
    /\ Calling(<<"handle_unexpected_termination", s>>)
    /\ Does(s, [svc[s] EXCEPT !.state = "STOPPING", !.desired = "STOPPED"], proc[s],
            <<<<"stopped", s>>>>)

\* handle_unexpected_termination(): stop by force, and restart at once if
\* that is where the forced stop leads.
UnexpectedTermination(s) ==
    /\ Calling(<<"handle_unexpected_termination", s>>)
    /\ Does(s, [svc[s] EXCEPT !.terminated = TRUE, !.force_stop = TRUE], proc[s],
            <<<<"do_stop", s, FALSE>>, <<"process_queues">>, <<"start_again", s>>>>)
StartAgain(s) ==
    /\ Calling(<<"start_again", s>>)
    /\ Does(s, svc[s], proc[s],
            IF svc[s].state = "STOPPING" /\ WillRestart(s)
            THEN <<<<"initiate_start", s>>, <<"process_queues">>>> ELSE <<>>)

\* A STARTED process that has ended: smooth recovery if it may be restarted.
Terminates(s, p) ==
    IF /\ ProcConfig[s].smooth_recovery /\ RestartsLeft(s)
       /\ Config[s].kind = "bgprocess" => svc[s].desired = "STARTED"
    THEN Does(s, svc[s],
              [p EXCEPT !.recovering = TRUE, !.restarts = RestartCounted(s).restarts,
                        !.fresh = RestartCounted(s).fresh],
              <<<<"do_smooth_recovery", s>>, <<"recovery_begun", s>>>>)
    ELSE Does(s, [svc[s] EXCEPT !.desired =
                     IF ProcConfig[s].smooth_recovery /\ ~RestartsLeft(s) THEN "STOPPED" ELSE @],
              p, <<<<"handle_unexpected_termination", s>>, <<"process_queues">>>>)

RecoveryBegun(s) ==
    /\ Calling(<<"recovery_begun", s>>)
    /\ Does(s, svc[s], [proc[s] EXCEPT !.recovering =
                           IF Config[s].kind = "bgprocess" /\ svc[s].state # "STARTED"
                           THEN FALSE ELSE @], <<>>)

\* Mutant: stop_issued is not reset for next time.
EndsStopStillIssued(s, p) ==
    Does(s, svc[s], p,
         (IF ~p.stop_pid /\ ~p.waiting_for_execstat THEN <<<<"stopped", s>>>> ELSE <<>>)
            \o <<<<"process_queues">>>>)

\* The process has ended that a stop was waiting for.
EndsStop(s, p) ==
    IF ~p.stop_pid /\ ~p.waiting_for_execstat
    THEN Does(s, svc[s], [p EXCEPT !.stop_issued = FALSE],
              <<<<"stopped", s>>, <<"process_queues">>>>)
    ELSE Does(s, svc[s], p, <<<<"process_queues">>>>)

\* A process that was to be stopped has ended before its dependents have.
EndsEarly(s, p) ==
    Does(s, svc[s], p,
         (IF WillRestart(s) THEN <<<<"initiate_start", s>>>> ELSE <<>>)
            \o <<<<"process_queues">>>>)

FailsStart(s, p) ==
    Does(s, [svc[s] EXCEPT !.terminated = FALSE], p,
         <<<<"failed_to_start", s, TRUE>>, <<"process_queues">>>>)

\* process_service::handle_exit_status().  With the timer running a STARTED
\* service is in smooth recovery, and not ready yet.
ProcessEnded(s) ==
    LET p == [TimerEnded(proc[s]) EXCEPT !.notification = "closed"]
        unready == proc[s].waiting_stopstart_timer /\ svc[s].state = "STARTED"
    IN  /\ Calling(<<"handle_exit_status", s>>) /\ Config[s].kind = "process"
        /\ CASE svc[s].state = "STARTING" \/ unready -> FailsStart(s, p)
             [] svc[s].state = "STOPPING" ->
                    IF svc[s].waiting_for_deps THEN EndsEarly(s, p) ELSE EndsStop(s, p)
             [] svc[s].state = "STARTED" /\ ~unready -> Terminates(s, p)
             [] OTHER -> Does(s, svc[s], p,
                              <<<<"handle_unexpected_termination", s>>, <<"process_queues">>>>)

\* scripted_service::handle_exit_status(): the start or the stop script.
ScriptEnded(s) ==
    LET status == svc[s].exit
        p == [proc[s] EXCEPT !.interrupting_start = FALSE]
        queued(call) == <<call, <<"process_queues">>>>
    IN  /\ Calling(<<"handle_exit_status", s>>) /\ Scripted(s)
        /\ \/ /\ svc[s].state = "STOPPING" /\ proc[s].interrupting_start
              /\ Does(s, svc[s], TimerEnded(p),
                      queued(IF status = "fail" THEN <<"stopped", s>> ELSE <<"bring_down", s>>))
           \/ /\ svc[s].state = "STOPPING" /\ ~proc[s].interrupting_start
              /\ Does(s, svc[s], p, queued(<<"stopped", s>>))
           \/ /\ svc[s].state # "STOPPING"
              /\ \/ status = "clean"
                 \/ status = "signal" /\ ProcConfig[s].skippable  \* if it is SIGINT
              /\ Does(s, svc[s], proc[s], queued(<<"started", s>>))
           \/ /\ svc[s].state # "STOPPING" /\ status # "clean"
              /\ FailsStart(s, proc[s])

(***************************************************************************)
(* read_pid_file(), after the launcher of a bgproc_service has ended with  *)
(* exit code 0: the daemon's pid cannot be had, the daemon has ended       *)
(* already, or it is there, as a child that can be watched or not.         *)
(***************************************************************************)
Daemon(p, watched) ==
    [p EXCEPT !.pid = TRUE, !.watched = watched, !.tracking_child = watched, !.killed = FALSE]
\* The daemon's end is known: handle_exit_status() goes back to its beginning.
Ended(s, p, status, made) ==
    Does(s, [svc[s] EXCEPT !.exit = status], p, made \o <<<<"handle_exit_status", s>>>>)

\* bgproc_service::handle_exit_status(), the launcher at a start.
LauncherEnded(s) ==
    LET p == TimerEnded(proc[s])
    IN  /\ Calling(<<"handle_exit_status", s>>) /\ Config[s].kind = "bgprocess"
        /\ ~proc[s].recovering /\ svc[s].state = "STARTING"
        /\ \/ FailsStart(s, p)
           \/ /\ svc[s].exit = "clean"
              /\ \/ \E watched \in BOOLEAN :
                       Does(s, svc[s], Daemon(p, watched), <<<<"started", s>>, <<"process_queues">>>>)
                 \/ \E status \in Exits : Ended(s, p, status, <<<<"started", s>>>>)

\* ... the launcher in a smooth recovery ...
RelaunchEnded(s) ==
    LET p == [TimerEnded(proc[s]) EXCEPT !.recovering = FALSE]
        stopping == svc[s].state = "STOPPING"
    IN  /\ Calling(<<"handle_exit_status", s>>) /\ Config[s].kind = "bgprocess"
        /\ proc[s].recovering
        /\ \/ /\ stopping /\ svc[s].exit # "clean"
              /\ IF svc[s].waiting_for_deps THEN EndsEarly(s, p)
                 ELSE Does(s, svc[s], p, <<<<"stopped", s>>, <<"process_queues">>>>)
           \/ /\ stopping /\ svc[s].exit = "clean"
              /\ \/ \E watched \in BOOLEAN :
                       Does(s, svc[s], Daemon(p, watched),
                            IF svc[s].waiting_for_deps THEN <<>>
                            ELSE <<<<"bring_down", s>>, <<"process_queues">>>>)
                 \/ \E status \in Exits :
                       Does(s, [svc[s] EXCEPT !.exit = status], p,
                            IF svc[s].waiting_for_deps THEN <<>>
                            ELSE <<<<"stopped", s>>, <<"process_queues">>>>)
           \/ /\ ~stopping
              /\ Does(s, [svc[s] EXCEPT !.terminated = TRUE], p,
                      <<<<"unrecoverable_stop", s>>, <<"process_queues">>>>)
           \/ /\ ~stopping /\ svc[s].exit = "clean"
              /\ \/ \E watched \in BOOLEAN : Does(s, svc[s], Daemon(p, watched), <<>>)
                 \/ \E status \in Exits : Ended(s, p, status, <<>>)

\* ... and the daemon.
DaemonEnded(s) ==
    LET p == TimerEnded(proc[s])
    IN  /\ Calling(<<"handle_exit_status", s>>) /\ Config[s].kind = "bgprocess"
        /\ ~proc[s].recovering /\ svc[s].state # "STARTING"
        /\ IF svc[s].state = "STOPPING" THEN EndsStop(s, p) ELSE Terminates(s, p)

\* handle_stop_exit(): the stop command has ended.
HandleStopExit(s) ==
    /\ Calling(<<"handle_stop_exit", s>>)
    /\ IF proc[s].pid /\ proc[s].tracking_child THEN Does(s, svc[s], proc[s], <<>>)
       ELSE Does(s, svc[s], [proc[s] EXCEPT !.stop_issued = FALSE], <<<<"stopped", s>>>>)

\* stop_child_watcher and stop_status_pipe_watcher.
StopCommandEnds(s) ==
    /\ proc[s].stop_pid
    /\ Event(s, svc[s], [proc[s] EXCEPT !.stop_pid = FALSE],
             IF proc[s].waiting_for_execstat THEN <<>>
             ELSE <<<<"handle_stop_exit", s>>, <<"process_queues">>>>)
StopExecEvent(s) ==
    /\ proc[s].stop_pipe
    /\ Event(s, svc[s],
             [proc[s] EXCEPT !.stop_pipe = FALSE, !.waiting_for_execstat = FALSE],
             (IF proc[s].stop_pid THEN <<>> ELSE <<<<"handle_stop_exit", s>>>>)
                \o <<<<"process_queues">>>>)
\* The exec failed: the process is signalled instead, if all is still there.
StopExecFailedEvent(s) ==
    LET untracked == proc[s].stop_pid /\ proc[s].pid /\ ~proc[s].tracking_child
    IN  /\ proc[s].stop_pipe /\ ProcConfig[s].exec_fails
        /\ Event(s, svc[s],
                 [proc[s] EXCEPT !.stop_pipe = FALSE, !.waiting_for_execstat = FALSE,
                                 !.stop_pid = FALSE,
                                 !.stop_issued = IF untracked THEN FALSE ELSE @],
                 (IF untracked THEN <<<<"stopped", s>>>> ELSE <<>>) \o <<<<"process_queues">>>>)

(***************************************************************************)
(* timer_expired().  A stop that takes too long is ended with SIGKILL, a   *)
(* start is interrupted and has failed, and without a process it is time   *)
(* for a restart.  After a failed start nobody processes the queues.       *)
(* (A timer that outlives its purpose leaks counts; CountBound caps that.) *)
(* The timer and the status pipe have one priority, and the end of a child *)
(* a higher one: the timer may come between an end and the exec status.    *)
(***************************************************************************)
TimerExpired(s) ==
    LET p == [proc[s] EXCEPT !.armed = FALSE, !.waiting_stopstart_timer = FALSE]
    IN  /\ proc[s].armed /\ WithinBound
        /\ \/ /\ svc[s].state = "STOPPING"
              /\ Event(s, svc[s], [p EXCEPT !.killed = p.pid, !.stop_killed = p.stop_pid], <<>>)
           \/ /\ svc[s].state # "STOPPING" /\ p.pid
              /\ Event(s, [Interrupted(svc[s], p) EXCEPT !.terminated = FALSE],
                       Interrupting(s, p), <<<<"failed_to_start", s, FALSE>>>>)
           \/ /\ svc[s].state # "STOPPING" /\ ~p.pid
              /\ Event(s, svc[s], p, <<<<"do_restart", s>>>>)

\* restart_interval is over.
IntervalEnds(s) ==
    /\ proc[s].fresh /\ ProcConfig[s].max_restarts # 0
    /\ Event(s, svc[s], [proc[s] EXCEPT !.fresh = FALSE], <<>>)

----------------------------------------------------------------------------
ProcInit == Init /\ proc = [s \in Services |-> NewProc]

ProcCall ==
    \E s \in Processes :
        \/ BringUpProcess(s) \/ RestartProcess(s) \/ DoRestart(s) \/ UnrecoverableStop(s)
        \/ CheckProcessRestart(s) \/ BringDownProcess(s) \/ BringDownScripted(s)
        \/ ExecSeen(s) \/ ExecSucceeded(s) \/ ExecFailed(s)
        \/ LauncherExecFailed(s) \/ ScriptExecFailed(s)
        \/ UnexpectedTermination(s) \/ StartAgain(s) \/ RecoveryBegun(s)
        \/ ProcessEnded(s) \/ ScriptEnded(s) \/ LauncherEnded(s) \/ RelaunchEnded(s)
        \/ DaemonEnded(s) \/ HandleStopExit(s)
        \/ \E all \in BOOLEAN : InterruptProcess(s, all)

StatusRead(s) == ExecEvent(s) \/ ExecFailedEvent(s)
StopStatusRead(s) == StopExecEvent(s) \/ StopExecFailedEvent(s)
ChildEvent(s) == \E status \in Exits : ChildEnds(s, status)

ProcEvent ==
    \E s \in Processes :
        \/ StatusRead(s) \/ StopStatusRead(s) \/ ChildEvent(s) \/ StopCommandEnds(s)
        \/ Ready(s) \/ NotReady(s) \/ TimerExpired(s) \/ IntervalEnds(s)

Handler == (CallStep /\ UNCHANGED proc) \/ ProcCall
ProcNext == (Next /\ UNCHANGED proc) \/ ProcCall \/ ProcEvent

(***************************************************************************)
(* The event loop comes to every event that stays ready or becomes ready   *)
(* again: a status pipe that is closed, a timer that is armed.  A process  *)
(* ends if it has been sent SIGKILL; nothing else makes it end.            *)
(***************************************************************************)
ProcFairness ==
    /\ WF_pvars(Handler)
    /\ \A s \in Processes :
          /\ SF_pvars(StatusRead(s)) /\ SF_pvars(StopStatusRead(s))
          /\ SF_pvars(TimerExpired(s))
          /\ SF_pvars(proc[s].killed /\ ChildEvent(s))
          /\ SF_pvars(proc[s].stop_killed /\ StopCommandEnds(s))

ProcSpec == ProcInit /\ [][ProcNext]_pvars /\ ProcFairness

----------------------------------------------------------------------------
(* Properties *)

Quiet(p) ==
    /\ ~p.pid /\ ~p.stop_pid /\ ~p.status_pipe /\ ~p.stop_pipe
    /\ ~p.armed /\ ~p.stop_issued /\ ~p.interrupting_start

(***************************************************************************)
(* A service that is STOPPED, or is about to be brought up, has nothing    *)
(* left of its last run: no process, no stop command, no pipe, no timer    *)
(* that would expire into the next run, and no mark that a stop has been   *)
(* issued.  (A daemon that cannot be watched is simply given up.)          *)
(***************************************************************************)
QuietWhenDown ==
    \A s \in Processes :
        \/ Idle /\ svc[s].state = "STOPPED"
        \/ Calling(<<"bring_up", s>>)
        => Quiet([proc[s] EXCEPT !.pid = @ /\ proc[s].watched])

(***************************************************************************)
(* A process_service that is STARTED has a process, or one is on its way:  *)
(* the restart timer runs or the end of the process is known to a handler  *)
(* that is still to come.                                                  *)
(***************************************************************************)
StartedHasProcess ==
    Idle => \A s \in Processes :
        svc[s].state = "STARTED" /\ ~Scripted(s) =>
            proc[s].pid \/ proc[s].waiting_restart_timer \/ proc[s].status_pipe

(***************************************************************************)
(* A process is forked only when the end of the one before has been seen,  *)
(* and so has its exec status: the watchers of the two are registered for  *)
(* one process at a time.  There is one exception, in timer_expired():     *)
(* the timer of a start, not of a restart delay, that expires between the  *)
(* end of a process and its exec status.                                   *)
(***************************************************************************)
StartTimeoutOvertakes(s) ==
    calls = <<<<"do_restart", s>>>> /\ ~proc[s].waiting_restart_timer

ForksWhenFree ==
    \A s \in Processes :
        \/ Calling(<<"bring_up", s>>) /\ ~svc[s].in_auto_restart
        \/ Calling(<<"do_restart", s>>)
        \/ Calling(<<"bring_down", s>>) /\ Scripted(s) /\ ~proc[s].pid
        => ~proc[s].watched /\ (proc[s].status_pipe => StartTimeoutOvertakes(s))

(***************************************************************************)
(* A stop that waits, waits for something that will be reported: the end   *)
(* of a process that is watched, the end of the stop command or the exec   *)
(* status of either.                                                       *)
(***************************************************************************)
StopHasAnEnd ==
    Idle => \A s \in Processes :
        svc[s].state = "STOPPING" /\ ~svc[s].waiting_for_deps =>
            proc[s].watched \/ proc[s].stop_pid \/ proc[s].status_pipe \/ proc[s].stop_pipe

(***************************************************************************)
(* Between events a service that is STARTED has the ones it needs STARTED, *)
(* although their processes may end at any time.                           *)
(***************************************************************************)
RequiredRuns ==
    Idle => \A l \in LinkSet :
        l.type = "REGULAR" /\ svc[l.from].state = "STARTED" => svc[l.to].state = "STARTED"

(***************************************************************************)
(* Every stop comes to an end, if not by the signal or the stop command    *)
(* then by SIGKILL after the stop timeout.                                 *)
(***************************************************************************)
StopEnds ==
    \A s \in Processes : (svc[s].state = "STOPPING") ~> (svc[s].state # "STOPPING")

(***************************************************************************)
(* A process that keeps ending is not restarted for ever: within the       *)
(* restart interval the restarts come to an end, unless somebody starts    *)
(* the service again.                                                      *)
(***************************************************************************)
RestartsAreLimited ==
    \A s \in Processes :
        []<><<proc'[s].pid /\ ~proc[s].pid>>_pvars =>
            []<><<ControlOrder \/ IntervalEnds(s)>>_pvars
=============================================================================
