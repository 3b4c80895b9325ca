------------------------------- MODULE Launch -------------------------------
(***************************************************************************)
(* How a service's process is launched: the parent opens what the process  *)
(* is to have (open_socket(), start_ps_process(), baseproc-service.cc) and *)
(* forks; the child moves the descriptors to where the service expects     *)
(* them, out of each other's way, and becomes the process                  *)
(* (run_child_proc(), run-child-proc.cc).  Any call may fail.  The child   *)
(* tells the parent through the status pipe; the end of that pipe without  *)
(* a word is taken for a success of exec (exec_status_pipe_watcher).       *)
(*                                                                         *)
(* A descriptor table is a function from numbers to what is open there,    *)
(* with the set of the numbers that exec closes.                           *)
(***************************************************************************)
EXTENDS Integers, FiniteSets, FiniteSetsExt, Functions, TLC

CONSTANTS
    MaxFd,         \* bound: the highest descriptor number of a process
    Low,           \* numbers that dinit's other descriptors may have left free
    ForcedFds      \* values of force_notification_fd, when it is set

Fds == 0 .. MaxFd
Kept == {"input", "output", "socket"}       \* may be open since an earlier launch
Settings == Kept \cup {"cs", "notify", "console"}
WriteEnds == {"wpipe", "cs", "notify"}      \* closed by the parent after the fork
ReadEnds == {"status", "control", "ready"}  \* their other ends

ASSUME LaunchAssumption ==
    MaxFd \in Nat /\ MaxFd >= 3 /\ Low \subseteq 3 .. MaxFd /\ ForcedFds \subseteq Fds

VARIABLES
    pc,            \* what the launch does next
    t,             \* the table of the parent, of the child after the fork: [tab, cx]
    parent,        \* the table that the parent keeps at the fork
    fd,            \* the variables wpipefd, csfd, socket_fd, notify_fd, output_fd, input_fd
    given,         \* their values at the fork
    asked,         \* what the service description asks for
    force,         \* force_notification_fd, or -1
    told           \* what the parent reads from the status pipe

vars == <<pc, t, parent, fd, given, asked, force, told>>

At(what) == {n \in Fds : t.tab[n] = what}

\* stdin, stdout and stderr are open in the parent, and so are its event
\* loop's descriptors and whatever else: the numbers that are free vary (3 is
\* free once a readiness descriptor with that number has been closed).
Init ==
    /\ asked \in SUBSET Settings
    /\ \E kept \in SUBSET (Kept \cap asked) :
       \E free \in SUBSET Low : \E at \in Injection(kept, Low \ free) :
         /\ fd = [x \in Settings \cup {"wpipe"} |-> IF x \in kept THEN at[x] ELSE -1]
         /\ t = [tab |-> [n \in Fds |->
                            IF \E x \in kept : at[x] = n THEN CHOOSE x \in kept : at[x] = n
                            ELSE IF n \in 0 .. 2 THEN "tty"
                            ELSE IF n \in Low \ free THEN "own" ELSE "closed"],
                 cx |-> Low \ free]
    /\ given = fd /\ parent = t
    /\ force \in IF "notify" \in asked THEN ForcedFds \cup {-1} ELSE {-1}
    /\ pc = "socket" /\ told = "nothing"
-----------------------------------------------------------------------------
(***************************************************************************)
(* System calls, as functions of a table.                                  *)
(***************************************************************************)
Free(s, min) == {n \in min .. MaxFd : s.tab[n] = "closed"}
Lowest(free) == {n \in free : \A m \in free : n <= m}     \* empty if none is free: the call fails
Put(s, n, what, cx) == [tab |-> [s.tab EXCEPT ![n] = what], cx |-> IF cx THEN s.cx \cup {n} ELSE s.cx \ {n}]
Close(s, n) == Put(s, n, "closed", FALSE)
CloseAll(s, what) ==
    [tab |-> [n \in Fds |-> IF s.tab[n] \in what THEN "closed" ELSE s.tab[n]],
     cx |-> {n \in s.cx : s.tab[n] \notin what}]
Dup2(s, from, to) == IF from = to THEN s ELSE Put(s, to, s.tab[from], FALSE)
move_fd(s, n, to) == IF n = to THEN s ELSE Close(Dup2(s, n, to), n)

Same == UNCHANGED <<asked, force, told>>
Unforked == UNCHANGED <<parent, given>>
\* One step of the launch, which sets the table and the variables.
Step(from, to, s, f) == pc = from /\ pc' = to /\ t' = s /\ fd' = f /\ Unforked /\ Same
-----------------------------------------------------------------------------
(***************************************************************************)
(* The parent                                                              *)
(***************************************************************************)
\* open_socket(): close-on-exec; nothing to do when it is open.
open_socket ==
    IF "socket" \notin asked \/ fd.socket # -1 THEN Step("socket", "status", t, fd)
    ELSE \E n \in Lowest(Free(t, 0)) : Step("socket", "status", Put(t, n, "socket", TRUE), [fd EXCEPT !.socket = n])

\* Opens a pair, of which the child is to have the second.
Pair(from, to, wanted, x, r, cx) ==
    IF ~wanted THEN Step(from, to, t, fd)
    ELSE \E n \in Lowest(Free(t, 0)) : \E m \in Lowest(Free(t, n + 1)) :
           Step(from, to, Put(Put(t, n, r, TRUE), m, x, cx), [fd EXCEPT ![x] = m])

StatusPipe == Pair("status", "input", TRUE, "wpipe", "status", TRUE)
\* get_input_fd(): the reading end of the output of the service's producer,
\* which is opened for it if it is not open yet; the producer keeps both ends.
InputFd ==
    IF "input" \notin asked \/ fd.input # -1 THEN Step("input", "log", t, fd)
    ELSE \E n \in Lowest(Free(t, 0)) : \E m \in Lowest(Free(t, n + 1)) :
           Step("input", "log", Put(Put(t, n, "input", TRUE), m, "feed", TRUE), [fd EXCEPT !.input = n])
LogPipe == Pair("log", "control", "output" \in asked /\ fd.output = -1, "output", "buffer", TRUE)
ControlSocket == Pair("control", "ready", "cs" \in asked, "cs", "control", FALSE)
NotifyPipe == Pair("ready", "fork", "notify" \in asked, "notify", "ready", FALSE)

\* The parent closes the ends of the child; the child has a copy of all.
Fork ==
    /\ pc = "fork" /\ pc' = "stdin"
    /\ parent' = CloseAll(t, WriteEnds) /\ given' = fd
    /\ UNCHANGED <<t, fd>> /\ Same

\* The failure exits of start_ps_process(), after which nothing is forked.  If
\* the producer has no pipe to give, it returns and closes nothing.
\* Mutant: what was opened for the readiness notification stays open.
KeepNotifyPipe(p) ==
    CASE p \in {"socket", "status", "input"} -> {}
      [] p = "log" -> {"status", "wpipe"}
      [] OTHER -> {"status", "wpipe", "control", "cs", "buffer", "output"}

OpenedSoFar(p) ==
    CASE p \in {"socket", "status", "input"} -> {}
      [] p = "log" -> {"status", "wpipe"}
      [] OTHER -> {"status", "wpipe", "control", "cs", "ready", "notify", "buffer", "output"}

LaunchFails ==
    /\ pc \in {"socket", "status", "input", "log", "control", "ready", "fork"}
    /\ pc = "input" => "input" \in asked /\ fd.input = -1
    /\ pc' = "not_launched"
    /\ t' = CloseAll(t, OpenedSoFar(pc))
    /\ UNCHANGED fd /\ Unforked /\ Same
-----------------------------------------------------------------------------
(***************************************************************************)
(* The child: ARRANGE_FDS                                                  *)
(***************************************************************************)
minfd == IF fd.socket = -1 THEN 3 ELSE 4

MoveInput ==
    Step("stdin", "free_wpipe", IF fd.input = -1 THEN t ELSE move_fd(t, fd.input, 0), fd)

\* move_reserved_fd() of what has the number that the notification must have.
\* Mutant: the status pipe stays where it is.
LeaveStatusPipe(x, from, to, min) ==
    IF force = -1 \/ fd[x] # force \/ x = "wpipe" THEN Step(from, to, t, fd)
    ELSE \E n \in Lowest(Free(t, min)) :
           Step(from, to, Close(Put(t, n, t.tab[fd[x]], TRUE), fd[x]), [fd EXCEPT ![x] = n])

FreeForcedNumber(x, from, to, min) ==
    IF force = -1 \/ fd[x] # force THEN Step(from, to, t, fd)
    ELSE \E n \in Lowest(Free(t, min)) :
           Step(from, to, Close(Put(t, n, t.tab[fd[x]], TRUE), fd[x]), [fd EXCEPT ![x] = n])

FreeForWpipe == FreeForcedNumber("wpipe", "free_wpipe", "free_cs", minfd)
FreeForCs == FreeForcedNumber("cs", "free_cs", "free_socket", minfd)
FreeForSocket == FreeForcedNumber("socket", "free_socket", "take", 0)

TakeForcedNumber ==
    IF force \in {-1, fd.notify} THEN Step("take", "above_wpipe", t, fd)
    ELSE Step("take", "above_wpipe", move_fd(t, fd.notify, force), [fd EXCEPT !.notify = force])

\* The numbers of stdin, stdout, stderr and of the socket are kept free.  (The
\* other end of a pair has the smaller number, so that none of the three is
\* below 3, or is 3 when there is a socket: a precaution.)
AboveMin(x, from, to, cx) ==
    IF fd[x] = -1 \/ fd[x] >= minfd \/ (x = "notify" /\ fd[x] = force) THEN Step(from, to, t, fd)
    ELSE \E n \in Lowest(Free(t, minfd)) : Step(from, to, Put(t, n, t.tab[fd[x]], cx), [fd EXCEPT ![x] = n])

WpipeAboveMin == AboveMin("wpipe", "above_wpipe", "above_cs", TRUE)
CsAboveMin == AboveMin("cs", "above_cs", "above_notify", FALSE)
NotifyAboveMin == AboveMin("notify", "above_notify", "environment", FALSE)

(***************************************************************************)
(* SET_NOTIFYFD_VAR, SETUP_ACTIVATION_SOCKET, SETUP_CONTROL_SOCKET,        *)
(* READ_ENV_FILE, CHDIR: the variables of the environment are given the    *)
(* numbers in fd, and the socket gets the number 3.                        *)
(***************************************************************************)
Environment ==
    Step("environment", IF "console" \in asked THEN "limits" ELSE "null",
         IF fd.socket = -1 THEN t ELSE move_fd(t, fd.socket, 3), fd)

(***************************************************************************)
(* SETUP_STDINOUTERR: stdin, stdout and stderr are closed, then opened.    *)
(***************************************************************************)
Stdin ==
    LET closing == {n \in 0 .. 2 : n # force /\ ~(n = 0 /\ fd.input # -1)}
        closed == [tab |-> [n \in Fds |-> IF n \in closing THEN "closed" ELSE t.tab[n]], cx |-> t.cx \ closing]
    IN  Step("null", "output", IF fd.notify # 0 /\ fd.input = -1 THEN Put(closed, 0, "null", FALSE) ELSE closed, fd)

\* Without an output descriptor, the log file is opened.
OpenLogFile ==
    IF fd.output # -1 THEN Step("output", "stdout", t, fd)
    ELSE \E n \in Lowest(Free(t, 0)) : Step("output", "stdout", Put(t, n, "log", FALSE), [fd EXCEPT !.output = n])

\* The notification may have the number of stdout or of stderr.
\* Mutant: the notification with the number of stderr is overwritten.
StdoutThenStderr ==
    Step("stdout", "limits",
         IF fd.notify = 1 THEN move_fd(t, fd.output, 2) ELSE Dup2(move_fd(t, fd.output, 1), 1, 2), fd)

Stdout ==
    Step("stdout", "limits",
         IF fd.notify = 1 THEN move_fd(t, fd.output, 2)
         ELSE LET out == move_fd(t, fd.output, 1) IN IF fd.notify = 2 THEN out ELSE Dup2(out, 1, 2), fd)

(***************************************************************************)
(* SET_RLIMITS and SET_PRIO; ENTER_CGROUP, which must come before the      *)
(* privileges are dropped; SET_UIDGID, SET_CAPS and the signal mask.  What *)
(* these open they close, and each may fail.                               *)
(***************************************************************************)
Limits == Step("limits", "cgroup", t, fd)
EnterCgroup == Step("cgroup", "privileges", t, fd)
Privileges == Step("privileges", "exec", t, fd)

Exec == Step("exec", "running", [tab |-> [n \in Fds |-> IF n \in t.cx THEN "closed" ELSE t.tab[n]], cx |-> {}], fd)

\* failure_out: the stage and the error go to the descriptor in wpipefd.
failure_out(pipe) ==
    /\ pc' = "failed"
    /\ told' = IF pipe # -1 /\ t.tab[pipe] = "wpipe" THEN "error" ELSE "nothing"
    /\ UNCHANGED <<t, asked, force>> /\ Unforked

\* A status pipe that cannot be duplicated is lost: wpipefd is -1 by then.
CallFails ==
    LET lost == pc = "above_wpipe"
    IN  /\ pc \in {"stdin", "free_wpipe", "free_cs", "free_socket", "take", "above_wpipe", "above_cs", "above_notify",
                   "environment", "null", "output", "stdout", "limits", "cgroup", "privileges", "exec"}
        /\ lost => fd.wpipe < minfd
        /\ failure_out(IF lost THEN -1 ELSE fd.wpipe)
        /\ fd' = IF lost THEN [fd EXCEPT !.wpipe = -1] ELSE fd

Next ==
    \/ open_socket \/ StatusPipe \/ InputFd \/ LogPipe \/ ControlSocket \/ NotifyPipe \/ Fork \/ LaunchFails
    \/ MoveInput \/ FreeForWpipe \/ FreeForCs \/ FreeForSocket \/ TakeForcedNumber
    \/ WpipeAboveMin \/ CsAboveMin \/ NotifyAboveMin
    \/ Environment \/ Stdin \/ OpenLogFile \/ Stdout \/ Limits \/ EnterCgroup \/ Privileges \/ Exec \/ CallFails

Spec == Init /\ [][Next]_vars
-----------------------------------------------------------------------------
(***************************************************************************)
(* Properties                                                              *)
(***************************************************************************)
\* The layouts that run_child_proc() does not sort out (see the README): the
\* number that the notification must have is that of the control socket, of
\* the output pipe or of the activation socket (which may be moved to 3), is 3
\* with an activation socket, or is 0 with an input pipe; the output pipe or
\* the activation socket has number 3.
Clash ==
    \/ force # -1 /\ force \in {given.cs, given.output}
    \/ force = 3 /\ given.socket # -1
    \/ force = 0 /\ given.input # -1
    \/ given.socket # -1 /\ given.socket \in {3, force}
    \/ given.output = 3 /\ given.socket # -1

Running(x) == IF x \in asked THEN At(x) = {fd[x]} ELSE At(x) = {}

\* Whatever numbers were free in dinit, a process that runs has each
\* descriptor that its description asks for once, and under the number it is
\* told (run_child_proc() moves up to six descriptors, each out of the others'
\* way), a stdin, a stdout and a stderr, and nothing else: no end of dinit's
\* own pipes, and not the status pipe, whose end dinit waits for.
RunsWithWhatItAsked ==
    pc = "running" /\ ~Clash =>
        /\ Running("cs") /\ Running("notify")
        /\ force # -1 => fd.notify = force
        /\ "socket" \in asked <=> t.tab[3] = "socket"
        /\ "input" \in asked <=> t.tab[0] = "input"
        /\ \A n \in {1, 2} \ {force} :
             t.tab[n] = IF "console" \in asked THEN "tty" ELSE IF "output" \in asked THEN "output" ELSE "log"
        /\ \A n \in 3 .. MaxFd : t.tab[n] \in {"closed", "cs", "notify", "socket"}

\* A child that does not become the process says so: exec_status_pipe_watcher
\* takes silence for a success, and would report a service as started that has
\* no process.
FailureIsTold == pc = "failed" => told = "error"

\* get_input_fd() has failed.
InputRefused == "input" \in asked /\ fd.input = -1 /\ fd.wpipe # -1

\* What the parent has opened for a launch that fails it closes, whichever
\* call fails, with one exception, which leaks both ends of the status pipe:
\* the failure of get_input_fd().  And once a process runs nobody has the
\* writing end of the status pipe, in whatever layout, and the parent none of
\* the child's ends: it would never see that the child's end closes.
LeaksOnlyWithoutInput ==
    /\ pc = "not_launched" =>
         Range(t.tab) \cap (WriteEnds \cup ReadEnds) = IF InputRefused THEN {"status", "wpipe"} ELSE {}
    /\ pc = "running" =>
         "wpipe" \notin Range(t.tab) /\ Range(parent.tab) \cap WriteEnds = {}

\* The process that asks for a control socket has it, under the number that
\* the variable DINIT_CS_FD gives.  (It does not hold; README.)
ControlSocketPassed == pc = "running" /\ "cs" \in asked => t.tab[fd.cs] = "cs"
=============================================================================
