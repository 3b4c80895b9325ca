# Verification of dinit as used by cdinit

cdinit packages the service manager *dinit* (vendored under `cdinit/dinit`) as the
init of a container.  This directory holds TLA+ models of dinit's core, the TLC
configurations that check them on small instances, and TLAPS proofs of what holds
for every service graph.  Paths below are relative to `src/cdinit/dinit/src`.

## The system

| component | state | operations | interacts with |
|---|---|---|---|
| service graph (`service.cc`, `service.h`) | per service: current and desired state, `required_by`, explicit activation, pins, waiting and propagation flags; per dependency: `waiting_on`, `holding_acq` | start, stop, restart, require/release, pins, propagation, transition, failure, console | all others |
| service set (`service.h`, `dinit-ll.h`) | propagation, transition and console queues, active count, shutdown flag | queueing, `process_queues`, `stop_all_services` | main loop reads the active count |
| services with a process (`proc-service.cc`, `baseproc-service.cc`) | pid, exec-status pipe, stop command, readiness pipe, one timer for three purposes, restart counter | bring up/down, exit, exec status, readiness, timer | event loop delivers exits, pipes and timers |
| launch (`baseproc-service.cc`, `run-child-proc.cc`) | the descriptors of dinit and of the child, what the child has told | opening, forking, moving descriptors, exec | reports a failure over the status pipe |
| control connections (`control.cc`) | handles, input and output buffers, watches | orders, queries, events | call the service graph, listen to it |
| clients (`dinitctl.cc`, `dinit-monitor.cc`, `dinit-client.h`) | stage of the command, bytes read | request, reply, wait for an event | the control socket |
| log and console (`dinit-log.cc`, `cpbuffer.h`) | two ring buffers, release flag | log, write, hand over the console | service set's console queue |
| loader (`load-service.*`) | records, placeholders, links, calls in progress | load, reload, unload | creates records and links |
| main program (`dinit.cc`) | control socket, readiness, log, shutdown type | boot, signals, main loop, flush, prompt, end | starts services, waits for the active count |
| event loop (`dasynq`) | watchers, queues, timers | dispatch, add, remove | runs every handler |
| `shutdown.cc`, `dinit-check.cc`, `cdinit.sh` | none that lasts | system shutdown, off-line check, container start | run before, after or beside dinit |

What is hard here.  dinit is single threaded, so there are no data races; an event
handler runs to its end before the next event is looked at.  The difficulty is inside
the handler: starting or stopping one service calls into others, which call back, and
two queues that feed each other are emptied in between.  Flags set in one event are
read in a later one.  Counts are changed on a dozen paths and must agree with flags
that are changed on others.  Around this come the exits, pipes and timers of child
processes in any order, and a console that log and services hand to each other.  The
other hard places are where dinit meets another process: a client that sees bytes in
portions and events between a request and its reply, and a child that inherits whatever
descriptor numbers were free.  The loader is hard as the service graph is: it recurses, and
each level can fail after it has changed what the levels above it look at.

The properties that make the core correct: a service starts after what it depends on
and stops after what depends on it; acquisitions are counted exactly; nobody waits
for something that will not happen; pins hold; the console has one owner; every
handler ends and a shutdown completes; client and server keep in step and every request is
answered; a log line is written whole; a process gets the descriptors it asked for and its
failure is told; a failed load changes nothing.  The lines where this is delicate are the
hazards of `PROJECT.json`.

## Modules

`Service` models the service graph, the service set, the orders of control
connections that change it, triggered services and the hand-over of the console.
Its variables are the fields of the code: `svc[s]` is the changing part of a
`service_record`, `dep[l]` the two flags of a `service_dep`, `links` the existing
dependencies in the order of the lists, and the queues and counters of `service_set`.

* *The stack.* The variable `calls` is the sequence of calls that the running handler
  has still to make, next one first.  An action executes the call at its head, as one
  step, and puts the calls it makes in front of the rest; a loop over links is one call
  per link, so that what an iteration changes is seen by the next, as in the code.
  `calls = <<>>` is the program waiting in its event loop; only there can an order or
  another event come in.  So every interleaving that the recursion of the code can
  produce is a behaviour of the model, and no other.
* *Queues.* `slist::is_queued` does not recognise the last of several elements;
  `IsQueued` keeps that, and `Enqueue` what the list then becomes.  `AppendConsole` does
  the same for a doubly linked list that an element is appended to twice.
* *Stop reasons* are reduced to `terminated`, the only thing the code asks of them, and
  an exit status to `exit`: clean, another exit code, an ordinary signal, another signal.
* *Orders.* `Order(op, made)`: a control connection makes the calls and then
  `process_queues()`.  Replies are left out; an order that is refused changes nothing.
* *Settings* that never change are the constant `Config`; `Records`, `Links`,
  `InitLinks` give the graph; `Orders` the orders clients give in a run.
* A service with a process is left open in `Service`: its `bring_up()`,
  `bring_down()`, `interrupt_start()` and `check_restart()` are calls that no action of
  `Service` executes.

`ProcService` extends `Service` and gives the three kinds of services with a process
these calls and their events.  `proc[s]` is what `base_process_service` and
`process_service` add to a record; it says whether there is a process (`pid`), a stop
command (`stop_pid`), a watcher for the end of the process (`watched`; a daemon found by its pid
file may not be a child), which status pipes are open, whether the timer is armed and
the two flags that say what for.  Each event of the event loop is an action that is
possible while `calls` is empty: an exec status, the end of a process or of a stop
command, readiness or its refusal, the timer.  A signal sent to a process changes nothing
in dinit, so it is no state, except SIGKILL, which only the fairness of the process's end
depends on.  Time is two facts: whether the timer is armed, and whether the restart
interval has passed (`fresh`).  An armed timer may be handled before or after any other event: the
event loop takes a batch of events by priority, and a timer has the priority of a status pipe.  `ProcConfig` gives the settings, `Exits` the ways in which
processes end in a run.  The steps between fork and exec are one choice, that of a failed or
a successful exec; failures before the fork (socket, pipes, fork) are one choice too.

`Acquisition` is the abstract specification of the "Acquisition/release" rules in the
comment at the head of `service.h`: a count per service, the set of activated
services, the set of links that hold an acquisition, and four actions.  `Service`
implements it (`ImplementsAcquisition`).

`CPBuffer` is the circular buffer of `cpbuffer.h`: array, position and length, with the wrap
where the code has it.  It has no variables; `Log` and `Control` instantiate it.

`Log` models `dinit-log.cc`: both streams (`stream[i]` is a `buffered_log_stream`), messages in one
piece and in parts with their roll-back, the discard and its notice, each outcome of a write,
the opening and loss of the main log, and the console that services ask for.  A message is
its number, repeated, and a newline.  `sent` and `out` are history: the lines accepted and the bytes
written.  `watched` are the streams whose watcher the event loop still has; one that an error has removed is not
called again, whatever `enable_console_log()` enables.  `Service` has only the moment of the hand-over (`LogReleasesConsole`); `Log` has what
the stream does until then.

`Protocol` gives the packets and the two byte streams of a control connection, `Control` dinit's
end of it (`conn` is a `control_conn_t`, `sys` what it sees of the services), `Client` the
commands of `dinitctl` and `dinit-monitor` as dialogs, and `Connection` composes them: the two
processes interleave, the streams give and take bytes in any portions, and either end may
close.  The first byte of a packet stands for what the packet says, the rest only takes its
place; that is what staying in step needs.  The client waits for as many bytes as its code waits for, and what it takes beyond them is `Stale`: bytes that it never
received and that it may read as any reply.  What an order does to services is in `Service`; here it
is the new state and the events that are broadcast, before or after the reply as in the code.

`Loader` models `load-service.cc`.  Calls of `load_reload_service()` are frames of `stack`, an
action handles one line of the description on top or one step after the last line; `ret` is what the call
below gets or has to catch.  Records have a number, since a name may have a dummy, a placeholder
and a real record at a time.  Both ends of a link are kept, so that a deleted record can stay
linked.  `dangling` are the records with arguments that point into memory that was freed, which happens where
`update_command_and_dependencies()` takes back a command that it has set.  A line is its setting and the service it names.

`Launch` models one launch with descriptor tables: a function from numbers to what is open there
and the set of those that exec closes.  The parent part opens what the service's settings ask for, in the order of the
code (for the input of a consumer, the producer's pipe unless it is open already, which is the state that both services share),
the child part is `run_child_proc()` up to the exec, one action per block of the code.
Where the parent's table has holes is chosen initially, as is whether the producer's pipe is open; the numbers 0 to 2 are in use, as dinit leaves them.  The
failure of a `fcntl()` that has overwritten the status pipe's number (`run-child-proc.cc:161`) is in the model (`CallFails`) and tells nothing, but is therefore not reached: the pipe's number is high enough already.

`System` models `dinit_main()` and the handlers of its signals, timer and control socket.  `pc` is the place in
the program, `in_run` says that the event loop runs there; the four places that run it admit
the same events.  Services are only active or not, told to stop or not.

`MCService`, `MCProcService`, `MCLog`, `MCConnection` and `MCLoader` give the small instances of the
runs; `Launch` and `System` need none.  `ServiceProofs`, `ConsoleProofs`, `LinkProofs`, `ProcProofs`, `LogProofs`, `LaunchProofs`,
`SystemProofs` and `LoaderProofs` hold the theorems.  Definitions under a comment
"Mutant" are the plausible mistakes with which each property is shown to be able to fail;
no specification uses them.

## Runs

| run | states | shows |
|---|---|---|
| `dynamic_deps` | 139 000 | three services, automatic restarts, chaining, a triggered service, dependencies added, enabled and removed, all orders but pins: counts are exact, the active count is that of the services that are not STOPPED, the count decides the target state, STOPPED services are released, no cycle arises, every handler ends, a shutdown completes |
| `soft_dependencies` | 65 000 | milestone, waits-for and ordering links, stop pins that make starts fail: no start is lost, `bring_up()` respects dependencies and ordering, soft dependents are spared |
| `pins_console` | 249 000 | start pins down a chain of services that all use the console, one of which restarts, with a log that may be partway through a message; the orders are start, release, pin, unpin and shutdown: pinned services stay up, the console has one owner and is not lost, the refinement of `Acquisition` |
| `process` | 52 000 | one process with readiness, smooth recovery, interruptible start, both timeouts and a limit of one restart: nothing outlives a stop, no process is forked over another nor over an unread exec status, unless a start timeout overtakes it; every stop ends, restarts are limited |
| `script_on_process` | 782 000 | start and stop scripts, interrupted, skipped, failing or missing, that depend on a process that ends when it likes or cannot be executed: a STARTED service has what it requires, every stop waits for something that will be reported |
| `bgprocess` | 605 000 | a daemon with pid file, stop command and smooth recovery, forks, execs and pid files that fail: a STARTED service has a process or a restart under way |
| `log` | 179 000 | three messages, short, in parts or longer than the buffer, through buffers of four bytes, with every outcome of a write, a main log that is lost and opened again and a service that uses the console: the main log has the accepted lines whole and in order, the console whole lines with notices between them; a discard is forgotten only with the end of a notice, and on the main log, unless it is idle, the notice comes |
| `control` | 178 000 | one client command of each kind against a connection, with services that change and records that are replaced: both keep in step, but for a service record that the client takes without its last byte, handles are valid, no complete request lies in the buffer, every request is answered, every connection is freed |
| `loader` | 137 000 | three descriptions with every kind of link, one edit, errors in any line, services that run: names stay unique and no loading mark is left, no cycle, running services keep what they require, a failed reload changes nothing but the arguments of a service with a command, and those only if it is refused as a cycle |
| `launch` | 273 000 | every set of descriptors a service can ask for, every pattern of free low numbers, every failing call: the process has what it asked for under the numbers it is told and nothing else, a failed child says so; what is opened for a launch that fails is closed, whichever call fails, except where `get_input_fd()` does: then exactly the status pipe leaks |
| `system` | 103 000 | the four roles of dinit, from the control socket to the end, with signals, orders, failed boots, a log that cannot be written and a read-only file system: an ordered shutdown ends, with no service active (for the type REBOOT nothing is said of services: it is also what the program falls back on without an order) |

*Bounds.*  Service runs have three services: a chain, two ways to one service, and a cycle of three are the
shapes in which the propagation order matters, and every loop over links then runs at least
twice somewhere.  `CountBound` (1 to 3) stops further start orders once a counter exceeds it;
it matters only where a count can leak, and the largest legitimate count of these graphs is 3.
One service of each kind with a process is enough for its own state machine, since a service does not
look at another's process; two, one depending on the other, are what dependents need.  The restart limit is 1, so that both sides of it
are reached.  In `script_on_process` only the process has a stop timeout, since a timer in both multiplies
the states and adds no new order of events, and children end with an error or by a signal: a skippable start script that ends by a
signal is a success if the signal is SIGINT and a failure otherwise, an interrupted one takes the branch of a clean end, and for stop scripts and a
process that is never restarted the status makes no difference.  A log buffer of four bytes holds one message of two parts, or a short one and
most of another, and never the longest of the three: each message meets an empty, a partly filled and a full buffer and every position of the
wrap.  `ClientBuf` = 20 stands for the 1024 bytes of the client's buffer: a read stops at the end of the array, and 20 is a size at which this splits a
service record before its last byte when an event came before it.  The receive buffer of a connection holds the longest request and no more, the socket to the client
less than two replies, and the high water mark is one above, so that partial writes, queued packets and a stopped
reader all happen; `Word` stands for 2^32 and is far above both.  `MaxRecords` = 2 lets a service be replaced
once, `MaxEvents` = 1 lets one event come that nobody asked for.  In the loader `MaxDepth` = 4
stops a call that would nest deeper than any description of three services needs (three, and one
more for a placeholder); `load_recursion` raises it to 7.  `launch` has descriptors up to 16 and holes among the numbers 3 to 5:
six descriptors are opened, more holes only shift them; the forced numbers include the three standard ones,
one that is free and ones that others of the six have.  The order types of `system` are one that
starts again in the same process and one that does not.

One run ends in a violation, a disagreement between the code and its own comment, listed as a finding:

| run | what happens |
|---|---|
| `load_recursion` | two services that depend on each other and have placeholders load each other without end, since a placeholder that is filled in is not marked as being loaded (`load-service.cc:391`) |

### Further deviations

These were met while modelling, all of them behaviours of the models unless noted; they have no
run of their own, and they explain what the passing runs leave out.  A property in parentheses is
stated in the module and does not hold; checking it in the named run shows the behaviour.

In the service graph:

* a service that restarts while it is pinned stopped ends STOPPED and counted active
  (`service.cc:127`), and the withdrawal of a dependent's start pin stops a service without
  releasing its dependencies (`service.cc:306`): `dynamic_deps` orders no pins;
* a service that is started again while it is STOPPING restarts afterwards, but its dependencies,
  released with the stop, are not required again; they stop for good and it stays STARTING
  (`service.cc:379`; `service.h:89` says it "will start immediately upon stopping"; `NoLostStart` in `script_on_process`);
* a restarting service waits for a STOPPED soft dependency that nothing will start
  (`service.cc:406`), and `rm_dep()` does not wake a service that waits on the removed link:
  `soft_dependencies` orders neither, `dynamic_deps` does not claim `NoLostStart`;
* the log hands the console over without a `process_queues()` (`dinit-log.cc:130`): the queues may
  hold a service between events, and `pins_console` claims nothing about them;
* with two dependents that stop for good the dependency is brought down when the first
  has stopped (`service.cc:744`); a dependent with a stop script that is told to stop while it still waits for its
  dependencies counts as "trivially" stopped (`service.h:395`), and its script runs while the dependency is brought down;
* a dependent that one restart reaches over two paths is told to stop a second time without
  the restart and loses its activation (`service.cc:653`);
* `unpin()` returns before it removes a stop pin when a dependent is start-pinned;
  `failed_to_start()` drops a start pin without telling the dependencies; a dependency that is added
  to a start-pinned service is not pinned with it;
* the gentle stop asks only about regular links that hold an acquisition (`control.cc:378`): a dependent that
  waits for a milestone is stopped without a report.

In services with a process:

* the status pipe and the timer have the same priority, the end of a child a higher one (`baseproc-service.cc:236`): a start timeout that expires between the end of
  the child and its exec status finds no process, `timer_expired()` calls `do_restart()` (`baseproc-service.cc:474`), and a process is
  forked over the unread status pipe: its descriptor leaks, and its event, handled later, makes dinit read the new pipe, and wait for it
  (the exception `StartTimeoutOvertakes` of `ForksWhenFree`);
* the stop of a service that still waits for its dependents is cancelled by a start, and
  `bring_up()` forks a second process beside the running one (`baseproc-service.cc:43`; `ForksWhenFree` in `script_on_process`);
* a start is interrupted after the child has ended and before its exec status is read:
  `kill_pg()` is called with pid -1 and signals process 1 (`baseproc-service.cc:413`);
* a script that ends before its exec status is read leaves the timer armed, and its expiry runs the
  start script again: the scripts of `script_on_process` have no timeouts;
* a failed exec of a process that is STOPPING leaves it STOPPING (`exec_failed()` expects a
  smooth recovery): `process` has no failing execs, and the process of `script_on_process`, whose execs fail,
  has neither an interruptible start nor a start timeout, so that it is not STOPPING before its exec status is read;
* `handle_stop_exit()` leaves the stop timer armed; the end of the process stops the timer
  while the stop command still runs, so the stop timeout no longer applies to it; and a stop
  command whose exec fails after the process has ended completes no stop: `bgprocess` does not claim `StopHasAnEnd`;
* a daemon that is stopped during smooth recovery with a stop command calls `stopped()`
  twice and the active count becomes -1, and a daemon that cannot be watched is given up while its
  relaunch may still run: `bgprocess` claims no active count and no quiet STOPPED state;
* an interrupted start script whose exec fails leaves `interrupting_start` set; a start timeout calls
  `failed_to_start()` without `process_queues()`; smooth recovery of a process with
  readiness notification never enables the watcher; a process that ends unexpectedly while a dependent that requires it is
  starting can leave the active count too high.

In the log:

* when a release is pending and the buffer runs empty, `release_console()` may find nobody to take the
  console and arms the stream again, but `fd_event()` then disarms it: a stream with messages is not written and
  the next service in the queue never gets the console (`dinit-log.cc:124`–`138`, `249`–`254`; `ConsoleHandedOver` in `log`);
* a short `writev()` takes the whole line out of the buffer and leaves `current_index` (`dinit-log.cc:246`):
  the rest is lost, and the stale index keeps an empty stream armed until the next message.  The properties of `log`
  claim nothing of a stream after that (`cut`);
* a message that is longer than the buffer is discarded, and while the stream is idle nothing is told of it until another line
  is accepted (`dinit-log.cc:498`–`506`; the case that `MustReport` leaves out);
* an error on the console removes its watcher, which `enable_console_log()` enables again without effect
  (`dinit-log.cc:334`); services that wait for the console stay without it.

In control connections and clients:

* `queue_packet(vector&&)` counts a packet after it was moved from, so that `outbuf_size` later wraps below
  zero and reading stops for ever (`control.cc:1608`, `1704`): `Answered` and `Freed` hold until then (`Miscounted`);
* `dinitctl start` waits for ever for a service that fails to start before the order is acknowledged: the event comes before the
  reply and is skipped (`dinitctl.cc:1132`–`1144`; `StartReported` in `control`);
* `check_load_reply()` waits for one byte less than it consumes (`dinitctl.cc:1176`, `1180`; `dinit-monitor.cc:522`, `526`): a
  service record that has arrived without its last byte makes the length of the buffer wrap below zero, and the client goes on with bytes that it never received (the
  exception of `InStep`);
* with two handles for one service, unloading or reloading it over one leaves the other
  (`control.cc:535`, `583`); one connection here uses one handle per service;
* `service_event()` outside the connection's own handler does not ask for the socket to become writable; an invalid dependency
  type is answered with BADREQ, and the request is carried out all the same (`control.cc:876`, `992`); GETALLENV does not
  reset `chklen` (`control.cc:1138`); the length in ENVEVENT leaves its data out; a failed reload drops the handle before it tries.

In the loader:

* a reload that is refused as a cycle restores the command of a process or scripted service with argument pointers into the text
  that `set_command()` has deleted (`load-service.cc:214`–`224`, `includes/proc-service.h:366`, `includes/dinit-util.h:1205`; `load-service.cc:328` says "nothing should change"; the
  exception of `FailedReloadKeeps`): the next start of the service reads freed memory;
* a load that fails deletes the dummy that others link to (`load-service.cc:453`–`457`; `:353` says "If failure occurs at any stage, we
  must restore the previous state"; `FailedLoadRestores` in `loader`); after-placeholders are removed and not deleted;
* the loop that moves "before" links advances its iterator twice, so every second link is lost
  (`load-service.cc:965`); two services, each "before" the other, form a cycle that is not detected;
* a consumer that is replaced, unloaded, or reloaded without "consumer-of" stays registered with the service it consumed;
* `process_dep_dir()` leaks the directory when a load in it throws, and takes no notice of `avoid_circular`;
  `@include` may include itself without end (not in the model).

In the launch (the layouts under `Clash`, of which `RunsWithWhatItAsked` claims nothing):

* a control socket that has the forced notification number is moved with close-on-exec set and is
  closed by the exec, while `DINIT_CS_FD` names it (`run-child-proc.cc:57`, `137`–`141`; `ControlSocketPassed` in `launch`);
* an output pipe with the forced number, or with the number 3 beside an activation socket, is overwritten; a socket that has the number 3 already
  keeps close-on-exec; forcing 3 beside a socket or 0 beside an input overwrites one of the two;
* a failing `get_input_fd()` leaks both ends of the status pipe (`baseproc-service.cc:108`; the exception of `LeaksOnlyWithoutInput`).

In the main program:

* SIGUSR1 opens the control socket but does not report readiness (`dinit.cc:1310`; `:675` says "we will report it when it is"; `ReadinessReported` in
  `system`);
* with the type REMAIN and no service left the main loop spins without running the event loop (`dinit.cc:683`; `service-constants.h:41` says "Continue
  running with no services"; `RemainServes`, with that order type);
* the shutdown type is read before the log is flushed: an order that comes during the flush is ignored or taken
  for the type of the next round, and a start order then leaves services running when a user instance exits;
* the control socket is closed before the prompt after a failed boot and stays closed; end-of-file at the prompt starts the boot again.

Outside the models: `shutdown.cc` writes both bytes of an overflow mark to the same place (`shutdown.cc:245`); the loop of
`cdinit.sh` that waits for the daemon does not end if the daemon fails, and two starts at once overwrite each
other's session environment.

*Fairness.* `WF_vars(CallStep)`: a handler that has begun goes on, it is a running
function.  `WF_vars(LogReleasesConsole)`: the console can be written to in the end.  No
order is fair: nobody has to give one.  `HandlerEnds` and `ShutdownCompletes` rest on the
first alone.  `ProcFairness` adds what the event loop and the kernel owe: the handler, also of
these services, goes on (weak); the status pipe of a forked child is closed by its exec or its
end and is then read, an armed timer expires, and a process that was sent SIGKILL ends and is
reported.  These are strong, because another event's handler disables them for a while.  No
process has to end by itself, become ready, or heed a signal other than SIGKILL.

`Log`: each stream's descriptor is ready to be written again and again (weak, since a watcher that is armed stays so).
`Connection`: dinit's handler goes on once it may run, the client goes on with its
command and ends it (weak); no service has to change, and the client need not begin.  `System`: the program goes on (weak);
a service that was told to stop stops in the end (the subject of `ShutdownCompletes` and `StopEnds`), and the flush timer expires once it is armed (strong: other
events come in between).  Whether the log can be written is not assumed.

## Proofs

| module | proves, for every value of the constants |
|---|---|
| `ServiceProofs` | `TypeCorrect`: `Spec => []TypeOK`; `AcquisitionRefined`: `Spec => ImplementsAcquisition`; `BoundHolds`: `Spec => []AcquisitionBound` |
| `ConsoleProofs` | `ConsoleHasOneOwner`: `Spec => []OneConsoleOwner`; `ConsoleIsNotLost`: `Spec => []ConsoleNotLost` |
| `LinkProofs` | `NoCycleHolds`: `Spec => []NoCycle` |
| `ProcProofs` | the six theorems above for `ProcSpec`, the services with processes |
| `LogProofs` | `MainLogIsComplete`: `Spec => []MainLogComplete`; `ConsoleShowsWholeLines`: `Spec => []ConsoleWholeLines` |
| `LaunchProofs` | `FailuresAreTold`, `OneFailureLeaks`, `ProcessHasItsDescriptors`: `Spec => []` of `FailureIsTold`, `LeaksOnlyWithoutInput`, `RunsWithWhatItAsked` |
| `SystemProofs` | `ShutdownIsComplete`: `Spec => []EndsWithoutServices` |
| `LoaderProofs` | `OneRecordPerName`: `Spec => []RecordsUnique`; `RunningKeepsDeps`: `Spec => []RunningHasDeps`; `NoCycleIsLoaded`: `Spec => []NoCycleLoaded` |

Assumptions, all of them evaluated by TLC in the runs: `LinksAssumption` (finite sets, links between different services),
`LoadedAcyclic` (the graph that the loader hands over has no cycle; for the loader's own records `NoCycleIsLoaded` proves it up to cycles with two or more
"before" links, and no module composes the two specifications) and `ConfigAssumption`
(settings, records and initial links have their types) for the service graph; `LogAssumption` (a buffer of at least one byte, messages of any length)
for the log; `LaunchAssumption` (the table has room beyond the three standard descriptors) for the launch; `ProcConfigAssumption` and
`SystemAssumption` (settings and roles have their types) for processes and the main program; `LoaderAssumption` (descriptions and
included files are sequences of lines, and a line has the kind of value that its setting takes) for the loader.
The graphs, buffer sizes, messages, descriptor numbers, settings, sets of orders, descriptions and the depth of nested loads are arbitrary.

*Acquisition.*  `TypeOK` is inductive and is proved together with the refinement, because
a step of the abstract specification is read off the same updates: `GoodStep` says that
the types hold afterwards and that the step is an abstract step or leaves the abstract
state alone.  The record updates fall into a few classes, each with a lemma: `Kept(r)`, the
records that agree with `r` in count and activation, and `With(n, e)`, those that have the
given ones.  Each action then needs only the class of its update; `NextStep` collects
them.  `BoundHolds` needs no invariant of its own beyond this: `count - owed` never falls
in an abstract step, by the cardinality of a set with one element more or less.
Equality (`AcquisitionExact`) is not a theorem: the code breaks it with pins.

*Console.*  `OneConsoleOwner` is not inductive, since between `release_console()` of the owner and
`pull_console_queue()` nobody has the console.  `ConsoleInv` therefore counts three holders: a
service, the log, and a `pull_console_queue` that is still on the stack; there is at most one of
them at any step, and exactly one.  Of every call it says whether it can be such a
pull, so that an action has only to say which calls it takes from the stack and puts on it.

*Cycles.*  `Reachable` follows the links from one service.  That no link is added from a reachable
service keeps the graph acyclic, because a cycle of the new graph runs over the new link and so
gives a way from its end back to its start in the old one.  The argument uses closed sets of services instead of
paths, so it needs no induction on the length of the cycle.

*Processes.*  `LocalStep` says what every step of `ProcService` that is not one of `Service` does to the service graph: it changes
one record, of it neither count, activation nor console, it makes no pull, and links and dependencies
stay.  Each invariant above is shown to be kept by such a step.

*Log.*  `LogInv` holds for each stream.  While no write was short, the buffer holds whole committed lines
(`Whole`), what was written ends at the place in a line or notice that `special` and `msg_index` say (`Place`), and the
text among it ends with a line (`TextEnds`); after a short write only types and the bounds of the circular buffer are left, which
`StreamOK` states and without which the buffer's operations could not be applied at all.  Every step then is, for
each stream, a `Deposit` of a line, a `Drain` that moves text from the buffer to the file and may drop the
rest on the console, or ends the claim (`StreamStep`).  From there the two theorems are about sequences:
`FlattenAppend`, and `StartOfLines`, by which a text that ends with a newline and is the start of
some lines is the first few of them.  The lemmas on `CPBuffer` (`AppendAdds`, `ConsumeTakes`, `TrimKeeps`) show that the
wrap in array positions is the append, removal and truncation of a sequence.

*Launch.*  `PipeInv` says, for each stage of parent and child, where the status pipe's ends are and that they are
nobody else's; `Layout` says the same of all descriptors the service asks for: which numbers they have by now, that these are
different, and which of them are marked to be closed by the exec.  `LeaksOnlyWithoutInput` needs two more parts: `EndsOfParent`, which
ends the parent's table has while it opens them, and `StatusPipeOnce`, that the child's only copy of the status pipe is one that the exec closes.  One lemma per block of the code carries it to the next stage.

*Main program.*  `SystemInv`: where the program starts services by itself its copy of the shutdown type is NONE (a start that the program
makes is refused by nothing, one of a client by the type), and after the main loop was left for a shutdown no service is active and the type stays set.

*Loader.*  None of the three theorems speaks of calls, but none is inductive without them.  `LoaderInv` has three layers.  `Sound`
is about records alone: they have their types; an id carries the name of its record and only a placeholder is marked as being loaded (`Named`); a
placeholder is STOPPED and has no links but those of other services' "before" settings, and these services are loaded (`Linked`); a STARTED service has
its regular dependencies (`Running`).  The second layer ties records to the stack: a marked record is the dummy of a frame (`Marks`), from
which the second half of `RecordsUnique` follows once the stack is empty, and a frame that waits is at a line that names a service (`Callers`).
The third layer, `Tidy`, is claimed only while no error is on its way up the stack: each frame has a dummy of its own that is there and marked
(`Dummies`, `Distinct`); the placeholder that a frame fills in is there, or a nested call has loaded that service and the frame cannot finish
(`Pending`); the dependencies that a frame has collected are loaded services (`Loaded`, `Result`).  Once a call throws, its dummy is gone while frames
below may still list it, and what saves the invariant is that such an error ends every frame up to the request (only "not found" in a directory is caught,
and it is thrown before anything is made).  `Loaded` is what `RunningKeepsDeps` needs: `check_settings_for_reload()` looks at the states of the collected dependencies, and
between that check and the linking only placeholders are added.  Record numbers are not bounded; the invariant is claimed for some bound N and a step
may raise it.  The end of a load is taken apart along the code: what `AddRecord`, `DropOwnBefores`, `MoveLinks`, `TellConsumer`, `UnlinkDeps`,
`UnlinkDependents` and `Delete` do to `Sound` is a lemma each (`Shrinks` for those that only remove, `AddsWith`, `Replaces` and `Relinks` for the others), and the loops over
"after" and "before" settings are inductions on a set of step numbers (`SetInduction`), which needs no induction theorem with an operator parameter.

*No cycle in the loader.*  `NoCycleIsLoaded` rests on a second invariant, `Safe`, on top of the first.  Links are read as arcs `<<x, y, k>>` (`Arcs`), and `NoWayBack` says of
each arc that some set which arcs other than "before" do not leave has its end in it and its start outside: again sets in place of paths.  The other
part, `Unlinked`, says that no link leads to a record that is marked as being loaded, so the dummy of a load that ends is reached from nowhere (`NotEntered`).
A load adds links only where it ends.  There `check_cycle()` has followed links from every collected dependency and met none of the services that get a "before" link to the
new record (`CycleChecked`, carried through the loops over "after" and "before" settings), and the collected dependencies are loaded and not marked (`Chosen`).  From this three lemmas follow the code: a
new record takes the place of a dummy or of the record that is reloaded (`Taken`), `update_depenencies()` exchanges the links of a record that stays (`Relinked`), and unloading
puts a placeholder in the place of a record (`Replaced`).  All other steps remove links or add records without any (`ShrunkSafe`, `KeepsLinksSafe`).

Only model-checked, and why:

* liveness (`HandlerEnds`, `ShutdownCompletes`, `StopEnds`, `DiscardReported`, `Answered`, `Freed`, `ProgramEnds`): it needs fairness;
* `AcquisitionExact`, `ActiveExact`, `CountDecides`, `StoppedIsReleased`, `NoLostStart`, `QuietWhenDown`, `ForksWhenFree`,
  `StartedHasProcess`, `StopHasAnEnd`, `RequiredRuns`: they hold in the settings of their runs and not in all, see the deviations above,
  so there is no theorem to prove for every value of the constants;
* `SoftDependentsSpared`, `PinnedStaysUp`, `BroughtUpInOrder`, `RestartsAreLimited`: their inductive invariants would have to describe, for every
  call that can be on the stack, what the ones above it may have changed;
* `Connection`: its steps put together and take apart sequences of packets with folds over operators, which the provers cannot instantiate;
* `FailedReloadKeeps`: it compares links by name across records that nested calls replace while the loops of `MoveBefore()` lose some of them, and needs
  the whole of `Intact`, which a failed load does not keep.

## Plan

Done: all modules of the list above, and the proofs.  Left: the handles of a connection (`HandlesAgree`), which do not depend on the
contents of its packets, and a composition of loader and service graph in which `LoadedAcyclic` would be a consequence.

## Not modelled

* The event loop (`dasynq`) is a vendored library; the models assume its contract: one handler at a time, a watcher that is
  armed is called while its descriptor is ready, a timer expires once.  Of its `run()` `System` has that it handles events and then returns.
* Text: parsing of settings, environment files, options and template arguments; output of the tools; the bodies of status and environment replies.
* The branches of the control protocol for versions before 5; `dinitctl`'s enabling and disabling without a daemon; lack of
  memory, except where a packet is queued for it; requests with lengths or values out of range.
* The refusals of a reload that changes the pid file, the inittab entry or the shared console of a running service (`load-service.cc:269`–`295`): they come before
  anything is changed, so the model only lets more reloads go on.
* Settings that the child applies besides its descriptors are one step that may fail; utmp records; the buffered
  output of a service.
* `shutdown.cc` acts on the kernel in a fixed order, `dinit-check.cc` loads once and exits, and
  `cdinit.sh` is a shell script around dinit; they keep no state that another part reads.
