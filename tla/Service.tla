------------------------------ MODULE Service ------------------------------
(***************************************************************************)
(* The service graph of dinit: service_record, service_dep, service_set    *)
(* and triggered_service (service.cc, service.h), the orders a control     *)
(* connection gives them (control.cc) and the hand-over of the console     *)
(* between the log and the services (dinit-log.cc).                        *)
(*                                                                         *)
(* dinit is single threaded: an event handler runs to completion before    *)
(* the event loop runs the next.  What makes it hard is the recursion      *)
(* inside a handler, so the model keeps the stack: `calls' is the sequence *)
(* of calls still to be made, the next one first.  A step executes the     *)
(* call at the head and puts the calls it makes in front of the rest; a    *)
(* loop over links is one call per link.  `calls = <<>>' is the program    *)
(* waiting in the event loop, the only place where an event can come in.   *)
(***************************************************************************)
EXTENDS Integers, Sequences, FiniteSets, SequencesExt

CONSTANTS
    Services,   \* the loaded service records
    Records,    \* the same as a sequence, in the order of service_set::records
    Links,      \* every dependency that may ever exist: [from, to, type]
    InitLinks,  \* the ones the service descriptions give, in load order
    Config,     \* the settings of each service that never change
    Orders,     \* the control orders that clients may give
    CountBound  \* no service is ordered to start once a counter exceeds this

DepTypes == {"REGULAR", "WAITS_FOR", "MILESTONE", "BEFORE", "AFTER"}
Kinds == {"internal", "triggered", "process", "bgprocess", "scripted"}
\* Exit 0, another exit code, an ordinary signal (INT, TERM, HUP, USR1, USR2),
\* any other signal; "none" before a process has ended.
ExitStatuses == {"none", "clean", "fail", "signal", "crash"}

ConfigType ==
    [kind : Kinds, auto_restart : {"NEVER", "ALWAYS", "ON_FAILURE"},
     starts_on_console : BOOLEAN, runs_on_console : BOOLEAN,
     chain_to : SUBSET Services, always_chain : BOOLEAN]

ASSUME LinksAssumption ==
    /\ IsFiniteSet(Services) /\ IsFiniteSet(Links)
    /\ Links \subseteq [from : Services, to : Services, type : DepTypes]
    /\ \A l \in Links : l.from # l.to

ASSUME ConfigAssumption ==
    /\ Config \in [Services -> ConfigType]
    /\ Records \in Seq(Services)
    /\ InitLinks \in Seq(Links)

\* Some link of every set of links leads to a service from which none goes on.
Acyclic(ls) == \A S \in SUBSET ls : S # {} => \E l \in S : \A m \in S : m.from # l.to

\* The loader refuses descriptions that depend on each other (Loader, NoCycleLoaded).
ASSUME LoadedAcyclic == Acyclic({InitLinks[i] : i \in DOMAIN InitLinks})

VARIABLES
    svc,             \* the changing part of each service_record
    dep,             \* the two flags of each service_dep
    links,           \* the dependencies that exist, oldest first
    prop_queue,      \* service_set::prop_queue
    stop_queue,      \* service_set::stop_queue (start and stop transitions)
    console_queue,   \* service_set::console_queue
    log_console,     \* whether the log has the console
    active_services, \* service_set::active_services
    restart_enabled, \* service_set::restart_enabled (false: shutting down)
    calls            \* the calls the running handler has still to make

queues == <<prop_queue, stop_queue>>
console == <<console_queue, log_console>>
globals == <<links, active_services, restart_enabled>>
vars == <<svc, dep, queues, console, globals, calls>>

PropFlags == {"require", "release", "failure", "start", "stop", "pin_dpt"}

(***************************************************************************)
(* `dept_pinned' is dept_pinned_started; `prop' holds the prop_xxx flags   *)
(* that are set; `terminated' is did_finish(stop_reason), the only thing   *)
(* the code ever asks of the stop reason; `exit' is get_exit_status(), and *)
(* a service without a process never sets the last two.                    *)
(***************************************************************************)
SvcType ==
    [state : {"STOPPED", "STARTING", "STARTED", "STOPPING"},
     desired : {"STOPPED", "STARTED"},
     required_by : Int, start_explicit : BOOLEAN,
     pinned_stopped : BOOLEAN, pinned_started : BOOLEAN, dept_pinned : BOOLEAN,
     waiting_for_deps : BOOLEAN, waiting_for_console : BOOLEAN,
     have_console : BOOLEAN, prop : SUBSET PropFlags,
     start_failed : BOOLEAN, force_stop : BOOLEAN,
     in_auto_restart : BOOLEAN, in_user_restart : BOOLEAN,
     terminated : BOOLEAN, exit : ExitStatuses, is_triggered : BOOLEAN]

DepType == [waiting_on : BOOLEAN, holding_acq : BOOLEAN]

NewRecord ==
    [state |-> "STOPPED", desired |-> "STOPPED", required_by |-> 0,
     start_explicit |-> FALSE, pinned_stopped |-> FALSE,
     pinned_started |-> FALSE, dept_pinned |-> FALSE,
     waiting_for_deps |-> FALSE, waiting_for_console |-> FALSE,
     have_console |-> FALSE, prop |-> {}, start_failed |-> FALSE,
     force_stop |-> FALSE, in_auto_restart |-> FALSE,
     in_user_restart |-> FALSE, terminated |-> FALSE,
     exit |-> "none", is_triggered |-> FALSE]

NewLink == [waiting_on |-> FALSE, holding_acq |-> FALSE]

----------------------------------------------------------------------------
(* Calls, links and queues *)

Idle == calls = <<>>
Calling(call) == calls # <<>> /\ Head(calls) = call
Return(made) == calls' = made \o Tail(calls)
SetRecord(s, r) == svc' = [svc EXCEPT ![s] = r]
Each(op, ls) == [i \in DOMAIN ls |-> <<op, ls[i]>>]

LinkSet == {links[i] : i \in DOMAIN links}
\* The links of ls that are in P, in their order: a SelectSeq() that takes a
\* set, so that it can be reasoned about.
Only(ls, P) ==
    LET only[n \in 0 .. Len(ls)] ==
            IF n = 0 THEN <<>> ELSE IF ls[n] \in P THEN Append(only[n - 1], ls[n]) ELSE only[n - 1]
    IN  only[Len(ls)]
DependsOn(s) == Only(links, {l \in Links : l.from = s})
Dependents(s) == Only(links, {l \in Links : l.to = s})

IsOnlyOrdering(l) == l.type \in {"BEFORE", "AFTER"}
\* Mutant: a milestone never becomes soft.
IsHardForEver(l) == l.type \in {"REGULAR", "MILESTONE"}

IsHard(l) == l.type = "REGULAR" \/ (l.type = "MILESTONE" /\ dep[l].waiting_on)

(***************************************************************************)
(* slist::is_queued asks whether the node has a successor or is first.     *)
(* The last of two or more elements has no successor and is not first, so  *)
(* it counts as not queued and an insert puts it in the list again.        *)
(***************************************************************************)
IsQueued(q, s) ==
    q # <<>> /\ (Head(q) = s \/ \E i \in 1 .. Len(q) - 1 : q[i] = s)
Enqueue(q, s) == IF IsQueued(q, s) THEN q ELSE <<s>> \o q

AddPropQueue(s) == prop_queue' = Enqueue(prop_queue, s)
AddTransitionQueue(s) == stop_queue' = Enqueue(stop_queue, s)

\* Mutant: the dependents' pins are forgotten.
IsStartPinnedItself(s) == svc[s].pinned_started

IsStartPinned(s) == svc[s].pinned_started \/ svc[s].dept_pinned

IsFundamentallyStopped(s) ==
    \/ svc[s].state = "STOPPED"
    \/ svc[s].state = "STARTING" /\ svc[s].waiting_for_deps
CanInterruptStop(s) == svc[s].waiting_for_deps /\ ~svc[s].force_stop
CheckDepsStarted(s) == \A l \in LinkSet : l.from = s => ~dep[l].waiting_on
StopCheckDependents(s) ==
    \A l \in LinkSet :
        l.to = s /\ IsHard(l) /\ dep[l].holding_acq => dep[l].waiting_on

(***************************************************************************)
(* release(): what it does to the record `r' itself, whether it queues the *)
(* service for propagation, and whether release(true) calls do_stop().     *)
(***************************************************************************)
Pinned(r) == r.pinned_started \/ r.dept_pinned
\* Mutant: the desired state copies the current one.
ReleasedToCurrent(r) ==
    [r EXCEPT !.required_by = @ - 1, !.desired = r.state]

Released(r) ==
    IF r.required_by # 1 THEN [r EXCEPT !.required_by = @ - 1]
    ELSE [r EXCEPT !.required_by = 0, !.desired = "STOPPED",
                   !.prop = CASE Pinned(r) -> @
                              [] ~Pinned(r) /\ "require" \in @ ->
                                     @ \ {"require", "release"}
                              [] OTHER -> @ \cup {"release"}]

ReleaseQueues(r) ==
    r.required_by = 1 /\ ~Pinned(r) /\ "require" \notin r.prop
ReleaseStops(r) ==
    r.required_by = 1 /\ ~Pinned(r) /\ r.state \notin {"STOPPED", "STOPPING"}

\* Mutant: the acquisition is released whether or not the link holds one.
GivenUpAlways(l) == Released(svc[l.to])

(***************************************************************************)
(* `if (dep.holding_acq) dep_to->release()': the record of the dependency  *)
(* afterwards, its place in the queue, and the calls that are made.        *)
(***************************************************************************)
GivenUp(l) ==
    IF dep[l].holding_acq
    THEN [Released(svc[l.to]) EXCEPT
             !.terminated = IF ReleaseStops(svc[l.to]) THEN FALSE ELSE @]
    ELSE svc[l.to]
GiveUpQueues(l) ==
    IF dep[l].holding_acq /\ ReleaseQueues(svc[l.to])
    THEN AddPropQueue(l.to) ELSE UNCHANGED prop_queue
GiveUpStops(l) ==
    IF dep[l].holding_acq /\ ReleaseStops(svc[l.to])
    THEN <<<<"do_stop", l.to, FALSE>>>> ELSE <<>>

\* dependency_started() of the service that waits on link l.
DependencyStarted(s) ==
    IF svc[s].state \in {"STARTING", "STARTED"} /\ svc[s].waiting_for_deps
    THEN AddTransitionQueue(s) ELSE UNCHANGED stop_queue

----------------------------------------------------------------------------
(* Starting *)

\* Mutant: the count is tested after the increment.
WakesLate(r) == r.required_by = 1 /\ r.state \notin {"STARTING", "STARTED"}

\* require() of a record that nobody required so far makes it start.
Wakes(r) == r.required_by = 0 /\ r.state \notin {"STARTING", "STARTED"}

\* require(), always followed by setting holding_acq on the link it is for.
Require(l) ==
    /\ Calling(<<"require", l>>)
    /\ LET wake == Wakes(svc[l.to])
       IN  /\ SetRecord(l.to, [svc[l.to] EXCEPT
                             !.required_by = @ + 1,
                             !.prop = IF wake THEN @ \cup {"start"} ELSE @])
           /\ IF wake THEN AddPropQueue(l.to) ELSE UNCHANGED prop_queue
    /\ dep' = [dep EXCEPT ![l].holding_acq = TRUE]
    /\ Return(<<>>)
    /\ UNCHANGED <<stop_queue, console, globals>>

Start(s) ==
    /\ Calling(<<"start", s>>)
    /\ IF svc[s].pinned_stopped
       THEN Return(<<>>) /\ UNCHANGED svc
       ELSE /\ SetRecord(s, [svc[s] EXCEPT
                   !.required_by = IF svc[s].start_explicit THEN @ ELSE @ + 1,
                   !.start_explicit = TRUE])
            /\ Return(<<<<"do_start", s>>>>)
    /\ UNCHANGED <<dep, queues, console, globals>>

\* do_start(): a service that is pinned stopped fails to start.
RefusesStart(s) == svc[s].pinned_stopped

DoStart(s) ==
    /\ Calling(<<"do_start", s>>)
    /\ SetRecord(s, [svc[s] EXCEPT !.desired = "STARTED"])
    /\ Return(CASE RefusesStart(s) /\ svc[s].state = "STOPPED" ->
                       <<<<"failed_to_start", s, FALSE>>>>
                [] ~RefusesStart(s) /\ svc[s].state = "STOPPED" ->
                       Each("reattach", Dependents(s)) \o <<<<"activate", s>>>>
                [] ~RefusesStart(s) /\ svc[s].state = "STOPPING"
                       /\ CanInterruptStop(s) -> <<<<"initiate_start", s>>>>
                [] OTHER -> <<>>)
    /\ UNCHANGED <<dep, queues, console, globals>>

\* do_start(): one iteration of the loop that re-attaches soft dependents.
Reattach(l) ==
    /\ Calling(<<"reattach", l>>)
    /\ IF /\ ~IsHard(l) /\ ~dep[l].holding_acq
          /\ svc[l.from].state \in {"STARTED", "STARTING"}
       THEN /\ dep' = [dep EXCEPT ![l].holding_acq = TRUE]
            /\ SetRecord(l.to, [svc[l.to] EXCEPT !.required_by = @ + 1])
       ELSE UNCHANGED <<dep, svc>>
    /\ Return(<<>>)
    /\ UNCHANGED <<queues, console, globals>>

\* do_start(): the end of it for a service that was STOPPED.
Activate(s) ==
    /\ Calling(<<"activate", s>>)
    /\ active_services' = active_services + 1
    /\ IF "release" \in svc[s].prop
       THEN /\ SetRecord(s, [svc[s] EXCEPT !.prop = @ \ {"require", "release"}])
            /\ UNCHANGED prop_queue
       ELSE /\ SetRecord(s, [svc[s] EXCEPT !.prop = @ \cup {"require"}])
            /\ AddPropQueue(s)
    /\ Return(<<<<"initiate_start", s>>>>)
    /\ UNCHANGED <<dep, stop_queue, console, links, restart_enabled>>

\* Mutants: an ordering is waited for as if it were a dependency; nobody waits
\* for a late starter.
MustWaitOnAll(s) == {l \in LinkSet : l.from = s /\ svc[l.to].state # "STARTED"}
MustWaitForNone(s) == {}

\* The links on which start_check_dependencies() makes s wait, and the
\* ordering links on which it makes a STARTING dependent wait for s.
MustWaitOn(s) ==
    {l \in LinkSet :
        l.from = s /\ IF IsOnlyOrdering(l) THEN svc[l.to].state = "STARTING"
                                          ELSE svc[l.to].state # "STARTED"}
MustWaitFor(s) ==
    {l \in LinkSet :
        l.to = s /\ IsOnlyOrdering(l) /\ svc[l.from].state = "STARTING"}

InitiateStart(s) ==
    /\ Calling(<<"initiate_start", s>>)
    /\ SetRecord(s, [svc[s] EXCEPT !.start_failed = FALSE, !.state = "STARTING",
                                !.waiting_for_deps = TRUE])
    /\ dep' = [l \in Links |->
                  IF l \in MustWaitOn(s) \cup MustWaitFor(s)
                  THEN [dep[l] EXCEPT !.waiting_on = TRUE] ELSE dep[l]]
    /\ IF MustWaitOn(s) = {} THEN AddTransitionQueue(s) ELSE UNCHANGED stop_queue
    /\ Return(<<>>)
    /\ UNCHANGED <<prop_queue, console, globals>>

(***************************************************************************)
(* all_deps_started(): queue for the console, or bring the service up.  An *)
(* append to the empty console queue asks the log for the console; the log *)
(* gives it up at once, or later if it is partway through a message.  A    *)
(* service with a process has its own bring_up().                          *)
(***************************************************************************)
NeedsConsole(s) == Config[s].starts_on_console /\ ~svc[s].have_console

\* dlist::append does not ask whether the node is queued: linking one that is
\* cuts off whatever stood behind it.
AppendConsole(q, s) ==
    IF \E i \in DOMAIN q : q[i] = s
    THEN SubSeq(q, 1, CHOOSE i \in DOMAIN q : q[i] = s) ELSE Append(q, s)

\* Mutant: whether the log has the console at all is not asked.
AsksForConsoleAgain == console_queue = <<>>

\* append_console_queue() and enable_console_log(false): the log must let go.
AsksForConsole == console_queue = <<>> /\ log_console = "held"

QueueForConsole(s) ==
    /\ Calling(<<"all_deps_started", s>>)
    /\ NeedsConsole(s)
    /\ SetRecord(s, [svc[s] EXCEPT !.waiting_for_console = TRUE])
    /\ console_queue' = AppendConsole(console_queue, s)
    /\ IF AsksForConsole
       THEN \/ log_console' = "releasing" /\ Return(<<>>)
            \/ log_console' = "released" /\ Return(<<<<"pull_console_queue">>>>)
       ELSE UNCHANGED log_console /\ Return(<<>>)
    /\ UNCHANGED <<dep, queues, globals>>

AllDepsStarted(s) ==
    /\ Calling(<<"all_deps_started", s>>)
    /\ ~NeedsConsole(s)
    /\ SetRecord(s, [svc[s] EXCEPT !.waiting_for_deps = FALSE])
    /\ Return(<<<<"bring_up", s>>>>)
    /\ UNCHANGED <<dep, queues, console, globals>>

BringUp(s) ==
    /\ Calling(<<"bring_up", s>>)
    /\ Config[s].kind \in {"internal", "triggered"}
    /\ Return(IF Config[s].kind = "internal" \/ svc[s].is_triggered
              THEN <<<<"started", s>>>> ELSE <<>>)
    /\ UNCHANGED <<svc, dep, queues, console, globals>>

\* Mutant: the console is given up without passing it on.
ReleaseConsoleSilently(s) ==
    /\ \/ Calling(<<"started", s>>) /\ ~Config[s].runs_on_console
       \/ Calling(<<"stopped", s>>)
    /\ svc[s].have_console
    /\ SetRecord(s, [svc[s] EXCEPT !.have_console = FALSE])
    /\ UNCHANGED <<calls, dep, queues, console, globals>>

\* started() and stopped() give the console back first.
ReleaseConsole(s) ==
    /\ \/ Calling(<<"started", s>>) /\ ~Config[s].runs_on_console
       \/ Calling(<<"stopped", s>>)
    /\ svc[s].have_console
    /\ SetRecord(s, [svc[s] EXCEPT !.have_console = FALSE])
    /\ calls' = <<<<"pull_console_queue">>>> \o calls
    /\ UNCHANGED <<dep, queues, console, globals>>

Started(s) ==
    /\ Calling(<<"started", s>>)
    /\ svc[s].have_console => Config[s].runs_on_console
    /\ SetRecord(s, [svc[s] EXCEPT !.state = "STARTED"])
    /\ Return(IF svc[s].force_stop \/ svc[s].desired = "STOPPED"
              THEN <<<<"do_stop", s, FALSE>>>>
              ELSE Each("notify_started", Dependents(s)))
    /\ UNCHANGED <<dep, queues, console, globals>>

NotifyStarted(l) ==
    /\ Calling(<<"notify_started", l>>)
    /\ IF dep[l].waiting_on THEN DependencyStarted(l.from) ELSE UNCHANGED stop_queue
    /\ dep' = [dep EXCEPT ![l].waiting_on = FALSE]
    /\ Return(<<>>)
    /\ UNCHANGED <<svc, prop_queue, console, globals>>

\* pull_console_queue(), with acquired_console() of the service it pops.
PullConsoleQueue ==
    /\ Calling(<<"pull_console_queue">>)
    /\ IF console_queue = <<>>
       THEN log_console' = "held" /\ Return(<<>>) /\ UNCHANGED <<svc, console_queue>>
       ELSE LET s == Head(console_queue)
                use == svc[s].state = "STARTING" /\ CheckDepsStarted(s)
            IN  /\ console_queue' = Tail(console_queue)
                /\ SetRecord(s, [svc[s] EXCEPT !.waiting_for_console = FALSE,
                                            !.have_console = use])
                /\ Return(IF use THEN <<<<"all_deps_started", s>>>>
                                 ELSE <<<<"pull_console_queue">>>>)
                /\ UNCHANGED log_console
    /\ UNCHANGED <<dep, queues, globals>>

----------------------------------------------------------------------------
(* Failing to start and having stopped *)

UnqueueConsole(s) ==
    console_queue' = IF svc[s].waiting_for_console
                     THEN RemoveFirst(console_queue, s)
                     ELSE console_queue

\* Mutant: start_explicit is not reset.
DeactivatedStillExplicit(r) == IF r.start_explicit THEN Released(r) ELSE r

\* `if (start_explicit) { start_explicit = false; release(false); }'
Deactivated(r) ==
    IF r.start_explicit THEN Released([r EXCEPT !.start_explicit = FALSE]) ELSE r
DeactivateQueues(r) == r.start_explicit /\ ReleaseQueues(r)

FailedToStart(s, immediate_stop) ==
    /\ Calling(<<"failed_to_start", s, immediate_stop>>)
    /\ LET r == [svc[s] EXCEPT !.desired = "STOPPED", !.waiting_for_console = FALSE]
       IN  /\ SetRecord(s, Deactivated(r))
           /\ IF DeactivateQueues(r) THEN AddPropQueue(s) ELSE UNCHANGED prop_queue
    /\ UnqueueConsole(s)
    /\ Return(Each("fail_dependent", Dependents(s))
                 \o <<<<"start_failed", s, immediate_stop>>>>)
    /\ UNCHANGED <<dep, stop_queue, log_console, globals>>

\* failed_to_start(): one iteration of the loop over the dependents.
FailDependent(l) ==
    /\ Calling(<<"fail_dependent", l>>)
    /\ LET strict == l.type \in {"REGULAR", "MILESTONE"}
           fails == strict /\ svc[l.from].state = "STARTING"
           resumes == ~strict /\ dep[l].waiting_on
           holds == dep[l].holding_acq
           q == IF fails THEN Enqueue(prop_queue, l.from) ELSE prop_queue
           failed == [svc[l.from] EXCEPT !.prop = IF fails THEN @ \cup {"failure"} ELSE @]
           freed == IF holds THEN Released(svc[l.to]) ELSE svc[l.to]
       IN  /\ svc' = [svc EXCEPT ![l.from] = failed, ![l.to] = freed]
           /\ prop_queue' = IF holds /\ ReleaseQueues(svc[l.to])
                            THEN Enqueue(q, l.to) ELSE q
           /\ IF resumes THEN DependencyStarted(l.from) ELSE UNCHANGED stop_queue
           /\ dep' = [dep EXCEPT ![l] = [waiting_on |-> IF strict THEN @.waiting_on ELSE FALSE,
                                        holding_acq |-> FALSE]]
    /\ Return(<<>>)
    /\ UNCHANGED <<console, globals>>

StartFailed(s, immediate_stop) ==
    /\ Calling(<<"start_failed", s, immediate_stop>>)
    /\ SetRecord(s, [svc[s] EXCEPT !.start_failed = TRUE,
                                !.pinned_started = FALSE])
    /\ Return(IF immediate_stop THEN <<<<"stopped", s>>>> ELSE <<>>)
    /\ UNCHANGED <<dep, queues, console, globals>>

WillRestart(s) == svc[s].desired = "STARTED" /\ ~svc[s].pinned_stopped

\* Mutant: force_stop is not reset.
StoppedStillForced(s) ==
    /\ Calling(<<"stopped", s>>)
    /\ ~svc[s].have_console
    /\ Return((IF WillRestart(s) THEN <<>> ELSE Each("break_soft", Dependents(s)))
                 \o Each("dependent_stopped", DependsOn(s))
                 \o <<<<"now_stopped", s, WillRestart(s)>>>>)
    /\ UNCHANGED <<svc, dep, queues, console, globals>>

Stopped(s) ==
    /\ Calling(<<"stopped", s>>)
    /\ ~svc[s].have_console
    /\ SetRecord(s, [svc[s] EXCEPT !.force_stop = FALSE])
    /\ Return((IF WillRestart(s) THEN <<>> ELSE Each("break_soft", Dependents(s)))
                 \o Each("dependent_stopped", DependsOn(s))
                 \o <<<<"now_stopped", s, WillRestart(s)>>>>)
    /\ UNCHANGED <<dep, queues, console, globals>>

\* stopped() and stop_dependents(): break a soft dependency.
BreakSoft(l) ==
    /\ Calling(<<"break_soft", l>>)
    /\ IF IsHard(l)
       THEN UNCHANGED <<svc, dep, queues>>
       ELSE LET holds == dep[l].holding_acq
            IN  /\ SetRecord(l.to, IF holds THEN Released(svc[l.to]) ELSE svc[l.to])
                /\ IF holds /\ ReleaseQueues(svc[l.to])
                   THEN AddPropQueue(l.to) ELSE UNCHANGED prop_queue
                /\ IF dep[l].waiting_on
                   THEN DependencyStarted(l.from) ELSE UNCHANGED stop_queue
                /\ dep' = [dep EXCEPT ![l] = NewLink]
    /\ Return(<<>>)
    /\ UNCHANGED <<console, globals>>

DependentStopped(l) ==
    /\ Calling(<<"dependent_stopped", l>>)
    /\ IF svc[l.to].state = "STOPPING" /\ svc[l.to].waiting_for_deps
       THEN AddTransitionQueue(l.to) ELSE UNCHANGED stop_queue
    /\ Return(<<>>)
    /\ UNCHANGED <<svc, dep, prop_queue, console, globals>>

\* Mutant: a service that restarts becomes inactive too.
BecomesInactiveOften(s, will_restart) == svc[s].required_by <= 1

\* stopped(): whether service_inactive() is called.
BecomesInactive(s, will_restart) ==
    ~will_restart /\ ~svc[s].start_explicit /\ svc[s].required_by = 0

\* stopped(): the rest of it, once dependents and dependencies are told.
NowStopped(s, will_restart) ==
    /\ Calling(<<"now_stopped", s, will_restart>>)
    /\ LET r == [svc[s] EXCEPT !.state = "STOPPED"]
       IN  /\ SetRecord(s, IF will_restart THEN r ELSE Deactivated(r))
           /\ IF ~will_restart /\ DeactivateQueues(r)
              THEN AddPropQueue(s) ELSE UNCHANGED prop_queue
           /\ active_services' = active_services - (IF BecomesInactive(s, will_restart) THEN 1 ELSE 0)
    /\ Return((IF will_restart THEN <<<<"initiate_start", s>>>> ELSE <<>>)
                 \o <<<<"chain", s, will_restart>>>>)
    /\ UNCHANGED <<dep, stop_queue, console, links, restart_enabled>>

\* Mutant: the chained service is started during a shutdown too.
ChainsInShutdown(s, will_restart) ==
    /\ ~svc[s].start_failed
    /\ \/ Config[s].always_chain
       \/ svc[s].terminated /\ svc[s].exit = "clean" /\ ~will_restart

\* stopped(): whether the service it chains to, if any, is to be started.
Chains(s, will_restart) ==
    /\ ~svc[s].start_failed /\ restart_enabled
    /\ \/ Config[s].always_chain
       \/ svc[s].terminated /\ svc[s].exit = "clean" /\ ~will_restart

Chain(s, will_restart) ==
    /\ Calling(<<"chain", s, will_restart>>)
    /\ \/ /\ ~Chains(s, will_restart) \/ Config[s].chain_to = {}
          /\ Return(<<>>)
       \/ /\ Chains(s, will_restart)
          /\ \E t \in Config[s].chain_to : Return(<<<<"start", t>>>>)
    /\ UNCHANGED <<svc, dep, queues, console, globals>>

----------------------------------------------------------------------------
(* Stopping *)

Stop(s, bring_down) ==
    /\ Calling(<<"stop", s, bring_down>>)
    /\ LET n == svc[s].required_by - (IF svc[s].start_explicit THEN 1 ELSE 0)
           acts == ~IsStartPinned(s)
           takedown == (bring_down \/ n = 0) /\ svc[s].state # "STOPPED"
           releases == "require" \notin svc[s].prop
       IN  /\ SetRecord(s, [svc[s] EXCEPT
                 !.start_explicit = FALSE, !.required_by = n,
                 !.desired = IF bring_down \/ n = 0 THEN "STOPPED" ELSE @,
                 !.prop = CASE ~acts \/ n # 0 -> @
                            [] acts /\ n = 0 /\ releases -> @ \cup {"release"}
                            [] OTHER -> @ \ {"release"},
                 !.terminated = IF acts /\ takedown THEN FALSE ELSE @])
           /\ IF acts /\ n = 0 /\ releases
              THEN AddPropQueue(s) ELSE UNCHANGED prop_queue
           /\ Return(IF acts /\ takedown THEN <<<<"do_stop", s, FALSE>>>> ELSE <<>>)
    /\ UNCHANGED <<dep, stop_queue, console, globals>>

\* What forced_stop() does to a record; it queues the service iff this holds.
ForcedStop(r) ==
    IF r.state = "STOPPED" THEN r
    ELSE [r EXCEPT !.force_stop = TRUE,
                   !.prop = IF Pinned(r) THEN @ ELSE @ \cup {"stop"}]
ForcedStopQueues(r) == r.state # "STOPPED" /\ ~Pinned(r)

ForceStop(s) ==
    /\ Calling(<<"forced_stop", s>>)
    /\ SetRecord(s, ForcedStop(svc[s]))
    /\ IF ForcedStopQueues(svc[s]) THEN AddPropQueue(s) ELSE UNCHANGED prop_queue
    /\ Return(<<>>)
    /\ UNCHANGED <<dep, stop_queue, console, globals>>

AutoRestarts(s) ==
    \/ Config[s].auto_restart = "ALWAYS"
    \/ /\ Config[s].auto_restart = "ON_FAILURE"
       /\ Config[s].kind \in {"process", "bgprocess"}
       /\ svc[s].exit \in {"fail", "crash"}

\* do_stop(): up to the decision whether this stop is for a restart.
DoStop(s, with_restart) ==
    /\ Calling(<<"do_stop", s, with_restart>>)
    /\ IF IsStartPinned(s)
       THEN Return(<<>>) /\ UNCHANGED svc
       ELSE /\ SetRecord(s, [svc[s] EXCEPT !.in_auto_restart = FALSE,
                                         !.in_user_restart = FALSE])
            /\ Return(IF ~with_restart /\ AutoRestarts(s) /\ svc[s].desired = "STARTED"
                      THEN <<<<"check_restart", s>>>>
                      ELSE <<<<"do_stop_for", s, with_restart, with_restart>>>>)
    /\ UNCHANGED <<dep, queues, console, globals>>

CheckRestart(s) ==
    /\ Calling(<<"check_restart", s>>)
    /\ Config[s].kind \in {"internal", "triggered", "scripted"}
    /\ SetRecord(s, [svc[s] EXCEPT !.in_auto_restart = TRUE])
    /\ Return(<<<<"do_stop_for", s, TRUE, FALSE>>>>)
    /\ UNCHANGED <<dep, queues, console, globals>>

DoStopFor(s, for_restart, restart_deps) ==
    /\ Calling(<<"do_stop_for", s, for_restart, restart_deps>>)
    /\ SetRecord(s, IF for_restart THEN svc[s] ELSE Deactivated(svc[s]))
    /\ IF ~for_restart /\ DeactivateQueues(svc[s])
       THEN AddPropQueue(s) ELSE UNCHANGED prop_queue
    /\ Return(<<<<"stop_dependents", s, 1, for_restart, restart_deps, TRUE>>>>)
    /\ UNCHANGED <<dep, stop_queue, console, globals>>

(***************************************************************************)
(* stop_dependents(), the k-th iteration: `all' is all_deps_stopped.       *)
(***************************************************************************)
StopDependent(l, k, for_restart, restart_deps, all) ==
    LET s == l.to
        f == l.from
        forced == IF ~svc[s].force_stop THEN svc[f]
                  ELSE IF svc[s].desired = "STOPPED"
                  THEN ForcedStop([svc[f] EXCEPT !.desired = "STOPPED",
                                                 !.terminated = FALSE])
                  ELSE ForcedStop(svc[f])
        fq == IF svc[s].force_stop /\ ForcedStopQueues(svc[f])
              THEN Enqueue(prop_queue, f) ELSE prop_queue
        cancels == /\ forced.state # "STOPPED" /\ svc[s].desired = "STOPPED"
                   /\ forced.desired # "STOPPED"
        restarts == /\ forced.state \notin {"STOPPED", "STOPPING"}
                    /\ svc[s].desired # "STOPPED" /\ restart_deps
        cancelled == [forced EXCEPT !.desired = "STOPPED"]
        deactivates == cancels /\ forced.start_explicit
        stops == deactivates /\ ReleaseStops(forced)
        next == <<"stop_dependents", s, k + 1, for_restart, restart_deps,
                  all /\ (IsHard(l) => IsFundamentallyStopped(f))>>
    IN  /\ Calling(<<"stop_dependents", s, k, for_restart, restart_deps, all>>)
        /\ k <= Len(Dependents(s)) /\ Dependents(s)[k] = l
        /\ IF ~IsHard(l)
           THEN /\ Return((IF for_restart THEN <<>> ELSE <<<<"break_soft", l>>>>)
                             \o <<next>>)
                /\ UNCHANGED <<svc, prop_queue>>
           ELSE /\ SetRecord(f,
                      CASE cancels -> [Deactivated(cancelled) EXCEPT
                                          !.terminated = IF stops THEN FALSE ELSE @]
                        [] ~cancels /\ restarts -> [forced EXCEPT !.terminated = FALSE,
                                                                 !.in_user_restart = TRUE]
                        [] OTHER -> forced)
                /\ prop_queue' = IF deactivates /\ ReleaseQueues(forced)
                                 THEN Enqueue(fq, f) ELSE fq
                /\ Return((IF stops THEN <<<<"do_stop", f, FALSE>>>> ELSE <<>>)
                             \o (IF cancels \/ restarts THEN <<<<"prop_stop", f>>>> ELSE <<>>)
                             \o <<next>>)
        /\ UNCHANGED <<dep, stop_queue, console, globals>>

PropStop(s) ==
    /\ Calling(<<"prop_stop", s>>)
    /\ SetRecord(s, [svc[s] EXCEPT !.prop = @ \cup {"stop"}])
    /\ AddPropQueue(s)
    /\ Return(<<>>)
    /\ UNCHANGED <<dep, stop_queue, console, globals>>

\* do_stop(): after stop_dependents(), which call follows for the state.
DependentsTold(s, k, for_restart, restart_deps, all) ==
    /\ Calling(<<"stop_dependents", s, k, for_restart, restart_deps, all>>)
    /\ k > Len(Dependents(s))
    /\ Return(CASE svc[s].state \in {"STOPPED", "STOPPING"} -> <<>>
                [] svc[s].state = "STARTING" /\ ~svc[s].waiting_for_deps
                       /\ ~svc[s].waiting_for_console ->
                       <<<<"interrupt_start", s, all>>>>
                [] OTHER -> <<<<"enter_stopping", s, all>>>>)
    /\ UNCHANGED <<svc, dep, queues, console, globals>>

\* can_interrupt_start() and interrupt_start() of a service without process.
InterruptStart(s, all) ==
    /\ Calling(<<"interrupt_start", s, all>>)
    /\ Config[s].kind \in {"internal", "triggered"}
    /\ Return(IF Config[s].kind = "triggered"
              THEN <<<<"enter_stopping", s, all>>>> ELSE <<>>)
    /\ UNCHANGED <<svc, dep, queues, console, globals>>

EnterStopping(s, all) ==
    /\ Calling(<<"enter_stopping", s, all>>)
    /\ SetRecord(s, [svc[s] EXCEPT
                  !.state = "STOPPING", !.waiting_for_deps = ~all,
                  !.waiting_for_console = IF svc[s].state = "STARTING" THEN FALSE ELSE @])
    /\ IF svc[s].state = "STARTING" THEN UnqueueConsole(s) ELSE UNCHANGED console_queue
    /\ IF all THEN AddTransitionQueue(s) ELSE UNCHANGED stop_queue
    /\ Return(<<>>)
    /\ UNCHANGED <<dep, prop_queue, log_console, globals>>

BringDown(s) ==
    /\ Calling(<<"bring_down", s>>)
    /\ Config[s].kind \in {"internal", "triggered"}
    /\ Return(<<<<"stopped", s>>>>)
    /\ UNCHANGED <<svc, dep, queues, console, globals>>

----------------------------------------------------------------------------
(* Propagation and transition *)

PropOrder == <<"require", "release", "failure", "start", "stop", "pin_dpt">>

\* do_propagation() has come to its k-th test; flag j is the next one set.
AtPropagation(s, k, j) ==
    /\ Calling(<<"do_propagation", s, k>>)
    /\ j >= k /\ PropOrder[j] \in svc[s].prop
    /\ \A i \in k .. j - 1 : PropOrder[i] \notin svc[s].prop

PropagationDone(s, k) ==
    /\ Calling(<<"do_propagation", s, k>>)
    /\ \A i \in k .. 6 : PropOrder[i] \notin svc[s].prop
    /\ Return(<<>>)
    /\ UNCHANGED <<svc, dep, queues, console, globals>>

PropagateRequire(s, k) ==
    /\ AtPropagation(s, k, 1)
    /\ SetRecord(s, [svc[s] EXCEPT !.prop = @ \ {"require"}])
    /\ Return(Each("require", Only(DependsOn(s), {l \in Links : ~IsOnlyOrdering(l)}))
                 \o <<<<"do_propagation", s, 2>>>>)
    /\ UNCHANGED <<dep, queues, console, globals>>

PropagateRelease(s, k) ==
    /\ AtPropagation(s, k, 2)
    /\ Return(Each("release_dependency", DependsOn(s))
                 \o <<<<"dependencies_released", s>>>>)
    /\ UNCHANGED <<svc, dep, queues, console, globals>>

\* release_dependencies(): one iteration.
ReleaseDependency(l) ==
    /\ Calling(<<"release_dependency", l>>)
    /\ SetRecord(l.to, GivenUp(l))
    /\ GiveUpQueues(l)
    /\ Return(GiveUpStops(l))
    /\ dep' = [dep EXCEPT ![l].holding_acq = FALSE]
    /\ UNCHANGED <<stop_queue, console, globals>>

DependenciesReleased(s) ==
    /\ Calling(<<"dependencies_released", s>>)
    /\ SetRecord(s, [svc[s] EXCEPT !.prop = @ \ {"release"}])
    /\ Return(<<<<"do_propagation", s, 3>>>>)
    /\ UNCHANGED <<dep, queues, console, globals>>

PropagateFailure(s, k) ==
    /\ AtPropagation(s, k, 3)
    /\ SetRecord(s, [svc[s] EXCEPT !.prop = @ \ {"failure"},
                                !.terminated = FALSE, !.state = "STOPPED"])
    /\ Return(<<<<"failed_to_start", s, TRUE>>, <<"do_propagation", s, 4>>>>)
    /\ UNCHANGED <<dep, queues, console, globals>>

PropagateStart(s, k) ==
    /\ AtPropagation(s, k, 4)
    /\ SetRecord(s, [svc[s] EXCEPT !.prop = @ \ {"start"}])
    /\ Return(<<<<"do_start", s>>, <<"do_propagation", s, 5>>>>)
    /\ UNCHANGED <<dep, queues, console, globals>>

PropagateStop(s, k) ==
    /\ AtPropagation(s, k, 5)
    /\ SetRecord(s, [svc[s] EXCEPT !.prop = @ \ {"stop"}])
    /\ Return(<<<<"do_stop", s, svc[s].in_user_restart>>, <<"do_propagation", s, 6>>>>)
    /\ UNCHANGED <<dep, queues, console, globals>>

EachPin(s, pin) ==
    [i \in DOMAIN DependsOn(s) |-> <<"pin_dependency", DependsOn(s)[i], pin>>]

\* prop_pin_dpt is never cleared: the test is simply made again next time.
PropagatePin(s, k) ==
    LET pin == \E l \in LinkSet : l.to = s /\ IsHard(l) /\ IsStartPinned(l.from)
        unpinned == ~pin /\ ~svc[s].pinned_started
        stops == /\ svc[s].desired = "STOPPED" \/ svc[s].force_stop
                 /\ svc[s].state = "STARTED"
    IN  /\ AtPropagation(s, k, 6)
        /\ SetRecord(s, [svc[s] EXCEPT !.dept_pinned = pin])
        /\ Return(IF pin = svc[s].dept_pinned THEN <<>>
                  ELSE EachPin(s, pin) \o
                       (IF unpinned /\ stops THEN <<<<"do_stop", s, FALSE>>>> ELSE <<>>))
        /\ UNCHANGED <<dep, queues, console, globals>>

\* The loops of do_propagation(), pin_start() and unpin() over dependencies.
PinDependency(l, pin) ==
    /\ Calling(<<"pin_dependency", l, pin>>)
    /\ IF IsHard(l) /\ svc[l.to].dept_pinned # pin
       THEN /\ SetRecord(l.to, [svc[l.to] EXCEPT !.prop = @ \cup {"pin_dpt"}])
            /\ AddPropQueue(l.to)
       ELSE UNCHANGED <<svc, prop_queue>>
    /\ Return(<<>>)
    /\ UNCHANGED <<dep, stop_queue, console, globals>>

ExecuteTransition(s) ==
    LET starts == svc[s].state = "STARTING" /\ CheckDepsStarted(s)
        stops == svc[s].state = "STOPPING" /\ StopCheckDependents(s)
    IN  /\ Calling(<<"execute_transition", s>>)
        /\ SetRecord(s, [svc[s] EXCEPT !.waiting_for_deps = IF starts \/ stops THEN FALSE ELSE @])
        /\ Return(CASE starts -> <<<<"all_deps_started", s>>>>
                    [] stops -> <<<<"bring_down", s>>>>
                    [] OTHER -> <<>>)
        /\ UNCHANGED <<dep, queues, console, globals>>

ProcessQueues ==
    /\ Calling(<<"process_queues">>)
    /\ CASE prop_queue # <<>> ->
               /\ prop_queue' = Tail(prop_queue)
               /\ calls' = <<<<"do_propagation", Head(prop_queue), 1>>>> \o calls
               /\ UNCHANGED stop_queue
         [] prop_queue = <<>> /\ stop_queue # <<>> ->
               /\ stop_queue' = Tail(stop_queue)
               /\ calls' = <<<<"execute_transition", Head(stop_queue)>>>> \o calls
               /\ UNCHANGED prop_queue
         [] OTHER -> Return(<<>>) /\ UNCHANGED queues
    /\ UNCHANGED <<svc, dep, console, globals>>

----------------------------------------------------------------------------
(* Pins *)

PinStart(s) ==
    /\ Calling(<<"pin_start", s>>)
    /\ SetRecord(s, [svc[s] EXCEPT !.pinned_started = TRUE])
    /\ Return(IF IsStartPinned(s) THEN <<>> ELSE EachPin(s, TRUE))
    /\ UNCHANGED <<dep, queues, console, globals>>

PinStop(s) ==
    /\ Calling(<<"pin_stop", s>>)
    /\ SetRecord(s, [svc[s] EXCEPT !.pinned_stopped = TRUE])
    /\ Return(<<>>)
    /\ UNCHANGED <<dep, queues, console, globals>>

Unpin(s) ==
    /\ Calling(<<"unpin", s>>)
    /\ SetRecord(s, [svc[s] EXCEPT !.pinned_started = FALSE])
    /\ Return(CASE ~svc[s].pinned_started -> <<<<"unpin_stopped", s>>>>
                [] svc[s].pinned_started /\ svc[s].dept_pinned -> <<>>
                [] OTHER -> EachPin(s, FALSE)
                              \o <<<<"unpin_started", s>>, <<"unpin_stopped", s>>>>)
    /\ UNCHANGED <<dep, queues, console, globals>>

UnpinStarted(s) ==
    /\ Calling(<<"unpin_started", s>>)
    /\ LET up == svc[s].state = "STARTED"
       IN  /\ IF up /\ svc[s].required_by = 0
              THEN /\ SetRecord(s, [svc[s] EXCEPT !.prop = @ \cup {"release"}])
                   /\ AddPropQueue(s)
              ELSE UNCHANGED <<svc, prop_queue>>
           /\ Return(IF up /\ (svc[s].desired = "STOPPED" \/ svc[s].force_stop)
                     THEN <<<<"do_stop", s, FALSE>>, <<"process_queues">>>> ELSE <<>>)
    /\ UNCHANGED <<dep, stop_queue, console, globals>>

UnpinStopped(s) ==
    /\ Calling(<<"unpin_stopped", s>>)
    /\ SetRecord(s, [svc[s] EXCEPT !.pinned_stopped = FALSE])
    /\ Return(<<>>)
    /\ UNCHANGED <<dep, queues, console, globals>>

----------------------------------------------------------------------------
(* Orders from control connections, and the console coming free *)

\* An order that is accepted makes the calls `made'.  One that is refused, or
\* a "gentle" stop that finds dependents, only sends a reply.
Order(op, made) ==
    /\ Idle /\ op \in Orders
    /\ calls' = made \o <<<<"process_queues">>>>

\* required_by and active_services may leak: see the findings.
WithinBound ==
    /\ active_services \in -CountBound .. CountBound
    /\ \A s \in Services : svc[s].required_by <= CountBound

StopPinnedDown(s) ==
    svc[s].pinned_stopped /\ svc[s].state \in {"STOPPED", "STOPPING"}
StartPinnedUp(s) == IsStartPinned(s) /\ svc[s].state \in {"STARTED", "STARTING"}
\* The call that a request to pin the service too makes, if clients make it.
PinCalls(op, s) ==
    {<<>>} \cup (IF op \in Orders THEN {<<<<op, s>>>>} ELSE {})

StartService(s) ==
    /\ restart_enabled /\ ~StopPinnedDown(s) /\ WithinBound
    /\ \E pin \in PinCalls("pin_start", s) : Order("start", pin \o <<<<"start", s>>>>)
    /\ UNCHANGED <<svc, dep, queues, console, globals>>

StopService(s) ==
    /\ ~StartPinnedUp(s)
    /\ \E pin \in PinCalls("pin_stop", s) :
          Order("stop", pin \o <<<<"stop", s, TRUE>>, <<"forced_stop", s>>>>)
    /\ UNCHANGED <<svc, dep, queues, console, globals>>

RestartService(s) ==
    /\ restart_enabled /\ ~StartPinnedUp(s) /\ svc[s].state = "STARTED"
    /\ Order("restart", <<<<"do_stop", s, TRUE>>>>)
    /\ SetRecord(s, [svc[s] EXCEPT !.terminated = FALSE, !.force_stop = TRUE])
    /\ UNCHANGED <<dep, queues, console, globals>>

\* The links of the loop that re-attaches s to its running dependents.
WakeLinks(s) ==
    Only(Dependents(s),
         {l \in Links : /\ ~IsOnlyOrdering(l) /\ ~dep[l].holding_acq
                        /\ svc[l.from].state \in {"STARTED", "STARTING"}})

WakeService(s) ==
    /\ restart_enabled /\ ~StopPinnedDown(s) /\ WithinBound
    /\ \E pin \in PinCalls("pin_start", s) :
          Order("wake", Each("require", WakeLinks(s)) \o pin)
    /\ UNCHANGED <<svc, dep, queues, console, globals>>

ReleaseService(s) ==
    /\ \E pin \in PinCalls("pin_stop", s) :
          Order("release", pin \o <<<<"stop", s, FALSE>>>>)
    /\ UNCHANGED <<svc, dep, queues, console, globals>>

UnpinService(s) ==
    /\ Order("unpin", <<<<"unpin", s>>>>)
    /\ UNCHANGED <<svc, dep, queues, console, globals>>

SetTrigger(s, trigger) ==
    /\ Config[s].kind = "triggered"
    /\ Order("trigger",
             IF trigger /\ svc[s].state = "STARTING" /\ ~svc[s].waiting_for_deps
             THEN <<<<"started", s>>>> ELSE <<>>)
    /\ SetRecord(s, [svc[s] EXCEPT !.is_triggered = trigger])
    /\ UNCHANGED <<dep, queues, console, globals>>

StopAllServices ==
    /\ Order("shutdown",
             [i \in 1 .. 2 * Len(Records) |->
                 IF i % 2 = 1 THEN <<"stop", Records[(i + 1) \div 2], FALSE>>
                              ELSE <<"unpin", Records[i \div 2]>>])
    /\ restart_enabled' = FALSE
    /\ UNCHANGED <<svc, dep, queues, console, links, active_services>>

\* Mutant: only the direct dependencies are followed.
ReachableDirectly(s) == {s} \cup {l.to : l \in {m \in LinkSet : m.from = s}}

\* The services that a chain of dependencies leads to from s: those that are in
\* every set which has s and, with a service, all it depends on.
Reachable(s) ==
    LET Closed(S) == s \in S /\ \A l \in LinkSet : l.from \in S => l.to \in S
    IN  {t \in Services : \A S \in SUBSET Services : Closed(S) => t \in S}

Running(s) == svc[s].state \in {"STARTING", "STARTED"}

\* Mutant: the new dependency is acquired for a service that does not run.
AddAcquiresAlways(l) ==
    ~IsOnlyOrdering(l) /\ (l.type = "REGULAR" \/ Running(l.to))

\* add_dep(): a running service acquires its new dependency at once.
AddAcquires(l) ==
    ~IsOnlyOrdering(l) /\ Running(l.from) /\ (l.type = "REGULAR" \/ Running(l.to))

(***************************************************************************)
(* add_service_dep(): `enable' is the order that also starts the           *)
(* dependency.  A type that clients may not give is answered with an error *)
(* and the connection is marked for closing, but the handler goes on.      *)
(***************************************************************************)
AddServiceDep(l, enable) ==
    /\ l.type = "REGULAR" =>
           svc[l.from].state = "STOPPED" \/ svc[l.to].state = "STARTED"
    /\ l.from \notin Reachable(l.to)
    /\ l \notin LinkSet \/ enable
    /\ Idle /\ (IF enable THEN "enable" ELSE "add_dep") \in Orders
    /\ calls' = (IF l \notin LinkSet /\ AddAcquires(l) THEN <<<<"require", l>>>> ELSE <<>>)
                  \o (IF l \notin LinkSet THEN <<<<"process_queues">>>> ELSE <<>>)
                  \o (IF enable THEN <<<<"start_dep", l>>>> ELSE <<>>)
    /\ links' = IF l \in LinkSet THEN links ELSE Append(links, l)
    /\ UNCHANGED <<svc, dep, queues, console, active_services, restart_enabled>>

StartDep(l) ==
    /\ Calling(<<"start_dep", l>>)
    /\ Return(IF Running(l.from) /\ restart_enabled /\ ~dep[l].holding_acq
              THEN <<<<"require", l>>, <<"process_queues">>>> ELSE <<>>)
    /\ UNCHANGED <<svc, dep, queues, console, globals>>

\* rm_service_dep() and rm_dep(): an acquisition is released, with a stop.
RmServiceDep(l) ==
    /\ l \in LinkSet
    /\ Order("rm_dep", GiveUpStops(l))
    /\ SetRecord(l.to, GivenUp(l))
    /\ GiveUpQueues(l)
    /\ dep' = [dep EXCEPT ![l] = NewLink]
    /\ links' = RemoveFirst(links, l)
    /\ UNCHANGED <<stop_queue, console, active_services, restart_enabled>>

(***************************************************************************)
(* The log has written the message it was in and gives the console up:     *)
(* the watcher's fd_event() calls pull_console_queue().  No process_queues *)
(* follows.                                                                *)
(***************************************************************************)
LogReleasesConsole ==
    /\ Idle /\ log_console = "releasing"
    /\ log_console' = "released"
    /\ calls' = <<<<"pull_console_queue">>>>
    /\ UNCHANGED <<svc, dep, queues, console_queue, globals>>

----------------------------------------------------------------------------
Init ==
    /\ svc = [s \in Services |-> NewRecord]
    /\ dep = [l \in Links |-> NewLink]
    /\ links = InitLinks
    /\ prop_queue = <<>> /\ stop_queue = <<>>
    /\ console_queue = <<>> /\ log_console = "held"
    /\ active_services = 0 /\ restart_enabled = TRUE
    /\ calls = <<>>

ServiceCall ==
    \E s \in Services :
        \/ Start(s) \/ DoStart(s) \/ Activate(s) \/ InitiateStart(s)
        \/ QueueForConsole(s) \/ AllDepsStarted(s) \/ BringUp(s)
        \/ ReleaseConsole(s) \/ Started(s) \/ Stopped(s)
        \/ ForceStop(s) \/ CheckRestart(s) \/ PropStop(s) \/ BringDown(s)
        \/ DependenciesReleased(s) \/ ExecuteTransition(s)
        \/ PinStart(s) \/ PinStop(s) \/ Unpin(s) \/ UnpinStarted(s) \/ UnpinStopped(s)
        \/ \E b \in BOOLEAN :
              \/ FailedToStart(s, b) \/ StartFailed(s, b) \/ NowStopped(s, b)
              \/ Chain(s, b) \/ Stop(s, b) \/ DoStop(s, b)
              \/ InterruptStart(s, b) \/ EnterStopping(s, b)
        \/ \E fr, rd \in BOOLEAN :
              \/ DoStopFor(s, fr, rd)
              \/ \E all \in BOOLEAN, k \in 1 .. Len(links) + 1 :
                    DependentsTold(s, k, fr, rd, all)
        \/ \E k \in 1 .. 6 :
              \/ PropagationDone(s, k) \/ PropagateRequire(s, k)
              \/ PropagateRelease(s, k) \/ PropagateFailure(s, k)
              \/ PropagateStart(s, k) \/ PropagateStop(s, k) \/ PropagatePin(s, k)

LinkCall ==
    \E l \in Links :
        \/ Require(l) \/ Reattach(l) \/ NotifyStarted(l) \/ FailDependent(l)
        \/ BreakSoft(l) \/ DependentStopped(l) \/ ReleaseDependency(l) \/ StartDep(l)
        \/ \E pin \in BOOLEAN : PinDependency(l, pin)
        \/ \E fr, rd, all \in BOOLEAN, k \in 1 .. Len(links) :
              StopDependent(l, k, fr, rd, all)

\* The running handler goes on with its next call.
CallStep == ServiceCall \/ LinkCall \/ PullConsoleQueue \/ ProcessQueues

ControlOrder ==
    \/ \E s \in Services :
         \/ StartService(s) \/ StopService(s) \/ RestartService(s)
         \/ WakeService(s) \/ ReleaseService(s) \/ UnpinService(s)
         \/ \E b \in BOOLEAN : SetTrigger(s, b)
    \/ \E l \in Links : RmServiceDep(l) \/ \E b \in BOOLEAN : AddServiceDep(l, b)
    \/ StopAllServices

Next == CallStep \/ ControlOrder \/ LogReleasesConsole

(***************************************************************************)
(* A handler that has begun goes on, and the console can be written to in  *)
(* the end.  Nobody is obliged to give an order.                           *)
(***************************************************************************)
Spec == Init /\ [][Next]_vars /\ WF_vars(CallStep) /\ WF_vars(LogReleasesConsole)

----------------------------------------------------------------------------
(* Properties *)

\* The state has its type: a record's flags, the links, the queues, the console.
TypeOK ==
    /\ svc \in [Services -> SvcType]
    /\ dep \in [Links -> DepType]
    /\ links \in Seq(Links)
    /\ prop_queue \in Seq(Services) /\ stop_queue \in Seq(Services)
    /\ console_queue \in Seq(Services)
    /\ log_console \in {"held", "releasing", "released"}
    /\ active_services \in Int
    /\ restart_enabled \in BOOLEAN

(***************************************************************************)
(* Acquisition, read off the records and the links.                        *)
(***************************************************************************)
Acq ==
    INSTANCE Acquisition WITH
        count <- [s \in Services |-> svc[s].required_by],
        active <- {s \in Services : svc[s].start_explicit},
        held <- {l \in Links : dep[l].holding_acq}

(***************************************************************************)
(* Every step of every handler acquires, gives up, marks or unmarks once,  *)
(* or does none of these: no call counts without the flag that stands for  *)
(* the count, and none clears the flag without giving the count back.      *)
(***************************************************************************)
ImplementsAcquisition == Acq!Spec

Acquirers(s) == {l \in Links : l.to = s /\ dep[l].holding_acq}
Activation(s) == IF svc[s].start_explicit THEN 1 ELSE 0

(***************************************************************************)
(* Acquisition counts.  At every step of every handler, also in the middle *)
(* of a cascade of starts, failures and stops, required_by is exactly the  *)
(* explicit activation plus the links that hold an acquisition: no path of *)
(* require(), release(), start(), stop(), failed_to_start(), stopped() or  *)
(* rm_dep() counts twice or forgets.                                       *)
(***************************************************************************)
AcquisitionExact ==
    \A s \in Services :
        svc[s].required_by = Activation(s) + Cardinality(Acquirers(s))

(***************************************************************************)
(* The half of it that keeps a dependency up: required_by never falls      *)
(* below the activation and the acquisitions held, whatever is pinned, so  *)
(* release() cannot reach zero while somebody still holds the service.     *)
(***************************************************************************)
AcquisitionBound ==
    \A s \in Services :
        svc[s].required_by >= Activation(s) + Cardinality(Acquirers(s))

(***************************************************************************)
(* Between events count_active_services() is the number of services that   *)
(* are not STOPPED: service_active() and service_inactive() are called in  *)
(* pairs over every way to start, fail, stop and restart.  The main loop   *)
(* ends a shutdown when the count is zero.                                 *)
(***************************************************************************)
ActiveExact ==
    Idle => active_services = Cardinality({s \in Services : svc[s].state # "STOPPED"})

(***************************************************************************)
(* Between events a STOPPED service is required by nobody and holds no     *)
(* acquisition: the release that stopped(), stop() and failed_to_start()   *)
(* leave to the propagation queue has reached its dependencies.            *)
(***************************************************************************)
StoppedIsReleased ==
    Idle => \A s \in Services : svc[s].state = "STOPPED" =>
        /\ svc[s].required_by = 0
        /\ \A l \in LinkSet : l.from = s => ~dep[l].holding_acq

(***************************************************************************)
(* No start is lost: between events a service that is STARTING and waits   *)
(* for dependencies waits on some link to a service that is still to       *)
(* start, or is stopping and will restart.  started(), stopped(),          *)
(* failed_to_start() and stop_dependents() must each wake it otherwise.    *)
(***************************************************************************)
NoLostStart ==
    Idle => \A s \in Services :
        svc[s].state = "STARTING" /\ svc[s].waiting_for_deps =>
            \E l \in LinkSet :
               /\ l.from = s /\ dep[l].waiting_on
               /\ \/ svc[l.to].state = "STARTING"
                  \/ svc[l.to].state = "STOPPING" /\ WillRestart(l.to)

(***************************************************************************)
(* When bring_up() is called, every regular or milestone dependency is     *)
(* STARTED and no service that is only to be ordered before it is still    *)
(* STARTING: the waiting_on flags, set in one event and cleared in others, *)
(* have not gone stale by the time execute_transition() reads them.        *)
(***************************************************************************)
BroughtUpInOrder ==
    \A s \in Services : Calling(<<"bring_up", s>>) =>
        \A l \in LinkSet : l.from = s =>
            IF IsOnlyOrdering(l) THEN svc[l.to].state # "STARTING"
            ELSE l.type # "WAITS_FOR" => svc[l.to].state = "STARTED"

OrderedDown(s) ==
    Idle \/ Calling(<<"forced_stop", s>>) \/ \E b \in BOOLEAN : Calling(<<"stop", s, b>>)
ToldToStopBy(t) == ~Idle /\ Head(calls)[1] = "stop_dependents" /\ Head(calls)[2] = t

(***************************************************************************)
(* A running service loses its activation, or is forced to stop, only by   *)
(* an order of its own or along a regular dependency that stops: once a    *)
(* milestone has been reached, or when it only waited for the service, it  *)
(* is spared, whatever stops and fails below.                              *)
(***************************************************************************)
SoftDependentsSpared ==
    [][\A s \in Services :
          /\ svc[s].state = "STARTED" /\ ~svc[s].force_stop
          /\ svc'[s].force_stop \/ (svc[s].start_explicit /\ ~svc'[s].start_explicit)
          => \/ OrderedDown(s)
             \/ \E l \in LinkSet :
                   l.from = s /\ l.type = "REGULAR" /\ ToldToStopBy(l.to)]_vars

(***************************************************************************)
(* Between events the dependent count decides the target: a service that   *)
(* is required is starting or started, and one that nobody requires stays  *)
(* up only while it is pinned.                                             *)
(***************************************************************************)
CountDecides ==
    Idle => \A s \in Services :
        /\ svc[s].required_by > 0 => svc[s].state \in {"STARTING", "STARTED"}
        /\ svc[s].required_by = 0 /\ svc[s].state \in {"STARTING", "STARTED"} =>
              IsStartPinned(s)

(***************************************************************************)
(* The console has at most one owner, and none while the log has it: the   *)
(* hand-overs by started(), stopped(), acquired_console() and the log, in  *)
(* whatever order they come, never give it out twice.                      *)
(***************************************************************************)
OneConsoleOwner ==
    /\ Cardinality({s \in Services : svc[s].have_console}) <= 1
    /\ (\E s \in Services : svc[s].have_console) => log_console = "released"

(***************************************************************************)
(* The console is never lost: between events it is the log's (or on its    *)
(* way from it) or some service has it, and nobody queues for a console    *)
(* that the log simply keeps.                                              *)
(***************************************************************************)
ConsoleNotLost ==
    Idle => /\ log_console = "released" => \E s \in Services : svc[s].have_console
            /\ log_console = "held" => console_queue = <<>>

(***************************************************************************)
(* A service that has reached a pinned state does not leave it, whatever   *)
(* is started, stopped, restarted or released around it.                   *)
(***************************************************************************)
PinnedStaysUp ==
    [][\A s \in Services :
          Pinned(svc[s]) /\ svc[s].state = "STARTED" => svc'[s].state = "STARTED"]_vars

(***************************************************************************)
(* The dependencies never form a cycle, although clients add and remove    *)
(* them while services run.                                                *)
(***************************************************************************)
NoCycle == Acyclic(LinkSet)

(***************************************************************************)
(* Every handler comes to an end: the recursion and the two queues that    *)
(* process_queues() empties in turn do not feed each other for ever.       *)
(***************************************************************************)
HandlerEnds == (calls # <<>>) ~> Idle

(***************************************************************************)
(* A shutdown completes: once stop_all_services() is ordered, the count of *)
(* active services that the main loop waits for becomes zero, whatever     *)
(* restarts and chains are configured and whatever else is ordered.        *)
(***************************************************************************)
ShutdownCompletes == ~restart_enabled ~> (active_services = 0)
=============================================================================
