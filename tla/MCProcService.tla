--------------------------- MODULE MCProcService ---------------------------
(***************************************************************************)
(* Services with processes for TLC: one of each kind by itself, with all   *)
(* that its kind can be set to, and one that depends on another.           *)
(***************************************************************************)
EXTENDS ProcService

CONSTANTS a, b

Single == {a}
SingleRecord == <<a>>
NoDeps == <<>>
NoLinks == {}
Two == {a, b}
TwoRecords == <<a, b>>
Pair == <<[from |-> a, to |-> b, type |-> "REGULAR"]>>
PairLinks == Range(Pair)

Of(kind, restart) ==
    [kind |-> kind, auto_restart |-> restart,
     starts_on_console |-> FALSE, runs_on_console |-> FALSE,
     chain_to |-> {}, always_chain |-> FALSE]
Process == [s \in Services |-> Of("process", "ALWAYS")]
Bgprocess == [s \in Services |-> Of("bgprocess", "ALWAYS")]
ScriptOnProcess == [s \in Services |-> Of(IF s = a THEN "scripted" ELSE "process", "NEVER")]

Bare ==
    [notify |-> FALSE, stop_command |-> FALSE, start_interruptible |-> FALSE,
     smooth_recovery |-> FALSE, skippable |-> FALSE,
     start_timeout |-> FALSE, stop_timeout |-> FALSE, max_restarts |-> 0,
     exec_fails |-> FALSE]
\* A process that says when it is ready, may be interrupted and recovers.
Recovering ==
    [s \in Services |->
        [Bare EXCEPT !.notify = TRUE, !.start_interruptible = TRUE, !.smooth_recovery = TRUE,
                     !.start_timeout = TRUE, !.stop_timeout = TRUE, !.max_restarts = 1]]
\* A daemon that recovers, with a stop command; forks and execs may fail.
Daemons ==
    [s \in Services |->
        [Bare EXCEPT !.smooth_recovery = TRUE, !.stop_command = TRUE, !.stop_timeout = TRUE,
                     !.max_restarts = 1, !.exec_fails = TRUE]]
\* A start and a stop script that may be interrupted, skipped, or missing, and
\* need a process with a stop timeout that may be missing too.
ScriptsMayFail ==
    [s \in Services |->
        IF s = a THEN [Bare EXCEPT !.stop_command = TRUE, !.start_interruptible = TRUE,
                                   !.skippable = TRUE, !.exec_fails = TRUE]
        ELSE [Bare EXCEPT !.stop_timeout = TRUE, !.exec_fails = TRUE]]
=============================================================================
