----------------------------- MODULE MCService -----------------------------
(***************************************************************************)
(* Small service sets for TLC: at most three services, every dependency    *)
(* type, services that start at once and services that wait for a trigger. *)
(***************************************************************************)
EXTENDS Service

CONSTANTS a, b, c

Plain ==
    [kind |-> "internal", auto_restart |-> "NEVER",
     starts_on_console |-> FALSE, runs_on_console |-> FALSE,
     chain_to |-> {}, always_chain |-> FALSE]
Triggered == [Plain EXCEPT !.kind = "triggered"]
Dependency(f, t, ty) == [from |-> f, to |-> t, type |-> ty]

Three == {a, b, c}
ThreeRecords == <<a, b, c>>

\* a needs b, which needs c.
Pair == <<Dependency(a, b, "REGULAR")>>
HardChain == <<Dependency(a, b, "REGULAR"), Dependency(b, c, "REGULAR")>>
HardChainLinks == Range(HardChain)
\* c is a milestone for a, b waits for c, and a is ordered after b.
Soft ==
    <<Dependency(b, c, "WAITS_FOR"), Dependency(a, c, "MILESTONE"), Dependency(a, b, "AFTER")>>
SoftLinks == Range(Soft)
\* Dependencies that come and go; the last would close a cycle.
DynamicLinks == HardChainLinks \cup {Dependency(c, a, "MILESTONE")}

AllPlain == [s \in Services |-> Plain]
Restarting ==
    [AllPlain EXCEPT ![a].auto_restart = "ALWAYS", ![b].auto_restart = "ALWAYS",
                     ![a].chain_to = {c}, ![a].always_chain = TRUE,
                     ![b].kind = "triggered"]
LastTriggered == [AllPlain EXCEPT ![c].kind = "triggered"]
OnConsole ==
    [AllPlain EXCEPT ![a].starts_on_console = TRUE,
                     ![b] = [Triggered EXCEPT !.starts_on_console = TRUE,
                                              !.runs_on_console = TRUE,
                                              !.auto_restart = "ALWAYS"],
                     ![c].starts_on_console = TRUE]
=============================================================================
