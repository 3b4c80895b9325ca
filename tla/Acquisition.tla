---------------------------- MODULE Acquisition ----------------------------
(***************************************************************************)
(* What the "acquisition/release" rules of the service graph promise, with *)
(* no state machine around them: each service has a count; an explicit     *)
(* activation adds one to it, a link that acquires its dependency adds one *)
(* to the dependency's, and each is taken back only by the one who made    *)
(* it.  Service implements this specification, whatever is pinned,         *)
(* restarted, chained or removed.                                          *)
(***************************************************************************)
EXTENDS Integers, FiniteSets

CONSTANTS Services, Links

VARIABLES
    count,    \* required_by of each service
    active,   \* the services with an explicit activation
    held      \* the links that hold an acquisition

vars == <<count, active, held>>

Init ==
    /\ count = [s \in Services |-> 0]
    /\ active = {}
    /\ held = {}

\* A dependent acquires.  The code may do so over a link that is held already.
Acquire(l) ==
    /\ count' = [count EXCEPT ![l.to] = @ + 1]
    /\ held' = held \cup {l}
    /\ UNCHANGED active

GiveUp(l) ==
    /\ l \in held
    /\ count' = [count EXCEPT ![l.to] = @ - 1]
    /\ held' = held \ {l}
    /\ UNCHANGED active

MarkActive(s) ==
    /\ s \notin active
    /\ count' = [count EXCEPT ![s] = @ + 1]
    /\ active' = active \cup {s}
    /\ UNCHANGED held

UnmarkActive(s) ==
    /\ s \in active
    /\ count' = [count EXCEPT ![s] = @ - 1]
    /\ active' = active \ {s}
    /\ UNCHANGED held

Next ==
    \/ \E l \in Links : Acquire(l) \/ GiveUp(l)
    \/ \E s \in Services : MarkActive(s) \/ UnmarkActive(s)

Spec == Init /\ [][Next]_vars

Owed(s) ==
    Cardinality({l \in held : l.to = s}) + (IF s \in active THEN 1 ELSE 0)

\* No count is below what is owed to the service's activation and its holders.
CountCoversOwed == \A s \in Services : count[s] >= Owed(s)
=============================================================================
