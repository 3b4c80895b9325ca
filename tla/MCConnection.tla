---------------------------- MODULE MCConnection ----------------------------
EXTENDS Connection

\* b depends on a.
MCDependents == [s \in Services |-> IF s = Svc THEN {From} ELSE {}]
=============================================================================
