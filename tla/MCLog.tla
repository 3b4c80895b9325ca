------------------------------- MODULE MCLog --------------------------------
EXTENDS Log

Call(call, lvl, cons_lvl, to_cons, len) ==
    [call |-> call, lvl |-> lvl, cons_lvl |-> cons_lvl, to_cons |-> to_cons, len |-> len]

\* A service's status, which goes to the main log only, one that is
\* longer than the buffer, and an error in parts.
MCMessages == {Call("service", 1, 1, TRUE, 1), Call("service", 1, 1, TRUE, 4), Call("parts", 3, 3, TRUE, 2)}

\* NOTICE for the main log, WARN for the console.
MCLevels == (0 :> 1) @@ (1 :> 2)
=============================================================================
