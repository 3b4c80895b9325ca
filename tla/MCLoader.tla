------------------------------ MODULE MCLoader ------------------------------
EXTENDS Loader

L(set, val) == [set |-> set, val |-> val]
\* a: what a user edits; b and c: what a names.
MCDescriptions ==
    [n \in Names |->
      CASE n = "a" -> {<<L("depends_on", "b")>>,
                       <<L("depends_on", "c"), L("before", "b")>>,
                       <<L("after", "b"), L("waits_for", "b"), L("bad", "none")>>,
                       <<L("type", "process"), L("other", "command"), L("log_type", "pipe"), L("consumer_of", "b")>>,
                       <<L("include_opt", "x"), L("options", "starts-on-console"), L("waits_for_d", <<"b", "c">>)>>,
                       <<L("type", "process"), L("other", "command"), L("waits_for", "b")>>}
        [] n = "b" -> {<<L("depends_on", "a")>>, <<L("include", "inc")>>,
                       <<L("type", "scripted"), L("other", "command"), L("log_type", "pipe"), L("after", "a")>>}
        [] OTHER   -> {Missing, Unreadable, <<L("depends_on_d", <<"b">>), L("before", "a")>>}]
MCIncludes == [inc |-> <<L("before", "a"), L("other", "env_file"), L("depends_ms", "c")>>]
=============================================================================
