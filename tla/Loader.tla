------------------------------- MODULE Loader -------------------------------
(***************************************************************************)
(* The service loader (load-service.cc, includes/load-service.h): service  *)
(* descriptions are read line by line, and the services that they name are *)
(* loaded on the way.  load_reload_service() calls itself for them; here   *)
(* its calls are the frames of `stack', and `ret' is what the last call    *)
(* returned or threw.                                                      *)
(*                                                                         *)
(* A record is known by its name and a number.  Both ends of a link are    *)
(* kept, as in the program: depends_on in the one record and dependents in *)
(* the other.                                                              *)
(***************************************************************************)
EXTENDS Integers, Sequences, SequencesExt, FiniteSets, FiniteSetsExt, TLC

CONSTANTS
    Names,         \* service names
    Descriptions,  \* per name, what its file may hold: lines, or one that says why it has none
    Includes,      \* what the file of an @include line holds, by its name
    Edited,        \* bound: the services whose files are changed
    MaxEdits,      \* bound: changes of files
    Driven,        \* bound: the services that are started and stopped
    MaxDepth       \* bound: calls in progress

VARIABLES
    disk,          \* the file of each service: a description, or an error
    edits,         \* number of changes to the disk
    recs,          \* the service records, by number
    dangling,      \* the records whose argument pointers lead to memory that was freed
    stack,         \* the calls of load_reload_service()
    ret,           \* what the last call gave its caller
    request        \* what was asked for, and the record that it was about

vars == <<disk, edits, recs, dangling, stack, ret, request>>

\* A file that is not there, and one that cannot be opened.
Missing == <<[set |-> "missing", val |-> "none"]>>
Unreadable == <<[set |-> "unreadable", val |-> "none"]>>

NoName == "no name"
None == <<NoName, 0>>                       \* no record
Processes == {"process", "bgprocess"}
Output == Processes \cup {"scripted"}       \* types that produce output
ServiceTypes == Output \cup {"internal", "triggered"}
Types == ServiceTypes \cup {"placeholder"}
DepTypes == [depends_on |-> "REGULAR", depends_ms |-> "MILESTONE", waits_for |-> "WAITS_FOR"]
DirTypes == [depends_on_d |-> "entry", depends_ms_d |-> "entry_ms", waits_for_d |-> "entry_soft"]
Kinds == {"REGULAR", "MILESTONE", "WAITS_FOR", "BEFORE", "AFTER"}
EntryTypes == [entry |-> "REGULAR", entry_ms |-> "MILESTONE", entry_soft |-> "WAITS_FOR"]
Errors == {"not_found", "load", "cyclic", "description"}

NoReturn == [kind |-> "none", id |-> None]
Returned(id) == [kind |-> "ok", id |-> id]
Thrown(kind) == [kind |-> kind, id |-> None]
NoRequest == [kind |-> "none", id |-> None, was |-> <<>>, dangling |-> {}]

\* The lines of a file, by the kind of value that they have.
Lines ==
    [set : DOMAIN DepTypes \cup DOMAIN EntryTypes \cup {"after", "before", "consumer_of"}, val : Names]
    \cup [set : DOMAIN DirTypes, val : Seq(Names)]
    \cup [set : {"type"}, val : ServiceTypes]
    \cup [set : {"log_type", "options", "other", "bad", "include", "include_opt", "missing", "unreadable"}, val : STRING]

ASSUME LoaderAssumption ==
    /\ DOMAIN Descriptions = Names /\ NoName \notin Names
    /\ \A n \in Names : Descriptions[n] \subseteq Seq(Lines)
    /\ \A x \in DOMAIN Includes : Includes[x] \in Seq(Lines)
    /\ MaxDepth \in Nat /\ MaxEdits \in Nat /\ Edited \cup Driven \subseteq Names

Init ==
    /\ disk \in {d \in [Names -> UNION {Descriptions[n] : n \in Names}] : \A n \in Names : d[n] \in Descriptions[n]}
    /\ edits = 0
    /\ recs = <<>> /\ dangling = {} /\ stack = <<>> /\ ret = NoReturn /\ request = NoRequest
-----------------------------------------------------------------------------
(***************************************************************************)
(* Records.                                                                *)
(***************************************************************************)
NewRecord(name, type, loading) ==
    [name |-> name, type |-> type, loading |-> loading, state |-> "STOPPED", deps |-> <<>>,
     dependents |-> {}, consumer_for |-> None, log_consumer |-> None, pipe |-> FALSE, console |-> FALSE]

\* A number that neither a record nor a link to a deleted record has.
Mentioned(R) ==
    DOMAIN R \cup UNION {{R[r].deps[i][1] : i \in DOMAIN R[r].deps} \cup {l[1] : l \in R[r].dependents}
                           \cup {R[r].consumer_for, R[r].log_consumer} : r \in DOMAIN R}
FreshId(R, n) ==
    LET last == Max({0} \cup {id[2] : id \in Mentioned(R)})
    IN  <<n, CHOOSE k \in 1 .. last + 1 : <<n, k>> \notin Mentioned(R)>>

Put(R, id, rec) == [r \in DOMAIN R \cup {id} |-> IF r = id THEN rec ELSE R[r]]
Drop(R, ids) == [r \in DOMAIN R \ ids |-> R[r]]

\* find_service(), with placeholders
find_service(R, n) ==
    LET found == {r \in DOMAIN R : R[r].name = n}
    IN  IF found = {} THEN None ELSE CHOOSE r \in found : TRUE

\* is_unrefd()
IsUnrefd(R, r) == R[r].deps = <<>> /\ R[r].dependents = {} /\ R[r].log_consumer = None
IsPlaceholder(R, r) == r \in DOMAIN R /\ R[r].type = "placeholder"
DropUnrefd(R, ids) == Drop(R, {r \in ids : IsPlaceholder(R, r) /\ IsUnrefd(R, r)})

\* Links are pairs of a record and a kind.
Targets(ls) == {ls[i][1] : i \in DOMAIN ls}
Without(ls, S) ==
    LET kept[k \in 0 .. Len(ls)] ==
            IF k = 0 THEN <<>> ELSE IF ls[k] \in S THEN kept[k - 1] ELSE Append(kept[k - 1], ls[k])
    IN  kept[Len(ls)]
OnlyBefore(ls) == Without(ls, {l \in ToSet(ls) : l[2] # "BEFORE"})
NoBefore(ls) == Without(ls, {l \in ToSet(ls) : l[2] = "BEFORE"})

\* A record with other links; links that lead to the record id instead of orig.
WithLinks(a, deps, dependents) == [a EXCEPT !.deps = deps, !.dependents = dependents]
Redirected(ls, orig, id) == [i \in DOMAIN ls |-> IF ls[i][1] = orig THEN <<id, ls[i][2]>> ELSE ls[i]]

\* Both ends of new links, and of links that are taken away.
LinkTo(R, from, ls) ==
    [r \in DOMAIN R |-> [R[r] EXCEPT !.dependents =
        @ \cup {<<from, ls[i][2]>> : i \in {i \in DOMAIN ls : ls[i][1] = r}}]]
UnlinkFrom(R, from, ls) ==
    [r \in DOMAIN R |-> [R[r] EXCEPT !.dependents =
        @ \ {<<from, ls[i][2]>> : i \in {i \in DOMAIN ls : ls[i][1] = r}}]]
RmDeps(R, froms, to, type) ==
    [r \in DOMAIN R |-> IF r \in froms
                        THEN [R[r] EXCEPT !.deps = Without(@, {<<to, type>>})] ELSE R[r]]

\* Mutant: only the direct dependencies are looked at.
DirectCycle(R, deps, orig) == orig \in Targets(deps)

\* The records that dependencies of these kinds lead to: they are in every set that has
\* the first ones and, with a record, what it depends on.
Reached(R, from, kinds) ==
    LET closed(S) == \A r \in S : \A i \in DOMAIN R[r].deps :
            (R[r].deps[i][2] \in kinds /\ R[r].deps[i][1] \in DOMAIN R) => R[r].deps[i][1] \in S
    IN  {t \in DOMAIN R : \A S \in SUBSET (DOMAIN R) : (from \cap DOMAIN R \subseteq S /\ closed(S)) => t \in S}

\* check_cycle(): whether orig can be reached from the services of deps.
check_cycle(R, deps, orig) == orig \in Reached(R, Targets(deps), Kinds)

\* prepare_for_unload(): the links in both directions, and placeholders that
\* nothing else refers to.
UnlinkDeps(R, r) ==
    LET unlinked == UnlinkFrom(R, r, R[r].deps)
        after == {t \in DOMAIN R : \E i \in DOMAIN R[r].deps : R[r].deps[i] = <<t, "AFTER">>}
    IN  DropUnrefd(Put(unlinked, r, [unlinked[r] EXCEPT !.deps = <<>>]), after \ {r})
UnlinkDependents(R, r) ==
    LET from == {l[1] : l \in R[r].dependents}
        freed == [x \in DOMAIN R |-> IF x \in from
                     THEN [R[x] EXCEPT !.deps = Without(@, {r} \X Kinds)] ELSE R[x]]
    IN  DropUnrefd(Put(freed, r, [freed[r] EXCEPT !.dependents = {}]), from)
prepare_for_unload(R, r) == UnlinkDependents(UnlinkDeps(R, r), r)

\* ~process_service()
Delete(R, r) ==
    LET of == R[r].consumer_for
    IN  Drop([x \in DOMAIN R |-> IF x = of /\ R[r].type \in Processes
                                 THEN [R[x] EXCEPT !.log_consumer = None] ELSE R[x]], {r})
-----------------------------------------------------------------------------
(***************************************************************************)
(* Calls.                                                                  *)
(***************************************************************************)
NewFrame(n, reload, dummy, lines) ==
    [name |-> n, reload |-> reload, dummy |-> dummy, todo |-> lines, type |-> "internal",
     depends |-> <<>>, after |-> <<>>, before |-> <<>>, consumer_of |-> NoName,
     pipe |-> FALSE, console |-> FALSE, has |-> {}]

Call(R, n, reload) ==
    /\ UNCHANGED <<disk, edits, dangling>>
    /\ IF disk[n] = Missing THEN ret' = Thrown("not_found") /\ UNCHANGED <<recs, stack>>
       ELSE IF disk[n] = Unreadable THEN ret' = Thrown("load") /\ UNCHANGED <<recs, stack>>
       ELSE LET dummy == IF reload = None THEN FreshId(R, n) ELSE None
            IN  /\ recs' = IF reload = None THEN Put(R, dummy, NewRecord(n, "placeholder", TRUE)) ELSE R
                /\ stack' = Append(stack, NewFrame(n, reload, dummy, disk[n]))
                /\ UNCHANGED ret

\* load_service(): a service that is there already, a cycle, a placeholder that
\* is filled in now, or a service that is not there yet.
load_service(n, avoid) ==
    LET existing == find_service(recs, n)
    IN  IF existing = None THEN Call(recs, n, None)
        ELSE IF existing = avoid \/ recs[existing].loading
        THEN ret' = Thrown("cyclic") /\ UNCHANGED <<disk, edits, recs, dangling, stack>>
        ELSE IF recs[existing].type # "placeholder"
        THEN ret' = Returned(existing) /\ UNCHANGED <<disk, edits, recs, dangling, stack>>
        ELSE Call(recs, n, existing)

Top == stack[Len(stack)]
Below == SubSeq(stack, 1, Len(stack) - 1)
Reading == stack # <<>> /\ ret = NoReturn
Line == Top.todo[1]
Continue(f) == stack' = Append(Below, f) /\ ret' = NoReturn /\ UNCHANGED <<disk, edits, recs, dangling, request>>
Next_(f) == [f EXCEPT !.todo = Tail(@)]

\* Mutant: the record that marks a service as being loaded stays.
CleanupKeepsDummy(R, f, before, of) ==
    DropUnrefd(R, {b : b \in before} \cup {of})

\* exception_cleanup(): the dummy goes, with no look at what refers to it, and
\* so do placeholders that were made for this service.
exception_cleanup(R, f, before, of) ==
    DropUnrefd(Drop(R, {f.dummy}),
               before \cup {f.depends[i][1] : i \in {i \in DOMAIN f.depends : f.depends[i][2] = "AFTER"}}
                      \cup {of})

Throw(R, f, kind, before, of) ==
    /\ recs' = exception_cleanup(R, f, before, of)
    /\ stack' = Below
    /\ ret' = Thrown(kind)
    /\ UNCHANGED <<disk, edits, request>>
-----------------------------------------------------------------------------
(***************************************************************************)
(* process_service_file(), process_service_line(): one line.               *)
(***************************************************************************)
HasLine(sets) == Reading /\ Top.todo # <<>> /\ Line.set \in sets

DependencyLine ==
    /\ HasLine(DOMAIN DepTypes) /\ Len(stack) < MaxDepth
    /\ load_service(Line.val, Top.reload)
    /\ UNCHANGED request

\* process_dep_dir(): the entries of a directory, one by one, or none if it
\* cannot be read.  The service that is being reloaded is not passed on.
DirectoryLine ==
    /\ HasLine(DOMAIN DirTypes)
    /\ LET entry(n) == [set |-> DirTypes[Line.set], val |-> n]
       IN  \/ Continue([Top EXCEPT !.todo = [i \in 1 .. Len(Line.val) |-> entry(Line.val[i])] \o Tail(@)])
           \/ Continue(Next_(Top))
DirectoryEntry ==
    /\ HasLine(DOMAIN EntryTypes) /\ Len(stack) < MaxDepth
    /\ load_service(Line.val, None)
    /\ UNCHANGED request

\* What a call returned or threw comes to the line that made it.  load_service_n
\* turns every error into one of this service; process_dep_dir() ignores a
\* service that is not found.
CallReturns ==
    /\ stack # <<>> /\ ret # NoReturn
    /\ LET entry == Line.set \in DOMAIN EntryTypes
           type == IF entry THEN EntryTypes[Line.set] ELSE DepTypes[Line.set]
       IN  IF ret.kind = "ok" THEN Continue([Next_(Top) EXCEPT !.depends = Append(@, <<ret.id, type>>)])
           ELSE IF entry /\ ret.kind = "not_found" THEN Continue(Next_(Top))
           ELSE Throw(recs, Top, IF entry THEN ret.kind ELSE "load", {}, None)
    /\ UNCHANGED dangling

OrderingLine ==
    /\ HasLine({"after", "before"})
    /\ Continue(IF Line.set = "after" THEN [Next_(Top) EXCEPT !.after = Append(@, Line.val)]
                ELSE [Next_(Top) EXCEPT !.before = Append(@, Line.val)])

ConsumerLine ==
    /\ HasLine({"consumer_of"})
    /\ IF Line.val = Top.name THEN Throw(recs, Top, "description", {}, None)
       ELSE Continue([Next_(Top) EXCEPT !.consumer_of = Line.val])
    /\ UNCHANGED dangling

\* Settings that decide what the service is.
TypeLine ==
    /\ HasLine({"type"})
    /\ Continue([Next_(Top) EXCEPT !.type = Line.val])
LogTypeLine ==
    /\ HasLine({"log_type"})
    /\ Continue([Next_(Top) EXCEPT !.pipe = Line.val = "pipe"])
OptionsLine ==
    /\ HasLine({"options"})
    /\ Continue([Next_(Top) EXCEPT !.console = Line.val = "starts-on-console"])

\* Any other setting is kept for the end; a line that is not well formed, an unknown
\* setting and a value that is out of range or does not parse end the load.
OtherLine ==
    /\ HasLine({"other"})
    /\ Continue([Next_(Top) EXCEPT !.has = @ \cup {Line.val}])
BadLine ==
    /\ HasLine({"bad"})
    /\ Throw(recs, Top, "description", {}, None)
    /\ UNCHANGED dangling

\* @include, @include-opt: the lines of the file come before the rest.
IncludeLine ==
    /\ HasLine({"include", "include_opt"})
    /\ IF Line.val \in DOMAIN Includes
       THEN Continue([Top EXCEPT !.todo = Includes[Line.val] \o Tail(@)])
       ELSE IF Line.set = "include" THEN Throw(recs, Top, "load", {}, None)
       ELSE Continue(Next_(Top))
    /\ UNCHANGED dangling
-----------------------------------------------------------------------------
(***************************************************************************)
(* The end of load_reload_service(), when all lines are read.  It does its *)
(* work in parts; a part maps w to what it leaves, with `kind' the error   *)
(* that it throws.  w.before are the services with a new "before" link to  *)
(* this one, w.of the service whose output this one consumes.              *)
(***************************************************************************)
Fails(w, kind) == [w EXCEPT !.kind = kind]
Unless(w, failing, kind, done) == IF w.kind # "none" THEN w ELSE IF failing THEN Fails(w, kind) ELSE done

\* The environment file is read when all settings are known.
ReadEnvFile(w) == Unless(w, "env_file_missing" \in w.f.has, "load", w)

\* finalise(): what the type of the service requires and rules out.
finalise(w) ==
    LET f == w.f
        bad == \/ f.type \in Output /\ "command" \notin f.has
               \/ f.type = "bgprocess" /\ ("pid_file" \notin f.has \/ "ready_notification" \in f.has)
               \/ "kill_all_on_stop" \in f.has /\ f.type \notin {"internal", "scripted"}
               \/ f.consumer_of # NoName /\ f.type \notin Processes
    IN  Unless(w, bad, "load", w)

\* Mutant: a running service may get a dependency that does not run.
ReloadAnyDependency(w) ==
    LET old == w.R[w.f.reload]
    IN  IF w.f.reload = None THEN w
        ELSE Unless(w, old.state # "STOPPED" /\ w.f.type # old.type, "load", w)

\* check_settings_for_reload(), and the check on an output consumer.
check_settings_for_reload(w) ==
    LET old == w.R[w.f.reload]
        bad == \/ /\ old.state # "STOPPED"
                  /\ \/ w.f.type # old.type
                     \/ old.state # "STARTED"
                     \/ \E i \in DOMAIN w.f.depends :
                          w.f.depends[i][2] = "REGULAR" /\ w.R[w.f.depends[i][1]].state # "STARTED"
                     \/ w.f.console # old.console
                     \/ w.f.type \in Output /\ w.f.pipe # old.pipe
               \/ old.log_consumer # None /\ (w.f.type \notin Output \/ ~w.f.pipe)
    IN  IF w.f.reload = None THEN w ELSE Unless(w, bad, "load", w)

\* The service whose output is consumed: found, or a placeholder for it.
FindConsumed(w) ==
    LET of == IF w.f.consumer_of = NoName THEN None ELSE find_service(w.R, w.f.consumer_of)
        id == FreshId(w.R, w.f.consumer_of)
        running == w.f.reload # None /\ w.R[w.f.reload].state # "STOPPED" /\ w.f.type \in Processes
        bad == \/ running /\ w.R[w.f.reload].consumer_for # of
               \/ /\ of # None
                  /\ \/ w.R[of].type \notin Output \cup {"placeholder"}
                     \/ w.R[of].type # "placeholder" /\ ~w.R[of].pipe
                     \/ w.R[of].log_consumer \notin {None, w.f.reload}
    IN  Unless(w, bad, "load",
               IF w.f.consumer_of = NoName THEN w
               ELSE IF of # None THEN [w EXCEPT !.of = of]
               ELSE [w EXCEPT !.of = id, !.R = Put(@, id, NewRecord(w.f.consumer_of, "placeholder", FALSE))])

\* "after": a dependency on the service, or on a placeholder for it.
AddAfter(w, n) ==
    LET found == find_service(w.R, n)
        id == IF found # None THEN found ELSE FreshId(w.R, n)
    IN  Unless(w, n = w.f.name \/ (found # None /\ w.R[found].loading), "cyclic",
               [w EXCEPT !.f.depends = Append(@, <<id, "AFTER">>),
                         !.R = IF found # None THEN @ ELSE Put(@, id, NewRecord(n, "placeholder", FALSE))])

AddAfters(w) ==
    LET added[k \in 0 .. Len(w.f.after)] == IF k = 0 THEN w ELSE AddAfter(added[k - 1], w.f.after[k])
    IN  added[Len(w.f.after)]

\* "before": that service, or a placeholder, gets a dependency on this one.
AddBefore(w, n) ==
    LET found == find_service(w.R, n)
        id == IF found # None THEN found ELSE FreshId(w.R, n)
    IN  Unless(w, n = w.f.name \/ (found # None /\ check_cycle(w.R, w.f.depends, found)), "cyclic",
               [w EXCEPT !.before = @ \cup {id},
                         !.R = IF found # None THEN @ ELSE Put(@, id, NewRecord(n, "placeholder", FALSE))])

AddBefores(w) ==
    LET added[k \in 0 .. Len(w.f.before)] == IF k = 0 THEN w ELSE AddBefore(added[k - 1], w.f.before[k])
    IN  added[Len(w.f.before)]

\* Mutant: the settings are changed before the check for cycles.
UpdateThenCheck(w) ==
    LET set == [w EXCEPT !.R = [@ EXCEPT ![w.f.reload].console = w.f.console]]
    IN  Unless(set, check_cycle(w.R, w.f.depends, w.f.reload), "cyclic", [set EXCEPT !.rval = w.f.reload])

\* update_depenencies(): the new links of the record replace the old ones; the
\* "before" dependencies come from other services and stay.
ReplaceLinks(w, r) ==
    LET old == w.R[r].deps
        was_before == {l[1] : l \in {l \in w.R[r].dependents : l[2] = "BEFORE"}}
        cut == RmDeps(UnlinkFrom(w.R, r, NoBefore(old)), was_before, r, "BEFORE")
        own == {l \in cut[r].dependents : l[2] # "BEFORE"} \cup {<<b, "BEFORE">> : b \in w.before}
    IN  LinkTo([x \in DOMAIN cut |->
                  IF x = r THEN WithLinks(cut[x], w.f.depends \o OnlyBefore(old), own)
                  ELSE IF x \in w.before THEN [cut[x] EXCEPT !.deps = <<<<r, "BEFORE">>>> \o @] ELSE cut[x]],
               r, w.f.depends)
update_depenencies(w) ==
    LET r == w.f.reload
    IN  Unless(w, check_cycle(w.R, w.f.depends, r), "cyclic",
               [w EXCEPT !.rval = r,
                         !.R = [ReplaceLinks(w, r) EXCEPT ![r] = [@ EXCEPT !.console = w.f.console, !.pipe = w.f.pipe]]])

\* The loop that moves the "before" dependencies to the new record: after one
\* is moved, the iterator is advanced twice (past the end, to the first again).
MoveBefore(deps) ==
    LET step(m) ==
            IF m.i > Len(m.rest) THEN m
            ELSE IF m.rest[m.i][2] # "BEFORE" THEN [m EXCEPT !.i = @ + 1]
            ELSE [moved |-> Append(m.moved, m.rest[m.i]), rest |-> RemoveAt(m.rest, m.i),
                  i |-> IF m.i = Len(m.rest) THEN 1 ELSE m.i + 1]
        run[k \in 0 .. 2 * Len(deps) + 1] ==
            IF k = 0 THEN [moved |-> <<>>, rest |-> deps, i |-> 1] ELSE step(run[k - 1])
    IN  run[2 * Len(deps) + 1]

\* A new record, with its own links and those of its "before" settings.
AddRecord(w, id) ==
    LET made == Put(w.R, id, [NewRecord(w.f.name, w.f.type, FALSE) EXCEPT
                                 !.deps = w.f.depends, !.pipe = w.f.pipe, !.console = w.f.console,
                                 !.dependents = {<<b, "BEFORE">> : b \in w.before}])
    IN  LinkTo([x \in DOMAIN made |->
                  IF x \in w.before THEN [made[x] EXCEPT !.deps = Append(@, <<id, "BEFORE">>)] ELSE made[x]],
               id, w.f.depends)

\* The "before" settings of the record that goes.
DropOwnBefores(R, orig) ==
    LET was_before == {l[1] : l \in {l \in R[orig].dependents : l[2] = "BEFORE"}}
        cut == RmDeps(R, was_before, orig, "BEFORE")
    IN  DropUnrefd([cut EXCEPT ![orig].dependents = {l \in @ : l[2] # "BEFORE"}], was_before)

\* Dependents, and the "before" settings of others, go over to the new record.
MoveLinks(R, orig, id) ==
    LET m == MoveBefore(R[orig].deps)
        deps(x) == Redirected(R[x].deps, orig, id)
        dependents(x) == IF x \in Targets(m.moved)
                         THEN (R[x].dependents \ {<<orig, "BEFORE">>}) \cup {<<id, "BEFORE">>}
                         ELSE R[x].dependents
    IN  [x \in DOMAIN R |->
           IF x = id THEN WithLinks(R[x], deps(x) \o m.moved, dependents(x) \cup R[orig].dependents)
           ELSE IF x = orig THEN WithLinks(R[x], m.rest, {})
           ELSE WithLinks(R[x], deps(x), dependents(x))]

\* The consumer of the output is told of the new record.
TellConsumer(R, type, orig, id) ==
    LET consumer == R[orig].log_consumer
    IN  IF type \in Output /\ consumer \in DOMAIN R
        THEN [R EXCEPT ![consumer].consumer_for = id] ELSE R

\* A new record takes the place of the dummy, or of the record that is reloaded.
create_new_record(w) ==
    LET orig == IF w.f.reload # None THEN w.f.reload ELSE w.f.dummy
        id == FreshId(w.R, w.f.name)
        moved == MoveLinks(DropOwnBefores(AddRecord(w, id), orig), orig, id)
        told == TellConsumer(moved, w.f.type, orig, id)
    IN  Unless(w, w.f.reload # None /\ check_cycle(w.R, w.f.depends, w.f.reload), "cyclic",
               [w EXCEPT !.rval = id, !.R = Delete(prepare_for_unload(told, orig), orig)])

\* A record that is there is changed, unless its type is.
KeepsRecord(w) == w.f.reload # None /\ w.R[w.f.reload].type = w.f.type
CreateOrUpdate(w) ==
    IF w.kind # "none" THEN w
    ELSE IF KeepsRecord(w) THEN update_depenencies(w)
    ELSE create_new_record(w)

\* update_command_and_dependencies(): the command is set before the links are checked.
\* If the links are refused (v), a copy of the old command is put back, but with the old
\* argument pointers, and set_command() has deleted the text that they point into.
\* A command that is kept, or a new record, has pointers into its own text.
update_command_and_dependencies(w, v) ==
    IF v.kind = "none" THEN dangling \ {w.f.reload}
    ELSE IF w.kind = "none" /\ KeepsRecord(w) /\ w.f.type \in Output THEN dangling \cup {w.f.reload}
    ELSE dangling

\* The new consumer is known to the service that it consumes from.
MarkConsumer(w) ==
    Unless(w, FALSE, "none",
           IF w.f.type \notin Processes THEN w
           ELSE [w EXCEPT !.R = [x \in DOMAIN @ |->
                    IF x = w.rval THEN [@[x] EXCEPT !.consumer_for = w.of]
                    ELSE IF x = w.of THEN [@[x] EXCEPT !.log_consumer = w.rval] ELSE @[x]]])

\* A placeholder that is filled in is not marked: a call inside this one may
\* have replaced it.  Nothing is said of what the program does then.
Finish ==
    /\ Reading /\ Top.todo = <<>>
    /\ Top.reload \in DOMAIN recs \cup {None}
    /\ LET w0 == [R |-> recs, f |-> Top, kind |-> "none", before |-> {}, of |-> None, rval |-> None]
           w1 == FindConsumed(check_settings_for_reload(finalise(ReadEnvFile(w0))))
           w  == MarkConsumer(CreateOrUpdate(AddBefores(AddAfters(w1))))
       IN  /\ dangling' = update_command_and_dependencies(AddBefores(AddAfters(w1)), w)
           /\ IF w.kind # "none" THEN Throw(w.R, w.f, w.kind, w.before, w.of)
              ELSE recs' = w.R /\ stack' = Below /\ ret' = Returned(w.rval) /\ UNCHANGED <<disk, edits, request>>
-----------------------------------------------------------------------------
(***************************************************************************)
(* What others do: load and reload requests, unloading, changes of state   *)
(* and of files.  Once a pointer to a deleted record is left nothing is    *)
(* said of what the program does.                                          *)
(***************************************************************************)
Idle == stack = <<>> /\ ret = NoReturn

\* Every pointer between records leads to a record, and the other end knows it.
Intact ==
    \A r \in DOMAIN recs :
      /\ \A i \in DOMAIN recs[r].deps :
           LET l == recs[r].deps[i] IN l[1] \in DOMAIN recs /\ <<r, l[2]>> \in recs[l[1]].dependents
      /\ \A l \in recs[r].dependents :
           l[1] \in DOMAIN recs /\ \E i \in DOMAIN recs[l[1]].deps : recs[l[1]].deps[i] = <<r, l[2]>>
      /\ {recs[r].consumer_for, recs[r].log_consumer} \subseteq DOMAIN recs \cup {None}

LoadRequest(n) ==
    /\ Idle /\ Intact
    /\ load_service(n, None)
    /\ request' = [kind |-> "load", id |-> None, was |-> <<>>, dangling |-> {}]

\* What a description says of a service, as far as its record has it.
NameOf(r) == IF r = None THEN NoName ELSE recs[r].name
Settings(r) ==
    LET own == NoBefore(recs[r].deps)
    IN  <<recs[r].type, recs[r].console, recs[r].pipe, NameOf(recs[r].consumer_for),
          [i \in DOMAIN own |-> <<NameOf(own[i][1]), own[i][2]>>]>>

reload_service(r) ==
    /\ Idle /\ Intact /\ recs[r].type # "placeholder"
    /\ Call(recs, recs[r].name, r)
    /\ request' = [kind |-> "reload", id |-> r, was |-> Settings(r), dangling |-> dangling]

RequestEnds ==
    /\ stack = <<>> /\ ret # NoReturn
    /\ ret' = NoReturn /\ request' = NoRequest
    /\ UNCHANGED <<disk, edits, recs, dangling, stack>>

\* unload_service(): a placeholder takes over what is only an ordering.
TakeOver(R, r, id, before, after) ==
    LET deps(x) == [i \in DOMAIN R[x].deps |->
                      IF R[x].deps[i] = <<r, "AFTER">> THEN <<id, "AFTER">> ELSE R[x].deps[i]]
        dependents(x) == IF x \in Targets(before)
                         THEN (R[x].dependents \ {<<r, "BEFORE">>}) \cup {<<id, "BEFORE">>} ELSE R[x].dependents
    IN  Put([x \in DOMAIN R |-> WithLinks(R[x], deps(x), dependents(x))],
            id, WithLinks(NewRecord(R[r].name, "placeholder", FALSE), before, after))
unload_service(R, r) ==
    LET after == {l \in R[r].dependents : l[2] = "AFTER"}
        before == OnlyBefore(R[r].deps)
        made == IF after = {} /\ before = <<>> /\ R[r].log_consumer = None THEN R
                ELSE TakeOver(R, r, FreshId(R, R[r].name), before, after)
        left == [made EXCEPT ![r] = WithLinks(@, NoBefore(R[r].deps), @.dependents \ after)]
    IN  Delete(prepare_for_unload(left, r), r)

Unload(r) ==
    /\ Idle /\ Intact /\ recs[r].type # "placeholder" /\ recs[r].state = "STOPPED"
    /\ \A l \in recs[r].dependents : l[2] \in {"BEFORE", "AFTER"}
    /\ recs' = unload_service(recs, r) /\ dangling' = dangling \ {r}
    /\ UNCHANGED <<disk, edits, stack, ret, request>>

\* Services start and stop (module Service).
Requires(r) == {recs[r].deps[i][1] : i \in {i \in DOMAIN recs[r].deps : recs[r].deps[i][2] = "REGULAR"}}
ChangeState(r) ==
    /\ Idle /\ Intact /\ recs[r].type # "placeholder" /\ recs[r].name \in Driven
    /\ \E st \in {"STOPPED", "STARTING", "STARTED"} \ {recs[r].state} :
         /\ st = "STARTED" => \A t \in Requires(r) : recs[t].state = "STARTED"
         /\ st # "STARTED" => \A l \in recs[r].dependents : l[2] = "REGULAR" => recs[l[1]].state # "STARTED"
         /\ recs' = [recs EXCEPT ![r].state = st]
    /\ UNCHANGED <<disk, edits, dangling, stack, ret, request>>

Edit(n) ==
    /\ Idle /\ edits < MaxEdits /\ n \in Edited
    /\ \E d \in Descriptions[n] \ {disk[n]} : disk' = [disk EXCEPT ![n] = d]
    /\ edits' = edits + 1
    /\ UNCHANGED <<recs, dangling, stack, ret, request>>

Next ==
    \/ \E n \in Names : LoadRequest(n) \/ Edit(n)
    \/ \E r \in DOMAIN recs : reload_service(r) \/ Unload(r) \/ ChangeState(r)
    \/ DependencyLine \/ DirectoryLine \/ DirectoryEntry \/ CallReturns \/ OrderingLine \/ ConsumerLine
    \/ TypeLine \/ LogTypeLine \/ OptionsLine \/ OtherLine \/ BadLine \/ IncludeLine \/ Finish
    \/ RequestEnds

Spec == Init /\ [][Next]_vars
-----------------------------------------------------------------------------
(***************************************************************************)
(* Properties.                                                             *)
(***************************************************************************)
\* Loading leaves one record per name, and none that is still marked as being
\* loaded, whatever failed on the way (exception_cleanup()).
RecordsUnique ==
    /\ \A r, q \in DOMAIN recs : recs[r].name = recs[q].name => r = q
    /\ Idle => \A r \in DOMAIN recs : ~recs[r].loading

\* Services that depend on each other are not loaded, in whatever order their
\* descriptions are read, reloaded or unloaded: no cycle has fewer than two
\* "before" links (check_is_loading(), check_cycle()).
NoCycleLoaded ==
    \A r \in DOMAIN recs : \A i \in DOMAIN recs[r].deps :
        r \notin Reached(recs, {recs[r].deps[i][1]}, Kinds \ {"BEFORE"})

\* A service that runs has the dependencies it requires, also after a reload that
\* changed them (check_settings_for_reload()).
RunningHasDeps ==
    Intact => \A r \in DOMAIN recs :
                recs[r].state = "STARTED" => \A t \in Requires(r) : recs[t].state = "STARTED"

\* A reload that fails leaves the service as it was: its type, its own links, what it
\* consumes, and the arguments of its command and of every other service's
\* (update_depenencies(), check_settings_for_reload()).  The one thing that it may damage are
\* the arguments of a service that runs a command, when the reload is refused as a cycle:
\* update_command_and_dependencies() has then replaced the text that they point into.
FailedReloadKeeps ==
    (stack = <<>> /\ ret.kind \in Errors /\ request.kind = "reload") =>
        /\ request.id \in DOMAIN recs
        /\ Settings(request.id) = request.was
        /\ \/ dangling = request.dangling
           \/ /\ ret.kind = "cyclic" /\ recs[request.id].type \in Output
              /\ dangling = request.dangling \cup {request.id}

\* The recursion ends: a service is being loaded at most once, or twice if there
\* was a placeholder for it.  (It does not hold: load_reload_service() fills in two
\* placeholders without a mark that they are being loaded.)
RecursionEnds == Len(stack) <= 2 * Cardinality(Names)

\* A load that fails leaves no pointer to what it has deleted.  (It does not hold:
\* exception_cleanup() deletes the dummy that other records link to; README.)
FailedLoadRestores == (stack = <<>> /\ ret.kind \in Errors) => Intact
=============================================================================
