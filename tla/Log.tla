-------------------------------- MODULE Log ---------------------------------
(***************************************************************************)
(* The log of dinit (dinit-log.cc, includes/dinit-log.h): two buffered     *)
(* streams, the main log and the console, that are written from event      *)
(* handlers, and the hand-over of the console between the console stream   *)
(* and the services that queue for it (includes/service.h).                *)
(*                                                                         *)
(* dinit is single-threaded: what one call does is one step.  A message    *)
(* stands for its number; its bytes are the number repeated, and a         *)
(* newline.  Bytes are small integers.                                     *)
(***************************************************************************)
EXTENDS Integers, Sequences, SequencesExt, FiniteSets

CONSTANTS
    Capacity,        \* size of a stream's buffer (4096)
    Services,        \* services that use the console
    NoService,
    Messages,        \* the calls that log: [call, lvl, cons_lvl, to_cons, len]
    log_level,       \* per stream, the least level it takes
    console_service_status,
    SyslogFormat,    \* main log: lines begin with a priority marker
    MaxMsgs,         \* bound: messages logged
    MaxOpens         \* bound: times the main log is opened

ASSUME LogAssumption ==
    /\ NoService \notin Services
    /\ Capacity \in Nat \ {0} /\ MaxMsgs \in Nat /\ MaxOpens \in Nat
    /\ SyslogFormat \in BOOLEAN /\ console_service_status \in BOOLEAN
    /\ Messages \subseteq [call : STRING, lvl : Int, cons_lvl : Int, to_cons : BOOLEAN, len : Nat]

VARIABLES
    stream,         \* log_stream[]: the two buffered_log_stream objects
    console_queue,  \* service_set::console_queue
    owner,          \* the service that has the console
    opens,          \* how often the main log was opened
    watched,        \* the streams whose watcher is in the event loop
    sent,           \* history: per stream, the lines that were accepted
    out,            \* history: per stream, what its file got until a line was cut
    cut             \* history: per stream, whether a line was written short

vars == <<stream, console_queue, owner, opens, watched, sent, out, cut>>
history == <<sent, out, cut>>

DLOG_MAIN == 0
DLOG_CONS == 1
Streams == {DLOG_MAIN, DLOG_CONS}

\* Bytes: 1.. are messages.
NL == 0
Mark == -1          \* the syslog priority marker
Notice == <<-2, -3>>  \* "log message discarded due to full buffer" and its newline

B == INSTANCE CPBuffer WITH SIZE <- Capacity, Nul <- -4

NewStream ==
    [log_buffer |-> B!Empty, current_index |-> 0, partway |-> FALSE,
     discarded |-> FALSE, release |-> TRUE, special |-> FALSE, msg_index |-> 0,
     enabled |-> FALSE, open |-> FALSE]

\* init_log(): the console stream is watched and active, the main log is not.
Init ==
    /\ stream = [i \in Streams |->
                    IF i = DLOG_CONS
                    THEN [NewStream EXCEPT !.open = TRUE, !.release = FALSE,
                                           !.enabled = TRUE]
                    ELSE NewStream]
    /\ console_queue = <<>>
    /\ owner = NoService
    /\ opens = 0
    /\ watched = {DLOG_CONS}
    /\ sent = [i \in Streams |-> <<>>]
    /\ out = [i \in Streams |-> <<>>]
    /\ cut = [i \in Streams |-> FALSE]
-----------------------------------------------------------------------------
commit_msg(s) ==
    [s EXCEPT !.current_index = s.log_buffer.length,
              !.enabled = IF s.current_index = 0 /\ ~s.release THEN TRUE ELSE @]

mark_discarded(s) == [s EXCEPT !.discarded = TRUE]
rollback_msg(s) == [s EXCEPT !.log_buffer = B!trim_to(@, s.current_index)]

\* push_to_log(): a message in one piece fits or is dropped.
push_to_log(s, line) ==
    IF B!get_free(s.log_buffer) >= Len(line)
    THEN commit_msg([s EXCEPT !.log_buffer = B!append(@, line)])
    ELSE mark_discarded(s)

\* Mutant: the parts of a message that did not fit stay in the buffer.
LogPartsNoRollback(s, line) ==
    LET free == B!get_free(s.log_buffer)
        fits == IF free >= Len(line) THEN Len(line) ELSE free
        part == [s EXCEPT !.log_buffer = B!append(@, SubSeq(line, 1, fits))]
    IN  IF fits = Len(line) THEN commit_msg(part) ELSE mark_discarded(part)

\* log_msg_begin(), log_msg_part() ..., log_msg_end(): the parts go into the
\* buffer one by one; the first that does not fit takes back the others.
log_parts(s, line) ==
    LET free == B!get_free(s.log_buffer)
        fits == IF free >= Len(line) THEN Len(line) ELSE free
        part == [s EXCEPT !.log_buffer = B!append(@, SubSeq(line, 1, fits))]
    IN  IF fits = Len(line) THEN commit_msg(part)
        ELSE mark_discarded(rollback_msg(part))

\* do_log(), do_log_cons() and do_log_main(): the streams a message goes to.
LogCurrentLine(m) ==
    LET main == m.lvl >= log_level[DLOG_MAIN]
        cons == IF m.call = "service"
                THEN console_service_status \/ m.cons_lvl >= log_level[DLOG_CONS]
                ELSE m.lvl >= log_level[DLOG_CONS] /\ m.to_cons
    IN  {i \in Streams : IF i = DLOG_MAIN THEN main ELSE cons}

LineFor(i, m, n) ==
    (IF i = DLOG_MAIN /\ SyslogFormat THEN <<Mark>> ELSE <<>>)
        \o [k \in 1 .. m.len |-> n] \o <<NL>>

Push(i, m, n) ==
    IF m.call = "parts" THEN log_parts(stream[i], LineFor(i, m, n))
                        ELSE push_to_log(stream[i], LineFor(i, m, n))

\* A message is numbered after those logged before it.
NextNumber == Len(sent[DLOG_MAIN]) + 1

\* log(), the variadic log() and log_service_started/failed/stopped().  A
\* stream that dropped the message records the empty line.
LogMessage(m) ==
    /\ NextNumber <= MaxMsgs
    /\ LET n  == NextNumber
           to == LogCurrentLine(m)
           kept(i) == i \in to /\ B!get_free(stream[i].log_buffer) >= Len(LineFor(i, m, n))
       IN  /\ stream' = [i \in Streams |-> IF i \in to THEN Push(i, m, n) ELSE stream[i]]
           /\ sent' = [i \in Streams |->
                          Append(sent[i], IF kept(i) THEN LineFor(i, m, n) ELSE <<>>)]
    /\ UNCHANGED <<console_queue, owner, opens, watched, out, cut>>
-----------------------------------------------------------------------------
(***************************************************************************)
(* Writing a stream: what fd_event() may do, as a set of outcomes.  `gives'*)
(* says that release_console() is called.  The file takes all of what it   *)
(* is offered, a part of it, nothing for now, or fails.                    *)
(***************************************************************************)
Outcome(s, wrote, rearm, gives, short) ==
    [stream |-> s, wrote |-> wrote, rearm |-> rearm, gives |-> gives, short |-> short]

\* The message that tells that messages were discarded, from msg_index on.
WriteSpecial(r) ==
    LET s    == IF r.special THEN r
                ELSE [r EXCEPT !.special = TRUE, !.discarded = FALSE, !.msg_index = 0]
        rest == SubSeq(Notice, s.msg_index + 1, Len(Notice))
    IN  {Outcome([s EXCEPT !.special = FALSE, !.discarded = FALSE, !.msg_index = 0],
                 rest, IF s.release THEN "DISARM" ELSE "REARM", s.release, FALSE),
         Outcome(s, <<>>, "REARM", FALSE, FALSE),
         Outcome(s, <<>>, "REMOVE", FALSE, FALSE)}
        \cup {Outcome([s EXCEPT !.msg_index = @ + n], SubSeq(rest, 1, n), "REARM", FALSE, FALSE) :
              n \in 1 .. Len(rest) - 1}

\* The line at the start of the buffer: its end is looked for in the first
\* span and, if the buffer wraps, in the second one.
FindLine(b) ==
    LET first == B!get_contiguous_length(b)
        ends(span) == {k \in span : B!Contents(b)[k] = NL}
        upto(S) == [len |-> CHOOSE k \in S : \A j \in S : k <= j, will_complete |-> TRUE]
    IN  IF ends(1 .. first) # {} THEN upto(ends(1 .. first))
        ELSE IF ends(first + 1 .. b.length) # {} THEN upto(ends(first + 1 .. b.length))
        ELSE [len |-> b.length, will_complete |-> FALSE]

\* After a successful writev(): all of the line is consumed, however much of
\* it was written; current_index follows only if the line is complete.
Written(s, len, complete) ==
    [s EXCEPT !.log_buffer = B!consume(@, len), !.partway = ~complete,
              !.current_index = IF complete THEN @ - len ELSE @]

\* A line from the circular buffer.
WriteLine(s) ==
    LET line == FindLine(s.log_buffer)
        text == B!extract(s.log_buffer, 0, line.len)
        done == Written(s, line.len, TRUE)
        stop == done.current_index = 0 \/ s.release
    IN  {Outcome(s, <<>>, "REARM", FALSE, FALSE), Outcome(s, <<>>, "REMOVE", FALSE, FALSE)}
        \cup (IF line.will_complete
              THEN {Outcome(done, text, IF stop THEN "DISARM" ELSE "REARM", stop, FALSE)}
              ELSE {Outcome(Written(s, line.len, FALSE), text, "REARM", FALSE, FALSE)})
        \cup {Outcome(Written(s, line.len, FALSE), SubSeq(text, 1, n), "REARM", FALSE, TRUE) :
              n \in 1 .. line.len - 1}

\* Mutant: that messages were discarded is never told.
FdEventNoNotice(s) ==
    IF s.current_index = 0 THEN {Outcome(s, <<>>, "DISARM", TRUE, FALSE)} ELSE WriteLine(s)

fd_event(s) ==
    IF ~s.partway /\ (s.special \/ s.discarded) THEN WriteSpecial(s)
    ELSE IF s.current_index = 0 THEN {Outcome(s, <<>>, "DISARM", TRUE, FALSE)}
    ELSE WriteLine(s)
-----------------------------------------------------------------------------
(***************************************************************************)
(* The console is released by its stream when what was being written is    *)
(* complete, and given to the services in the order in which they queued;  *)
(* a service that no longer wants it passes it on at once.  With nobody    *)
(* left the stream takes it back, and drops what it holds if it was gone   *)
(* for a second or more.                                                   *)
(***************************************************************************)
discard(s) == [s EXCEPT !.current_index = 0, !.log_buffer = B!trim_to(@, 0)]

\* enable_console_log(true).  A watcher that was removed after an error is not
\* put back into the event loop: to enable it has no effect (`watched').
EnableConsoleLog(s) ==
    IF s.release THEN [s EXCEPT !.release = FALSE, !.open = TRUE, !.enabled = TRUE] ELSE s

\* pull_console_queue(), acquired_console() and a release_console() that
\* follows it included.
pull_console_queue(s, q) ==
    {[stream |-> s, owner |-> q[k], queue |-> SubSeq(q, k + 1, Len(q))] : k \in 1 .. Len(q)}
    \cup {[stream |-> EnableConsoleLog(d), owner |-> NoService, queue |-> <<>>] :
          d \in {s, discard(s)}}

\* buffered_log_stream::release_console()
ReleaseBy(o, q) ==
    IF o.gives /\ o.stream.release THEN pull_console_queue(o.stream, q)
    ELSE {[stream |-> o.stream, owner |-> owner, queue |-> q]}

\* watch_removed()
Removed(s) == [s EXCEPT !.open = FALSE, !.release = TRUE, !.enabled = FALSE]

\* What the event loop does with the answer of fd_event(), after the handler.
Rearm(s, rearm) ==
    CASE rearm = "REMOVE" -> Removed(s)
      [] rearm = "DISARM" -> [s EXCEPT !.enabled = FALSE]
      [] OTHER            -> s

\* One call of fd_event() for stream i, with the queue as it then is; `keen'
\* is a service that is sure to take the console.
WriteStream(i, s, q, keen) ==
    \E o \in fd_event(s) :
      /\ \E p \in ReleaseBy(o, q) :
           /\ o.gives => keen \in {NoService, p.owner}
           /\ stream' = [stream EXCEPT ![i] = Rearm(p.stream, o.rearm)]
           /\ watched' = IF o.rearm = "REMOVE" THEN watched \ {i} ELSE watched
           /\ owner' = p.owner
           /\ console_queue' = p.queue
      /\ cut' = [cut EXCEPT ![i] = @ \/ o.short]
      /\ out' = [out EXCEPT ![i] = IF cut'[i] THEN <<>> ELSE @ \o o.wrote]
    /\ UNCHANGED <<opens, sent>>

\* The file can be written: the watcher of stream i is armed.
Armed(i) == stream[i].open /\ stream[i].enabled /\ i \in watched
FdEvent(i) == Armed(i) /\ WriteStream(i, stream[i], console_queue, NoService)

Queued(s) == s \in Range(console_queue)

\* append_console_queue(): the first to queue asks the stream to let go
\* (flush_for_release()), which writes once.
QueueForConsole(s) ==
    /\ ~Queued(s) /\ owner # s
    /\ LET q == Append(console_queue, s)
       IN  IF console_queue = <<>> /\ ~stream[DLOG_CONS].release
           THEN WriteStream(DLOG_CONS, [stream[DLOG_CONS] EXCEPT !.release = TRUE], q, s)
           ELSE /\ console_queue' = q
                /\ UNCHANGED <<stream, owner, opens, watched, history>>

\* service_set::unqueue_console(): a service that waited is told to stop.
UnqueueConsole(s) ==
    /\ Queued(s)
    /\ console_queue' = SelectSeq(console_queue, LAMBDA t : t # s)
    /\ UNCHANGED <<stream, owner, opens, watched, history>>

\* service_record::release_console()
ReleaseConsole ==
    /\ owner # NoService
    /\ \E p \in pull_console_queue(stream[DLOG_CONS], console_queue) :
         /\ stream' = [stream EXCEPT ![DLOG_CONS] = p.stream]
         /\ owner' = p.owner
         /\ console_queue' = p.queue
    /\ UNCHANGED <<opens, watched, history>>

\* setup_main_log(): at startup, when the log service is up, and again when
\* the file was lost.
SetupMainLog ==
    /\ ~stream[DLOG_MAIN].open /\ opens < MaxOpens
    /\ opens' = opens + 1
    /\ watched' = watched \cup {DLOG_MAIN}
    /\ stream' = [stream EXCEPT ![DLOG_MAIN].open = TRUE, ![DLOG_MAIN].release = FALSE,
                                ![DLOG_MAIN].enabled = TRUE]
    /\ UNCHANGED <<console_queue, owner, history>>

\* close_log(): both streams are deregistered.  Nobody logs afterwards.
CloseLog ==
    /\ NextNumber > MaxMsgs /\ opens > 0
    /\ \E i \in Streams : stream[i].open
    /\ stream' = [i \in Streams |-> IF stream[i].open THEN Removed(stream[i]) ELSE stream[i]]
    /\ watched' = {}
    /\ UNCHANGED <<console_queue, owner, opens, history>>

Next ==
    \/ \E m \in Messages : LogMessage(m)
    \/ \E i \in Streams : FdEvent(i)
    \/ \E s \in Services : QueueForConsole(s) \/ UnqueueConsole(s)
    \/ ReleaseConsole
    \/ SetupMainLog
    \/ CloseLog

\* The event loop calls the handler of an armed watcher whose file can be
\* written, and files become writable again.
Fairness == \A i \in Streams : WF_vars(FdEvent(i))

Spec == Init /\ [][Next]_vars
FairSpec == Spec /\ Fairness

is_log_flushed ==
    /\ stream[DLOG_CONS].current_index = 0
    /\ stream[DLOG_MAIN].open => stream[DLOG_MAIN].current_index = 0
-----------------------------------------------------------------------------
(***************************************************************************)
(* Properties.                                                             *)
(***************************************************************************)
IsNotice(c) == c \in Range(Notice)
TextOf(w) == FlattenSeq([k \in DOMAIN w |-> IF IsNotice(w[k]) THEN <<>> ELSE <<w[k]>>])
Text(i) == TextOf(out[i])
Pending(i) == B!Contents(stream[i].log_buffer)

\* No line of the main log is lost, changed or reordered: while no write was
\* short, what was written and what is buffered are the accepted lines.
MainLogComplete ==
    ~cut[DLOG_MAIN] => Text(DLOG_MAIN) \o Pending(DLOG_MAIN) = FlattenSeq(sent[DLOG_MAIN])

\* The console shows whole lines in their order, some of them left out after
\* a discard, and a notice stands between two lines.
ConsoleWholeLines ==
    ~cut[DLOG_CONS] =>
      /\ \E kept \in SUBSET DOMAIN sent[DLOG_CONS] :
            FlattenSeq([k \in DOMAIN sent[DLOG_CONS] |->
                          IF k \in kept THEN sent[DLOG_CONS][k] ELSE <<>>])
              = Text(DLOG_CONS) \o Pending(DLOG_CONS)
      /\ \A k \in 2 .. Len(out[DLOG_CONS]) :
            out[DLOG_CONS][k] = Notice[1] => out[DLOG_CONS][k - 1] \in {NL, Notice[2]}

\* A service that waits for the console gets it, or leaves the queue, once the
\* stream is done with the line it is writing.  (It does not hold; README.)
ConsoleHandedOver ==
    \A s \in Services :
        (Queued(s) /\ owner = NoService) ~>
            (~Queued(s) \/ owner # NoService \/ cut[DLOG_CONS] \/ ~stream[DLOG_CONS].open)

\* The notices that the reader of stream i has seen to their end.
Notices(i) == Cardinality({k \in DOMAIN out[i] : out[i][k] = Notice[2]})
Unreported(i) == stream[i].discarded \/ stream[i].special

\* The main log is in use, and an event is to come: it is armed, or lines wait.
\* What is left out is a message that is longer than the buffer, discarded while
\* the log is idle: nothing is told of it until the next line is accepted.
MustReport ==
    LET s == stream[DLOG_MAIN]
    IN  Unreported(DLOG_MAIN) /\ s.open /\ (s.enabled \/ s.current_index > 0)

\* The reader of a log learns that a message was discarded: on either stream a
\* discard is forgotten only with the end of a notice, and on the main log that
\* notice comes, unless a write is short or the file is lost.
DiscardReported ==
    /\ [][\A i \in Streams : Unreported(i) /\ ~Unreported(i)' => Notices(i)' > Notices(i) \/ cut'[i]]_vars
    /\ MustReport ~> (~Unreported(DLOG_MAIN) \/ cut[DLOG_MAIN] \/ ~stream[DLOG_MAIN].open)

=============================================================================
