------------------------------ MODULE Control -------------------------------
(***************************************************************************)
(* One control connection of dinit (control.cc, includes/control.h).  What *)
(* an order does to the service graph is the subject of module Service;    *)
(* here a service is its state, the record that stands for it and the      *)
(* events that it broadcasts.                                              *)
(*                                                                         *)
(* The handler of a connection runs to its end without another event of    *)
(* dinit in between, but the client runs beside it: the steps of the       *)
(* handler (read, one packet after another, write, set the watches) are    *)
(* actions, and `at' says how far it is.                                   *)
(***************************************************************************)
EXTENDS Protocol, FiniteSetsExt

CONSTANTS
    RbufSize,      \* size of the receive buffer (1024)
    OUTBUF_LIMIT,  \* high water mark of the output (16384)
    Word,          \* number of values of an unsigned
    Dependents,    \* which services hold an acquisition of which
    MaxRecords,    \* bound: records made for one service name
    MaxEvents      \* bound: changes that nobody on this connection asked for

VARIABLES
    conn,          \* control_conn_t
    sys            \* the services and the environment, as far as seen from here

B == INSTANCE CPBuffer WITH SIZE <- RbufSize, Nul <- Rest

UpStates == {"STARTING", "STARTED"}
States == UpStates \cup {"STOPPING", "STOPPED"}
Handles == 0 .. 2 * Cardinality(Services)
Record(s) == <<s, sys.rec[s]>>
Records == Services \X (1 .. MaxRecords)

\* control_conn_t(): only input is watched.
NewConn ==
    [rbuf |-> B!Empty, chklen |-> 0, bad_conn_close |-> FALSE, oom_close |-> FALSE,
     key_service_map |-> <<>>, service_key_map |-> {},
     outbuf |-> <<>>, outbuf_size |-> 0, outpkt_index |-> 0,
     watches |-> {"IN"}, at |-> "idle", failed |-> FALSE, alive |-> TRUE]

\* rec is 0 for a service that is not loaded; `heard' are the records that
\* have this connection among their listeners.
ControlInit ==
    /\ conn = NewConn
    /\ \E st \in [Services -> {"STARTED", "STOPPED"}], rec \in [Services -> {0, 1}] :
         /\ \A s \in Services : rec[s] = 0 => st[s] = "STOPPED"
         /\ sys = [state |-> st, rec |-> rec, made |-> rec, heard |-> {},
                   env_heard |-> FALSE, shutting_down |-> FALSE, events |-> 0]

\* What a handler works on: the connection, the stream to the client, the services.
Now == [c |-> conn, out |-> toclient, sys |-> sys]
-----------------------------------------------------------------------------
(***************************************************************************)
(* Output.                                                                 *)
(***************************************************************************)
\* queue_packet(): with nothing queued the packet is written at once as far as
\* the socket takes it.  What is left is queued: the rest of an array, or all of
\* a vector and how much of it was written.  outbuf_size gets the size that a
\* vector has after it was moved from.
queue_packet(k, p) ==
    LET was_empty == k.c.outbuf = <<>>
        vec   == p.kind \in Vectors
        bytes == Bytes(p, PacketSize(p.kind, p.arg))
        wr    == IF was_empty THEN Min({SockRoom - Len(k.out), Len(bytes)}) ELSE 0
        left  == SubSeq(bytes, wr + 1, Len(bytes))
    IN  IF k.c.failed \/ (was_empty /\ ~client_open) THEN [k EXCEPT !.c.failed = TRUE]
        ELSE IF left = <<>> THEN [k EXCEPT !.out = @ \o bytes]
        ELSE [k EXCEPT !.out = @ \o SubSeq(bytes, 1, wr),
                       !.c.outbuf = Append(@, IF vec THEN bytes ELSE left),
                       !.c.outbuf_size = (@ + (IF vec THEN 0 ELSE Len(left))) % Word,
                       !.c.outpkt_index = IF vec /\ was_empty THEN wr ELSE @]

\* From here on operators take a set K of what k may be to the set of what it
\* may be afterwards.
Queue(K, p) == {queue_packet(k, p) : k \in K}
Reply(K, kind) == Queue(K, Packet(kind, <<>>, "none"))
QueueAll(K, pkts) ==
    LET after[n \in 0 .. Len(pkts)] == IF n = 0 THEN K ELSE Queue(after[n - 1], pkts[n])
    IN  after[Len(pkts)]

\* A bad request: the answer, and the connection closes when it was sent.
BadRequest(K) ==
    {[k EXCEPT !.c.bad_conn_close = @ \/ ~k.c.failed] : k \in Reply(K, "BADREQ")}

\* service_event(): two packets for each handle of the service.  Whether they
\* could be queued is not looked at, and the watches stay as they are.
service_event(K, record, event) ==
    LET hs(k) == SetToSortSeq({h \in Handles : <<record, h>> \in k.c.service_key_map}, <)
        both(h) == <<Packet("SERVICEEVENT5", <<h>>, event), Packet("SERVICEEVENT", <<h>>, event)>>
        pkts(k) == FlattenSeq([i \in 1 .. Len(hs(k)) |-> both(hs(k)[i])])
    IN  UNION {{[q EXCEPT !.c.failed = k.c.failed] : q \in QueueAll({k}, pkts(k))} :
               k \in {k \in K : record \in k.sys.heard}}
        \cup {k \in K : record \notin k.sys.heard}

\* environ_event()
environ_event(k) ==
    IF k.sys.env_heard
    THEN {[q EXCEPT !.c.failed = k.c.failed] : q \in Queue({k}, Packet("ENVEVENT", <<>>, "none"))}
    ELSE {k}

Broadcast(K, record, events) ==
    LET after[n \in 0 .. Len(events)] ==
            IF n = 0 THEN K ELSE service_event(after[n - 1], record, events[n])
    IN  after[Len(events)]
-----------------------------------------------------------------------------
(***************************************************************************)
(* Handles.                                                                *)
(***************************************************************************)
Assigned(k) == DOMAIN k.c.key_service_map
\* find_service_for_key(): the record of a handle, if it is one.
IsHandle(k, h) == h \in Assigned(k)
find_service_for_key(k, h) == k.c.key_service_map[h]

\* allocate_service_handle(): the first gap in the handles in use.
NextHandle(k) == Min(Handles \ Assigned(k))
AllocateHandle(k, record) ==
    LET h == NextHandle(k)
    IN  [k EXCEPT !.c.key_service_map = [x \in Assigned(k) \cup {h} |->
                                           IF x = h THEN record ELSE @[x]],
                  !.c.service_key_map = @ \cup {<<record, h>>},
                  !.sys.heard = @ \cup {record}]

DropKey(k, h) ==
    [k EXCEPT !.c.key_service_map = [x \in Assigned(k) \ {h} |-> @[x]]]

\* service_key_map.erase(service): every handle of the record.
DropService(k, record) ==
    [k EXCEPT !.c.service_key_map = {e \in @ : e[1] # record}]

\* Mutant: the length to wait for stays that of this request.
ConsumeKeepsChklen(K, r) ==
    {IF k.c.failed \/ k.c.bad_conn_close THEN k
     ELSE [k EXCEPT !.c.rbuf = B!consume(@, RequestSize(r.cmd))] : k \in K}

\* Clear the packet from the buffer.
Consume(K, r) ==
    {IF k.c.failed \/ k.c.bad_conn_close THEN k
     ELSE [k EXCEPT !.c.rbuf = B!consume(@, RequestSize(r.cmd)), !.c.chklen = 0] : k \in K}
-----------------------------------------------------------------------------
(***************************************************************************)
(* What a service may do at once when it is asked to go up or down: its    *)
(* new state and the events that it broadcasts (an abstraction of the      *)
(* module Service).                                                        *)
(***************************************************************************)
To(state, events) == [state |-> state, events |-> events]
Up(st) ==
    CASE st = "STOPPED"  -> {To("STARTING", <<>>), To("STARTED", <<"STARTED">>),
                             To("STOPPED", <<"FAILEDSTART">>)}
      [] st = "STOPPING" -> {To("STOPPING", <<>>), To("STARTING", <<"STOPCANCELLED">>)}
      [] OTHER           -> {To(st, <<>>)}
Down(st) ==
    CASE st = "STARTED"  -> {To("STARTED", <<>>), To("STOPPING", <<>>),
                             To("STOPPED", <<"STOPPED">>)}
      [] st = "STARTING" -> {To("STARTING", <<>>), To("STARTING", <<"STARTCANCELLED">>),
                             To("STOPPED", <<"STARTCANCELLED", "STOPPED">>)}
      [] st = "STOPPING" -> {To("STOPPING", <<>>), To("STOPPING", <<"STARTCANCELLED">>)}
      [] OTHER           -> {To(st, <<>>)}
Again(st) ==
    {To("STOPPING", <<>>), To("STARTING", <<"STOPPED">>), To("STARTED", <<"STOPPED", "STARTED">>),
     To("STOPPED", <<"STOPPED", "FAILEDSTART">>)}

Move(k, s, m) == Broadcast({[k EXCEPT !.sys.state[s] = m.state]}, <<s, k.sys.rec[s]>>, m.events)
-----------------------------------------------------------------------------
(***************************************************************************)
(* Requests.  A handler maps k to the set of what k may be after it.       *)
(***************************************************************************)
FoundRecord(K, s) ==
    UNION {Queue({AllocateHandle(k, <<s, k.sys.rec[s]>>)},
                 Packet("SERVICERECORD", <<NextHandle(k)>>, k.sys.state[s])) : k \in K}

process_find_load(k, r) ==
    LET s == r.arg[1]
        Q == Consume({k}, r)
        loaded == {[q EXCEPT !.sys.rec[s] = q.sys.made[s] + 1, !.sys.made[s] = @ + 1] :
                   q \in {q \in Q : q.sys.made[s] < MaxRecords}}
    IN  IF k.sys.rec[s] # 0 THEN FoundRecord(Q, s)
        ELSE IF r.cmd = "FINDSERVICE" THEN Reply(Q, "NOSERVICE")
        ELSE UNION {Reply(Q, e) : e \in {"NOSERVICE", "SERVICE_DESC_ERR", "SERVICE_LOAD_ERR"}}
             \cup FoundRecord(loaded, s)

process_close_handle(k, r) ==
    LET h == r.arg[1]
        record == find_service_for_key(k, h)
        more == \E x \in Handles \ {h} : <<record, x>> \in k.c.service_key_map
        d == [DropKey(k, h) EXCEPT !.c.service_key_map = @ \ {<<record, h>>},
                                   !.sys.heard = IF more THEN @ ELSE @ \ {record}]
    IN  IF IsHandle(k, h) THEN Consume(Reply({d}, "ACK"), r) ELSE BadRequest({k})

\* check_dependents(): every dependent that holds an acquisition gets a new handle.
Holding(k, s) == {d \in Dependents[s] : k.sys.rec[d] # 0 /\ k.sys.state[d] \in UpStates}
check_dependents(k, s) ==
    LET ds == SetToSeq(Holding(k, s))
        new == FoldLeft(LAMBDA a, d : [k |-> AllocateHandle(a.k, <<d, k.sys.rec[d]>>),
                                       hs |-> Append(a.hs, NextHandle(a.k))],
                        [k |-> k, hs |-> <<>>], ds)
    IN  Queue({new.k}, Packet("DEPENDENTS", new.hs, "none"))

\* The moves of an order, and the state that makes the answer ALREADYSS.
OrderMoves(r, st) ==
    CASE r.cmd \in {"STARTSERVICE", "WAKESERVICE"} -> Up(st)
      [] r.flags = "restart" -> Again(st)
      [] r.cmd = "STOPSERVICE" -> {m \in Down(st) : m.state # "STARTED"}
      [] OTHER -> Down(st)
Wanted(r) ==
    IF r.cmd \in {"STARTSERVICE", "WAKESERVICE"} \/ r.flags = "restart" THEN "STARTED" ELSE "STOPPED"

\* process_start_stop().  Refusals first: a shutdown, a pin, dependents, a
\* restart or a wake that does not apply.
process_start_stop(k, r) ==
    LET s  == find_service_for_key(k, r.arg[1])[1]
        st == k.sys.state[s]
        up == r.cmd \in {"STARTSERVICE", "WAKESERVICE"}
        gentle == r.cmd = "STOPSERVICE" /\ r.flags # "force"
        refused ==
            CASE (up \/ r.flags = "restart") /\ k.sys.shutting_down -> {"SHUTTINGDOWN"}
              [] up /\ st \notin UpStates -> {"PINNEDSTOPPED", ""}
              [] r.cmd = "STOPSERVICE" /\ st \in UpStates -> {"PINNEDSTARTED", ""}
              [] OTHER -> {""}
        done(q, m, e) == Reply(Move(q, s, m), IF m.state = Wanted(r) THEN "ALREADYSS" ELSE e)
        answer(q, e) ==
            IF e # "" THEN Reply({q}, e)
            ELSE IF gentle /\ Holding(q, s) # {} THEN check_dependents(q, s)
            ELSE IF r.flags = "restart" /\ st # "STARTED" THEN Reply({q}, "NAK")
            ELSE UNION {done(q, m, "ACK") : m \in OrderMoves(r, st)}
                 \cup (IF r.cmd = "WAKESERVICE" THEN done(q, To(st, <<>>), "NAK") ELSE {})
        pre == IF r.flags = "restart" THEN Reply({k}, "PREACK") ELSE {k}
    IN  IF ~IsHandle(k, r.arg[1]) THEN BadRequest({k})
        ELSE UNION {IF q.c.failed THEN {q} ELSE Consume(UNION {answer(q, e) : e \in refused}, r) : q \in pre}

process_unpin_service(k, r) ==
    LET s == find_service_for_key(k, r.arg[1])[1]
    IN  IF ~IsHandle(k, r.arg[1]) THEN BadRequest({k})
        ELSE UNION {Consume(Reply(Move(k, s, m), "ACK"), r) :
                    m \in Up(k.sys.state[s]) \cup Down(k.sys.state[s])}

\* has_lone_ref(): no dependent, and no listener but this connection.
LoneRef(k, s, check_deps) ==
    IF check_deps /\ \E d \in Dependents[s] : k.sys.rec[d] # 0 THEN {FALSE} ELSE BOOLEAN

\* Mutant: the handle of an unloaded service stays valid.
UnloadKeepsHandle(k, r) ==
    LET record == find_service_for_key(k, r.arg[1])
        gone == [k EXCEPT !.sys.rec[record[1]] = 0, !.sys.heard = @ \ {record}]
    IN  Consume(Reply({gone}, "ACK"), r)

process_unload_service(k, r) ==
    LET record == find_service_for_key(k, r.arg[1])
        s == record[1]
        gone == [k EXCEPT !.sys.rec[s] = 0, !.sys.heard = @ \ {record}]
    IN  IF ~IsHandle(k, r.arg[1]) THEN BadRequest({k})
        ELSE UNION {IF lone /\ k.sys.state[s] = "STOPPED"
                    THEN Consume(Reply({DropKey(DropService(gone, record), r.arg[1])}, "ACK"), r)
                    ELSE Consume(Reply({k}, "NAK"), r) : lone \in LoneRef(k, s, TRUE)}

\* process_reload_service(): the handle is gone before the reload is tried; a
\* reload makes a new record or changes the old one, or fails.
process_reload_service(k, r) ==
    LET record == find_service_for_key(k, r.arg[1])
        s == record[1]
        dropped == [DropService(DropKey(k, r.arg[1]), record) EXCEPT !.sys.heard = @ \ {record}]
        fresh == {[dropped EXCEPT !.sys.rec[s] = n, !.sys.made[s] = n] :
                  n \in {n \in 1 .. MaxRecords : n = k.sys.made[s] + 1}}
    IN  IF ~IsHandle(k, r.arg[1]) THEN BadRequest({k})
        ELSE Consume(Reply({k, dropped}, "NAK"), r) \cup Consume(Reply({dropped} \cup fresh, "ACK"), r)

\* list_services(), list_services5(): one packet per service, then the end.
list_services(k, r) ==
    LET loaded == SetToSeq({s \in Services : k.sys.rec[s] # 0})
        infos  == [i \in 1 .. Len(loaded) |-> Packet("SVCINFO", <<>>, k.sys.state[loaded[i]])]
    IN  Reply(QueueAll(Consume({k}, r), infos), "LISTDONE")

\* Requests that answer a handle with a packet, or a bad one with NAK.  A log
\* is there only for a process whose output is buffered.
Asking == [QUERYSERVICENAME |-> "SERVICENAME", SERVICESTATUS |-> "SERVICESTATUS",
           SERVICESTATUS5 |-> "SERVICESTATUS", CATLOG |-> "SERVICE_LOG",
           QUERYSERVICEDSCDIR |-> "SVCDSCDIR"]
AnswerAbout(k, r) ==
    LET Q == Consume({k}, r)
        s == find_service_for_key(k, r.arg[1])[1]
    IN  (IF IsHandle(k, r.arg[1]) THEN Queue(Q, Packet(Asking[r.cmd], <<>>, k.sys.state[s])) ELSE {})
        \cup (IF ~IsHandle(k, r.arg[1]) \/ r.cmd = "CATLOG" THEN Reply(Q, "NAK") ELSE {})

\* add_service_dep(), rm_service_dep(): the links themselves are in Service.  A
\* bad type is answered, and then the request is processed all the same.
service_dep(k, r) ==
    LET from == r.arg[1]
        to   == r.arg[2]
        Q    == IF r.flags = "badtype" THEN BadRequest({k}) ELSE {k}
        st   == find_service_for_key(k, to)[1]
        moves == IF r.cmd = "ADD_DEP" \/ k.sys.shutting_down THEN {To(k.sys.state[st], <<>>)}
                 ELSE IF r.cmd = "REM_DEP" THEN Down(k.sys.state[st])
                 ELSE Up(k.sys.state[st])
    IN  IF ~IsHandle(k, from) \/ ~IsHandle(k, to) THEN BadRequest({k})
        ELSE IF find_service_for_key(k, from) = find_service_for_key(k, to) THEN BadRequest({k})
        ELSE Consume(Reply(Q, "NAK"), r)
             \cup UNION {Consume(Reply(Move(q, st, m), "ACK"), r) : q \in Q, m \in moves}

\* process_setenv(): listeners hear of the change before the answer is queued.
process_setenv(k, r) == Consume(Reply(environ_event(k), "ACK"), r) \cup BadRequest({k})

\* process_getallenv(): chklen is left as it is.
process_getallenv(k, r) ==
    Reply({[k EXCEPT !.c.rbuf = B!consume(@, 2)]}, "ALLENV")

process_listenenv(k, r) ==
    Reply({[k EXCEPT !.c.rbuf = B!consume(@, 1), !.sys.env_heard = TRUE]}, "ACK")

process_set_trigger(k, r) ==
    LET Q == Consume({k}, r)
        s == find_service_for_key(k, r.arg[1])[1]
        up == {To(k.sys.state[s], <<>>)}
              \cup (IF k.sys.state[s] = "STARTING" THEN {To("STARTED", <<"STARTED">>)} ELSE {})
    IN  Reply(Q, "NAK")
        \cup (IF IsHandle(k, r.arg[1]) THEN UNION {Reply(Move(q, s, m), "ACK") : q \in Q, m \in up} ELSE {})

process_signal(k, r) ==
    UNION {Reply(Consume({k}, r), e) :
        e \in IF IsHandle(k, r.arg[1]) THEN {"SIGNAL_NOPID", "SIGNAL_BADSIG", "SIGNAL_KILLERR", "ACK"}
                                    ELSE {"NAK"}}

query_load_mech(k, r) == UNION {Reply(Consume({k}, r), e) : e \in {"LOADER_MECH", "NAK"}}

\* SHUTDOWN: stop_all_services()
process_shutdown(k, r) ==
    LET down == [k EXCEPT !.sys.shutting_down = TRUE,
                          !.sys.state = [s \in Services |->
                               IF @[s] \in UpStates THEN "STOPPING" ELSE @[s]]]
    IN  Consume(Reply({down}, "ACK"), r)

Handled(k, r) ==
    CASE r.cmd = "QUERYVERSION" -> Consume(Reply({k}, "CPVERSION"), r)
      [] r.cmd \in {"FINDSERVICE", "LOADSERVICE"} -> process_find_load(k, r)
      [] r.cmd = "CLOSEHANDLE" -> process_close_handle(k, r)
      [] r.cmd \in Orders -> process_start_stop(k, r)
      [] r.cmd = "UNPINSERVICE" -> process_unpin_service(k, r)
      [] r.cmd = "UNLOADSERVICE" -> process_unload_service(k, r)
      [] r.cmd = "RELOADSERVICE" -> process_reload_service(k, r)
      [] r.cmd = "SHUTDOWN" -> process_shutdown(k, r)
      [] r.cmd \in {"LISTSERVICES", "LISTSERVICES5"} -> list_services(k, r)
      [] r.cmd \in DOMAIN Asking -> AnswerAbout(k, r)
      [] r.cmd \in DepRequests -> service_dep(k, r)
      [] r.cmd = "SETENV" -> process_setenv(k, r)
      [] r.cmd = "GETALLENV" -> process_getallenv(k, r)
      [] r.cmd = "LISTENENV" -> process_listenenv(k, r)
      [] r.cmd = "SETTRIGGER" -> process_set_trigger(k, r)
      [] r.cmd = "SIGNAL" -> process_signal(k, r)
      [] r.cmd = "QUERY_LOAD_MECH" -> query_load_mech(k, r)
      [] OTHER -> BadRequest({k})

\* process_packet(): a request is handled when all of it has arrived.
process_packet(k) ==
    LET r == B!At(k.c.rbuf, 0)
        wait(n) == {[k EXCEPT !.c.chklen = n]}
    IN  IF k.c.rbuf.length < HeaderSize(r.cmd) THEN wait(HeaderSize(r.cmd))
        ELSE IF k.c.rbuf.length < RequestSize(r.cmd) THEN wait(RequestSize(r.cmd))
        ELSE Handled(k, r)
-----------------------------------------------------------------------------
(***************************************************************************)
(* The handler of the connection.                                          *)
(***************************************************************************)
Becomes(k) == conn' = k.c /\ toclient' = k.out /\ sys' = k.sys

\* ~control_conn_t()
Delete(k) ==
    [k EXCEPT !.c = [NewConn EXCEPT !.alive = FALSE, !.watches = {}],
              !.sys.heard = {}, !.sys.env_heard = FALSE]

Readable == toserver # <<>> \/ ~client_open
Writable == Len(toclient) < SockRoom \/ ~client_open

\* Mutant: the end of the stream is taken for a read that would block.
DataReadyBlocks ==
    /\ conn.at = "idle" /\ "IN" \in conn.watches /\ toserver # <<>>
    /\ conn' = [conn EXCEPT !.rbuf = B!append(@, SubSeq(toserver, 1, 1)), !.at = "process"]
    /\ toserver' = Tail(toserver)
    /\ UNCHANGED <<toclient, client_open, sys>>

\* data_ready(), the read: no more than fits before the end of the buffer.
DataReady ==
    /\ conn.at = "idle" /\ "IN" \in conn.watches /\ Readable
    /\ UNCHANGED client_open
    /\ IF toserver = <<>>
       THEN Becomes(Delete(Now)) /\ UNCHANGED toserver
       ELSE \E n \in 1 .. Min({B!FillRoom(conn.rbuf, RbufSize), Len(toserver)}) :
              /\ conn' = [conn EXCEPT !.rbuf = B!append(@, SubSeq(toserver, 1, n)), !.at = "process"]
              /\ toserver' = SubSeq(toserver, n + 1, Len(toserver))
              /\ UNCHANGED <<toclient, sys>>

\* data_ready(), the loop: one packet, unless memory runs out in it.
ProcessPacket ==
    /\ conn.at = "process" /\ conn.rbuf.length >= conn.chklen
    /\ \/ \E k \in process_packet(Now) :
            Becomes([k EXCEPT !.c.chklen = Max({@, 1}),
                              !.c.at = IF k.c.failed \/ k.c.bad_conn_close THEN "watch" ELSE "process"])
       \/ Becomes([Now EXCEPT !.c.bad_conn_close = TRUE, !.c.oom_close = TRUE, !.c.at = "watch"])
    /\ UNCHANGED <<toserver, client_open>>

\* data_ready(), the end of the loop.
NoMorePackets ==
    /\ conn.at = "process" /\ conn.rbuf.length < conn.chklen
    /\ conn' = [conn EXCEPT !.bad_conn_close = @ \/ conn.rbuf.length = RbufSize, !.at = "watch"]
    /\ UNCHANGED <<sys, sockets>>

\* Mutant: a packet that was written in part starts again.
SendDataAnew(k) ==
    LET pkt == Head(k.c.outbuf)
        wr  == Min({SockRoom - Len(k.out), Len(pkt)})
    IN  IF ~client_open \/ k.c.outbuf = <<>> THEN Delete(k)
        ELSE [k EXCEPT !.out = @ \o SubSeq(pkt, 1, wr), !.c.outbuf = IF wr = Len(pkt) THEN Tail(@) ELSE @,
                       !.c.outpkt_index = 0, !.c.at = "watch"]

\* send_data(): the first packet, from outpkt_index on.
send_data(k) ==
    LET pkt == Head(k.c.outbuf)
        wr  == Min({SockRoom - Len(k.out), Len(pkt) - k.c.outpkt_index})
        sent == [k EXCEPT !.out = @ \o SubSeq(pkt, k.c.outpkt_index + 1, k.c.outpkt_index + wr),
                          !.c.at = "watch"]
        closing == k.c.bad_conn_close /\ Len(k.c.outbuf) = 1 /\ ~k.c.oom_close
        done == [sent EXCEPT !.c.outbuf = Tail(@), !.c.outpkt_index = 0,
                             !.c.outbuf_size = (@ - Len(pkt)) % Word]
        oom == IF k.c.oom_close /\ client_open THEN [k EXCEPT !.out = Append(@, Packet("OOM", <<>>, "none"))] ELSE k
    IN  IF k.c.outbuf = <<>> THEN Delete(oom)
        ELSE IF ~client_open THEN Delete(k)
        ELSE IF k.c.outpkt_index + wr < Len(pkt) THEN [sent EXCEPT !.c.outpkt_index = @ + wr]
        ELSE IF closing THEN Delete(done) ELSE done

SendData ==
    /\ conn.at = "idle" /\ "OUT" \in conn.watches /\ Writable
    /\ Becomes(send_data(Now))
    /\ UNCHANGED <<toserver, client_open>>

\* Mutant: what is queued does not make the connection wait to write.
SetWatchesInOnly ==
    /\ conn.at = "watch"
    /\ conn' = [conn EXCEPT !.at = "idle", !.failed = FALSE,
                 !.watches = IF conn.bad_conn_close THEN {"OUT"} ELSE {"IN"}]
    /\ UNCHANGED <<sys, sockets>>

\* The end of control_conn_cb().
SetWatches ==
    /\ conn.at = "watch"
    /\ conn' = [conn EXCEPT !.at = "idle", !.failed = FALSE,
                 !.watches = (IF ~conn.bad_conn_close /\ conn.outbuf_size < OUTBUF_LIMIT THEN {"IN"} ELSE {})
                        \cup (IF conn.outbuf # <<>> \/ conn.bad_conn_close THEN {"OUT"} ELSE {})]
    /\ UNCHANGED <<sys, sockets>>

Idle == conn.at = "idle"

\* A service changes its state for reasons of its own.
OwnMoves(st) ==
    CASE st = "STARTING" -> {To("STARTED", <<"STARTED">>), To("STOPPED", <<"FAILEDSTART">>)}
      [] st = "STARTED"  -> {To("STOPPING", <<>>)}
      [] st = "STOPPING" -> {To("STOPPED", <<"STOPPED">>), To("STARTING", <<"STOPPED">>)}
      [] OTHER           -> {}
Finishes(s) ==
    /\ Idle /\ sys.state[s] \in {"STARTING", "STOPPING"}
    /\ \E m \in OwnMoves(sys.state[s]) :
         LET counted == sys.state[s] = "STOPPING" /\ m.state = "STARTING"
         IN  /\ counted => sys.events < MaxEvents
             /\ \E k \in Move([Now EXCEPT !.sys.events = IF counted THEN @ + 1 ELSE @], s, m) : Becomes(k)
    /\ UNCHANGED <<toserver, client_open>>
Fails(s) ==
    /\ Idle /\ sys.state[s] = "STARTED" /\ sys.events < MaxEvents
    /\ \E m \in OwnMoves("STARTED") :
         \E k \in Move([Now EXCEPT !.sys.events = @ + 1], s, m) : Becomes(k)
    /\ UNCHANGED <<toserver, client_open>>

\* Another client, or the environment file, changes a variable.
EnvironEvent ==
    /\ Idle /\ sys.env_heard /\ sys.events < MaxEvents
    /\ \E k \in environ_event([Now EXCEPT !.sys.events = @ + 1]) : Becomes(k)
    /\ UNCHANGED <<toserver, client_open>>

\* The event loop ends when all services have stopped: connections are closed.
DinitExits ==
    /\ Idle /\ conn.alive /\ sys.shutting_down
    /\ \A s \in Services : sys.state[s] = "STOPPED"
    /\ Becomes(Delete(Now))
    /\ UNCHANGED <<toserver, client_open>>
=============================================================================
