------------------------------- MODULE Client -------------------------------
(***************************************************************************)
(* The clients of the control socket: dinitctl and dinit-monitor, with     *)
(* what they share (includes/dinit-client.h).  A client runs one command:  *)
(* a dialog of requests and replies, which the tables below give stage by  *)
(* stage, and for some commands a wait for an event of a service.          *)
(***************************************************************************)
EXTENDS Protocol, FiniteSetsExt, TLC

CONSTANTS
    ClientBuf,  \* size of its receive buffer (1024)
    Commands,   \* what the client may have been asked to do
    Svc,        \* the service it is about
    From        \* another service: the one that gets a dependency on it

VARIABLE cl     \* the client

NoRequest == Request("none", <<>>, "none")
Step(req, next) == [req |-> req, next |-> next]
Ask(cmd, arg) == Request(cmd, arg, "none")

\* Stages that wait for events, and stages that end a command.
Waits == {"wait_stop", "wait_restart", "wait_start", "drain", "watch"}
Local == {"files", "link"}
Ends == {"ok", "fail", "closed", "oom", "confused"}

Stale == [kind |-> "stale"]   \* a byte of the buffer that was never received
-----------------------------------------------------------------------------
(***************************************************************************)
(* Dialogs: per stage the request, and per reply the stage that follows.   *)
(***************************************************************************)
\* load_service(), with issue_load_service() and check_load_reply()
Loading(svc, then) ==
    Step(Ask("LOADSERVICE", <<svc>>),
         [SERVICERECORD |-> then, NOSERVICE |-> "fail", SERVICE_DESC_ERR |-> "fail",
          SERVICE_LOAD_ERR |-> "fail"])
Finding(svc, then, missing) ==
    Step(Ask("FINDSERVICE", <<svc>>), [SERVICERECORD |-> then, NOSERVICE |-> missing])

Own(c) == IF c.hs = <<>> THEN 0 ELSE c.hs[1]
Last_(c) == IF c.hs = <<>> THEN 0 ELSE c.hs[Len(c.hs)]

\* start_stop_service(): the request and how it is flagged.
Order == [start |-> "STARTSERVICE", stop |-> "STOPSERVICE", force_stop |-> "STOPSERVICE",
          restart |-> "STOPSERVICE", wake |-> "WAKESERVICE", release |-> "RELEASESERVICE"]
OrderFlags(cmd) ==
    CASE cmd = "restart" -> "restart" [] cmd = "force_stop" -> "force" [] OTHER -> "none"
StopCommands == {"stop", "force_stop", "release"}

start_stop_service(c) ==
    LET then == IF c.cmd \in StopCommands THEN "wait_stop"
                ELSE IF c.cmd = "restart" THEN "wait_restart" ELSE "wait_start"
        answers == [ALREADYSS |-> "ok", PINNEDSTARTED |-> "fail", PINNEDSTOPPED |-> "fail",
                    DEPENDENTS |-> "names", NAK |-> "fail", SHUTTINGDOWN |-> "fail",
                    ACK |-> then, PREACK |-> "acked"]
    IN  [load  |-> Loading(Svc, "order"),
         order |-> Step(Request(Order[c.cmd], <<Own(c)>>, OrderFlags(c.cmd)), answers),
         acked |-> Step(NoRequest, answers),
         names |-> Step(Ask("QUERYSERVICENAME", IF c.todo = <<>> THEN <<>> ELSE <<Head(c.todo)>>),
                        [SERVICENAME |-> IF Len(c.todo) > 1 THEN "names" ELSE "fail"])]

unpin_service(c) ==
    [load |-> Loading(Svc, "unpin"), unpin |-> Step(Ask("UNPINSERVICE", <<Own(c)>>), [ACK |-> "ok"])]

unload_service(c) ==
    [load   |-> Finding(Svc, "unload", "fail"),
     unload |-> Step(Ask("UNLOADSERVICE", <<Own(c)>>), [ACK |-> "ok", NAK |-> "fail"])]

reload_service(c) ==
    [load   |-> Finding(Svc, "reload", "first"),
     first  |-> Loading(Svc, "ok"),
     reload |-> Step(Ask("RELOADSERVICE", <<Own(c)>>), [ACK |-> "ok", NAK |-> "fail"])]

list_services_(c) ==
    LET next == [SVCINFO |-> "more", LISTDONE |-> "ok"]
    IN  [load |-> Step(Ask("LISTSERVICES5", <<>>), next), more |-> Step(NoRequest, next)]

service_status(c) ==
    [load   |-> Finding(Svc, "status", "fail"),
     status |-> Step(Ask("SERVICESTATUS5", <<Own(c)>>), [SERVICESTATUS |-> "ok"])]

add_remove_dependency(c) ==
    [load |-> Loading(From, "to"),
     to   |-> Loading(Svc, "dep"),
     dep  |-> Step(Ask(IF c.cmd = "add_dep" THEN "ADD_DEP" ELSE "REM_DEP", <<Own(c), Last_(c)>>),
                   [ACK |-> "ok", NAK |-> "fail"])]

shutdown_dinit(c) == [load |-> Step(Ask("SHUTDOWN", <<>>), [ACK |-> "drain"])]

\* enable_disable_service(), its end: the request, and the status to report.
EnableDialog(c) ==
    [dep    |-> Step(Ask(IF c.cmd = "enable" THEN "ENABLESERVICE" ELSE "REM_DEP", <<Last_(c), Own(c)>>),
                     [ACK |-> "link", NAK |-> "fail"]),
     status |-> Step(Ask("SERVICESTATUS5", <<Own(c)>>), [SERVICESTATUS |-> "status_known"])]

\* enable_disable_service(): the environment, the two services and where their
\* descriptions are (get_remote_env(), get_service_description_dirs()).
enable_disable_service(c) ==
    EnableDialog(c) @@
    [load   |-> Step(Ask("GETALLENV", <<>>), [ALLENV |-> "to"]),
     to     |-> Loading(Svc, "to_dir"),
     to_dir |-> Step(Ask("QUERYSERVICEDSCDIR", <<Own(c)>>), [SVCDSCDIR |-> "from"]),
     from   |-> Loading(From, "mech"),
     mech   |-> Step(Ask("QUERY_LOAD_MECH", <<>>), [LOADER_MECH |-> "dir", NAK |-> "fail"]),
     dir    |-> Step(Ask("QUERYSERVICEDSCDIR", <<Last_(c)>>), [SVCDSCDIR |-> "files"])]

do_setenv(c) ==
    [load   |-> Step(Ask("SETENV", <<>>), [ACK |-> "second", BADREQ |-> "fail"]),
     second |-> Step(Ask("SETENV", <<>>), [ACK |-> "ok", BADREQ |-> "fail"])]

trigger_service(c) ==
    [load    |-> Loading(Svc, "trigger"),
     trigger |-> Step(Ask("SETTRIGGER", <<Own(c)>>), [ACK |-> "ok", NAK |-> "fail"])]

signal_send(c) ==
    [load   |-> Loading(Svc, "signal"),
     signal |-> Step(Ask("SIGNAL", <<Own(c)>>),
                     [ACK |-> "ok", SIGNAL_NOPID |-> "fail", SIGNAL_BADSIG |-> "fail",
                      SIGNAL_KILLERR |-> "fail"])]

cat_service_log(c) ==
    [load |-> Loading(Svc, "cat"),
     cat  |-> Step(Ask("CATLOG", <<Own(c)>>), [SERVICE_LOG |-> "ok", NAK |-> "fail"])]

\* dinit-monitor, of services and of the environment
monitor_services(c) == [load |-> Loading(Svc, "second"), second |-> Loading(From, "watch")]
monitor_environ(c)  == [load |-> Step(Ask("LISTENENV", <<>>), [ACK |-> "watch"])]

\* Another client, which opens a service twice and closes what it has opened,
\* and then sends what is no request.
close_handles(c) ==
    [load   |-> Finding(Svc, "again", "fail"),
     again  |-> Finding(Svc, "close1", "fail"),
     close1 |-> Step(Ask("CLOSEHANDLE", <<Own(c)>>), [ACK |-> "dead"]),
     dead   |-> Step(Ask("SERVICESTATUS", <<Own(c)>>), [NAK |-> "alive"]),
     alive  |-> Step(Ask("SERVICESTATUS", <<Last_(c)>>), [SERVICESTATUS |-> "close2"]),
     close2 |-> Step(Ask("CLOSEHANDLE", <<Last_(c)>>), [ACK |-> "wrong"]),
     wrong  |-> Step(Ask("UNKNOWN", <<>>), [BADREQ |-> "ok"])]

Dialog(c) ==
    CASE c.cmd \in DOMAIN Order -> start_stop_service(c)
      [] c.cmd = "unpin" -> unpin_service(c)
      [] c.cmd = "unload" -> unload_service(c)
      [] c.cmd = "reload" -> reload_service(c)
      [] c.cmd = "list" -> list_services_(c)
      [] c.cmd = "status" -> service_status(c)
      [] c.cmd \in {"add_dep", "rm_dep"} -> add_remove_dependency(c)
      [] c.cmd = "shutdown" -> shutdown_dinit(c)
      [] c.cmd \in {"enable", "disable"} -> enable_disable_service(c)
      [] c.cmd = "setenv" -> do_setenv(c)
      [] c.cmd = "trigger" -> trigger_service(c)
      [] c.cmd = "signal" -> signal_send(c)
      [] c.cmd = "catlog" -> cat_service_log(c)
      [] c.cmd = "monitor" -> monitor_services(c)
      [] c.cmd = "environ" -> monitor_environ(c)
      [] c.cmd = "close" -> close_handles(c)

\* check_protocol_version() comes before every dialog.
Stage(c) ==
    IF c.stage = "version" THEN Step(Ask("QUERYVERSION", <<>>), [CPVERSION |-> "load"])
    ELSE Dialog(c)[c.stage]
-----------------------------------------------------------------------------
ClientInit ==
    \E cmd \in Commands :
      cl = [cmd |-> cmd, stage |-> "version", sent |-> FALSE, inb |-> <<>>, pos |-> 0, hs |-> <<>>,
            todo |-> <<>>, seen |-> {}, verdict |-> "none"]

Running == cl.stage \notin Ends
Talking == Running /\ cl.stage \notin Waits \cup Local
Awaiting == cl.stage \in Waits \/ (Talking /\ cl.sent)

\* The next packet: its first byte tells how many bytes are waited for, which is
\* all of it but for a service record (check_load_reply()): one byte too few.
HeadPacket == cl.inb[1]
IsPacket == cl.inb # <<>> /\ HeadPacket \notin {Rest, Stale}
IsInfo == IsPacket /\ HeadPacket.kind \in Info
NeededBytes ==
    IF IsInfo /\ cl.stage # "watch" THEN LengthField(HeadPacket.kind)
    ELSE PacketSize(HeadPacket.kind, HeadPacket.arg) - (IF HeadPacket.kind = "SERVICERECORD" THEN 1 ELSE 0)
Ready == IsPacket /\ Len(cl.inb) >= NeededBytes

\* consume(): the length of a buffer that has less wraps below zero, and the
\* client takes what it never received for the packets that follow.
Taken(c, n) == [c EXCEPT !.inb = IF n > Len(@) THEN <<Stale>> ELSE SubSeq(@, n + 1, Len(@))]

\* write_all_x(): the request of the stage.
ClientSend ==
    /\ Talking /\ ~cl.sent
    /\ cl' = [cl EXCEPT !.sent = TRUE]
    /\ toserver' = IF Stage(cl).req = NoRequest THEN toserver
                   ELSE toserver \o Bytes(Stage(cl).req, RequestSize(Stage(cl).req.cmd))
    /\ UNCHANGED <<toclient, client_open>>

\* fill(): what has arrived, as far as it fits before the end of the array, when
\* the packet is not complete yet.  It is put at pos.
ClientFill ==
    /\ Awaiting /\ ~Ready /\ (cl.inb = <<>> \/ IsPacket) /\ toclient # <<>>
    /\ LET n == Min({ClientBuf - cl.pos, ClientBuf - Len(cl.inb), Len(toclient)})
       IN  /\ cl' = [cl EXCEPT !.inb = @ \o SubSeq(toclient, 1, n), !.pos = (@ + n) % ClientBuf]
           /\ toclient' = SubSeq(toclient, n + 1, Len(toclient))
    /\ UNCHANGED <<toserver, client_open>>

\* A byte inside a packet is taken for the first of one.
Misread ==
    /\ Awaiting /\ cl.inb # <<>> /\ HeadPacket = Rest
    /\ cl' = [cl EXCEPT !.stage = "confused", !.inb = <<>>]
    /\ UNCHANGED sockets

\* process_service_event(): how an event of the own service ends a wait.
EventVerdict(stop, event) ==
    CASE event = (IF stop THEN "STOPPED" ELSE "STARTED") -> "ok"
      [] event = (IF stop THEN "STOPCANCELLED" ELSE "STARTCANCELLED") -> "fail"
      [] ~stop /\ event = "FAILEDSTART" -> "fail"
      [] OTHER -> "none"
OwnEvent == HeadPacket.kind \in {"SERVICEEVENT", "SERVICEEVENT5"} /\ HeadPacket.arg = <<Own(cl)>>

\* wait_for_reply(): information packets are skipped.  start_stop_service()
\* remembers the states that it saw in them, enable_disable_service() a verdict.
SkipInfo ==
    /\ Talking /\ cl.sent /\ Ready /\ IsInfo
    /\ LET c == Taken(cl, NeededBytes)
           e == HeadPacket.state
       IN  cl' = [c EXCEPT !.seen = IF cl.stage \in {"order", "acked"} /\ OwnEvent THEN @ \cup {e} ELSE @,
                           !.verdict = IF cl.cmd = "enable" /\ cl.stage = "status" /\ OwnEvent /\ @ = "none"
                                       THEN EventVerdict(FALSE, e) ELSE @]
    /\ UNCHANGED sockets

\* Where a service is enabled: an event may have told already how it went.
AfterStatus(c, state) ==
    IF c.verdict # "none" THEN c.verdict
    ELSE IF c.cmd = "disable" \/ state = "STARTED" THEN "ok" ELSE "wait_start"

\* A reply is taken: handles are kept, and after PREACK only later events count.
AfterReply(c, p, next) ==
    LET d == [Taken(c, PacketSize(p.kind, p.arg)) EXCEPT !.sent = FALSE, !.stage = next]
    IN  CASE p.kind = "SERVICERECORD" -> [d EXCEPT !.hs = @ \o p.arg]
          [] p.kind = "DEPENDENTS"    -> [d EXCEPT !.todo = p.arg]
          [] p.kind = "SERVICENAME"   -> [d EXCEPT !.todo = Tail(@)]
          [] p.kind = "PREACK"        -> [d EXCEPT !.seen = {}]
          [] next = "wait_restart" /\ "STOPPED" \in c.seen -> [d EXCEPT !.stage = "wait_start"]
          [] next = "status_known"    -> [d EXCEPT !.stage = AfterStatus(c, p.state)]
          [] OTHER -> d

\* A packet that has no place here.
Unexpected(c, p) == [c EXCEPT !.stage = IF p.kind = "OOM" THEN "oom" ELSE "confused", !.inb = <<>>]

TakeReply ==
    /\ Talking /\ cl.sent /\ Ready /\ ~IsInfo
    /\ LET p == HeadPacket
           next == Stage(cl).next
       IN  cl' = IF p.kind \in DOMAIN next THEN AfterReply(cl, p, next[p.kind])
                 ELSE Unexpected(cl, p)
    /\ UNCHANGED sockets

\* A byte that was never received may be taken for any reply, or for an event
\* that ends the wait, and for an error.
Garbage == {"STARTED", "STOPPED"}
TakeStale ==
    /\ Awaiting /\ cl.inb = <<Stale>>
    /\ \/ \E end \in {"ok", "fail"} : cl' = [cl EXCEPT !.stage = end]
       \/ /\ Talking
          /\ \E kind \in DOMAIN Stage(cl).next, state \in Garbage :
               cl' = [AfterReply(cl, Packet(kind, <<0>>, state), Stage(cl).next[kind]) EXCEPT !.inb = <<Stale>>]
    /\ UNCHANGED sockets

\* wait_service_state(): a packet that is not an event is an error.
TakeEvent ==
    /\ cl.stage \in Waits \ {"watch"} /\ Ready
    /\ LET v == EventVerdict(cl.stage \in {"wait_stop", "wait_restart"}, HeadPacket.state)
       IN  cl' = IF ~IsInfo THEN Unexpected(cl, HeadPacket)
                 ELSE [Taken(cl, NeededBytes) EXCEPT !.stage =
                          IF @ = "drain" \/ ~OwnEvent \/ v = "none" THEN @
                          ELSE IF @ = "wait_restart" /\ v = "ok" THEN "wait_start"
                          ELSE IF cl.cmd = "enable" THEN "ok" ELSE v]
    /\ UNCHANGED sockets

\* dinit-monitor runs its command for an event that it reports, and ends after
\* it when told to (--exit); the data of ENVEVENT follows the packet.
MonitorEvent ==
    /\ cl.stage = "watch" /\ Ready
    /\ LET reports ==
               \/ HeadPacket.kind = "ENVEVENT" /\ cl.cmd = "environ"
               \/ /\ HeadPacket.kind = "SERVICEEVENT" /\ cl.cmd = "monitor"
                  /\ HeadPacket.state \in {"STARTED", "STOPPED", "FAILEDSTART"}
       IN  IF ~IsInfo THEN cl' = Unexpected(cl, HeadPacket)
           ELSE \E next \in {"watch"} \cup (IF reports THEN {"ok"} ELSE {}) :
                  cl' = [Taken(cl, NeededBytes) EXCEPT !.stage = next]
    /\ UNCHANGED sockets

\* The service file is read and its waits-for.d directory is checked.
CheckFiles ==
    /\ cl.stage = "files"
    /\ \E next \in {"dep", "fail"} : cl' = [cl EXCEPT !.stage = next]
    /\ UNCHANGED sockets

\* The link in the directory is made or removed.
ChangeLink ==
    /\ cl.stage = "link"
    /\ \E next \in {"status", "fail"} : cl' = [cl EXCEPT !.stage = next]
    /\ UNCHANGED sockets

\* The end of the program, at its own time or because the user stops it.
ClientExit ==
    /\ client_open /\ (~Running \/ cl.cmd \in {"monitor", "environ", "start"})
    /\ cl' = [cl EXCEPT !.stage = IF Running THEN "closed" ELSE @, !.inb = <<>>]
    /\ client_open' = FALSE
    /\ toclient' = <<>>
    /\ UNCHANGED toserver
=============================================================================
