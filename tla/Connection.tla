----------------------------- MODULE Connection -----------------------------
(***************************************************************************)
(* A control connection and the client at its other end.  dinit and the    *)
(* client are two processes: their steps interleave.                       *)
(***************************************************************************)
EXTENDS Control, Client

ASSUME ConnectionAssumption ==
    /\ Svc \in Services /\ From \in Services /\ Svc # From
    /\ Dependents \in [Services -> SUBSET Services]
    /\ RbufSize \in Nat /\ RbufSize > 3 + NameLen
    /\ SockRoom \in Nat \ {0} /\ ClientBuf \in Nat \ {0} /\ OUTBUF_LIMIT < Word

vars == <<sockets, conn, sys, cl>>

ConnectionInit ==
    /\ toserver = <<>> /\ toclient = <<>> /\ client_open = TRUE
    /\ ControlInit
    /\ ClientInit

\* The client finds that the connection was closed.
ClientEOF ==
    /\ Awaiting /\ ~conn.alive /\ toclient = <<>> /\ ~Ready /\ (cl.inb = <<>> \/ IsPacket)
    /\ cl' = [cl EXCEPT !.stage = IF @ = "drain" THEN "ok" ELSE "closed", !.inb = <<>>]
    /\ UNCHANGED sockets

\* The steps of dinit leave the client alone, and those of the client dinit.
InDinit(step) == step /\ UNCHANGED cl
Handler == InDinit(DataReady \/ ProcessPacket \/ NoMorePackets \/ SendData \/ SetWatches)
ServiceFinishes(s) == InDinit(Finishes(s))
ServiceFails(s) == InDinit(Fails(s))
EnvironChanges == InDinit(EnvironEvent)
Exits == InDinit(DinitExits)

InClient(step) == step /\ UNCHANGED <<conn, sys>>
ClientStep ==
    InClient(\/ ClientSend \/ ClientFill \/ Misread \/ TakeStale \/ SkipInfo \/ TakeReply \/ TakeEvent
             \/ MonitorEvent \/ CheckFiles \/ ChangeLink \/ ClientEOF)
ClientEnds == ~Running /\ InClient(ClientExit)
ClientIsStopped == Running /\ InClient(ClientExit)

Next ==
    \/ Handler
    \/ \E s \in Services : ServiceFinishes(s) \/ ServiceFails(s)
    \/ EnvironChanges
    \/ Exits
    \/ ClientStep
    \/ ClientEnds
    \/ ClientIsStopped

\* dinit returns to its event loop and calls the handler of a socket that is
\* ready; a client runs, and exits when it is done.
Fairness ==
    /\ WF_vars(Handler)
    /\ WF_vars(ClientStep)
    /\ WF_vars(ClientEnds)

Spec == ConnectionInit /\ [][Next]_vars /\ Fairness
-----------------------------------------------------------------------------
\* The client and dinit keep in step: whatever was written in parts, queued or
\* mixed with events, the client takes the first byte of a packet for the first
\* byte of a packet, and gets a reply that fits its request.  The exception is
\* a service record that comes without its last byte (check_load_reply()):
\* behind one, and nowhere else, it takes what it has not received for a packet.
InStep ==
    /\ cl.stage # "confused"
    /\ Stale \in Range(cl.inb) => cl.inb = <<Stale>> /\ cl.hs # <<>>

\* The two maps of handles agree, the connection listens to exactly the records
\* it has handles for, and none of them was deleted.
HandlesAgree ==
    conn.at = "idle" =>
      /\ conn.service_key_map = {<<conn.key_service_map[h], h>> : h \in DOMAIN conn.key_service_map}
      /\ sys.heard = {e[1] : e \in conn.service_key_map}
      /\ \A e \in sys.heard : sys.rec[e[1]] = e[2]

\* A request that has arrived completely is not left in the buffer.
RequestsTaken ==
    (conn.at = "idle" /\ conn.alive /\ ~conn.bad_conn_close /\ client_open) =>
        \/ conn.rbuf.length = 0
        \/ conn.rbuf.length < RequestSize(B!At(conn.rbuf, 0).cmd)

\* outbuf_size is larger than what is queued: a vector was queued, which did not
\* count, and its size was taken off when it had been sent (see the README).
Miscounted == conn.outbuf_size > Len(FlattenSeq(conn.outbuf))

\* A client that waits for a reply gets it, or learns that there is none,
\* whatever had to be queued before it (control_conn_cb()'s watches; not once
\* outbuf_size is wrong, and not from dinit once the client's buffer is Stale).
Answered == (Talking /\ cl.sent) ~> (~(Talking /\ cl.sent) \/ Miscounted)

\* A connection is given up after its client has gone (data_ready(), send_data()).
Freed == ~client_open ~> (~conn.alive \/ Miscounted)

\* A command that waits for a service to start comes to an end when the service
\* no longer does so (wait_service_state()).  (It does not hold; README.)
StartReported ==
    (cl.stage = "wait_start" /\ sys.state[Svc] \in {"STARTED", "STOPPED"}) ~>
        (cl.stage # "wait_start" \/ sys.state[Svc] \in {"STARTING", "STOPPING"} \/ Miscounted)
=============================================================================
