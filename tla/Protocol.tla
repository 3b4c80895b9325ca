------------------------------ MODULE Protocol ------------------------------
(***************************************************************************)
(* The control protocol of dinit (includes/control-cmds.h): what travels   *)
(* on a control socket, in both directions.  The two streams carry bytes.  *)
(* The first byte of a packet stands for the packet and what it says; its  *)
(* other bytes only take their place.  A handle, a length or a status is   *)
(* one or two bytes long here.                                             *)
(***************************************************************************)
EXTENDS Integers, Sequences, SequencesExt, FiniteSets

CONSTANTS
    Services,     \* names of services
    SockRoom      \* what the socket holds on its way to the client

VARIABLES
    toserver,     \* bytes sent by the client and not yet read by dinit
    toclient,     \* bytes sent by dinit and not yet read by the client
    client_open   \* whether the client still has its end open

sockets == <<toserver, toclient, client_open>>

Rest == [kind |-> "rest"]    \* any byte of a packet after the first
NameLen == 2      \* length of a service's name

\* The bytes of a packet p of a size.
Bytes(p, size) == <<p>> \o [k \in 1 .. size - 1 |-> Rest]

Named == {"FINDSERVICE", "LOADSERVICE", "SETENV"}
Orders == {"STARTSERVICE", "STOPSERVICE", "WAKESERVICE", "RELEASESERVICE"}
DepRequests == {"ADD_DEP", "REM_DEP", "ENABLESERVICE"}

\* The size of a request, and the size at which its length is known.
RequestSize(cmd) ==
    CASE cmd \in {"QUERYVERSION", "LISTSERVICES", "LISTSERVICES5", "QUERY_LOAD_MECH", "LISTENENV", "UNKNOWN"} -> 1
      [] cmd \in {"CLOSEHANDLE", "UNPINSERVICE", "UNLOADSERVICE", "RELOADSERVICE", "SHUTDOWN",
                  "SERVICESTATUS", "SERVICESTATUS5", "GETALLENV"} -> 2
      [] cmd \in Orders \cup {"QUERYSERVICENAME", "SETTRIGGER", "CATLOG", "SIGNAL",
                              "QUERYSERVICEDSCDIR"} -> 3
      [] cmd \in DepRequests -> 4
      [] cmd \in Named -> 3 + NameLen
HeaderSize(cmd) == IF cmd \in Named THEN 4 ELSE RequestSize(cmd)

\* A request: what it asks, of which services (by name or by handle), and how.
Request(cmd, arg, flags) == [cmd |-> cmd, arg |-> arg, flags |-> flags]

Info == {"SERVICEEVENT5", "SERVICEEVENT", "ENVEVENT"}

\* The size of a reply or an information packet.
PacketSize(kind, arg) ==
    CASE kind = "CPVERSION" -> 3
      [] kind = "SERVICERECORD" -> 4
      [] kind = "DEPENDENTS" -> 2 + Len(arg)
      [] kind = "SVCINFO" -> 3 + NameLen
      [] kind \in {"SERVICESTATUS", "SERVICE_LOG", "ALLENV", "SVCDSCDIR"} -> 3
      [] kind = "SERVICENAME" -> 3 + NameLen
      [] kind = "LOADER_MECH" -> 4
      [] kind \in {"SERVICEEVENT5", "SERVICEEVENT", "ENVEVENT"} -> 5
      [] OTHER -> 1

\* What an information packet gives as its length: all of it, except that the
\* data of ENVEVENT is not counted.
LengthField(kind) == IF kind = "ENVEVENT" THEN 3 ELSE PacketSize(kind, <<>>)

\* Packets that are built in a vector; the others are written from an array.
Vectors == {"SERVICERECORD", "NOSERVICE", "SERVICE_DESC_ERR", "SERVICE_LOAD_ERR", "DEPENDENTS",
            "SVCINFO", "SERVICESTATUS", "SERVICE_LOG", "ALLENV", "SVCDSCDIR", "SERVICENAME",
            "LOADER_MECH"} \cup Info

Packet(kind, arg, state) == [kind |-> kind, arg |-> arg, state |-> state]
=============================================================================
