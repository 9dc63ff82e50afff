---------------------------- MODULE SocketServers ----------------------------
(***************************************************************************)
(* The plain server (src/tcp_socket_server.cpp) and the TLS server         *)
(* (src/tls_server.cpp): two tasks that accept one vehicle each and drive  *)
(* the same HLC session through one sender callback, while the 20 ms task  *)
(* times the session out and hands every frame of a plain connection to    *)
(* the firmware's own TCP as well (src/main.cpp, IPv6Manager).  A step of  *)
(* a server is one of its statements.                                      *)
(*                                                                         *)
(* Here the vehicle's TCP works with lwIP's answer to its SYN, which       *)
(* leaves the firmware's own TCP without a handshake; what happens without *)
(* lwIP is in LegacyTcp.  A request is one unit: V2gtpFraming has the      *)
(* bytes, HlcSession the handlers.                                         *)
(***************************************************************************)
EXTENDS Naturals, Sequences, FiniteSets

CONSTANTS
    PlainConns, TlsConns,   \* the connections vehicles open on the two ports
    None,                   \* no connection
    MaxSent,                \* bound: requests sent on one connection
    MaxWire                 \* bound: frames the modem holds

ASSUME ServersAssumption ==
    /\ PlainConns \cap TlsConns = {} /\ None \notin PlainConns \cup TlsConns
    /\ MaxSent \in Nat /\ MaxWire \in Nat

Conns == PlainConns \cup TlsConns

VARIABLES
    plainPc, plainConn,     \* where the plain server is, with which socket
    tlsPc, tlsConn,         \* where the TLS server is, with which socket
    tls_ready,              \* s_tls_ready
    s_clientSock, s_active_tls,
    sender,                 \* g_socketSendCb: "none", "plain" or "tls"
    tcpState,
    session,                \* the session is past its initial state
    wire,                   \* frames the modem holds for the 20 ms task
    vehicle,                \* each connection at its vehicle
    backlog,                \* connections lwIP holds for accept
    inbox,                  \* requests lwIP holds for a socket
    eof,                    \* sockets whose other end is gone
    mixed                   \* history: both servers were busy since both were idle

own == <<plainPc, plainConn, tlsPc, tlsConn, tls_ready>>
shared == <<s_clientSock, s_active_tls, sender, tcpState, session>>
net == <<wire, vehicle, backlog, inbox, eof>>
serverVars == <<own, shared, net, mixed>>

ServersInit ==
    /\ plainPc = "starting" /\ plainConn = None
    /\ tlsPc = "starting" /\ tlsConn = None /\ tls_ready = FALSE
    /\ s_clientSock = None /\ s_active_tls = None /\ sender = "none"
    /\ tcpState = "CLOSED" /\ session = FALSE
    /\ wire = <<>> /\ backlog = <<>>
    /\ vehicle = [c \in Conns |-> [state |-> "unused", sent |-> 0]]
    /\ inbox = [c \in Conns |-> 0]
    /\ eof = {}
    /\ mixed = FALSE

\* Between two vehicles, and before the first.
Resting(pc) == pc \in {"starting", "accept", "dead"}
Quiet == Resting(plainPc) /\ Resting(tlsPc)

\* The history variable follows the servers.
Mixing ==
    mixed' = CASE ~Resting(plainPc') /\ ~Resting(tlsPc') -> TRUE
               [] Resting(plainPc') /\ Resting(tlsPc') -> FALSE
               [] OTHER -> mixed

-----------------------------------------------------------------------------
(* What the servers call: src/tcp.cpp.                                     *)

tcp_transport_reset == session' = FALSE /\ tcpState' = "CLOSED"
tcp_transport_connected == tcpState' = "ESTABLISHED"
tcp_register_socket_sender(cb) == sender' = cb

\* Where an answer goes: through the callback to the socket it finds in its
\* static variable, without a callback through the firmware's own TCP.
Destination ==
    CASE sender = "plain" -> s_clientSock
      [] sender = "tls" -> s_active_tls
      [] OTHER -> IF tcpState = "ESTABLISHED" THEN "raw" ELSE None

\* A request is handled: the session goes on or is reset.
Handle == session' \in BOOLEAN

-----------------------------------------------------------------------------
(* tcp_server_task.                                                        *)

PlainGoes(from, to) ==
    /\ plainPc = from /\ plainPc' = to
    /\ UNCHANGED <<tlsPc, tlsConn, tls_ready>>
    /\ Mixing

PlainListens ==
    /\ PlainGoes("starting", "accept")
    /\ UNCHANGED <<plainConn, shared, net>>

First(conns) ==
    LET mine == SelectSeq(backlog, LAMBDA c : c \in conns) IN
    IF mine = <<>> THEN None ELSE Head(mine)
Accepts(c) == backlog' = SelectSeq(backlog, LAMBDA d : d # c)

PlainAccepts ==
    /\ PlainGoes("accept", "reset")
    /\ LET c == First(PlainConns) IN
       /\ c # None
       /\ Accepts(c)
       /\ plainConn' = c /\ s_clientSock' = c
    /\ UNCHANGED <<s_active_tls, sender, tcpState, session, wire, vehicle,
                   inbox, eof>>

PlainResets ==
    /\ PlainGoes("reset", "connected")
    /\ tcp_transport_reset
    /\ UNCHANGED <<plainConn, s_clientSock, s_active_tls, sender, net>>

PlainConnected ==
    /\ PlainGoes("connected", "register")
    /\ tcp_transport_connected
    /\ UNCHANGED <<plainConn, s_clientSock, s_active_tls, sender, session, net>>

PlainRegisters ==
    /\ PlainGoes("register", "serve")
    /\ tcp_register_socket_sender("plain")
    /\ UNCHANGED <<plainConn, s_clientSock, s_active_tls, tcpState, session, net>>

PlainReceives ==
    /\ PlainGoes("serve", "serve")
    /\ inbox[plainConn] > 0
    /\ inbox' = [inbox EXCEPT ![plainConn] = @ - 1]
    /\ Handle
    /\ UNCHANGED <<plainConn, s_clientSock, s_active_tls, sender, tcpState,
                   wire, vehicle, backlog, eof>>

\* recv ends; close(client).
PlainCloses ==
    /\ PlainGoes("serve", "closed")
    /\ inbox[plainConn] = 0 /\ plainConn \in eof
    /\ plainConn' = None
    /\ UNCHANGED <<shared, net>>

PlainForgets ==
    /\ PlainGoes("closed", "unregister")
    /\ s_clientSock' = None
    /\ UNCHANGED <<plainConn, s_active_tls, sender, tcpState, session, net>>

PlainUnregisters ==
    /\ PlainGoes("unregister", "last")
    /\ tcp_register_socket_sender("none")
    /\ UNCHANGED <<plainConn, s_clientSock, s_active_tls, tcpState, session, net>>

PlainResetsAgain ==
    /\ PlainGoes("last", "accept")
    /\ tcp_transport_reset
    /\ UNCHANGED <<plainConn, s_clientSock, s_active_tls, sender, net>>

PlainServer ==
    \/ PlainListens \/ PlainAccepts \/ PlainResets \/ PlainConnected \/ PlainRegisters
    \/ PlainReceives \/ PlainCloses \/ PlainForgets \/ PlainUnregisters
    \/ PlainResetsAgain

-----------------------------------------------------------------------------
(* tls_server_task and close_tls_connection.                               *)

TlsGoes(from, to) ==
    /\ tlsPc = from /\ tlsPc' = to
    /\ UNCHANGED <<plainPc, plainConn>>
    /\ Mixing

\* build_server_cfg finds no certificate or no key: the task ends.
TlsDies ==
    /\ TlsGoes("starting", "dead")
    /\ UNCHANGED <<tlsConn, tls_ready, shared, net>>

TlsListens ==
    /\ TlsGoes("starting", "accept")
    /\ tls_ready' = TRUE
    /\ UNCHANGED <<tlsConn, shared, net>>

TlsAccepts ==
    /\ TlsGoes("accept", "reset")
    /\ LET c == First(TlsConns) IN
       /\ c # None
       /\ Accepts(c)
       /\ tlsConn' = c
    /\ UNCHANGED <<tls_ready, shared, wire, vehicle, inbox, eof>>

\* Without memory for the connection it is closed at once.
TlsResets ==
    /\ \/ TlsGoes("reset", "handshake") /\ UNCHANGED tlsConn
       \/ TlsGoes("reset", "accept") /\ tlsConn' = None
    /\ tcp_transport_reset
    /\ UNCHANGED <<tls_ready, s_clientSock, s_active_tls, sender, net>>

\* Mutant: the connection is registered without being made the active one.
TlsHandshakeForgets ==
    /\ TlsGoes("handshake", "register")
    /\ UNCHANGED <<tlsConn, tls_ready, shared, net>>

TlsHandshake ==
    /\ TlsGoes("handshake", "register")
    /\ s_active_tls' = tlsConn
    /\ UNCHANGED <<tlsConn, tls_ready, s_clientSock, sender, tcpState, session, net>>

TlsHandshakeFails ==
    /\ TlsGoes("handshake", "close")
    /\ UNCHANGED <<tlsConn, tls_ready, shared, net>>

TlsRegisters ==
    /\ TlsGoes("register", "connected")
    /\ tcp_register_socket_sender("tls")
    /\ UNCHANGED <<tlsConn, tls_ready, s_clientSock, s_active_tls, tcpState, session, net>>

TlsConnected ==
    /\ TlsGoes("connected", "serve")
    /\ tcp_transport_connected
    /\ UNCHANGED <<tlsConn, tls_ready, s_clientSock, s_active_tls, sender, session, net>>

TlsReceives ==
    /\ TlsGoes("serve", "serve")
    /\ inbox[tlsConn] > 0
    /\ inbox' = [inbox EXCEPT ![tlsConn] = @ - 1]
    /\ Handle
    /\ UNCHANGED <<tlsConn, tls_ready, s_clientSock, s_active_tls, sender, tcpState,
                   wire, vehicle, backlog, eof>>

TlsEnds ==
    /\ TlsGoes("serve", "close")
    /\ inbox[tlsConn] = 0 /\ tlsConn \in eof
    /\ UNCHANGED <<tlsConn, tls_ready, shared, net>>

\* close_tls_connection: the connection is deleted, then forgotten if it was the
\* active one.
TlsCloses ==
    /\ TlsGoes("close", "unregister")
    /\ s_active_tls' = IF s_active_tls = tlsConn THEN None ELSE s_active_tls
    /\ tlsConn' = None
    /\ UNCHANGED <<tls_ready, s_clientSock, sender, tcpState, session, net>>

TlsUnregisters ==
    /\ TlsGoes("unregister", "last")
    /\ tcp_register_socket_sender("none")
    /\ UNCHANGED <<tlsConn, tls_ready, s_clientSock, s_active_tls, tcpState, session, net>>

\* Mutant: the session of the vehicle that left stays.
TlsKeepsSession ==
    /\ TlsGoes("last", "accept")
    /\ tcpState' = "CLOSED"
    /\ UNCHANGED <<tlsConn, tls_ready, s_clientSock, s_active_tls, sender, session, net>>

TlsResetsAgain ==
    /\ TlsGoes("last", "accept")
    /\ tcp_transport_reset
    /\ UNCHANGED <<tlsConn, tls_ready, s_clientSock, s_active_tls, sender, net>>

TlsServer ==
    \/ TlsDies \/ TlsListens \/ TlsAccepts \/ TlsResets \/ TlsHandshake
    \/ TlsHandshakeFails \/ TlsRegisters \/ TlsConnected \/ TlsReceives \/ TlsEnds
    \/ TlsCloses \/ TlsUnregisters \/ TlsResetsAgain

-----------------------------------------------------------------------------
(* Timer20ms.                                                              *)

Listening(c) ==
    IF c \in PlainConns THEN plainPc # "starting" ELSE tlsPc \notin {"starting", "dead"}

\* lwip_bridge_on_frame: what lwIP makes of the frame.
LwipGets(f) ==
    CASE f.kind = "syn" ->
           /\ backlog' = IF Listening(f.conn) THEN Append(backlog, f.conn) ELSE backlog
           /\ eof' = IF Listening(f.conn) THEN eof ELSE eof \cup {f.conn}
           /\ UNCHANGED inbox
      [] f.kind = "data" ->
           /\ inbox' = IF f.conn \in eof THEN inbox ELSE [inbox EXCEPT ![f.conn] = @ + 1]
           /\ UNCHANGED <<backlog, eof>>
      [] OTHER ->
           /\ eof' = eof \cup {f.conn}
           /\ inbox' \in {inbox} \cup
                {[inbox EXCEPT ![f.conn] = 0] : k \in {f.kind} \cap {"rst"}}
           /\ UNCHANGED backlog

\* IPv6Manager, evaluateTcpPacket: the same frame once more.  Frames for the TLS
\* port are for another port; the handshake belongs to lwIP.
LegacyGets(f) ==
    CASE f.conn \in PlainConns /\ f.kind = "syn" /\ tcpState = "CLOSED" ->
           tcpState' = "SYN_ACK" /\ UNCHANGED session
      [] f.conn \in PlainConns /\ f.kind = "data" /\ tcpState = "ESTABLISHED" ->
           Handle /\ UNCHANGED tcpState
      [] f.conn \in PlainConns /\ (f.kind = "rst" \/ (f.kind = "fin" /\ tcpState = "ESTABLISHED")) ->
           tcp_transport_reset
      [] OTHER -> UNCHANGED <<tcpState, session>>

FrameArrives ==
    /\ wire # <<>>
    /\ wire' = Tail(wire)
    /\ LwipGets(Head(wire))
    /\ LegacyGets(Head(wire))
    /\ UNCHANGED <<own, s_clientSock, s_active_tls, sender, vehicle, mixed>>

\* tcp_tick: the idle timeout or the watchdog ends the session, not the socket.
TickResets ==
    /\ \/ tcpState = "ESTABLISHED" /\ tcp_transport_reset
       \/ session /\ session' = FALSE /\ UNCHANGED tcpState
    /\ UNCHANGED <<own, s_clientSock, s_active_tls, sender, net, mixed>>

-----------------------------------------------------------------------------
(* The vehicles: external.                                                 *)

VehicleSends(c, kind) ==
    /\ Len(wire) < MaxWire
    /\ wire' = Append(wire, [conn |-> c, kind |-> kind])
    /\ UNCHANGED <<own, shared, backlog, inbox, eof, mixed>>

VehicleOpens(c) ==
    /\ vehicle[c].state = "unused"
    /\ vehicle' = [vehicle EXCEPT ![c].state = "open"]
    /\ VehicleSends(c, "syn")

VehicleRequests(c) ==
    /\ vehicle[c].state = "open" /\ vehicle[c].sent < MaxSent
    /\ vehicle' = [vehicle EXCEPT ![c].sent = @ + 1]
    /\ VehicleSends(c, "data")

VehicleLeaves(c) ==
    /\ vehicle[c].state = "open"
    /\ vehicle' = [vehicle EXCEPT ![c].state = "left"]
    /\ \E kind \in {"fin", "rst"} : VehicleSends(c, kind)

Vehicles == \E c \in Conns : VehicleOpens(c) \/ VehicleRequests(c) \/ VehicleLeaves(c)

ServersNext == PlainServer \/ TlsServer \/ FrameArrives \/ TickResets \/ Vehicles
ServersSpec == ServersInit /\ [][ServersNext]_serverVars

-----------------------------------------------------------------------------
(* Properties                                                              *)

\* Whatever the two servers and the 20 ms task did to each other before: when
\* neither server has a vehicle, nothing of any vehicle is left.
NothingLeftBehind ==
    Quiet =>
        /\ sender = "none" /\ s_clientSock = None /\ s_active_tls = None
        /\ ~session /\ tcpState # "ESTABLISHED"

\* A server that had the session to itself since both were idle sends every
\* answer to its own vehicle, through the right callback and socket.
ServedVehicleIsAnswered ==
    ~mixed =>
        /\ plainPc = "serve" => Destination = plainConn
        /\ tlsPc = "serve" => Destination = tlsConn
=============================================================================
