--------------------------- MODULE Servers_proofs ---------------------------
(***************************************************************************)
(* Proofs about the tasks that serve the sockets, statement by statement:  *)
(* SocketServers, the two servers and what they share, for every set of    *)
(* connections and every number of requests and frames.                    *)
(***************************************************************************)
EXTENDS SocketServers, TLAPS

-----------------------------------------------------------------------------
(* SocketServers: who may have left what.                                  *)

\* The plain server's socket is published from accept until it is forgotten.
PlainSocket ==
    /\ plainPc \in {"reset", "connected", "register", "serve"} =>
          s_clientSock = plainConn
    /\ plainPc \in {"starting", "accept", "unregister", "last"} =>
          s_clientSock = None

\* The active TLS connection is the one whose handshake was done.
TlsActive ==
    /\ tlsPc \in {"register", "connected", "serve"} => s_active_tls = tlsConn
    /\ tlsPc = "close" => s_active_tls \in {None, tlsConn}
    /\ tlsPc \in {"starting", "dead", "accept", "reset", "handshake", "unregister",
                  "last"} => s_active_tls = None

\* A callback is that of a server that has not unregistered yet.
SenderLives ==
    /\ sender \in {"none", "plain", "tls"}
    /\ sender = "plain" => plainPc \in {"serve", "closed", "unregister"}
    /\ sender = "tls" => tlsPc \in {"connected", "serve", "close", "unregister"}

\* Only a busy server leaves a session or an established connection.
QuietIsReset == Quiet => ~session /\ tcpState # "ESTABLISHED"

\* Two busy servers are mixed.
BusyIsMixed == ~Resting(plainPc) /\ ~Resting(tlsPc) => mixed

\* A server that is alone has its own callback registered.
AloneIsRegistered ==
    ~mixed =>
        /\ plainPc = "serve" => sender = "plain"
        /\ tlsPc \in {"connected", "serve"} => sender = "tls"

Places ==
    /\ plainPc \in {"starting", "accept", "reset", "connected", "register", "serve",
                    "closed", "unregister", "last"}
    /\ tlsPc \in {"starting", "dead", "accept", "reset", "handshake", "register",
                  "connected", "serve", "close", "unregister", "last"}
    /\ mixed \in BOOLEAN

ServersInv ==
    /\ Places /\ PlainSocket /\ TlsActive /\ SenderLives
    /\ QuietIsReset /\ BusyIsMixed /\ AloneIsRegistered

-----------------------------------------------------------------------------
(* One step.                                                               *)

\* Moving between two places, a server only mixes with a busy one.
LEMMA MixingMeans ==
    ASSUME Mixing
    PROVE  /\ mixed' \in {TRUE, FALSE, mixed}
           /\ ~Resting(plainPc') /\ ~Resting(tlsPc') => mixed' = TRUE
           /\ ~mixed' => ~mixed \/ (Resting(plainPc') /\ Resting(tlsPc'))
  BY DEF Mixing

LEMMA ServersInitHolds == ServersInit => ServersInv
  BY DEF ServersInit, ServersInv, Places, PlainSocket, TlsActive, SenderLives,
         QuietIsReset, BusyIsMixed, AloneIsRegistered, Quiet, Resting

\* The plain server.
LEMMA PlainKeeps == ASSUME ServersInv, PlainServer PROVE ServersInv'
<1> USE DEF ServersInv, Places, PlainSocket, TlsActive, SenderLives, QuietIsReset,
            BusyIsMixed, AloneIsRegistered, Quiet, Resting, PlainGoes, shared,
            tcp_transport_reset, tcp_transport_connected, tcp_register_socket_sender,
            Handle
<1>1. CASE PlainListens
  BY <1>1, MixingMeans DEF PlainListens
<1>2. CASE PlainAccepts
  BY <1>2, MixingMeans DEF PlainAccepts
<1>3. CASE PlainResets
  BY <1>3, MixingMeans DEF PlainResets
<1>4. CASE PlainConnected
  BY <1>4, MixingMeans DEF PlainConnected
<1>5. CASE PlainRegisters
  BY <1>5, MixingMeans DEF PlainRegisters
<1>6. CASE PlainReceives
  BY <1>6, MixingMeans DEF PlainReceives
<1>7. CASE PlainCloses
  BY <1>7, MixingMeans DEF PlainCloses
<1>8. CASE PlainForgets
  BY <1>8, MixingMeans DEF PlainForgets
<1>9. CASE PlainUnregisters
  BY <1>9, MixingMeans DEF PlainUnregisters
<1>10. CASE PlainResetsAgain
  BY <1>10, MixingMeans DEF PlainResetsAgain
<1> QED
  BY <1>1, <1>2, <1>3, <1>4, <1>5, <1>6, <1>7, <1>8, <1>9, <1>10 DEF PlainServer

\* The TLS server.
LEMMA TlsKeeps == ASSUME ServersInv, TlsServer PROVE ServersInv'
<1> USE DEF ServersInv, Places, PlainSocket, TlsActive, SenderLives, QuietIsReset,
            BusyIsMixed, AloneIsRegistered, Quiet, Resting, TlsGoes, shared,
            tcp_transport_reset, tcp_transport_connected, tcp_register_socket_sender,
            Handle
<1>1. CASE TlsDies
  BY <1>1, MixingMeans DEF TlsDies
<1>2. CASE TlsListens
  BY <1>2, MixingMeans DEF TlsListens
<1>3. CASE TlsAccepts
  BY <1>3, MixingMeans DEF TlsAccepts
<1>4. CASE TlsResets
  BY <1>4, MixingMeans DEF TlsResets
<1>5. CASE TlsHandshake
  BY <1>5, MixingMeans DEF TlsHandshake
<1>6. CASE TlsHandshakeFails
  BY <1>6, MixingMeans DEF TlsHandshakeFails
<1>7. CASE TlsRegisters
  BY <1>7, MixingMeans DEF TlsRegisters
<1>8. CASE TlsConnected
  BY <1>8, MixingMeans DEF TlsConnected
<1>9. CASE TlsReceives
  BY <1>9, MixingMeans DEF TlsReceives
<1>10. CASE TlsEnds
  BY <1>10, MixingMeans DEF TlsEnds
<1>11. CASE TlsCloses
  BY <1>11, MixingMeans DEF TlsCloses
<1>12. CASE TlsUnregisters
  BY <1>12, MixingMeans DEF TlsUnregisters
<1>13. CASE TlsResetsAgain
  BY <1>13, MixingMeans DEF TlsResetsAgain
<1> QED
  BY <1>1, <1>2, <1>3, <1>4, <1>5, <1>6, <1>7, <1>8, <1>9, <1>10, <1>11, <1>12, <1>13
     DEF TlsServer

\* A step that leaves the servers, the sockets and the callback alone keeps the
\* invariant if it keeps a session that is reset.
LEMMA AsideKeeps ==
    ASSUME ServersInv, UNCHANGED <<own, s_clientSock, s_active_tls, sender, mixed>>,
           ~session /\ tcpState # "ESTABLISHED" =>
               ~session' /\ tcpState' # "ESTABLISHED"
    PROVE  ServersInv'
<1>1. /\ UNCHANGED <<plainPc, plainConn, tlsPc, tlsConn>>
      /\ UNCHANGED <<s_clientSock, s_active_tls, sender, mixed>>
  BY DEF own
<1>2. /\ Places' /\ PlainSocket' /\ TlsActive'
      /\ SenderLives' /\ BusyIsMixed' /\ AloneIsRegistered'
  BY <1>1 DEF ServersInv, Places, PlainSocket, TlsActive, SenderLives, BusyIsMixed,
              AloneIsRegistered, Resting
<1>3. QuietIsReset'
  BY <1>1 DEF ServersInv, QuietIsReset, Quiet, Resting
<1> QED
  BY <1>2, <1>3 DEF ServersInv

\* The firmware's own TCP establishes no connection and begins no session where
\* there is none.
LEMMA LegacyStaysReset ==
    ASSUME NEW f, LegacyGets(f), ~session, tcpState # "ESTABLISHED"
    PROVE  ~session' /\ tcpState' # "ESTABLISHED"
  BY DEF LegacyGets, tcp_transport_reset

LEMMA ServersStep == ServersInv /\ [ServersNext]_serverVars => ServersInv'
<1> SUFFICES ASSUME ServersInv, [ServersNext]_serverVars PROVE ServersInv'
  OBVIOUS
<1>1. CASE PlainServer
  BY <1>1, PlainKeeps
<1>2. CASE TlsServer
  BY <1>2, TlsKeeps
<1>3. CASE FrameArrives
  BY <1>3, LegacyStaysReset, AsideKeeps DEF FrameArrives
<1>4. CASE TickResets
  BY <1>4, AsideKeeps DEF TickResets, tcp_transport_reset
<1>5. CASE Vehicles
  <2>1. UNCHANGED <<own, shared, mixed>>
    BY <1>5 DEF Vehicles, VehicleOpens, VehicleRequests, VehicleLeaves, VehicleSends
  <2> QED
    BY <2>1, AsideKeeps DEF shared
<1>6. CASE UNCHANGED serverVars
  BY <1>6, AsideKeeps DEF serverVars, shared
<1> QED
  BY <1>1, <1>2, <1>3, <1>4, <1>5, <1>6 DEF ServersNext

LEMMA ServersHold == ServersSpec => []ServersInv
  BY ServersInitHolds, ServersStep, PTL DEF ServersSpec

\* Whatever the plain server, the TLS server and the 20 ms task did to each
\* other: when neither server has a vehicle, no callback, socket, session or
\* established connection of one is left.
THEOREM NothingLeftBehindHolds == ServersSpec => []NothingLeftBehind
<1>1. ServersInv => NothingLeftBehind
  BY DEF ServersInv, NothingLeftBehind, Quiet, Resting, Places, PlainSocket, TlsActive,
         SenderLives, QuietIsReset
<1> QED
  BY <1>1, ServersHold, PTL

\* A server that had the session to itself since both were idle sends every
\* answer to its own vehicle.
THEOREM ServedVehicleIsAnsweredHolds == ServersSpec => []ServedVehicleIsAnswered
<1>1. ServersInv => ServedVehicleIsAnswered
  BY DEF ServersInv, ServedVehicleIsAnswered, Destination, PlainSocket, TlsActive,
         AloneIsRegistered
<1> QED
  BY <1>1, ServersHold, PTL
=============================================================================
