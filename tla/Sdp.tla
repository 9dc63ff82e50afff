-------------------------------- MODULE Sdp --------------------------------
(***************************************************************************)
(* The discovery of the charger's endpoint (SDP): handleSdpRequestBuffer   *)
(* and buildSdpResponseFrame of src/ipv6.cpp, called from two tasks.  The  *)
(* 20 ms task hands each datagram to lwIP and then answers it itself       *)
(* (IPv6Manager, evaluateUdpPayload); the task of src/sdp_server.cpp gets  *)
(* the same datagram from lwIP and answers it again.  Both work on the     *)
(* same global variables, one statement at a time; what a request asks for *)
(* is such a variable too, stored and read back before the decision.       *)
(*                                                                         *)
(* A datagram that is too short, or has another header, type or length, is *)
(* dropped by both tasks before any of these variables is touched, and is  *)
(* left out; so are the bytes of an address (it is one value).             *)
(***************************************************************************)
EXTENDS Naturals, Sequences

CONSTANTS
    Sources,        \* the vehicle's addresses: IP and UDP port
    Transports,     \* what a request may name as transport, "tcp" or another
    Securities,     \* ... and as security: "tls", "plain" or another
    MaxDatagrams    \* bound: requests sent

ASSUME SdpAssumption ==
    /\ Sources # {} /\ MaxDatagrams \in Nat
    /\ "tcp" \in Transports /\ "plain" \in Securities

VARIABLES
    tls_ready,      \* s_tls_ready of src/tls_server.cpp
    sent,           \* the requests the vehicle has sent, in order
    frames,         \* those the modem holds for the 20 ms task
    lwip,           \* those lwIP holds for the SDP task
    at,             \* what each task is doing, with which datagram
    reqSecurity,    \* DiscoveryReqSecurity
    reqTransport,   \* DiscoveryReqTransportProtocol
    security,       \* g_activeSdpSecurity
    port,           \* g_activeSeccPort, copied to seccPort at once
    evcc,           \* EvccIp and evccPort
    answer,         \* the answer sent last
    disturbed,      \* history: the other task wrote for another request meanwhile
    accepted,       \* history: the latest request either task accepted
    misread,        \* history: a task took that request for another one's
    lost            \* history: lwIP missed a request the 20 ms task handled

wire == <<sent, frames, lwip, lost>>
request == <<reqSecurity, reqTransport>>
endpoint == <<security, port, evcc>>
verdict == <<accepted, misread>>
sdpVars == <<tls_ready, wire, at, request, endpoint, answer, disturbed, verdict>>

Tasks == {"tick", "sdp"}
Other(t) == IF t = "tick" THEN "sdp" ELSE "tick"

Datagrams == [n : 1 .. MaxDatagrams, src : Sources, security : Securities,
              transport : Transports]
NoDatagram == [n |-> 0, src |-> CHOOSE s \in Sources : TRUE,
               security |-> "plain", transport |-> "tcp"]

\* own: what the task has read back so far was its own datagram's.
Idle == [pc |-> "idle", dg |-> NoDatagram, tls |-> FALSE, own |-> TRUE]

SdpInit ==
    /\ tls_ready = FALSE
    /\ sent = <<>> /\ frames = <<>> /\ lwip = <<>> /\ lost = FALSE
    /\ at = [t \in Tasks |-> Idle]
    /\ reqSecurity = "none" /\ reqTransport = "none"
    /\ security = "plain" /\ port = "plain"
    /\ evcc = "nobody"
    /\ answer = [to |-> "nobody", security |-> "plain", port |-> "plain",
                 dg |-> NoDatagram, disturbed |-> TRUE]
    /\ disturbed = [t \in Tasks |-> FALSE]
    /\ accepted = NoDatagram /\ misread = FALSE

Same(d, e) == d.src = e.src /\ d.security = e.security /\ d.transport = e.transport
Goes(t, pc) == at' = [at EXCEPT ![t].pc = pc]
Begins(t, d) ==
    at' = [at EXCEPT ![t] = [pc |-> "request", dg |-> d, tls |-> FALSE, own |-> TRUE]]

\* Task t writes a shared variable while the other one handles another request,
\* or for a request it took for another one.
Disturbs(t) ==
    disturbed' = [disturbed EXCEPT
        ![Other(t)] = @ \/ ~at[t].own \/ ~Same(at[t].dg, at[Other(t)].dg)]

VehicleAsks(s, sec, trans) ==
    /\ Len(sent) < MaxDatagrams
    /\ LET d == [n |-> Len(sent) + 1, src |-> s, security |-> sec, transport |-> trans] IN
       /\ sent' = Append(sent, d)
       /\ frames' = Append(frames, d)
    /\ UNCHANGED <<lwip, lost, at, request, endpoint, answer, disturbed, verdict>>

\* Timer20ms: lwip_bridge_on_frame, then IPv6Manager.  lwIP may have no buffer.
TickTakes ==
    /\ at["tick"].pc = "idle" /\ frames # <<>>
    /\ frames' = Tail(frames)
    /\ \/ lwip' = Append(lwip, Head(frames)) /\ UNCHANGED lost
       \/ lost' = TRUE /\ UNCHANGED lwip
    /\ Begins("tick", Head(frames))
    /\ disturbed' = [disturbed EXCEPT !["tick"] = FALSE]
    /\ UNCHANGED <<sent, request, endpoint, answer, verdict>>

\* sdp_server_task: the sender's address is stored before the request is looked
\* at.
SdpTakes ==
    /\ at["sdp"].pc = "idle" /\ lwip # <<>>
    /\ lwip' = Tail(lwip)
    /\ Begins("sdp", Head(lwip))
    /\ evcc' = Head(lwip).src
    /\ disturbed' = [t \in Tasks |->
                        IF t = "sdp" THEN FALSE
                        ELSE disturbed[t] \/ ~Same(Head(lwip), at[t].dg)]
    /\ UNCHANGED <<sent, frames, lost, request, security, port, answer, verdict>>

-----------------------------------------------------------------------------
(* handleSdpRequestBuffer, one statement after the other.                  *)

StoreReqSecurity(t) ==
    /\ at[t].pc = "request"
    /\ reqSecurity' = at[t].dg.security
    /\ Goes(t, "transport") /\ Disturbs(t)
    /\ UNCHANGED <<wire, reqTransport, endpoint, answer, verdict>>

StoreReqTransport(t) ==
    /\ at[t].pc = "transport"
    /\ reqTransport' = at[t].dg.transport
    /\ Goes(t, "read transport") /\ Disturbs(t)
    /\ UNCHANGED <<wire, reqSecurity, endpoint, answer, verdict>>

\* The compiler may keep what was stored in a register or read it again.
ReadBack(stored, global) == {stored, global}

\* The request is decided upon, as the one it was taken for (own or not).
Decides(t, ok, own) ==
    /\ at' = [at EXCEPT ![t].pc = IF ok THEN "security" ELSE "idle", ![t].own = own]
    /\ accepted' = IF ok /\ at[t].dg.n > accepted.n THEN at[t].dg ELSE accepted
    /\ misread' = IF ok /\ at[t].dg.n > accepted.n THEN ~own
                  ELSE misread \/ (at[t].dg.n = accepted.n /\ ~own)
    /\ UNCHANGED <<wire, request, endpoint, answer, disturbed>>

\* Another transport is refused here; the security is looked at otherwise.
ReadTransport(t) ==
    /\ at[t].pc = "read transport"
    /\ \E transport \in ReadBack(at[t].dg.transport, reqTransport) :
          LET own == transport = at[t].dg.transport IN
          IF transport # "tcp" THEN Decides(t, FALSE, own)
          ELSE /\ at' = [at EXCEPT ![t].pc = "read tls", ![t].own = own]
               /\ UNCHANGED <<wire, request, endpoint, answer, disturbed, verdict>>

\* tlsRequested, of which tls_server_ready is asked.
ReadTls(t) ==
    /\ at[t].pc = "read tls"
    /\ \E sec \in ReadBack(at[t].dg.security, reqSecurity) :
          /\ at' = [at EXCEPT ![t].pc = "read plain", ![t].tls = sec = "tls",
                              ![t].own = @ /\ sec = at[t].dg.security]
          /\ UNCHANGED <<wire, request, endpoint, answer, disturbed, verdict>>

\* plainRequested, and the decision.
ReadPlain(t) ==
    /\ at[t].pc = "read plain"
    /\ \E sec \in ReadBack(at[t].dg.security, reqSecurity) :
          IF at[t].tls THEN Decides(t, tls_ready, at[t].own)
          ELSE Decides(t, sec = "plain", at[t].own /\ sec = at[t].dg.security)

Choice(t) == IF at[t].tls THEN "tls" ELSE "plain"

\* Mutant: once offered, TLS stays.
KeepSecurity(t) ==
    /\ at[t].pc = "security"
    /\ security' = IF security = "tls" THEN security ELSE Choice(t)
    /\ Goes(t, "port") /\ Disturbs(t)
    /\ UNCHANGED <<wire, request, port, evcc, answer, verdict>>

StoreSecurity(t) ==
    /\ at[t].pc = "security"
    /\ security' = Choice(t)
    /\ Goes(t, "port") /\ Disturbs(t)
    /\ UNCHANGED <<wire, request, port, evcc, answer, verdict>>

\* Mutant: the port chosen by an earlier request stays.
KeepPort(t) ==
    /\ at[t].pc = "port"
    /\ port' = IF port = "tls" THEN port ELSE Choice(t)
    /\ Goes(t, "address") /\ Disturbs(t)
    /\ UNCHANGED <<wire, request, security, evcc, answer, verdict>>

StorePort(t) ==
    /\ at[t].pc = "port"
    /\ port' = Choice(t)
    /\ Goes(t, "address") /\ Disturbs(t)
    /\ UNCHANGED <<wire, request, security, evcc, answer, verdict>>

StoreAddress(t) ==
    /\ at[t].pc = "address"
    /\ evcc' = at[t].dg.src
    /\ Goes(t, "answer") /\ Disturbs(t)
    /\ UNCHANGED <<wire, request, security, port, answer, verdict>>

\* buildSdpResponseFrame reads the shared variables again.  The SDP task sends
\* to the address the datagram came from, the 20 ms task to the stored one.
Answer(t) ==
    /\ at[t].pc = "answer"
    /\ answer' = [to |-> IF t = "sdp" THEN at[t].dg.src ELSE evcc,
                  security |-> security, port |-> port,
                  dg |-> at[t].dg, disturbed |-> disturbed[t]]
    /\ Goes(t, "idle")
    /\ UNCHANGED <<wire, request, endpoint, disturbed, verdict>>

SdpStep(t) ==
    \/ StoreReqSecurity(t) \/ StoreReqTransport(t)
    \/ ReadTransport(t) \/ ReadTls(t) \/ ReadPlain(t)
    \/ StoreSecurity(t) \/ StorePort(t) \/ StoreAddress(t) \/ Answer(t)

\* tls_server_task starts to listen: SocketServers.
TlsListens ==
    /\ ~tls_ready
    /\ tls_ready' = TRUE
    /\ UNCHANGED <<wire, at, request, endpoint, answer, disturbed, verdict>>

SdpNext ==
    \/ /\ \/ \E s \in Sources, sec \in Securities, trans \in Transports :
                VehicleAsks(s, sec, trans)
          \/ TickTakes \/ SdpTakes
          \/ \E t \in Tasks : SdpStep(t)
       /\ UNCHANGED tls_ready
    \/ TlsListens
SdpSpec == SdpInit /\ [][SdpNext]_sdpVars

-----------------------------------------------------------------------------
(* Properties                                                              *)

\* A request whose handling met only equal requests in the other task (the copy
\* of itself, or the vehicle's repetitions), read there as what they are, is
\* answered to who sent it, with the security it asked for and the port that
\* belongs to it, and only if it asked for TCP and a security the charger knows.
OwnAnswer ==
    answer.disturbed \/
        /\ answer.to = answer.dg.src
        /\ answer.dg.transport = "tcp" /\ answer.dg.security \in {"tls", "plain"}
        /\ answer.security = answer.dg.security
        /\ answer.port = answer.dg.security

\* Every request was handled by both tasks.
Settled ==
    /\ frames = <<>> /\ lwip = <<>> /\ ~lost
    /\ \A t \in Tasks : at[t].pc = "idle"

\* However the stores of the two tasks interleaved, once both have handled every
\* request the security and the port belong together and are those of the
\* latest request accepted, unless a task took that one for another (misread);
\* the address is always the one of the latest request, accepted or not.
SettledEndpoint ==
    Settled /\ sent # <<>> =>
        /\ misread \/ security = port
        /\ accepted.n > 0 /\ ~misread => port = accepted.security
        /\ evcc = sent[Len(sent)].src
=============================================================================
