----------------------------- MODULE LegacyTcp -----------------------------
(***************************************************************************)
(* The firmware's own TCP on raw Ethernet frames: evaluateTcpPacket,       *)
(* tcp_transmit, the retransmission of tcp_tick, in src/tcp.cpp.  It is    *)
(* what answers a vehicle while the lwIP bridge is not there.              *)
(*                                                                         *)
(* The other end is an ordinary TCP that carries request and response: it  *)
(* sends the next request after the response, acknowledges, retransmits a  *)
(* few times and gives up.  The power line is a FIFO in each direction     *)
(* that loses frames.  Every request and every response is one unit of     *)
(* sequence space, and sequence numbers count from the initial ones.       *)
(*                                                                         *)
(* The charger keeps no source port with its connection and never looks at *)
(* a segment's sequence number: a retransmitted request is handled again.  *)
(***************************************************************************)
EXTENDS Integers, Sequences, FiniteSets

CONSTANTS
    MaxRetransmit,   \* TCP_MAX_RETRANSMIT
    RtxTicks,        \* TCP_RETRANSMIT_TIMEOUT_MS, in periods of tcp_tick
    IdleTicks,       \* TCP_IDLE_TIMEOUT_MS
    MaxConns,        \* bound: connections the vehicle opens
    MaxRequests,     \* bound: requests on one connection
    PeerTries,       \* retransmissions before the vehicle gives up
    Channel          \* bound: frames in flight in one direction

ASSUME LegacyAssumption ==
    /\ {MaxRetransmit, RtxTicks, IdleTicks, MaxConns, MaxRequests, PeerTries,
        Channel} \subseteq Nat

Disarmed == -1    \* tcpLastActivity = 0

VARIABLES
    tcpState,     \* "CLOSED", "SYN_ACK" or "ESTABLISHED"
    TcpSeqNr, TcpAckNr,
    evccTcpPort,  \* the connection's port at the vehicle
    awaiting,     \* tcpAwaitingAck, with lastTcpPayloadLen > 0
    payload,      \* lastTcpPayload: the request it answers, on its connection
    expected,     \* expectedTcpAckNr
    attempts,     \* tcpRetransmitAttempts
    txAge,        \* ticks since lastTcpTxTimestamp
    idle,         \* ticks since tcpLastActivity, or Disarmed
    session,      \* the session is past its initial state
    up, down,     \* the power line: to the charger, to the vehicle
    peer          \* the vehicle's end

charger == <<tcpState, TcpSeqNr, TcpAckNr, evccTcpPort, awaiting, payload, expected,
             attempts, txAge, idle, session>>
vars == <<charger, up, down, peer>>

None == [conn |-> 0, req |-> 0]
Payloads == [conn : 1 .. MaxConns, req : 1 .. MaxRequests]
Kinds == {"syn", "synack", "ack", "data", "fin", "rst"}
Numbers == 0 .. MaxRequests + 2
Segments == [kind : Kinds, conn : 0 .. MaxConns, seq : Numbers, ack : Numbers,
             body : Payloads \cup {None}]

\* The vehicle's end: its connection (a source port of its own), the requests
\* sent, the next byte expected, what it waits for, and what it was told.
Peers == [state : {"closed", "syn", "open"}, conn : 0 .. MaxConns,
          sent : 0 .. MaxRequests, rcvd : 0 .. MaxRequests + 1,
          acked : BOOLEAN, waiting : BOOLEAN, tries : 0 .. PeerTries,
          got : Seq(Payloads)]

TypeOK ==
    /\ tcpState \in {"CLOSED", "SYN_ACK", "ESTABLISHED"}
    /\ TcpSeqNr \in Numbers /\ TcpAckNr \in Numbers /\ expected \in Numbers
    /\ evccTcpPort \in 0 .. MaxConns
    /\ awaiting \in BOOLEAN /\ session \in BOOLEAN
    /\ payload \in Payloads \cup {None}
    /\ attempts \in 0 .. MaxRetransmit
    /\ txAge \in 0 .. RtxTicks + 1
    /\ idle \in {Disarmed} \cup 0 .. IdleTicks + 1
    /\ up \in Seq(Segments) /\ down \in Seq(Segments)
    /\ Len(up) <= Channel /\ Len(down) <= Channel
    /\ peer \in Peers

Init ==
    /\ tcpState = "CLOSED"
    /\ TcpSeqNr = 0 /\ TcpAckNr = 0 /\ expected = 0 /\ evccTcpPort = 0
    /\ awaiting = FALSE /\ payload = None /\ attempts = 0 /\ txAge = 0
    /\ idle = Disarmed /\ session = FALSE
    /\ up = <<>> /\ down = <<>>
    /\ peer = [state |-> "closed", conn |-> 0, sent |-> 0, rcvd |-> 0,
               acked |-> TRUE, waiting |-> FALSE, tries |-> 0, got |-> <<>>]

-----------------------------------------------------------------------------
(* What the charger sends.                                                 *)

\* tcp_prepareTcpHeader: numbers and port are the current ones.
Header(kind, port, body, seq, ack) ==
    [kind |-> kind, conn |-> port, seq |-> seq, ack |-> ack, body |-> body]

\* Frames are put on the line; a full line loses them.
Send(frames) ==
    down' = SubSeq(down \o frames, 1,
                   IF Len(down \o frames) > Channel THEN Channel
                   ELSE Len(down \o frames))

\* resetHlcSession, as far as TCP is concerned.
ResetSession ==
    /\ awaiting' = FALSE /\ payload' = None /\ expected' = 0 /\ attempts' = 0
    /\ session' = FALSE
    /\ idle' = Disarmed

\* Mutant: the pending payload outlives its connection.
CloseKeepsPending ==
    /\ tcpState' = "CLOSED" /\ session' = FALSE /\ idle' = Disarmed
    /\ UNCHANGED <<awaiting, payload, expected, attempts>>

Close == tcpState' = "CLOSED" /\ ResetSession

\* Mutant: an acknowledged payload is not forgotten.
AckForgotten(ack) == UNCHANGED <<awaiting, payload, attempts>>

\* The end of the wait for an acknowledgement.
Acknowledge(ack) ==
    IF awaiting /\ ack >= expected
    THEN awaiting' = FALSE /\ payload' = None /\ attempts' = 0
    ELSE UNCHANGED <<awaiting, payload, attempts>>

-----------------------------------------------------------------------------
(* evaluateTcpPacket.  Every segment restarts the idle timer.              *)

HasAck(s) == s.kind \in {"ack", "data", "fin"}

Rst(s) ==
    /\ s.kind = "rst"
    /\ Close
    /\ UNCHANGED <<TcpSeqNr, TcpAckNr, evccTcpPort, txAge, down>>

\* A SYN is answered in CLOSED only, and only once.
Syn(s) ==
    /\ s.kind = "syn"
    /\ idle' = 0
    /\ IF tcpState = "CLOSED"
       THEN /\ evccTcpPort' = s.conn
            /\ TcpSeqNr' = 0
            /\ TcpAckNr' = s.seq + 1
            /\ tcpState' = "SYN_ACK"
            /\ Send(<<Header("synack", s.conn, None, 0, s.seq + 1)>>)
       ELSE UNCHANGED <<evccTcpPort, TcpSeqNr, TcpAckNr, tcpState, down>>
    /\ UNCHANGED <<awaiting, payload, expected, attempts, txAge, session>>

\* In SYN_ACK everything with an ACK is taken for the end of the handshake; its
\* payload or FIN is ignored.
HandshakeAck(s) ==
    /\ HasAck(s) /\ tcpState = "SYN_ACK"
    /\ idle' = 0
    /\ tcpState' = IF s.ack = TcpSeqNr + 1 THEN "ESTABLISHED" ELSE tcpState
    /\ UNCHANGED <<TcpSeqNr, TcpAckNr, evccTcpPort, awaiting, payload, expected,
                   attempts, txAge, session, down>>

NotConnected(s) ==
    /\ HasAck(s) /\ tcpState = "CLOSED"
    /\ idle' = 0
    /\ UNCHANGED <<tcpState, TcpSeqNr, TcpAckNr, evccTcpPort, awaiting, payload,
                   expected, attempts, txAge, session, down>>

Ack(s) ==
    /\ s.kind = "ack" /\ tcpState = "ESTABLISHED"
    /\ idle' = 0
    /\ TcpSeqNr' = s.ack
    /\ Acknowledge(s.ack)
    /\ UNCHANGED <<tcpState, TcpAckNr, evccTcpPort, expected, txAge, session, down>>

\* A request: acknowledged, handled, answered with tcp_transmit.  The handler
\* may answer, ignore the request or reset the session.
Answered(s) ==
    /\ Send(<<Header("ack", evccTcpPort, None, s.ack, s.seq + 1),
              Header("data", evccTcpPort, s.body, s.ack, s.seq + 1)>>)
    /\ awaiting' = TRUE /\ payload' = s.body
    /\ expected' = s.ack + 1
    /\ attempts' = 0
    /\ txAge' = 0
    /\ session' = TRUE /\ idle' = 0
Unanswered(s) ==
    /\ Send(<<Header("ack", evccTcpPort, None, s.ack, s.seq + 1)>>)
    /\ \/ Acknowledge(s.ack) /\ idle' = 0 /\ UNCHANGED <<expected, session>>
       \/ ResetSession
    /\ UNCHANGED txAge
\* A payload of TCP_RX_DATA_LEN bytes or more is not even acknowledged.
TooLarge(s) ==
    /\ s.kind = "data" /\ tcpState = "ESTABLISHED"
    /\ ResetSession
    /\ UNCHANGED <<tcpState, TcpSeqNr, TcpAckNr, evccTcpPort, txAge, down>>

Data(s) ==
    /\ s.kind = "data" /\ tcpState = "ESTABLISHED"
    /\ TcpAckNr' = s.seq + 1
    /\ TcpSeqNr' = s.ack
    /\ Answered(s) \/ Unanswered(s)
    /\ UNCHANGED <<tcpState, evccTcpPort>>

\* Mutant: the session survives its connection.
FinKeepsSession(s) ==
    /\ s.kind = "fin" /\ tcpState = "ESTABLISHED"
    /\ TcpAckNr' = s.seq + 1
    /\ TcpSeqNr' = s.ack
    /\ Send(<<Header("ack", evccTcpPort, None, s.ack, s.seq + 1)>>)
    /\ tcpState' = "CLOSED"
    /\ UNCHANGED <<evccTcpPort, awaiting, payload, expected, attempts, session,
                   idle, txAge>>

Fin(s) ==
    /\ s.kind = "fin" /\ tcpState = "ESTABLISHED"
    /\ TcpAckNr' = s.seq + 1
    /\ TcpSeqNr' = s.ack
    /\ Send(<<Header("ack", evccTcpPort, None, s.ack, s.seq + 1)>>)
    /\ Close
    /\ UNCHANGED <<evccTcpPort, txAge>>

Receive ==
    /\ up # <<>>
    /\ LET s == Head(up) IN
       \/ Rst(s) \/ Syn(s) \/ HandshakeAck(s) \/ NotConnected(s)
       \/ Ack(s) \/ Data(s) \/ TooLarge(s) \/ Fin(s)
    /\ up' = Tail(up)
    /\ UNCHANGED peer

-----------------------------------------------------------------------------
(* tcp_tick, once per tick of the time that counts here.                   *)

Older(age, limit) == IF age > limit THEN age ELSE age + 1
RetransmitDue == tcpState = "ESTABLISHED" /\ awaiting /\ Older(txAge, RtxTicks) > RtxTicks
IdleDue == tcpState = "ESTABLISHED" /\ idle # Disarmed /\ Older(idle, IdleTicks) > IdleTicks

Grown(age, limit) == IF age = Disarmed THEN age ELSE Older(age, limit)

LimitReached == attempts >= MaxRetransmit

\* tcp_retransmitPendingPayload: the same payload under the current numbers.
Resend == Send(<<Header("data", evccTcpPort, payload, TcpSeqNr, TcpAckNr)>>)

Retransmit ==
    /\ RetransmitDue /\ ~LimitReached /\ ~IdleDue
    /\ attempts' = attempts + 1
    /\ Resend
    /\ txAge' = 0
    /\ idle' = Grown(idle, IdleTicks)
    /\ UNCHANGED <<tcpState, TcpSeqNr, TcpAckNr, evccTcpPort, awaiting, payload,
                   expected, session>>

\* The limit of retransmissions or the idle timeout, after a last retransmission
\* when that was due too, closes the connection without a word to the vehicle.
GiveUp ==
    /\ IdleDue \/ (RetransmitDue /\ LimitReached)
    /\ Close
    /\ IF RetransmitDue /\ ~LimitReached THEN Resend ELSE UNCHANGED down
    /\ txAge' = Older(txAge, RtxTicks)
    /\ UNCHANGED <<TcpSeqNr, TcpAckNr, evccTcpPort>>

Quiet ==
    /\ ~RetransmitDue /\ ~IdleDue
    /\ txAge' = Older(txAge, RtxTicks)
    /\ idle' = Grown(idle, IdleTicks)
    /\ UNCHANGED <<tcpState, TcpSeqNr, TcpAckNr, evccTcpPort, awaiting, payload,
                   expected, attempts, session, down>>

Tick ==
    /\ Retransmit \/ GiveUp \/ Quiet
    /\ UNCHANGED <<up, peer>>

\* The ISO state watchdog, at the end of a tcp_tick: its deadlines are left out.
\* It resets the session, and the connection too when its state is fatal.
Watchdog ==
    /\ session
    /\ ResetSession
    /\ tcpState' \in {tcpState, "CLOSED"}
    /\ UNCHANGED <<TcpSeqNr, TcpAckNr, evccTcpPort, txAge, up, down, peer>>

-----------------------------------------------------------------------------
(* The vehicle's TCP and the line: external.                               *)

PeerSends(kind, seq, ack, body) ==
    /\ Len(up) < Channel
    /\ up' = Append(up, [kind |-> kind, conn |-> peer'.conn, seq |-> seq,
                         ack |-> ack, body |-> body])

PeerConnects ==
    /\ peer.state = "closed" /\ peer.conn < MaxConns
    /\ peer' = [state |-> "syn", conn |-> peer.conn + 1, sent |-> 0, rcvd |-> 0,
                acked |-> TRUE, waiting |-> FALSE, tries |-> 0, got |-> <<>>]
    /\ PeerSends("syn", 0, 0, None)
    /\ UNCHANGED down

PeerRequests ==
    /\ peer.state = "open" /\ ~peer.waiting /\ peer.sent < MaxRequests
    /\ peer' = [peer EXCEPT !.sent = @ + 1, !.acked = FALSE, !.waiting = TRUE,
                            !.tries = 0]
    /\ PeerSends("data", peer.sent + 1, peer.rcvd,
                 [conn |-> peer.conn, req |-> peer.sent + 1])
    /\ UNCHANGED down

PeerRetransmits ==
    /\ peer.tries < PeerTries
    /\ peer' = [peer EXCEPT !.tries = @ + 1]
    /\ \/ peer.state = "syn" /\ PeerSends("syn", 0, 0, None)
       \/ /\ peer.state = "open" /\ ~peer.acked
          /\ PeerSends("data", peer.sent, peer.rcvd,
                       [conn |-> peer.conn, req |-> peer.sent])
    /\ UNCHANGED down

\* It closes, aborts or is gone; a FIN may get lost for good.
PeerEnds ==
    /\ peer.state # "closed"
    /\ peer' = [peer EXCEPT !.state = "closed"]
    /\ \/ peer.state = "open" /\ PeerSends("fin", peer.sent + 1, peer.rcvd, None)
       \/ PeerSends("rst", peer.sent + 1, peer.rcvd, None)
       \/ UNCHANGED up
    /\ UNCHANGED down

\* A segment of its connection: the handshake ends, bytes are acknowledged, the
\* next response is taken, a repeated one acknowledged again.
PeerTakes(s) ==
    LET acked == peer.acked \/ s.ack > peer.sent IN
    \/ /\ s.kind = "synack" /\ peer.state = "syn"
       /\ peer' = [peer EXCEPT !.state = "open", !.rcvd = 1, !.tries = 0]
       /\ PeerSends("ack", 1, 1, None)
    \/ /\ s.kind = "ack" /\ peer.state = "open"
       /\ peer' = [peer EXCEPT !.acked = acked]
       /\ UNCHANGED up
    \/ /\ s.kind = "data" /\ peer.state = "open"
       /\ peer' = IF s.seq = peer.rcvd
                  THEN [peer EXCEPT !.acked = acked, !.rcvd = @ + 1,
                                    !.waiting = FALSE, !.got = Append(@, s.body)]
                  ELSE [peer EXCEPT !.acked = acked]
       /\ PeerSends("ack", peer.sent + 1, peer'.rcvd, None)
    \/ /\ <<s.kind, peer.state>> \notin {<<"synack", "syn">>, <<"ack", "open">>, <<"data", "open">>}
       /\ UNCHANGED <<peer, up>>

PeerReceives ==
    /\ down # <<>>
    /\ LET s == Head(down) IN
       \/ /\ s.conn = peer.conn /\ peer.state # "closed"
          /\ PeerTakes(s)
       \/ /\ s.conn # peer.conn \/ peer.state = "closed"
          /\ UNCHANGED peer
          /\ \/ PeerSends("rst", s.ack, s.ack, None)
             \/ UNCHANGED up
    /\ down' = Tail(down)

LineLoses ==
    /\ \/ up # <<>> /\ up' = Tail(up) /\ UNCHANGED down
       \/ down # <<>> /\ down' = Tail(down) /\ UNCHANGED up
    /\ UNCHANGED peer

PeerStep ==
    /\ \/ PeerConnects \/ PeerRequests \/ PeerRetransmits \/ PeerEnds
       \/ PeerReceives \/ LineLoses
    /\ UNCHANGED charger

Next == Receive \/ Tick \/ Watchdog \/ PeerStep
Spec == Init /\ [][Next]_vars
\* The 20 ms task calls tcp_tick again and again.
FairSpec == Spec /\ WF_vars(Tick)

-----------------------------------------------------------------------------
(* Properties                                                              *)

\* Whatever is lost, repeated or late, the k-th response a vehicle takes from
\* the byte stream of its connection answers its k-th request: a retransmitted
\* or repeated response never slips into the place of the next one.
ReplyAnswersRequest ==
    \A k \in 1 .. Len(peer.got) : peer.got[k] = [conn |-> peer.conn, req |-> k]

\* No session without an established connection, whichever of the ways a
\* connection ends was taken.
SessionNeedsConnection == session \/ awaiting => tcpState = "ESTABLISHED"

\* The wait for one acknowledgement ends: it comes, another response replaces
\* the one waited for, or the connection is given up.
PendingReplyResolved ==
    \A p \in Payloads : (awaiting /\ payload = p) ~> ~(awaiting /\ payload = p)
=============================================================================
