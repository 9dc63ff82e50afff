----------------------------- MODULE HlcSession -----------------------------
(***************************************************************************)
(* The high-level-communication session of src/tcp.cpp: the state machine  *)
(* decodeV2GTP for DIN 70121 and ISO 15118-2, the power hardware it        *)
(* drives, the session resets, and the part of the 20 ms task that         *)
(* supervises it (control pilot, idle timeout, ISO watchdog).              *)
(*                                                                         *)
(* The transport is an lwIP client (tcp_socket_server.cpp, tls_server.cpp) *)
(* served by one task; every received frame and every period of the 20 ms  *)
(* task is one atomic step.  Replies are not part of the state.  A frame   *)
(* is what the EXI decoder (external) makes of it.                         *)
(***************************************************************************)
EXTENDS PowerHal, IsoWatchdog

CONSTANT IdleTimeout    \* TCP_IDLE_TIMEOUT_MS, in periods of the 20 ms task

ASSUME IdleAssumption == IdleTimeout \in Nat \ {0}

VARIABLES
    fsm,             \* fsmState
    proto,           \* g_hlc_protocol
    dinDoc,          \* dinDocDec, the last DIN document decoded
    charging,        \* chargingActive
    expectDetails,   \* g_iso_expect_payment_details
    detailsDone,     \* g_iso_payment_details_done
    client,          \* a socket client is connected and served
    tcpState,        \* tcpState
    idle,            \* now - tcpLastActivity, Disarmed when that is 0
    more,            \* the segment being processed holds another frame
    cpConnected,     \* cp_is_connected(), as of the last cp_tick
    ev               \* whether the vehicle still sends anything

payVars  == <<expectDetails, detailsDone>>
linkVars == <<client, tcpState>>
hlcVars  == <<fsm, proto, charging, payVars>>
vars == <<powerVars, wdVars, hlcVars, dinDoc, linkVars, idle, more, cpConnected,
          ev>>

-----------------------------------------------------------------------------
\* The states stateWaitFor<name>Request, in the order of a session.
States == {"SupportedAppProtocol", "SessionSetup", "ServiceDiscovery",
           "PaymentSelection", "ContractAuthentication",
           "ChargeParameterDiscovery", "CableCheck", "PreCharge",
           "PowerDelivery", "CurrentDemand", "SessionStop"}

\* States reached only after the vehicle has been authorised.
Authorised == {"ChargeParameterDiscovery", "CableCheck", "PreCharge",
               "PowerDelivery", "CurrentDemand", "SessionStop"}

Protocols == {"Din", "Iso2"}

\* The requests a DIN document can hold, split where a field decides what
\* the handler does: ReadyToChargeState, ChargingComplete, and the payment
\* option being ExternalPayment or not.
DinRequests == {"SessionSetupReq", "ServiceDiscoveryReq",
    "PaymentSelectionExternal", "PaymentSelectionOther",
    "ContractAuthenticationReq", "ChargeParameterDiscoveryReq",
    "CableCheckReq", "PreChargeReq", "PowerDeliveryReady",
    "PowerDeliveryNotReady", "CurrentDemandReq", "CurrentDemandComplete",
    "MeteringReceiptReq", "SessionStopReq"}

\* The same for ISO 15118-2: payment option and ChargeProgress.
IsoRequests == {"SessionSetupReq", "ServiceDiscoveryReq",
    "PaymentSelectionExternal", "PaymentSelectionContract",
    "PaymentSelectionOther", "PaymentDetailsReq", "AuthorizationReq",
    "ChargeParameterDiscoveryReq", "CableCheckReq", "PreChargeReq",
    "PowerDeliveryStart", "PowerDeliveryStop", "PowerDeliveryRenegotiate",
    "CurrentDemandReq", "MeteringReceiptReq", "SessionStopReq"}

IsoPowerDeliveryRequests ==
    {"PowerDeliveryStart", "PowerDeliveryStop", "PowerDeliveryRenegotiate"}

\* dinDocDec is zero-initialised: no request in it.
NoDoc == "None"

Disarmed == -1

TypeOK ==
    /\ PowerTypeOK
    /\ WdTypeOK
    /\ fsm \in States
    /\ proto \in Protocols
    /\ dinDoc \in DinRequests \cup {NoDoc}
    /\ charging \in BOOLEAN
    /\ expectDetails \in BOOLEAN
    /\ detailsDone \in BOOLEAN
    /\ client \in BOOLEAN
    /\ tcpState \in {"CLOSED", "ESTABLISHED"}
    /\ idle \in Disarmed .. IdleTimeout
    /\ more \in BOOLEAN
    /\ cpConnected \in BOOLEAN
    /\ ev \in {"talking", "silent"}

Init ==
    /\ PowerInit
    /\ WdInit
    /\ fsm = "SupportedAppProtocol"
    /\ proto = "Din"
    /\ dinDoc = NoDoc
    /\ charging = FALSE
    /\ expectDetails = FALSE
    /\ detailsDone = FALSE
    /\ client = FALSE
    /\ tcpState = "CLOSED"
    /\ idle = Disarmed
    /\ more = FALSE
    /\ cpConnected = FALSE
    /\ ev = "talking"

-----------------------------------------------------------------------------
\* stop_evse_power_output
StopPower ==
    /\ charging' = FALSE
    /\ PowerOff

\* Mutant: the reset forgets the contactor.
ResetKeepsContactor ==
    /\ fsm' = "SupportedAppProtocol"
    /\ charging' = FALSE
    /\ DcEnableOutput(FALSE, 0)
    /\ proto' = "Din"
    /\ expectDetails' = FALSE
    /\ detailsDone' = FALSE
    /\ WdClear
    /\ UNCHANGED <<coil, aux, dinDoc>>

\* resetHlcSession, all but tcpLastActivity.  dinDocDec is left as it is.
ResetHlcState ==
    /\ fsm' = "SupportedAppProtocol"
    /\ StopPower
    /\ proto' = "Din"
    /\ expectDetails' = FALSE
    /\ detailsDone' = FALSE
    /\ WdClear
    /\ UNCHANGED dinDoc

\* resetHlcSession: tcpLastActivity = 0 also switches the idle timeout off.
ResetHlcSession ==
    /\ ResetHlcState
    /\ idle' = Disarmed

NoPowerChange == UNCHANGED <<powerVars, charging>>

\* What every handler of a decoded frame leaves alone.
Frame == UNCHANGED <<linkVars, cpConnected, ev>>

\* A frame of a served client is at the head of tcp_rxdata; others may
\* follow it in the same segment.
Heard ==
    /\ client
    /\ ev = "talking"
    /\ more' \in BOOLEAN
    /\ Frame

\* tcp_process_socket_payload restarts the idle timer once per segment.
TouchIdle == idle' = IF more THEN idle ELSE 0

-----------------------------------------------------------------------------
\* DIN handlers.  They act on m, the contents of dinDocDec, whichever
\* session decoded it.

\* Handlers that reply and wait for the next request of the sequence.
DinAdvance(m, state, request, next) ==
    /\ fsm = state
    /\ m = request
    /\ fsm' = next
    /\ NoPowerChange

DinSessionSetup(m) ==
    DinAdvance(m, "SessionSetup", "SessionSetupReq", "ServiceDiscovery")
DinServiceDiscovery(m) ==
    DinAdvance(m, "ServiceDiscovery", "ServiceDiscoveryReq", "PaymentSelection")
DinPaymentSelection(m) ==
    DinAdvance(m, "PaymentSelection", "PaymentSelectionExternal",
               "ContractAuthentication")
DinContractAuthentication(m) ==
    DinAdvance(m, "ContractAuthentication", "ContractAuthenticationReq",
               "ChargeParameterDiscovery")
DinChargeParameterDiscovery(m) ==
    DinAdvance(m, "ChargeParameterDiscovery", "ChargeParameterDiscoveryReq",
               "CableCheck")
DinCableCheck(m) ==
    DinAdvance(m, "CableCheck", "CableCheckReq", "PreCharge")
\* Mutant: the output is already switched on for precharge.
DinPreChargeEnergises(m) ==
    /\ fsm = "PreCharge"
    /\ m = "PreChargeReq"
    /\ fsm' = "PowerDelivery"
    /\ ContactorClose(TRUE)
    /\ DcEnableOutput(TRUE, target)
    /\ UNCHANGED charging

DinPreCharge(m) ==
    DinAdvance(m, "PreCharge", "PreChargeReq", "PowerDelivery")

\* Mutant: the result of cp_contactor_command is not looked at for DC.
DinReadyIgnoresContactor(m) ==
    /\ fsm \in {"PowerDelivery", "CurrentDemand"}
    /\ m = "PowerDeliveryReady"
    /\ \E ok \in CloseOutcomes :
          /\ ContactorClose(ok)
          /\ DcEnableOutput(TRUE, target)
          /\ charging' = ok
          /\ fsm' = IF ok THEN "CurrentDemand" ELSE "SessionStop"

DinPowerDeliveryReady(m) ==
    /\ fsm \in {"PowerDelivery", "CurrentDemand"}
    /\ m = "PowerDeliveryReady"
    /\ \E ok \in CloseOutcomes :
          /\ ContactorClose(ok)
          /\ DcEnableOutput(ok, target)
          /\ charging' = ok
          /\ fsm' = IF ok THEN "CurrentDemand" ELSE "SessionStop"

\* Mutant: a stop opens the contactor under a running DC output.
DinNotReadyKeepsDc(m) ==
    /\ fsm \in {"PowerDelivery", "CurrentDemand"}
    /\ m = "PowerDeliveryNotReady"
    /\ charging' = FALSE
    /\ ContactorOpen
    /\ fsm' = "SessionStop"
    /\ UNCHANGED <<dcEnabled, target>>

DinPowerDeliveryNotReady(m) ==
    /\ fsm \in {"PowerDelivery", "CurrentDemand"}
    /\ m = "PowerDeliveryNotReady"
    /\ charging' = FALSE
    /\ DcEnableOutput(FALSE, target)
    /\ ContactorOpen
    /\ fsm' = "SessionStop"

\* The targets are set first; ChargingComplete then stops the output.
DinCurrentDemand(m) ==
    /\ fsm = "CurrentDemand"
    /\ \E t \in Targets :
          \/ /\ m = "CurrentDemandReq"
             /\ target' = t
             /\ UNCHANGED <<coil, aux, dcEnabled, charging>>
          \/ /\ m = "CurrentDemandComplete"
             /\ charging' = FALSE
             /\ DcEnableOutput(FALSE, t)
             /\ ContactorOpen
    /\ UNCHANGED fsm

\* SessionStop does not touch the contactor, the output or the targets.
DinSessionStop(m) ==
    /\ fsm = "SessionStop"
    /\ m = "SessionStopReq"
    /\ charging' = FALSE
    /\ fsm' = "SupportedAppProtocol"
    /\ UNCHANGED powerVars

\* "Treat unexpected PowerDelivery during stop as start/stop handshake."
DinPowerDeliveryInStop(m) ==
    /\ fsm = "SessionStop"
    /\ m \in {"PowerDeliveryReady", "PowerDeliveryNotReady"}
    /\ charging' = (m = "PowerDeliveryReady")
    /\ fsm' = IF m = "PowerDeliveryReady" THEN "CurrentDemand" ELSE fsm
    /\ UNCHANGED powerVars

\* The requests that make the DIN branch of each state do something to the
\* state; the others are ignored, or only answered (a metering receipt, a
\* repeated PreChargeReq in PowerDelivery).
DinActs == {
    <<"SessionSetup", "SessionSetupReq">>,
    <<"ServiceDiscovery", "ServiceDiscoveryReq">>,
    <<"PaymentSelection", "PaymentSelectionExternal">>,
    <<"ContractAuthentication", "ContractAuthenticationReq">>,
    <<"ChargeParameterDiscovery", "ChargeParameterDiscoveryReq">>,
    <<"CableCheck", "CableCheckReq">>,
    <<"PreCharge", "PreChargeReq">>,
    <<"PowerDelivery", "PowerDeliveryReady">>,
    <<"PowerDelivery", "PowerDeliveryNotReady">>,
    <<"CurrentDemand", "PowerDeliveryReady">>,
    <<"CurrentDemand", "PowerDeliveryNotReady">>,
    <<"CurrentDemand", "CurrentDemandReq">>,
    <<"CurrentDemand", "CurrentDemandComplete">>,
    <<"SessionStop", "SessionStopReq">>,
    <<"SessionStop", "PowerDeliveryReady">>,
    <<"SessionStop", "PowerDeliveryNotReady">>}

DinIgnored(m) ==
    /\ <<fsm, m>> \notin DinActs
    /\ UNCHANGED fsm
    /\ NoPowerChange

\* The DIN branch of decodeV2GTP.  No DIN handler touches the watchdog, the
\* protocol or the payment flags.
DinBranch(m) ==
    /\ \/ DinSessionSetup(m)
       \/ DinServiceDiscovery(m)
       \/ DinPaymentSelection(m)
       \/ DinContractAuthentication(m)
       \/ DinChargeParameterDiscovery(m)
       \/ DinCableCheck(m)
       \/ DinPreCharge(m)
       \/ DinPowerDeliveryReady(m)
       \/ DinPowerDeliveryNotReady(m)
       \/ DinCurrentDemand(m)
       \/ DinSessionStop(m)
       \/ DinPowerDeliveryInStop(m)
       \/ DinIgnored(m)
    /\ TouchIdle
    /\ UNCHANGED <<wdVars, proto, payVars>>

-----------------------------------------------------------------------------
\* ISO 15118-2 handlers for a freshly decoded request m.  Each returns.

IsoAdvance(m, state, request, next) ==
    /\ fsm = state
    /\ m = request
    /\ fsm' = next
    /\ WdStart
    /\ TouchIdle
    /\ NoPowerChange
    /\ UNCHANGED <<proto, payVars>>

IsoSessionSetup(m) ==
    IsoAdvance(m, "SessionSetup", "SessionSetupReq", "ServiceDiscovery")
IsoServiceDiscovery(m) ==
    IsoAdvance(m, "ServiceDiscovery", "ServiceDiscoveryReq", "PaymentSelection")
IsoChargeParameterDiscovery(m) ==
    IsoAdvance(m, "ChargeParameterDiscovery", "ChargeParameterDiscoveryReq",
               "CableCheck")
IsoCableCheck(m) ==
    IsoAdvance(m, "CableCheck", "CableCheckReq", "PreCharge")
IsoPreCharge(m) ==
    IsoAdvance(m, "PreCharge", "PreChargeReq", "PowerDelivery")

\* Only a contract asks for PaymentDetails before Authorization.
IsoPaymentSelection(m) ==
    /\ fsm = "PaymentSelection"
    /\ m \in {"PaymentSelectionExternal", "PaymentSelectionContract"}
    /\ expectDetails' = (m = "PaymentSelectionContract")
    /\ detailsDone' = (m # "PaymentSelectionContract")
    /\ fsm' = "ContractAuthentication"
    /\ WdStart
    /\ TouchIdle
    /\ NoPowerChange
    /\ UNCHANGED proto

\* An unsupported payment option ends the session.
IsoPaymentUnsupported(m) ==
    /\ fsm = "PaymentSelection"
    /\ m = "PaymentSelectionOther"
    /\ ResetHlcSession

\* PaymentDetails does not restart the watchdog.
IsoPaymentDetails(m) ==
    /\ fsm = "ContractAuthentication"
    /\ m = "PaymentDetailsReq"
    /\ expectDetails' = FALSE
    /\ detailsDone' = TRUE
    /\ TouchIdle
    /\ NoPowerChange
    /\ UNCHANGED <<fsm, proto, wdVars>>

\* Mutant: Authorization does not look at the payment flags.
IsoAuthorizationUnchecked(m) ==
    /\ fsm = "ContractAuthentication"
    /\ m = "AuthorizationReq"
    /\ fsm' = "ChargeParameterDiscovery"
    /\ WdStart
    /\ TouchIdle
    /\ NoPowerChange
    /\ UNCHANGED <<proto, payVars>>

\* Authorization before PaymentDetails gets FAILED_SequenceError.
IsoAuthorization(m) ==
    /\ fsm = "ContractAuthentication"
    /\ m = "AuthorizationReq"
    /\ \/ /\ expectDetails /\ ~detailsDone
          /\ UNCHANGED <<fsm, wdVars>>
       \/ /\ ~(expectDetails /\ ~detailsDone)
          /\ fsm' = "ChargeParameterDiscovery"
          /\ WdStart
    /\ TouchIdle
    /\ NoPowerChange
    /\ UNCHANGED <<proto, payVars>>

\* iso_process_power_delivery.  A start the auxiliary contact does not
\* confirm is undone.
IsoProgress(m) ==
    \/ /\ m = "PowerDeliveryStart"
       /\ ContactorClose(TRUE)
       /\ DcEnableOutput(TRUE, target)
       /\ charging' = TRUE
       /\ fsm' = "CurrentDemand"
    \/ /\ m = "PowerDeliveryStart"
       /\ FALSE \in CloseOutcomes
       /\ StopPower
       /\ fsm' = "SessionStop"
    \/ /\ m = "PowerDeliveryStop"
       /\ StopPower
       /\ fsm' = "SessionStop"
    \/ /\ m = "PowerDeliveryRenegotiate"
       /\ StopPower
       /\ fsm' = "ChargeParameterDiscovery"

\* PowerDelivery is accepted in three states; only the first of them
\* restarts the watchdog.
IsoPowerDelivery(m) ==
    /\ fsm \in {"PowerDelivery", "CurrentDemand", "SessionStop"}
    /\ IsoProgress(m)
    /\ IF fsm = "PowerDelivery" THEN WdStart ELSE UNCHANGED wdVars
    /\ TouchIdle
    /\ UNCHANGED <<proto, payVars>>

\* Mutant: a vehicle that asks for current is given the power back.
IsoCurrentDemandEnergises(m) ==
    /\ fsm = "CurrentDemand"
    /\ m = "CurrentDemandReq"
    /\ ContactorClose(TRUE)
    /\ dcEnabled' = CanOk
    /\ target' \in Targets
    /\ charging' = TRUE
    /\ WdStart
    /\ TouchIdle
    /\ UNCHANGED <<fsm, proto, payVars>>

IsoCurrentDemand(m) ==
    /\ fsm = "CurrentDemand"
    /\ m = "CurrentDemandReq"
    /\ target' \in Targets
    /\ charging' = TRUE
    /\ WdStart
    /\ TouchIdle
    /\ UNCHANGED <<coil, aux, dcEnabled, fsm, proto, payVars>>

\* The watchdog stays armed after the session has been stopped.
IsoSessionStop(m) ==
    /\ fsm = "SessionStop"
    /\ m = "SessionStopReq"
    /\ StopPower
    /\ fsm' = "SupportedAppProtocol"
    /\ TouchIdle
    /\ UNCHANGED <<wdVars, proto, payVars>>

\* The requests the ISO branch of each state handles and returns from.
IsoReturns == {
    <<"SessionSetup", "SessionSetupReq">>,
    <<"ServiceDiscovery", "ServiceDiscoveryReq">>,
    <<"PaymentSelection", "PaymentSelectionExternal">>,
    <<"PaymentSelection", "PaymentSelectionContract">>,
    <<"PaymentSelection", "PaymentSelectionOther">>,
    <<"ContractAuthentication", "PaymentDetailsReq">>,
    <<"ContractAuthentication", "AuthorizationReq">>,
    <<"ChargeParameterDiscovery", "ChargeParameterDiscoveryReq">>,
    <<"CableCheck", "CableCheckReq">>,
    <<"PreCharge", "PreChargeReq">>,
    <<"CurrentDemand", "CurrentDemandReq">>,
    <<"SessionStop", "SessionStopReq">>}
    \cup ({"PowerDelivery", "CurrentDemand", "SessionStop"}
            \X IsoPowerDeliveryRequests)

IsoBranch(m) ==
    \/ IsoSessionSetup(m)
    \/ IsoServiceDiscovery(m)
    \/ IsoPaymentSelection(m)
    \/ IsoPaymentUnsupported(m)
    \/ IsoPaymentDetails(m)
    \/ IsoAuthorization(m)
    \/ IsoChargeParameterDiscovery(m)
    \/ IsoCableCheck(m)
    \/ IsoPreCharge(m)
    \/ IsoPowerDelivery(m)
    \/ IsoCurrentDemand(m)
    \/ IsoSessionStop(m)

-----------------------------------------------------------------------------
\* Frames.  tcp_process_socket_payload restarts the idle timer, then
\* tcp_bufferPayload runs decodeV2GTP, one handler, on each whole frame of
\* the segment.  A reset in the handler of one frame leaves the frames after
\* it in the buffer, so they are handled with the idle timeout disarmed.

\* Mutant: the watchdog is started before the protocol is selected.
HandshakeWatchesOldProtocol ==
    /\ Heard
    /\ fsm = "SupportedAppProtocol"
    /\ \E offered \in SUBSET Protocols : \E last \in offered :
          proto' = last
    /\ IF proto = "Iso2" THEN WdStart ELSE UNCHANGED wdVars
    /\ fsm' = "SessionSetup"
    /\ TouchIdle
    /\ NoPowerChange
    /\ UNCHANGED <<payVars, dinDoc>>

\* supportedAppProtocolReq: every DIN or ISO-2 schema of the list is
\* answered and selected in turn, so the last one wins; iso_watchdog_start
\* runs if ISO-2 is among them.
RecvHandshake ==
    /\ Heard
    /\ fsm = "SupportedAppProtocol"
    /\ \E offered \in SUBSET Protocols : \E last \in offered :
          /\ proto' = last
          /\ IF "Iso2" \in offered THEN WdStart ELSE UNCHANGED wdVars
    /\ fsm' = "SessionSetup"
    /\ TouchIdle
    /\ NoPowerChange
    /\ UNCHANGED <<payVars, dinDoc>>

RecvDin ==
    /\ Heard
    /\ fsm # "SupportedAppProtocol"
    /\ proto = "Din"
    /\ \E m \in DinRequests :
          /\ dinDoc' = m
          /\ DinBranch(m)

RecvIso ==
    /\ Heard
    /\ fsm # "SupportedAppProtocol"
    /\ proto = "Iso2"
    /\ \E m \in IsoRequests : IsoBranch(m)
    /\ UNCHANGED dinDoc

\* An ISO request the ISO branch of the state does not return from (one it
\* does not handle, or a metering receipt, which it answers) runs on into
\* the DIN branch, which looks at whatever DIN document was decoded last.
RecvIsoFallThrough ==
    /\ Heard
    /\ fsm # "SupportedAppProtocol"
    /\ proto = "Iso2"
    /\ \E m \in IsoRequests : <<fsm, m>> \notin IsoReturns
    /\ DinBranch(dinDoc)
    /\ UNCHANGED dinDoc

\* A well-framed message that does not decode, a handshake without a known
\* schema, or a segment without a whole frame.  A failing DIN decode may leave any request flagged.
RecvUndecodable ==
    /\ Heard
    /\ TouchIdle
    /\ IF fsm # "SupportedAppProtocol" /\ proto = "Din"
       THEN dinDoc' \in DinRequests \cup {NoDoc}
       ELSE UNCHANGED dinDoc
    /\ UNCHANGED <<hlcVars, powerVars, wdVars>>

\* tcp_bufferPayload: bad V2GTP header, wrong payload type, or overflow.
\* The rest of the segment is dropped.
RecvBadFrame ==
    /\ Heard
    /\ ~more'
    /\ ResetHlcSession

\* tcp_transport_reset; tcp_transport_connected; register the sender
ClientConnects ==
    /\ ~client
    /\ client' = TRUE
    /\ ResetHlcState
    /\ tcpState' = "ESTABLISHED"
    /\ idle' = 0
    /\ ev' = "talking"
    /\ UNCHANGED <<more, cpConnected>>

\* Mutant: a closed connection does not end the session.
ClosesWithoutReset ==
    /\ client
    /\ ev = "talking"
    /\ ~more
    /\ client' = FALSE
    /\ tcpState' = "CLOSED"
    /\ UNCHANGED <<powerVars, wdVars, hlcVars, dinDoc, idle, ev, more,
                   cpConnected>>

\* recv returns 0 or an error: unregister the sender, tcp_transport_reset
ClientCloses ==
    /\ client
    /\ ev = "talking"
    /\ ~more
    /\ client' = FALSE
    /\ ResetHlcSession
    /\ tcpState' = "CLOSED"
    /\ UNCHANGED <<ev, more, cpConnected>>

\* The vehicle stops without closing the connection; recv blocks for good.
EvFallsSilent ==
    /\ client
    /\ ev = "talking"
    /\ ~more
    /\ ev' = "silent"
    /\ UNCHANGED <<powerVars, wdVars, hlcVars, dinDoc, linkVars, idle, more,
                   cpConnected>>

-----------------------------------------------------------------------------
\* The 20 ms task: control pilot, then tcp_tick.

\* Mutants: the DC output is forgotten; only the edge is acted upon; the
\* feedback is consulted instead of the command.
PilotOpensKeepsDc ==
    /\ IF coil THEN ContactorOpen ELSE UNCHANGED <<coil, aux>>
    /\ UNCHANGED <<dcEnabled, target>>

PilotOpensOnEdge ==
    IF cpConnected
    THEN /\ DcEnableOutput(FALSE, target)
         /\ IF coil THEN ContactorOpen ELSE UNCHANGED <<coil, aux>>
    ELSE UNCHANGED powerVars

\* cp_tick and the loop after it, with the pilot not connected.
PilotOpens ==
    /\ DcEnableOutput(FALSE, target)
    /\ IF coil THEN ContactorOpen ELSE UNCHANGED <<coil, aux>>

\* Mutant: one period late.
IdleExpiredLate ==
    /\ tcpState = "ESTABLISHED"
    /\ idle # Disarmed
    /\ idle > IdleTimeout

IdleExpired ==
    /\ tcpState = "ESTABLISHED"
    /\ idle # Disarmed
    /\ idle + 1 > IdleTimeout

\* Mutant: the transport is closed, the session goes on.
IdleTimeoutKeepsSession ==
    /\ IdleExpired
    /\ tcpState' = "CLOSED"
    /\ UNCHANGED <<powerVars, wdVars, hlcVars, dinDoc, idle>>

TickIdleTimeout ==
    /\ IdleExpired
    /\ tcpState' = "CLOSED"
    /\ ResetHlcSession

\* Mutant: only the fatal result is acted upon.
WatchdogActsOnFatalOnly ==
    /\ ~IdleExpired
    /\ WdExpired
    /\ IF WdFatal
       THEN /\ ResetHlcSession
            /\ tcpState' = "CLOSED"
       ELSE /\ WdCheck
            /\ UNCHANGED <<powerVars, hlcVars, dinDoc, idle, tcpState>>

\* Timeout resets the session; Fatal also closes the transport.  Either
\* way iso_watchdog_clear sets the retry count back to zero.
TickWatchdog ==
    /\ ~IdleExpired
    /\ WdExpired
    /\ ResetHlcSession
    /\ tcpState' = IF WdResult = "Fatal" THEN "CLOSED" ELSE tcpState

\* The idle age is only read while the transport is ESTABLISHED.
TickQuiet ==
    /\ ~IdleExpired
    /\ ~WdExpired
    /\ WdCheck
    /\ idle' = IF tcpState = "ESTABLISHED" /\ idle # Disarmed
               THEN idle + 1 ELSE idle
    /\ IF cpConnected' THEN UNCHANGED powerVars ELSE PilotOpens
    /\ UNCHANGED <<hlcVars, dinDoc, tcpState>>

Timer20ms ==
    /\ cpConnected' \in BOOLEAN
    /\ \/ TickIdleTimeout
       \/ TickWatchdog
       \/ TickQuiet
    /\ UNCHANGED <<client, ev, more>>

AuxContactMoves ==
    /\ AuxMoves
    /\ UNCHANGED <<wdVars, hlcVars, dinDoc, linkVars, idle, more, cpConnected,
                   ev>>

-----------------------------------------------------------------------------
Recv ==
    \/ RecvHandshake
    \/ RecvDin
    \/ RecvIso
    \/ RecvIsoFallThrough
    \/ RecvUndecodable
    \/ RecvBadFrame

Next ==
    \/ Recv
    \/ ClientConnects
    \/ ClientCloses
    \/ EvFallsSilent
    \/ Timer20ms
    \/ AuxContactMoves

Spec == Init /\ [][Next]_vars

\* The 20 ms task never stops; nothing is assumed of the vehicle.
FairSpec == Spec /\ WF_vars(Timer20ms)

-----------------------------------------------------------------------------
\* Properties

\* The DC output is enabled only with the contactor commanded and charging
\* flagged, and charging is flagged only in CurrentDemand: no handler,
\* reset or timer leaves DC on behind an open contactor or outside the
\* delivery state.
DcOnlyWhileDelivering ==
    /\ dcEnabled => coil /\ charging
    /\ charging => fsm = "CurrentDemand"

\* Without an auxiliary contact (the default build) the contactor is
\* commanded only in CurrentDemand: every way out of that state opens it.
ContactorOnlyWhileDelivering ==
    ~AuxFitted => (coil => fsm = "CurrentDemand")

\* With no vehicle connected nothing is commanded and no session is open:
\* every way a connection can end goes through the reset.
NoClientNoPower ==
    ~client => ~coil /\ ~dcEnabled /\ ~charging
               /\ fsm = "SupportedAppProtocol"

\* No ISO 15118-2 session runs without its watchdog, although PaymentDetails,
\* later PowerDelivery requests and stale DIN documents do not restart it.
IsoSessionWatched ==
    proto = "Iso2" /\ fsm # "SupportedAppProtocol" => wdActive

\* An ISO contract session that got past authorisation without its
\* PaymentDetails can only have done so on a stale DIN
\* ContractAuthenticationReq: the sequence check of AuthorizationReq itself
\* is never passed.
ContractBypassNeedsStaleDoc ==
    proto = "Iso2" /\ fsm \in Authorised /\ expectDetails
        => dinDoc = "ContractAuthenticationReq"

\* In the step in which the pilot is seen to open, contactor and DC output
\* go off together, whatever the session was doing.
PilotLossCutsPower ==
    [][cpConnected /\ ~cpConnected' => ~coil' /\ ~dcEnabled']_vars

\* An unplugged vehicle may still have power commanded by a PowerDelivery
\* request, but not for long: the 20 ms task takes it away again.
UnpluggedPowerEnds ==
    (~cpConnected /\ (coil \/ dcEnabled))
        ~> (cpConnected \/ (~coil /\ ~dcEnabled))

\* A vehicle that falls silent in an ISO session loses session and power.
SilentIsoSessionEnds ==
    (ev = "silent" /\ proto = "Iso2")
        ~> (fsm = "SupportedAppProtocol" /\ ~dcEnabled)

\* So does one that falls silent, in any session, on an ESTABLISHED
\* transport with the idle timeout armed.
SilentTimedSessionEnds ==
    (ev = "silent" /\ tcpState = "ESTABLISHED" /\ idle # Disarmed)
        ~> (fsm = "SupportedAppProtocol" /\ ~dcEnabled)

\* The session implements the power contract of ChargeSession.
PhaseOf(s) ==
    CASE s = "SupportedAppProtocol" -> "idle"
      [] s \in {"SessionSetup", "ServiceDiscovery", "PaymentSelection"}
            -> "negotiating"
      [] s = "ContractAuthentication" -> "authorising"
      [] s \in {"ChargeParameterDiscovery", "CableCheck", "PreCharge"}
            -> "preparing"
      [] s = "PowerDelivery" -> "ready"
      [] s = "CurrentDemand" -> "delivering"
      [] s = "SessionStop" -> "stopping"

PowerLevel == IF dcEnabled THEN 2 ELSE IF coil THEN 1 ELSE 0

\* Power that was taken away under a session that goes on (pilot lost, charging
\* complete, stopped) comes back only in the handler of a PowerDelivery start:
\* a current demand does not bring it back, nor does any other request, timer
\* or reset.  The DIN document read may be the one of an earlier session.
PowerNeedsRequest ==
    [][PowerLevel' > PowerLevel =>
          \/ DinPowerDeliveryReady(dinDoc')
          \/ proto = "Iso2" /\ IsoPowerDelivery("PowerDeliveryStart")]_vars

Contract == INSTANCE ChargeSession
                WITH phase <- PhaseOf(fsm), level <- PowerLevel

\* Every step of the firmware is a step the contract allows: power rises
\* only on a PowerDelivery request after authorisation and precharge.
ImplementsContract == Contract!CSpec
=============================================================================
