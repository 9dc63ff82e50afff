------------------------- MODULE HlcSession_proofs -------------------------
(***************************************************************************)
(* Proofs about HlcSession, for every value of its constants.              *)
(***************************************************************************)
EXTENDS HlcSession, TLAPS

USE HalAssumption, WdAssumption, IdleAssumption
    DEF HalAssumption, WdAssumption, IdleAssumption

-----------------------------------------------------------------------------
\* What the calls into the hardware layer and the watchdog leave has the
\* right type.

\* dc_enable_output leaves a Boolean and a target in range.
LEMMA DcOutputTyped ==
    ASSUME NEW on \in BOOLEAN, NEW t \in Targets, DcEnableOutput(on, t)
    PROVE  dcEnabled' \in BOOLEAN /\ target' \in Targets
  <1>1. dcEnabled' \in BOOLEAN
    BY DEF DcEnableOutput
  <1>2. target' \in Targets
    BY DEF DcEnableOutput, Targets
  <1> QED
    BY <1>1, <1>2

\* cp_contactor_command leaves Booleans, whatever the contact does.
LEMMA ContactorTyped ==
    ASSUME \/ ContactorOpen
           \/ \E ok \in CloseOutcomes : ContactorClose(ok)
           \/ PowerTypeOK /\ UNCHANGED <<coil, aux>>
    PROVE  coil' \in BOOLEAN /\ aux' \in BOOLEAN
  BY DEF PowerTypeOK, ContactorOpen, ContactorClose, CloseOutcomes

\* Switching all power off keeps the types.
LEMMA PowerOffTyped == PowerOff => PowerTypeOK'
  <1> SUFFICES ASSUME PowerOff PROVE PowerTypeOK'
    OBVIOUS
  <1>1. 0 \in Targets /\ FALSE \in BOOLEAN
    BY DEF Targets
  <1>2. dcEnabled' \in BOOLEAN /\ target' \in Targets
    BY <1>1, DcOutputTyped DEF PowerOff
  <1>3. coil' \in BOOLEAN /\ aux' \in BOOLEAN
    BY ContactorTyped DEF PowerOff
  <1> QED
    BY <1>2, <1>3 DEF PowerTypeOK

\* So does the 20 ms task when the pilot opens.
LEMMA PilotOpensTyped == PowerTypeOK /\ PilotOpens => PowerTypeOK'
  <1> SUFFICES ASSUME PowerTypeOK, PilotOpens PROVE PowerTypeOK'
    OBVIOUS
  <1>1. dcEnabled' \in BOOLEAN /\ target' \in Targets
    <2>1. target \in Targets /\ FALSE \in BOOLEAN
      BY DEF PowerTypeOK
    <2> QED
      BY <2>1, DcOutputTyped DEF PilotOpens
  <1>2. coil' \in BOOLEAN /\ aux' \in BOOLEAN
    BY ContactorTyped DEF PilotOpens
  <1> QED
    BY <1>1, <1>2 DEF PowerTypeOK

\* A step that leaves the power alone keeps its types.
LEMMA PowerKeptTyped ==
    PowerTypeOK /\ UNCHANGED powerVars => PowerTypeOK'
  BY DEF PowerTypeOK, powerVars

\* Every operation of the watchdog keeps its types: the retry count wraps.
LEMMA WatchdogTyped ==
    ASSUME WdTypeOK, WdStart \/ WdClear \/ WdCheck \/ UNCHANGED wdVars
    PROVE  WdTypeOK'
  <1>1. wdActive' \in BOOLEAN
    BY Zenon DEF WdTypeOK, WdStart, WdClear, WdCheck, wdVars
  <1>2. wdAge' \in 0 .. WdTimeout
    BY DEF WdTypeOK, WdStart, WdClear, WdCheck, WdExpired, wdVars
  <1>3. wdRetries' \in 0 .. 255
    BY DEF WdTypeOK, WdStart, WdClear, WdCheck, WdBumped, wdVars
  <1> QED
    BY <1>1, <1>2, <1>3 DEF WdTypeOK

\* The variables of the session itself: TypeOK without the power hardware
\* and the watchdog.
SessionTypeOK ==
    /\ fsm \in States
    /\ proto \in Protocols
    /\ dinDoc \in DinRequests \cup {NoDoc}
    /\ charging \in BOOLEAN
    /\ expectDetails \in BOOLEAN
    /\ detailsDone \in BOOLEAN
    /\ client \in BOOLEAN
    /\ tcpState \in {"CLOSED", "ESTABLISHED"}
    /\ idle \in Disarmed .. IdleTimeout
    /\ more \in BOOLEAN
    /\ cpConnected \in BOOLEAN
    /\ ev \in {"talking", "silent"}

\* TypeOK in the three parts the steps are checked against.
LEMMA TypeParts == TypeOK <=> PowerTypeOK /\ WdTypeOK /\ SessionTypeOK
  BY DEF TypeOK, SessionTypeOK

\* stop_evse_power_output keeps the types of what it writes.
LEMMA StopPowerTyped == StopPower => PowerTypeOK' /\ charging' \in BOOLEAN
  BY PowerOffTyped DEF StopPower

\* resetHlcSession keeps the types of what it writes.
LEMMA ResetTyped ==
    ASSUME TypeOK, ResetHlcState
    PROVE  /\ PowerTypeOK'
           /\ WdTypeOK'
           /\ fsm' \in States
           /\ proto' \in Protocols
           /\ dinDoc' \in DinRequests \cup {NoDoc}
           /\ charging' \in BOOLEAN
           /\ expectDetails' \in BOOLEAN
           /\ detailsDone' \in BOOLEAN
  <1>1. PowerTypeOK' /\ charging' \in BOOLEAN
    BY StopPowerTyped DEF ResetHlcState
  <1>2. WdTypeOK'
    BY WatchdogTyped DEF ResetHlcState, TypeOK
  <1>3. /\ fsm' \in States
        /\ proto' \in Protocols
        /\ dinDoc' \in DinRequests \cup {NoDoc}
    BY DEF ResetHlcState, TypeOK, States, Protocols
  <1>4. expectDetails' \in BOOLEAN /\ detailsDone' \in BOOLEAN
    BY Zenon DEF ResetHlcState
  <1> QED
    BY <1>1, <1>2, <1>3, <1>4

\* The DIN branch, on any document.
LEMMA DinBranchTyped ==
    ASSUME TypeOK, NEW m, DinBranch(m)
    PROVE  /\ PowerTypeOK'
           /\ WdTypeOK'
           /\ fsm' \in States
           /\ charging' \in BOOLEAN
           /\ idle' \in Disarmed .. IdleTimeout
           /\ UNCHANGED <<proto, payVars>>
  <1>1. idle' \in Disarmed .. IdleTimeout
    BY DEF TypeOK, DinBranch, TouchIdle, Disarmed
  <1>2. WdTypeOK'
    BY WatchdogTyped DEF TypeOK, DinBranch
  <1>3. fsm' \in States
    BY DEF TypeOK, States, DinBranch, DinAdvance,
           DinSessionSetup, DinServiceDiscovery, DinPaymentSelection,
           DinContractAuthentication, DinChargeParameterDiscovery,
           DinCableCheck, DinPreCharge, DinPowerDeliveryReady,
           DinPowerDeliveryNotReady, DinCurrentDemand, DinSessionStop,
           DinPowerDeliveryInStop, DinIgnored
  <1>4. PowerTypeOK' /\ charging' \in BOOLEAN
    <2> USE DEF TypeOK
    <2>2. CASE DinPowerDeliveryReady(m)
      <3>1. PICK ok \in CloseOutcomes :
                /\ ContactorClose(ok)
                /\ DcEnableOutput(ok, target)
                /\ charging' = ok
        BY <2>2 DEF DinPowerDeliveryReady
      <3>2. ok \in BOOLEAN /\ target \in Targets
        BY DEF CloseOutcomes, PowerTypeOK
      <3>3. dcEnabled' \in BOOLEAN /\ target' \in Targets
        BY <3>1, <3>2, DcOutputTyped
      <3>4. coil' \in BOOLEAN /\ aux' \in BOOLEAN
        BY <3>1, ContactorTyped
      <3> QED
        BY <3>1, <3>2, <3>3, <3>4 DEF PowerTypeOK
    <2>3. CASE DinPowerDeliveryNotReady(m)
      <3>1. FALSE \in BOOLEAN /\ target \in Targets
        BY DEF PowerTypeOK
      <3>2. dcEnabled' \in BOOLEAN /\ target' \in Targets
        BY <2>3, <3>1, DcOutputTyped DEF DinPowerDeliveryNotReady
      <3>3. coil' \in BOOLEAN /\ aux' \in BOOLEAN
        BY <2>3, ContactorTyped DEF DinPowerDeliveryNotReady
      <3>4. charging' \in BOOLEAN
        BY <2>3, Zenon DEF DinPowerDeliveryNotReady
      <3> QED
        BY <3>2, <3>3, <3>4 DEF PowerTypeOK
    <2>4. CASE DinCurrentDemand(m)
      <3>1. PICK t \in Targets :
                \/ /\ target' = t
                   /\ UNCHANGED <<coil, aux, dcEnabled, charging>>
                \/ /\ charging' = FALSE
                   /\ DcEnableOutput(FALSE, t)
                   /\ ContactorOpen
        BY <2>4 DEF DinCurrentDemand
      <3>2. CASE target' = t /\ UNCHANGED <<coil, aux, dcEnabled, charging>>
        BY <3>2 DEF PowerTypeOK
      <3>3. CASE charging' = FALSE /\ DcEnableOutput(FALSE, t) /\ ContactorOpen
        <4>1. dcEnabled' \in BOOLEAN /\ target' \in Targets
          <5>1. FALSE \in BOOLEAN
            OBVIOUS
          <5> QED
            BY <3>3, <5>1, DcOutputTyped
        <4>2. coil' \in BOOLEAN /\ aux' \in BOOLEAN
          BY <3>3, ContactorTyped
        <4>3. charging' \in BOOLEAN
          BY <3>3, Zenon
        <4> QED
          BY <4>1, <4>2, <4>3 DEF PowerTypeOK
      <3> QED
        BY <3>1, <3>2, <3>3
    <2>5. CASE DinSessionStop(m) \/ DinPowerDeliveryInStop(m)
      <3>1. UNCHANGED powerVars
        BY <2>5 DEF DinSessionStop, DinPowerDeliveryInStop
      <3>2. charging' \in BOOLEAN
        BY <2>5, Zenon DEF DinSessionStop, DinPowerDeliveryInStop
      <3> QED
        BY <3>1, <3>2, PowerKeptTyped
    <2>6. CASE NoPowerChange
      BY <2>6, PowerKeptTyped DEF NoPowerChange
    <2> QED
      BY <2>2, <2>3, <2>4, <2>5, <2>6
         DEF DinBranch, DinAdvance, DinSessionSetup, DinServiceDiscovery,
             DinPaymentSelection, DinContractAuthentication,
             DinChargeParameterDiscovery, DinCableCheck, DinPreCharge,
             DinIgnored
  <1> QED
    BY <1>1, <1>2, <1>3, <1>4 DEF DinBranch

\* iso_process_power_delivery keeps the types of what it writes.
LEMMA IsoProgressTyped ==
    ASSUME PowerTypeOK, NEW m, IsoProgress(m)
    PROVE  PowerTypeOK' /\ charging' \in BOOLEAN /\ fsm' \in States
  <1>1. fsm' \in States
    BY DEF IsoProgress, States
  <1>2. CASE StopPower
    BY <1>1, <1>2, StopPowerTyped
  <1>3. CASE ContactorClose(TRUE) /\ DcEnableOutput(TRUE, target) /\ charging' = TRUE
    <2>1. TRUE \in BOOLEAN /\ TRUE \in CloseOutcomes /\ target \in Targets
      BY DEF CloseOutcomes, PowerTypeOK
    <2>2. dcEnabled' \in BOOLEAN /\ target' \in Targets
      BY <1>3, <2>1, DcOutputTyped
    <2>3. coil' \in BOOLEAN /\ aux' \in BOOLEAN
      BY <1>3, <2>1, ContactorTyped
    <2> QED
      BY <1>1, <1>3, <2>2, <2>3 DEF PowerTypeOK
  <1> QED
    BY <1>2, <1>3 DEF IsoProgress

\* The ISO branch, on any request.
LEMMA IsoBranchTyped ==
    ASSUME TypeOK, NEW m, IsoBranch(m)
    PROVE  /\ PowerTypeOK'
           /\ WdTypeOK'
           /\ fsm' \in States
           /\ charging' \in BOOLEAN
           /\ proto' \in Protocols
           /\ expectDetails' \in BOOLEAN
           /\ detailsDone' \in BOOLEAN
           /\ idle' \in Disarmed .. IdleTimeout
  <1> USE DEF TypeOK
  <1>1. CASE IsoPaymentUnsupported(m)
    BY <1>1, ResetTyped DEF IsoPaymentUnsupported, ResetHlcSession, Disarmed
  <1>2. CASE ~IsoPaymentUnsupported(m)
    <2>1. idle' \in Disarmed .. IdleTimeout /\ proto' = proto
      BY <1>2 DEF IsoBranch, IsoAdvance, IsoSessionSetup,
           IsoServiceDiscovery, IsoPaymentSelection, IsoPaymentDetails,
           IsoAuthorization, IsoChargeParameterDiscovery, IsoCableCheck,
           IsoPreCharge, IsoPowerDelivery, IsoCurrentDemand,
           IsoSessionStop, TouchIdle, Disarmed
    <2>2. WdStart \/ UNCHANGED wdVars
      BY <1>2 DEF IsoBranch, IsoAdvance, IsoSessionSetup,
           IsoServiceDiscovery, IsoPaymentSelection, IsoPaymentDetails,
           IsoAuthorization, IsoChargeParameterDiscovery, IsoCableCheck,
           IsoPreCharge, IsoPowerDelivery, IsoCurrentDemand, IsoSessionStop
    <2>3. WdTypeOK'
      BY <2>2, WatchdogTyped
    <2>4. fsm' \in States /\ expectDetails' \in BOOLEAN /\ detailsDone' \in BOOLEAN
      <3>1. CASE IsoPaymentSelection(m)
        <4>1. expectDetails' \in BOOLEAN /\ detailsDone' \in BOOLEAN
          BY <3>1, Zenon DEF IsoPaymentSelection
        <4> QED
          BY <3>1, <4>1 DEF IsoPaymentSelection, States
      <3>2. CASE IsoPaymentDetails(m)
        <4>1. expectDetails' \in BOOLEAN /\ detailsDone' \in BOOLEAN
          BY <3>2, Zenon DEF IsoPaymentDetails
        <4> QED
          BY <3>2, <4>1 DEF IsoPaymentDetails
      <3>3. CASE IsoPowerDelivery(m)
        BY <3>3, IsoProgressTyped DEF IsoPowerDelivery, payVars
      <3>4. CASE UNCHANGED payVars /\ ~IsoPowerDelivery(m)
        <4>1. fsm' \in States
          BY <1>2, <3>4 DEF IsoBranch, IsoAdvance, IsoSessionSetup,
             IsoServiceDiscovery, IsoPaymentSelection, IsoPaymentDetails,
             IsoAuthorization, IsoChargeParameterDiscovery, IsoCableCheck,
             IsoPreCharge, IsoCurrentDemand, IsoSessionStop, States
        <4> QED
          BY <3>4, <4>1 DEF payVars
      <3> QED
        BY <1>2, <3>1, <3>2, <3>3, <3>4
           DEF IsoBranch, IsoAdvance, IsoSessionSetup,
             IsoServiceDiscovery, IsoAuthorization,
             IsoChargeParameterDiscovery, IsoCableCheck, IsoPreCharge,
             IsoCurrentDemand, IsoSessionStop
    <2>5. PowerTypeOK' /\ charging' \in BOOLEAN
      <3>1. CASE IsoPowerDelivery(m)
        BY <3>1, IsoProgressTyped DEF IsoPowerDelivery
      <3>2. CASE IsoCurrentDemand(m)
        BY <3>2 DEF IsoCurrentDemand, PowerTypeOK
      <3>3. CASE IsoSessionStop(m)
        BY <3>3, StopPowerTyped DEF IsoSessionStop
      <3>4. CASE NoPowerChange
        BY <3>4, PowerKeptTyped DEF NoPowerChange
      <3> QED
        BY <1>2, <3>1, <3>2, <3>3, <3>4
           DEF IsoBranch, IsoAdvance, IsoSessionSetup, IsoServiceDiscovery,
             IsoPaymentSelection, IsoPaymentDetails, IsoAuthorization,
             IsoChargeParameterDiscovery, IsoCableCheck, IsoPreCharge
    <2> QED
      BY <2>1, <2>3, <2>4, <2>5
  <1> QED
    BY <1>1, <1>2

-----------------------------------------------------------------------------
\* Type correctness: no sequence of frames, connections, timer periods and
\* pilot edges takes a variable out of its range.
THEOREM TypeCorrect == Spec => []TypeOK
  <1>1. Init => TypeOK
    <2> SUFFICES ASSUME Init PROVE TypeOK
      OBVIOUS
    <2>1. PowerTypeOK
      <3>1. coil \in BOOLEAN /\ aux \in BOOLEAN /\ dcEnabled \in BOOLEAN
        BY Zenon DEF Init, PowerInit
      <3> QED
        BY <3>1 DEF Init, PowerInit, PowerTypeOK, Targets
    <2>2. WdTypeOK
      <3>1. wdActive \in BOOLEAN
        BY Zenon DEF Init, WdInit
      <3> QED
        BY <3>1 DEF Init, WdInit, WdTypeOK
    <2>3. SessionTypeOK
      <3>1. /\ charging \in BOOLEAN
            /\ expectDetails \in BOOLEAN
            /\ detailsDone \in BOOLEAN
            /\ client \in BOOLEAN
            /\ more \in BOOLEAN
            /\ cpConnected \in BOOLEAN
        BY Zenon DEF Init
      <3> QED
        BY <3>1 DEF Init, SessionTypeOK, States, Protocols, Disarmed
    <2> QED
      BY <2>1, <2>2, <2>3, TypeParts
  <1>2. TypeOK /\ [Next]_vars => TypeOK'
    <2> SUFFICES ASSUME TypeOK, [Next]_vars PROVE TypeOK'
      OBVIOUS
    <2>0. PowerTypeOK /\ WdTypeOK /\ SessionTypeOK
      BY TypeParts
    <2> SUFFICES PowerTypeOK' /\ WdTypeOK' /\ SessionTypeOK'
      BY TypeParts, PTL
    <2>1. CASE RecvHandshake
      <3>1. PowerTypeOK' /\ charging' \in BOOLEAN
        BY <2>0, <2>1, PowerKeptTyped
           DEF RecvHandshake, NoPowerChange, SessionTypeOK
      <3>2. WdTypeOK'
        BY <2>0, <2>1, WatchdogTyped DEF RecvHandshake
      <3>3. proto' \in Protocols
        BY <2>1 DEF RecvHandshake
      <3> QED
        BY <2>0, <2>1, <3>1, <3>2, <3>3
           DEF RecvHandshake, Heard, Frame, TouchIdle, linkVars, payVars,
               SessionTypeOK, States, Disarmed
    <2>2. CASE RecvDin
      <3>1. PICK m \in DinRequests : dinDoc' = m /\ DinBranch(m)
        BY <2>2 DEF RecvDin
      <3> QED
        BY <2>0, <2>2, <3>1, DinBranchTyped
           DEF RecvDin, Heard, Frame, linkVars, payVars, SessionTypeOK
    <2>3. CASE RecvIso
      <3>1. PICK m \in IsoRequests : IsoBranch(m)
        BY <2>3 DEF RecvIso
      <3> QED
        BY <2>0, <2>3, <3>1, IsoBranchTyped
           DEF RecvIso, Heard, Frame, linkVars, SessionTypeOK
    <2>4. CASE RecvIsoFallThrough
      <3>1. DinBranch(dinDoc)
        BY <2>4 DEF RecvIsoFallThrough
      <3> QED
        BY <2>0, <2>4, <3>1, DinBranchTyped
           DEF RecvIsoFallThrough, Heard, Frame, linkVars, payVars,
               SessionTypeOK
    <2>5. CASE RecvUndecodable
      <3>1. PowerTypeOK' /\ WdTypeOK'
        BY <2>0, <2>5, PowerKeptTyped, WatchdogTyped DEF RecvUndecodable
      <3> QED
        BY <2>0, <2>5, <3>1
           DEF RecvUndecodable, Heard, Frame, TouchIdle, linkVars, hlcVars,
               payVars, SessionTypeOK, Disarmed
    <2>6. CASE RecvBadFrame
      BY <2>0, <2>6, ResetTyped
         DEF RecvBadFrame, ResetHlcSession, Heard, Frame, linkVars,
             SessionTypeOK, Disarmed
    <2>7. CASE ClientConnects
      <3>1. client' \in BOOLEAN
        BY <2>7, Zenon DEF ClientConnects
      <3> QED
        BY <2>0, <2>7, <3>1, ResetTyped
           DEF ClientConnects, SessionTypeOK, Disarmed
    <2>8. CASE ClientCloses
      <3>1. client' \in BOOLEAN
        BY <2>8, Zenon DEF ClientCloses
      <3> QED
        BY <2>0, <2>8, <3>1, ResetTyped
           DEF ClientCloses, ResetHlcSession, SessionTypeOK, Disarmed
    <2>9. CASE EvFallsSilent
      BY <2>0, <2>9, PowerKeptTyped, WatchdogTyped
         DEF EvFallsSilent, hlcVars, payVars, linkVars, SessionTypeOK
    <2>10. CASE Timer20ms
      <3>1. CASE TickIdleTimeout \/ TickWatchdog
        BY <2>0, <2>10, <3>1, ResetTyped
           DEF Timer20ms, TickIdleTimeout, TickWatchdog, ResetHlcSession,
               SessionTypeOK, Disarmed
      <3>2. CASE TickQuiet
        <4>1. PowerTypeOK' /\ WdTypeOK'
          BY <2>0, <3>2, PowerKeptTyped, PilotOpensTyped, WatchdogTyped
             DEF TickQuiet
        <4>2. idle' \in Disarmed .. IdleTimeout
          BY <2>0, <3>2 DEF TickQuiet, IdleExpired, Disarmed, SessionTypeOK
        <4> QED
          BY <2>0, <2>10, <3>2, <4>1, <4>2
             DEF Timer20ms, TickQuiet, hlcVars, payVars, SessionTypeOK
      <3> QED
        BY <2>10, <3>1, <3>2 DEF Timer20ms
    <2>11. CASE AuxContactMoves
      <3>1. PowerTypeOK'
        <4>1. aux' \in BOOLEAN
          BY <2>11 DEF AuxContactMoves, AuxMoves
        <4> QED
          BY <2>0, <2>11, <4>1 DEF AuxContactMoves, AuxMoves, PowerTypeOK
      <3> QED
        BY <2>0, <2>11, <3>1, WatchdogTyped
           DEF AuxContactMoves, hlcVars, payVars, linkVars, SessionTypeOK
    <2>12. CASE UNCHANGED vars
      BY <2>0, <2>12, PowerKeptTyped, WatchdogTyped
         DEF vars, hlcVars, payVars, linkVars, SessionTypeOK
    <2> QED
      BY <2>1, <2>2, <2>3, <2>4, <2>5, <2>6, <2>7, <2>8, <2>9, <2>10, <2>11,
         <2>12 DEF Next, Recv
  <1> QED
    BY <1>1, <1>2, PTL DEF Spec

-----------------------------------------------------------------------------
\* Power.

\* After a reset nothing is commanded and the session is closed.
LEMMA ResetIsOff ==
    ASSUME ResetHlcState
    PROVE  /\ ~coil' /\ ~dcEnabled' /\ ~charging' /\ ~expectDetails'
           /\ fsm' = "SupportedAppProtocol" /\ proto' = "Din"
  BY DEF ResetHlcState, StopPower, PowerOff, ContactorOpen, DcEnableOutput

\* The DC output is on only under a commanded contactor, in CurrentDemand,
\* whatever the vehicle sends and whenever the 20 ms task runs.
THEOREM DcOnlyWhileDeliveringHolds == Spec => []DcOnlyWhileDelivering
  <1>1. Init => DcOnlyWhileDelivering
    BY DEF Init, PowerInit, DcOnlyWhileDelivering
  <1>2. DcOnlyWhileDelivering /\ [Next]_vars => DcOnlyWhileDelivering'
    <2> SUFFICES ASSUME DcOnlyWhileDelivering, [Next]_vars
                 PROVE  DcOnlyWhileDelivering'
      OBVIOUS
    <2> USE DEF DcOnlyWhileDelivering
    <2>1. ASSUME NEW m, DinBranch(m) PROVE DcOnlyWhileDelivering'
      <3>1. CASE DinPowerDeliveryReady(m)
        <4>1. PICK ok \in BOOLEAN :
                  /\ coil' = TRUE
                  /\ dcEnabled' = (ok /\ CanOk)
                  /\ charging' = ok
                  /\ fsm' = IF ok THEN "CurrentDemand" ELSE "SessionStop"
          BY <3>1 DEF DinPowerDeliveryReady, ContactorClose, DcEnableOutput,
                      CloseOutcomes
        <4>2. CASE ok = TRUE
          BY <4>1, <4>2
        <4>3. CASE ok = FALSE
          BY <4>1, <4>3
        <4> QED
          BY <4>2, <4>3
      <3>2. CASE DinPowerDeliveryNotReady(m)
        BY <3>2 DEF DinPowerDeliveryNotReady, DcEnableOutput
      <3>3. CASE DinCurrentDemand(m)
        <4>1. UNCHANGED fsm
          BY <3>3 DEF DinCurrentDemand
        <4>2. PICK t \in Targets :
                  \/ UNCHANGED <<coil, aux, dcEnabled, charging>>
                  \/ charging' = FALSE /\ DcEnableOutput(FALSE, t)
          BY <3>3 DEF DinCurrentDemand
        <4>3. CASE UNCHANGED <<coil, aux, dcEnabled, charging>>
          BY <4>1, <4>3
        <4>4. CASE charging' = FALSE /\ DcEnableOutput(FALSE, t)
          BY <4>4 DEF DcEnableOutput
        <4> QED
          BY <4>2, <4>3, <4>4
      <3>4. CASE DinSessionStop(m)
        BY <3>4 DEF DinSessionStop, powerVars
      <3>5. CASE DinPowerDeliveryInStop(m)
        BY <3>5 DEF DinPowerDeliveryInStop, powerVars
      <3>6. CASE NoPowerChange /\ (fsm' = fsm \/ fsm # "CurrentDemand")
        BY <3>6 DEF NoPowerChange, powerVars
      <3> QED
        BY <2>1, <3>1, <3>2, <3>3, <3>4, <3>5, <3>6
           DEF DinBranch, DinAdvance, DinSessionSetup, DinServiceDiscovery,
               DinPaymentSelection, DinContractAuthentication,
               DinChargeParameterDiscovery, DinCableCheck, DinPreCharge,
               DinIgnored
    <2>2. CASE RecvDin
      BY <2>1, <2>2 DEF RecvDin
    <2>3. CASE RecvIsoFallThrough
      BY <2>1, <2>3 DEF RecvIsoFallThrough
    <2>4. CASE RecvIso
      <3>1. PICK m \in IsoRequests : IsoBranch(m)
        BY <2>4 DEF RecvIso
      <3>2. CASE IsoPowerDelivery(m)
        BY <3>2 DEF IsoPowerDelivery, IsoProgress, StopPower, PowerOff,
                    ContactorClose, ContactorOpen, DcEnableOutput
      <3>3. CASE IsoCurrentDemand(m)
        BY <3>3 DEF IsoCurrentDemand
      <3>4. CASE IsoSessionStop(m)
        BY <3>4 DEF IsoSessionStop, StopPower, PowerOff, DcEnableOutput
      <3>5. CASE IsoPaymentUnsupported(m)
        BY <3>5, ResetIsOff DEF IsoPaymentUnsupported, ResetHlcSession
      <3>6. CASE NoPowerChange /\ (fsm' = fsm \/ fsm # "CurrentDemand")
        BY <3>6 DEF NoPowerChange, powerVars
      <3> QED
        BY <3>1, <3>2, <3>3, <3>4, <3>5, <3>6
           DEF IsoBranch, IsoAdvance, IsoSessionSetup, IsoServiceDiscovery,
               IsoPaymentSelection, IsoPaymentDetails, IsoAuthorization,
               IsoChargeParameterDiscovery, IsoCableCheck, IsoPreCharge
    <2>5. CASE RecvHandshake
      BY <2>5 DEF RecvHandshake, NoPowerChange, powerVars
    <2>6. CASE RecvUndecodable \/ EvFallsSilent
      BY <2>6 DEF RecvUndecodable, EvFallsSilent, hlcVars, powerVars
    <2>7. CASE RecvBadFrame \/ ClientConnects \/ ClientCloses
      BY <2>7, ResetIsOff
         DEF RecvBadFrame, ClientConnects, ClientCloses, ResetHlcSession
    <2>8. CASE Timer20ms
      <3>1. CASE TickIdleTimeout \/ TickWatchdog
        BY <3>1, ResetIsOff DEF TickIdleTimeout, TickWatchdog, ResetHlcSession
      <3>2. CASE TickQuiet
        BY <3>2 DEF TickQuiet, PilotOpens, DcEnableOutput, powerVars, hlcVars
      <3> QED
        BY <2>8, <3>1, <3>2 DEF Timer20ms
    <2>9. CASE AuxContactMoves \/ UNCHANGED vars
      BY <2>9 DEF AuxContactMoves, AuxMoves, vars, powerVars, hlcVars
    <2> QED
      BY <2>2, <2>3, <2>4, <2>5, <2>6, <2>7, <2>8, <2>9 DEF Next, Recv
  <1> QED
    BY <1>1, <1>2, PTL DEF Spec

\* Without an auxiliary contact the contactor is commanded only in
\* CurrentDemand.
THEOREM ContactorOnlyWhileDeliveringHolds ==
    Spec => []ContactorOnlyWhileDelivering
  <1>1. Init => ContactorOnlyWhileDelivering
    BY DEF Init, PowerInit, ContactorOnlyWhileDelivering
  <1>2. ContactorOnlyWhileDelivering /\ [Next]_vars
            => ContactorOnlyWhileDelivering'
    <2> SUFFICES ASSUME ContactorOnlyWhileDelivering, [Next]_vars
                 PROVE  ContactorOnlyWhileDelivering'
      OBVIOUS
    <2> USE DEF ContactorOnlyWhileDelivering
    <2>1. ASSUME NEW m, DinBranch(m) PROVE ContactorOnlyWhileDelivering'
      <3>1. CASE DinPowerDeliveryReady(m)
        BY <3>1 DEF DinPowerDeliveryReady, CloseOutcomes
      <3>2. CASE DinPowerDeliveryNotReady(m)
        BY <3>2 DEF DinPowerDeliveryNotReady, ContactorOpen
      <3>3. CASE DinCurrentDemand(m)
        BY <3>3 DEF DinCurrentDemand
      <3>4. CASE UNCHANGED powerVars /\ (fsm' = fsm \/ fsm # "CurrentDemand")
        BY <3>4 DEF powerVars
      <3> QED
        BY <2>1, <3>1, <3>2, <3>3, <3>4
           DEF DinBranch, DinAdvance, DinSessionSetup, DinServiceDiscovery,
               DinPaymentSelection, DinContractAuthentication,
               DinChargeParameterDiscovery, DinCableCheck, DinPreCharge,
               DinSessionStop, DinPowerDeliveryInStop, DinIgnored,
               NoPowerChange
    <2>2. CASE RecvDin
      BY <2>1, <2>2 DEF RecvDin
    <2>3. CASE RecvIsoFallThrough
      BY <2>1, <2>3 DEF RecvIsoFallThrough
    <2>4. CASE RecvIso
      <3>1. PICK m \in IsoRequests : IsoBranch(m)
        BY <2>4 DEF RecvIso
      <3>2. CASE IsoPowerDelivery(m)
        BY <3>2 DEF IsoPowerDelivery, IsoProgress, StopPower, PowerOff,
                    ContactorOpen
      <3>3. CASE IsoCurrentDemand(m)
        BY <3>3 DEF IsoCurrentDemand
      <3>4. CASE IsoSessionStop(m)
        BY <3>4 DEF IsoSessionStop, StopPower, PowerOff, ContactorOpen
      <3>5. CASE IsoPaymentUnsupported(m)
        BY <3>5, ResetIsOff DEF IsoPaymentUnsupported, ResetHlcSession
      <3>6. CASE NoPowerChange /\ (fsm' = fsm \/ fsm # "CurrentDemand")
        BY <3>6 DEF NoPowerChange, powerVars
      <3> QED
        BY <3>1, <3>2, <3>3, <3>4, <3>5, <3>6
           DEF IsoBranch, IsoAdvance, IsoSessionSetup, IsoServiceDiscovery,
               IsoPaymentSelection, IsoPaymentDetails, IsoAuthorization,
               IsoChargeParameterDiscovery, IsoCableCheck, IsoPreCharge
    <2>5. CASE RecvHandshake
      BY <2>5 DEF RecvHandshake, NoPowerChange, powerVars
    <2>6. CASE RecvUndecodable \/ EvFallsSilent
      BY <2>6 DEF RecvUndecodable, EvFallsSilent, hlcVars, powerVars
    <2>7. CASE RecvBadFrame \/ ClientConnects \/ ClientCloses
      BY <2>7, ResetIsOff
         DEF RecvBadFrame, ClientConnects, ClientCloses, ResetHlcSession
    <2>8. CASE Timer20ms
      <3>1. CASE TickIdleTimeout \/ TickWatchdog
        BY <3>1, ResetIsOff DEF TickIdleTimeout, TickWatchdog, ResetHlcSession
      <3>2. CASE TickQuiet
        BY <3>2 DEF TickQuiet, PilotOpens, ContactorOpen, powerVars, hlcVars
      <3> QED
        BY <2>8, <3>1, <3>2 DEF Timer20ms
    <2>9. CASE AuxContactMoves \/ UNCHANGED vars
      BY <2>9 DEF AuxContactMoves, AuxMoves, vars, powerVars, hlcVars
    <2> QED
      BY <2>2, <2>3, <2>4, <2>5, <2>6, <2>7, <2>8, <2>9 DEF Next, Recv
  <1> QED
    BY <1>1, <1>2, PTL DEF Spec

\* The step in which the pilot is seen to open takes contactor and output
\* away.
THEOREM PilotLossCutsPowerHolds == Spec => PilotLossCutsPower
  <1>1. [Next]_vars
            => [cpConnected /\ ~cpConnected' => ~coil' /\ ~dcEnabled']_vars
    <2> SUFFICES ASSUME Next, cpConnected, ~cpConnected'
                 PROVE  ~coil' /\ ~dcEnabled'
      OBVIOUS
    <2>1. Timer20ms
      BY DEF Next, Recv, RecvHandshake, RecvDin, RecvIso,
             RecvIsoFallThrough, RecvUndecodable, RecvBadFrame, Heard, Frame,
             ClientConnects, ClientCloses, EvFallsSilent, AuxContactMoves
    <2>2. CASE TickIdleTimeout \/ TickWatchdog
      BY <2>2, ResetIsOff DEF TickIdleTimeout, TickWatchdog, ResetHlcSession
    <2>3. CASE TickQuiet
      BY <2>3 DEF TickQuiet, PilotOpens, ContactorOpen, DcEnableOutput
    <2> QED
      BY <2>1, <2>2, <2>3 DEF Timer20ms
  <1> QED
    BY <1>1, PTL DEF Spec, PilotLossCutsPower

\* Coil and output go on only in the handler of a PowerDelivery start.
THEOREM PowerNeedsRequestHolds == Spec => PowerNeedsRequest
  <1> DEFINE Asked == \/ DinPowerDeliveryReady(dinDoc')
                      \/ proto = "Iso2" /\ IsoPowerDelivery("PowerDeliveryStart")
             Falls == (coil' => coil) /\ (dcEnabled' => dcEnabled)
  <1>1. ASSUME TypeOK, TypeOK', DcOnlyWhileDelivering, DcOnlyWhileDelivering',
               Next, PowerLevel' > PowerLevel
        PROVE  Asked
    <2>1. ~Falls
      BY <1>1 DEF PowerLevel, DcOnlyWhileDelivering
    <2>2. ASSUME NEW m, DinBranch(m) PROVE DinPowerDeliveryReady(m)
      <3>1. CASE DinPowerDeliveryNotReady(m)
        BY <2>1, <3>1 DEF DinPowerDeliveryNotReady, DcEnableOutput, ContactorOpen
      <3>2. CASE DinCurrentDemand(m)
        <4>1. \/ UNCHANGED <<coil, dcEnabled>>
              \/ ~coil' /\ ~dcEnabled'
          BY <3>2 DEF DinCurrentDemand, DcEnableOutput, ContactorOpen
        <4> QED
          BY <2>1, <4>1
      <3>3. ~UNCHANGED powerVars
        BY <2>1 DEF powerVars
      <3> QED
        BY <2>2, <3>1, <3>2, <3>3
           DEF DinBranch, DinAdvance, DinSessionSetup, DinServiceDiscovery,
               DinPaymentSelection, DinContractAuthentication,
               DinChargeParameterDiscovery, DinCableCheck, DinPreCharge,
               DinSessionStop, DinPowerDeliveryInStop, DinIgnored, NoPowerChange
    <2>3. CASE RecvDin
      BY <2>2, <2>3 DEF RecvDin
    <2>4. CASE RecvIsoFallThrough
      <3>1. DinPowerDeliveryReady(dinDoc)
        BY <2>2, <2>4 DEF RecvIsoFallThrough
      <3> QED
        BY <2>4, <3>1 DEF RecvIsoFallThrough
    <2>5. CASE RecvIso
      <3>1. PICK m \in IsoRequests : IsoBranch(m)
        BY <2>5 DEF RecvIso
      <3>2. ~UNCHANGED powerVars /\ ~StopPower
        BY <2>1 DEF powerVars, StopPower, PowerOff, DcEnableOutput, ContactorOpen
      <3>3. CASE IsoPowerDelivery(m)
        <4>1. m = "PowerDeliveryStart"
          BY <3>2, <3>3 DEF IsoPowerDelivery, IsoProgress
        <4> QED
          BY <2>5, <3>3, <4>1 DEF RecvIso
      <3>4. CASE IsoCurrentDemand(m)
        BY <2>1, <3>4 DEF IsoCurrentDemand
      <3>5. CASE IsoPaymentUnsupported(m)
        BY <2>1, <3>5, ResetIsOff DEF IsoPaymentUnsupported, ResetHlcSession
      <3> QED
        BY <3>1, <3>2, <3>3, <3>4, <3>5
           DEF IsoBranch, IsoAdvance, IsoSessionSetup, IsoServiceDiscovery,
               IsoPaymentSelection, IsoPaymentDetails, IsoAuthorization,
               IsoChargeParameterDiscovery, IsoCableCheck, IsoPreCharge,
               IsoSessionStop, NoPowerChange
    <2>6. ~ResetHlcState
      BY <2>1, ResetIsOff
    <2>7. ~TickQuiet
      BY <2>1 DEF TickQuiet, PilotOpens, ContactorOpen, DcEnableOutput, powerVars
    <2>8. ~UNCHANGED <<coil, dcEnabled>>
      BY <2>1
    <2> QED
      BY <1>1, <2>3, <2>4, <2>5, <2>6, <2>7, <2>8
         DEF Next, Recv, RecvHandshake, RecvUndecodable, RecvBadFrame,
             ClientConnects, ClientCloses, EvFallsSilent, Timer20ms,
             TickIdleTimeout, TickWatchdog, AuxContactMoves, AuxMoves,
             ResetHlcSession, NoPowerChange, powerVars
  <1>2. TypeOK /\ TypeOK' /\ DcOnlyWhileDelivering /\ DcOnlyWhileDelivering'
            /\ [Next]_vars => [PowerLevel' > PowerLevel => Asked]_vars
    BY <1>1
  <1> QED
    BY <1>2, TypeCorrect, DcOnlyWhileDeliveringHolds, PTL
       DEF Spec, PowerNeedsRequest

\* No connection, no session and no power.
THEOREM NoClientNoPowerHolds == Spec => []NoClientNoPower
  <1>1. Init => NoClientNoPower
    BY DEF Init, PowerInit, NoClientNoPower
  <1>2. NoClientNoPower /\ [Next]_vars => NoClientNoPower'
    <2> SUFFICES ASSUME NoClientNoPower, [Next]_vars, ~client'
                 PROVE  /\ ~coil' /\ ~dcEnabled' /\ ~charging'
                        /\ fsm' = "SupportedAppProtocol"
      BY DEF NoClientNoPower
    <2>1. CASE Recv
      BY <2>1 DEF Recv, RecvHandshake, RecvDin, RecvIso, RecvIsoFallThrough,
                  RecvUndecodable, RecvBadFrame, Heard, Frame, linkVars
    <2>2. CASE ClientConnects \/ ClientCloses
      BY <2>2, ResetIsOff DEF ClientConnects, ClientCloses, ResetHlcSession
    <2>3. CASE EvFallsSilent
      BY <2>3 DEF EvFallsSilent, linkVars
    <2>4. CASE Timer20ms
      <3>1. CASE TickIdleTimeout \/ TickWatchdog
        BY <3>1, ResetIsOff DEF TickIdleTimeout, TickWatchdog, ResetHlcSession
      <3>2. CASE TickQuiet
        BY <2>4, <3>2 DEF Timer20ms, TickQuiet, PilotOpens, ContactorOpen,
                          DcEnableOutput, powerVars, hlcVars, NoClientNoPower
      <3> QED
        BY <2>4, <3>1, <3>2 DEF Timer20ms
    <2>5. CASE AuxContactMoves \/ UNCHANGED vars
      BY <2>5 DEF AuxContactMoves, AuxMoves, vars, powerVars, hlcVars,
                  linkVars, NoClientNoPower
    <2> QED
      BY <2>1, <2>2, <2>3, <2>4, <2>5 DEF Next
  <1> QED
    BY <1>1, <1>2, PTL DEF Spec

-----------------------------------------------------------------------------
\* Supervision and order of an ISO 15118-2 session.

\* An ISO session is never without its watchdog.
THEOREM IsoSessionWatchedHolds == Spec => []IsoSessionWatched
  <1>1. Init => IsoSessionWatched
    BY DEF Init, IsoSessionWatched
  <1>2. IsoSessionWatched /\ [Next]_vars => IsoSessionWatched'
    <2> SUFFICES ASSUME IsoSessionWatched, [Next]_vars
                 PROVE  IsoSessionWatched'
      OBVIOUS
    <2> USE DEF IsoSessionWatched
    <2>1. CASE RecvHandshake
      <3>1. PICK offered \in SUBSET Protocols : \E last \in offered :
                /\ proto' = last
                /\ IF "Iso2" \in offered THEN WdStart ELSE UNCHANGED wdVars
        BY <2>1 DEF RecvHandshake
      <3> QED
        BY <3>1 DEF WdStart
    <2>2. CASE RecvDin
      BY <2>2 DEF RecvDin, DinBranch
    <2>3. CASE RecvIsoFallThrough
      BY <2>3 DEF RecvIsoFallThrough, DinBranch, wdVars
    <2>4. CASE RecvIso
      <3>1. PICK m \in IsoRequests : IsoBranch(m)
        BY <2>4 DEF RecvIso
      <3>2. CASE IsoPaymentUnsupported(m)
        BY <3>2, ResetIsOff DEF IsoPaymentUnsupported, ResetHlcSession
      <3>3. CASE ~IsoPaymentUnsupported(m)
        BY <2>4, <3>1, <3>3
           DEF RecvIso, IsoBranch, IsoAdvance, IsoSessionSetup,
               IsoServiceDiscovery, IsoPaymentSelection, IsoPaymentDetails,
               IsoAuthorization, IsoChargeParameterDiscovery, IsoCableCheck,
               IsoPreCharge, IsoPowerDelivery, IsoCurrentDemand,
               IsoSessionStop, WdStart, wdVars
      <3> QED
        BY <3>2, <3>3
    <2>5. CASE RecvUndecodable \/ EvFallsSilent
      BY <2>5 DEF RecvUndecodable, EvFallsSilent, hlcVars, wdVars
    <2>6. CASE RecvBadFrame \/ ClientConnects \/ ClientCloses
      BY <2>6, ResetIsOff
         DEF RecvBadFrame, ClientConnects, ClientCloses, ResetHlcSession
    <2>7. CASE Timer20ms
      <3>1. CASE TickIdleTimeout \/ TickWatchdog
        BY <3>1, ResetIsOff DEF TickIdleTimeout, TickWatchdog, ResetHlcSession
      <3>2. CASE TickQuiet
        <4>1. UNCHANGED <<wdActive, fsm, proto>>
          BY <3>2, Zenon DEF TickQuiet, WdCheck, hlcVars
        <4> QED
          BY <4>1
      <3> QED
        BY <2>7, <3>1, <3>2 DEF Timer20ms
    <2>8. CASE AuxContactMoves \/ UNCHANGED vars
      BY <2>8 DEF AuxContactMoves, vars, hlcVars, wdVars
    <2> QED
      BY <2>1, <2>2, <2>3, <2>4, <2>5, <2>6, <2>7, <2>8 DEF Next, Recv
  <1> QED
    BY <1>1, <1>2, PTL DEF Spec

\* ContractBypassNeedsStaleDoc is not inductive: the guard of
\* AuthorizationReq reads both payment flags, so the proof needs that they
\* are never set together.
PaymentInv ==
    /\ ~(expectDetails /\ detailsDone)
    /\ ContractBypassNeedsStaleDoc

\* A contract can get past authorisation without its PaymentDetails only on
\* a stale DIN document.
THEOREM ContractBypassHolds == Spec => []ContractBypassNeedsStaleDoc
  <1>1. Init => PaymentInv
    BY DEF Init, PaymentInv, ContractBypassNeedsStaleDoc
  <1>2. PaymentInv /\ [Next]_vars => PaymentInv'
    <2> SUFFICES ASSUME PaymentInv, [Next]_vars PROVE PaymentInv'
      OBVIOUS
    <2> USE DEF PaymentInv, ContractBypassNeedsStaleDoc, Authorised
    <2>1. CASE RecvHandshake
      BY <2>1 DEF RecvHandshake, payVars
    <2>2. CASE RecvDin
      BY <2>2 DEF RecvDin, DinBranch, payVars
    <2>3. CASE RecvIsoFallThrough
      <3>1. DinBranch(dinDoc) /\ UNCHANGED <<proto, payVars, dinDoc>>
        BY <2>3 DEF RecvIsoFallThrough, DinBranch
      <3>2. fsm' \in Authorised =>
                fsm \in Authorised \/ dinDoc = "ContractAuthenticationReq"
        BY <3>1
           DEF DinBranch, DinAdvance, DinSessionSetup, DinServiceDiscovery,
               DinPaymentSelection, DinContractAuthentication,
               DinChargeParameterDiscovery, DinCableCheck, DinPreCharge,
               DinPowerDeliveryReady, DinPowerDeliveryNotReady,
               DinCurrentDemand, DinSessionStop, DinPowerDeliveryInStop,
               DinIgnored
      <3> QED
        BY <3>1, <3>2 DEF payVars
    <2>4. CASE RecvIso
      <3>1. PICK m \in IsoRequests : IsoBranch(m)
        BY <2>4 DEF RecvIso
      <3>2. UNCHANGED dinDoc
        BY <2>4 DEF RecvIso
      <3>3. CASE IsoPaymentUnsupported(m)
        BY <3>3, ResetIsOff DEF IsoPaymentUnsupported, ResetHlcSession
      <3>4. CASE IsoPaymentSelection(m)
        BY <3>4 DEF IsoPaymentSelection
      <3>5. CASE IsoPaymentDetails(m)
        BY <3>5 DEF IsoPaymentDetails
      <3>6. CASE IsoAuthorization(m)
        BY <3>2, <3>6 DEF IsoAuthorization, payVars
      <3>7. CASE IsoPowerDelivery(m)
        BY <3>2, <3>7 DEF IsoPowerDelivery, payVars
      <3>8. CASE IsoCurrentDemand(m) \/ IsoSessionStop(m)
        BY <3>2, <3>8 DEF IsoCurrentDemand, IsoSessionStop, payVars
      <3>9. CASE \/ IsoSessionSetup(m)
                 \/ IsoServiceDiscovery(m)
                 \/ IsoChargeParameterDiscovery(m)
                 \/ IsoCableCheck(m)
                 \/ IsoPreCharge(m)
        BY <3>2, <3>9
           DEF IsoAdvance, IsoSessionSetup, IsoServiceDiscovery,
               IsoChargeParameterDiscovery, IsoCableCheck, IsoPreCharge,
               payVars
      <3> QED
        BY <3>1, <3>3, <3>4, <3>5, <3>6, <3>7, <3>8, <3>9 DEF IsoBranch
    <2>5. CASE RecvUndecodable
      BY <2>5 DEF RecvUndecodable, hlcVars, payVars
    <2>6. CASE RecvBadFrame \/ ClientConnects \/ ClientCloses
      BY <2>6, ResetIsOff
         DEF RecvBadFrame, ClientConnects, ClientCloses, ResetHlcSession
    <2>7. CASE Timer20ms
      <3>1. CASE TickIdleTimeout \/ TickWatchdog
        BY <3>1, ResetIsOff DEF TickIdleTimeout, TickWatchdog, ResetHlcSession
      <3>2. CASE TickQuiet
        BY <3>2 DEF TickQuiet, hlcVars, payVars
      <3> QED
        BY <2>7, <3>1, <3>2 DEF Timer20ms
    <2>8. CASE EvFallsSilent \/ AuxContactMoves \/ UNCHANGED vars
      BY <2>8 DEF EvFallsSilent, AuxContactMoves, vars, hlcVars, payVars
    <2> QED
      BY <2>1, <2>2, <2>3, <2>4, <2>5, <2>6, <2>7, <2>8 DEF Next, Recv
  <1>3. PaymentInv => ContractBypassNeedsStaleDoc
    BY DEF PaymentInv
  <1> QED
    BY <1>1, <1>2, <1>3, PTL DEF Spec

-----------------------------------------------------------------------------
\* The session implements the power contract of ChargeSession.

\* The transitions of fsmState.
Follows(s, t) ==
    \/ t \in {s, "SupportedAppProtocol"}
    \/ s = "SupportedAppProtocol" /\ t = "SessionSetup"
    \/ s = "SessionSetup" /\ t = "ServiceDiscovery"
    \/ s = "ServiceDiscovery" /\ t = "PaymentSelection"
    \/ s = "PaymentSelection" /\ t = "ContractAuthentication"
    \/ s = "ContractAuthentication" /\ t = "ChargeParameterDiscovery"
    \/ s = "ChargeParameterDiscovery" /\ t = "CableCheck"
    \/ s = "CableCheck" /\ t = "PreCharge"
    \/ s = "PreCharge" /\ t = "PowerDelivery"
    \/ /\ s \in {"PowerDelivery", "CurrentDemand", "SessionStop"}
       /\ t \in {"CurrentDemand", "SessionStop", "ChargeParameterDiscovery"}

\* What follows a state keeps its phase, moves it onward or ends the session.
LEMMA PhaseFollows ==
    ASSUME NEW s \in States, NEW t \in States, Follows(s, t)
    PROVE  PhaseOf(t) \in {PhaseOf(s), "idle"}
                              \cup Contract!Onward(PhaseOf(s))
  BY DEF Follows, States, PhaseOf, Contract!Onward

\* Phase and level are all the contract sees: a step that keeps to the order
\* of the states and raises neither contactor nor output is a Proceed.
LEMMA StepProceeds ==
    ASSUME TypeOK, TypeOK', DcOnlyWhileDelivering, DcOnlyWhileDelivering',
           Follows(fsm, fsm'), coil' => coil, dcEnabled' => dcEnabled
    PROVE  Contract!Proceed
  <1>1. fsm \in States /\ fsm' \in States
    BY DEF TypeOK
  <1>2. Contract!Moves
    BY <1>1, PhaseFollows DEF Contract!Moves, Follows
  <1>3. /\ PowerLevel' \in Contract!Levels
        /\ PowerLevel' <= PowerLevel
    BY DEF PowerLevel, Contract!Levels, DcOnlyWhileDelivering
  <1>4. PowerLevel' = 2 => PhaseOf(fsm)' = "delivering"
    BY DEF PowerLevel, DcOnlyWhileDelivering, PhaseOf
  <1> QED
    BY <1>2, <1>3, <1>4 DEF Contract!Proceed

\* A step of the power delivery states is a StartDelivery, whatever it does
\* to the power.
LEMMA StepStarts ==
    ASSUME TypeOK, TypeOK', DcOnlyWhileDelivering, DcOnlyWhileDelivering',
           fsm \in {"PowerDelivery", "CurrentDemand", "SessionStop"},
           fsm' \in {"CurrentDemand", "SessionStop"}
    PROVE  Contract!StartDelivery
  <1>1. PowerLevel' \in Contract!Levels
    BY DEF PowerLevel, Contract!Levels
  <1>2. PowerLevel' = 2 => PhaseOf(fsm)' = "delivering"
    BY DEF PowerLevel, DcOnlyWhileDelivering, PhaseOf
  <1>3. /\ PhaseOf(fsm) \in {"ready", "delivering", "stopping"}
        /\ PhaseOf(fsm)' \in {"delivering", "stopping"}
    BY DEF PhaseOf
  <1> QED
    BY <1>1, <1>2, <1>3 DEF Contract!StartDelivery

\* Every DIN handler is a step of the contract, on any document ...
LEMMA DinBranchMaps ==
    ASSUME TypeOK, TypeOK', DcOnlyWhileDelivering, DcOnlyWhileDelivering',
           NEW m, DinBranch(m)
    PROVE  Contract!CNext
  <1>1. CASE \/ DinPowerDeliveryReady(m)
             \/ DinPowerDeliveryNotReady(m)
             \/ DinPowerDeliveryInStop(m)
    <2>1. /\ fsm \in {"PowerDelivery", "CurrentDemand", "SessionStop"}
          /\ fsm' \in {"CurrentDemand", "SessionStop"}
      BY <1>1 DEF DinPowerDeliveryReady, DinPowerDeliveryNotReady,
                  DinPowerDeliveryInStop
    <2> QED
      BY <2>1, StepStarts DEF Contract!CNext
  <1>2. CASE DinCurrentDemand(m)
    <2>1. /\ fsm \in {"PowerDelivery", "CurrentDemand", "SessionStop"}
          /\ fsm' \in {"CurrentDemand", "SessionStop"}
      BY <1>2 DEF DinCurrentDemand
    <2> QED
      BY <2>1, StepStarts DEF Contract!CNext
  <1>3. CASE UNCHANGED powerVars /\ Follows(fsm, fsm')
    BY <1>3, StepProceeds DEF powerVars, Contract!CNext
  <1> QED
    BY <1>1, <1>2, <1>3
       DEF DinBranch, DinAdvance, DinSessionSetup, DinServiceDiscovery,
           DinPaymentSelection, DinContractAuthentication,
           DinChargeParameterDiscovery, DinCableCheck, DinPreCharge,
           DinSessionStop, DinIgnored, NoPowerChange, Follows

\* ... and so is every ISO handler.
LEMMA IsoBranchMaps ==
    ASSUME TypeOK, TypeOK', DcOnlyWhileDelivering, DcOnlyWhileDelivering',
           NEW m, IsoBranch(m)
    PROVE  Contract!CNext
  <1>1. CASE IsoPowerDelivery(m)
    <2>1. CASE fsm' \in {"CurrentDemand", "SessionStop"}
      BY <1>1, <2>1, StepStarts DEF IsoPowerDelivery, Contract!CNext
    <2>2. CASE fsm' = "ChargeParameterDiscovery" /\ StopPower
      <3>1. ~coil' /\ ~dcEnabled'
        BY <2>2 DEF StopPower, PowerOff, ContactorOpen, DcEnableOutput
      <3>2. Follows(fsm, fsm')
        BY <1>1, <2>2 DEF IsoPowerDelivery, Follows
      <3> QED
        BY <3>1, <3>2, StepProceeds DEF Contract!CNext
    <2> QED
      BY <1>1, <2>1, <2>2 DEF IsoPowerDelivery, IsoProgress
  <1>2. CASE IsoCurrentDemand(m)
    BY <1>2, StepStarts DEF IsoCurrentDemand, Contract!CNext
  <1>3. CASE IsoSessionStop(m)
    <2>1. ~coil' /\ ~dcEnabled'
      BY <1>3 DEF IsoSessionStop, StopPower, PowerOff, ContactorOpen,
                  DcEnableOutput
    <2>2. Follows(fsm, fsm')
      BY <1>3 DEF IsoSessionStop, Follows
    <2> QED
      BY <2>1, <2>2, StepProceeds DEF Contract!CNext
  <1>4. CASE IsoPaymentUnsupported(m)
    <2>1. ~coil' /\ ~dcEnabled' /\ Follows(fsm, fsm')
      BY <1>4, ResetIsOff DEF IsoPaymentUnsupported, ResetHlcSession, Follows
    <2> QED
      BY <2>1, StepProceeds DEF Contract!CNext
  <1>5. CASE UNCHANGED powerVars /\ Follows(fsm, fsm')
    BY <1>5, StepProceeds DEF powerVars, Contract!CNext
  <1> QED
    BY <1>1, <1>2, <1>3, <1>4, <1>5
       DEF IsoBranch, IsoAdvance, IsoSessionSetup, IsoServiceDiscovery,
           IsoPaymentSelection, IsoPaymentDetails, IsoAuthorization,
           IsoChargeParameterDiscovery, IsoCableCheck, IsoPreCharge,
           NoPowerChange, Follows

\* HlcSession implements ChargeSession: what the handlers, resets and timers
\* of decodeV2GTP and tcp_tick do to phase and power is what a charging
\* session may do.
THEOREM ContractImplemented == Spec => ImplementsContract
  <1>1. Init => Contract!CInit
    BY DEF Init, PowerInit, Contract!CInit, PhaseOf, PowerLevel
  <1>2. ASSUME TypeOK, TypeOK', DcOnlyWhileDelivering,
               DcOnlyWhileDelivering', [Next]_vars
        PROVE  [Contract!CNext]_<<PhaseOf(fsm), PowerLevel>>
    <2>1. CASE RecvHandshake
      <3>1. UNCHANGED powerVars /\ Follows(fsm, fsm')
        BY <2>1 DEF RecvHandshake, NoPowerChange, Follows
      <3> QED
        BY <1>2, <3>1, StepProceeds DEF powerVars, Contract!CNext
    <2>2. CASE RecvDin \/ RecvIsoFallThrough
      BY <1>2, <2>2, DinBranchMaps DEF RecvDin, RecvIsoFallThrough
    <2>3. CASE RecvIso
      BY <1>2, <2>3, IsoBranchMaps DEF RecvIso
    <2>4. CASE ResetHlcState
      <3>1. ~coil' /\ ~dcEnabled' /\ Follows(fsm, fsm')
        BY <2>4, ResetIsOff DEF Follows
      <3> QED
        BY <1>2, <3>1, StepProceeds DEF Contract!CNext
    <2>5. CASE UNCHANGED <<fsm, coil, dcEnabled>>
      BY <2>5 DEF PowerLevel, PhaseOf
    <2>6. CASE TickQuiet
      <3>1. /\ Follows(fsm, fsm')
            /\ coil' => coil
            /\ dcEnabled' => dcEnabled
        BY <2>6 DEF TickQuiet, PilotOpens, ContactorOpen, DcEnableOutput,
                    hlcVars, powerVars, Follows
      <3> QED
        BY <1>2, <3>1, StepProceeds DEF Contract!CNext
    <2> QED
      BY <1>2, <2>1, <2>2, <2>3, <2>4, <2>5, <2>6
         DEF Next, Recv, RecvUndecodable, RecvBadFrame, ClientConnects,
             ClientCloses, EvFallsSilent, Timer20ms, TickIdleTimeout,
             TickWatchdog, AuxContactMoves, AuxMoves, ResetHlcSession,
             vars, hlcVars, powerVars
  <1> QED
    BY <1>1, <1>2, TypeCorrect, DcOnlyWhileDeliveringHolds, PTL
       DEF Spec, ImplementsContract, Contract!CSpec
=============================================================================
