# Formal model of the ESP32 CCS2 charger firmware

TLA+ specifications of the firmware's control logic, the TLC runs that check
them on small instances, and TLAPS proofs of their main properties for every
value of the constants. Paths are relative to the repository root; line numbers
are those of the modelled commit.

Contents: [inventory](#1-inventory), [modules](#2-modules-and-how-they-correspond-to-the-code),
[runs](#3-runs), [departures](#4-where-the-code-departs-from-its-documents),
[bounds](#5-bounds), [fairness](#6-fairness), [proofs](#7-proofs),
[what is left out](#8-what-is-not-modelled), [plan and its state](#9-plan).

## 1. Inventory

The firmware runs on FreeRTOS. Four kinds of tasks share global variables
without locks:

* `Timer20ms` (priority 1, `src/main.cpp:652`): samples the pilot, ramps the DC
  output, drives the modem and SLAC, runs all timeouts;
* the plain TCP server (`src/tcp_socket_server.cpp:36`), the TLS server
  (`src/tls_server.cpp:79`), both priority 5, and the SDP server (priority 4,
  `src/sdp_server.cpp`): receive from lwIP, run the charging protocol;
* `loop()` of the Arduino core: command line, JSON diagnostics, ISO 15118-20;
* lwIP's own task.

| Component | State | Operations | Hard to get right |
| --- | --- | --- | --- |
| HLC session, `src/tcp.cpp` | `fsmState`, `g_hlc_protocol`, payment flags, `chargingActive`, the last decoded documents, idle time | one handler per request and state for DIN 70121 and ISO 15118-2 (`decodeV2GTP`), `resetHlcSession`, transport calls, `tcp_tick` | requests in any order, stale documents, resets between frames, three timeouts, contactor failures, power left on |
| ISO watchdog, `src/iso_watchdog.cpp` | armed state, start, retry count | configure, start, clear, check | who arms it, what clears the count |
| SLAC and modem task, `src/main.cpp` | `modem_state`, counters, four timers, pending key rotation | start-up, `SlacManager`, timers, failure, rotation | any frame at any time, two vehicles, lost answers, retry budget, key handed to the right vehicle |
| Control pilot and contactor, `src/cp_control.cpp` | ring of bursts, hysteresis run, state, PWM, coil | `cp_tick`, `cp_contactor_command` | noise against delay; contactor off whenever the vehicle is gone |
| DC modules, `src/dc_can.cpp` | targets, setpoints, output flag, module table | ramp, poll, enable, targets | two tasks on the same variables; last command must win |
| V2GTP framing, `src/tcp.cpp:569` | receive buffer, 8-bit count | append, split | coalesced and partial frames, width of the count, a header that lies about its length, resets between segments |
| Legacy TCP, `src/tcp.cpp:1599` | state, sequence numbers, the payload waiting for its acknowledgement, timers | segment handling, retransmit, give up | lost and repeated segments, late acknowledgements, every way a connection ends |
| IPv6/UDP/SDP, `src/ipv6.cpp`, `src/sdp_server.cpp` | security, port and vehicle address of the selected endpoint | request, answer | two tasks handle each request over the same variables |
| lwIP bridge, `src/lwip_bridge.cpp` | the shared `txbuffer` | in, out | both stacks see every frame |
| Socket servers, `src/tcp_socket_server.cpp`, `src/tls_server.cpp` | one client each, one send callback, one session | accept, serve, close | two servers, one session, each end unregisters the other's callback |
| TLS credentials and PKI store, `src/tls_credentials.cpp`, `src/pki_store.cpp` | cached and stored certificate, key, CA | load, keep, store, reload | a command between the two halves of a load; store closed when read |
| CLI and diagnostics authentication, `src/main.cpp:849`, `src/diag_auth.cpp` | line buffer, end of the window | attempt, check, revoke, pki set and get | 32-bit clock, lines longer than the buffer |
| ISO 15118-20 controller, `src/iso15118_dc.cpp` | controller, event queue, four states | init, loop, callbacks | the callback for limits calls back |

How they interact: `Timer20ms` calls `cp_tick`, `dc_can_tick`, `SlacManager`,
`tcp_tick`; it opens the contactor and disables DC when the pilot is not
connected. Socket tasks call `tcp_process_socket_payload`, which calls
`decodeV2GTP`, which calls `cp_contactor_command`, `dc_set_targets`,
`dc_enable_output` and the watchdog. `tcp_tick` calls `resetHlcSession`, which
calls the same power functions from the other task. Every IPv6 frame goes to
lwIP, whose sockets the three server tasks read, and then to the firmware's own
IPv6 code (`src/main.cpp:728-731`), which answers SDP and, on the plain port,
feeds the same session.

What makes each component correct:

* session: power rises only on a PowerDelivery request after authorisation and
  precharge; every other event lowers it; sessions of vehicles that left or fell
  silent end; payment order is kept; every ISO session is watched;
* SLAC: phases in order, one vehicle from request to link, the linked vehicle
  holds the key in use, every measurement ends;
* pilot: a fault is noticed in bounded time, noise does not end a session;
* DC: setpoints follow the targets, rise no faster than the ramp, and a switch-off
  leaves nothing on, but for what a ramp brings back that overlapped it;
* framing: the decoder gets the frames of the stream, however it is cut;
* legacy TCP: answers belong to their requests, no session without connection, no
  wait for ever;
* servers: a vehicle finds nothing of the one before, and gets its own answers;
* SDP: an answer fits its request, the endpoint left behind fits the last one, as
  far as the shared variables let a task tell its request from the other's;
* switching tasks: at rest, coil, flag, output and session state agree;
* provisioning: the store changes only under a token, the TLS server serves what
  was stored.

The hazards, each at its line with the properties that cover it, are listed in
`PROJECT.json`.

## 2. Modules and how they correspond to the code

| Module | Models |
| --- | --- |
| `ChargeSession` | abstract: what the charger promises about power, in phases |
| `PowerHal` | contactor and DC output as the protocol sees them (operators, no behaviour of its own) |
| `IsoWatchdog` | `iso_watchdog.cpp` (operators) |
| `HlcSession` | `tcp.cpp` session, extends the two above, implements `ChargeSession` |
| `SlacContract` | abstract: what pairing promises |
| `Slac` | `main.cpp` modem and SLAC, implements `SlacContract` |
| `ControlPilot` | `cp_control.cpp` |
| `DcModules` | `dc_can.cpp` setpoints, the 20 ms task and socket tasks, access by access |
| `V2gtpFraming` | `tcp.cpp:569-617`, the byte counts of the receive buffer |
| `LegacyTcp` | `tcp.cpp:634-703` and `1466-1703`, and the vehicle's TCP |
| `SocketServers` | both server tasks, statement by statement |
| `Sdp` | `ipv6.cpp:289-382`, `sdp_server.cpp`, statement by statement |
| `HlcTasks` | the power statements of `tcp.cpp`, `main.cpp`, `cp_control.cpp`, two tasks |
| `Provisioning` | `diag_auth.cpp`, the CLI of `main.cpp`, `pki_store.cpp`, `tls_credentials.cpp` |
| `Iso20` | `iso15118_dc.cpp`, `tbd_controller.cpp`: the start-up |
| `HlcSession_proofs`, `Slac_proofs`, `ControlPilot_proofs`, `DcModules_proofs`, `V2gtpFraming_proofs`, `Provisioning_proofs` | theorems about the module of that name |
| `Servers_proofs` | theorems about `SocketServers` |
| `Network_proofs` | theorems about `Sdp` and `LegacyTcp`, the discovery and the TCP on raw frames |

`HlcSession` is the centre: the other modules open up what it takes for one step
or one event. `V2gtpFraming` has the bytes of its frames, `HlcTasks` the
statements of its handlers, `SocketServers` and `LegacyTcp` the two transports
under it. They are modules of their own because their state multiplies: each
keeps of the session only what it needs (started or not, delivering or not).

### HlcSession

One action per handler of a state, one per protocol: `DinSessionSetup` ...
`DinPowerDeliveryInStop`, `IsoSessionSetup` ... `IsoSessionStop`. A received
frame is one step of `Recv`:

* `RecvHandshake`: supportedAppProtocolReq. The loop over the schemas answers and
  selects every schema it knows in turn, so the set offered and the last of it
  matter;
* `RecvDin`, `RecvIso`: a decoded request that a handler takes. DIN handlers act
  on `dinDocDec` (`dinDoc`), which no reset clears;
* `RecvIsoFallThrough`: an ISO request the ISO block of the state does not return
  from runs on into the DIN block of that state, which looks at the document
  decoded last, maybe by another session;
* `RecvUndecodable`, `RecvBadFrame`: EXI error; bad header, type or length.

`more` is TRUE while the segment holds another frame: `tcp_process_socket_payload`
restarts the idle timer once per segment, so a frame after one that reset the
session is handled with the idle timeout disarmed (`tcpLastActivity = 0`).
`Timer20ms` is one period of the 20 ms task: pilot, `TickIdleTimeout`,
`TickWatchdog`, `TickQuiet`. `ClientConnects` and `ClientCloses` are the accept
and the end of the receive loop of the socket server, with the calls in their
order. `EvFallsSilent`: the vehicle sends nothing any more and does not close, so
`recv` blocks for good. The vehicle is arbitrary: any request at any time.

A request is a member of a small set, split where a field decides what the
handler does. Voltages and currents are one scale `0..MaxTarget`. Handler and
tick are atomic; `HlcTasks` splits them.

The power part: `cp_contactor_command(true)` may succeed or, with an auxiliary
contact, fail (coil left energised, as in the code); `dc_enable_output(false)`
clears the targets only when the output was on; `AuxContactMoves` lets the
contact bounce, weld or drop by itself.

### Slac

`pc` is where the 20 ms task stands in an iteration: `start` (pilot and the
switch over `modem_state`), `poll` (frames of one burst), `timers`, and `spin`
(the burst loop it cannot leave). One action per case of the switch, per
management message, per timer. Every timer action ends with `RotateKey`, the
rotation at the end of the iteration. `SetupEnds` is the last statement of
`setup()`, which writes `MODEM_POWERUP` after the task has been running for a
while. `holders` is a history variable: who has been sent the current NMK in a
CM_SLAC_MATCH.CNF.

Each timer is set on entry to the state it times and only read there, so one
`age`, counted in iterations, stands for the four time stamps. Averages and
frame contents are abstracted to the vehicle (MAC and run id) they belong to.
The local modem answers CM_SET_KEY.REQ at most once per request; its answer may
be late or lost. Left out because nothing reads them: `ReceivedSounds`,
`slacRetryCounter`.

### ControlPilot

A burst is two levels: plateau (mean of the highest samples) and peak. A level is
the band of the state the voltage means, 0 for F up to 5 for A, so the maximum of
voltages has the maximum of the levels. `CpTick` is `cp_tick` with ring,
hysteresis of state B, duty and contactor supervision.

### DcModules

A step is one read or one write of a shared variable, by the 20 ms task or by one of
any number of socket tasks. `dc_ramp_tick` is a chain of them: `RampBegin` and
`RampPrev` read the setpoints into `prevV` and `prevI`, `RampFlag` and `RampGoal`
read flag and target for each of voltage and current, `RampLoad` and `RampStore` are
the two halves of `g_dc_v_set = approach(g_dc_v_set, ...)` and of the statement for
the current after it, `RampCompare` decides whether `RampSend` sends a frame. Where
the compiler may use a value it has read before, both are possible.
`dc_enable_output(false)` is `DisableOutput` (the test of its first line),
`SwitchOff`, `ClearTargets`, `ClearSetpoints` and `SendOff`, the two in the middle
once for each component. `on` says whether the last CMD_ALLSET frame said ON.
`overtaken` is a history variable: a ramp was under way when the last switch-off
began, or began during it.

### V2gtpFraming

A byte is its position in the connection's stream, so the model can say which
bytes the buffer holds. `Receive` is the first half of `tcp_bufferPayload`
(overflow check, copy, 8-bit count), `LoopStep` one turn of its loop:
`NoHeaderYet`, `WaitForMore`, `Refuse`, `Deliver`. When the buffer does not begin
with a frame (after a reset in the middle of one, or once the count has
overflowed) the eight bytes at its front may be read as any header. `damage` says
whether either has happened. A reset inside `decodeV2GTP` does not empty the
buffer, as the count is assigned afterwards (`tcp.cpp:615`); `Deliver` is therefore
the same with and without.

### LegacyTcp

`Rst`, `Syn`, `HandshakeAck`, `Ack`, `Data`, `TooLarge`, `Fin` are the branches of
`evaluateTcpPacket` in its order; `Retransmit`, `GiveUp`, `Quiet` and `Watchdog`
those of `tcp_tick`. `Data` includes the acknowledgement, the handler's answer
(`tcp_transmit`) or its absence, and the look at the ACK flag after it. Each
request and response is one unit of sequence space. The other end is an ordinary
TCP, external, as is the line, which is FIFO and loses frames; repetitions come
from the retransmissions of either side.

### SocketServers

`plainPc` and `tlsPc` name the statement a server is at. lwIP is what accepts,
queues and ends connections (external). `FrameArrives` gives each frame of a plain
connection to lwIP and to the firmware's own TCP. `mixed` is TRUE from the moment
both servers are busy until both are idle: in between one ends the session and
the callback of the other.

### Sdp

Each access of `handleSdpRequestBuffer` to a shared variable is a step:
`StoreReqSecurity` and `StoreReqTransport` store what the request asks for in
`DiscoveryReqSecurity` and `DiscoveryReqTransportProtocol`, `ReadTransport`,
`ReadTls` and `ReadPlain` read it back for the decision, then the endpoint is stored
(`StoreSecurity`, `StorePort`, `StoreAddress`) and the answer reads that again. What
is read back is either what the task stored (the compiler may keep it) or what the
variable holds, which may be the other task's. A request refused has already written
the first two. Three history variables: `disturbed` marks the handling of a request
during which the other task wrote for a different one, or for one it had misread;
`accepted` is the latest request accepted by either task, and `misread` says that a
task took that one for another's.

### HlcTasks

`todo[t]` holds the statements task `t` has still to do. The handlers are reduced to
what they do to power, to `fsmState`, to the feedback and to the timers: the
handshake, the requests up to PowerDelivery, the starts (`contactor on`, then
`Delivers` or `Refuses` once it is known whether the contactor follows), stops,
renegotiation, ChargingComplete, SessionStop, the state changes without a command
(DIN in SessionStop), and the reset. `handler` names the branch of a start, as they
differ in what follows it: ISO writes the state and, the first time, arms the
watchdog; DIN writes the state in PowerDelivery and, in CurrentDemand, only when the
contactor does not follow. The feedback is the flag, as in the default build, which
is why a command of the other task between `g_contactor_cmd = on` and the feedback
makes a start fail; the responses read it too (`report`). `aged` is TRUE while the
20 ms task is in a `delay(20)` that began before the request at work arrived; it
tells which of two delays must end first (section 6). `overtaken` is a history
variable: a reset by the 20 ms task overtook a DIN start in CurrentDemand. The module
has no constants and no bounds: the run covers all its states.

### Provisioning

One command line is one step of the CLI; a credential is loaded by the TLS task in
two (`Reads`, `Keeps`), so that a command may come between. `now` is true time,
`millis` the clock modulo `ClockRange`. A long value is one whose command does not
fit the 1024 characters of the CLI's buffer.

### Iso20

`stack` is the call stack of the main task; each step is a call or a return.

## 3. Runs

| Run | Question | Result |
| --- | --- | --- |
| `hlc` | default build: power, payment, watchdog, silent and unplugged vehicles | all hold |
| `hlc_aux` | build with an auxiliary contact, first watchdog expiry fatal | all hold |
| `slac` | two vehicles, any frames | all hold |
| `control_pilot` | every sequence of bursts | all hold |
| `dc` | the 20 ms task and two socket tasks on the setpoints, 1,132,888 states | all hold |
| `framing` | every cut of a stream into segments, 610,884 states | all hold |
| `legacy_tcp` | lossy line, retransmissions, two connections, 151,525 states | all hold |
| `servers` | two servers and the 20 ms task, 638,651 states | all hold |
| `sdp` | two tasks on one endpoint, 9,530,898 states | all hold |
| `tasks` | handlers and 20 ms task mixed, 137,688 states, which are all there are | all hold |
| `provisioning` | commands, clock, restarts, loading, 556,102 states | all hold |
| `iso20` | does the default build reach its main loop | violated, section 4 |

What the properties say:

* `DcOnlyWhileDelivering`: DC output on implies contactor commanded and charging
  flagged, and that only in CurrentDemand.
* `ContactorOnlyWhileDelivering`: without an auxiliary contact the contactor is
  commanded in CurrentDemand only. With one it is not so: after a start that is
  not confirmed, DIN goes to SessionStop with the coil energised
  (`src/tcp.cpp:1244-1269`), which `hlc_aux` allows.
* `NoClientNoPower`: every way a connection ends goes through the reset.
* `IsoSessionWatched`: no ISO session without its watchdog, although PaymentDetails,
  later PowerDelivery requests and stale documents do not restart it.
* `ContractBypassNeedsStaleDoc`: the check in AuthorizationReq is never passed
  without PaymentDetails; the only way around it is the DIN block.
* `PilotLossCutsPower`, `UnpluggedPowerEnds`: the step that sees the pilot open
  takes the power away, and power commanded later is taken away again.
* `SilentIsoSessionEnds`, `SilentTimedSessionEnds`: silent vehicles lose session
  and power. A silent DIN vehicle whose idle timeout was disarmed by a reset
  inside its last segment has no session left except what later frames of that
  segment opened, and that session is not timed: hence the second property's
  precondition.
* `PowerNeedsRequest`: power that was taken away under a session that goes on comes
  back only in the handler of a PowerDelivery start, ISO or DIN (the DIN document
  may be a stale one); a current demand does not bring it back.
* `ImplementsContract` (HLC): every step of the firmware is a step of
  `ChargeSession` under the mapping of states to phases and of contactor and
  output to a power level.
* `AttemptsBounded`, `SoundsPending`, `LinkedPeerHoldsKey`, `MeasuringEnds`,
  `ImplementsContract` (SLAC): retry budget shared by timeouts and invalid
  responses; no measurement complete before its first profile; the vehicle of the
  link holds the key; every measurement ends whatever the vehicle does.
* `FaultSeen`: a pilot in E or F is noticed within the longer of ring and
  hysteresis, so the two delays do not add up (24 bursts, about half a second).
  `DropNeedsEvidence`: a vehicle is taken for gone only on a burst in A or a whole
  ring below D. `SettledVehicleConnects`: a vehicle that settles gets its PWM.
* `SetpointsSettle`: however the tasks interleave, the setpoints come to where they
  belong once the tasks leave targets and output alone. `RiseIsRamped`: they rise by
  at most a step at a time; a ramp that overlapped a switch-off may bring one back,
  to at most a step above what it was when the ramp began. `OffIsOff`: a switch-off
  that no ramp overlapped leaves the modules told OFF and both setpoints at 0.
* `BufferIsTail`: until the count overflows the buffer is the tail of the stream.
  `SplitsLikeReference`: on an undisturbed connection the decoder is given exactly
  the frames that have arrived. `HandedInOrder`: after a reset in the middle of a
  frame and after an overflow, too, no frame is decoded twice or late.
  `LoopEnds`: the loop ends, unless a header makes the frame length zero.
* `ReplyAnswersRequest`: the k-th response a vehicle takes answers its k-th
  request, although a retransmitted request is handled again. `SessionNeedsConnection`,
  `PendingReplyResolved`: no session and no retransmission outlives the connection.
* `NothingLeftBehind`: when neither server has a vehicle, callback, sockets and
  session are clear, whatever the two did to each other. `ServedVehicleIsAnswered`:
  a server alone since both were idle answers its own vehicle.
* `OwnAnswer`: a request that no different one disturbed gets the address, security
  and port that belong to it, and only if it asked for TCP and for TLS or plain.
  `SettledEndpoint`: once both tasks have handled every request, security and port
  belong together and are those of the latest request accepted, unless a task took
  that one for another's; the address is that of the latest request, accepted or
  not.
* `RestingPowerDelivers`: when both tasks are at rest, the flag agrees with the
  coil and there is power only in the state that delivers, so the resets and pilot
  losses that hit a handler half-way leave nothing on, with the one exception of
  section 4 (`overtaken`). `UnpluggedPowerGoes`: an unplugged vehicle loses coil and
  output again whatever the handlers do, and for good once no handler begins.
* `GuardedStore`: writing and reading out need a token accepted since the restart,
  inside its window. `ServesTheStore`: the TLS server's certificate, key and CA are
  each what the store held when it was read, unless it was closed then.

Every property has a mutant of a mapped definition, listed in `PROJECT.json`: a
plausible bug under which TLC finds the property violated in the same run.

## 4. Where the code departs from its documents

One of them is a run; the others were met while modelling and are part of the
passing models, which do what the code does.

Run `iso20`, `LoopRuns` (`src/iso15118_dc.cpp:97`, `tbd_controller.cpp:31`): the
limits callback calls `update_dc_limits`, which calls the callback.
`docs/CCS2_DC_Integration_Plan.md:89` says `iso20_loop()` runs in the default build;
`setup()` never gets past `iso20_init`, and the panic restarts the firmware. All
other modules describe the build in which `setup()` ends (`ISO20_ENABLE=0`), and,
for the tasks started before `iso20_init`, the time until the panic.

Session:

* a vehicle that offers ISO-2 first and DIN second arms the watchdog and then runs
  DIN, whose handlers never restart it (`src/tcp.cpp:772-796`; `README.md:145`: the
  settings "control ISO-2 timeout behavior");
* each watchdog timeout's reset clears the retry count, so with three retries
  `Fatal` is not reached (`src/tcp.cpp:671-673`; plan, line 113: "tear down the
  transport path when retries are exhausted");
* the DIN block authorises an ISO contract on a stale DIN document
  (`src/tcp.cpp:1052`), against the check at line 1039;
* a DIN start in SessionStop is answered OK and commands nothing
  (`src/tcp.cpp:1447-1459`; plan, line 107: "close main contactors");
* with an auxiliary contact a refused DIN start leaves the coil energised until the
  pilot opens or the session is reset.

SLAC and modem:

* a burst without a frame header is never left (`src/main.cpp:740-750`, comment at
  648: "called every 20ms");
* a second vehicle that asks for pairing before the key rotates is given the first
  one's key (`src/main.cpp:521`, comment at 73: a random key "on each session").

DC output and contactor:

* a ramp that overlaps a switch-off undoes part of it (`src/dc_can.cpp:158-184`
  against 238-244; plan, line 109: "safe shutdown"): a frame sent after the OFF
  command switches the modules on again, and a setpoint stored after it was cleared
  is back near its old value. Later rounds of the ramp take the setpoint down, and
  each of their frames says ON; nothing tells the modules OFF again until the next
  switch-off;
* a reset by `tcp_tick` inside a handler is overridden by the rest of the handler:
  power may come on after it, and then belongs to a session in CurrentDemand whose
  timers are armed again. A DIN start in CurrentDemand (`src/tcp.cpp:1334-1361`) does
  not write the state, so after it power may stay on in the state of no session,
  until the pilot opens, the socket ends, or another session stops (`overtaken`);
* a task held up between `g_contactor_cmd = on` and the assignment of the feedback
  for longer than the other task's `delay(20)` would end with a flag that
  contradicts the coil, and so would one whose delay outlasts a whole request and
  a later `delay(20)` of the other; `DelayOver` assumes neither (section 6);
* `CONTACTOR_COIL_PIN` and `CAN_SCK_PIN` have the same default, 7.

Framing and TCP:

* frames of more than 255 bytes are never decoded, although the window offers 1000
  (`src/tcp.cpp:68`: "number of octets we are able to receive"): the count wraps;
* a payload length near 2^32 makes the frame length small or zero; zero never
  leaves the loop (`src/tcp.cpp:592`);
* a timeout between two segments of a frame empties the buffer, and the rest of the
  frame is taken for a header;
* the legacy TCP never repeats its SYN-ACK and ignores a repeated SYN; it checks
  neither source port nor sequence number, so a retransmitted request is handled
  again; in ESTABLISHED with the idle timer disarmed it ignores further SYNs until
  a segment arms the timer again;
* the idle timeout compares a clock read earlier with a stamp that may be later,
  and then expires at once.

Servers, SDP:

* requests on a plain connection are handled twice, once from the socket and once
  from the raw frame (plan, line 54: "retire `evaluateTcpPacket`");
* any TLS connection, also one whose handshake fails, resets the session of the
  plain client and unregisters its callback (plan, line 97: "prevent crosstalk");
* the idle timeout ends the session but not the socket;
* two different requests handled at the same time may be answered with a security
  and a port that do not belong together. What a request asks for is itself shared
  (`src/ipv6.cpp:291-300`): a request may be refused for the other's transport,
  answered with TLS although it asked for plain, or accepted for what the other asked
  (plan, line 97: "to prevent crosstalk"). A datagram lwIP loses may leave the older
  endpoint.

Provisioning:

* new credentials are not used before a restart: the TLS configuration is built
  once. `README.md:135` says "Credentials hot-reload automatically for new TLS
  sessions", the plan's line 62 the same; `src/main.cpp:1035` says "Restart TLS
  sessions to apply";
* a command between the two halves of a load is forgotten (the flag is set after it
  was cleared), and certificate and key may come from two sets;
* half a turn of the clock after its end, a window is open again; an end that falls
  on 0 opens none;
* a text command longer than 1024 characters is cut and the rest is stored; a JSON
  one falls through to "Unknown command".

## 5. Bounds

| Constant | Code | Runs | Why enough |
| --- | --- | --- | --- |
| `WdTimeout`, `IdleTimeout` | 4000 ms, 5000 ms | 1, 2 periods | only the order of expiries matters; idle longer than watchdog as in the code; both may also be disarmed |
| `WdMaxRetries` | 3 | 3 (`hlc`), 1 (`hlc_aux`) | 1 makes `Fatal` reachable, 3 is the code's |
| `MaxTarget` | volts, amps | 1 | handlers only tell no target from some |
| `AuxFitted` | build option | FALSE, TRUE | both builds |
| `CanOk` | set in `dc_can_init` | TRUE | without CAN the output is never on; the proofs cover both |
| `Pevs` | any | 2 | one vehicle taking over from another |
| `MaxSounds` | 20 | 2 | requests of 0, 1, 2 and 3: below, inside, at and over the clamp |
| `MaxAttempts` | 3 | 3 | the code's |
| `InvalidThreshold` | 3 | 3 | the code's |
| windows of `Slac` | 0.2-26 s | 1, 1, 2, 1 iterations | a timer that has not expired, and one that has |
| `RingLen`, `DemoteBursts`, `RunCap` | 24, 18, 1000 | 3, 2, 4 | ring longer than hysteresis as in the code, cap above both |
| `Sockets` | plain and TLS server | 2 | the two tasks of the code; the theorems hold for any number |
| `Volts`, `Amps`, `StepV`, `StepI`, `Threshold` | floats, 5 V, 2 A, 0.5 | {0,1,2,4}, {0,2}, 3, 3, 1 | targets below, at and above the threshold and a step; partial and whole steps |
| `Header`, `Width`, `BufLen`, `LenWidth` | 8, 256, 1000, 2^32 | 2, 8, 12, 32 | same order: a frame below the width, one between width and buffer, one beyond the buffer (30 + 2 wraps to 0, 31 + 2 to 1) |
| `MaxSegment`, `MaxFrames`, `MaxStream` | 1000, any | 14, 3, 15 | a segment longer than the buffer; three frames cut anywhere, whole and cut headers |
| `MaxRetransmit`, `RtxTicks`, `IdleTicks` | 3, 1 s, 5 s | 1, 1, 5 | limit reached before the idle timeout, as in the code |
| `MaxConns`, `MaxRequests`, `PeerTries`, `Channel` | - | 2, 2, 1, 2 | a second connection over what the first left on the line; two responses to confuse |
| `PlainConns`, `TlsConns`, `MaxSent`, `MaxWire` | - | two, one, 1, 1 | a successor on one server, a competitor on the other |
| `Sources`, `Securities`, `Transports`, `MaxDatagrams` | any, any byte, any byte, - | 2, {TLS, plain}, {TCP, UDP}, 3 | an older, a newer and a refused request under way at once; an unknown security is refused as another transport is |
| `ClockRange`, `Window`, `MaxUptime` | 2^32, 5 min | 8, 2, 9 | more than a turn of the clock after a window's end |
| `MaxSets`, `Values` | - | 2, one short, one long | a second credential over the first |

The framing run stops at 15 bytes received: the buffer holds at most 12, so the
count overflows and goes on.

No run needs a state constraint: every counter is bounded by the code itself or
by the point at which its value is no longer read. `found` stands at 2 for every
larger count, and `idle` stops where it would expire.

## 6. Fairness

* `HlcSession`: `WF(Timer20ms)`. The task loops for ever with a delay of 20 ms.
  Nothing is assumed of the vehicle, which may stop at any time.
* `Slac`: `WF(TaskStep)`, the part of the task that needs no input. `EndBurst`
  belongs to it: a burst is at most the modem's buffer, so it ends.
* `ControlPilot`: `WF(Tick)`.
* `DcModules`: `WF` of what a task does next in a call it has begun, and `SF` of the
  ramp: the 20 ms task may switch the output on and off in its rounds for ever, but
  comes to `dc_can_tick` in each of them.
* `V2gtpFraming`: `WF(LoopStep)`: a task inside the loop goes on with it.
* `LegacyTcp`: `WF(Tick)`: `tcp_tick` is called every 20 ms.
* `HlcTasks`: weak fairness of the 20 ms task's next round or statement, and of the
  socket task's next statement. `DelayOver` is what is assumed about time: a
  `delay(20)` of one task outlasts one statement of the other, and a delay of the
  20 ms task that began before a request arrived ends before a delay the socket task
  begins in handling it (`aged`). Two delays that begin without a request between
  them may be in the same millisecond and end in either order. Nothing in the code
  enforces the first, but a task held up for 20 ms between two assignments would have
  to be kept from the processor by a third task: the other one is blocked in its delay
  meanwhile. The second is the order of time, as between two handlers lie a response
  and the vehicle's next request.
* `Iso20`: `WF(Next)`, the main task runs.

All of this is conditional on the burst loop of section 4: when a burst without a
header is received, no property that needs the 20 ms task
holds. `HlcSession`, `ControlPilot`, `LegacyTcp` and `HlcTasks` assume such a burst does not come;
`Slac` models it (`spin`), and `MeasuringEnds` holds all the same because the
reset of the modem leaves the measuring states.

## 7. Proofs

TLAPS checks the following for every value of the constants, from the assumptions
named in the modules (`HalAssumption`, `WdAssumption`, `IdleAssumption`,
`SlacAssumption`, `DcAssumption`, `FramingAssumption`, `ProvisioningAssumption` and
their like in the other modules). Every invariant and every action property of a
passing run is the subject of a theorem but `RestingPowerDelivers`: `HlcTasks` has no
constants, and its run is over all its states. The bounds of section 5 (requests,
connections, frames in flight, sizes, clocks) are parameters of all of them.

**HlcSession_proofs.** `TypeCorrect` is inductive by itself: lemmas about each
power operation, each branch (`DinBranchTyped`, `IsoBranchTyped`), then one step
per action. `DcOnlyWhileDeliveringHolds`, `NoClientNoPowerHolds` are inductive
given the types. `ContactorOnlyWhileDeliveringHolds` uses that without an
auxiliary contact `CloseOutcomes` is `{TRUE}`. `IsoSessionWatchedHolds`: the
protocol becomes ISO only in a handshake that arms the watchdog, and an expiry
ends the session in the same step. `ContractBypassHolds` is carried by `PaymentInv`,
which adds that the session never waits for payment details it already has. `PilotLossCutsPowerHolds`
is an action property, and so is `PowerNeedsRequestHolds`: every handler but the two
starts leaves coil and output as they are or takes them away.
`ContractImplemented` is the refinement of `ChargeSession`: initial states map to initial states, and every step is
`StartDelivery`, `Proceed` or a stutter; it rests on `DcOnlyWhileDelivering`, as
`Proceed` allows DC only in delivery.

**Slac_proofs.** One invariant carries all theorems: the types, which are not
inductive alone, with `SoundsPending`, `LinkedPeerHoldsKey` and `NothingSentYet`
(no MATCH retry was counted while sounds are collected; without it `attempts`
could exceed its budget in a state that is not reachable). `ContractImplemented`
refines `SlacContract` from `LinkedPeerHoldsKey`'s parts and the types.

**DcModules_proofs.** `Inv` adds to the types what the ramp holds: outside it nothing
(`Dead`), and until it stores a setpoint that is what it read first, or less where a
switch-off overlapped and cleared it (`Snapshot`). So what it stores is within a step
of what it read, which is `RiseIsRampedHolds`. `Quiet` says of a switch-off that no
ramp overlapped which part of it is still to come while a setpoint or the modules are
left on; when no task is inside one, nothing is left, which is `OffIsOffHolds`. The
types of this module and of `ControlPilot` are proved for every value of the
constants, so no run repeats them.

**V2gtpFraming_proofs.** `BufferInv` (types and `BufferIsTail`) is inductive: a
segment appends the next bytes (`Appended`), a delivered frame leaves the tail
behind it (`RestOfBuffer`). `SplitsLikeReferenceHolds` needs two more invariants:
`StreamInv`, the frames of the stream follow each other without a gap, and
`SyncInv`, the buffer of an undisturbed connection begins where the last frame
handed over ends (`InStep`). Then the header at the front is that of the next
frame (`FrontHeader`), the loop hands over that frame or waits
(`LoopStepInStep`), and at rest the frames handed over are those that have arrived
(`InStepIsReference`). No assumption relates the header's size, the width of the
count and the buffer.

**Provisioning_proofs.** `ServesTheStoreHolds`, for all credentials, clocks and
windows. `IInv` follows the task from target to target: those it has passed are
configured with what the store holds (`PassedIsCurrent`), and between `Reads` and
`Keeps` what was read is what the store holds, unless the target was written since
(`ReadIsCurrent`).

`GuardedStoreHolds` is arithmetic modulo `ClockRange`. `WindowInv` ties the end of
the window to the time of the last accepted token; an open window is then within
`Window` of it or more than half a turn of the clock later (`OpenIsCovered`), which
is what the property says.

`HandedInOrderHolds` (V2gtpFraming) is carried by `OrderInv`: the bytes of the
buffer are in the order of the stream, also after an overflow (`Rising`), and every
frame handed over ends before the first of them (`Behind`). A frame handed over
next begins in the buffer and so lies behind all the others, although what the
header claims about its length may be anything.

**ControlPilot_proofs.** `LostPilotIsSeen` needs to know that the newest `faulty`
bursts of the ring are below D (`FaultyBurstsLow`) and that the hysteresis has
counted each of them (`FaultyBurstsCounted`): when their number reaches the longer
of ring and hysteresis, the ring has no higher burst left and the count has run
out. `NoiseDoesNotDisconnect` is an action property from the same invariant and
`ConnectedByBurst`: a connected state is backed by a burst of the ring that has not
been overwritten, or by the hysteresis.

**Servers_proofs.** `ServersInv` says by the two program counters
who may have left which variable set: socket and active TLS connection follow the
server's own counter, the callback belongs to a server that has not unregistered it
yet (`SenderLives`), two busy servers are `mixed`, and a server that is not mixed
has its own callback (`AloneIsRegistered`).

**Network_proofs**, `Sdp`. `OwnStores` (what an undisturbed task has stored, the two
globals of the request included, is still there, and it has read back its own) and
`OwnReads` (a task that read back its own request decides as that request asks) carry
`OwnAnswer`. `SettledEndpoint` needs the order of the requests: the SDP task is never
ahead of the 20 ms task and the queues hold exactly what lies between them
(`Queues`); a task that is storing does so for an accepted request, and for the
latest one as its own unless that was misread (`Accepting`); and whatever security or
port is not that of the latest accepted request will be overwritten by the SDP task,
which still comes to it, or by the 20 ms task, which is at it (`SecurityOf`,
`PortOf`).

**Network_proofs**, `LegacyTcp`. That no sequence number is checked is harmless
because of three facts about the line, together inductive: a request travels under
the number of its response, and a response under that of its request (`UpSegment`,
`DownSegment`); acknowledgements arrive in order and belong to the connection the
charger is in, as a SYN of a later one comes after them (`InTurn`); the response
that waits for its acknowledgement is the one the charger's own number stands at
(`Pending`), so a retransmission under the current number carries the right
payload. The vehicle's bookkeeping (`Vehicle`) then gives `ReplyAnswersRequest` for
every number of losses, repetitions and connections. `Pending` also has
`SessionNeedsConnection`.

Model-checked only: the liveness properties (`UnpluggedPowerEnds`,
`SilentIsoSessionEnds`, `SilentTimedSessionEnds`, `MeasuringEnds`,
`SettledVehicleConnects`, `SetpointsSettle`, `LoopEnds`, `PendingReplyResolved`,
`UnpluggedPowerGoes`), as liveness under fairness is beyond the prover;
`RestingPowerDelivers`, whose run covers every state of a module without constants;
and `LoopRuns`, which the code violates.

## 8. What is not modelled

Replies and their contents, EXI coding, SPI, frame composition, checksums,
extension headers and neighbour advertisements, the TLS protocol, base64 and JSON
parsing, logging: data or I/O that the properties do not tell apart.

* ISO 15118-20 beyond its start-up: `iso20_loop` and the controller's states are not
  reached by the program as built. Read as it stands, `iso20_loop` would enable the
  DC output at the maximum targets whenever a vehicle is connected.
* The module table and readings of `dc_can.cpp`, lost CAN commands: nothing retries
  or reacts, so there is no control to explore.
* `txbuffer`, which lwIP's task and the 20 ms task fill without a lock
  (`src/lwip_bridge.cpp:22-30`): what it damages are the bytes of frames.
* `cp_init` against the first ticks of the 20 ms task.
* `cp_set_pwm_manual` and `dc_emergency_stop` have no caller.

Abstractions to keep in mind when reading the results:

* handlers and ticks of `HlcSession` are atomic; `HlcTasks` opens them for power,
  `DcModules` for the DC setpoints;
* the session of `SocketServers` and `LegacyTcp` is one bit;
* the 32-bit clock wraps in `Provisioning` only;
* every CAN command arrives.

## 9. Plan

Done: every module of section 2, with its runs, and the proofs of their safety
properties. Left, in this order:

1. `HlcTasks` as a refinement: an abstract switch that says when power may rise and
   that a lost pilot or an ended session takes it away, implemented statement by
   statement.
2. An abstract request and response service that `LegacyTcp` implements.
3. The bounds of `LegacyTcp`'s counters (its `TypeOK`) as a theorem.
