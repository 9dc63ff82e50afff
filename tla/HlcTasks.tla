------------------------------ MODULE HlcTasks ------------------------------
(***************************************************************************)
(* The two tasks that switch the power, statement by statement: the task   *)
(* of a socket server inside the handler of a request (src/tcp.cpp), and   *)
(* Timer20ms (src/main.cpp) with the reaction to the control pilot and the *)
(* timeouts.  HlcSession takes a handler for one step; here the steps of   *)
(* the two tasks mix, also while cp_contactor_command blocks for 20 ms     *)
(* between the coil and g_contactor_cmd.                                   *)
(*                                                                         *)
(* todo[t] is what task t still has to do in its handler, as a sequence of *)
(* statements.  dc_enable_output is one statement; so are the flags that   *)
(* are only assigned.  The build is the default one, without an auxiliary  *)
(* contact: the feedback is the flag itself.                               *)
(***************************************************************************)
EXTENDS Naturals, Sequences

VARIABLES
    pilot,      \* the vehicle is plugged in, as the pilot voltage shows it
    connected,  \* cp_is_connected()
    pin,        \* the coil of the contactor
    cmd, fb,    \* g_contactor_cmd, g_contactor_fb
    dc,         \* g_dc_enabled
    fsm,        \* fsmState, as far as power is concerned
    iso,        \* g_hlc_protocol = Iso2
    handler,    \* the branch the start at work was taken in
    armed,      \* the idle timer or the watchdog runs
    todo,       \* the statements left, for each task
    aged,       \* the delay(20) Timer20ms is in began before the request at work
    overtaken   \* history: a reset overtook the last start, and that start
                \* leaves the state alone

power == <<pin, cmd, fb, dc>>
session == <<fsm, iso, armed>>
vars == <<pilot, connected, power, session, handler, todo, aged, overtaken>>

Tasks == {"socket", "tick"}

\* Before the handshake, until PowerDelivery, and the three states with power.
Phases == {"start", "setup", "power", "current", "stop"}

Init ==
    /\ pilot = FALSE /\ connected = FALSE
    /\ pin = FALSE /\ cmd = FALSE /\ fb = FALSE
    /\ dc = FALSE
    /\ fsm = "start" /\ iso = FALSE /\ handler = "din" /\ armed = FALSE
    /\ todo = [t \in Tasks |-> <<>>] /\ aged = FALSE
    /\ overtaken = FALSE

-----------------------------------------------------------------------------
(* What the code does, statement after statement.                          *)

StopPower == <<"dc off", "contactor off">>
ResetSession == <<"fsm start">> \o StopPower \o <<"disarm">>

\* Mutant: the state is entered before the power is there.
DeliversEarly ==
    CASE handler = "iso"      -> <<"fsm current", "dc on", "report", "watch">>
      [] handler = "dinAgain" -> <<"dc on">>
      [] OTHER                -> <<"fsm current", "dc on", "report">>

\* After cp_contactor_command(true).  Only ISO starts the watchdog, and not for
\* a start after the first; DIN leaves the state alone in CurrentDemand.
Delivers ==
    CASE handler = "iso"      -> <<"dc on", "report", "fsm current", "watch">>
      [] handler = "dinAgain" -> <<"dc on">>
      [] OTHER                -> <<"dc on", "report", "fsm current">>

\* ISO takes all the power away again, DIN only the modules'.
Refuses ==
    CASE handler = "iso"      -> StopPower \o <<"report", "fsm stop", "watch">>
      [] handler = "isoAgain" -> StopPower \o <<"report", "fsm stop">>
      [] handler = "din"      -> <<"dc off", "report", "fsm stop">>
      [] handler = "dinAgain" -> <<"dc off", "fsm stop">>

\* Mutant: the modules are only switched off along with the contactor.
CutsTogether == <<"contactor off if on", "dc off if contactor on">>

\* Timer20ms after the pilot was read as lost: cp_tick and the lines after it.
Cuts == <<"contactor off if on", "contactor off if on", "dc off">>

\* The statements of task t become s.
Then(t, s) == todo' = [todo EXCEPT ![t] = s \o Tail(@)]
Done(t) == Then(t, <<>>)

\* Task t is at statement op; it is in delay(20).
At(t, op) == todo[t] # <<>> /\ Head(todo[t]) = op
Other(t) == IF t = "tick" THEN "socket" ELSE "tick"
Waits(t) == At(t, "settle on") \/ At(t, "settle off")

\* A DIN start in CurrentDemand is under way.
StartsAgain ==
    /\ handler = "dinAgain"
    /\ \E op \in {"contactor on", "settle on", "confirm on", "dc on"} : At("socket", op)

\* contactor_read_feedback returns the flag.
NothingToDo(on) == cmd = on /\ fb = cmd

\* The statements that advance the session.
Advances == [op \in {"fsm setup", "fsm power", "fsm current", "fsm stop"} |->
    CASE op = "fsm setup"   -> "setup"
      [] op = "fsm power"   -> "power"
      [] op = "fsm current" -> "current"
      [] op = "fsm stop"    -> "stop"]

Assign(t, op) ==
    /\ \/ op = "dc on" /\ dc' = TRUE /\ UNCHANGED <<fb, session, overtaken>>
       \/ op = "dc off" /\ dc' = FALSE /\ UNCHANGED <<fb, session, overtaken>>
       \/ /\ op = "dc off if contactor on" /\ dc' = (dc /\ ~cmd)
          /\ UNCHANGED <<fb, session, overtaken>>
       \/ /\ op = "fsm start" /\ fsm' = "start"
          /\ overtaken' = (overtaken \/ (t = "tick" /\ StartsAgain))
          /\ UNCHANGED <<fb, dc, iso, armed>>
       \/ /\ op \in DOMAIN Advances /\ fsm' = Advances[op]
          /\ UNCHANGED <<fb, dc, iso, armed, overtaken>>
       \/ op = "watch" /\ armed' = (armed \/ iso) /\ UNCHANGED <<fb, dc, fsm, iso, overtaken>>
       \/ op = "disarm" /\ armed' = FALSE /\ iso' = FALSE /\ UNCHANGED <<fb, dc, fsm, overtaken>>
       \/ /\ op = "report" /\ fb' = (IF connected THEN cmd ELSE fb)
          /\ UNCHANGED <<dc, session, overtaken>>
    /\ Done(t)
    /\ UNCHANGED <<pin, cmd, aged>>

\* hw_contactor_set, then delay(20).
Switches(t, on) ==
    /\ pin' = on
    /\ Then(t, IF on THEN <<"settle on">> ELSE <<"settle off">>)
    /\ aged' = (aged /\ t # "tick")

\* cp_contactor_command(true): nothing to do, or the coil first.
CommandOn(t, op) ==
    /\ op = "contactor on"
    /\ IF NothingToDo(TRUE)
       THEN Then(t, Delivers) /\ UNCHANGED <<pin, aged>>
       ELSE Switches(t, TRUE)
    /\ UNCHANGED <<cmd, fb, dc, session, overtaken>>

\* delay(20) outlasts a statement: the other task has assigned the feedback
\* before it is over.  The delays of the two tasks may begin in the same
\* millisecond and end in any order, unless a request came in between: a
\* response and the next request lie between two handlers.
DelayOver(t) ==
    /\ ~At(Other(t), "confirm on") /\ ~At(Other(t), "confirm off")
    /\ t = "socket" /\ aged => ~Waits("tick")

\* ... 20 ms later the flag, and then the feedback that follows the flag.
SettleOn(t, op) ==
    /\ \/ /\ op = "settle on" /\ DelayOver(t)
          /\ cmd' = TRUE /\ Then(t, <<"confirm on">>) /\ UNCHANGED fb
       \/ /\ op = "confirm on"
          /\ fb' = cmd /\ Then(t, IF cmd THEN Delivers ELSE Refuses)
          /\ UNCHANGED cmd
    /\ UNCHANGED <<pin, dc, session, aged, overtaken>>

\* cp_contactor_command(false); the pilot's reaction asks for the flag first.
CommandOff(t, op) ==
    /\ op \in {"contactor off", "contactor off if on"}
    /\ IF NothingToDo(FALSE) \/ (op = "contactor off if on" /\ ~cmd)
       THEN Done(t) /\ UNCHANGED <<pin, aged>>
       ELSE Switches(t, FALSE)
    /\ UNCHANGED <<cmd, fb, dc, session, overtaken>>

SettleOff(t, op) ==
    /\ \/ /\ op = "settle off" /\ DelayOver(t)
          /\ cmd' = FALSE /\ Then(t, <<"confirm off">>) /\ UNCHANGED fb
       \/ op = "confirm off" /\ fb' = FALSE /\ Done(t) /\ UNCHANGED cmd
    /\ UNCHANGED <<pin, dc, session, aged, overtaken>>

\* tcp_tick: the idle timer, or the watchdog, may be over.  The idle timer may
\* seem to be over when it is not: a request that arrives after tcp_tick read
\* the clock makes the difference of the two times a huge number.
Expires(t, op) ==
    /\ op = "timeouts"
    /\ \/ Done(t)
       \/ armed /\ Then(t, ResetSession)
    /\ UNCHANGED <<power, session, aged, overtaken>>

Step(t) ==
    /\ todo[t] # <<>>
    /\ LET op == Head(todo[t]) IN
       \/ Assign(t, op) \/ CommandOn(t, op) \/ SettleOn(t, op)
       \/ CommandOff(t, op) \/ SettleOff(t, op) \/ Expires(t, op)
    /\ UNCHANGED <<pilot, connected, handler>>

-----------------------------------------------------------------------------
(* Where a task begins.                                                    *)

\* Timer20ms: the pilot is read; a lost one is answered before the timeouts.
TickBegins ==
    /\ todo["tick"] = <<>>
    /\ connected' = pilot
    /\ todo' = [todo EXCEPT !["tick"] =
                   (IF pilot THEN <<>> ELSE Cuts) \o <<"timeouts">>]
    /\ UNCHANGED <<pilot, power, session, handler, aged, overtaken>>

\* A request is at hand: the idle timer starts again, its handler begins.
Handles(s) ==
    /\ todo["socket"] = <<>>
    /\ todo' = [todo EXCEPT !["socket"] = s]
    /\ aged' = (aged \/ Waits("tick"))
    /\ UNCHANGED <<pilot, connected, power>>

Answers(s) ==
    /\ Handles(s) /\ armed' = TRUE
    /\ UNCHANGED <<fsm, iso, handler, overtaken>>

\* Handshake; then session set-up, parameters, cable check, pre-charge.
Handshake ==
    /\ fsm = "start"
    /\ Handles(<<"fsm setup">>)
    /\ iso' \in BOOLEAN /\ armed' = TRUE
    /\ UNCHANGED <<fsm, handler, overtaken>>

Prepares ==
    /\ fsm = "setup"
    /\ \E next \in {"fsm setup", "fsm power"} : Answers(<<"report", next>>)

\* Requests that change no power: the responses read the feedback.
Reports == fsm # "start" /\ \E after \in {<<>>, <<"watch">>} : Answers(<<"report">> \o after)

\* PowerDelivery, start.  The DIN document may be the one of an earlier session,
\* whatever the protocol is now.
Starts(branch) ==
    /\ Handles(<<"contactor on">>) /\ armed' = TRUE
    /\ handler' = branch /\ overtaken' = FALSE
    /\ UNCHANGED <<fsm, iso>>

IsoStarts ==
    /\ iso
    /\ \/ fsm = "power" /\ Starts("iso")
       \/ fsm \in {"current", "stop"} /\ Starts("isoAgain")

DinStarts ==
    \/ fsm = "power" /\ Starts("din")
    \/ fsm = "current" /\ Starts("dinAgain")

\* ... stop or renegotiation.
IsoStops ==
    /\ iso /\ fsm \in {"power", "current", "stop"}
    /\ \E next \in {"fsm stop", "fsm setup"} :
          Answers(StopPower \o <<"report", next>>
                    \o (IF fsm = "power" THEN <<"watch">> ELSE <<>>))

DinStops ==
    \/ fsm = "power" /\ Answers(StopPower \o <<"report", "fsm stop">>)
    \/ fsm = "current" /\ Answers(StopPower \o <<"fsm stop">>)

\* A DIN CurrentDemand that says ChargingComplete: the state stays.
Completes == fsm = "current" /\ Answers(StopPower \o <<"report">>)

\* PowerDelivery(ready) of DIN in SessionStop: the state, and no command.
Resumes == fsm = "stop" /\ Answers(<<"fsm current">>)

\* SessionStop: only ISO takes the power away once more.
SessionStops ==
    /\ fsm = "stop"
    /\ \/ iso /\ Answers(StopPower \o <<"fsm start">>)
       \/ Answers(<<"fsm start">>)

\* The socket ends, or a request is refused with a reset.
Ends ==
    /\ Handles(ResetSession)
    /\ UNCHANGED <<session, handler, overtaken>>

Requests ==
    \/ Handshake \/ Prepares \/ Reports
    \/ IsoStarts \/ DinStarts \/ IsoStops \/ DinStops
    \/ Completes \/ Resumes \/ SessionStops \/ Ends

PilotChanges ==
    /\ pilot' = ~pilot
    /\ UNCHANGED <<connected, power, session, handler, todo, aged, overtaken>>

Next ==
    \/ \E t \in Tasks : Step(t)
    \/ TickBegins \/ Requests \/ PilotChanges

Spec == Init /\ [][Next]_vars

\* Both tasks are scheduled: Timer20ms sleeps at the end of each round, and a
\* handler that was begun goes on.
FairSpec ==
    /\ Spec
    /\ WF_vars(TickBegins \/ Step("tick"))
    /\ WF_vars(Step("socket"))

-----------------------------------------------------------------------------
(* Properties                                                              *)

AtRest == \A t \in Tasks : todo[t] = <<>>

\* However the statements of the two tasks mixed, when both are at rest the
\* flag tells the coil's position, and there is power only in the state that
\* delivers it, unless the power came from a DIN start in CurrentDemand that a
\* reset of Timer20ms overtook: what HlcSession shows of handlers taken as one
\* step, and the one handler it does not carry over to.
RestingPowerDelivers ==
    AtRest => /\ cmd = pin
              /\ pin \/ dc => fsm = "current" \/ overtaken

\* When the vehicle is unplugged for good, coil and modules go off again
\* whatever the handlers of the socket switch on, and for good once no handler
\* begins any more, also when one was switching them on at that moment.
UnpluggedPowerGoes ==
    <>[]~pilot =>
        /\ []<>~pin /\ []<>~dc
        /\ <>[](todo["socket"] = <<>>) => <>[](~pin /\ ~dc)
=============================================================================
