----------------------------- MODULE DcModules -----------------------------
(***************************************************************************)
(* The setpoints of the DC power modules (src/dc_can.cpp): targets, ramp   *)
(* and the command on the CAN bus, with the tasks that share them.  The    *)
(* 20 ms task ramps (dc_can_tick) and switches the output off when the     *)
(* pilot opens or a session times out; the socket tasks run the handlers   *)
(* of the charging protocol, and the legacy stack runs them in the 20 ms   *)
(* task.  Nothing guards the shared variables, and a task may run between  *)
(* any two statements of another, or beside it on the other core.          *)
(*                                                                         *)
(* A step is one read or one write of a shared variable.  The CAN          *)
(* controller is present (else nothing here does anything) and every       *)
(* command arrives; of a command only ON or OFF is kept.  The table of     *)
(* modules and their readings is left out: it is only reported to the      *)
(* vehicle.                                                                *)
(***************************************************************************)
EXTENDS Integers

CONSTANTS
    Sockets,         \* the tasks beside the 20 ms task
    Volts, Amps,     \* the targets a vehicle may ask for, 0 among them
    StepV, StepI,    \* stepV and stepI, the ramp per DC_RAMP_TICK_MS
    Threshold        \* the change of 0.5 up to which nothing is sent

ASSUME DcAssumption ==
    /\ "tick" \notin Sockets
    /\ Volts \subseteq Nat /\ 0 \in Volts
    /\ Amps \subseteq Nat /\ 0 \in Amps
    /\ {StepV, StepI} \subseteq Nat \ {0}
    /\ Threshold \in Nat

Tasks == Sockets \union {"tick"}

\* Voltage and current.
Components == {"v", "i"}
Targets == [c \in Components |-> IF c = "v" THEN Volts ELSE Amps]
Step == [c \in Components |-> IF c = "v" THEN StepV ELSE StepI]
Zero == [c \in Components |-> 0]

VARIABLES
    enabled,     \* g_dc_enabled
    target,      \* g_dc_v_target, g_dc_i_target
    set,         \* g_dc_v_set, g_dc_i_set
    on,          \* whether the last CMD_ALLSET the modules received says ON
    pc,          \* where each task stands
    comp,        \* the component a statement of the ramp or of the
                 \* switch-off is about, by task
    powered,     \* g_dc_enabled as the ramp read it
    prev, goal,  \* prevV, prevI and tgtV, tgtI of dc_ramp_tick
    hand,        \* the setpoint as the ramp holds it: loaded, then stored
    overtaken    \* history: the ramp and the last switch-off overlapped

localVars == <<powered, prev, goal, hand>>
vars == <<enabled, target, set, on, pc, comp, localVars, overtaken>>

RampPlaces == {"prev", "flag", "goal", "load", "store", "compare", "send"}
SwitchPlaces == {"targets", "setpoints", "sendOff"}
Places == {"idle", "disable", "current"} \union RampPlaces \union SwitchPlaces

TypeOK ==
    /\ enabled \in BOOLEAN /\ on \in BOOLEAN
    /\ target \in [Components -> Nat]
    /\ \A c \in Components : target[c] \in Targets[c]
    /\ set \in [Components -> Nat]
    /\ pc \in [Tasks -> Places]
    /\ \A t \in Sockets : pc[t] \notin RampPlaces
    /\ comp \in [Tasks -> Components]
    /\ powered \in BOOLEAN
    /\ prev \in [Components -> Nat] /\ goal \in [Components -> Nat]
    /\ hand \in [Components -> Nat]
    /\ overtaken \in BOOLEAN

\* dc_can_init
Init ==
    /\ enabled = FALSE /\ target = Zero /\ set = Zero
    /\ on = FALSE
    /\ pc = [t \in Tasks |-> "idle"] /\ comp = [t \in Tasks |-> "v"]
    /\ powered = FALSE /\ prev = Zero /\ goal = Zero /\ hand = Zero
    /\ overtaken = FALSE

At(t, place) == t \in Tasks /\ pc[t] = place

Goes(t, place) == pc' = [pc EXCEPT ![t] = place] /\ UNCHANGED comp

\* The statement for the voltage is followed by the one for the current at
\* the place again, that one by what stands at next.
GoesOn(t, again, next) ==
    IF comp[t] = "v"
    THEN /\ comp' = [comp EXCEPT ![t] = "i"]
         /\ pc' = [pc EXCEPT ![t] = again]
    ELSE /\ comp' = [comp EXCEPT ![t] = "v"]
         /\ pc' = [pc EXCEPT ![t] = next]

InRamp == pc["tick"] \in RampPlaces

\* Between the write of g_dc_enabled and the command of dc_enable_output(false).
SwitchingOff(t) == pc[t] \in SwitchPlaces

-----------------------------------------------------------------------------
\* dc_ramp_tick, by the 20 ms task.

\* Mutants: the setpoint jumps to the target; it stops short of it.
ApproachAtOnce(current, to, step) == to

ApproachWholeSteps(current, to, step) ==
    IF current + step <= to THEN current + step
    ELSE IF current - step >= to THEN current - step
    ELSE current

Approach(current, to, step) ==
    IF current < to
    THEN IF current + step < to THEN current + step ELSE to
    ELSE IF current - step > to THEN current - step ELSE to

Apart(a, b) == a - b > Threshold \/ b - a > Threshold

\* prevV; then prevI.
RampBegin ==
    /\ At("tick", "idle") /\ GoesOn("tick", "prev", "prev")
    /\ prev' = [prev EXCEPT !["v"] = set["v"]]
    /\ overtaken' = (overtaken \/ \E t \in Tasks : SwitchingOff(t))
    /\ UNCHANGED <<enabled, target, set, on, powered, goal, hand>>

RampPrev ==
    /\ At("tick", "prev") /\ GoesOn("tick", "prev", "flag")
    /\ prev' = [prev EXCEPT !["i"] = set["i"]]
    /\ UNCHANGED <<enabled, target, set, on, powered, goal, hand, overtaken>>

\* The build may keep the flag it read for the voltage.
RampFlag ==
    /\ At("tick", "flag") /\ Goes("tick", "goal")
    /\ powered' = enabled \/ (comp["tick"] = "i" /\ powered' = powered)
    /\ UNCHANGED <<enabled, target, set, on, prev, goal, hand, overtaken>>

\* Mutant: the goal is the target whether the output is on or off.
RampGoalAlways ==
    /\ At("tick", "goal") /\ GoesOn("tick", "flag", "load")
    /\ goal' = [goal EXCEPT ![comp["tick"]] = target[comp["tick"]]]
    /\ UNCHANGED <<enabled, target, set, on, powered, prev, hand, overtaken>>

RampGoal ==
    /\ At("tick", "goal") /\ GoesOn("tick", "flag", "load")
    /\ goal' = [goal EXCEPT ![comp["tick"]] =
                   IF powered THEN target[comp["tick"]] ELSE 0]
    /\ UNCHANGED <<enabled, target, set, on, powered, prev, hand, overtaken>>

\* The build may reuse the setpoint it read into prev.
RampLoad ==
    LET c == comp["tick"] IN
    /\ At("tick", "load") /\ Goes("tick", "store")
    /\ \E value \in {set[c], prev[c]} : hand' = [hand EXCEPT ![c] = value]
    /\ UNCHANGED <<enabled, target, set, on, powered, prev, goal, overtaken>>

\* The goal is dead after this; it is kept at 0 then.
RampStore ==
    LET c == comp["tick"]
        value == Approach(hand[c], goal[c], Step[c])
    IN
    /\ At("tick", "store") /\ GoesOn("tick", "load", "compare")
    /\ set' = [set EXCEPT ![c] = value]
    /\ hand' = [hand EXCEPT ![c] = value]
    /\ goal' = [goal EXCEPT ![c] = 0]
    /\ UNCHANGED <<enabled, target, on, powered, prev, overtaken>>

\* The build may compare what it stored, or read the setpoints again.
RampCompare ==
    /\ At("tick", "compare")
    /\ \E v \in {set["v"], hand["v"]}, i \in {set["i"], hand["i"]} :
          IF Apart(v, prev["v"]) \/ Apart(i, prev["i"])
          THEN Goes("tick", "send") ELSE Goes("tick", "idle")
    /\ prev' = Zero /\ hand' = Zero /\ powered' = FALSE
    /\ UNCHANGED <<enabled, target, set, on, goal, overtaken>>

\* dc_apply_setpoints(false)
RampSend ==
    /\ At("tick", "send") /\ Goes("tick", "idle")
    /\ on' = TRUE
    /\ UNCHANGED <<enabled, target, set, localVars, overtaken>>

Ramp ==
    \/ RampBegin \/ RampPrev \/ RampFlag \/ RampGoal
    \/ RampLoad \/ RampStore \/ RampCompare \/ RampSend

-----------------------------------------------------------------------------
\* dc_enable_output(enable) and dc_set_targets, by any task.

\* Where the output is on, the call goes on past its first line.
DisableOutput(t) ==
    /\ At(t, "idle") /\ enabled /\ Goes(t, "disable")
    /\ UNCHANGED <<enabled, target, set, on, localVars, overtaken>>

SwitchOff(t) ==
    /\ At(t, "disable") /\ Goes(t, "targets")
    /\ enabled' = FALSE
    /\ overtaken' = InRamp
    /\ UNCHANGED <<target, set, on, localVars>>

ClearTargets(t) ==
    /\ At(t, "targets") /\ GoesOn(t, "targets", "setpoints")
    /\ target' = [target EXCEPT ![comp[t]] = 0]
    /\ UNCHANGED <<enabled, set, on, localVars, overtaken>>

ClearSetpoints(t) ==
    /\ At(t, "setpoints") /\ GoesOn(t, "setpoints", "sendOff")
    /\ set' = [set EXCEPT ![comp[t]] = 0]
    /\ UNCHANGED <<enabled, target, on, localVars, overtaken>>

\* dc_apply_setpoints(true)
SendOff(t) ==
    /\ At(t, "sendOff") /\ Goes(t, "idle")
    /\ on' = FALSE
    /\ UNCHANGED <<enabled, target, set, localVars, overtaken>>

\* A test of the flag just before the write comes to the same: the write
\* changes nothing when the flag is TRUE by then.
EnableOutput(t) ==
    /\ At(t, "idle") /\ ~enabled
    /\ enabled' = TRUE
    /\ UNCHANGED <<target, set, on, pc, comp, localVars, overtaken>>

\* The handlers ask for any voltage and any current; the stop for 0 and 0.
SetVoltage(t, v) ==
    /\ At(t, "idle") /\ Goes(t, "current")
    /\ target' = [target EXCEPT !["v"] = v]
    /\ UNCHANGED <<enabled, set, on, localVars, overtaken>>

SetCurrent(t, i) ==
    /\ At(t, "current") /\ Goes(t, "idle")
    /\ target' = [target EXCEPT !["i"] = i]
    /\ UNCHANGED <<enabled, set, on, localVars, overtaken>>

-----------------------------------------------------------------------------
\* A call, once begun, goes on to its end.
Continue(t) ==
    \/ SwitchOff(t) \/ ClearTargets(t) \/ ClearSetpoints(t) \/ SendOff(t)
    \/ \E i \in Amps : SetCurrent(t, i)

Call(t) ==
    \/ DisableOutput(t) \/ EnableOutput(t)
    \/ \E v \in Volts : SetVoltage(t, v)

Next == Ramp \/ \E t \in Tasks : Continue(t) \/ Call(t)

Spec == Init /\ [][Next]_vars

\* Every task keeps running, and the 20 ms task comes to dc_can_tick in every
\* round whatever else it did in it.
FairSpec ==
    /\ Spec /\ SF_vars(Ramp)
    /\ \A t \in Tasks : WF_vars(Continue(t))

-----------------------------------------------------------------------------
\* Where the setpoints belong.
Wanted == IF enabled THEN target ELSE Zero

\* The setpoints the vehicle is told come to where they belong once the
\* tasks leave targets and output alone, however the tasks interleave and
\* even when a switch-off and the ramp overlapped.
SetpointsSettle ==
    <>[][enabled' = enabled /\ target' = target]_vars => <>[](set = Wanted)

\* The setpoints rise by no more than the ramp at a time; where a switch-off
\* and the ramp overlapped, they come back to no more than a step above what
\* they were when the ramp began.
RiseIsRamped ==
    [][\A c \in Components :
          \/ set'[c] <= set[c] + Step[c]
          \/ overtaken /\ set'[c] <= prev[c] + Step[c]]_vars

\* After a switch-off that no ramp overlapped, and until the output is
\* enabled again, the modules were last told OFF and no setpoint is left for
\* the ramp to act on.
OffIsOff ==
    ~enabled /\ ~overtaken /\ (\A t \in Tasks : ~SwitchingOff(t))
        => ~on /\ set = Zero
=============================================================================
