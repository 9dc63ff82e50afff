---------------------------- MODULE ControlPilot ----------------------------
(***************************************************************************)
(* Sensing of the control pilot and the supervision of the contactor that  *)
(* depends on it: cp_tick of src/cp_control.cpp, run by the 20 ms task.    *)
(*                                                                         *)
(* A burst of ADC samples is abstracted to two levels, that of its plateau *)
(* (the mean of its highest samples) and that of its peak.  A level is the *)
(* index of the voltage band, 0 for state F up to 5 for state A, so the    *)
(* maximum of voltages has the maximum of the levels.                      *)
(*                                                                         *)
(* The manual PWM mode is left out: nothing calls cp_set_pwm_manual.       *)
(***************************************************************************)
EXTENDS Integers, Sequences, SequencesExt, FiniteSetsExt

CONSTANTS
    RingLen,        \* CP_RING_LEN
    DemoteBursts,   \* CP_B_DEMOTE_BURSTS
    RunCap          \* the 1000 at which g_belowB_run stops counting

ASSUME CpAssumption ==
    /\ RingLen \in 1 .. 255
    /\ DemoteBursts \in 1 .. RunCap
    /\ RunCap \in 1 .. 65535

Levels == 0 .. 5
LevelF == 0
LevelE == 1
LevelD == 2
LevelC == 3
LevelB == 4
LevelA == 5

VARIABLES
    ring,        \* the levels in g_ring, oldest first, g_ring_count of them
    belowB,      \* g_belowB_run
    state,       \* g_last_state
    duty,        \* the PWM duty on the pilot: "full" or "pulsed" (5 %)
    coil,        \* g_contactor_cmd
    faulty       \* history: bursts in a row whose peak was in E or F, up to
                 \* FaultBound

vars == <<ring, belowB, state, duty, coil, faulty>>

ConnectedLevels == {LevelB, LevelC, LevelD}

\* cp_is_connected
Connected == state \in ConnectedLevels

FaultBound == Max({RingLen, DemoteBursts})

TypeOK ==
    /\ ring \in Seq(Levels) /\ Len(ring) <= RingLen
    /\ belowB \in 0 .. RunCap
    /\ state \in Levels
    /\ duty \in {"full", "pulsed"}
    /\ coil \in BOOLEAN
    /\ faulty \in 0 .. FaultBound

\* cp_init; the ring is empty until the first burst.
Init ==
    /\ ring = << >> /\ belowB = 0
    /\ state = LevelA
    /\ duty = "full" /\ coil = FALSE
    /\ faulty = 0

-----------------------------------------------------------------------------
\* ring_push_and_max: the oldest burst is overwritten once the ring is full.
RingPush(p) ==
    IF Len(ring) = RingLen THEN Append(Tail(ring), p) ELSE Append(ring, p)

\* Mutants: the hysteresis of B holds for good; the last burst counts
\* instead of the highest one in the ring.
ClassifyForever(levels, run) ==
    LET robust == Max(Range(levels))
    IN  IF state = LevelB /\ robust < LevelB /\ run <= RunCap
        THEN LevelB ELSE robust

ClassifyLastBurst(levels, run) ==
    LET robust == Last(levels)
    IN  IF state = LevelB /\ robust < LevelB /\ run < DemoteBursts
        THEN LevelB ELSE robust

\* The state for the ring's highest plateau: B is only left downwards after
\* a run of bursts that do not reach B even with their peak.
Classify(levels, run) ==
    LET robust == Max(Range(levels))
    IN  IF state = LevelB /\ robust < LevelB /\ run < DemoteBursts
        THEN LevelB ELSE robust

\* Mutant: state B is not pulsed.
DutyOfCharging(s) == IF s \in {LevelC, LevelD} THEN "pulsed" ELSE "full"

\* apply_dc_auto_output
DutyOf(s) == IF s \in ConnectedLevels THEN "pulsed" ELSE "full"

\* cp_tick on a burst with plateau p and peak k: the peak is no lower.
CpTick(p, k) ==
    /\ p <= k
    /\ ring' = RingPush(p)
    /\ belowB' = IF k >= LevelB THEN 0 ELSE Min({belowB + 1, RunCap})
    /\ state' = Classify(ring', belowB')
    /\ duty' = DutyOf(state')
    /\ coil' = (coil /\ Connected')
    /\ faulty' = IF k <= LevelE THEN Min({faulty + 1, FaultBound}) ELSE 0

\* cp_contactor_command from the charging protocol, which does not look at
\* the pilot.
ContactorCommand(on) ==
    /\ coil' = on
    /\ UNCHANGED <<ring, belowB, state, duty, faulty>>

Tick == \E p, k \in Levels : CpTick(p, k)

Next == Tick \/ (\E on \in BOOLEAN : ContactorCommand(on))

Spec == Init /\ [][Next]_vars

\* The 20 ms task samples the pilot in every iteration.
FairSpec == Spec /\ WF_vars(Tick)

-----------------------------------------------------------------------------
\* A pilot that is shorted or gone (states E and F) is noticed after the
\* longer of the ring and the hysteresis, whatever was sampled before: the
\* two memories of cp_tick do not add up.
FaultSeen ==
    faulty = FaultBound => ~Connected

\* A vehicle is only taken for gone on a burst in state A or when a whole
\* ring of bursts lies below D: noise shorter than the ring does not end a
\* session.
DropNeedsEvidence ==
    [][Connected /\ ~Connected' =>
          \/ Last(ring') = LevelA
          \/ Len(ring') = RingLen /\ Max(Range(ring')) <= LevelE]_vars

\* A vehicle whose pilot settles is taken for connected in the end, and the
\* pilot is pulsed for it.
SettledVehicleConnects ==
    <>[](ring # << >> /\ Last(ring) \in ConnectedLevels)
        => <>[](Connected /\ duty = "pulsed")
=============================================================================
