------------------------------ MODULE PowerHal ------------------------------
(***************************************************************************)
(* The power half of the hardware layer that the charging protocol drives: *)
(* the main contactor (src/cp_control.cpp) and the output of the DC        *)
(* modules on the CAN bus (src/dc_can.cpp).  This module declares their    *)
(* state and what each call does to it; the modules that call it EXTEND    *)
(* it.                                                                     *)
(*                                                                         *)
(* g_contactor_cmd and the level of the coil pin are always written        *)
(* together and are one variable, coil.  g_contactor_fb only caches the    *)
(* last reading of the auxiliary contact: when cp_contactor_command(on)    *)
(* returns early because of it, the coil already has the level asked for   *)
(* and the result is the reading itself, which is what the long path       *)
(* leaves and returns too.  So the cache is not modelled.  The 20 ms the   *)
(* call blocks are not split here.                                         *)
(***************************************************************************)
EXTENDS Integers

CONSTANTS
    AuxFitted,   \* CONTACTOR_AUX_PIN >= 0: an auxiliary contact is wired
    CanOk,       \* g_can_ok: the CAN controller answered in dc_can_init
    MaxTarget    \* bound on the abstract scale of DC voltage/current targets

ASSUME HalAssumption ==
    /\ AuxFitted \in BOOLEAN
    /\ CanOk \in BOOLEAN
    /\ MaxTarget \in Nat \ {0}

VARIABLES
    coil,        \* g_contactor_cmd, the coil output
    aux,         \* what hw_contactor_aux() reads
    dcEnabled,   \* g_dc_enabled
    target       \* g_dc_v_target and g_dc_i_target, on one scale, 0 = none

powerVars == <<coil, aux, dcEnabled, target>>

Targets == 0 .. MaxTarget

PowerTypeOK ==
    /\ coil \in BOOLEAN
    /\ aux \in BOOLEAN
    /\ dcEnabled \in BOOLEAN
    /\ target \in Targets

PowerInit ==
    /\ coil = FALSE
    /\ aux \in (IF AuxFitted THEN BOOLEAN ELSE {FALSE})
    /\ dcEnabled = FALSE
    /\ target = 0

\* What cp_contactor_command(true) may return.  Without an auxiliary
\* contact the command itself is taken for the feedback, so it succeeds.
CloseOutcomes == IF AuxFitted THEN BOOLEAN ELSE {TRUE}

\* cp_contactor_command(true) returning ok.  A missing confirmation is
\* reported, but the coil is left energised.
ContactorClose(ok) ==
    /\ coil' = TRUE
    /\ aux' = ok

\* cp_contactor_command(false): the contact may also stay closed (welded).
ContactorOpen ==
    /\ coil' = FALSE
    /\ aux' \in (IF AuxFitted THEN BOOLEAN ELSE {FALSE})

\* dc_enable_output(on), called when the targets are t.
DcEnableOutput(on, t) ==
    /\ dcEnabled' = (on /\ CanOk)
    /\ target' = IF ~on /\ dcEnabled THEN 0 ELSE t

\* dc_set_targets(0, 0); dc_enable_output(false); cp_contactor_command(false)
PowerOff ==
    /\ DcEnableOutput(FALSE, 0)
    /\ ContactorOpen

\* The auxiliary contact moves by itself: late, bouncing, welded or dropped.
AuxMoves ==
    /\ AuxFitted
    /\ aux' = ~aux
    /\ UNCHANGED <<coil, dcEnabled, target>>
=============================================================================
