--------------------------- MODULE ChargeSession ---------------------------
(***************************************************************************)
(* What the charger promises a vehicle about power, without protocols,     *)
(* timers or connections: a session moves through its phases in order, and *)
(* the power level rises only when the vehicle asks for power delivery in  *)
(* a phase that comes after authorisation and precharge.  Everything else  *)
(* that happens (stop, timeout, reset, lost pilot, lost connection) may    *)
(* only lower the level.                                                   *)
(*                                                                         *)
(* It restates no single function: it is the contract of decodeV2GTP,      *)
(* resetHlcSession and the 20 ms task of src/tcp.cpp and src/main.cpp      *)
(* taken together, and HlcSession is shown to implement it.                *)
(***************************************************************************)
EXTENDS Integers

VARIABLES
    phase,   \* where the session is
    level    \* 0 off, 1 contactor commanded, 2 DC output enabled

Phases == {"idle", "negotiating", "authorising", "preparing", "ready",
           "delivering", "stopping"}

Levels == 0 .. 2

\* The phases a session may move on to from each phase.  Renegotiation goes
\* back to preparing; every phase may fall back to idle.
Onward(p) ==
    CASE p = "idle"        -> {"negotiating"}
      [] p = "negotiating" -> {"authorising"}
      [] p = "authorising" -> {"preparing"}
      [] p = "preparing"   -> {"ready"}
      [] p = "ready"       -> {"delivering", "stopping", "preparing"}
      [] p = "delivering"  -> {"stopping", "preparing"}
      [] p = "stopping"    -> {"delivering", "preparing"}

Moves == phase' \in {phase, "idle"} \cup Onward(phase)

CInit ==
    /\ phase = "idle"
    /\ level = 0

\* The vehicle asks for power delivery.
StartDelivery ==
    /\ phase \in {"ready", "delivering", "stopping"}
    /\ phase' \in {"delivering", "stopping"}
    /\ level' \in Levels
    /\ level' = 2 => phase' = "delivering"

\* Anything else: the level never rises, and DC stays on only in delivery.
Proceed ==
    /\ Moves
    /\ level' \in Levels
    /\ level' <= level
    /\ level' = 2 => phase' = "delivering"

CNext == StartDelivery \/ Proceed

CSpec == CInit /\ [][CNext]_<<phase, level>>
=============================================================================
