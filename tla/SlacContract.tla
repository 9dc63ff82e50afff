---------------------------- MODULE SlacContract ----------------------------
(***************************************************************************)
(* What SLAC pairing promises to the layers above it: whoever is matched,  *)
(* and whose link is declared ready, is the vehicle that asked for pairing *)
(* last, and it got there one phase after the other.                       *)
(***************************************************************************)
CONSTANTS
    Pevs,     \* the vehicles, each with its MAC address and run identifier
    NoPev     \* nobody

VARIABLES
    phase,    \* "Unpaired", "Pairing", "Matched" or "Linked"
    peer      \* the vehicle being paired, NoPev when there is none

linkVars == <<phase, peer>>

LInit == phase = "Unpaired" /\ peer = NoPev

\* Pairing may be asked for at any time and restarts it.
Ask(p) == phase' = "Pairing" /\ peer' = p

Match == phase = "Pairing" /\ phase' = "Matched" /\ UNCHANGED peer

Confirm == phase = "Matched" /\ phase' = "Linked" /\ UNCHANGED peer

\* A failure, a timeout, an unplugged vehicle or a new network key.
Drop == phase' = "Unpaired" /\ peer' = NoPev

LNext == (\E p \in Pevs : Ask(p)) \/ Match \/ Confirm \/ Drop

LSpec == LInit /\ [][LNext]_linkVars
=============================================================================
