---------------------------- MODULE Slac_proofs ----------------------------
(***************************************************************************)
(* Proofs about Slac: its type invariant and its safety invariants, from   *)
(* one inductive invariant, and that it implements SlacContract.  They     *)
(* hold for every set of vehicles and every value of the bounds and        *)
(* windows that SlacAssumption admits.                                     *)
(***************************************************************************)
EXTENDS Slac, TLAPS

\* transmitAttenCharInd counts up from what it finds: the budget of reports
\* is kept only because sounding starts with nothing counted.
NothingSentYet == modem = "MNBC_SOUND" => attempts = 0

\* What every step preserves.  TypeOK is not inductive: the range of the
\* retry counter needs NothingSentYet, and that of the received profiles
\* needs SoundsPending.
Inv ==
    /\ FlagsOK
    /\ PlaceOK /\ PeersOK /\ CountsOK /\ AgeOK
    /\ AttemptsBounded /\ SoundsPending /\ LinkedPeerHoldsKey
    /\ NothingSentYet

-----------------------------------------------------------------------------
\* Clamp admits every requested sound count and never returns 0.
LEMMA ClampRange ==
    ASSUME NEW n \in Nat
    PROVE  Clamp(n) \in 1 .. MaxSounds
BY SlacAssumption DEF Clamp

\* A window is positive exactly in the states that are timed.
LEMMA WindowRange ==
    ASSUME NEW m
    PROVE  /\ Window(m) \in Nat
           /\ m \in Timed => Window(m) > 0
           /\ m \notin Timed => Window(m) = 0
BY SlacAssumption DEF Window, Timed, Measuring

\* The start of the firmware satisfies the invariant.
LEMMA InitInv == Init => Inv
<1>1. Init => FlagsOK
  BY Zenon DEF Init, FlagsOK
<1>2. Init => PlaceOK /\ PeersOK /\ CountsOK /\ AgeOK
  BY SlacAssumption, WindowRange
     DEF Init, PlaceOK, PeersOK, CountsOK, AgeOK, ModemStates, StartUp
<1>3. Init => /\ AttemptsBounded /\ SoundsPending
              /\ LinkedPeerHoldsKey /\ NothingSentYet
  BY DEF Init, AttemptsBounded, SoundsPending, LinkedPeerHoldsKey,
         NothingSentYet, Matched
<1>4. QED
  BY <1>1, <1>2, <1>3 DEF Inv

\* Every step keeps the flags Boolean.
LEMMA FlagsKept ==
    ASSUME FlagsOK, [Next]_vars
    PROVE  FlagsOK'
<1> USE DEF FlagsOK
<1>1. CASE PilotOpens
  BY <1>1, Zenon
     DEF PilotOpens, keyVars
<1>2. CASE FindModem
  BY <1>2, Zenon
     DEF FindModem, PilotHolds, keyVars
<1>3. CASE CheckWriteSpace
  BY <1>3, Zenon
     DEF CheckWriteSpace, PilotHolds, keyVars
<1>4. CASE SetKeyReq
  BY <1>4, Zenon
     DEF SetKeyReq, PilotHolds, keyVars
<1>5. CASE GetSwReq
  BY <1>5, Zenon
     DEF GetSwReq, PilotHolds, keyVars
<1>6. CASE PollModem
  BY <1>6, Zenon
     DEF PollModem, PilotHolds, keyVars
<1>7. CASE EndBurst
  BY <1>7, Zenon
     DEF EndBurst, keyVars
<1>8. CASE InvalidFrame
  BY <1>8, Zenon
     DEF InvalidFrame, keyVars
<1>9. CASE SoundsOver
  BY <1>9, Zenon
     DEF SoundsOver, EndIteration, RotateKey, keyVars
<1>10. CASE ResponseTimeout
  BY <1>10, Zenon
     DEF ResponseTimeout, EndIteration, RotateKey, keyVars
<1>11. CASE MatchTimeout
  BY <1>11, Zenon
     DEF MatchTimeout, EndIteration, RotateKey, keyVars
<1>12. CASE SearchOver
  BY <1>12, Zenon
     DEF SearchOver, EndIteration, RotateKey, keyVars
<1>13. CASE NoTimer
  BY <1>13, Zenon
     DEF NoTimer, EndIteration, RotateKey, keyVars
<1>14. ASSUME NEW ok \in BOOLEAN, SetKeyCnf(ok)
      PROVE  FlagsOK'
  BY <1>14, Zenon
     DEF SetKeyCnf, InBurst
<1>15. ASSUME NEW p \in Pevs, NEW n \in 0 .. MaxSounds + 1, SlacParamReq(p, n)
      PROVE  FlagsOK'
  BY <1>15, Zenon
     DEF SlacParamReq, InBurst, keyVars
<1>16. ASSUME NEW n \in 0 .. MaxSounds + 1, StartAttenChar(n)
      PROVE  FlagsOK'
  BY <1>16, Zenon
     DEF StartAttenChar, InBurst, keyVars
<1>17. CASE AttenProfile
  BY <1>17, Zenon
     DEF AttenProfile, InBurst, keyVars
<1>18. ASSUME NEW p \in Pevs, NEW ok \in BOOLEAN, AttenCharRsp(p, ok)
      PROVE  FlagsOK'
  BY <1>18, Zenon
     DEF AttenCharRsp, InBurst, SlacFailure, keyVars
<1>19. ASSUME NEW p \in Pevs, NEW ok \in BOOLEAN, SlacMatchReq(p, ok)
      PROVE  FlagsOK'
  BY <1>19, Zenon
     DEF SlacMatchReq, InBurst, SlacFailure
<1>20. CASE GetSwCnf
  BY <1>20, Zenon
     DEF GetSwCnf, InBurst, keyVars
<1>21. CASE SetupEnds
  BY <1>21, Zenon
     DEF SetupEnds, keyVars
<1>22. CASE UNCHANGED vars
  BY <1>22, Zenon
     DEF vars, keyVars
<1>23. QED
  BY <1>1, <1>2, <1>3, <1>4, <1>5, <1>6, <1>7, <1>8, <1>9, <1>10, <1>11,
     <1>12, <1>13, <1>14, <1>15, <1>16, <1>17, <1>18, <1>19, <1>20, <1>21, <1>22
     DEF Next, Timer20ms, TaskStep, SlacManager

\* The rest of the invariant, and what it says when it is expanded.
Rest ==
    /\ PlaceOK /\ PeersOK /\ CountsOK /\ AgeOK
    /\ AttemptsBounded /\ SoundsPending /\ LinkedPeerHoldsKey
    /\ NothingSentYet

\* Every step keeps the rest of the invariant.
LEMMA RestKept ==
    ASSUME Rest, [Next]_vars
    PROVE  Rest'
<1> USE SlacAssumption, WindowRange
    DEF Rest, PlaceOK, PeersOK, CountsOK, AgeOK, AttemptsBounded,
        SoundsPending, LinkedPeerHoldsKey, NothingSentYet,
        ModemStates, StartUp, Measuring, Matched, Timed
<1>1. CASE PilotOpens
  BY <1>1
     DEF PilotOpens, keyVars
<1>2. CASE FindModem
  BY <1>2
     DEF FindModem, PilotHolds, countVars, keyVars
<1>3. CASE CheckWriteSpace
  BY <1>3
     DEF CheckWriteSpace, PilotHolds, countVars, keyVars
<1>4. CASE SetKeyReq
  BY <1>4
     DEF SetKeyReq, PilotHolds, countVars
<1>5. CASE GetSwReq
  BY <1>5
     DEF GetSwReq, PilotHolds, countVars, keyVars
<1>6. CASE PollModem
  BY <1>6
     DEF PollModem, PilotHolds, countVars, keyVars
<1>7. CASE EndBurst
  BY <1>7
     DEF EndBurst, countVars, keyVars
<1>8. CASE InvalidFrame
  BY <1>8
     DEF InvalidFrame, countVars, keyVars
<1>9. CASE SoundsOver
  BY <1>9
     DEF SoundsOver, EndIteration, RotateKey, TransmitAttenCharInd, keyVars
<1>10. CASE ResponseTimeout
  BY <1>10
     DEF ResponseTimeout, EndIteration, RotateKey, TransmitAttenCharInd,
         ClearFailure, CanRetry, keyVars
<1>11. CASE MatchTimeout
  BY <1>11
     DEF MatchTimeout, EndIteration, RotateKey, ClearFailure, keyVars
<1>12. CASE SearchOver
  BY <1>12
     DEF SearchOver, EndIteration, RotateKey, keyVars
<1>13. CASE NoTimer
  BY <1>13
     DEF NoTimer, EndIteration, RotateKey, Expired, keyVars
<1>14. ASSUME NEW ok \in BOOLEAN, SetKeyCnf(ok)
      PROVE  Rest'
  BY <1>14
     DEF SetKeyCnf, InBurst, countVars
<1>15. ASSUME NEW p \in Pevs, NEW n \in 0 .. MaxSounds + 1, SlacParamReq(p, n)
      PROVE  Rest'
  BY <1>15, ClampRange
     DEF SlacParamReq, InBurst, keyVars
<1>16. ASSUME NEW n \in 0 .. MaxSounds + 1, StartAttenChar(n)
      PROVE  Rest'
  BY <1>16, ClampRange
     DEF StartAttenChar, InBurst, keyVars
<1>17. CASE AttenProfile
  BY <1>17
     DEF AttenProfile, InBurst, TransmitAttenCharInd, keyVars
<1>18. ASSUME NEW p \in Pevs, NEW ok \in BOOLEAN, AttenCharRsp(p, ok)
      PROVE  Rest'
  BY <1>18
     DEF AttenCharRsp, InBurst, TransmitAttenCharInd, SlacFailure,
         ClearFailure, CanRetry, keyVars
<1>19. ASSUME NEW p \in Pevs, NEW ok \in BOOLEAN, SlacMatchReq(p, ok)
      PROVE  Rest'
  BY <1>19
     DEF SlacMatchReq, InBurst, SlacFailure, ClearFailure
<1>20. CASE GetSwCnf
  BY <1>20
     DEF GetSwCnf, InBurst, countVars, keyVars
<1>21. CASE SetupEnds
  BY <1>21
     DEF SetupEnds, countVars, keyVars
<1>22. CASE UNCHANGED vars
  BY <1>22
     DEF vars, countVars, keyVars
<1>23. QED
  BY <1>1, <1>2, <1>3, <1>4, <1>5, <1>6, <1>7, <1>8, <1>9, <1>10, <1>11,
     <1>12, <1>13, <1>14, <1>15, <1>16, <1>17, <1>18, <1>19, <1>20, <1>21, <1>22
     DEF Next, Timer20ms, TaskStep, SlacManager

\* Inv is an inductive invariant.
LEMMA InvHolds == Spec => []Inv
<1>1. Inv /\ [Next]_vars => Inv'
  BY FlagsKept, RestKept, Zenon DEF Inv, Rest
<1>2. QED
  BY InitInv, <1>1, PTL DEF Spec

-----------------------------------------------------------------------------
\* The variables keep their types: none of the counters of SlacManager
\* outgrows its bound, whatever frames arrive.
THEOREM TypeCorrect == Spec => []TypeOK
<1>1. Inv => TypeOK
  BY Zenon DEF Inv, TypeOK
<1>2. QED
  BY InvHolds, <1>1, PTL

\* CM_ATTEN_CHAR.IND is sent 1 to ATTEN_CHAR_MAX_RETRIES times before its
\* response arrives or SLAC gives up.
THEOREM AttemptsBoundedHolds == Spec => []AttemptsBounded
<1>1. Inv => AttemptsBounded
  BY Zenon DEF Inv
<1>2. QED
  BY InvHolds, <1>1, PTL

\* While sounds are collected there is one still to come.
THEOREM SoundsPendingHolds == Spec => []SoundsPending
<1>1. Inv => SoundsPending
  BY Zenon DEF Inv
<1>2. QED
  BY InvHolds, <1>1, PTL

\* The vehicle whose link is searched or ready holds the network key in use.
THEOREM LinkedPeerHoldsKeyHolds == Spec => []LinkedPeerHoldsKey
<1>1. Inv => LinkedPeerHoldsKey
  BY Zenon DEF Inv
<1>2. QED
  BY InvHolds, <1>1, PTL

-----------------------------------------------------------------------------
\* Slac starts unpaired.
LEMMA ContractInit == Init => Contract!LInit
BY DEF Init, Contract!LInit, PhaseOf, Measuring

\* Every step of the task is a step of the contract, or none.
LEMMA ContractStep ==
    ASSUME PlaceOK, PeersOK, [Next]_vars
    PROVE  [Contract!LNext]_(Contract!linkVars)
<1> USE DEF PlaceOK, PeersOK, PhaseOf, Measuring, ModemStates, StartUp, Matched,
        Contract!LNext, Contract!linkVars,
        Contract!Ask, Contract!Match, Contract!Confirm, Contract!Drop
<1>1. CASE PilotOpens
  BY <1>1
     DEF PilotOpens, keyVars
<1>2. CASE FindModem
  BY <1>2
     DEF FindModem, PilotHolds, countVars, keyVars
<1>3. CASE CheckWriteSpace
  BY <1>3
     DEF CheckWriteSpace, PilotHolds, countVars, keyVars
<1>4. CASE SetKeyReq
  BY <1>4
     DEF SetKeyReq, PilotHolds, countVars
<1>5. CASE GetSwReq
  BY <1>5
     DEF GetSwReq, PilotHolds, countVars, keyVars
<1>6. CASE PollModem
  BY <1>6
     DEF PollModem, PilotHolds, countVars, keyVars
<1>7. CASE EndBurst
  BY <1>7
     DEF EndBurst, countVars, keyVars
<1>8. CASE InvalidFrame
  BY <1>8
     DEF InvalidFrame, countVars, keyVars
<1>9. CASE SoundsOver
  BY <1>9
     DEF SoundsOver, EndIteration, RotateKey, TransmitAttenCharInd, keyVars
<1>10. CASE ResponseTimeout
  BY <1>10
     DEF ResponseTimeout, EndIteration, RotateKey, TransmitAttenCharInd,
         ClearFailure, CanRetry, keyVars
<1>11. CASE MatchTimeout
  BY <1>11
     DEF MatchTimeout, EndIteration, RotateKey, ClearFailure, keyVars
<1>12. CASE SearchOver
  BY <1>12
     DEF SearchOver, EndIteration, RotateKey, keyVars
<1>13. CASE NoTimer
  BY <1>13
     DEF NoTimer, EndIteration, RotateKey, Expired, keyVars
<1>14. ASSUME NEW ok \in BOOLEAN, SetKeyCnf(ok)
      PROVE  [Contract!LNext]_(Contract!linkVars)
  BY <1>14
     DEF SetKeyCnf, InBurst, countVars
<1>15. ASSUME NEW p \in Pevs, NEW n \in 0 .. MaxSounds + 1, SlacParamReq(p, n)
      PROVE  [Contract!LNext]_(Contract!linkVars)
  BY <1>15
     DEF SlacParamReq, InBurst, keyVars
<1>16. ASSUME NEW n \in 0 .. MaxSounds + 1, StartAttenChar(n)
      PROVE  [Contract!LNext]_(Contract!linkVars)
  BY <1>16
     DEF StartAttenChar, InBurst, keyVars
<1>17. CASE AttenProfile
  BY <1>17
     DEF AttenProfile, InBurst, TransmitAttenCharInd, keyVars
<1>18. ASSUME NEW p \in Pevs, NEW ok \in BOOLEAN, AttenCharRsp(p, ok)
      PROVE  [Contract!LNext]_(Contract!linkVars)
  BY <1>18
     DEF AttenCharRsp, InBurst, TransmitAttenCharInd, SlacFailure,
         ClearFailure, CanRetry, keyVars
<1>19. ASSUME NEW p \in Pevs, NEW ok \in BOOLEAN, SlacMatchReq(p, ok)
      PROVE  [Contract!LNext]_(Contract!linkVars)
  BY <1>19
     DEF SlacMatchReq, InBurst, SlacFailure, ClearFailure
<1>20. CASE GetSwCnf
  BY <1>20
     DEF GetSwCnf, InBurst, countVars, keyVars
<1>21. CASE SetupEnds
  BY <1>21
     DEF SetupEnds, countVars, keyVars
<1>22. CASE UNCHANGED vars
  BY <1>22
     DEF vars, countVars, keyVars
<1>23. QED
  BY <1>1, <1>2, <1>3, <1>4, <1>5, <1>6, <1>7, <1>8, <1>9, <1>10, <1>11,
     <1>12, <1>13, <1>14, <1>15, <1>16, <1>17, <1>18, <1>19, <1>20, <1>21, <1>22
     DEF Next, Timer20ms, TaskStep, SlacManager

\* SLAC implements its contract: a ready link belongs to the vehicle that
\* asked for pairing last, one phase after the other.
THEOREM ContractImplemented == Spec => ImplementsContract
<1>1. Inv /\ [Next]_vars => [Contract!LNext]_(Contract!linkVars)
  BY ContractStep, Zenon DEF Inv
<1>2. QED
  BY InvHolds, ContractInit, <1>1, PTL DEF Spec, ImplementsContract, Contract!LSpec
=============================================================================
