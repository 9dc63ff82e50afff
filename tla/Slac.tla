-------------------------------- MODULE Slac --------------------------------
(***************************************************************************)
(* Pairing with the vehicle over power line communication: the local       *)
(* modem's start-up, SLAC (SlacManager) and the 20 ms task (Timer20ms) of  *)
(* src/main.cpp that polls the modem and runs the SLAC timers.             *)
(*                                                                         *)
(* One iteration of the task is: sample the control pilot, act on          *)
(* modem_state, handle the frames of one burst read from the modem, check  *)
(* the timers, rotate the network key.  The task is one thread, and pc is  *)
(* where it stands between the actions below.  Frames are inputs: any      *)
(* vehicle may send any frame at any time, so frames are also lost,        *)
(* repeated, late and out of order.  Only the local modem is trusted to    *)
(* answer CM_SET_KEY.REQ at most once per request.                         *)
(*                                                                         *)
(* Time is counted in iterations.  Each timer of the code is set on entry  *)
(* to the state it times and read in that state only: age stands for all   *)
(* four.  The attenuation averages, MACs and composed frames are           *)
(* abstracted to the vehicle they belong to.                               *)
(***************************************************************************)
EXTENDS Integers, FiniteSets

CONSTANTS
    Pevs,               \* vehicles in reach of the modem (MAC and run id)
    NoPev,              \* none of them
    MaxSounds,          \* MAX_SUPPORTED_SOUND_COUNT
    MaxAttempts,        \* ATTEN_CHAR_MAX_RETRIES
    InvalidThreshold,   \* INVALID_FRAME_THRESHOLD
    SoundWindow,        \* currentSoundWindowMs, in iterations
    ResponseWindow,     \* ATTEN_CHAR_RESPONSE_TIMEOUT_MS
    MatchWindow,        \* currentMatchWindowMs
    SearchWindow        \* the 1000 ms of the modem search

ASSUME SlacAssumption ==
    /\ NoPev \notin Pevs
    /\ MaxSounds \in 1 .. 255
    /\ MaxAttempts \in 1 .. 254
    /\ InvalidThreshold \in 1 .. 255
    /\ {SoundWindow, ResponseWindow, MatchWindow, SearchWindow} \subseteq Nat \ {0}

VARIABLES
    pc,          \* where the task stands: "start", "poll", "timers", "spin"
    modem,       \* modem_state
    booted,      \* setup() has reached its last statement
    cp,          \* lastCpConnected
    rot,         \* pendingSessionKeyRotation
    attempts,    \* attenCharRetryCounter
    sounds,      \* negotiatedSoundCount
    profiles,    \* ReceivedProfiles
    age,         \* iterations since the timer of the current state was set
    found,       \* ModemsFound, 2 standing for every larger count
    invalid,     \* invalidFrameCounter
    pev,         \* pevMac and pevRunId
    asked,       \* the local modem owes an answer to CM_SET_KEY.REQ
    holders      \* who was given the current NMK, in a SLAC_MATCH.CNF

countVars == <<attempts, sounds, profiles>>
keyVars   == <<asked, holders>>
vars == <<pc, modem, booted, cp, rot, countVars, age, found, invalid, pev, keyVars>>

\* The states of modem_state, grouped by what the task does in them.
StartUp   == {"POWERUP", "WRITESPACE", "CM_SET_KEY_REQ"}
Measuring == {"MNBC_SOUND", "ATTEN_CHAR_IND", "ATTEN_CHAR_RSP"}
Matched   == {"GET_SW_REQ", "WAIT_SW", "LINK_READY"}
Timed     == Measuring \cup {"WAIT_SW"}
ModemStates == StartUp \cup Measuring \cup Matched
               \cup {"CM_SET_KEY_CNF", "CONFIGURED", "SLAC_PARAM_CNF"}

\* How long the timer of state m runs.
Window(m) ==
    CASE m = "MNBC_SOUND"     -> SoundWindow
      [] m = "ATTEN_CHAR_IND" -> ResponseWindow
      [] m = "ATTEN_CHAR_RSP" -> MatchWindow
      [] m = "WAIT_SW"        -> SearchWindow
      [] OTHER                -> 0

FlagsOK ==
    /\ booted \in BOOLEAN /\ cp \in BOOLEAN
    /\ rot \in BOOLEAN /\ asked \in BOOLEAN

PlaceOK == pc \in {"start", "poll", "timers", "spin"} /\ modem \in ModemStates

PeersOK == pev \in Pevs \cup {NoPev} /\ holders \subseteq Pevs

CountsOK ==
    /\ attempts \in 0 .. MaxAttempts
    /\ sounds \in 1 .. MaxSounds
    /\ profiles \in 0 .. sounds
    /\ found \in 0 .. 2
    /\ invalid \in 0 .. InvalidThreshold - 1

AgeOK == age \in 0 .. Window(modem) + 1

\* The types of the variables.  The counters of the code are uint8_t: none
\* of them wraps, and a timer is read before it is two periods late.
TypeOK == FlagsOK /\ PlaceOK /\ PeersOK /\ CountsOK /\ AgeOK

Init ==
    /\ pc = "start" /\ modem = "POWERUP"
    /\ booted = FALSE /\ cp = FALSE /\ rot = FALSE
    /\ attempts = 0 /\ sounds = MaxSounds /\ profiles = 0
    /\ age = 0 /\ found = 0 /\ invalid = 0
    /\ pev = NoPev /\ asked = FALSE /\ holders = {}

-----------------------------------------------------------------------------
\* The control pilot and the switch over modem_state.

\* The vehicle has left: measurements cleared, SLAC rearmed whatever state
\* the modem was in, a new key scheduled; the switch then polls.
PilotOpens ==
    /\ pc = "start" /\ cp
    /\ cp' = FALSE /\ rot' = TRUE
    /\ modem' = "CONFIGURED" /\ profiles' = 0 /\ age' = 0
    /\ pc' = "poll"
    /\ UNCHANGED <<booted, attempts, sounds, found, invalid, pev, keyVars>>

\* Any other sample of the pilot.
PilotHolds ==
    /\ pc = "start"
    /\ cp' \in {cp, TRUE}
    /\ UNCHANGED <<booted, rot, countVars, invalid, pev>>

\* The signature register reads back right, or not yet.
FindModem ==
    /\ modem = "POWERUP" /\ PilotHolds
    /\ modem' \in {"POWERUP", "WRITESPACE"} /\ pc' = "timers"
    /\ UNCHANGED <<age, found, keyVars>>

CheckWriteSpace ==
    /\ modem = "WRITESPACE" /\ PilotHolds
    /\ modem' \in {"WRITESPACE", "CM_SET_KEY_REQ"} /\ pc' = "timers"
    /\ UNCHANGED <<age, found, keyVars>>

\* randomizeNmk and CM_SET_KEY.REQ: nobody holds the new key.
SetKeyReq ==
    /\ modem = "CM_SET_KEY_REQ" /\ PilotHolds
    /\ modem' = "CM_SET_KEY_CNF" /\ pc' = "timers"
    /\ asked' = TRUE /\ holders' = {}
    /\ UNCHANGED <<age, found>>

GetSwReq ==
    /\ modem = "GET_SW_REQ" /\ PilotHolds
    /\ modem' = "WAIT_SW" /\ pc' = "timers"
    /\ found' = 0 /\ age' = 0
    /\ UNCHANGED keyVars

\* default: qcaspi_read_burst.
PollModem ==
    /\ modem \notin StartUp \cup {"GET_SW_REQ"} /\ PilotHolds
    /\ pc' = "poll"
    /\ UNCHANGED <<modem, age, found, keyVars>>

-----------------------------------------------------------------------------
\* The frames of the burst (SlacManager).

InBurst ==
    /\ pc = "poll"
    /\ invalid' = 0
    /\ UNCHANGED <<pc, booted, cp>>

\* Mutants: the clamp of a requested sound count loses one side.
ClampAboveOnly(n) == IF n > MaxSounds THEN MaxSounds ELSE n
ClampBelowOnly(n) == IF n = 0 THEN 1 ELSE n

Clamp(n) ==
    IF n = 0 THEN 1 ELSE IF n > MaxSounds THEN MaxSounds ELSE n

\* Mutant: one transmission too many.
CanRetryOnceMore == attempts <= MaxAttempts

CanRetry == attempts < MaxAttempts

\* transmitAttenCharInd.  Its timer is set by the callers.
TransmitAttenCharInd ==
    /\ modem' = "ATTEN_CHAR_IND"
    /\ attempts' = attempts + 1

\* handleSlacFailure without modem_state.  slacRetryCounter is counted but
\* nothing depends on it.
ClearFailure ==
    /\ attempts' = 0
    /\ profiles' = 0

SlacFailure ==
    /\ ClearFailure
    /\ modem' = "CONFIGURED" /\ rot' = TRUE /\ age' = 0

\* CM_SET_KEY.CNF, whatever state it is received in.
SetKeyCnf(ok) ==
    /\ InBurst /\ asked
    /\ asked' = FALSE
    /\ modem' = IF ok THEN "CONFIGURED" ELSE modem
    /\ age' = IF ok THEN 0 ELSE age
    /\ UNCHANGED <<rot, countVars, found, pev, holders>>

\* Mutant: a repeated request no longer ends the search of the modems.
SlacParamReqKeepsSearch(p, n) ==
    /\ InBurst
    /\ pev' = p
    /\ sounds' = Clamp(n) /\ profiles' = 0 /\ attempts' = 0
    /\ modem' = IF modem = "WAIT_SW" THEN modem ELSE "SLAC_PARAM_CNF"
    /\ age' = IF modem = "WAIT_SW" THEN age ELSE 0
    /\ UNCHANGED <<rot, found, keyVars>>

\* CM_SLAC_PARAM.REQ, whatever state it is received in.
SlacParamReq(p, n) ==
    /\ InBurst
    /\ pev' = p
    /\ sounds' = Clamp(n) /\ profiles' = 0 /\ attempts' = 0
    /\ modem' = "SLAC_PARAM_CNF" /\ age' = 0
    /\ UNCHANGED <<rot, found, keyVars>>

\* CM_START_ATTEN_CHAR.IND; a count of 0 keeps the one negotiated.
StartAttenChar(n) ==
    /\ InBurst /\ modem = "SLAC_PARAM_CNF"
    /\ sounds' = IF n = 0 THEN sounds ELSE Clamp(n)
    /\ profiles' = 0 /\ attempts' = 0
    /\ modem' = "MNBC_SOUND" /\ age' = 0
    /\ UNCHANGED <<rot, found, pev, keyVars>>

\* CM_ATTEN_PROFILE.IND of sufficient length; the last one is answered.
AttenProfile ==
    /\ InBurst /\ modem = "MNBC_SOUND" /\ profiles < sounds
    /\ profiles' = profiles + 1
    /\ \/ /\ profiles' < sounds
          /\ UNCHANGED <<modem, attempts, age>>
       \/ /\ profiles' >= sounds
          /\ TransmitAttenCharInd /\ age' = 0
    /\ UNCHANGED <<rot, sounds, found, pev, keyVars>>

\* CM_ATTEN_CHAR.RSP from p, reporting success or not.
AttenCharRsp(p, ok) ==
    /\ InBurst /\ modem = "ATTEN_CHAR_IND"
    /\ \/ /\ p = pev /\ ok
          /\ modem' = "ATTEN_CHAR_RSP" /\ age' = 0 /\ attempts' = 0
          /\ UNCHANGED <<rot, profiles>>
       \/ /\ ~(p = pev /\ ok) /\ CanRetry
          /\ TransmitAttenCharInd /\ age' = 0
          /\ UNCHANGED <<rot, profiles>>
       \/ /\ ~(p = pev /\ ok) /\ ~CanRetry
          /\ SlacFailure
    /\ UNCHANGED <<sounds, found, pev, keyVars>>

\* Mutant: CM_SLAC_MATCH.REQ is answered whatever the state.
SlacMatchReqAnytime(p, ok) ==
    /\ InBurst
    /\ p = pev /\ ok
    /\ modem' = "GET_SW_REQ" /\ age' = 0 /\ attempts' = 0
    /\ holders' = holders \cup {pev}
    /\ UNCHANGED <<rot, profiles, sounds, found, pev, asked>>

\* CM_SLAC_MATCH.REQ from p, well formed or not.  The answer carries the
\* NMK and is addressed to pevMac.
SlacMatchReq(p, ok) ==
    /\ InBurst /\ modem = "ATTEN_CHAR_RSP"
    /\ \/ /\ p = pev /\ ok
          /\ modem' = "GET_SW_REQ" /\ age' = 0 /\ attempts' = 0
          /\ holders' = holders \cup {pev}
          /\ UNCHANGED <<rot, profiles>>
       \/ /\ ~(p = pev /\ ok)
          /\ SlacFailure
          /\ UNCHANGED holders
    /\ UNCHANGED <<sounds, found, pev, asked>>

\* CM_GET_SW.CNF from any modem.
GetSwCnf ==
    /\ InBurst /\ modem = "WAIT_SW"
    /\ found' = IF found < 2 THEN found + 1 ELSE 2
    /\ UNCHANGED <<modem, rot, countVars, age, pev, keyVars>>

\* The burst holds nothing more.
EndBurst ==
    /\ pc = "poll" /\ pc' = "timers"
    /\ UNCHANGED <<modem, booted, cp, rot, countVars, age, found, invalid, pev,
                   keyVars>>

\* The burst does not start with a frame header: the loop over the burst
\* neither reads again nor shortens it, so the task never leaves the loop.
InvalidFrame ==
    /\ pc \in {"poll", "spin"} /\ pc' = "spin"
    /\ \/ /\ invalid + 1 < InvalidThreshold
          /\ invalid' = invalid + 1
          /\ UNCHANGED <<modem, age>>
       \/ /\ invalid + 1 >= InvalidThreshold       \* ModemReset
          /\ invalid' = 0
          /\ modem' = "POWERUP" /\ age' = 0
    /\ UNCHANGED <<booted, cp, rot, countVars, found, pev, keyVars>>

-----------------------------------------------------------------------------
\* The timers at the end of an iteration.  Each action ends with the key
\* rotation, which replaces modem_state once more, and with the 20 ms pause.

Expired == modem \in Timed /\ age > Window(modem)

\* The state the iteration leaves when the timers leave m and the pending
\* rotation r.
RotateKey(m, r) ==
    /\ modem' = IF r /\ m = "CONFIGURED" THEN "CM_SET_KEY_REQ" ELSE m
    /\ rot' = (r /\ m # "CONFIGURED")

EndIteration ==
    /\ pc = "timers" /\ pc' = "start"
    /\ UNCHANGED <<booted, cp, sounds, found, invalid, pev, keyVars>>

\* The attenuation is reported when the sound window is over.
SoundsOver ==
    /\ EndIteration /\ modem = "MNBC_SOUND" /\ (profiles >= sounds \/ Expired)
    /\ TransmitAttenCharInd /\ RotateKey("ATTEN_CHAR_IND", rot)
    /\ age' = 1
    /\ UNCHANGED profiles

\* Mutant: the timer reports again without asking for a retry.
ResponseTimeoutUncounted ==
    /\ EndIteration /\ modem = "ATTEN_CHAR_IND" /\ Expired
    /\ RotateKey("ATTEN_CHAR_IND", rot)
    /\ age' = 1
    /\ UNCHANGED <<attempts, profiles>>

\* No CM_ATTEN_CHAR.RSP: report again, or give up.
ResponseTimeout ==
    /\ EndIteration /\ modem = "ATTEN_CHAR_IND" /\ Expired
    /\ \/ /\ CanRetry
          /\ TransmitAttenCharInd /\ RotateKey("ATTEN_CHAR_IND", rot)
          /\ age' = 1
          /\ UNCHANGED profiles
       \/ /\ ~CanRetry
          /\ ClearFailure /\ age' = 0
          /\ RotateKey("CONFIGURED", TRUE)

\* No CM_SLAC_MATCH.REQ.
MatchTimeout ==
    /\ EndIteration /\ modem = "ATTEN_CHAR_RSP" /\ Expired
    /\ ClearFailure /\ age' = 0
    /\ RotateKey("CONFIGURED", TRUE)

\* Both modems answered: the private network is up.  Else ask again.
SearchOver ==
    /\ EndIteration /\ modem = "WAIT_SW" /\ Expired
    /\ RotateKey(IF found >= 2 THEN "LINK_READY" ELSE "GET_SW_REQ", rot)
    /\ age' = 0
    /\ UNCHANGED <<attempts, profiles>>

NoTimer ==
    /\ EndIteration /\ ~Expired /\ ~(modem = "MNBC_SOUND" /\ profiles >= sounds)
    /\ RotateKey(modem, rot)
    /\ age' = IF modem \in Timed THEN age + 1 ELSE 0
    /\ UNCHANGED <<attempts, profiles>>

-----------------------------------------------------------------------------
\* setup() starts the task first, then initialises the drivers for longer
\* than a few iterations, and ends by setting modem_state to POWERUP.
SetupEnds ==
    /\ ~booted /\ booted' = TRUE
    /\ modem' = "POWERUP" /\ age' = 0
    /\ UNCHANGED <<pc, cp, rot, countVars, found, invalid, pev, keyVars>>

SlacManager ==
    \/ \E ok \in BOOLEAN : SetKeyCnf(ok)
    \/ \E p \in Pevs, n \in 0 .. MaxSounds + 1 : SlacParamReq(p, n)
    \/ \E n \in 0 .. MaxSounds + 1 : StartAttenChar(n)
    \/ AttenProfile
    \/ \E p \in Pevs, ok \in BOOLEAN : AttenCharRsp(p, ok) \/ SlacMatchReq(p, ok)
    \/ GetSwCnf

\* What the task does by itself, whatever is received.
TaskStep ==
    \/ PilotOpens
    \/ FindModem \/ CheckWriteSpace \/ SetKeyReq \/ GetSwReq \/ PollModem
    \/ EndBurst \/ (pc = "spin" /\ InvalidFrame)
    \/ SoundsOver \/ ResponseTimeout \/ MatchTimeout \/ SearchOver \/ NoTimer

Timer20ms == TaskStep \/ SlacManager \/ (pc = "poll" /\ InvalidFrame)

Next == Timer20ms \/ SetupEnds

Spec == Init /\ [][Next]_vars

\* The task keeps running, and a burst holds finitely many frames.
FairSpec == Spec /\ WF_vars(TaskStep)

-----------------------------------------------------------------------------
\* Properties.

\* While CM_ATTEN_CHAR.RSP is awaited the report has been sent at least once
\* and at most ATTEN_CHAR_MAX_RETRIES times: invalid responses and timeouts
\* share one budget.
AttemptsBounded ==
    modem = "ATTEN_CHAR_IND" => attempts \in 1 .. MaxAttempts

\* While sounds are collected there is one still to come: the sound count a
\* vehicle asks for, 0 included, never makes the measurement complete before
\* its first profile.
SoundsPending ==
    modem = "MNBC_SOUND" => profiles < sounds

\* The vehicle whose link is searched or ready was given the network key now
\* in use: neither a key rotation nor a request of another vehicle leaves the
\* link to somebody without it.
LinkedPeerHoldsKey ==
    modem \in Matched => pev \in holders

\* Every measurement ends: a vehicle that stops answering, or keeps
\* answering wrongly, does not keep SLAC in it.
MeasuringEnds ==
    (modem \in Measuring) ~> (modem \notin Measuring)

\* The phases SlacContract speaks of.
PhaseOf(s) ==
    CASE s = "LINK_READY"                         -> "Linked"
      [] s \in {"GET_SW_REQ", "WAIT_SW"}          -> "Matched"
      [] s \in Measuring \cup {"SLAC_PARAM_CNF"}  -> "Pairing"
      [] OTHER                                    -> "Unpaired"

Contract == INSTANCE SlacContract WITH
    phase <- PhaseOf(modem),
    peer  <- IF PhaseOf(modem) = "Unpaired" THEN NoPev ELSE pev

\* SLAC keeps its contract: phases in order, one vehicle from the request
\* for pairing to the ready link.
ImplementsContract == Contract!LSpec
=============================================================================
