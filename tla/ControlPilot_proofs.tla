------------------------ MODULE ControlPilot_proofs ------------------------
(***************************************************************************)
(* Proofs about ControlPilot, for every length of the ring, every number   *)
(* of bursts of the hysteresis and every cap of its counter: the types,    *)
(* that a lost pilot is noticed in time, and that a vehicle is not taken   *)
(* for gone on less than a ring of low bursts.                             *)
(***************************************************************************)
EXTENDS ControlPilot, TLAPS

-----------------------------------------------------------------------------
(* The operators the model is built from.                                  *)

\* A set of levels that is not empty has a highest one, and Max is it.
LEMMA MaxLevel ==
    ASSUME NEW S \in SUBSET Levels, S # {}
    PROVE  Max(S) \in S /\ \A y \in S : y <= Max(S)
<1>1. \E x \in S : \A y \in S : x >= y
  <2>1. S \subseteq {0, 1, 2, 3, 4, 5}
    BY DEF Levels
  <2>2. CASE 5 \in S
    BY <2>1, <2>2
  <2>3. CASE 5 \notin S /\ 4 \in S
    BY <2>1, <2>3
  <2>4. CASE 5 \notin S /\ 4 \notin S /\ 3 \in S
    BY <2>1, <2>4
  <2>5. CASE 5 \notin S /\ 4 \notin S /\ 3 \notin S /\ 2 \in S
    BY <2>1, <2>5
  <2>6. CASE S \subseteq {0, 1} /\ 1 \in S
    BY <2>1, <2>6
  <2>7. CASE S = {0}
    BY <2>7
  <2> QED
    BY <2>1, <2>2, <2>3, <2>4, <2>5, <2>6, <2>7
<1> QED
  BY <1>1 DEF Max, Levels

\* The larger and the smaller of two integers.
LEMMA MaxOfTwo ==
    ASSUME NEW a \in Int, NEW b \in Int
    PROVE  Max({a, b}) = IF a >= b THEN a ELSE b
<1>1. CASE a >= b
  BY <1>1 DEF Max
<1>2. CASE ~(a >= b)
  BY <1>2 DEF Max
<1> QED
  BY <1>1, <1>2

LEMMA MinOfTwo ==
    ASSUME NEW a \in Int, NEW b \in Int
    PROVE  Min({a, b}) = IF a <= b THEN a ELSE b
<1>1. CASE a <= b
  BY <1>1 DEF Min
<1>2. CASE ~(a <= b)
  BY <1>2 DEF Min
<1> QED
  BY <1>1, <1>2

\* The constants are positive, and the bound of the history variable covers
\* the ring and the hysteresis.
LEMMA Bounds ==
    /\ RingLen \in Nat \ {0} /\ DemoteBursts \in Nat \ {0} /\ RunCap \in Nat
    /\ DemoteBursts <= RunCap
    /\ FaultBound \in Nat \ {0} /\ RingLen <= FaultBound /\ DemoteBursts <= FaultBound
  BY CpAssumption, MaxOfTwo DEF CpAssumption, FaultBound

\* The highest burst of a ring that is not empty is one of its bursts, and no
\* burst is above it.
LEMMA HighestBurst ==
    ASSUME NEW r \in Seq(Levels), r # <<>>
    PROVE  /\ Max(Range(r)) \in Levels
           /\ \E i \in 1 .. Len(r) : Max(Range(r)) = r[i]
           /\ \A i \in 1 .. Len(r) : r[i] <= Max(Range(r))
<1>1. DOMAIN r = 1 .. Len(r) /\ Len(r) \in Nat \ {0}
  OBVIOUS
<1>2. Range(r) \in SUBSET Levels /\ Range(r) # {}
  BY <1>1 DEF Range
<1>3. Max(Range(r)) \in Range(r) /\ \A y \in Range(r) : y <= Max(Range(r))
  BY <1>2, MaxLevel
<1> QED
  BY <1>1, <1>2, <1>3 DEF Range

\* A burst p is the newest one of the ring r it was pushed into; the older ones
\* keep their order, and only a full ring gives one up.
Pushed(p, r) ==
    /\ r \in Seq(Levels) /\ r # <<>>
    /\ Len(r) \in Nat \ {0} /\ Len(r) <= RingLen
    /\ r[Len(r)] = p
    /\ \/ /\ Len(ring) < RingLen /\ Len(r) = Len(ring) + 1
          /\ \A i \in 1 .. Len(r) - 1 : r[i] = ring[i]
       \/ /\ Len(ring) = RingLen /\ Len(r) = RingLen
          /\ \A i \in 1 .. Len(r) - 1 : r[i] = ring[i + 1]

LEMMA RingPushed ==
    ASSUME NEW p \in Levels, ring \in Seq(Levels), Len(ring) <= RingLen
    PROVE  Pushed(p, RingPush(p))
<1> DEFINE r == RingPush(p)
<1>1. Len(ring) \in Nat /\ RingLen \in Nat \ {0}
  BY Bounds
<1>2. CASE Len(ring) = RingLen
  <2>1. ring # <<>> /\ r = Append(Tail(ring), p)
    BY <1>1, <1>2 DEF RingPush
  <2>2. /\ Tail(ring) \in Seq(Levels) /\ Len(Tail(ring)) = Len(ring) - 1
        /\ \A i \in 1 .. Len(ring) - 1 : Tail(ring)[i] = ring[i + 1]
    BY <2>1
  <2> QED
    BY <1>1, <1>2, <2>1, <2>2 DEF Pushed
<1>3. CASE Len(ring) # RingLen
  BY <1>1, <1>3 DEF RingPush, Pushed
<1> QED
  BY <1>2, <1>3

\* What cp_tick makes of the ring: the highest level in it, or B by the
\* hysteresis.
LEMMA Classified ==
    ASSUME NEW r \in Seq(Levels), r # <<>>, NEW run \in Nat
    PROVE  /\ Classify(r, run) \in Levels
           /\ \/ Classify(r, run) = Max(Range(r))
              \/ /\ Classify(r, run) = LevelB /\ state = LevelB
                 /\ Max(Range(r)) < LevelB /\ run < DemoteBursts
<1>1. Max(Range(r)) \in Levels
  BY HighestBurst
<1> QED
  BY <1>1, Bounds DEF Classify, Levels, LevelB

-----------------------------------------------------------------------------
(* The inductive invariant.                                                *)

\* The newest bursts of the ring are as low as the history says.
FaultyBurstsLow ==
    \A i \in 1 .. Len(ring) : i > Len(ring) - faulty => ring[i] <= LevelE

\* The hysteresis has counted them, as far as it matters.
FaultyBurstsCounted == belowB >= faulty \/ belowB >= DemoteBursts

\* A vehicle is connected by a ring without a burst in A ...
ConnectedBelowA ==
    Connected => \A i \in 1 .. Len(ring) : ring[i] <= LevelB

\* ... and as long as the ring has room, by a burst that is still in it.
ConnectedByBurst ==
    Connected /\ Len(ring) < RingLen =>
        \E i \in 1 .. Len(ring) : ring[i] \in ConnectedLevels

IInv ==
    /\ TypeOK
    /\ FaultyBurstsLow /\ FaultyBurstsCounted /\ FaultSeen
    /\ ConnectedBelowA /\ ConnectedByBurst

-----------------------------------------------------------------------------
(* One step.                                                               *)

LEMMA InitInv == Init => IInv
<1> SUFFICES ASSUME Init PROVE IInv
  OBVIOUS
<1>1. TypeOK
  <2>1. ring \in Seq(Levels) /\ Len(ring) <= RingLen
    BY Bounds DEF Init
  <2>2. LevelA \in Levels
    BY DEF Levels, LevelA
  <2>3. belowB \in 0 .. RunCap /\ faulty \in 0 .. FaultBound
    BY Bounds DEF Init
  <2>4. duty \in {"full", "pulsed"} /\ coil \in BOOLEAN
    BY DEF Init
  <2>5. state \in Levels
    BY <2>2 DEF Init
  <2> QED
    BY <2>1, <2>3, <2>4, <2>5 DEF TypeOK
<1>2. FaultyBurstsLow /\ FaultyBurstsCounted
  BY DEF Init, FaultyBurstsLow, FaultyBurstsCounted
<1>3. ~Connected /\ FaultSeen
  BY DEF Init, FaultSeen, Connected, ConnectedLevels, LevelA, LevelB, LevelC, LevelD
<1> QED
  BY <1>1, <1>2, <1>3 DEF IInv, ConnectedBelowA, ConnectedByBurst

\* The contactor's command leaves the pilot's memory alone.
LEMMA CommandInv ==
    ASSUME IInv, NEW on \in BOOLEAN, ContactorCommand(on)
    PROVE  IInv'
  BY DEF IInv, ContactorCommand, TypeOK, FaultyBurstsLow, FaultyBurstsCounted,
         FaultSeen, ConnectedBelowA, ConnectedByBurst, Connected

\* The ring and the counter of the hysteresis after a burst.
LEMMA TickPushes ==
    ASSUME IInv, NEW p \in Levels, NEW k \in Levels, CpTick(p, k)
    PROVE  Pushed(p, ring') /\ Len(ring) \in Nat
<1>1. /\ ring \in Seq(Levels) /\ Len(ring) <= RingLen
      /\ ring' = RingPush(p)
  BY DEF IInv, TypeOK, CpTick
<1> QED
  BY <1>1, RingPushed

\* The counter keeps its range, and the state is what Classify says.
LEMMA TickClassifies ==
    ASSUME IInv, NEW p \in Levels, NEW k \in Levels, CpTick(p, k)
    PROVE  /\ belowB' \in 0 .. RunCap
           /\ state' \in Levels
           /\ \/ state' = Max(Range(ring'))
              \/ /\ state' = LevelB /\ state = LevelB
                 /\ Max(Range(ring')) < LevelB /\ belowB' < DemoteBursts
<1>1. belowB \in 0 .. RunCap /\ RunCap \in Nat
  BY Bounds DEF IInv, TypeOK
<1>2. belowB' \in 0 .. RunCap
  BY <1>1, MinOfTwo DEF CpTick
<1>3. ring' \in Seq(Levels) /\ ring' # <<>> /\ belowB' \in Nat
  BY <1>1, <1>2, TickPushes DEF Pushed
<1>4. state' = Classify(ring', belowB')
  BY DEF CpTick
<1>5. \A run \in Nat : \A r \in Seq(Levels) : r # <<>> =>
        /\ Classify(r, run) \in Levels
        /\ \/ Classify(r, run) = Max(Range(r))
           \/ /\ Classify(r, run) = LevelB /\ state = LevelB
              /\ Max(Range(r)) < LevelB /\ run < DemoteBursts
  BY Classified
<1> QED
  BY <1>2, <1>3, <1>4, <1>5

\* The types after a burst.
LEMMA TickTyped ==
    ASSUME IInv, NEW p \in Levels, NEW k \in Levels, CpTick(p, k)
    PROVE  TypeOK'
<1>1. ring' \in Seq(Levels) /\ ring' # <<>> /\ Len(ring') <= RingLen
  BY TickPushes DEF Pushed
<1>2. belowB' \in 0 .. RunCap
  BY TickClassifies
<1>3. state' \in Levels
  BY TickClassifies
<1>4. duty' \in {"full", "pulsed"}
  BY DEF CpTick, DutyOf
<1>5. coil' \in BOOLEAN
  BY DEF CpTick, IInv, TypeOK, Connected
<1>6. faulty' \in 0 .. FaultBound
  <2>1. faulty \in 0 .. FaultBound /\ FaultBound \in Nat
    BY Bounds DEF IInv, TypeOK
  <2> QED
    BY <2>1, MinOfTwo DEF CpTick
<1> QED
  BY <1>1, <1>2, <1>3, <1>4, <1>5, <1>6 DEF TypeOK

\* A burst in E or F lengthens the run of low bursts in the ring by one, any
\* other ends it.
LEMMA TickFaulty ==
    ASSUME IInv, NEW p \in Levels, NEW k \in Levels, CpTick(p, k)
    PROVE  FaultyBurstsLow' /\ FaultyBurstsCounted'
<1>1. /\ faulty \in Nat /\ FaultBound \in Nat \ {0}
      /\ belowB \in Nat /\ RunCap \in Nat /\ belowB <= RunCap
      /\ DemoteBursts \in Nat /\ DemoteBursts <= RunCap
  BY Bounds DEF IInv, TypeOK
<1>2. CASE k <= LevelE
  <2>1. faulty' \in Nat /\ faulty' <= faulty + 1
    BY <1>1, <1>2, MinOfTwo DEF CpTick
  <2>2. p <= LevelE
    BY <1>2 DEF CpTick, Levels, LevelE
  <2>3. belowB' = IF belowB + 1 <= RunCap THEN belowB + 1 ELSE RunCap
    <3>1. ~(k >= LevelB)
      BY <1>2 DEF LevelE, LevelB, Levels
    <3> QED
      BY <1>1, <3>1, MinOfTwo DEF CpTick
  <2>4. FaultyBurstsCounted'
    BY <1>1, <2>1, <2>3 DEF IInv, FaultyBurstsCounted
  <2>5. FaultyBurstsLow'
    <3> SUFFICES ASSUME NEW i \in 1 .. Len(ring'), i > Len(ring') - faulty'
                 PROVE  ring'[i] <= LevelE
      BY DEF FaultyBurstsLow
    <3>1. /\ Len(ring') \in Nat /\ ring'[Len(ring')] = p
          /\ \/ /\ Len(ring') = Len(ring) + 1
                /\ \A j \in 1 .. Len(ring') - 1 : ring'[j] = ring[j]
             \/ /\ Len(ring') = Len(ring)
                /\ \A j \in 1 .. Len(ring') - 1 : ring'[j] = ring[j + 1]
      BY TickPushes DEF Pushed
    <3>2. Len(ring) \in Nat
      BY DEF IInv, TypeOK
    <3>3. \A j \in 1 .. Len(ring) : j > Len(ring) - faulty => ring[j] <= LevelE
      BY DEF IInv, FaultyBurstsLow
    <3>4. CASE i = Len(ring')
      BY <2>2, <3>1, <3>4
    <3>5. CASE i # Len(ring') /\ Len(ring') = Len(ring) + 1
                 /\ \A j \in 1 .. Len(ring') - 1 : ring'[j] = ring[j]
      BY <1>1, <2>1, <3>2, <3>3, <3>5
    <3>6. CASE i # Len(ring') /\ Len(ring') = Len(ring)
                 /\ \A j \in 1 .. Len(ring') - 1 : ring'[j] = ring[j + 1]
      BY <1>1, <2>1, <3>2, <3>3, <3>6
    <3> QED
      BY <3>1, <3>4, <3>5, <3>6
  <2> QED
    BY <2>4, <2>5
<1>3. CASE ~(k <= LevelE)
  <2>1. faulty' = 0 /\ belowB' \in Nat
    BY <1>1, <1>3, MinOfTwo DEF CpTick
  <2>2. Len(ring') \in Nat
    BY TickPushes DEF Pushed
  <2> QED
    BY <2>1, <2>2 DEF FaultyBurstsLow, FaultyBurstsCounted
<1> QED
  BY <1>2, <1>3

\* When the run of low bursts is as long as the ring and the hysteresis, both
\* have forgotten the vehicle.
LEMMA TickNotices ==
    ASSUME TypeOK', FaultyBurstsLow', FaultyBurstsCounted', IInv,
           NEW p \in Levels, NEW k \in Levels, CpTick(p, k)
    PROVE  FaultSeen'
<1> SUFFICES ASSUME faulty' = FaultBound PROVE ~Connected'
  BY DEF FaultSeen, FaultBound
<1>1. ring' \in Seq(Levels) /\ ring' # <<>> /\ Len(ring') <= RingLen
  BY TickPushes DEF Pushed
<1>2. \A i \in 1 .. Len(ring') : ring'[i] <= LevelE
  BY <1>1, Bounds DEF FaultyBurstsLow
<1>3. Max(Range(ring')) <= LevelE
  BY <1>1, <1>2, HighestBurst
<1>4. belowB' \in Nat
  BY TickClassifies, Bounds
<1>5. belowB' >= DemoteBursts
  BY <1>4, Bounds DEF FaultyBurstsCounted
<1>6. state' = Max(Range(ring'))
  BY <1>4, <1>5, TickClassifies, Bounds
<1> QED
  BY <1>3, <1>6 DEF Connected, ConnectedLevels, LevelB, LevelC, LevelD, LevelE

\* What keeps a vehicle connected.
LEMMA TickKeeps ==
    ASSUME IInv, NEW p \in Levels, NEW k \in Levels, CpTick(p, k)
    PROVE  ConnectedBelowA' /\ ConnectedByBurst'
<1> SUFFICES ASSUME Connected'
             PROVE  /\ \A i \in 1 .. Len(ring') : ring'[i] <= LevelB
                    /\ Len(ring') < RingLen =>
                         \E i \in 1 .. Len(ring') : ring'[i] \in ConnectedLevels
  BY DEF ConnectedBelowA, ConnectedByBurst
<1>1. ring' \in Seq(Levels) /\ ring' # <<>>
  BY TickPushes DEF Pushed
<1>2. /\ Max(Range(ring')) \in Levels
      /\ \E i \in 1 .. Len(ring') : Max(Range(ring')) = ring'[i]
      /\ \A i \in 1 .. Len(ring') : ring'[i] <= Max(Range(ring'))
  BY <1>1, HighestBurst
<1>3. CASE state' = Max(Range(ring'))
  <2>1. Max(Range(ring')) \in ConnectedLevels
    BY <1>3 DEF Connected
  <2>2. \A i \in 1 .. Len(ring') : ring'[i] \in Levels
    BY <1>1
  <2> QED
    BY <1>2, <2>1, <2>2 DEF ConnectedLevels, Levels, LevelB, LevelC, LevelD
<1>4. CASE state = LevelB /\ Max(Range(ring')) < LevelB
  <2>1. \A i \in 1 .. Len(ring') : ring'[i] \in Levels
    BY <1>1
  <2>2. \A i \in 1 .. Len(ring') : ring'[i] <= LevelB
    BY <1>2, <1>4, <2>1 DEF Levels, LevelB
  <2>3. ASSUME Len(ring') < RingLen
        PROVE  \E i \in 1 .. Len(ring') : ring'[i] \in ConnectedLevels
    <3>1. /\ Len(ring) \in Nat /\ Len(ring) < RingLen /\ Len(ring') = Len(ring) + 1
          /\ \A j \in 1 .. Len(ring') - 1 : ring'[j] = ring[j]
      BY <2>3, Bounds, TickPushes DEF Pushed
    <3>2. PICK i \in 1 .. Len(ring) : ring[i] \in ConnectedLevels
      BY <1>4, <3>1 DEF IInv, ConnectedByBurst, Connected, ConnectedLevels
    <3> QED
      BY <3>1, <3>2
  <2> QED
    BY <2>2, <2>3
<1> QED
  BY <1>3, <1>4, TickClassifies

LEMMA TickInv ==
    ASSUME IInv, NEW p \in Levels, NEW k \in Levels, CpTick(p, k)
    PROVE  IInv'
<1>1. TypeOK'
  BY TickTyped
<1>2. FaultyBurstsLow' /\ FaultyBurstsCounted'
  BY TickFaulty
<1>3. FaultSeen'
  BY <1>1, <1>2, TickNotices
<1>4. ConnectedBelowA' /\ ConnectedByBurst'
  BY TickKeeps
<1> QED
  BY <1>1, <1>2, <1>3, <1>4 DEF IInv

LEMMA StutterInv ==
    ASSUME IInv, UNCHANGED vars
    PROVE  IInv'
  BY DEF IInv, vars, TypeOK, FaultyBurstsLow, FaultyBurstsCounted,
         FaultSeen, ConnectedBelowA, ConnectedByBurst, Connected

LEMMA StepInv == IInv /\ [Next]_vars => IInv'
<1> SUFFICES ASSUME IInv, [Next]_vars PROVE IInv'
  OBVIOUS
<1>1. CASE Tick
  BY <1>1, TickInv DEF Tick
<1>2. CASE \E on \in BOOLEAN : ContactorCommand(on)
  BY <1>2, CommandInv
<1>3. CASE UNCHANGED vars
  BY <1>3, StutterInv
<1> QED
  BY <1>1, <1>2, <1>3 DEF Next

LEMMA SpecInv == Spec => []IInv
<1>1. Init => IInv
  BY InitInv
<1>2. IInv /\ [Next]_vars => IInv'
  BY StepInv
<1> QED
  BY <1>1, <1>2, PTL DEF Spec

-----------------------------------------------------------------------------
(* The theorems.                                                           *)

\* The ring of cp_tick never holds more than its length, every sensed state is
\* one of the six, and the counters stay in their range.
THEOREM TypeCorrect == Spec => []TypeOK
<1>1. IInv => TypeOK
  BY DEF IInv
<1> QED
  BY <1>1, SpecInv, PTL

\* A pilot that is shorted or gone is noticed after as many bursts as the ring
\* or the hysteresis is long, whichever is longer, and not after their sum.
THEOREM LostPilotIsSeen == Spec => []FaultSeen
<1>1. IInv => FaultSeen
  BY DEF IInv
<1> QED
  BY <1>1, SpecInv, PTL

\* The step of cp_tick that takes a connected vehicle for gone sampled a burst
\* in A, or has a full ring of bursts below D.
LEMMA DropStep ==
    ASSUME IInv, [Next]_vars, Connected, ~Connected'
    PROVE  \/ Last(ring') = LevelA
           \/ Len(ring') = RingLen /\ Max(Range(ring')) <= LevelE
<1>1. PICK p \in Levels, k \in Levels : CpTick(p, k)
  BY DEF Next, Tick, ContactorCommand, vars, Connected
<1>2. /\ ring' \in Seq(Levels) /\ ring' # <<>> /\ Len(ring') <= RingLen
      /\ Len(ring') \in Nat \ {0} /\ ring'[Len(ring')] = p
      /\ \/ /\ Len(ring) < RingLen /\ Len(ring') = Len(ring) + 1
            /\ \A j \in 1 .. Len(ring') - 1 : ring'[j] = ring[j]
         \/ /\ Len(ring') = RingLen /\ Len(ring) = RingLen
            /\ \A j \in 1 .. Len(ring') - 1 : ring'[j] = ring[j + 1]
  BY <1>1, TickPushes DEF Pushed
<1>3. /\ Max(Range(ring')) \in Levels
      /\ \E i \in 1 .. Len(ring') : Max(Range(ring')) = ring'[i]
      /\ \A i \in 1 .. Len(ring') : ring'[i] <= Max(Range(ring'))
  BY <1>2, HighestBurst
<1>4. Max(Range(ring')) \notin ConnectedLevels
  <2>1. state' # LevelB
    BY DEF Connected, ConnectedLevels
  <2>2. state' = Max(Range(ring'))
    BY <1>1, <2>1, TickClassifies
  <2> QED
    BY <2>2 DEF Connected
<1>5. Len(ring) \in Nat /\ RingLen \in Nat
  BY Bounds DEF IInv, TypeOK
<1>6. CASE Max(Range(ring')) = LevelA
  <2>1. PICK i \in 1 .. Len(ring') : ring'[i] = LevelA
    BY <1>3, <1>6
  <2>2. \A j \in 1 .. Len(ring) : ring[j] # LevelA
    BY DEF IInv, ConnectedBelowA, LevelA, LevelB
  <2>3. i = Len(ring')
    BY <1>2, <1>5, <2>1, <2>2
  <2> QED
    BY <2>1, <2>3 DEF Last
<1>7. CASE Max(Range(ring')) <= LevelE
  <2>1. ASSUME Len(ring') # RingLen PROVE FALSE
    <3>1. /\ Len(ring) < RingLen /\ Len(ring') = Len(ring) + 1
          /\ \A j \in 1 .. Len(ring') - 1 : ring'[j] = ring[j]
      BY <1>2, <2>1
    <3>2. PICK i \in 1 .. Len(ring) : ring[i] \in ConnectedLevels
      BY <3>1 DEF IInv, ConnectedByBurst
    <3>3. ring'[i] \in ConnectedLevels /\ ring'[i] <= Max(Range(ring'))
      BY <1>3, <1>5, <3>1, <3>2
    <3> QED
      BY <1>3, <1>7, <3>3
         DEF ConnectedLevels, Levels, LevelB, LevelC, LevelD, LevelE
  <2> QED
    BY <1>7, <2>1
<1> QED
  BY <1>3, <1>4, <1>6, <1>7
     DEF ConnectedLevels, Levels, LevelA, LevelB, LevelC, LevelD, LevelE

\* Noise shorter than the ring does not end a session: cp_tick takes a vehicle
\* for gone only on a burst in A or on a whole ring of bursts below D.
THEOREM NoiseDoesNotDisconnect == Spec => DropNeedsEvidence
<1>1. IInv /\ [Next]_vars =>
        [Connected /\ ~Connected' =>
          \/ Last(ring') = LevelA
          \/ Len(ring') = RingLen /\ Max(Range(ring')) <= LevelE]_vars
  BY DropStep
<1> QED
  BY <1>1, SpecInv, PTL DEF Spec, DropNeedsEvidence
=============================================================================
