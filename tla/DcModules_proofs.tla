-------------------------- MODULE DcModules_proofs --------------------------
(***************************************************************************)
(* Proofs about DcModules, for every set of socket tasks, every set of     *)
(* targets, ramp and threshold and every interleaving: its types, that its *)
(* setpoints rise by no more than the ramp, and that a switch-off no ramp  *)
(* overlapped leaves nothing switched on.                                  *)
(***************************************************************************)
EXTENDS DcModules, TLAPS

\* The component the 20 ms task is at, where the place leaves no choice.
Positions ==
    /\ pc["tick"] \in {"idle", "disable", "current", "compare", "send", "sendOff"}
          => comp["tick"] = "v"
    /\ pc["tick"] = "prev" => comp["tick"] = "i"

\* What the ramp computes with is dead outside it.
Dead ==
    \A c \in Components :
       /\ pc["tick"] \notin RampPlaces \ {"send"} =>
             prev[c] = 0 /\ hand[c] = 0 /\ powered = FALSE
       /\ pc["tick"] \notin {"flag", "goal", "load", "store"} => goal[c] = 0
       /\ pc["tick"] \in {"load", "store"} /\ comp["tick"] = "i" => goal["v"] = 0

\* The ramp has read prev[c] and not yet stored set[c].
Pending(c) ==
    \/ pc["tick"] = "prev" /\ c = "v"
    \/ pc["tick"] \in {"flag", "goal"}
    \/ pc["tick"] \in {"load", "store"} /\ (c = "i" \/ comp["tick"] = "v")

\* Until the ramp stores a setpoint it is what the ramp first read, unless a
\* switch-off overlapped and cleared it.
Snapshot ==
    /\ \A c \in Components : Pending(c) =>
          set[c] <= prev[c] /\ (~overtaken => set[c] = prev[c])
    /\ pc["tick"] = "store" =>
          LET c == comp["tick"] IN
          hand[c] <= prev[c] /\ (~overtaken => hand[c] = set[c])

\* Task t is about to clear set[c].
BeforeClear(t, c) ==
    \/ pc[t] = "targets"
    \/ pc[t] = "setpoints" /\ (comp[t] = "v" \/ c = "i")

\* With the output off and no overlap, what is still on has a task that will
\* switch it off, and a ramp finds nothing to do.
Quiet ==
    ~overtaken =>
       /\ InRamp => \A t \in Tasks : ~SwitchingOff(t)
       /\ ~enabled =>
             /\ on => \E t \in Tasks : SwitchingOff(t)
             /\ InRamp => powered = FALSE /\ pc["tick"] # "send"
             /\ \A c \in Components :
                   /\ set[c] = 0 \/ \E t \in Tasks : BeforeClear(t, c)
                   /\ InRamp => prev[c] = 0 /\ goal[c] = 0 /\ hand[c] = 0

Inv == TypeOK /\ Positions /\ Dead /\ Snapshot /\ Quiet

-----------------------------------------------------------------------------
\* The two components are told apart and ramp by natural numbers.
LEMMA ComponentFacts ==
    /\ "v" \in Components /\ "i" \in Components
    /\ \A c \in Components : c = "v" \/ c = "i"
    /\ \A c \in Components : Step[c] \in Nat /\ Targets[c] \subseteq Nat /\ 0 \in Targets[c]
    /\ Targets["v"] = Volts /\ Targets["i"] = Amps
    /\ Zero \in [Components -> Nat]
    /\ \A c \in Components : Zero[c] = 0
    /\ "tick" \in Tasks
BY DcAssumption DEF Components, Step, Targets, Zero, Tasks

\* The ramp moves from one natural number to another, up by at most a step,
\* and from 0 to 0 not at all.
LEMMA ApproachRange ==
    ASSUME NEW current \in Nat, NEW to \in Nat, NEW step \in Nat
    PROVE  /\ Approach(current, to, step) \in Nat
           /\ Approach(current, to, step) <= current + step
           /\ current = 0 /\ to = 0 => Approach(current, to, step) = 0
BY DEF Approach

\* A step moves a task from place to place.
LEMMA PlacesKept ==
    ASSUME TypeOK, [Next]_vars
    PROVE  /\ pc' \in [Tasks -> Places]
           /\ \A t \in Sockets : pc'[t] \notin RampPlaces
           /\ comp' \in [Tasks -> Components]
<1> USE ComponentFacts, DcAssumption DEF TypeOK, At, Places, RampPlaces, SwitchPlaces
<1>1. CASE Ramp
  <2>1. /\ \E next \in RampPlaces \union {"idle"} : pc' = [pc EXCEPT !["tick"] = next]
        /\ comp' = comp \/ \E c \in Components : comp' = [comp EXCEPT !["tick"] = c]
    BY <1>1 DEF Ramp, RampBegin, RampPrev, RampFlag, RampGoal, RampLoad,
       RampStore, RampCompare, RampSend, Goes, GoesOn
  <2>2. QED
    BY <2>1
<1>2. ASSUME NEW t \in Tasks, Continue(t) \/ Call(t)
      PROVE  /\ pc' \in [Tasks -> Places]
             /\ \A u \in Sockets : pc'[u] \notin RampPlaces
             /\ comp' \in [Tasks -> Components]
  <2>1. /\ \/ pc' = pc
           \/ \E next \in {"idle", "disable", "current"} \union SwitchPlaces :
                 pc' = [pc EXCEPT ![t] = next]
        /\ comp' = comp \/ \E c \in Components : comp' = [comp EXCEPT ![t] = c]
    BY <1>2 DEF Continue, Call, SwitchOff, ClearTargets, ClearSetpoints,
       SendOff, SetCurrent, DisableOutput, EnableOutput, SetVoltage, Goes, GoesOn
  <2>2. ({"idle", "disable", "current"} \union SwitchPlaces) \cap RampPlaces = {}
    OBVIOUS
  <2> HIDE DEF RampPlaces, SwitchPlaces
  <2>3. pc' \in [Tasks -> Places] /\ comp' \in [Tasks -> Components]
    BY <2>1
  <2>4. ASSUME NEW u \in Sockets
        PROVE  pc'[u] \notin RampPlaces
    BY <2>1, <2>2 DEF Tasks
  <2>5. QED
    BY <2>3, <2>4
<1>3. CASE UNCHANGED vars
  BY <1>3 DEF vars
<1>4. QED
  BY <1>1, <1>2, <1>3 DEF Next

\* Every step keeps the values in range.
LEMMA ValuesKept ==
    ASSUME TypeOK, [Next]_vars
    PROVE  /\ enabled' \in BOOLEAN /\ on' \in BOOLEAN
           /\ target' \in [Components -> Nat]
           /\ \A c \in Components : target'[c] \in Targets[c]
           /\ set' \in [Components -> Nat]
           /\ powered' \in BOOLEAN
           /\ prev' \in [Components -> Nat] /\ goal' \in [Components -> Nat]
           /\ hand' \in [Components -> Nat]
           /\ overtaken' \in BOOLEAN
<1> USE ComponentFacts DEF TypeOK, At, localVars
<1>1. CASE RampBegin
  BY <1>1 DEF RampBegin
<1>2. CASE RampPrev
  BY <1>2 DEF RampPrev
<1>3. CASE RampFlag
  BY <1>3 DEF RampFlag
<1>4. CASE RampGoal
  BY <1>4 DEF RampGoal
<1>5. CASE RampLoad
  BY <1>5 DEF RampLoad
<1>6. CASE RampStore
  <2> DEFINE c == comp["tick"]
             value == Approach(hand[c], goal[c], Step[c])
  <2>1. c \in Components /\ value \in Nat
    BY ApproachRange
  <2>2. /\ set' = [set EXCEPT ![c] = value]
        /\ hand' = [hand EXCEPT ![c] = value]
        /\ goal' = [goal EXCEPT ![c] = 0]
        /\ UNCHANGED <<enabled, target, on, powered, prev, overtaken>>
    BY <1>6 DEF RampStore
  <2> HIDE DEF c, value
  <2>3. QED
    BY <2>1, <2>2
<1>7. CASE RampCompare
  BY <1>7 DEF RampCompare
<1>8. CASE RampSend
  BY <1>8 DEF RampSend
<1>9. ASSUME NEW t \in Tasks, Continue(t)
      PROVE  /\ enabled' \in BOOLEAN /\ on' \in BOOLEAN
             /\ target' \in [Components -> Nat]
             /\ \A c \in Components : target'[c] \in Targets[c]
             /\ set' \in [Components -> Nat]
             /\ powered' \in BOOLEAN
             /\ prev' \in [Components -> Nat] /\ goal' \in [Components -> Nat]
             /\ hand' \in [Components -> Nat]
             /\ overtaken' \in BOOLEAN
  <2>1. CASE SwitchOff(t)
    <3>1. enabled' = FALSE /\ overtaken' \in BOOLEAN
      BY <2>1 DEF SwitchOff, InRamp
    <3>2. QED
      BY <2>1, <3>1 DEF SwitchOff
  <2>2. CASE ClearTargets(t)
    BY <2>2 DEF ClearTargets
  <2>3. CASE ClearSetpoints(t)
    BY <2>3 DEF ClearSetpoints
  <2>4. CASE SendOff(t)
    BY <2>4 DEF SendOff
  <2>5. ASSUME NEW i \in Amps, SetCurrent(t, i)
        PROVE  /\ target' \in [Components -> Nat]
               /\ \A c \in Components : target'[c] \in Targets[c]
               /\ UNCHANGED <<enabled, set, on, localVars, overtaken>>
    BY <2>5 DEF SetCurrent
  <2>6. QED
    BY <1>9, <2>1, <2>2, <2>3, <2>4, <2>5 DEF Continue
<1>10. ASSUME NEW t \in Tasks, Call(t)
      PROVE  /\ enabled' \in BOOLEAN /\ on' \in BOOLEAN
             /\ target' \in [Components -> Nat]
             /\ \A c \in Components : target'[c] \in Targets[c]
             /\ set' \in [Components -> Nat]
             /\ powered' \in BOOLEAN
             /\ prev' \in [Components -> Nat] /\ goal' \in [Components -> Nat]
             /\ hand' \in [Components -> Nat]
             /\ overtaken' \in BOOLEAN
  BY <1>10 DEF Call, DisableOutput, EnableOutput, SetVoltage
<1>11. CASE UNCHANGED vars
  BY <1>11 DEF vars
<1>12. QED
  BY <1>1, <1>2, <1>3, <1>4, <1>5, <1>6, <1>7, <1>8, <1>9, <1>10, <1>11
     DEF Next, Ramp

\* The initial state has the types.
LEMMA InitTyped == ASSUME Init PROVE TypeOK
<1>1. /\ pc \in [Tasks -> Places] /\ comp \in [Tasks -> Components]
      /\ \A t \in Sockets : pc[t] \notin RampPlaces
  BY ComponentFacts DEF Init, Places, RampPlaces, Tasks
<1>2. \A c \in Components : target[c] \in Targets[c]
  BY ComponentFacts DEF Init
<1>3. QED
  BY <1>1, <1>2, ComponentFacts DEF Init, TypeOK

\* TypeOK is an invariant, and an inductive one.
THEOREM TypeCorrect == Spec => []TypeOK
<1>1. TypeOK /\ [Next]_vars => TypeOK'
  BY PlacesKept, ValuesKept DEF TypeOK
<1>2. QED
  BY <1>1, InitTyped, PTL DEF Spec

-----------------------------------------------------------------------------
\* A step of the ramp leaves every other task where it stands, and whoever
\* switches off goes on doing so.
LEMMA RampMovesTick ==
    ASSUME TypeOK, Ramp
    PROVE  /\ pc["tick"] \in RampPlaces \union {"idle"}
           /\ pc'["tick"] \in RampPlaces \union {"idle"}
           /\ \A t \in Tasks : t # "tick" => pc'[t] = pc[t] /\ comp'[t] = comp[t]
           /\ \A t \in Tasks : SwitchingOff(t)' <=> SwitchingOff(t)
           /\ \A t \in Tasks, c \in Components : BeforeClear(t, c)' <=> BeforeClear(t, c)
<1>1. /\ pc["tick"] \in RampPlaces \union {"idle"}
      /\ pc'["tick"] \in RampPlaces \union {"idle"}
      /\ \A t \in Tasks : t # "tick" => pc'[t] = pc[t] /\ comp'[t] = comp[t]
  BY ComponentFacts
     DEF Ramp, RampBegin, RampPrev, RampFlag, RampGoal, RampLoad, RampStore,
         RampCompare, RampSend, Goes, GoesOn, At, TypeOK, RampPlaces
<1>2. QED
  BY <1>1 DEF SwitchingOff, BeforeClear, SwitchPlaces, RampPlaces

\* Every step of the ramp keeps the component where the place implies it.
LEMMA RampKeepsPositions ==
    ASSUME TypeOK, Positions, Ramp PROVE Positions'
BY ComponentFacts
   DEF Ramp, RampBegin, RampPrev, RampFlag, RampGoal, RampLoad, RampStore,
       RampCompare, RampSend, Goes, GoesOn, At, TypeOK, Positions

\* The ramp leaves nothing behind when it ends.
LEMMA RampKeepsDead ==
    ASSUME TypeOK, Positions, Dead, Ramp PROVE Dead'
<1> USE ComponentFacts DEF TypeOK, Positions, Dead, At, Goes, GoesOn, RampPlaces, localVars
<1>1. CASE RampBegin
  BY <1>1 DEF RampBegin
<1>2. CASE RampPrev
  BY <1>2 DEF RampPrev
<1>3. CASE RampFlag
  BY <1>3 DEF RampFlag
<1>4. CASE RampGoal
  BY <1>4 DEF RampGoal
<1>5. CASE RampLoad
  BY <1>5 DEF RampLoad
<1>6. CASE RampStore
  BY <1>6 DEF RampStore
<1>7. CASE RampCompare
  BY <1>7 DEF RampCompare
<1>8. CASE RampSend
  BY <1>8 DEF RampSend
<1>9. QED
  BY <1>1, <1>2, <1>3, <1>4, <1>5, <1>6, <1>7, <1>8 DEF Ramp

\* The ramp works from what it read first, or from what a switch-off left.
LEMMA RampKeepsSnapshot ==
    ASSUME TypeOK, Positions, Snapshot, Ramp PROVE Snapshot'
<1> USE ComponentFacts
    DEF TypeOK, Positions, Snapshot, Pending, At, Goes, GoesOn, RampPlaces
<1>1. CASE RampBegin
  BY <1>1 DEF RampBegin
<1>2. CASE RampPrev
  BY <1>2 DEF RampPrev
<1>3. CASE RampFlag
  BY <1>3 DEF RampFlag
<1>4. CASE RampGoal
  BY <1>4 DEF RampGoal
<1>5. CASE RampLoad
  BY <1>5 DEF RampLoad
<1>6. CASE RampStore
  BY <1>6 DEF RampStore
<1>7. CASE RampCompare
  BY <1>7 DEF RampCompare
<1>8. CASE RampSend
  BY <1>8 DEF RampSend
<1>9. QED
  BY <1>1, <1>2, <1>3, <1>4, <1>5, <1>6, <1>7, <1>8 DEF Ramp

\* One who is about to clear a setpoint is switching off.
LEMMA ClearsAreSwitches ==
    ASSUME NEW t \in Tasks, NEW c \in Components, BeforeClear(t, c)
    PROVE  SwitchingOff(t)
BY DEF BeforeClear, SwitchingOff, SwitchPlaces

\* With the output off and no overlap the ramp finds nothing to do.
LEMMA RampKeepsQuiet ==
    ASSUME TypeOK, Positions, Dead, Quiet, Ramp PROVE Quiet'
<1> USE ComponentFacts DEF At, Goes, GoesOn, RampPlaces, localVars
<1>1. enabled' = enabled
  BY DEF Ramp, RampBegin, RampPrev, RampFlag, RampGoal, RampLoad, RampStore,
     RampCompare, RampSend
<1>2. ASSUME ~overtaken'
      PROVE  ~overtaken /\ \A t \in Tasks : ~SwitchingOff(t)
  <2>1. CASE RampBegin
    BY <1>2, <2>1 DEF RampBegin
  <2>2. CASE ~RampBegin
    <3>1. overtaken' = overtaken /\ InRamp
      BY <2>2 DEF Ramp, RampPrev, RampFlag, RampGoal, RampLoad, RampStore,
         RampCompare, RampSend, InRamp
    <3>2. QED
      BY <1>2, <3>1 DEF Quiet
  <2>3. QED
    BY <2>1, <2>2
<1>3. ASSUME ~overtaken', ~enabled'
      PROVE  /\ on' = FALSE /\ powered' = FALSE /\ pc'["tick"] # "send"
             /\ \A c \in Components :
                   set'[c] = 0 /\ prev'[c] = 0 /\ goal'[c] = 0 /\ hand'[c] = 0
  <2>1. /\ \A c \in Components : set[c] = 0
        /\ on = FALSE /\ enabled = FALSE
    BY <1>1, <1>2, <1>3, ClearsAreSwitches DEF Quiet, TypeOK
  <2>2. /\ powered = FALSE /\ pc["tick"] # "send"
        /\ \A c \in Components : prev[c] = 0 /\ goal[c] = 0 /\ hand[c] = 0
    <3>1. CASE InRamp
      BY <1>1, <1>2, <1>3, <3>1 DEF Quiet
    <3>2. CASE ~InRamp
      BY <3>2 DEF Dead, InRamp
    <3>3. QED
      BY <3>1, <3>2
  <2> USE <2>1, <2>2 DEF TypeOK
  <2>3. CASE RampBegin
    BY <2>3 DEF RampBegin
  <2>4. CASE RampPrev
    BY <2>4 DEF RampPrev
  <2>5. CASE RampFlag
    BY <2>5 DEF RampFlag
  <2>6. CASE RampGoal
    BY <2>6 DEF RampGoal
  <2>7. CASE RampLoad
    BY <2>7 DEF RampLoad
  <2>8. CASE RampStore
    <3> DEFINE c == comp["tick"]
               value == Approach(hand[c], goal[c], Step[c])
    <3>1. c \in Components /\ value = 0
      BY ApproachRange
    <3>2. /\ set' = [set EXCEPT ![c] = value]
          /\ hand' = [hand EXCEPT ![c] = value]
          /\ goal' = [goal EXCEPT ![c] = 0]
          /\ UNCHANGED <<on, powered, prev>>
          /\ pc'["tick"] # "send"
      BY <2>8 DEF RampStore
    <3> HIDE DEF c, value
    <3>3. QED
      BY <3>1, <3>2
  <2>9. CASE RampCompare
    <3>1. \A c \in Components : ~Apart(0, 0) /\ set[c] = 0 /\ hand[c] = 0 /\ prev[c] = 0
      BY DcAssumption DEF Apart
    <3>2. PICK v \in {set["v"], hand["v"]}, i \in {set["i"], hand["i"]} :
             IF Apart(v, prev["v"]) \/ Apart(i, prev["i"])
             THEN Goes("tick", "send") ELSE Goes("tick", "idle")
      BY <2>9 DEF RampCompare
    <3>3. pc' = [pc EXCEPT !["tick"] = "idle"]
      BY <3>1, <3>2
    <3>4. QED
      BY <2>9, <3>3 DEF RampCompare
  <2>10. CASE RampSend
    BY <2>10 DEF RampSend
  <2>11. QED
    BY <2>3, <2>4, <2>5, <2>6, <2>7, <2>8, <2>9, <2>10 DEF Ramp
<1>4. ASSUME NEW t \in Tasks, ~SwitchingOff(t)
      PROVE  ~SwitchingOff(t)'
  BY <1>4, RampMovesTick
<1>5. QED
  BY <1>2, <1>3, <1>4 DEF Quiet

-----------------------------------------------------------------------------
\* A step of a call leaves what the ramp computes with alone, and moves only
\* its own task; while the ramp runs, that is not the 20 ms task.
LEMMA CallMoves ==
    ASSUME TypeOK, NEW t \in Tasks, Continue(t) \/ Call(t)
    PROVE  /\ UNCHANGED localVars
           /\ pc[t] \notin RampPlaces /\ pc'[t] \notin RampPlaces
           /\ \A u \in Tasks : u # t => pc'[u] = pc[u] /\ comp'[u] = comp[u]
           /\ InRamp' = InRamp
           /\ InRamp => t # "tick"
<1>1. /\ UNCHANGED localVars
      /\ pc[t] \notin RampPlaces /\ pc'[t] \notin RampPlaces
      /\ \A u \in Tasks : u # t => pc'[u] = pc[u] /\ comp'[u] = comp[u]
  BY ComponentFacts
     DEF Continue, Call, SwitchOff, ClearTargets, ClearSetpoints, SendOff,
         SetCurrent, DisableOutput, EnableOutput, SetVoltage, Goes, GoesOn, At,
         TypeOK, RampPlaces, localVars
<1>2. (pc'["tick"] \in RampPlaces) <=> (pc["tick"] \in RampPlaces)
  BY <1>1, ComponentFacts
<1>3. QED
  BY <1>1, <1>2 DEF InRamp

\* Every step of a call keeps the component where the place implies it.
LEMMA CallKeepsPositions ==
    ASSUME TypeOK, Positions, NEW t \in Tasks, Continue(t) \/ Call(t)
    PROVE  Positions'
BY ComponentFacts
   DEF Continue, Call, SwitchOff, ClearTargets, ClearSetpoints, SendOff,
       SetCurrent, DisableOutput, EnableOutput, SetVoltage, Goes, GoesOn, At,
       TypeOK, Positions

\* No call touches what the ramp computes with.
LEMMA CallKeepsDead ==
    ASSUME TypeOK, Dead, NEW t \in Tasks, Continue(t) \/ Call(t)
    PROVE  Dead'
<1>1. CASE t = "tick"
  BY <1>1, CallMoves DEF Dead, localVars, RampPlaces
<1>2. CASE t # "tick"
  BY <1>2, CallMoves, ComponentFacts DEF Dead, localVars
<1>3. QED
  BY <1>1, <1>2

\* A call writes a setpoint only to clear it, and within the ramp only where
\* the two overlapped.
LEMMA CallWritesSet ==
    ASSUME TypeOK, Quiet, NEW t \in Tasks, Continue(t) \/ Call(t)
    PROVE  /\ \A c \in Components : set'[c] <= set[c]
           /\ InRamp /\ ~overtaken' => ~overtaken /\ set' = set
<1> USE ComponentFacts DEF TypeOK
<1>1. CASE ClearSetpoints(t)
  <2>1. SwitchingOff(t)
    BY <1>1 DEF ClearSetpoints, At, SwitchingOff, SwitchPlaces
  <2>2. InRamp => overtaken
    BY <2>1 DEF Quiet
  <2>3. overtaken' = overtaken
    BY <1>1 DEF ClearSetpoints
  <2>4. \A c \in Components : set'[c] <= set[c]
    BY <1>1 DEF ClearSetpoints
  <2>5. QED
    BY <2>2, <2>3, <2>4
<1>2. CASE SwitchOff(t)
  BY <1>2 DEF SwitchOff
<1>3. CASE ~ClearSetpoints(t) /\ ~SwitchOff(t)
  <2>1. set' = set /\ overtaken' = overtaken
    BY <1>3 DEF Continue, Call, ClearTargets, SendOff, SetCurrent,
       DisableOutput, EnableOutput, SetVoltage
  <2>2. QED
    BY <2>1
<1>4. QED
  BY <1>1, <1>2, <1>3

\* What the ramp read stays an upper bound of the setpoints, and exact
\* without an overlap.
LEMMA CallKeepsSnapshot ==
    ASSUME TypeOK, Snapshot, Quiet, TypeOK',
           NEW t \in Tasks, Continue(t) \/ Call(t)
    PROVE  Snapshot'
<1>1. CASE InRamp
  <2>1. pc'["tick"] = pc["tick"] /\ comp'["tick"] = comp["tick"]
    BY <1>1, CallMoves, ComponentFacts
  <2>2. UNCHANGED <<prev, hand>>
    BY CallMoves DEF localVars
  <2>3. QED
    BY <1>1, <2>1, <2>2, CallWritesSet, ComponentFacts
       DEF Snapshot, Pending, TypeOK
<1>2. CASE ~InRamp
  <2>1. pc'["tick"] \notin RampPlaces
    BY <1>2, CallMoves DEF InRamp
  <2>2. QED
    BY <2>1 DEF Snapshot, Pending, RampPlaces
<1>3. QED
  BY <1>1, <1>2

\* Whoever finds the output on, or leaves it off, leaves someone to switch off
\* what is still on.
LEMMA CallKeepsQuiet ==
    ASSUME TypeOK, Quiet, NEW t \in Tasks, Continue(t) \/ Call(t)
    PROVE  Quiet'
<1> USE ComponentFacts, CallMoves
<1>1. CASE SwitchOff(t)
  <2>1. pc'[t] = "targets" /\ overtaken' = InRamp /\ enabled' = FALSE
    BY <1>1 DEF SwitchOff, At, Goes, TypeOK
  <2>2. /\ SwitchingOff(t)'
        /\ \A c \in Components : BeforeClear(t, c)'
    BY <2>1 DEF SwitchingOff, BeforeClear, SwitchPlaces
  <2>3. ~overtaken' => ~InRamp'
    BY <2>1
  <2>4. QED
    BY <2>2, <2>3 DEF Quiet
<1>2. CASE EnableOutput(t)
  <2>1. /\ enabled' = TRUE /\ overtaken' = overtaken /\ pc' = pc
    BY <1>2 DEF EnableOutput
  <2>2. QED
    BY <2>1 DEF Quiet, SwitchingOff
<1>3. CASE /\ ~SwitchOff(t) /\ ~EnableOutput(t)
  <2>1. /\ enabled' = enabled /\ overtaken' = overtaken
        /\ powered' = powered /\ UNCHANGED <<prev, goal, hand>>
    BY <1>3 DEF Continue, Call, ClearTargets, ClearSetpoints, SendOff,
       SetCurrent, DisableOutput, SetVoltage, localVars
  <2>2. \A u \in Tasks : SwitchingOff(u)' => SwitchingOff(u)
    BY <1>3 DEF Continue, Call, ClearTargets, ClearSetpoints, SendOff,
       SetCurrent, DisableOutput, SetVoltage, SwitchingOff, SwitchPlaces,
       At, Goes, GoesOn, TypeOK
  <2>3. on' => on /\ \A u \in Tasks : SwitchingOff(u) => SwitchingOff(u)'
    BY <1>3 DEF Continue, Call, ClearTargets, ClearSetpoints, SendOff,
       SetCurrent, DisableOutput, SetVoltage, SwitchingOff, SwitchPlaces,
       At, Goes, GoesOn, TypeOK
  <2>4. ASSUME NEW c \in Components
        PROVE  \/ set'[c] = 0
               \/ /\ set'[c] = set[c]
                  /\ \A u \in Tasks : BeforeClear(u, c) => BeforeClear(u, c)'
    <3>1. CASE ClearSetpoints(t)
      BY <3>1 DEF ClearSetpoints, At, GoesOn, BeforeClear, TypeOK
    <3>2. CASE ClearTargets(t)
      BY <3>2 DEF ClearTargets, At, GoesOn, BeforeClear, TypeOK
    <3>3. CASE ~ClearSetpoints(t) /\ ~ClearTargets(t)
      <4>1. set' = set /\ ~BeforeClear(t, c)
        BY <1>3, <3>3 DEF Continue, Call, SendOff, SetCurrent, DisableOutput,
           SetVoltage, At, BeforeClear
      <4>2. QED
        BY <4>1 DEF BeforeClear
    <3>4. QED
      BY <3>1, <3>2, <3>3
  <2>5. InRamp' => InRamp /\ pc'["tick"] = pc["tick"]
    OBVIOUS
  <2>6. QED
    BY <2>1, <2>2, <2>3, <2>4, <2>5 DEF Quiet
<1>4. QED
  BY <1>1, <1>2, <1>3

-----------------------------------------------------------------------------
\* A step that changes nothing keeps the invariant.
LEMMA StutterKeeps ==
    ASSUME Inv, UNCHANGED vars PROVE Inv'
BY DEF Inv, TypeOK, Positions, Dead, Snapshot, Pending, Quiet, BeforeClear,
       SwitchingOff, InRamp, vars, localVars

\* The invariant is one.
THEOREM InvHolds == Spec => []Inv
<1>1. Init => Inv
  <2> SUFFICES ASSUME Init PROVE Inv
    OBVIOUS
  <2>1. \A t \in Tasks : pc[t] = "idle" /\ comp[t] = "v"
    BY DEF Init
  <2>2. TypeOK
    BY InitTyped
  <2>3. Positions /\ Dead /\ Snapshot /\ Quiet
    BY <2>1, ComponentFacts
       DEF Init, Positions, Dead, Snapshot, Pending, Quiet, InRamp, RampPlaces
  <2>4. QED
    BY <2>2, <2>3 DEF Inv
<1>2. Inv /\ [Next]_vars => Inv'
  <2> SUFFICES ASSUME Inv, [Next]_vars PROVE Inv'
    OBVIOUS
  <2> USE DEF Inv
  <2>1. TypeOK'
    BY PlacesKept, ValuesKept DEF TypeOK
  <2>2. CASE Ramp
    BY <2>1, <2>2, RampKeepsPositions, RampKeepsDead, RampKeepsSnapshot,
       RampKeepsQuiet
  <2>3. ASSUME NEW t \in Tasks, Continue(t) \/ Call(t)
        PROVE  Inv'
    BY <2>1, <2>3, CallKeepsPositions, CallKeepsDead, CallKeepsSnapshot,
       CallKeepsQuiet
  <2>4. CASE UNCHANGED vars
    BY <2>4, StutterKeeps
  <2>5. QED
    BY <2>2, <2>3, <2>4 DEF Next
<1>3. QED
  BY <1>1, <1>2, PTL DEF Spec

\* A setpoint rises by no more than the ramp at a time, and where a switch-off
\* overlapped the ramp to no more than a step above what the ramp first read:
\* the load and the store of dc_ramp_tick may have the clearing in between.
THEOREM RiseIsRampedHolds == Spec => RiseIsRamped
<1> DEFINE Rises == \A c \in Components :
                       \/ set'[c] <= set[c] + Step[c]
                       \/ overtaken /\ set'[c] <= prev[c] + Step[c]
<1>1. ASSUME Inv, [Next]_vars
      PROVE  [Rises]_vars
  <2> SUFFICES ASSUME NEW c \in Components
               PROVE  \/ set'[c] <= set[c] + Step[c]
                      \/ overtaken /\ set'[c] <= prev[c] + Step[c]
    OBVIOUS
  <2> USE ComponentFacts, <1>1 DEF Inv
  <2>1. CASE RampStore
    <3> DEFINE d == comp["tick"]
               value == Approach(hand[d], goal[d], Step[d])
    <3>1. d \in Components /\ pc["tick"] = "store"
      BY <2>1 DEF RampStore, At, TypeOK
    <3>2. hand[d] <= prev[d] /\ (~overtaken => hand[d] = set[d])
      BY <3>1 DEF Snapshot
    <3>3. value <= hand[d] + Step[d]
      BY <3>1, ApproachRange DEF TypeOK
    <3>4. set' = [set EXCEPT ![d] = value]
      BY <2>1 DEF RampStore
    <3>5. value \in Nat
      BY <3>1, ApproachRange DEF TypeOK
    <3> HIDE DEF value, d
    <3>6. QED
      BY <3>1, <3>2, <3>3, <3>4, <3>5 DEF TypeOK
  <2>2. CASE ~RampStore /\ Ramp
    BY <2>2 DEF Ramp, RampBegin, RampPrev, RampFlag, RampGoal, RampLoad,
       RampCompare, RampSend, TypeOK
  <2>3. ASSUME NEW t \in Tasks, Continue(t) \/ Call(t)
        PROVE  set'[c] <= set[c] + Step[c]
    <3>1. set'[c] <= set[c] /\ set'[c] \in Nat
      BY <2>3, CallWritesSet, ValuesKept
    <3>2. QED
      BY <3>1 DEF TypeOK
  <2>4. CASE UNCHANGED vars
    BY <2>4 DEF vars, TypeOK
  <2>5. QED
    BY <2>1, <2>2, <2>3, <2>4 DEF Next
<1>2. QED
  BY <1>1, InvHolds, PTL DEF Spec, RiseIsRamped

\* After a switch-off that no ramp overlapped the modules were told OFF and
\* the setpoints are 0, however many tasks switched and ramps came since.
THEOREM OffIsOffHolds == Spec => []OffIsOff
<1>1. Inv => OffIsOff
  <2> SUFFICES ASSUME Inv, ~enabled, ~overtaken, \A t \in Tasks : ~SwitchingOff(t)
               PROVE  ~on /\ set = Zero
    BY DEF OffIsOff
  <2>1. ~on /\ \A c \in Components : set[c] = 0
    BY ClearsAreSwitches DEF Inv, Quiet
  <2>2. QED
    BY <2>1 DEF Inv, TypeOK, Zero
<1>2. QED
  BY <1>1, InvHolds, PTL
=============================================================================
