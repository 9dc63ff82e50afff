-------------------------- MODULE Provisioning_proofs --------------------------
(***************************************************************************)
(* ServesTheStore and GuardedStore for all credentials, every clock and    *)
(* any number of sets.  What the TLS server listens with was read target   *)
(* by target, so the strengthening follows the task: the targets it has    *)
(* passed are configured with what the store holds, and what it has just   *)
(* read is what the store holds, unless the store was written since.  The  *)
(* window of the token needs that its end is a reading of the clock Window *)
(* after the token came.                                                   *)
(***************************************************************************)
EXTENDS Provisioning, TLAPS

Held == Values \cup {Cut, Default, NoData}

Shapes ==
    /\ stored \in [Targets -> Held]
    /\ cfg \in [Targets -> Held]
    /\ tls \in [at : Targets \cup {"listening"}, read : Held]
    /\ outdated \subseteq Targets

Passed(t) ==
    \/ tls.at = "listening"
    \/ tls.at = "key" /\ t = "cert"
    \/ tls.at = "ca" /\ t # "ca"

\* Nothing stored is Default, which is not NoData.
Current(v, t) == v = Effective(stored[t])

PassedIsCurrent ==
    ~failed => \A t \in Targets \ outdated : Passed(t) => Current(cfg[t], t)

ReadIsCurrent ==
    ~failed /\ tls.read # NoData /\ tls.at \notin outdated => Current(tls.read, tls.at)

ReadsSomething == tls.read # NoData => tls.at \in Targets

IInv == Shapes /\ PassedIsCurrent /\ ReadIsCurrent /\ ReadsSomething

\* A value in the store or built in is never NoData.
LEMMA EffectiveHeld == ASSUME NEW v \in Held PROVE Effective(v) \in Held \ {NoData}
  BY ProvisioningAssumption DEF Effective, Held

LEMMA InitIInv == Init => IInv
  BY DEF Init, IInv, Shapes, PassedIsCurrent, ReadIsCurrent, ReadsSomething, Passed,
     Current, Held, Targets

\* Every step that leaves the store and the TLS task alone.
LEMMA Aside ==
  IInv /\ UNCHANGED <<stored, cfg, tls, outdated, failed>> => IInv'
  BY DEF IInv, Shapes, PassedIsCurrent, ReadIsCurrent, ReadsSomething, Passed, Current

\* A write makes its target outdated.
LEMMA WriteKeeps ==
  ASSUME IInv, NEW t \in Targets, NEW v \in Values \cup {Cut}, Write(t, v)
  PROVE  IInv'
<1>1. /\ stored' = [stored EXCEPT ![t] = v] /\ outdated' = outdated \cup {t}
      /\ UNCHANGED <<cfg, tls, failed>>
  BY DEF Write
<1>2. \A u \in Targets \ outdated' : u \in Targets \ outdated /\ stored'[u] = stored[u]
  BY <1>1 DEF IInv, Shapes
<1>3. Shapes'
  BY <1>1 DEF IInv, Shapes, Held
<1>4. PassedIsCurrent'
  BY <1>1, <1>2 DEF IInv, PassedIsCurrent, Passed, Current
<1>5. ReadIsCurrent'
  BY <1>1, <1>2 DEF IInv, ReadIsCurrent, ReadsSomething, Current
<1>6. ReadsSomething'
  BY <1>1 DEF IInv, ReadsSomething
<1>7. QED
  BY <1>3, <1>4, <1>5, <1>6 DEF IInv

\* A failed command and a query write nothing.
LEMMA FailKeeps == IInv /\ WriteFails => IInv'
  BY Aside DEF WriteFails, credentials, history

LEMMA GetKeeps == ASSUME IInv, NEW t, Get(t) PROVE IInv'
  BY Aside DEF Get, credentials, history

LEMMA ReadsKeeps == IInv /\ Reads => IInv'
<1> SUFFICES ASSUME IInv, Reads PROVE IInv'
  OBVIOUS
<1> DEFINE v == IF g_pki_ready' THEN Effective(stored[tls.at]) ELSE Default
<1>1. /\ tls.at \in Targets
      /\ tls' = [tls EXCEPT !.read = v]
      /\ outdated' = outdated \ {tls.at}
      /\ failed' = (failed \/ ~g_pki_ready')
      /\ UNCHANGED <<stored, cfg>>
  BY DEF Reads
<1>2. v \in Held
  BY <1>1, EffectiveHeld DEF IInv, Shapes, Held
<1>3. tls'.at = tls.at /\ tls'.read = v
  BY <1>1 DEF IInv, Shapes
<1> HIDE DEF v
<1>4. Shapes'
  BY <1>1, <1>2 DEF IInv, Shapes
<1>5. \A t \in Targets : t = tls.at => ~Passed(t)'
  BY <1>1, <1>3 DEF Passed, Targets
<1>6. PassedIsCurrent'
  <2> SUFFICES ASSUME ~failed', NEW t \in Targets \ outdated', Passed(t)'
               PROVE  Current(cfg[t], t)'
    BY DEF PassedIsCurrent
  <2>1. t # tls.at
    BY <1>5
  <2>2. t \notin outdated /\ Passed(t)
    BY <1>1, <1>3, <2>1 DEF Passed
  <2>3. QED
    BY <1>1, <2>2 DEF IInv, PassedIsCurrent, Current
<1>7. ReadIsCurrent'
  <2>1. ~failed' => v = Effective(stored[tls.at])
    BY <1>1 DEF v
  <2>2. UNCHANGED stored /\ tls'.at = tls.at
    BY <1>1, <1>3
  <2>3. QED
    BY <1>3, <2>1, <2>2 DEF ReadIsCurrent, Current, Effective
<1>8. ReadsSomething'
  BY <1>1, <1>3 DEF ReadsSomething
<1>9. QED
  BY <1>4, <1>6, <1>7, <1>8 DEF IInv

LEMMA KeepsKeeps == IInv /\ Keeps => IInv'
<1> SUFFICES ASSUME IInv, Keeps PROVE IInv'
  OBVIOUS
<1>1. /\ tls.read # NoData /\ tls.at \in Targets
      /\ cfg' = [cfg EXCEPT ![tls.at] = tls.read]
      /\ tls' = [at |-> After(tls.at), read |-> NoData]
      /\ UNCHANGED <<stored, outdated, failed>>
  BY DEF Keeps, IInv, ReadsSomething, store, history
<1>2. After(tls.at) \in Targets \cup {"listening"}
  BY <1>1 DEF After, Targets
<1>3. Shapes'
  BY <1>1, <1>2 DEF IInv, Shapes, Held
<1>4. \A t \in Targets : Passed(t)' => Passed(t) \/ t = tls.at
  BY <1>1 DEF Passed, After, Targets
<1>5. PassedIsCurrent'
  <2> SUFFICES ASSUME ~failed', NEW t \in Targets \ outdated', Passed(t)'
               PROVE  Current(cfg[t], t)'
    BY DEF PassedIsCurrent
  <2>1. CASE t = tls.at
    BY <1>1, <2>1 DEF IInv, Shapes, ReadIsCurrent, Current
  <2>2. CASE t # tls.at
    <3>1. Passed(t) /\ cfg'[t] = cfg[t]
      BY <1>1, <1>4, <2>2 DEF IInv, Shapes
    <3>2. QED
      BY <1>1, <3>1 DEF IInv, PassedIsCurrent, Current
  <2>3. QED
    BY <2>1, <2>2
<1>6. ReadIsCurrent' /\ ReadsSomething'
  BY <1>1 DEF ReadIsCurrent, ReadsSomething
<1>7. QED
  BY <1>3, <1>5, <1>6 DEF IInv

\* After a restart the TLS task begins anew.
LEMMA RestartKeeps == IInv /\ Restart => IInv'
  BY DEF Restart, Boot, IInv, Shapes, PassedIsCurrent, ReadIsCurrent, ReadsSomething,
     Passed, Targets, Held

LEMMA PkiTextKeeps == IInv /\ PkiText => IInv'
<1> SUFFICES ASSUME IInv, PkiText PROVE IInv'
  OBVIOUS
<1>1. PICK t \in Targets :
         \/ Get(t)
         \/ \E v \in Values : Set(t, IF v \in LongValues THEN Cut ELSE v)
  BY DEF PkiText
<1>2. CASE Get(t)
  BY <1>2, GetKeeps
<1>3. ASSUME NEW v \in Values, Set(t, IF v \in LongValues THEN Cut ELSE v) PROVE IInv'
  <2> DEFINE w == IF v \in LongValues THEN Cut ELSE v
  <2>1. w \in Values \cup {Cut}
    OBVIOUS
  <2>2. Write(t, w) \/ WriteFails
    BY <1>3 DEF Set
  <2> HIDE DEF w
  <2>3. QED
    BY <2>1, <2>2, WriteKeeps, FailKeeps
<1>4. QED
  BY <1>1, <1>2, <1>3

LEMMA PkiJsonKeeps == IInv /\ PkiJson => IInv'
<1> SUFFICES ASSUME IInv, PkiJson PROVE IInv'
  OBVIOUS
<1>1. PICK t \in Targets : Get(t) \/ \E v \in Values \ LongValues : Set(t, v)
  BY DEF PkiJson
<1>2. CASE Get(t)
  BY <1>2, GetKeeps
<1>3. ASSUME NEW v \in Values \ LongValues, Set(t, v) PROVE IInv'
  BY <1>3, WriteKeeps, FailKeeps DEF Set
<1>4. QED
  BY <1>1, <1>2, <1>3

LEMMA NextIInv == IInv /\ [Next]_vars => IInv'
<1> SUFFICES ASSUME IInv, [Next]_vars PROVE IInv'
  OBVIOUS
<1>1. CASE DiagAuth \/ PkiTextRefused \/ PkiJsonRefused
  BY <1>1, Aside DEF DiagAuth, PkiTextRefused, PkiJsonRefused, store, credentials, history
<1>2. CASE PkiText
  BY <1>2, PkiTextKeeps
<1>3. CASE PkiJson
  BY <1>3, PkiJsonKeeps
<1>4. CASE Reads
  BY <1>4, ReadsKeeps
<1>5. CASE Keeps
  BY <1>5, KeepsKeeps
<1>6. CASE Tick
  BY <1>6, Aside DEF Tick, store, credentials, history
<1>7. CASE Restart
  BY <1>7, RestartKeeps
<1>8. CASE UNCHANGED vars
  BY <1>8, Aside DEF vars, store, credentials, history
<1>9. QED
  BY <1>1, <1>2, <1>3, <1>4, <1>5, <1>6, <1>7, <1>8 DEF Next

\* The listening TLS server (tls_server.cpp build_server_cfg) serves what
\* the store holds, whatever was sent over the CLI and however often the
\* firmware restarted, up to what was stored after the server read it.
THEOREM ServesTheStoreHolds == Spec => []ServesTheStore
<1>1. IInv => ServesTheStore
  BY DEF IInv, PassedIsCurrent, Passed, Current, ServesTheStore
<1>2. QED
  BY <1>1, InitIInv, NextIInv, PTL DEF Spec

-----------------------------------------------------------------------------
(* The window of the token, on a clock that turns over.                    *)

\* A number is a multiple of the modulus and its remainder.
LEMMA Remainder ==
    ASSUME NEW M \in Nat \ {0}, NEW a \in Nat
    PROVE  a % M \in 0 .. M - 1 /\ \E q \in Nat : a = M * q + (a % M)
<1>1. a \div M \in Nat
  OBVIOUS
<1>2. a = M * (a \div M) + (a % M)
  OBVIOUS
<1>3. a % M \in 0 .. M - 1
  OBVIOUS
<1>4. QED
  BY <1>1, <1>2, <1>3

LEMMA FewMultiples ==
    ASSUME NEW M \in Nat \ {0}, NEW n \in Int, NEW k \in Int, M * k < M * n
    PROVE  k < n
OBVIOUS

\* Up to twice the modulus, the remainder takes it off at most once.
LEMMA OnceOver ==
    ASSUME NEW M \in Nat \ {0}, NEW x \in Nat, x < 2 * M
    PROVE  x % M = IF x < M THEN x ELSE x - M
<1>1. PICK q \in Nat : x = M * q + (x % M)
  BY Remainder
<1>2. x % M \in 0 .. M - 1
  BY Remainder
<1>3. q < 2
  <2>1. M * q < M * 2
    BY <1>1, <1>2
  <2>2. QED
    BY <2>1, FewMultiples
<1>4. CASE q = 0
  BY <1>1, <1>2, <1>4
<1>5. CASE q = 1
  <2>1. M * q = M
    BY <1>5
  <2>2. QED
    BY <1>1, <1>2, <2>1
<1>6. QED
  BY <1>3, <1>4, <1>5

\* The difference of two readings of the clock is the time between them, less
\* the window, as long as that is less than a turn.
LEMMA LateIsTheTime ==
    ASSUME NEW M \in Nat \ {0}, NEW W \in Nat, W < M, NEW a \in Nat, NEW t \in Nat,
           0 < t - a - W, t - a - W < M
    PROVE  ((t % M) + M - (((a % M) + W) % M)) % M = t - a - W
<1> DEFINE r == t % M
           s == a % M
           g == (s + W) % M
           d == t - a - W
<1>1. PICK q1 \in Nat : t = M * q1 + r
  BY Remainder
<1>2. PICK q2 \in Nat : a = M * q2 + s
  BY Remainder
<1>3. r \in 0 .. M - 1 /\ s \in 0 .. M - 1
  BY Remainder
<1> HIDE DEF r, s
<1>4. g = IF s + W < M THEN s + W ELSE s + W - M
  <2>1. PICK x \in Nat : x = s + W /\ x < 2 * M
    BY <1>3
  <2>2. x % M = IF x < M THEN x ELSE x - M
    BY <2>1, OnceOver
  <2>3. QED
    BY <1>3, <2>1, <2>2
<1> HIDE DEF g
<1>5. PICK k \in Int : k = q1 - q2 /\ M * k = d + s + W - r
  <2>1. M * (q1 - q2) = M * q1 - M * q2
    OBVIOUS
  <2>2. M * (q1 - q2) = d + s + W - r
    BY <1>1, <1>2, <1>3, <2>1
  <2>3. QED
    BY <2>2
<1>6. d \in Nat /\ 0 < d /\ d < M
  OBVIOUS
<1> HIDE DEF d
<1>7. -1 < k /\ k < 3
  <2>1. M * k < M * 3 /\ M * (-1) < M * k
    BY <1>3, <1>5, <1>6
  <2>2. QED
    BY <2>1, FewMultiples
<1>8. r + M - g = d \/ r + M - g = d + M
  <2>1. CASE k = 0
    BY <1>3, <1>4, <1>5, <1>6, <2>1
  <2>2. CASE k = 1
    <3>1. M * k = M
      BY <2>2
    <3>2. QED
      BY <1>3, <1>4, <1>5, <1>6, <3>1
  <2>3. CASE k = 2
    <3>1. M * k = 2 * M
      BY <2>3
    <3>2. QED
      BY <1>3, <1>4, <1>5, <1>6, <3>1
  <2>4. QED
    BY <1>7, <2>1, <2>2, <2>3
<1>9. (r + M - g) % M = d
  BY <1>6, <1>8, OnceOver
<1>10. QED
  BY <1>9 DEF r, s, g, d

\* While a window is open, its end is Window after the token, and the token
\* came in the past of this run.
WindowInv ==
    /\ now \in 0 .. MaxUptime
    /\ g_valid_until_ms # 0 =>
         /\ accepted \in 0 .. now
         /\ g_valid_until_ms = ((accepted % ClockRange) + Window) % ClockRange

LEMMA InitWindow == Init => WindowInv
  BY ProvisioningAssumption DEF Init, WindowInv

\* A token opens the window, or none does.
LEMMA AcceptOpens == ASSUME WindowInv, Accept, now' = now PROVE WindowInv'
  BY DEF WindowInv, Accept, millis

LEMMA RevokeCloses == ASSUME WindowInv, Revoke, now' = now PROVE WindowInv'
  BY DEF WindowInv, Revoke

LEMMA WindowKept == ASSUME WindowInv, UNCHANGED <<now, auth>> PROVE WindowInv'
  BY DEF WindowInv, auth

LEMMA NextWindow == WindowInv /\ [Next]_vars => WindowInv'
<1> SUFFICES ASSUME WindowInv, [Next]_vars PROVE WindowInv'
  OBVIOUS
<1>1. CASE DiagAuth
  BY <1>1, AcceptOpens, RevokeCloses DEF DiagAuth
<1>2. CASE PkiText \/ PkiTextRefused
  BY <1>2, WindowKept DEF PkiText, PkiTextRefused
<1>3. CASE PkiJson
  BY <1>3, AcceptOpens DEF PkiJson
<1>4. CASE PkiJsonRefused
  BY <1>4, RevokeCloses DEF PkiJsonRefused
<1>5. CASE Reads \/ Keeps
  BY <1>5, WindowKept DEF Reads, Keeps
<1>6. CASE Tick
  BY <1>6, ProvisioningAssumption DEF Tick, WindowInv, auth
<1>7. CASE Restart
  BY <1>7, ProvisioningAssumption DEF Restart, Boot, WindowInv
<1>8. CASE UNCHANGED vars
  BY <1>8, WindowKept DEF vars
<1>9. QED
  BY <1>1, <1>2, <1>3, <1>4, <1>5, <1>6, <1>7, <1>8 DEF Next

\* What GuardedStore says of the token, when it came at a.
Covered(a) ==
    /\ a # Never
    /\ \/ now - a <= Window
       \/ 2 * (now - a - Window) >= ClockRange

\* A window that is not Expired covers its token.
LEMMA OpenIsCovered == ASSUME WindowInv, ~Expired PROVE Covered(accepted)
<1>1. /\ g_valid_until_ms # 0
      /\ now \in 0 .. MaxUptime /\ accepted \in 0 .. now /\ MaxUptime \in Nat
      /\ g_valid_until_ms = ((accepted % ClockRange) + Window) % ClockRange
      /\ ClockRange \in Nat \ {0} /\ Window \in Nat /\ Window < ClockRange
  BY ProvisioningAssumption DEF WindowInv, Expired
<1>2. accepted # Never
  BY <1>1 DEF Never
<1>3. ASSUME now - accepted > Window, 2 * (now - accepted - Window) < ClockRange
      PROVE  FALSE
  <2> DEFINE d == now - accepted - Window
  <2>1. 0 < d /\ d < ClockRange
    BY <1>1, <1>3
  <2>2. ((now % ClockRange) + ClockRange - g_valid_until_ms) % ClockRange = d
    <3>1. now \in Nat /\ accepted \in Nat
      BY <1>1
    <3>2. ((now % ClockRange) + ClockRange
             - (((accepted % ClockRange) + Window) % ClockRange)) % ClockRange = d
      BY <1>1, <2>1, <3>1, LateIsTheTime
    <3>3. QED
      BY <1>1, <3>2
  <2>3. Expired
    BY <1>3, <2>1, <2>2 DEF Expired, millis
  <2>4. QED
    BY <2>3
<1>4. now - accepted \in Int
  BY <1>1
<1>5. QED
  BY <1>1, <1>2, <1>3, <1>4 DEF Covered

\* A command that brings its token has just opened the window.
LEMMA AcceptIsCovered == ASSUME WindowInv, Accept PROVE Covered(accepted')
  BY ProvisioningAssumption DEF WindowInv, Accept, Covered, Never

\* The steps that write the store or read it out.
LEMMA GuardedStep ==
    ASSUME WindowInv, [Next]_vars, answer' \in {"stored", "value"},
           stored' # stored \/ answer' # answer
    PROVE  Covered(accepted')
<1>1. CASE PkiText
  BY <1>1, OpenIsCovered DEF PkiText, auth
<1>2. CASE PkiJson
  BY <1>2, AcceptIsCovered DEF PkiJson
<1>3. CASE DiagAuth \/ PkiTextRefused \/ PkiJsonRefused \/ Restart
  BY <1>3 DEF DiagAuth, PkiTextRefused, PkiJsonRefused, Restart, Boot
<1>4. CASE Reads \/ Keeps \/ Tick \/ UNCHANGED vars
  BY <1>4 DEF Reads, Keeps, Tick, vars, store
<1>5. QED
  BY <1>1, <1>2, <1>3, <1>4 DEF Next

\* A CLI command writes the store or reads it out only inside the window of a
\* token accepted since the restart (diag_auth.cpp), for every width of the
\* clock and every time the window may end on it, up to half a turn later.
THEOREM GuardedStoreHolds == Spec => GuardedStore
<1>1. WindowInv /\ [Next]_vars =>
        [answer' \in {"stored", "value"} /\ (stored' # stored \/ answer' # answer)
          => /\ accepted' # Never
             /\ \/ now - accepted' <= Window
                \/ 2 * (now - accepted' - Window) >= ClockRange]_vars
  BY GuardedStep DEF Covered
<1>2. QED
  BY <1>1, InitWindow, NextWindow, PTL DEF Spec, GuardedStore
===============================================================================
