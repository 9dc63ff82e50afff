---------------------------- MODULE IsoWatchdog ----------------------------
(***************************************************************************)
(* The per-state watchdog of ISO 15118-2 sessions (src/iso_watchdog.cpp).  *)
(* Time is counted in periods of the task that calls iso_watchdog_check;   *)
(* the age of the armed state replaces g_state_start_ms.  g_active_state   *)
(* is only logged and is left out.                                         *)
(*                                                                         *)
(* iso_watchdog_configure runs once, in setup(), and is the constants.     *)
(* The callers EXTEND the module and use its operators in their steps.     *)
(***************************************************************************)
EXTENDS Integers

CONSTANTS
    WdTimeout,     \* g_timeout_ms, in periods
    WdMaxRetries   \* g_max_retries, 0 = never fatal

ASSUME WdAssumption ==
    /\ WdTimeout \in Nat \ {0}
    /\ WdMaxRetries \in 0 .. 255

VARIABLES
    wdActive,    \* g_active
    wdAge,       \* now - g_state_start_ms, in periods
    wdRetries    \* g_retry_count, a uint8_t

wdVars == <<wdActive, wdAge, wdRetries>>

WdTypeOK ==
    /\ wdActive \in BOOLEAN
    /\ wdAge \in 0 .. WdTimeout
    /\ wdRetries \in 0 .. 255

WdInit ==
    /\ wdActive = FALSE
    /\ wdAge = 0
    /\ wdRetries = 0

WdStart ==
    /\ wdActive' = TRUE
    /\ wdAge' = 0
    /\ UNCHANGED wdRetries

WdClear ==
    /\ wdActive' = FALSE
    /\ wdAge' = 0
    /\ wdRetries' = 0

\* iso_watchdog_check one period later: expired when the age exceeds the
\* timeout, and fatal when this expiry uses up the retries.
WdExpired == wdActive /\ wdAge + 1 > WdTimeout

WdBumped == (wdRetries + 1) % 256

WdFatal == WdExpired /\ WdBumped >= WdMaxRetries /\ WdMaxRetries > 0

WdResult ==
    IF WdFatal THEN "Fatal" ELSE IF WdExpired THEN "Timeout" ELSE "Ok"

\* The state iso_watchdog_check leaves.  The age of an inactive watchdog is
\* never read; it is kept at zero.
WdCheck ==
    \/ /\ WdExpired
       /\ wdActive' = FALSE
       /\ wdAge' = 0
       /\ wdRetries' = WdBumped
    \/ /\ ~WdExpired
       /\ wdAge' = IF wdActive THEN wdAge + 1 ELSE 0
       /\ UNCHANGED <<wdActive, wdRetries>>
=============================================================================
