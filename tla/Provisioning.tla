----------------------------- MODULE Provisioning -----------------------------
(***************************************************************************)
(* TLS material on its way from the serial line to the TLS server: the     *)
(* diagnostic token and its window (src/diag_auth.cpp), the commands of    *)
(* the serial CLI (src/main.cpp), the flash store (src/pki_store.cpp), the *)
(* cached credentials (src/tls_credentials.cpp) and the configuration the  *)
(* TLS server builds from them when its task starts (src/tls_server.cpp).  *)
(* A command line is one step of the CLI; the TLS task reads one           *)
(* credential in two.  The build has a token.                              *)
(*                                                                         *)
(* A credential is a value; one whose command line is longer than the      *)
(* CLI's buffer is long.  The clock has ClockRange readings; now is the    *)
(* time it stands for.                                                     *)
(***************************************************************************)
EXTENDS Integers

CONSTANTS
    Values,         \* credentials that can be sent
    LongValues,     \* those whose command does not fit the CLI's buffer
    Cut,            \* what remains of a long credential
    Default,        \* what the firmware has built in, or no CA
    NoData,         \* nothing stored
    ClockRange,     \* the readings of millis(): 2^32
    Window,         \* DIAG_AUTH_WINDOW_MS
    MaxUptime,      \* bound: time between two restarts
    MaxSets         \* bound: stored credentials

ASSUME ProvisioningAssumption ==
    /\ LongValues \subseteq Values
    /\ Cut \notin Values /\ Default \notin Values \cup {Cut}
    /\ NoData \notin Values \cup {Cut, Default}
    /\ ClockRange \in Nat /\ Window \in Nat \ {0} /\ 2 * Window < ClockRange
    /\ MaxUptime \in Nat /\ MaxSets \in Nat

Targets == {"cert", "key", "ca"}

VARIABLES
    now,                \* time since the restart
    g_valid_until_ms,
    g_pki_ready,        \* the store is open
    stored,             \* the store's content
    loaded,             \* g_cert_loaded, g_key_loaded, g_ca_loaded
    cache,              \* g_server_cert, g_server_key, g_trusted_ca
    tls,                \* the TLS task: the target it loads, what it has read
    cfg,                \* the configuration of the TLS server
    answer,             \* what the CLI said last
    accepted,           \* history: when the last accepted token came, if no
                        \* token was refused since
    outdated,           \* history: targets whose store changed since its read
    failed,             \* history: a read found the store closed
    sets                \* bound: credentials stored so far

auth == <<g_valid_until_ms, accepted>>
store == <<g_pki_ready, stored>>
credentials == <<loaded, cache, tls, cfg>>
history == <<outdated, failed, sets>>
vars == <<now, auth, store, credentials, answer, history>>

Never == MaxUptime + 1
millis == now % ClockRange

Boot ==
    /\ now' = 0
    /\ g_valid_until_ms' = 0 /\ accepted' = Never
    /\ g_pki_ready' \in BOOLEAN
    /\ loaded' = {} /\ cache' = [t \in Targets |-> NoData]
    /\ tls' = [at |-> "cert", read |-> NoData]
    /\ cfg' = [t \in Targets |-> NoData]
    /\ answer' = "none" /\ outdated' = {} /\ failed' = FALSE

Init ==
    /\ now = 0
    /\ g_valid_until_ms = 0 /\ accepted = Never
    /\ g_pki_ready \in BOOLEAN
    /\ stored = [t \in Targets |-> NoData]
    /\ loaded = {} /\ cache = [t \in Targets |-> NoData]
    /\ tls = [at |-> "cert", read |-> NoData]
    /\ cfg = [t \in Targets |-> NoData]
    /\ answer = "none" /\ outdated = {} /\ failed = FALSE /\ sets = 0

-----------------------------------------------------------------------------
(* The token and its window: src/diag_auth.cpp.                            *)

\* Mutant: the readings of the clock compared as they are.
ExpiredPlain == g_valid_until_ms = 0 \/ millis > g_valid_until_ms

\* now_ms - g_valid_until_ms as a signed number is positive.
Expired ==
    LET late == (millis + ClockRange - g_valid_until_ms) % ClockRange
    IN  g_valid_until_ms = 0 \/ (late > 0 /\ 2 * late < ClockRange)

Revoke == g_valid_until_ms' = 0 /\ accepted' = Never

Accept ==
    /\ g_valid_until_ms' = (millis + Window) % ClockRange
    /\ accepted' = now

\* diag auth, as text and as JSON.
DiagAuth ==
    /\ \/ Accept /\ answer' = "accepted"
       \/ Revoke /\ answer' = "refused"
    /\ UNCHANGED <<now, store, credentials, history>>

-----------------------------------------------------------------------------
(* The store: src/pki_store.cpp.  Every call tries to open it again.       *)

EnsureReady == g_pki_ready' \in {g_pki_ready, TRUE}

\* tls_credentials_reload only forgets that something is loaded.
Write(t, v) ==
    /\ g_pki_ready' = TRUE
    /\ stored' = [stored EXCEPT ![t] = v]
    /\ loaded' = {}
    /\ outdated' = outdated \cup {t}
    /\ sets' = sets + 1
    /\ answer' = "stored"
    /\ UNCHANGED <<cache, tls, cfg, failed>>

\* The store is closed or full.
WriteFails ==
    /\ EnsureReady /\ answer' = "store_failed"
    /\ UNCHANGED <<stored, credentials, history>>

Set(t, v) == Write(t, v) \/ WriteFails

Get(t) ==
    /\ EnsureReady
    /\ answer' = IF g_pki_ready' /\ stored[t] # NoData THEN "value" ELSE "no_data"
    /\ UNCHANGED <<stored, credentials, history>>

-----------------------------------------------------------------------------
(* The commands of the CLI: src/main.cpp.                                  *)

\* A text command needs an open window; the end of a long line is lost
\* and the rest decoded all the same.
PkiText ==
    /\ ~Expired
    /\ \E t \in Targets :
        \/ Get(t)
        \/ /\ sets < MaxSets
           /\ \E v \in Values : Set(t, IF v \in LongValues THEN Cut ELSE v)
    /\ UNCHANGED <<now, auth>>

PkiTextRefused ==
    /\ Expired
    /\ answer' = "refused"
    /\ UNCHANGED <<now, auth, store, credentials, history>>

\* A JSON command brings the token.  A long one is no JSON any more and is
\* not looked at.
PkiJson ==
    /\ Accept
    /\ \E t \in Targets :
        \/ Get(t)
        \/ sets < MaxSets /\ \E v \in Values \ LongValues : Set(t, v)
    /\ UNCHANGED now

PkiJsonRefused ==
    /\ Revoke
    /\ answer' = "refused"
    /\ UNCHANGED <<now, store, credentials, history>>

-----------------------------------------------------------------------------
(* The TLS task: src/tls_credentials.cpp and build_server_cfg.             *)

After(t) == CASE t = "cert" -> "key" [] t = "key" -> "ca" [] t = "ca" -> "listening"

\* ensure_*: what is stored, else what is built in.
Effective(v) == IF v = NoData THEN Default ELSE v

\* Mutant: every credential read from the certificate's place.
ReadsCert ==
    /\ tls.at \in Targets \ loaded /\ tls.read = NoData
    /\ EnsureReady
    /\ tls' = [tls EXCEPT !.read = IF g_pki_ready' THEN Effective(stored["cert"])
                                                   ELSE Default]
    /\ outdated' = outdated \ {tls.at}
    /\ failed' = (failed \/ ~g_pki_ready')
    /\ UNCHANGED <<now, auth, stored, loaded, cache, cfg, answer, sets>>

Reads ==
    /\ tls.at \in Targets \ loaded /\ tls.read = NoData
    /\ EnsureReady
    /\ tls' = [tls EXCEPT !.read = IF g_pki_ready' THEN Effective(stored[tls.at])
                                                   ELSE Default]
    /\ outdated' = outdated \ {tls.at}
    /\ failed' = (failed \/ ~g_pki_ready')
    /\ UNCHANGED <<now, auth, stored, loaded, cache, cfg, answer, sets>>

Keeps ==
    /\ tls.read # NoData
    /\ cache' = [cache EXCEPT ![tls.at] = tls.read]
    /\ loaded' = loaded \cup {tls.at}
    /\ cfg' = [cfg EXCEPT ![tls.at] = tls.read]
    /\ tls' = [at |-> After(tls.at), read |-> NoData]
    /\ UNCHANGED <<now, auth, store, answer, history>>

-----------------------------------------------------------------------------
Tick ==
    /\ now < MaxUptime /\ now' = now + 1
    /\ UNCHANGED <<auth, store, credentials, answer, history>>

\* Only the store outlives a restart; it opens or does not.
Restart == Boot /\ UNCHANGED <<stored, sets>>

Next ==
    \/ DiagAuth \/ PkiText \/ PkiTextRefused \/ PkiJson \/ PkiJsonRefused
    \/ Reads \/ Keeps \/ Tick \/ Restart

Spec == Init /\ [][Next]_vars

-----------------------------------------------------------------------------
\* The store is written and read out only inside the window of a token that
\* was accepted since the restart and followed by no refused one.  Half a
\* turn of the clock after the window's end the code takes it for open
\* again, so the promise covers the time before.
GuardedStore ==
    [][answer' \in {"stored", "value"} /\ (stored' # stored \/ answer' # answer)
        => /\ accepted' # Never
           /\ \/ now - accepted' <= Window
              \/ 2 * (now - accepted' - Window) >= ClockRange]_vars

\* What the listening TLS server serves is what the store held when it was
\* read: a target is another only when the store was written since, or was
\* closed when it was read.
ServesTheStore ==
    tls.at = "listening" /\ ~failed
        => \A t \in Targets \ outdated : cfg[t] = Effective(stored[t])
===============================================================================
