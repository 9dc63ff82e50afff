--------------------------- MODULE Network_proofs ---------------------------
(***************************************************************************)
(* Invariants of what the charger does on the raw network, for any number  *)
(* of requests, connections and vehicle addresses: OwnAnswer and           *)
(* SettledEndpoint of the discovery (Sdp), ReplyAnswersRequest and         *)
(* SessionNeedsConnection of the TCP on raw frames (LegacyTcp).            *)
(***************************************************************************)
EXTENDS Sdp, LegacyTcp, SequenceTheorems, TLAPS

\* A request is being looked at; it was accepted; its security was stored.
Deciding == {"request", "transport", "read transport", "read tls", "read plain"}
Stored == {"port", "address", "answer"}
Storing == {"security"} \cup Stored
Pcs == {"idle"} \cup Deciding \cup Storing

Requests == [n : Nat, src : Sources, security : Securities, transport : Transports]
Work == [pc : Pcs, dg : Requests, tls : BOOLEAN, own : BOOLEAN]

SdpTypes ==
    /\ sent \in Seq(Requests) /\ frames \in Seq(Requests) /\ lwip \in Seq(Requests)
    /\ at \in [Tasks -> Work]
    /\ accepted \in Requests
    /\ disturbed \in [Tasks -> BOOLEAN]
    /\ lost \in BOOLEAN /\ misread \in BOOLEAN

\* What an undisturbed task stored is still there.
StoresOf(t) ==
    /\ at[t].own
    /\ at[t].pc \in Deciding \ {"request"} => reqSecurity = at[t].dg.security
    /\ at[t].pc = "read transport" => reqTransport = at[t].dg.transport
    /\ at[t].pc \in Stored => security = at[t].dg.security
    /\ at[t].pc \in {"address", "answer"} => port = at[t].dg.security
    /\ at[t].pc = "answer" => evcc = at[t].dg.src
OwnStores == \A t \in Tasks : ~disturbed[t] => StoresOf(t)

\* A task that read back its own request decides as that request asks.
ReadsOf(t) ==
    /\ at[t].pc \in {"read tls", "read plain"} \cup Storing => at[t].dg.transport = "tcp"
    /\ at[t].pc \in {"read plain"} \cup Storing => at[t].tls = (at[t].dg.security = "tls")
    /\ at[t].pc \in Storing => at[t].dg.security \in {"tls", "plain"}
OwnReads == \A t \in Tasks : at[t].own => ReadsOf(t)

\* The requests the two tasks are at, and the latest accepted one.
K == at["tick"].dg.n
M == at["sdp"].dg.n
A == accepted.n

\* The requests the modem and lwIP hold are those the task behind them has not
\* reached yet; the SDP task is never ahead of the 20 ms task.
Queues ==
    /\ M <= K /\ K <= Len(sent) /\ A <= K
    /\ Len(frames) = Len(sent) - K /\ Len(lwip) = K - M
    /\ \A i \in 1 .. Len(frames) : frames[i] = sent[K + i]
    /\ \A i \in 1 .. Len(lwip) : lwip[i] = sent[M + i]

\* Requests are numbered in the order they were sent.
Numbered == \A i \in 1 .. Len(sent) : sent[i].n = i

Handled ==
    /\ K > 0 => at["tick"].dg = sent[K]
    /\ M > 0 => at["sdp"].dg = sent[M]
    /\ A > 0 => accepted = sent[A]
    /\ K = 0 => at["tick"].pc = "idle"
    /\ M = 0 => at["sdp"].pc = "idle"

\* What a task that reads back its own request accepts.
Acceptable(d) ==
    /\ d.transport = "tcp" /\ d.security \in {"tls", "plain"}
    /\ d.security = "tls" => tls_ready

\* A task that stores something stores it for an accepted request.
Accepting ==
    /\ at["tick"].pc \in Storing => A = K
    /\ at["sdp"].pc \in Storing => A >= M
    /\ A = 0 => security = "plain" /\ port = "plain"
    /\ A > 0 /\ ~misread => Acceptable(accepted)
    /\ \A t \in Tasks : at[t].pc \in Storing /\ at[t].dg.n = A /\ ~misread => at[t].own

\* The security is that of the latest accepted request, or one of the tasks will
\* still store it.
SecurityOf ==
    A > 0 /\ ~misread =>
        \/ security = accepted.security
        \/ M < A
        \/ M = A /\ at["sdp"].pc \in Deciding \cup {"security"}
        \/ K = A /\ at["tick"].pc = "security"

PortOf ==
    A > 0 /\ ~misread =>
        \/ port = accepted.security
        \/ M < A
        \/ M = A /\ at["sdp"].pc \in Deciding \cup {"security", "port"}
        \/ K = A /\ at["tick"].pc \in {"security", "port"}

AddressOf == M = K /\ K > 0 => evcc = sent[K].src

InOrder == Queues /\ Numbered /\ Handled /\ Accepting /\ SecurityOf /\ PortOf /\ AddressOf

SdpInv == SdpTypes /\ OwnStores /\ OwnReads /\ OwnAnswer /\ (~lost => InOrder)

-----------------------------------------------------------------------------

LEMMA SdpStart == SdpInit => SdpInv
<1> SUFFICES ASSUME SdpInit PROVE SdpInv
  OBVIOUS
<1>1. NoDatagram \in Requests
  BY SdpAssumption DEF NoDatagram, Requests
<1>2. SdpTypes
  <2>1. <<>> \in Seq(Requests)
    OBVIOUS
  <2>2. at \in [Tasks -> Work]
    BY <1>1 DEF SdpInit, Idle, Work, Pcs
  <2>3. disturbed \in [Tasks -> BOOLEAN]
    BY DEF SdpInit
  <2> QED
    BY <1>1, <2>1, <2>2, <2>3 DEF SdpInit, SdpTypes
<1>3. \A t \in Tasks : at[t] = Idle
  BY DEF SdpInit
<1>4. OwnStores /\ OwnReads /\ OwnAnswer
  BY <1>3 DEF SdpInit, Idle, OwnStores, StoresOf, OwnReads, ReadsOf, OwnAnswer, Deciding, Storing,
      Stored
<1>5. K = 0 /\ M = 0 /\ A = 0 /\ at["tick"].pc = "idle" /\ at["sdp"].pc = "idle"
  BY <1>3 DEF SdpInit, Idle, NoDatagram, K, M, A, Tasks
<1>6. InOrder
  BY <1>3, <1>5 DEF SdpInit, Idle, InOrder, Queues, Numbered, Handled, Accepting, SecurityOf,
      PortOf, AddressOf, Storing, Stored
<1> QED
  BY <1>2, <1>4, <1>6 DEF SdpInv

-----------------------------------------------------------------------------
(* What a statement does.                                                  *)

Looks(t) ==
    \/ StoreReqSecurity(t) \/ StoreReqTransport(t)
    \/ ReadTransport(t) \/ ReadTls(t) \/ ReadPlain(t)

\* Task t is at statement p now, and otherwise where it was.
LEMMA Gone ==
    ASSUME SdpTypes, NEW t \in Tasks, NEW p \in Pcs, Goes(t, p)
    PROVE  /\ at' \in [Tasks -> Work] /\ at'[Other(t)] = at[Other(t)]
           /\ at'[t].pc = p /\ at'[t].dg = at[t].dg
           /\ at'[t].tls = at[t].tls /\ at'[t].own = at[t].own
BY DEF Goes, SdpTypes, Work, Tasks, Other

\* Task t has decided on its request.
Decided(t, ok) ==
    /\ at'[t].pc = (IF ok THEN "security" ELSE "idle")
    /\ at'[t].tls = at[t].tls
    /\ accepted' = IF ok /\ at[t].dg.n > accepted.n THEN at[t].dg ELSE accepted
    /\ misread' = IF ok /\ at[t].dg.n > accepted.n THEN ~at'[t].own
                  ELSE misread \/ (at[t].dg.n = accepted.n /\ ~at'[t].own)
    /\ UNCHANGED <<request, disturbed>>

LEMMA Decision ==
    ASSUME SdpTypes, NEW t \in Tasks, NEW ok \in BOOLEAN, NEW own \in BOOLEAN,
           Decides(t, ok, own)
    PROVE  /\ Decided(t, ok) /\ at'[t].own = own
           /\ at' \in [Tasks -> Work] /\ at'[Other(t)] = at[Other(t)]
           /\ at'[t].dg = at[t].dg
<1>1. at' = [at EXCEPT ![t].pc = IF ok THEN "security" ELSE "idle", ![t].own = own]
  BY DEF Decides
<1>2. /\ at' \in [Tasks -> Work] /\ at'[Other(t)] = at[Other(t)]
      /\ at'[t].dg = at[t].dg /\ at'[t].tls = at[t].tls /\ at'[t].own = own
      /\ at'[t].pc = (IF ok THEN "security" ELSE "idle")
  BY <1>1 DEF SdpTypes, Work, Tasks, Other, Pcs, Storing
<1> QED
  BY <1>2 DEF Decides, Decided

\* Looking at a request touches no endpoint; it goes on, or ends in a decision
\* that is the request's own when everything read back was.
LEMMA LooksAt ==
    ASSUME SdpTypes, OwnReads, NEW t \in Tasks, Looks(t), UNCHANGED tls_ready
    PROVE  /\ UNCHANGED <<wire, endpoint, answer>> /\ at[t].pc \in Deciding
           /\ at' \in [Tasks -> Work] /\ at'[Other(t)] = at[Other(t)]
           /\ at'[t].dg = at[t].dg
           /\ at'[t].own => ReadsOf(t)'
           /\ accepted' \in Requests /\ misread' \in BOOLEAN
           /\ \/ at'[t].pc \in Deciding /\ UNCHANGED verdict
              \/ Decided(t, FALSE) /\ (at'[t].own => ~Acceptable(at[t].dg))
              \/ Decided(t, TRUE) /\ (at'[t].own => Acceptable(at[t].dg))
<1> USE DEF Looks
<1>1. /\ at[t] \in Work /\ accepted \in Requests /\ misread \in BOOLEAN
      /\ at[t].own \in BOOLEAN /\ at[t].tls \in BOOLEAN /\ at[t].dg \in Requests
  BY DEF SdpTypes, Work
<1>2. UNCHANGED <<wire, endpoint, answer>> /\ at[t].pc \in Deciding
  BY DEF StoreReqSecurity, StoreReqTransport, ReadTransport, ReadTls, ReadPlain, Decides,
      Deciding
<1>3. ASSUME NEW ok \in BOOLEAN, Decided(t, ok)
      PROVE  accepted' \in Requests /\ misread' \in BOOLEAN
  BY <1>1, <1>3 DEF Decided
<1> DEFINE Looked ==
       /\ at' \in [Tasks -> Work] /\ at'[Other(t)] = at[Other(t)]
       /\ at'[t].dg = at[t].dg
       /\ at'[t].own => ReadsOf(t)'
       /\ \/ at'[t].pc \in Deciding /\ UNCHANGED verdict
          \/ Decided(t, FALSE) /\ (at'[t].own => ~Acceptable(at[t].dg))
          \/ Decided(t, TRUE) /\ (at'[t].own => Acceptable(at[t].dg))
<1>4. CASE StoreReqSecurity(t)
  <2>1. /\ at' \in [Tasks -> Work] /\ at'[Other(t)] = at[Other(t)]
        /\ at'[t].pc = "transport" /\ at'[t].dg = at[t].dg
    BY <1>4, Gone DEF StoreReqSecurity, Pcs, Deciding
  <2>2. Looked
    BY <1>4, <2>1 DEF StoreReqSecurity, ReadsOf, Deciding, Storing, Stored
  <2> QED
    BY <1>1, <1>2, <1>3, <2>2 DEF verdict
<1>5. CASE StoreReqTransport(t)
  <2>1. /\ at' \in [Tasks -> Work] /\ at'[Other(t)] = at[Other(t)]
        /\ at'[t].pc = "read transport" /\ at'[t].dg = at[t].dg
    BY <1>5, Gone DEF StoreReqTransport, Pcs, Deciding
  <2>2. Looked
    BY <1>5, <2>1 DEF StoreReqTransport, ReadsOf, Deciding, Storing, Stored
  <2> QED
    BY <1>1, <1>2, <1>3, <2>2 DEF verdict
<1>6. CASE ReadTransport(t)
  <2>1. PICK transport \in ReadBack(at[t].dg.transport, reqTransport) :
          LET own == transport = at[t].dg.transport IN
          IF transport # "tcp" THEN Decides(t, FALSE, own)
          ELSE /\ at' = [at EXCEPT ![t].pc = "read tls", ![t].own = own]
               /\ UNCHANGED verdict
    BY <1>6 DEF ReadTransport
  <2>2. CASE transport # "tcp"
    <3>1. Decides(t, FALSE, transport = at[t].dg.transport)
      BY <2>1, <2>2
    <3>2. /\ Decided(t, FALSE) /\ at'[t].own = (transport = at[t].dg.transport)
          /\ at' \in [Tasks -> Work] /\ at'[Other(t)] = at[Other(t)]
          /\ at'[t].dg = at[t].dg
      BY <3>1, Decision
    <3>3. Looked
      BY <2>2, <3>2 DEF Decided, ReadsOf, Acceptable, Deciding, Storing, Stored
    <3> QED
      BY <1>1, <1>2, <1>3, <3>3 DEF verdict
  <2>3. CASE transport = "tcp"
    <3>1. at' = [at EXCEPT ![t].pc = "read tls", ![t].own = (transport = at[t].dg.transport)]
      BY <2>1, <2>3
    <3>2. /\ at' \in [Tasks -> Work] /\ at'[Other(t)] = at[Other(t)]
          /\ at'[t].pc = "read tls" /\ at'[t].dg = at[t].dg
          /\ at'[t].own = (transport = at[t].dg.transport)
      BY <3>1 DEF SdpTypes, Work, Tasks, Other, Pcs, Deciding
    <3>3. Looked
      BY <2>1, <2>3, <3>2 DEF ReadsOf, Deciding, Storing, Stored
    <3> QED
      BY <1>1, <1>2, <1>3, <3>3 DEF verdict
  <2> QED
    BY <2>2, <2>3
<1>7. CASE ReadTls(t)
  <2>1. PICK sec \in ReadBack(at[t].dg.security, reqSecurity) :
          /\ at' = [at EXCEPT ![t].pc = "read plain", ![t].tls = sec = "tls",
                              ![t].own = @ /\ sec = at[t].dg.security]
          /\ UNCHANGED verdict
    BY <1>7 DEF ReadTls
  <2>2. at' = [at EXCEPT ![t].pc = "read plain", ![t].tls = (sec = "tls"),
                         ![t].own = (at[t].own /\ sec = at[t].dg.security)]
    BY <1>1, <2>1 DEF SdpTypes
  <2>3. /\ at' \in [Tasks -> Work] /\ at'[Other(t)] = at[Other(t)]
        /\ at'[t].pc = "read plain" /\ at'[t].dg = at[t].dg
        /\ at'[t].tls = (sec = "tls")
        /\ at'[t].own = (at[t].own /\ sec = at[t].dg.security)
    <3>1. "read plain" \in Pcs
      BY DEF Pcs, Deciding
    <3> QED
      BY <1>1, <2>2, <3>1 DEF SdpTypes, Work, Tasks, Other
  <2>4. Looked
    <3>1. at[t].own => at[t].dg.transport = "tcp"
      BY <1>7 DEF ReadTls, OwnReads, ReadsOf
    <3> QED
      BY <2>1, <2>3, <3>1 DEF ReadsOf, Deciding, Storing, Stored
  <2> QED
    BY <1>1, <1>2, <1>3, <2>4 DEF verdict
<1>8. CASE ReadPlain(t)
  <2>1. PICK sec \in ReadBack(at[t].dg.security, reqSecurity) :
          IF at[t].tls THEN Decides(t, tls_ready, at[t].own)
          ELSE Decides(t, sec = "plain", at[t].own /\ sec = at[t].dg.security)
    BY <1>8 DEF ReadPlain
  <2>2. at[t].own => /\ at[t].dg.transport = "tcp"
                     /\ at[t].tls = (at[t].dg.security = "tls")
    BY <1>8 DEF ReadPlain, OwnReads, ReadsOf
  <2> DEFINE Done(ok, own) ==
        /\ Decided(t, ok) /\ at'[t].own = own
        /\ at' \in [Tasks -> Work] /\ at'[Other(t)] = at[Other(t)]
        /\ at'[t].dg = at[t].dg
  <2>3. ASSUME NEW ok \in BOOLEAN, NEW own \in BOOLEAN, Decides(t, ok, own)
        PROVE  Done(ok, own)
    BY <2>3, Decision
  <2>4. CASE at[t].tls
    <3>1. PICK ok \in BOOLEAN : Decides(t, ok, at[t].own) /\ (ok <=> tls_ready)
      <4>1. CASE tls_ready
        <5>1. Decides(t, TRUE, at[t].own)
          BY <2>1, <2>4, <4>1 DEF Decides
        <5> QED
          BY <4>1, <5>1
      <4>2. CASE ~tls_ready
        <5>1. Decides(t, FALSE, at[t].own)
          BY <2>1, <2>4, <4>2 DEF Decides
        <5> QED
          BY <4>2, <5>1
      <4> QED
        BY <4>1, <4>2
    <3>2. Done(ok, at[t].own)
      BY <1>1, <2>3, <3>1
    <3>3. Looked
      BY <2>2, <2>4, <3>1, <3>2 DEF Decided, ReadsOf, Acceptable, Deciding, Storing, Stored
    <3> QED
      BY <1>1, <1>2, <1>3, <3>3 DEF verdict
  <2>5. CASE ~at[t].tls
    <3>1. Decides(t, sec = "plain", at[t].own /\ sec = at[t].dg.security)
      BY <2>1, <2>5
    <3>2. Done(sec = "plain", at[t].own /\ sec = at[t].dg.security)
      BY <1>1, <2>3, <3>1
    <3>3. Looked
      BY <2>2, <2>5, <3>2 DEF Decided, ReadsOf, Acceptable, Deciding, Storing, Stored
    <3> QED
      BY <1>1, <1>2, <1>3, <3>3 DEF verdict
  <2> QED
    BY <2>4, <2>5
<1> QED
  BY <1>4, <1>5, <1>6, <1>7, <1>8

Stores(t) == StoreSecurity(t) \/ StorePort(t) \/ StoreAddress(t) \/ Answer(t)

LEMMA StoresAt ==
    ASSUME SdpTypes, NEW t \in Tasks, Stores(t)
    PROVE  /\ UNCHANGED <<wire, request, verdict>>
           /\ at[t].pc \in Storing /\ at'[t].pc \in Stored \cup {"idle"}
           /\ at' \in [Tasks -> Work] /\ at'[Other(t)] = at[Other(t)]
           /\ at'[t].dg = at[t].dg /\ at'[t].tls = at[t].tls /\ at'[t].own = at[t].own
<1>1. PICK p \in Stored \cup {"idle"} : Goes(t, p)
  BY DEF Stores, StoreSecurity, StorePort, StoreAddress, Answer, Stored
<1>2. p \in Pcs
  BY DEF Pcs, Storing
<1> QED
  BY <1>1, <1>2, Gone DEF Stores, StoreSecurity, StorePort, StoreAddress, Answer, Storing,
      Stored

LEMMA StepIs ==
    ASSUME NEW t \in Tasks, SdpStep(t)
    PROVE  Looks(t) \/ Stores(t)
BY DEF SdpStep, Looks, Stores

\* What the statements of one request have in common.
LEMMA StepTypes ==
    ASSUME SdpTypes, OwnReads, NEW t \in Tasks, SdpStep(t), UNCHANGED tls_ready
    PROVE  /\ SdpTypes' /\ OwnReads'
           /\ UNCHANGED <<sent, frames, lwip, lost>>
           /\ at'[t].dg = at[t].dg
           /\ at'[Other(t)] = at[Other(t)]
<1>1. UNCHANGED <<sent, frames, lwip, lost>>
  BY StepIs, LooksAt, StoresAt DEF wire
<1>2. accepted' \in Requests /\ misread' \in BOOLEAN
  BY StepIs, LooksAt, StoresAt DEF verdict, SdpTypes
<1>3. /\ at' \in [Tasks -> Work]
      /\ at'[t].dg = at[t].dg /\ at'[Other(t)] = at[Other(t)]
  BY StepIs, LooksAt, StoresAt
<1>4. disturbed' \in [Tasks -> BOOLEAN]
  <2>1. disturbed \in [Tasks -> BOOLEAN]
    BY DEF SdpTypes
  <2>2. CASE UNCHANGED disturbed
    BY <2>1, <2>2
  <2>3. CASE Disturbs(t)
    <3>1. at[t].own \in BOOLEAN
      BY DEF SdpTypes, Work
    <3> QED
      BY <2>1, <2>3, <3>1 DEF Disturbs, Other, Tasks
  <2> QED
    BY <2>2, <2>3 DEF SdpStep, StoreReqSecurity, StoreReqTransport, ReadTransport, ReadTls,
        ReadPlain, Decides, StoreSecurity, StorePort, StoreAddress, Answer
<1>5. at'[t].own => ReadsOf(t)'
  <2>1. CASE Looks(t)
    BY <2>1, LooksAt
  <2>2. CASE Stores(t)
    BY <2>2, StoresAt DEF OwnReads, ReadsOf, Storing
  <2> QED
    BY <2>1, <2>2, StepIs
<1>6. OwnReads'
  <2>1. at'[Other(t)].own => ReadsOf(Other(t))'
    BY <1>3 DEF OwnReads, ReadsOf, Other, Tasks
  <2>2. \A v \in Tasks : v = t \/ v = Other(t)
    BY DEF Other, Tasks
  <2> QED
    BY <1>5, <2>1, <2>2 DEF OwnReads
<1> QED
  BY <1>1, <1>2, <1>3, <1>4, <1>6 DEF SdpTypes

-----------------------------------------------------------------------------
(* The answer a request gets.                                              *)

\* What an undisturbed task reads back is its own.
LEMMA ReadsItsOwn ==
    ASSUME SdpTypes, OwnStores, NEW t \in Tasks, ~disturbed[t],
           ReadTransport(t) \/ ReadTls(t) \/ ReadPlain(t)
    PROVE  /\ at'[t].own
           /\ at'[t].pc \in {"read tls", "read plain", "idle", "security"}
<1>1. /\ at[t].own
      /\ at[t].pc \in {"read transport", "read tls", "read plain"} =>
            reqSecurity = at[t].dg.security
      /\ at[t].pc = "read transport" => reqTransport = at[t].dg.transport
  BY DEF OwnStores, StoresOf, Deciding
<1>2. ASSUME NEW ok \in BOOLEAN, NEW own \in BOOLEAN, Decides(t, ok, own)
      PROVE  at'[t].own = own /\ at'[t].pc \in {"idle", "security"}
  BY <1>2, Decision DEF Decided
<1>3. CASE ReadTransport(t)
  <2>1. reqTransport = at[t].dg.transport
    BY <1>1, <1>3 DEF ReadTransport
  <2>2. \/ Decides(t, FALSE, at[t].dg.transport = at[t].dg.transport)
        \/ at' = [at EXCEPT ![t].pc = "read tls",
                            ![t].own = (at[t].dg.transport = at[t].dg.transport)]
    BY <1>3, <2>1 DEF ReadTransport, ReadBack
  <2>3. CASE Decides(t, FALSE, at[t].dg.transport = at[t].dg.transport)
    BY <1>2, <2>3
  <2> QED
    BY <2>2, <2>3 DEF SdpTypes, Work
<1>4. CASE ReadTls(t)
  <2>1. reqSecurity = at[t].dg.security
    BY <1>1, <1>4 DEF ReadTls
  <2>2. at' = [at EXCEPT ![t].pc = "read plain", ![t].tls = (at[t].dg.security = "tls"),
                         ![t].own = (at[t].own /\ at[t].dg.security = at[t].dg.security)]
    BY <1>4, <2>1 DEF ReadTls, ReadBack, SdpTypes
  <2> QED
    BY <1>1, <2>2 DEF SdpTypes, Work
<1>5. CASE ReadPlain(t)
  <2>1. reqSecurity = at[t].dg.security
    BY <1>1, <1>5 DEF ReadPlain
  <2>2. \/ at[t].tls /\ Decides(t, tls_ready, at[t].own)
        \/ Decides(t, at[t].dg.security = "plain",
                   at[t].own /\ at[t].dg.security = at[t].dg.security)
    BY <1>5, <2>1 DEF ReadPlain, ReadBack
  <2>3. CASE Decides(t, at[t].dg.security = "plain",
                   at[t].own /\ at[t].dg.security = at[t].dg.security)
    <3>1. at[t].own \in BOOLEAN
      BY DEF SdpTypes, Work
    <3> QED
      BY <1>1, <1>2, <2>3, <3>1
  <2>4. CASE Decides(t, tls_ready, at[t].own)
    <3>1. CASE tls_ready
      <4>1. Decides(t, TRUE, TRUE)
        BY <1>1, <2>4, <3>1 DEF Decides
      <4> QED
        BY <1>2, <4>1
    <3>2. CASE ~tls_ready
      <4>1. Decides(t, FALSE, TRUE)
        BY <1>1, <2>4, <3>2 DEF Decides
      <4> QED
        BY <1>2, <4>1
    <3> QED
      BY <3>1, <3>2
  <2> QED
    BY <2>2, <2>3, <2>4
<1> QED
  BY <1>3, <1>4, <1>5

\* A task's stores survive what the other one does, unless that disturbs it.
LEMMA OwnStoresKept ==
    ASSUME SdpTypes, OwnReads, OwnStores, NEW t \in Tasks, SdpStep(t), UNCHANGED tls_ready
    PROVE  OwnStores'
<1> DEFINE u == Other(t)
<1>1. /\ u \in Tasks /\ u # t
      /\ \A v \in Tasks : v = t \/ v = u
  BY DEF Other, Tasks
<1>2. at'[t].dg = at[t].dg /\ at'[u] = at[u]
  BY StepTypes
<1>3. disturbed'[t] = disturbed[t]
  BY <1>1 DEF SdpStep, StoreReqSecurity, StoreReqTransport, ReadTransport, ReadTls,
      ReadPlain, Decides, StoreSecurity, StorePort, StoreAddress, Answer, Disturbs, SdpTypes
<1>4. ASSUME NEW p \in Pcs, Goes(t, p)
      PROVE  at'[t].pc = p /\ at'[t].tls = at[t].tls /\ at'[t].own = at[t].own
  BY <1>4, Gone
<1>5. ASSUME Disturbs(t), ~disturbed'[u]
      PROVE  /\ ~disturbed[u] /\ at[t].own
             /\ at[t].dg.src = at[u].dg.src
             /\ at[t].dg.security = at[u].dg.security
             /\ at[t].dg.transport = at[u].dg.transport
  BY <1>1, <1>5 DEF Disturbs, Same, SdpTypes
<1>6. at[t].own /\ at[t].pc \in Storing => Choice(t) = at[t].dg.security
  BY DEF OwnReads, ReadsOf, Choice
<1>7. ASSUME ~disturbed'[t]
      PROVE  StoresOf(t)'
  <2>1. StoresOf(t)
    BY <1>3, <1>7 DEF OwnStores
  <2> USE DEF StoresOf, Deciding, Stored, Storing, request, endpoint
  <2>2. CASE StoreReqSecurity(t)
    <3>1. at'[t].pc = "transport" /\ at'[t].own
      BY <1>4, <2>1, <2>2 DEF StoreReqSecurity, Pcs
    <3> QED
      BY <1>2, <2>1, <2>2, <3>1 DEF StoreReqSecurity
  <2>3. CASE StoreReqTransport(t)
    <3>1. at'[t].pc = "read transport" /\ at'[t].own
      BY <1>4, <2>1, <2>3 DEF StoreReqTransport, Pcs
    <3> QED
      BY <1>2, <2>1, <2>3, <3>1 DEF StoreReqTransport
  <2>4. CASE ReadTransport(t) \/ ReadTls(t) \/ ReadPlain(t)
    <3>1. /\ at'[t].own
          /\ at'[t].pc \in {"read tls", "read plain", "idle", "security"}
      BY <1>3, <1>7, <2>4, ReadsItsOwn DEF OwnStores
    <3>2. UNCHANGED <<reqSecurity, reqTransport>>
      BY <2>4 DEF ReadTransport, ReadTls, ReadPlain, Decides, request
    <3>3. reqSecurity = at[t].dg.security
      BY <2>1, <2>4 DEF ReadTransport, ReadTls, ReadPlain
    <3> QED
      BY <1>2, <3>1, <3>2, <3>3
  <2>5. CASE StoreSecurity(t)
    <3>1. at'[t].pc = "port" /\ at'[t].own
      BY <1>4, <2>1, <2>5 DEF StoreSecurity, Pcs
    <3> QED
      BY <1>2, <1>6, <2>1, <2>5, <3>1 DEF StoreSecurity
  <2>6. CASE StorePort(t)
    <3>1. at'[t].pc = "address" /\ at'[t].own
      BY <1>4, <2>1, <2>6 DEF StorePort, Pcs
    <3> QED
      BY <1>2, <1>6, <2>1, <2>6, <3>1 DEF StorePort
  <2>7. CASE StoreAddress(t)
    <3>1. at'[t].pc = "answer" /\ at'[t].own
      BY <1>4, <2>1, <2>7 DEF StoreAddress, Pcs
    <3> QED
      BY <1>2, <2>1, <2>7, <3>1 DEF StoreAddress
  <2>8. CASE Answer(t)
    <3>1. at'[t].pc = "idle" /\ at'[t].own
      BY <1>4, <2>1, <2>8 DEF Answer, Pcs
    <3> QED
      BY <1>2, <2>1, <2>8, <3>1 DEF Answer
  <2> QED
    BY <2>2, <2>3, <2>4, <2>5, <2>6, <2>7, <2>8 DEF SdpStep
<1>8. ASSUME ~disturbed'[u]
      PROVE  StoresOf(u)'
  <2>1. CASE Disturbs(t)
    <3>1. /\ StoresOf(u) /\ at[t].own
          /\ at[t].dg.src = at[u].dg.src
          /\ at[t].dg.security = at[u].dg.security
          /\ at[t].dg.transport = at[u].dg.transport
      BY <1>1, <1>5, <1>8, <2>1 DEF OwnStores
    <3>2. at[t].pc \in Storing => Choice(t) = at[u].dg.security
      BY <1>6, <3>1
    <3>3. /\ reqSecurity' \in {reqSecurity, at[u].dg.security}
          /\ reqTransport' \in {reqTransport, at[u].dg.transport}
          /\ security' \in {security, at[u].dg.security}
          /\ port' \in {port, at[u].dg.security}
          /\ evcc' \in {evcc, at[u].dg.src}
      BY <3>1, <3>2 DEF SdpStep, StoreReqSecurity, StoreReqTransport, ReadTransport, ReadTls,
          ReadPlain, Decides, StoreSecurity, StorePort, StoreAddress, Answer, Storing, Stored,
          request, endpoint
    <3> QED
      BY <1>2, <3>1, <3>3 DEF StoresOf
  <2>2. CASE UNCHANGED <<disturbed, request, endpoint>>
    BY <1>1, <1>2, <1>8, <2>2 DEF OwnStores, StoresOf, request, endpoint
  <2> QED
    BY <2>1, <2>2 DEF SdpStep, StoreReqSecurity, StoreReqTransport, ReadTransport, ReadTls,
        ReadPlain, Decides, StoreSecurity, StorePort, StoreAddress, Answer
<1> QED
  BY <1>1, <1>7, <1>8 DEF OwnStores

LEMMA OwnAnswerKept ==
    ASSUME SdpTypes, OwnReads, OwnStores, OwnAnswer, NEW t \in Tasks, SdpStep(t)
    PROVE  OwnAnswer'
<1>1. CASE UNCHANGED answer
  BY <1>1 DEF OwnAnswer
<1>2. CASE Answer(t)
  <2>1. ~disturbed[t] =>
           /\ security = at[t].dg.security /\ port = at[t].dg.security
           /\ evcc = at[t].dg.src
           /\ at[t].dg.transport = "tcp" /\ at[t].dg.security \in {"tls", "plain"}
    BY <1>2 DEF Answer, OwnStores, StoresOf, OwnReads, ReadsOf, Storing, Stored
  <2> QED
    BY <1>2, <2>1 DEF Answer, OwnAnswer
<1> QED
  BY <1>1, <1>2 DEF SdpStep, StoreReqSecurity, StoreReqTransport, ReadTransport, ReadTls,
      ReadPlain, Decides, StoreSecurity, StorePort, StoreAddress

-----------------------------------------------------------------------------
(* The order of the requests.                                              *)

LEMMA SentNumbers ==
    ASSUME SdpTypes
    PROVE  /\ K \in Nat /\ M \in Nat /\ A \in Nat
           /\ Len(sent) \in Nat /\ Len(frames) \in Nat /\ Len(lwip) \in Nat
BY DEF SdpTypes, Work, Requests, K, M, A, Tasks

\* A statement of either task moves no request.
LEMMA StepKeepsQueues ==
    ASSUME SdpTypes, OwnReads, InOrder, NEW t \in Tasks, SdpStep(t), UNCHANGED tls_ready
    PROVE  /\ K' = K /\ M' = M
           /\ at'["tick"].dg = at["tick"].dg /\ at'["sdp"].dg = at["sdp"].dg
           /\ A' \in {A, at[t].dg.n} /\ A' >= A
           /\ at[t].pc # "idle" /\ at[t].dg.n > 0
           /\ Queues' /\ Numbered' /\ Handled'
<1> USE SentNumbers, StepTypes
<1>1. at'["tick"].dg = at["tick"].dg /\ at'["sdp"].dg = at["sdp"].dg
  BY DEF Tasks, Other
<1>2. K' = K /\ M' = M
  BY <1>1 DEF K, M
<1>3. at[t].pc # "idle" /\ at[t].dg.n > 0
  <2>1. at[t].pc # "idle"
    BY StepIs, LooksAt, StoresAt DEF Deciding, Storing, Stored
  <2>2. (t = "tick" => K > 0) /\ (t = "sdp" => M > 0)
    BY <2>1 DEF InOrder, Handled
  <2> QED
    BY <2>1, <2>2 DEF K, M, Tasks
<1>4. accepted' = accepted \/ (accepted' = at[t].dg /\ at[t].dg.n > A)
  BY StepIs, LooksAt, StoresAt DEF Decided, verdict, A
<1>5. A' \in {A, at[t].dg.n} /\ A' >= A
  <2>1. at[t].dg.n \in Nat
    BY DEF SdpTypes, Work, Requests
  <2>2. A' = A \/ (A' = at[t].dg.n /\ at[t].dg.n > A)
    BY <1>4 DEF A
  <2> QED
    BY <2>1, <2>2
<1>6. Queues'
  <2>1. at[t].dg.n <= K
    BY DEF InOrder, Queues, K, M, Tasks
  <2>2. A' <= K
    BY <1>5, <2>1 DEF InOrder, Queues
  <2> QED
    BY <1>2, <2>2 DEF InOrder, Queues
<1>7. Numbered'
  BY DEF InOrder, Numbered
<1>8. Handled'
  <2>1. at[t].dg = sent[at[t].dg.n]
    BY <1>3 DEF InOrder, Handled, K, M, Tasks
  <2>2. A' > 0 => accepted' = sent'[A']
    BY <1>3, <1>4, <1>5, <2>1 DEF InOrder, Handled, A
  <2>3. /\ K > 0 => at'["tick"].dg = sent[K]
        /\ M > 0 => at'["sdp"].dg = sent[M]
    BY <1>1 DEF InOrder, Handled
  <2>4. /\ K = 0 => at'["tick"].pc = "idle"
        /\ M = 0 => at'["sdp"].pc = "idle"
    BY <1>3 DEF InOrder, Handled, Tasks, Other, K, M
  <2> QED
    BY <1>2, <2>2, <2>3, <2>4 DEF Handled
<1> QED
  BY <1>1, <1>2, <1>3, <1>5, <1>6, <1>7, <1>8

\* The 20 ms task: what it stores is for the latest request it has, which is
\* then the latest accepted one.
LEMMA TickStores ==
    ASSUME SdpTypes, OwnReads, InOrder, SdpStep("tick"), UNCHANGED tls_ready
    PROVE  InOrder'
<1> USE SentNumbers
<1> DEFINE tick == at["tick"]  sdp == at["sdp"]
<1>1. "tick" \in Tasks /\ "sdp" \in Tasks /\ Other("tick") = "sdp"
      /\ \A t \in Tasks : t = "tick" \/ t = "sdp"
  BY DEF Tasks, Other
<1>2. /\ K' = K /\ M' = M /\ A' \in {A, K} /\ A' >= A
      /\ Queues' /\ Numbered' /\ Handled'
      /\ tick.pc # "idle" /\ K > 0
  BY <1>1, StepKeepsQueues DEF K
<1>3. sdp' = sdp /\ tick'.dg = tick.dg /\ UNCHANGED sent
  BY <1>1, StepTypes
<1>4. M <= K /\ A <= K
  BY DEF InOrder, Queues
<1>5. /\ tick.dg = sent[K] /\ tick.dg.n = K /\ sdp.dg.n = M
      /\ A > 0 => accepted = sent[A]
  BY <1>2 DEF InOrder, Handled, K, M
<1>6. /\ tick.pc \in Storing => A = K
      /\ sdp.pc \in Storing => A >= M
      /\ A = 0 => security = "plain" /\ port = "plain"
      /\ A > 0 /\ ~misread => Acceptable(accepted)
      /\ tick.pc \in Storing /\ K = A /\ ~misread => tick.own
      /\ sdp.pc \in Storing /\ M = A /\ ~misread => sdp.own
  BY <1>1, <1>5 DEF InOrder, Accepting
<1> DEFINE Accepts ==
      /\ tick'.pc \in Storing => A' = K
      /\ sdp.pc \in Storing => A' >= M
      /\ A' = 0 => security' = "plain" /\ port' = "plain"
      /\ A' > 0 /\ ~misread' => Acceptable(accepted')
      /\ tick'.pc \in Storing /\ K = A' /\ ~misread' => tick'.own
      /\ sdp.pc \in Storing /\ M = A' /\ ~misread' => sdp.own
<1>7. Accepts => Accepting'
  <2>1. Acceptable(accepted') => Acceptable(accepted)'
    BY DEF Acceptable
  <2>2. tick'.dg.n = K /\ sdp'.dg.n = M
    BY <1>3, <1>5
  <2> QED
    BY <1>1, <1>2, <1>3, <2>1, <2>2 DEF Accepting
<1>8. CASE Looks("tick")
  <2>1. /\ UNCHANGED <<security, port, evcc>> /\ tick.pc \in Deciding
        /\ \/ tick'.pc \in Deciding /\ UNCHANGED <<accepted, misread>>
           \/ Decided("tick", FALSE) /\ (tick'.own => ~Acceptable(tick.dg))
           \/ Decided("tick", TRUE) /\ (tick'.own => Acceptable(tick.dg))
    BY <1>1, <1>8, LooksAt DEF endpoint, verdict
  <2>2. tick.pc \notin Storing /\ tick.pc # "security" /\ tick.pc # "port"
    BY <2>1 DEF Deciding, Storing, Stored
  <2>3. AddressOf'
    BY <1>2, <1>3, <2>1 DEF InOrder, AddressOf
  <2>4. CASE /\ tick'.pc \notin Storing /\ UNCHANGED accepted
             /\ misread' = misread \/ misread' = TRUE
    <3>1. A' = A
      BY <2>4 DEF A
    <3>2. Accepts
      BY <1>6, <2>1, <2>4, <3>1
    <3>3. SecurityOf' /\ PortOf'
      BY <1>2, <1>3, <2>1, <2>2, <2>4, <3>1 DEF InOrder, SecurityOf, PortOf
    <3> QED
      BY <1>2, <1>7, <2>3, <3>2, <3>3 DEF InOrder
  <2>5. CASE tick'.pc \in Deciding /\ UNCHANGED <<accepted, misread>>
    BY <2>4, <2>5 DEF Deciding, Storing, Stored
  <2>6. CASE Decided("tick", FALSE)
    <3>1. misread \in BOOLEAN /\ misread' \in BOOLEAN
      BY <1>1, StepTypes DEF SdpTypes
    <3> QED
      BY <2>4, <2>6, <3>1 DEF Decided, Deciding, Storing, Stored
  <2>7. CASE Decided("tick", TRUE) /\ (tick'.own => Acceptable(tick.dg))
    <3>1. /\ tick'.pc = "security"
          /\ accepted' = IF K > A THEN tick.dg ELSE accepted
          /\ ~misread' => tick'.own /\ (K = A => ~misread)
      <4>1. /\ tick'.own \in BOOLEAN /\ misread \in BOOLEAN /\ misread' \in BOOLEAN
        BY <1>1, StepTypes DEF SdpTypes, Work
      <4> QED
        BY <1>4, <1>5, <2>7, <4>1 DEF Decided, A
    <3>2. accepted' = tick.dg /\ A' = K /\ K = A'
      BY <1>2, <1>4, <1>5, <3>1 DEF A
    <3>3. M = K /\ sdp.pc \in Storing => A = K
      BY <1>4, <1>6
    <3>4. Accepts
      BY <1>2, <1>4, <1>6, <2>7, <3>1, <3>2, <3>3
    <3>5. SecurityOf' /\ PortOf'
      BY <1>2, <3>1, <3>2 DEF SecurityOf, PortOf
    <3> QED
      BY <1>2, <1>7, <2>3, <3>4, <3>5 DEF InOrder
  <2> QED
    BY <2>1, <2>5, <2>6, <2>7
<1>9. CASE Stores("tick")
  <2>1. /\ UNCHANGED <<accepted, misread>> /\ A' = A
        /\ tick.pc \in Storing /\ tick'.pc \in Stored \cup {"idle"}
        /\ tick'.tls = tick.tls /\ tick'.own = tick.own
    BY <1>1, <1>9, StoresAt DEF verdict, A
  <2>2. A = K /\ accepted = tick.dg /\ A > 0
    BY <1>2, <1>5, <1>6, <2>1
  <2>3. ~misread => Choice("tick") = accepted.security
    <3>1. ~misread => tick.own
      BY <1>6, <2>1, <2>2
    <3> QED
      BY <1>1, <2>1, <2>2, <3>1 DEF OwnReads, ReadsOf, Choice
  <2>4. Accepts
    BY <1>2, <1>6, <2>1, <2>2
  <2> DEFINE SecPort == SecurityOf' /\ PortOf'
  <2>5. CASE StoreSecurity("tick")
    <3>1. /\ tick'.pc = "port" /\ UNCHANGED <<port, evcc>> /\ security' = Choice("tick")
      BY <1>1, <2>5, Gone DEF StoreSecurity, Pcs, Storing, Stored
    <3>2. SecPort
      BY <1>2, <2>1, <2>2, <2>3, <3>1 DEF SecurityOf, PortOf
    <3>3. AddressOf'
      BY <1>2, <1>3, <3>1 DEF InOrder, AddressOf
    <3> QED
      BY <1>2, <1>7, <2>4, <3>2, <3>3 DEF InOrder
  <2>6. CASE StorePort("tick")
    <3>1. /\ tick'.pc = "address" /\ UNCHANGED <<security, evcc>> /\ port' = Choice("tick")
          /\ tick.pc = "port"
      BY <1>1, <2>6, Gone DEF StorePort, Pcs, Storing, Stored
    <3>2. SecPort
      BY <1>2, <1>3, <2>1, <2>2, <2>3, <3>1 DEF InOrder, SecurityOf, PortOf
    <3>3. AddressOf'
      BY <1>2, <1>3, <3>1 DEF InOrder, AddressOf
    <3> QED
      BY <1>2, <1>7, <2>4, <3>2, <3>3 DEF InOrder
  <2>7. CASE StoreAddress("tick")
    <3>1. UNCHANGED <<security, port>> /\ tick.pc = "address" /\ evcc' = tick.dg.src
      BY <2>7 DEF StoreAddress
    <3>2. AddressOf'
      BY <1>2, <1>3, <1>5, <3>1 DEF AddressOf
    <3>3. SecPort
      BY <1>2, <1>3, <2>1, <3>1 DEF InOrder, SecurityOf, PortOf
    <3> QED
      BY <1>2, <1>7, <2>4, <3>2, <3>3 DEF InOrder
  <2>8. CASE Answer("tick")
    <3>1. UNCHANGED <<security, port, evcc>> /\ tick.pc = "answer"
      BY <2>8 DEF Answer, endpoint
    <3>2. AddressOf'
      BY <1>2, <1>3, <3>1 DEF InOrder, AddressOf
    <3>3. SecPort
      BY <1>2, <1>3, <2>1, <3>1 DEF InOrder, SecurityOf, PortOf
    <3> QED
      BY <1>2, <1>7, <2>4, <3>2, <3>3 DEF InOrder
  <2> QED
    BY <1>9, <2>5, <2>6, <2>7, <2>8 DEF Stores
<1> QED
  BY <1>1, <1>8, <1>9, StepIs

\* The SDP task may be behind the latest accepted request: what it stores for
\* an older one it will store again.
LEMMA SdpStores ==
    ASSUME SdpTypes, OwnReads, InOrder, SdpStep("sdp"), UNCHANGED tls_ready
    PROVE  InOrder'
<1> USE SentNumbers
<1> DEFINE tick == at["tick"]  sdp == at["sdp"]
<1>1. "tick" \in Tasks /\ "sdp" \in Tasks /\ Other("sdp") = "tick"
      /\ \A t \in Tasks : t = "tick" \/ t = "sdp"
  BY DEF Tasks, Other
<1>2. /\ K' = K /\ M' = M /\ A' \in {A, M} /\ A' >= A
      /\ Queues' /\ Numbered' /\ Handled'
      /\ sdp.pc # "idle" /\ M > 0
  BY <1>1, StepKeepsQueues DEF M
<1>3. tick' = tick /\ sdp'.dg = sdp.dg /\ UNCHANGED sent
  BY <1>1, StepTypes
<1>4. M <= K /\ A <= K
  BY DEF InOrder, Queues
<1>5. /\ sdp.dg = sent[M] /\ tick.dg.n = K /\ sdp.dg.n = M
      /\ A > 0 => accepted = sent[A]
  BY <1>2 DEF InOrder, Handled, K, M
<1>6. /\ tick.pc \in Storing => A = K
      /\ sdp.pc \in Storing => A >= M
      /\ A = 0 => security = "plain" /\ port = "plain"
      /\ A > 0 /\ ~misread => Acceptable(accepted)
      /\ tick.pc \in Storing /\ K = A /\ ~misread => tick.own
      /\ sdp.pc \in Storing /\ M = A /\ ~misread => sdp.own
  BY <1>1, <1>5 DEF InOrder, Accepting
<1> DEFINE Accepts ==
      /\ tick.pc \in Storing => A' = K
      /\ sdp'.pc \in Storing => A' >= M
      /\ A' = 0 => security' = "plain" /\ port' = "plain"
      /\ A' > 0 /\ ~misread' => Acceptable(accepted')
      /\ tick.pc \in Storing /\ K = A' /\ ~misread' => tick.own
      /\ sdp'.pc \in Storing /\ M = A' /\ ~misread' => sdp'.own
<1>7. Accepts => Accepting'
  <2>1. Acceptable(accepted') => Acceptable(accepted)'
    BY DEF Acceptable
  <2>2. tick'.dg.n = K /\ sdp'.dg.n = M
    BY <1>3, <1>5
  <2> QED
    BY <1>1, <1>2, <1>3, <2>1, <2>2 DEF Accepting
<1>8. CASE Looks("sdp")
  <2>1. /\ UNCHANGED <<security, port, evcc>> /\ sdp.pc \in Deciding
        /\ \/ sdp'.pc \in Deciding /\ UNCHANGED <<accepted, misread>>
           \/ Decided("sdp", FALSE) /\ (sdp'.own => ~Acceptable(sdp.dg))
           \/ Decided("sdp", TRUE) /\ (sdp'.own => Acceptable(sdp.dg))
    BY <1>1, <1>8, LooksAt DEF endpoint, verdict
  <2>2. AddressOf'
    BY <1>2, <1>3, <2>1 DEF InOrder, AddressOf
  <2>3. sdp'.own \in BOOLEAN /\ misread \in BOOLEAN /\ misread' \in BOOLEAN
    BY <1>1, StepTypes DEF SdpTypes, Work
  <2>4. CASE sdp'.pc \in Deciding /\ UNCHANGED <<accepted, misread>>
    <3>1. A' = A /\ sdp'.pc \notin Storing
      BY <2>4 DEF A, Deciding, Storing, Stored
    <3>2. Accepts
      BY <1>6, <2>1, <2>4, <3>1
    <3>3. SecurityOf' /\ PortOf'
      BY <1>2, <1>3, <2>1, <2>4, <3>1 DEF InOrder, SecurityOf, PortOf
    <3> QED
      BY <1>2, <1>7, <2>2, <3>2, <3>3 DEF InOrder
  <2>5. CASE Decided("sdp", FALSE) /\ (sdp'.own => ~Acceptable(sdp.dg))
    <3>1. /\ UNCHANGED accepted /\ A' = A /\ sdp'.pc = "idle"
          /\ ~misread' => ~misread /\ (M = A => sdp'.own)
      BY <1>5, <2>3, <2>5 DEF Decided, A
    <3>2. A > 0 /\ ~misread' => M # A
      BY <1>5, <1>6, <2>5, <3>1
    <3>3. Accepts
      BY <1>6, <2>1, <3>1 DEF Storing, Stored
    <3>4. SecurityOf' /\ PortOf'
      BY <1>2, <1>3, <2>1, <3>1, <3>2 DEF InOrder, SecurityOf, PortOf
    <3> QED
      BY <1>2, <1>7, <2>2, <3>3, <3>4 DEF InOrder
  <2>6. CASE Decided("sdp", TRUE) /\ (sdp'.own => Acceptable(sdp.dg))
    <3>1. /\ sdp'.pc = "security"
          /\ accepted' = IF M > A THEN sdp.dg ELSE accepted
          /\ ~misread' => /\ M >= A => sdp'.own
                          /\ M <= A => ~misread
      BY <1>5, <2>3, <2>6 DEF Decided, A
    <3>2. \/ M > A /\ accepted' = sdp.dg /\ A' = M
          \/ M = A /\ accepted' = sdp.dg /\ A' = M
          \/ M < A /\ accepted' = accepted /\ A' = A
      BY <1>2, <1>4, <1>5, <3>1 DEF A
    <3>3. tick.pc \in Storing => A = K /\ M <= A
      BY <1>4, <1>6
    <3>4. Accepts
      BY <1>2, <1>4, <1>6, <2>6, <3>1, <3>2, <3>3
    <3>5. SecurityOf' /\ PortOf'
      BY <1>2, <3>1, <3>2 DEF SecurityOf, PortOf
    <3> QED
      BY <1>2, <1>7, <2>2, <3>4, <3>5 DEF InOrder
  <2> QED
    BY <2>1, <2>4, <2>5, <2>6
<1>9. CASE Stores("sdp")
  <2>1. /\ UNCHANGED <<accepted, misread>> /\ A' = A
        /\ sdp.pc \in Storing /\ sdp'.pc \in Stored \cup {"idle"}
        /\ sdp'.tls = sdp.tls /\ sdp'.own = sdp.own
    BY <1>1, <1>9, StoresAt DEF verdict, A
  <2>2. A >= M /\ A > 0 /\ (M = A => accepted = sdp.dg)
    BY <1>2, <1>5, <1>6, <2>1
  <2>3. M = A /\ ~misread => Choice("sdp") = accepted.security
    <3>1. M = A /\ ~misread => sdp.own
      BY <1>6, <2>1, <2>2
    <3> QED
      BY <1>1, <2>1, <2>2, <3>1 DEF OwnReads, ReadsOf, Choice
  <2>4. Accepts
    BY <1>2, <1>6, <2>1, <2>2
  <2> DEFINE SecPort == SecurityOf' /\ PortOf'
  <2>5. CASE StoreSecurity("sdp")
    <3>1. /\ sdp'.pc = "port" /\ UNCHANGED <<port, evcc>> /\ security' = Choice("sdp")
      BY <1>1, <2>5, Gone DEF StoreSecurity, Pcs, Storing, Stored
    <3>2. SecPort
      BY <1>2, <1>3, <2>1, <2>2, <2>3, <3>1 DEF SecurityOf, PortOf
    <3>3. AddressOf'
      BY <1>2, <1>3, <3>1 DEF InOrder, AddressOf
    <3> QED
      BY <1>2, <1>7, <2>4, <3>2, <3>3 DEF InOrder
  <2>6. CASE StorePort("sdp")
    <3>1. /\ sdp'.pc = "address" /\ UNCHANGED <<security, evcc>> /\ port' = Choice("sdp")
          /\ sdp.pc = "port"
      BY <1>1, <2>6, Gone DEF StorePort, Pcs, Storing, Stored
    <3>2. SecurityOf'
      BY <1>2, <1>3, <2>1, <2>2, <2>3, <3>1 DEF InOrder, SecurityOf, Deciding
    <3>3. PortOf'
      BY <1>2, <1>3, <2>1, <2>2, <2>3, <3>1 DEF PortOf
    <3>4. AddressOf'
      BY <1>2, <1>3, <3>1 DEF InOrder, AddressOf
    <3> QED
      BY <1>2, <1>7, <2>4, <3>2, <3>3, <3>4 DEF InOrder
  <2>7. CASE StoreAddress("sdp")
    <3>1. UNCHANGED <<security, port>> /\ sdp.pc = "address" /\ evcc' = sdp.dg.src
      BY <2>7 DEF StoreAddress
    <3>2. AddressOf'
      BY <1>2, <1>3, <1>5, <3>1 DEF AddressOf
    <3>3. SecPort
      BY <1>2, <1>3, <2>1, <3>1 DEF InOrder, SecurityOf, PortOf, Deciding
    <3> QED
      BY <1>2, <1>7, <2>4, <3>2, <3>3 DEF InOrder
  <2>8. CASE Answer("sdp")
    <3>1. UNCHANGED <<security, port, evcc>> /\ sdp.pc = "answer"
      BY <2>8 DEF Answer, endpoint
    <3>2. AddressOf'
      BY <1>2, <1>3, <3>1 DEF InOrder, AddressOf
    <3>3. SecPort
      BY <1>2, <1>3, <2>1, <3>1 DEF InOrder, SecurityOf, PortOf, Deciding
    <3> QED
      BY <1>2, <1>7, <2>4, <3>2, <3>3 DEF InOrder
  <2> QED
    BY <1>9, <2>5, <2>6, <2>7, <2>8 DEF Stores
<1> QED
  BY <1>1, <1>8, <1>9, StepIs

-----------------------------------------------------------------------------
(* What brings requests in.                                                *)

LEMMA AsksKeeps ==
    ASSUME SdpInv, NEW s \in Sources, NEW sec \in Securities, NEW trans \in Transports,
           VehicleAsks(s, sec, trans),
           UNCHANGED tls_ready
    PROVE  SdpInv'
<1> DEFINE d == [n |-> Len(sent) + 1, src |-> s, security |-> sec, transport |-> trans]
<1>1. SdpTypes
  BY DEF SdpInv
<1>2. /\ sent' = Append(sent, d) /\ frames' = Append(frames, d)
      /\ UNCHANGED <<lwip, at, reqSecurity, reqTransport, security, port, evcc, answer,
                     disturbed, accepted, misread, lost>>
  BY DEF VehicleAsks, request, endpoint, verdict
<1>3. sent \in Seq(Requests) /\ frames \in Seq(Requests)
  BY <1>1 DEF SdpTypes
<1>4. d \in Requests
  BY <1>3 DEF Requests
<1>5. d.n = Len(sent) + 1
  OBVIOUS
<1> HIDE DEF d
<1>6. sent' \in Seq(Requests) /\ frames' \in Seq(Requests)
  BY <1>2, <1>3, <1>4
<1>7. SdpTypes'
  BY <1>1, <1>2, <1>6 DEF SdpTypes
<1>8. OwnStores' /\ OwnReads' /\ OwnAnswer'
  BY <1>2 DEF SdpInv, OwnStores, StoresOf, OwnReads, ReadsOf, OwnAnswer
<1>9. ASSUME InOrder
      PROVE  InOrder'
  <2>1. K' = K /\ M' = M /\ A' = A
    BY <1>2 DEF K, M, A
  <2>2. /\ Len(sent') = Len(sent) + 1 /\ Len(frames') = Len(frames) + 1
        /\ sent'[Len(sent) + 1] = d /\ frames'[Len(frames) + 1] = d
        /\ \A i \in 1 .. Len(sent) : sent'[i] = sent[i]
        /\ \A i \in 1 .. Len(frames) : frames'[i] = frames[i]
    BY <1>2, <1>3
  <2>3. /\ M <= K /\ K <= Len(sent) /\ A <= K
        /\ Len(frames) = Len(sent) - K
    BY <1>9 DEF InOrder, Queues
  <2>4. Queues'
    <3>1. ASSUME NEW i \in 1 .. Len(frames')
          PROVE  frames'[i] = sent'[K + i]
      <4>1. CASE i = Len(frames) + 1
        <5>1. K + i = Len(sent) + 1
          BY <1>1, <2>3, <4>1, SentNumbers
        <5> QED
          BY <2>2, <4>1, <5>1
      <4>2. CASE i # Len(frames) + 1
        <5>1. i \in 1 .. Len(frames) /\ K + i \in 1 .. Len(sent)
          BY <1>1, <2>2, <2>3, <3>1, <4>2, SentNumbers
        <5> QED
          BY <1>9, <2>2, <5>1 DEF InOrder, Queues
      <4> QED
        BY <4>1, <4>2
    <3>2. ASSUME NEW i \in 1 .. Len(lwip)
          PROVE  lwip[i] = sent'[M + i]
      <4>1. lwip[i] = sent[M + i] /\ Len(lwip) = K - M
        BY <1>9 DEF InOrder, Queues
      <4>2. M + i \in 1 .. Len(sent)
        BY <1>1, <2>3, <4>1, SentNumbers
      <4> QED
        BY <2>2, <4>1, <4>2
    <3>3. Len(lwip) = K - M
      BY <1>9 DEF InOrder, Queues
    <3>4. Len(frames') = Len(sent') - K /\ K <= Len(sent')
      BY <1>1, <2>2, <2>3, SentNumbers
    <3>5. /\ M' <= K' /\ K' <= Len(sent') /\ A' <= K'
          /\ Len(frames') = Len(sent') - K'
          /\ Len(lwip') = K' - M'
      BY <1>2, <2>1, <2>3, <3>3, <3>4
    <3>6. /\ \A i \in 1 .. Len(frames') : frames'[i] = sent'[K' + i]
          /\ \A i \in 1 .. Len(lwip') : lwip'[i] = sent'[M' + i]
      BY <1>2, <2>1, <3>1, <3>2
    <3> QED
      BY <3>5, <3>6 DEF Queues
  <2>5. Numbered'
    <3>1. ASSUME NEW i \in 1 .. Len(sent')
          PROVE  sent'[i].n = i
      <4>1. i = Len(sent) + 1 \/ i \in 1 .. Len(sent)
        BY <1>1, <2>2, SentNumbers
      <4> QED
        BY <1>5, <1>9, <2>2, <4>1 DEF InOrder, Numbered
    <3> QED
      BY <3>1 DEF Numbered
  <2>6. /\ K > 0 => sent'[K] = sent[K]
        /\ M > 0 => sent'[M] = sent[M]
        /\ A > 0 => sent'[A] = sent[A]
    <3>1. /\ K > 0 => K \in 1 .. Len(sent)
          /\ M > 0 => M \in 1 .. Len(sent)
          /\ A > 0 => A \in 1 .. Len(sent)
      BY <1>1, <2>3, SentNumbers
    <3> QED
      BY <2>2, <3>1
  <2>7. Handled'
    BY <1>2, <1>9, <2>1, <2>6 DEF InOrder, Handled
  <2>8. Accepting' /\ SecurityOf' /\ PortOf'
    BY <1>2, <1>9, <2>1 DEF InOrder, Accepting, Acceptable, SecurityOf, PortOf
  <2>9. AddressOf'
    BY <1>2, <1>9, <2>1, <2>6 DEF InOrder, AddressOf
  <2> QED
    BY <2>4, <2>5, <2>7, <2>8, <2>9 DEF InOrder
<1> QED
  BY <1>2, <1>7, <1>8, <1>9 DEF SdpInv

LEMMA Taken ==
    ASSUME NEW S, NEW q \in Seq(S), q # <<>>
    PROVE  /\ Len(q) \in Nat /\ Len(q) >= 1 /\ Head(q) = q[1]
           /\ Len(Tail(q)) = Len(q) - 1
           /\ \A i \in 1 .. Len(Tail(q)) : i + 1 \in 1 .. Len(q) /\ Tail(q)[i] = q[i + 1]
OBVIOUS

LEMMA TickTakesKeeps ==
    ASSUME SdpInv, TickTakes, UNCHANGED tls_ready
    PROVE  SdpInv'
<1> DEFINE h == Head(frames)
<1>1. SdpTypes
  BY DEF SdpInv
<1>2. /\ at["tick"].pc = "idle" /\ frames # <<>> /\ frames' = Tail(frames)
      /\ \/ lwip' = Append(lwip, h) /\ UNCHANGED lost
         \/ lost' = TRUE /\ UNCHANGED lwip
      /\ at' = [at EXCEPT !["tick"] =
                   [pc |-> "request", dg |-> h, tls |-> FALSE, own |-> TRUE]]
      /\ disturbed' = [disturbed EXCEPT !["tick"] = FALSE]
      /\ UNCHANGED <<sent, reqSecurity, reqTransport, security, port, evcc, answer,
                     accepted, misread>>
  BY DEF TickTakes, Begins, request, endpoint, verdict
<1>3. frames \in Seq(Requests) /\ lwip \in Seq(Requests)
  BY <1>1 DEF SdpTypes
<1>4. h \in Requests /\ frames' \in Seq(Requests)
  BY <1>2, <1>3
<1> HIDE DEF h
<1>5. /\ at'["sdp"] = at["sdp"]
      /\ at'["tick"].pc = "request" /\ at'["tick"].dg = h /\ at'["tick"].own
      /\ at' \in [Tasks -> Work]
  BY <1>1, <1>2, <1>4 DEF SdpTypes, Work, Tasks, Pcs, Deciding
<1>6. /\ disturbed'["sdp"] = disturbed["sdp"]
      /\ disturbed' \in [Tasks -> BOOLEAN]
  BY <1>1, <1>2 DEF SdpTypes, Tasks
<1>7. SdpTypes'
  <2>1. lwip' \in Seq(Requests) /\ lost' \in BOOLEAN
    <3>1. lost' \in BOOLEAN
      BY <1>1, <1>2 DEF SdpTypes
    <3>2. Append(lwip, h) \in Seq(Requests)
      BY <1>3, <1>4
    <3> QED
      BY <1>2, <1>3, <3>1, <3>2
  <2> QED
    BY <1>1, <1>2, <1>4, <1>5, <1>6, <2>1 DEF SdpTypes
<1>8. OwnStores' /\ OwnReads' /\ OwnAnswer'
  BY <1>2, <1>5, <1>6 DEF SdpInv, OwnStores, StoresOf, OwnReads, ReadsOf, OwnAnswer, Deciding,
      Storing, Stored, Tasks
<1>9. ASSUME ~lost'
      PROVE  InOrder'
  <2>1. InOrder /\ lwip' = Append(lwip, h)
    BY <1>2, <1>9 DEF SdpInv
  <2>2. /\ h = sent[K + 1]
        /\ Len(frames') = Len(frames) - 1 /\ Len(frames) >= 1
        /\ \A i \in 1 .. Len(frames') : frames'[i] = sent[K + 1 + i]
    <3>1. sent \in Seq(Requests) /\ K \in Nat
      BY <1>1, SentNumbers DEF SdpTypes
    <3>2. \A i \in 1 .. Len(frames) : frames[i] = sent[K + i]
      BY <2>1 DEF InOrder, Queues
    <3>3. frames # <<>>
      BY <1>2
    <3>4. /\ Head(frames) = sent[K + 1]
          /\ Len(Tail(frames)) = Len(frames) - 1 /\ Len(frames) >= 1
          /\ \A i \in 1 .. Len(Tail(frames)) : Tail(frames)[i] = sent[K + 1 + i]
      <4>1. /\ Len(frames) \in Nat /\ Len(frames) >= 1 /\ Head(frames) = frames[1]
            /\ Len(Tail(frames)) = Len(frames) - 1
            /\ \A i \in 1 .. Len(Tail(frames)) :
                  i + 1 \in 1 .. Len(frames) /\ Tail(frames)[i] = frames[i + 1]
        BY <1>3, <3>3, Taken
      <4>2. frames[1] = sent[K + 1]
        BY <3>2, <4>1
      <4>3. ASSUME NEW i \in 1 .. Len(Tail(frames))
            PROVE  Tail(frames)[i] = sent[K + 1 + i]
        <5>1. i + 1 \in 1 .. Len(frames) /\ K + (i + 1) = K + 1 + i
          BY <3>1, <4>1
        <5> QED
          BY <3>2, <4>1, <5>1
      <4> QED
        BY <4>1, <4>2, <4>3
    <3> QED
      BY <1>2, <3>4 DEF h
  <2>3. /\ M <= K /\ K <= Len(sent) /\ A <= K
        /\ Len(frames) = Len(sent) - K /\ Len(lwip) = K - M
        /\ \A i \in 1 .. Len(lwip) : lwip[i] = sent[M + i]
    BY <2>1 DEF InOrder, Queues
  <2>4. K + 1 \in 1 .. Len(sent)
    BY <1>1, <2>2, <2>3, SentNumbers
  <2>5. h.n = K + 1
    BY <2>1, <2>2, <2>4 DEF InOrder, Numbered
  <2>6. K' = K + 1 /\ M' = M /\ A' = A
    BY <1>2, <1>5, <2>5 DEF K, M, A
  <2>7. Queues'
    <3>1. /\ Len(lwip') = Len(lwip) + 1 /\ lwip'[Len(lwip) + 1] = h
          /\ \A i \in 1 .. Len(lwip) : lwip'[i] = lwip[i]
      BY <1>3, <1>4, <2>1
    <3>2. ASSUME NEW i \in 1 .. Len(lwip')
          PROVE  lwip'[i] = sent[M + i]
      <4>1. CASE i = Len(lwip) + 1
        <5>1. M + i = K + 1
          BY <1>1, <2>3, <4>1, SentNumbers
        <5> QED
          BY <2>2, <3>1, <4>1, <5>1
      <4>2. CASE i # Len(lwip) + 1
        <5>1. i \in 1 .. Len(lwip)
          BY <1>1, <3>1, <3>2, <4>2, SentNumbers
        <5> QED
          BY <2>3, <3>1, <5>1
      <4> QED
        BY <4>1, <4>2
    <3>3. /\ M <= K + 1 /\ K + 1 <= Len(sent) /\ A <= K + 1
          /\ Len(frames') = Len(sent) - (K + 1)
          /\ Len(lwip') = (K + 1) - M
      BY <1>1, <2>2, <2>3, <3>1, SentNumbers
    <3> QED
      BY <1>2, <2>2, <2>6, <3>2, <3>3 DEF Queues
  <2>8. Numbered'
    BY <1>2, <2>1 DEF InOrder, Numbered
  <2>9. Handled'
    <3>1. K' > 0 /\ ~(K' = 0)
      BY <1>1, <2>6, SentNumbers
    <3> QED
      BY <1>2, <1>5, <2>1, <2>2, <2>6, <3>1 DEF InOrder, Handled
  <2>10. Accepting' /\ SecurityOf'
    BY <1>2, <1>5, <2>1, <2>6 DEF InOrder, Accepting, Acceptable,
        SecurityOf, Storing, Stored, Tasks
  <2>11. PortOf'
    BY <1>2, <1>5, <2>1, <2>6 DEF InOrder, PortOf
  <2>12. AddressOf'
    <3>1. M' # K'
      BY <1>1, <2>3, <2>6, SentNumbers
    <3> QED
      BY <3>1 DEF AddressOf
  <2> QED
    BY <2>7, <2>8, <2>9, <2>10, <2>11, <2>12 DEF InOrder
<1> QED
  BY <1>7, <1>8, <1>9 DEF SdpInv

LEMMA SdpTakesKeeps ==
    ASSUME SdpInv, SdpTakes, UNCHANGED tls_ready
    PROVE  SdpInv'
<1> DEFINE h == Head(lwip)
<1>1. SdpTypes
  BY DEF SdpInv
<1>2. /\ at["sdp"].pc = "idle" /\ lwip # <<>> /\ lwip' = Tail(lwip)
      /\ at' = [at EXCEPT !["sdp"] =
                   [pc |-> "request", dg |-> h, tls |-> FALSE, own |-> TRUE]]
      /\ evcc' = h.src
      /\ disturbed' = [t \in Tasks |->
                        IF t = "sdp" THEN FALSE
                        ELSE disturbed[t] \/ ~Same(h, at[t].dg)]
      /\ UNCHANGED <<sent, frames, reqSecurity, reqTransport, security, port, answer,
                     accepted, misread, lost>>
  BY DEF SdpTakes, Begins, request, verdict
<1>3. lwip \in Seq(Requests)
  BY <1>1 DEF SdpTypes
<1>4. h \in Requests /\ lwip' \in Seq(Requests)
  BY <1>2, <1>3
<1> HIDE DEF h
<1>5. /\ at'["tick"] = at["tick"]
      /\ at'["sdp"].pc = "request" /\ at'["sdp"].dg = h /\ at'["sdp"].own
      /\ at' \in [Tasks -> Work]
  BY <1>1, <1>2, <1>4 DEF SdpTypes, Work, Tasks, Pcs, Deciding
<1>6. /\ disturbed' \in [Tasks -> BOOLEAN]
      /\ ~disturbed'["tick"] => ~disturbed["tick"] /\ h.src = at["tick"].dg.src
  BY <1>1, <1>2 DEF SdpTypes, Tasks, Same
<1>7. SdpTypes'
  BY <1>1, <1>2, <1>4, <1>5, <1>6 DEF SdpTypes
<1>8. OwnStores' /\ OwnReads' /\ OwnAnswer'
  BY <1>2, <1>5, <1>6 DEF SdpInv, OwnStores, StoresOf, OwnReads, ReadsOf, OwnAnswer, Deciding,
      Storing, Stored, Tasks
<1>9. ASSUME ~lost
      PROVE  InOrder'
  <2>1. InOrder
    BY <1>9 DEF SdpInv
  <2>2. /\ h = sent[M + 1]
        /\ Len(lwip') = Len(lwip) - 1 /\ Len(lwip) >= 1
        /\ \A i \in 1 .. Len(lwip') : lwip'[i] = sent[M + 1 + i]
    <3>1. sent \in Seq(Requests) /\ M \in Nat
      BY <1>1, SentNumbers DEF SdpTypes
    <3>2. \A i \in 1 .. Len(lwip) : lwip[i] = sent[M + i]
      BY <2>1 DEF InOrder, Queues
    <3>3. lwip # <<>>
      BY <1>2
    <3>4. /\ Head(lwip) = sent[M + 1]
          /\ Len(Tail(lwip)) = Len(lwip) - 1 /\ Len(lwip) >= 1
          /\ \A i \in 1 .. Len(Tail(lwip)) : Tail(lwip)[i] = sent[M + 1 + i]
      <4>1. /\ Len(lwip) \in Nat /\ Len(lwip) >= 1 /\ Head(lwip) = lwip[1]
            /\ Len(Tail(lwip)) = Len(lwip) - 1
            /\ \A i \in 1 .. Len(Tail(lwip)) :
                  i + 1 \in 1 .. Len(lwip) /\ Tail(lwip)[i] = lwip[i + 1]
        BY <1>3, <3>3, Taken
      <4>2. lwip[1] = sent[M + 1]
        BY <3>2, <4>1
      <4>3. ASSUME NEW i \in 1 .. Len(Tail(lwip))
            PROVE  Tail(lwip)[i] = sent[M + 1 + i]
        <5>1. i + 1 \in 1 .. Len(lwip) /\ M + (i + 1) = M + 1 + i
          BY <3>1, <4>1
        <5> QED
          BY <3>2, <4>1, <5>1
      <4> QED
        BY <4>1, <4>2, <4>3
    <3> QED
      BY <1>2, <3>4 DEF h
  <2>3. /\ M <= K /\ K <= Len(sent) /\ A <= K
        /\ Len(frames) = Len(sent) - K /\ Len(lwip) = K - M
        /\ \A i \in 1 .. Len(frames) : frames[i] = sent[K + i]
    BY <2>1 DEF InOrder, Queues
  <2>4. M + 1 \in 1 .. Len(sent) /\ M + 1 <= K
    BY <1>1, <2>2, <2>3, SentNumbers
  <2>5. h.n = M + 1
    BY <2>1, <2>2, <2>4 DEF InOrder, Numbered
  <2>6. K' = K /\ M' = M + 1 /\ A' = A
    BY <1>2, <1>5, <2>5 DEF K, M, A
  <2>7. Queues'
    <3>1. Len(lwip') = K - (M + 1)
      BY <1>1, <2>2, <2>3, SentNumbers
    <3> QED
      BY <1>2, <2>2, <2>3, <2>4, <2>6, <3>1 DEF Queues
  <2>8. Numbered'
    BY <1>2, <2>1 DEF InOrder, Numbered
  <2>9. Handled'
    <3>1. M' > 0 /\ ~(M' = 0)
      BY <1>1, <2>6, SentNumbers
    <3> QED
      BY <1>2, <1>5, <2>1, <2>2, <2>6, <3>1 DEF InOrder, Handled
  <2>10. Accepting'
    BY <1>2, <1>5, <2>1, <2>6 DEF InOrder, Accepting, Acceptable, Storing, Stored, Tasks
  <2>11. SecurityOf'
    <3>1. A > 0 /\ ~misread =>
             \/ security = accepted.security \/ M + 1 < A \/ M + 1 = A
             \/ K = A /\ at["tick"].pc = "security"
      <4>1. A > 0 /\ ~misread =>
               \/ security = accepted.security \/ M < A
               \/ K = A /\ at["tick"].pc = "security"
        BY <1>2, <2>1 DEF InOrder, SecurityOf, Deciding
      <4> QED
        BY <1>1, <4>1, SentNumbers
    <3> QED
      BY <1>2, <1>5, <2>6, <3>1 DEF SecurityOf, Deciding
  <2>12. PortOf'
    <3>1. A > 0 /\ ~misread =>
             \/ port = accepted.security \/ M + 1 < A \/ M + 1 = A
             \/ K = A /\ at["tick"].pc \in {"security", "port"}
      <4>1. A > 0 /\ ~misread =>
               \/ port = accepted.security \/ M < A
               \/ K = A /\ at["tick"].pc \in {"security", "port"}
        BY <1>2, <2>1 DEF InOrder, PortOf, Deciding
      <4> QED
        BY <1>1, <4>1, SentNumbers
    <3> QED
      BY <1>2, <1>5, <2>6, <3>1 DEF PortOf, Deciding
  <2>13. AddressOf'
    BY <1>2, <2>2, <2>6 DEF AddressOf
  <2> QED
    BY <2>7, <2>8, <2>9, <2>10, <2>11, <2>12, <2>13 DEF InOrder
<1> QED
  BY <1>2, <1>7, <1>8, <1>9 DEF SdpInv

-----------------------------------------------------------------------------
(* The theorems.                                                           *)

LEMMA SdpInvStep == SdpInv /\ [SdpNext]_sdpVars => SdpInv'
<1> SUFFICES ASSUME SdpInv, [SdpNext]_sdpVars PROVE SdpInv'
  OBVIOUS
<1>1. CASE /\ UNCHANGED tls_ready
           /\ \E s \in Sources, sec \in Securities, trans \in Transports :
                 VehicleAsks(s, sec, trans)
  BY <1>1, AsksKeeps
<1>2. CASE UNCHANGED tls_ready /\ TickTakes
  BY <1>2, TickTakesKeeps
<1>3. CASE UNCHANGED tls_ready /\ SdpTakes
  BY <1>3, SdpTakesKeeps
<1>4. ASSUME UNCHANGED tls_ready, NEW t \in Tasks, SdpStep(t)
      PROVE  SdpInv'
  <2>1. SdpTypes' /\ OwnReads' /\ UNCHANGED lost
    BY <1>4, StepTypes DEF SdpInv
  <2>2. OwnStores' /\ OwnAnswer'
    BY <1>4, OwnStoresKept, OwnAnswerKept DEF SdpInv
  <2>3. ~lost => InOrder'
    BY <1>4, TickStores, SdpStores DEF SdpInv, Tasks
  <2> QED
    BY <2>1, <2>2, <2>3 DEF SdpInv
<1>5. CASE TlsListens
  <2>1. Acceptable(accepted) => Acceptable(accepted)'
    BY <1>5 DEF TlsListens, verdict, Acceptable
  <2>2. UNCHANGED <<sent, frames, lwip, lost, at, reqSecurity, reqTransport, security, port,
                    evcc, answer, disturbed, accepted, misread>>
    BY <1>5 DEF TlsListens, wire, request, endpoint, verdict
  <2>3. SdpTypes' /\ OwnStores' /\ OwnReads' /\ OwnAnswer'
    BY <2>2 DEF SdpInv, SdpTypes, OwnStores, StoresOf, OwnReads, ReadsOf, OwnAnswer
  <2>4. InOrder => Queues' /\ Numbered' /\ Handled' /\ AddressOf'
    BY <2>2 DEF InOrder, Queues, Numbered, Handled, AddressOf, K, M, A
  <2>5. InOrder => Accepting' /\ SecurityOf' /\ PortOf'
    BY <2>1, <2>2 DEF InOrder, Accepting, SecurityOf, PortOf, K, M, A
  <2> QED
    BY <2>2, <2>3, <2>4, <2>5 DEF SdpInv, InOrder
<1>6. CASE UNCHANGED sdpVars
  <2>1. UNCHANGED <<tls_ready, sent, frames, lwip, lost, at, reqSecurity, reqTransport,
                    security, port, evcc, answer, disturbed, accepted, misread>>
    BY <1>6 DEF sdpVars, wire, request, endpoint, verdict
  <2>2. SdpTypes' /\ OwnStores' /\ OwnReads' /\ OwnAnswer'
    BY <2>1 DEF SdpInv, SdpTypes, OwnStores, StoresOf, OwnReads, ReadsOf, OwnAnswer
  <2>3. InOrder => InOrder'
    BY <2>1 DEF InOrder, Queues, Numbered, Handled, Accepting, SecurityOf, PortOf, AddressOf,
        K, M, A, Acceptable
  <2> QED
    BY <2>1, <2>2, <2>3 DEF SdpInv
<1> QED
  BY <1>1, <1>2, <1>3, <1>4, <1>5, <1>6 DEF SdpNext

LEMMA SdpInvHolds == SdpSpec => []SdpInv
BY SdpStart, SdpInvStep, PTL DEF SdpSpec

\* A request whose handling met only equal requests in the other task, read
\* there as what they are, is answered to who sent it, with the security it
\* asked for and the port that belongs to it (handleSdpRequestBuffer and
\* buildSdpResponseFrame of src/ipv6.cpp, run by two tasks at once over the same
\* variables, those of the request included).
THEOREM OwnAnswerHolds == SdpSpec => []OwnAnswer
<1>1. SdpInv => OwnAnswer
  BY DEF SdpInv
<1> QED
  BY <1>1, SdpInvHolds, PTL

\* However the 20 ms task and the SDP task interleave on security, port and
\* address, once both have handled every request the security and the port are
\* those of the latest request accepted, unless a task read another request's
\* bytes back for it; the address is the latest request's (the same functions).
THEOREM SettledEndpointHolds == SdpSpec => []SettledEndpoint
<1>1. SdpInv => SettledEndpoint
  <2> SUFFICES ASSUME SdpInv, Settled, sent # <<>>
               PROVE  /\ misread \/ security = port
                      /\ accepted.n > 0 /\ ~misread => port = accepted.security
                      /\ evcc = sent[Len(sent)].src
    BY DEF SettledEndpoint
  <2>1. SdpTypes /\ InOrder
    BY DEF SdpInv, Settled
  <2>2. /\ K = Len(sent) /\ M = K /\ A <= K /\ K > 0
    <3>1. Len(frames) = 0 /\ Len(lwip) = 0 /\ Len(sent) > 0
      BY <2>1 DEF Settled, SdpTypes
    <3> QED
      BY <2>1, <3>1, SentNumbers DEF InOrder, Queues
  <2>3. at["tick"].pc = "idle" /\ at["sdp"].pc = "idle"
    BY DEF Settled, Tasks
  <2>4. A > 0 /\ ~misread => security = accepted.security /\ port = accepted.security
    BY <2>1, <2>2, <2>3, SentNumbers DEF InOrder, SecurityOf, PortOf, Deciding
  <2>5. A = 0 => security = port
    BY <2>1 DEF InOrder, Accepting
  <2>6. evcc = sent[Len(sent)].src
    BY <2>1, <2>2 DEF InOrder, AddressOf
  <2> QED
    BY <2>1, <2>4, <2>5, <2>6, SentNumbers DEF A
<1> QED
  BY <1>1, SdpInvHolds, PTL

-----------------------------------------------------------------------------
(* The TCP on raw frames: LegacyTcp.                                       *)

Bodies == [conn : Nat, req : Nat]
Segs == [kind : Kinds, conn : Nat, seq : Nat, ack : Nat, body : Bodies]
Ends == [state : {"closed", "syn", "open"}, conn : Nat, sent : Nat, rcvd : Nat,
         acked : BOOLEAN, waiting : BOOLEAN, tries : Nat, got : Seq(Bodies)]

ChargerTypes ==
    /\ tcpState \in {"CLOSED", "SYN_ACK", "ESTABLISHED"}
    /\ TcpSeqNr \in Nat /\ TcpAckNr \in Nat /\ expected \in Nat /\ evccTcpPort \in Nat
    /\ awaiting \in BOOLEAN /\ session \in BOOLEAN
    /\ payload \in Bodies

LegacyTypes ==
    /\ ChargerTypes
    /\ up \in Seq(Segs) /\ down \in Seq(Segs)
    /\ peer \in Ends

\* A segment on its way to the charger.  A late SYN never names an older
\* connection than the charger's; what carries an acknowledgement belongs to the
\* charger's connection and acknowledges no less than the charger knows; a
\* request travels under the number of its response.
UpSegment(s) ==
    /\ s.conn <= peer.conn
    /\ s.kind = "syn" =>
          /\ s.conn >= evccTcpPort
          /\ evccTcpPort = peer.conn => s.conn = peer.conn
    /\ HasAck(s) =>
          /\ s.conn = evccTcpPort
          /\ TcpSeqNr <= s.ack
          /\ s.conn = peer.conn => s.ack <= peer.rcvd
    /\ s.kind = "data" =>
          /\ s.seq = s.ack
          /\ s.body = [conn |-> s.conn, req |-> s.seq]
          /\ s.conn = peer.conn => s.seq <= peer.sent

\* Segment r was sent after segment s.
InTurn(s, r) ==
    /\ s.kind = "syn" /\ HasAck(r) => s.conn = r.conn
    /\ s.kind = "syn" /\ r.kind = "syn" => s.conn <= r.conn
    /\ HasAck(s) /\ HasAck(r) => s.ack <= r.ack

UpLine ==
    /\ \A i \in 1 .. Len(up) : UpSegment(up[i])
    /\ \A i \in 1 .. Len(up), j \in 1 .. Len(up) : i < j => InTurn(up[i], up[j])

\* A segment on its way to the vehicle: a response travels under the number of
\* the request it answers.
DownSegment(f) ==
    /\ f.conn <= evccTcpPort
    /\ f.kind = "data" =>
          /\ f.body = [conn |-> f.conn, req |-> f.seq]
          /\ f.ack = f.seq + 1
          /\ f.conn = peer.conn => f.seq <= peer.sent

DownLine == \A i \in 1 .. Len(down) : DownSegment(down[i])

Ports ==
    /\ evccTcpPort <= peer.conn
    /\ peer.state = "open" => evccTcpPort = peer.conn
    /\ evccTcpPort = peer.conn => TcpSeqNr <= peer.rcvd

\* The response that waits for its acknowledgement is the one whose number the
\* charger would send it under now.
Pending ==
    /\ awaiting =>
          /\ tcpState = "ESTABLISHED"
          /\ payload = [conn |-> evccTcpPort, req |-> TcpSeqNr]
          /\ expected = TcpSeqNr + 1
          /\ TcpAckNr = TcpSeqNr + 1
          /\ evccTcpPort = peer.conn => TcpSeqNr <= peer.sent
    /\ session => tcpState = "ESTABLISHED"

\* The vehicle's own bookkeeping.
Vehicle ==
    /\ ReplyAnswersRequest
    /\ peer.state = "open" =>
          /\ peer.rcvd = Len(peer.got) + 1
          /\ peer.waiting => peer.rcvd = peer.sent
          /\ ~peer.waiting => peer.rcvd = peer.sent + 1 /\ peer.acked
    /\ peer.state = "syn" =>
          /\ peer.rcvd = 0 /\ peer.sent = 0 /\ peer.got = <<>>
          /\ peer.acked /\ ~peer.waiting

LegacyInv == LegacyTypes /\ UpLine /\ DownLine /\ Ports /\ Pending /\ Vehicle

LEMMA LegacyStart == Init => LegacyInv
<1> SUFFICES ASSUME Init PROVE LegacyInv
  OBVIOUS
<1>1. None \in Bodies
  BY DEF None, Bodies
<1>2. ChargerTypes
  BY <1>1 DEF Init, ChargerTypes
<1>3. <<>> \in Seq(Segs) /\ <<>> \in Seq(Bodies)
  OBVIOUS
<1>4. peer \in Ends
  BY <1>3 DEF Init, Ends
<1>5. UpLine /\ DownLine
  BY DEF Init, UpLine, DownLine
<1>6. Ports /\ Pending /\ Vehicle
  BY DEF Init, Ports, Pending, Vehicle, ReplyAnswersRequest
<1> QED
  BY <1>2, <1>3, <1>4, <1>5, <1>6 DEF Init, LegacyInv, LegacyTypes

-----------------------------------------------------------------------------
(* The two directions of the line.                                         *)

\* The first segment is taken: the others stay, with what relates them to it.
LEMMA UpTaken ==
    ASSUME up \in Seq(Segs), UpLine, up # <<>>, up' = Tail(up),
           \A s \in Segs : UpSegment(s) /\ InTurn(up[1], s) => UpSegment(s)'
    PROVE  UpLine' /\ up' \in Seq(Segs)
<1>1. /\ Len(up) \in Nat /\ Len(up) >= 1
      /\ Len(up') = Len(up) - 1 /\ up' \in Seq(Segs)
      /\ \A i \in 1 .. Len(up') : i + 1 \in 1 .. Len(up) /\ up'[i] = up[i + 1]
  BY Taken
<1>2. ASSUME NEW i \in 1 .. Len(up')
      PROVE  UpSegment(up[i])'
  <2>1. /\ up'[i] = up[i + 1] /\ i + 1 \in 1 .. Len(up)
        /\ 1 \in 1 .. Len(up) /\ 1 < i + 1
    BY <1>1
  <2>2. UpSegment(up[i + 1]) /\ InTurn(up[1], up[i + 1]) /\ up[i + 1] \in Segs
    BY <2>1 DEF UpLine
  <2>3. PICK s \in Segs : s = up[i + 1]
    BY <2>2
  <2>4. UpSegment(s)'
    BY <2>2, <2>3
  <2> QED
    BY <2>1, <2>3, <2>4 DEF UpSegment
<1>3. ASSUME NEW i \in 1 .. Len(up'), NEW j \in 1 .. Len(up'), i < j
      PROVE  InTurn(up'[i], up'[j])
  <2>1. /\ up'[i] = up[i + 1] /\ i + 1 \in 1 .. Len(up)
        /\ up'[j] = up[j + 1] /\ j + 1 \in 1 .. Len(up)
        /\ i + 1 < j + 1
    BY <1>1, <1>3
  <2> QED
    BY <2>1 DEF UpLine
<1> QED
  BY <1>1, <1>2, <1>3 DEF UpLine, InTurn, HasAck

LEMMA UpSent ==
    ASSUME up \in Seq(Segs), UpLine, NEW m \in Segs, up' = Append(up, m),
           UpSegment(m)',
           \A s \in Segs : UpSegment(s) => UpSegment(s)',
           \A s \in Segs : UpSegment(s) => InTurn(s, m)
    PROVE  UpLine' /\ up' \in Seq(Segs)
<1>1. /\ Len(up) \in Nat
      /\ Len(up') = Len(up) + 1 /\ up' \in Seq(Segs)
      /\ up'[Len(up) + 1] = m
      /\ \A i \in 1 .. Len(up) : up'[i] = up[i] /\ up[i] \in Segs
  OBVIOUS
<1>2. ASSUME NEW i \in 1 .. Len(up')
      PROVE  UpSegment(up[i])'
  <2>1. i = Len(up) + 1 \/ i \in 1 .. Len(up)
    BY <1>1
  <2>2. CASE i = Len(up) + 1
    BY <1>1, <2>2 DEF UpSegment
  <2>3. CASE i \in 1 .. Len(up)
    <3>1. PICK s \in Segs : s = up[i]
      BY <1>1, <2>3
    <3>2. UpSegment(s)'
      BY <2>3, <3>1 DEF UpLine
    <3> QED
      BY <1>1, <2>3, <3>1, <3>2 DEF UpSegment
  <2> QED
    BY <2>1, <2>2, <2>3
<1>3. ASSUME NEW i \in 1 .. Len(up'), NEW j \in 1 .. Len(up'), i < j
      PROVE  InTurn(up'[i], up'[j])
  <2>1. i \in 1 .. Len(up) /\ (j = Len(up) + 1 \/ j \in 1 .. Len(up))
    BY <1>1, <1>3
  <2>2. CASE j = Len(up) + 1
    BY <1>1, <2>1, <2>2 DEF UpLine
  <2>3. CASE j \in 1 .. Len(up)
    BY <1>1, <1>3, <2>1, <2>3 DEF UpLine
  <2> QED
    BY <2>1, <2>2, <2>3
<1> QED
  BY <1>1, <1>2, <1>3 DEF UpLine, InTurn, HasAck

\* Nothing is sent.
LEMMA UpKept ==
    ASSUME up \in Seq(Segs), UpLine, up' = up,
           \A s \in Segs : UpSegment(s) => UpSegment(s)'
    PROVE  UpLine' /\ up' \in Seq(Segs)
<1>1. \A i \in 1 .. Len(up) : up[i] \in Segs
  OBVIOUS
<1> QED
  BY <1>1 DEF UpLine, InTurn, HasAck

\* Whatever of the frames fits on the line, and whatever of it is gone.
LEMMA DownSent ==
    ASSUME down \in Seq(Segs), DownLine, NEW fs \in Seq(Segs), Send(fs),
           \A f \in Segs : DownSegment(f) => DownSegment(f)',
           \A i \in 1 .. Len(fs) : \A f \in Segs : f = fs[i] => DownSegment(f)'
    PROVE  DownLine' /\ down' \in Seq(Segs)
<1> DEFINE whole == down \o fs
           n == IF Len(whole) > Channel THEN Channel ELSE Len(whole)
<1>1. down' = SubSeq(whole, 1, n)
  BY DEF Send
<1>2. /\ whole \in Seq(Segs) /\ Len(whole) = Len(down) + Len(fs)
      /\ Len(down) \in Nat /\ Len(fs) \in Nat /\ Len(whole) \in Nat
      /\ \A i \in 1 .. Len(down) : whole[i] = down[i]
      /\ \A i \in 1 .. Len(fs) : whole[Len(down) + i] = fs[i]
  OBVIOUS
<1>3. n \in Nat /\ n <= Len(whole)
  <2>1. Channel \in Nat
    BY LegacyAssumption DEF LegacyAssumption
  <2> QED
    BY <1>2, <2>1
<1> HIDE DEF whole, n
<1>4. /\ down' \in Seq(Segs) /\ Len(down') = n
      /\ \A i \in 1 .. n : down'[i] = whole[i] /\ i \in 1 .. Len(whole)
  BY <1>1, <1>2, <1>3
<1>5. ASSUME NEW i \in 1 .. Len(whole), NEW f, f = whole[i]
      PROVE  DownSegment(f)'
  <2>1. CASE i \in 1 .. Len(down)
    <3>1. f \in Segs /\ DownSegment(f)
      BY <1>2, <1>5, <2>1 DEF DownLine
    <3> QED
      BY <3>1
  <2>2. CASE i \notin 1 .. Len(down)
    <3>1. i - Len(down) \in 1 .. Len(fs) /\ Len(down) + (i - Len(down)) = i
      BY <1>2, <2>2
    <3>2. PICK j \in 1 .. Len(fs) : f = fs[j]
      BY <1>2, <1>5, <3>1
    <3> QED
      BY <3>2
  <2> QED
    BY <2>1, <2>2
<1>6. ASSUME NEW i \in 1 .. Len(down')
      PROVE  DownSegment(down[i])'
  <2>1. PICK f : f = down'[i] /\ DownSegment(f)'
    BY <1>4, <1>5
  <2> QED
    BY <2>1 DEF DownSegment
<1> QED
  BY <1>4, <1>6 DEF DownLine

LEMMA DownKept ==
    ASSUME down \in Seq(Segs), DownLine, down' = down \/ (down # <<>> /\ down' = Tail(down)),
           \A f \in Segs : DownSegment(f) => DownSegment(f)'
    PROVE  DownLine' /\ down' \in Seq(Segs)
<1>1. \A i \in 1 .. Len(down) : down[i] \in Segs
  OBVIOUS
<1>2. CASE down' = down
  BY <1>1, <1>2 DEF DownLine
<1>3. CASE down # <<>> /\ down' = Tail(down)
  <2>1. /\ Len(down') = Len(down) - 1 /\ down' \in Seq(Segs)
        /\ \A i \in 1 .. Len(down') : i + 1 \in 1 .. Len(down) /\ down'[i] = down[i + 1]
    BY <1>3, Taken
  <2> QED
    BY <1>1, <2>1 DEF DownLine
<1> QED
  BY <1>2, <1>3

-----------------------------------------------------------------------------
(* The charger's steps.                                                    *)

LEMMA FirstSegment ==
    ASSUME LegacyInv, up # <<>>
    PROVE  Head(up) \in Segs /\ UpSegment(Head(up)) /\ Head(up) = up[1]
<1>1. up \in Seq(Segs) /\ UpLine
  BY DEF LegacyInv, LegacyTypes
<1>2. Len(up) \in Nat /\ Len(up) >= 1 /\ Head(up) = up[1] /\ up[1] \in Segs
  BY <1>1
<1> QED
  BY <1>1, <1>2 DEF UpLine

\* What every way to handle a segment does to the connection's port and number.
Takes(s) ==
    \/ UNCHANGED <<evccTcpPort, TcpSeqNr>>
    \/ s.kind = "syn" /\ evccTcpPort' = s.conn /\ TcpSeqNr' = 0
    \/ HasAck(s) /\ evccTcpPort' = evccTcpPort /\ TcpSeqNr' = s.ack

LEMMA Received ==
    ASSUME LegacyInv, up # <<>>, up' = Tail(up), UNCHANGED peer, Takes(Head(up))
    PROVE  /\ UpLine' /\ Ports' /\ Vehicle'
           /\ up' \in Seq(Segs) /\ peer' \in Ends
           /\ evccTcpPort' \in Nat /\ TcpSeqNr' \in Nat
           /\ \A f \in Segs : DownSegment(f) => DownSegment(f)'
<1> DEFINE h == Head(up)
<1>1. /\ up \in Seq(Segs) /\ UpLine /\ Ports /\ Vehicle /\ peer \in Ends
      /\ evccTcpPort \in Nat /\ TcpSeqNr \in Nat
  BY DEF LegacyInv, LegacyTypes, ChargerTypes
<1>2. h \in Segs /\ UpSegment(h) /\ h = up[1]
  BY FirstSegment
<1>3. h.conn \in Nat /\ h.ack \in Nat /\ peer.conn \in Nat /\ peer.rcvd \in Nat
  BY <1>1, <1>2 DEF Segs, Ends
<1>4. Takes(h)
  OBVIOUS
<1> HIDE DEF h
<1>5. evccTcpPort' \in Nat /\ TcpSeqNr' \in Nat /\ evccTcpPort' >= evccTcpPort
  BY <1>1, <1>2, <1>3, <1>4 DEF Takes, UpSegment
<1>6. ASSUME NEW s \in Segs, UpSegment(s), InTurn(h, s)
      PROVE  UpSegment(s)'
  <2>1. s.conn \in Nat /\ s.ack \in Nat
    BY <1>6 DEF Segs
  <2>2. CASE UNCHANGED <<evccTcpPort, TcpSeqNr>>
    BY <1>6, <2>2 DEF UpSegment, HasAck
  <2>3. CASE h.kind = "syn" /\ evccTcpPort' = h.conn /\ TcpSeqNr' = 0
    <3>1. s.kind = "syn" => s.conn >= h.conn /\ s.conn <= peer.conn
      BY <1>3, <1>6, <2>1, <2>3 DEF UpSegment, InTurn
    <3>2. s.kind = "syn" /\ h.conn = peer.conn => s.conn = peer.conn
      BY <1>3, <2>1, <3>1
    <3>3. HasAck(s) => s.conn = h.conn /\ 0 <= s.ack
      BY <1>6, <2>1, <2>3 DEF InTurn
    <3> QED
      BY <1>6, <2>3, <3>1, <3>2, <3>3 DEF UpSegment, HasAck
  <2>4. CASE HasAck(h) /\ evccTcpPort' = evccTcpPort /\ TcpSeqNr' = h.ack
    BY <1>6, <2>4 DEF UpSegment, InTurn, HasAck
  <2> QED
    BY <1>4, <2>2, <2>3, <2>4 DEF Takes
<1>7. UpLine' /\ up' \in Seq(Segs)
  <2>1. \A s \in Segs : UpSegment(s) /\ InTurn(up[1], s) => UpSegment(s)'
    BY <1>2, <1>6
  <2> QED
    BY <1>1, <2>1, UpTaken
<1>8. Ports'
  <2>1. CASE UNCHANGED <<evccTcpPort, TcpSeqNr>>
    BY <1>1, <2>1 DEF Ports
  <2>2. CASE h.kind = "syn" /\ evccTcpPort' = h.conn /\ TcpSeqNr' = 0
    BY <1>1, <1>2, <1>3, <2>2 DEF Ports, UpSegment
  <2>3. CASE HasAck(h) /\ evccTcpPort' = evccTcpPort /\ TcpSeqNr' = h.ack
    BY <1>1, <1>2, <2>3 DEF Ports, UpSegment
  <2> QED
    BY <1>4, <2>1, <2>2, <2>3 DEF Takes
<1>9. Vehicle'
  BY <1>1 DEF Vehicle, ReplyAnswersRequest
<1>10. ASSUME NEW f \in Segs, DownSegment(f)
       PROVE  DownSegment(f)'
  BY <1>1, <1>5, <1>10 DEF DownSegment, Segs
<1> QED
  BY <1>1, <1>5, <1>7, <1>8, <1>9, <1>10

LEMMA OneFrame ==
    ASSUME LegacyInv, NEW f \in Segs, Send(<<f>>), DownSegment(f)',
           \A g \in Segs : DownSegment(g) => DownSegment(g)'
    PROVE  DownLine' /\ down' \in Seq(Segs)
<1>1. down \in Seq(Segs) /\ DownLine
  BY DEF LegacyInv, LegacyTypes
<1>2. <<f>> \in Seq(Segs) /\ Len(<<f>>) = 1 /\ <<f>>[1] = f
  OBVIOUS
<1>3. \A i \in 1 .. Len(<<f>>) : \A g \in Segs : g = <<f>>[i] => DownSegment(g)'
  <2>1. ASSUME NEW i \in 1 .. Len(<<f>>), NEW g \in Segs, g = <<f>>[i]
        PROVE  DownSegment(g)'
    <3>1. g = f
      BY <1>2, <2>1
    <3> QED
      BY <3>1 DEF DownSegment
  <2> QED
    BY <2>1
<1> QED
  BY <1>1, <1>2, <1>3, DownSent

LEMMA TwoFrames ==
    ASSUME LegacyInv, NEW f \in Segs, NEW e \in Segs, Send(<<f, e>>),
           DownSegment(f)', DownSegment(e)',
           \A g \in Segs : DownSegment(g) => DownSegment(g)'
    PROVE  DownLine' /\ down' \in Seq(Segs)
<1>1. down \in Seq(Segs) /\ DownLine
  BY DEF LegacyInv, LegacyTypes
<1>2. <<f, e>> \in Seq(Segs) /\ Len(<<f, e>>) = 2 /\ <<f, e>>[1] = f /\ <<f, e>>[2] = e
  OBVIOUS
<1>3. \A i \in 1 .. Len(<<f, e>>) : \A g \in Segs : g = <<f, e>>[i] => DownSegment(g)'
  <2>1. ASSUME NEW i \in 1 .. Len(<<f, e>>), NEW g \in Segs, g = <<f, e>>[i]
        PROVE  DownSegment(g)'
    <3>1. g = f \/ g = e
      BY <1>2, <2>1
    <3> QED
      BY <3>1 DEF DownSegment
  <2> QED
    BY <2>1
<1> QED
  BY <1>1, <1>2, <1>3, DownSent

LEMMA NothingSent ==
    ASSUME LegacyInv, UNCHANGED down,
           \A g \in Segs : DownSegment(g) => DownSegment(g)'
    PROVE  DownLine' /\ down' \in Seq(Segs)
<1>1. down \in Seq(Segs) /\ DownLine
  BY DEF LegacyInv, LegacyTypes
<1> QED
  BY <1>1, DownKept

\* What is left to show for a segment.
LEMMA Handling ==
    ASSUME LegacyInv, up # <<>>, up' = Tail(up), UNCHANGED peer, Takes(Head(up)),
           ChargerTypes', DownLine', down' \in Seq(Segs), Pending'
    PROVE  LegacyInv'
BY Received DEF LegacyInv, LegacyTypes

LEMMA SessionReset ==
    ASSUME ResetSession
    PROVE  /\ expected' \in Nat /\ awaiting' \in BOOLEAN /\ session' \in BOOLEAN
           /\ payload' \in Bodies
           /\ ~awaiting' /\ ~session'
<1>1. None \in Bodies /\ 0 \in Nat
  BY DEF None, Bodies
<1> QED
  BY <1>1 DEF ResetSession

LEMMA Acknowledged ==
    ASSUME ChargerTypes, NEW k \in Nat, Acknowledge(k)
    PROVE  /\ awaiting' \in BOOLEAN /\ payload' \in Bodies
           /\ awaiting' => awaiting /\ k < expected /\ payload' = payload
<1>1. None \in Bodies /\ expected \in Nat /\ awaiting \in BOOLEAN /\ payload \in Bodies
  BY DEF None, Bodies, ChargerTypes
<1>2. CASE awaiting /\ k >= expected
  BY <1>1, <1>2 DEF Acknowledge
<1>3. CASE ~(awaiting /\ k >= expected)
  <2>1. UNCHANGED <<awaiting, payload>>
    BY <1>3 DEF Acknowledge
  <2>2. awaiting => k < expected
    BY <1>1, <1>3
  <2> QED
    BY <1>1, <2>1, <2>2
<1> QED
  BY <1>2, <1>3

LEMMA RstKeeps ==
    ASSUME LegacyInv, up # <<>>, up' = Tail(up), UNCHANGED peer, Rst(Head(up))
    PROVE  LegacyInv'
<1> DEFINE h == Head(up)
<1>1. h \in Segs /\ UpSegment(h) /\ Rst(h)
  BY FirstSegment
<1>2. LegacyTypes /\ ChargerTypes /\ Ports /\ Pending
  BY DEF LegacyInv, LegacyTypes
<1>3. /\ h.conn \in Nat /\ h.seq \in Nat /\ h.ack \in Nat /\ h.body \in Bodies
      /\ None \in Bodies
  BY <1>1 DEF Segs, None, Bodies
<1>4. Takes(h)
  BY <1>1 DEF Takes, Rst, Close, ResetSession
<1>5. \A g \in Segs : DownSegment(g) => DownSegment(g)'
  BY <1>4, Received
<1> HIDE DEF h
<1>6. ChargerTypes'
  BY <1>1, <1>2, SessionReset DEF ChargerTypes, Rst, Close
<1>7. DownLine' /\ down' \in Seq(Segs)
  BY <1>1, <1>5, NothingSent DEF Rst
<1>8. Pending'
  BY <1>1 DEF Pending, Rst, Close, ResetSession
<1> QED
  BY <1>4, <1>6, <1>7, <1>8, Handling DEF h

LEMMA SynKeeps ==
    ASSUME LegacyInv, up # <<>>, up' = Tail(up), UNCHANGED peer, Syn(Head(up))
    PROVE  LegacyInv'
<1> DEFINE h == Head(up)
<1>1. h \in Segs /\ UpSegment(h) /\ Syn(h)
  BY FirstSegment
<1>2. LegacyTypes /\ ChargerTypes /\ Ports /\ Pending
  BY DEF LegacyInv, LegacyTypes
<1>3. /\ h.conn \in Nat /\ h.seq \in Nat /\ h.ack \in Nat /\ h.body \in Bodies
      /\ None \in Bodies
  BY <1>1 DEF Segs, None, Bodies
<1>4. Takes(h)
  BY <1>1 DEF Takes, Syn
<1>5. \A g \in Segs : DownSegment(g) => DownSegment(g)'
  BY <1>4, Received
<1> HIDE DEF h
<1>6. ChargerTypes'
  BY <1>1, <1>2, <1>3 DEF ChargerTypes, Syn
<1>7. DownLine' /\ down' \in Seq(Segs)
  <2>1. CASE UNCHANGED down
    BY <1>5, <2>1, NothingSent
  <2>2. CASE /\ evccTcpPort' = h.conn
             /\ Send(<<Header("synack", h.conn, None, 0, h.seq + 1)>>)
    <3>1. PICK f : f = Header("synack", h.conn, None, 0, h.seq + 1)
      OBVIOUS
    <3>2. f \in Segs /\ f.conn = h.conn /\ f.kind = "synack"
      <4>1. "synack" \in Kinds /\ 0 \in Nat /\ h.seq + 1 \in Nat
        BY <1>3 DEF Kinds
      <4> QED
        BY <1>3, <3>1, <4>1 DEF Header, Segs
    <3>3. DownSegment(f)'
      BY <1>3, <2>2, <3>2 DEF DownSegment
    <3> QED
      BY <1>5, <2>2, <3>1, <3>2, <3>3, OneFrame
  <2> QED
    BY <1>1, <2>1, <2>2 DEF Syn
<1>8. Pending'
  <2>1. CASE tcpState = "CLOSED"
    BY <1>1, <1>2, <2>1 DEF Pending, Syn
  <2>2. CASE tcpState # "CLOSED"
    BY <1>1, <1>2, <2>2 DEF Pending, Syn
  <2> QED
    BY <2>1, <2>2
<1> QED
  BY <1>4, <1>6, <1>7, <1>8, Handling DEF h

LEMMA HandshakeAckKeeps ==
    ASSUME LegacyInv, up # <<>>, up' = Tail(up), UNCHANGED peer, HandshakeAck(Head(up))
    PROVE  LegacyInv'
<1> DEFINE h == Head(up)
<1>1. h \in Segs /\ UpSegment(h) /\ HandshakeAck(h)
  BY FirstSegment
<1>2. LegacyTypes /\ ChargerTypes /\ Ports /\ Pending
  BY DEF LegacyInv, LegacyTypes
<1>3. /\ h.conn \in Nat /\ h.seq \in Nat /\ h.ack \in Nat /\ h.body \in Bodies
      /\ None \in Bodies
  BY <1>1 DEF Segs, None, Bodies
<1>4. Takes(h)
  BY <1>1 DEF Takes, HandshakeAck
<1>5. \A g \in Segs : DownSegment(g) => DownSegment(g)'
  BY <1>4, Received
<1> HIDE DEF h
<1>6. ChargerTypes'
  BY <1>1, <1>2, <1>3 DEF ChargerTypes, HandshakeAck
<1>7. DownLine' /\ down' \in Seq(Segs)
  BY <1>1, <1>5, NothingSent DEF HandshakeAck
<1>8. Pending'
  BY <1>1, <1>2 DEF Pending, HandshakeAck
<1> QED
  BY <1>4, <1>6, <1>7, <1>8, Handling DEF h

LEMMA NotConnectedKeeps ==
    ASSUME LegacyInv, up # <<>>, up' = Tail(up), UNCHANGED peer, NotConnected(Head(up))
    PROVE  LegacyInv'
<1> DEFINE h == Head(up)
<1>1. h \in Segs /\ UpSegment(h) /\ NotConnected(h)
  BY FirstSegment
<1>2. LegacyTypes /\ ChargerTypes /\ Ports /\ Pending
  BY DEF LegacyInv, LegacyTypes
<1>3. /\ h.conn \in Nat /\ h.seq \in Nat /\ h.ack \in Nat /\ h.body \in Bodies
      /\ None \in Bodies
  BY <1>1 DEF Segs, None, Bodies
<1>4. Takes(h)
  BY <1>1 DEF Takes, NotConnected
<1>5. \A g \in Segs : DownSegment(g) => DownSegment(g)'
  BY <1>4, Received
<1> HIDE DEF h
<1>6. ChargerTypes'
  BY <1>1, <1>2, <1>3 DEF ChargerTypes, NotConnected
<1>7. DownLine' /\ down' \in Seq(Segs)
  BY <1>1, <1>5, NothingSent DEF NotConnected
<1>8. Pending'
  BY <1>1, <1>2 DEF Pending, NotConnected
<1> QED
  BY <1>4, <1>6, <1>7, <1>8, Handling DEF h

LEMMA AckKeeps ==
    ASSUME LegacyInv, up # <<>>, up' = Tail(up), UNCHANGED peer, Ack(Head(up))
    PROVE  LegacyInv'
<1> DEFINE h == Head(up)
<1>1. h \in Segs /\ UpSegment(h) /\ Ack(h)
  BY FirstSegment
<1>2. LegacyTypes /\ ChargerTypes /\ Ports /\ Pending
  BY DEF LegacyInv, LegacyTypes
<1>3. /\ h.conn \in Nat /\ h.seq \in Nat /\ h.ack \in Nat /\ h.body \in Bodies
      /\ None \in Bodies
  BY <1>1 DEF Segs, None, Bodies
<1>4. Takes(h)
  BY <1>1 DEF Takes, Ack, HasAck
<1>5. \A g \in Segs : DownSegment(g) => DownSegment(g)'
  BY <1>4, Received
<1> HIDE DEF h
<1>6. ChargerTypes'
  BY <1>1, <1>2, <1>3 DEF ChargerTypes, Ack, Acknowledge
<1>7. DownLine' /\ down' \in Seq(Segs)
  BY <1>1, <1>5, NothingSent DEF Ack
<1>8. Pending'
  <2>1. TcpSeqNr <= h.ack
    BY <1>1 DEF Ack, UpSegment, HasAck
  <2>2. awaiting' => awaiting /\ h.ack < expected /\ payload' = payload
    BY <1>1, <1>2, <1>3, Acknowledged DEF Ack
  <2>3. awaiting' => TcpSeqNr' = TcpSeqNr
    <3>1. awaiting' => h.ack < TcpSeqNr + 1
      BY <1>2, <2>2 DEF Pending
    <3>2. awaiting' => h.ack = TcpSeqNr
      BY <1>2, <1>3, <2>1, <3>1 DEF ChargerTypes
    <3> QED
      BY <1>1, <3>2 DEF Ack
  <2> QED
    BY <1>1, <1>2, <2>2, <2>3 DEF Pending, Ack
<1> QED
  BY <1>4, <1>6, <1>7, <1>8, Handling DEF h

LEMMA TooLargeKeeps ==
    ASSUME LegacyInv, up # <<>>, up' = Tail(up), UNCHANGED peer, TooLarge(Head(up))
    PROVE  LegacyInv'
<1> DEFINE h == Head(up)
<1>1. h \in Segs /\ UpSegment(h) /\ TooLarge(h)
  BY FirstSegment
<1>2. LegacyTypes /\ ChargerTypes /\ Ports /\ Pending
  BY DEF LegacyInv, LegacyTypes
<1>3. /\ h.conn \in Nat /\ h.seq \in Nat /\ h.ack \in Nat /\ h.body \in Bodies
      /\ None \in Bodies
  BY <1>1 DEF Segs, None, Bodies
<1>4. Takes(h)
  BY <1>1 DEF Takes, TooLarge
<1>5. \A g \in Segs : DownSegment(g) => DownSegment(g)'
  BY <1>4, Received
<1> HIDE DEF h
<1>6. ChargerTypes'
  BY <1>1, <1>2, SessionReset DEF ChargerTypes, TooLarge
<1>7. DownLine' /\ down' \in Seq(Segs)
  BY <1>1, <1>5, NothingSent DEF TooLarge
<1>8. Pending'
  BY <1>1 DEF Pending, TooLarge, ResetSession
<1> QED
  BY <1>4, <1>6, <1>7, <1>8, Handling DEF h

LEMMA FinKeeps ==
    ASSUME LegacyInv, up # <<>>, up' = Tail(up), UNCHANGED peer, Fin(Head(up))
    PROVE  LegacyInv'
<1> DEFINE h == Head(up)
<1>1. h \in Segs /\ UpSegment(h) /\ Fin(h)
  BY FirstSegment
<1>2. LegacyTypes /\ ChargerTypes /\ Ports /\ Pending
  BY DEF LegacyInv, LegacyTypes
<1>3. /\ h.conn \in Nat /\ h.seq \in Nat /\ h.ack \in Nat /\ h.body \in Bodies
      /\ None \in Bodies
  BY <1>1 DEF Segs, None, Bodies
<1>4. Takes(h)
  BY <1>1 DEF Takes, Fin, HasAck
<1>5. \A g \in Segs : DownSegment(g) => DownSegment(g)'
  BY <1>4, Received
<1> HIDE DEF h
<1>6. ChargerTypes'
  BY <1>1, <1>2, <1>3, SessionReset DEF ChargerTypes, Fin, Close
<1>7. DownLine' /\ down' \in Seq(Segs)
  <2>1. PICK f : f = Header("ack", evccTcpPort, None, h.ack, h.seq + 1)
    OBVIOUS
  <2>2. f \in Segs /\ f.conn = evccTcpPort /\ f.kind = "ack"
    <3>1. "ack" \in Kinds /\ evccTcpPort \in Nat /\ h.seq + 1 \in Nat
      BY <1>2, <1>3 DEF ChargerTypes, Kinds
    <3> QED
      BY <1>3, <2>1, <3>1 DEF Header, Segs
  <2>3. Send(<<f>>) /\ evccTcpPort' = evccTcpPort
    BY <1>1, <2>1 DEF Fin
  <2>4. DownSegment(f)'
    BY <1>2, <2>2, <2>3 DEF DownSegment, ChargerTypes
  <2> QED
    BY <1>5, <2>2, <2>3, <2>4, OneFrame
<1>8. Pending'
  BY <1>1 DEF Pending, Fin, Close, ResetSession
<1> QED
  BY <1>4, <1>6, <1>7, <1>8, Handling DEF h

LEMMA DataKeeps ==
    ASSUME LegacyInv, up # <<>>, up' = Tail(up), UNCHANGED peer, Data(Head(up))
    PROVE  LegacyInv'
<1> DEFINE h == Head(up)
<1>1. h \in Segs /\ UpSegment(h) /\ Data(h)
  BY FirstSegment
<1>2. LegacyTypes /\ ChargerTypes /\ Ports /\ Pending
  BY DEF LegacyInv, LegacyTypes
<1>3. /\ h.conn \in Nat /\ h.seq \in Nat /\ h.ack \in Nat /\ h.body \in Bodies
      /\ None \in Bodies
  BY <1>1 DEF Segs, None, Bodies
<1>4. Takes(h)
  BY <1>1 DEF Takes, Data, HasAck
<1>5. \A g \in Segs : DownSegment(g) => DownSegment(g)'
  BY <1>4, Received
<1> HIDE DEF h
<1>6. ChargerTypes'
  <2>1. TcpSeqNr' \in Nat /\ TcpAckNr' \in Nat /\ UNCHANGED <<tcpState, evccTcpPort>>
    BY <1>1, <1>3 DEF Data
  <2>2. /\ expected' \in Nat /\ awaiting' \in BOOLEAN /\ session' \in BOOLEAN
        /\ payload' \in Bodies
    <3>1. CASE Answered(h)
      BY <1>3, <3>1 DEF Answered
    <3>2. CASE ResetSession
      BY <3>2, SessionReset
    <3>3. CASE Acknowledge(h.ack) /\ UNCHANGED <<expected, session>>
      BY <1>2, <1>3, <3>3, Acknowledged DEF ChargerTypes
    <3> QED
      BY <1>1, <3>1, <3>2, <3>3 DEF Data, Unanswered
  <2> QED
    BY <1>2, <2>1, <2>2 DEF ChargerTypes
<1>7. DownLine' /\ down' \in Seq(Segs)
  <2>1. PICK f : f = Header("ack", evccTcpPort, None, h.ack, h.seq + 1)
    OBVIOUS
  <2>2. PICK e : e = Header("data", evccTcpPort, h.body, h.ack, h.seq + 1)
    OBVIOUS
  <2>3. /\ f \in Segs /\ f.conn = evccTcpPort /\ f.kind = "ack"
        /\ e \in Segs /\ e.conn = evccTcpPort /\ e.body = h.body /\ e.seq = h.ack
        /\ e.ack = h.seq + 1
    <3>1. "ack" \in Kinds /\ "data" \in Kinds /\ evccTcpPort \in Nat /\ h.seq + 1 \in Nat
      BY <1>2, <1>3 DEF ChargerTypes, Kinds
    <3>2. f \in Segs /\ f.conn = evccTcpPort /\ f.kind = "ack"
      BY <1>3, <2>1, <3>1 DEF Header, Segs
    <3>3. /\ e \in Segs /\ e.conn = evccTcpPort /\ e.body = h.body /\ e.seq = h.ack
          /\ e.ack = h.seq + 1
      BY <1>3, <2>2, <3>1 DEF Header, Segs
    <3> QED
      BY <3>2, <3>3
  <2>4. (Send(<<f, e>>) \/ Send(<<f>>)) /\ evccTcpPort' = evccTcpPort /\ peer' = peer
    BY <1>1, <2>1, <2>2 DEF Data, Answered, Unanswered
  <2>5. DownSegment(f)'
    BY <1>2, <2>3, <2>4 DEF DownSegment, ChargerTypes
  <2>6. DownSegment(e)'
    <3>1. /\ h.conn = evccTcpPort /\ h.seq = h.ack
          /\ h.body = [conn |-> h.conn, req |-> h.seq]
          /\ h.conn = peer.conn => h.seq <= peer.sent
      BY <1>1 DEF Data, UpSegment, HasAck
    <3> QED
      BY <1>2, <2>3, <2>4, <3>1 DEF DownSegment, ChargerTypes
  <2> QED
    BY <1>5, <2>3, <2>4, <2>5, <2>6, OneFrame, TwoFrames
<1>8. Pending'
  <2>1. /\ h.conn = evccTcpPort /\ h.seq = h.ack /\ TcpSeqNr <= h.ack
        /\ h.body = [conn |-> h.conn, req |-> h.seq]
        /\ h.conn = peer.conn => h.seq <= peer.sent
    BY <1>1 DEF Data, UpSegment, HasAck
  <2>2. /\ tcpState = "ESTABLISHED" /\ TcpAckNr' = h.seq + 1 /\ TcpSeqNr' = h.ack
        /\ UNCHANGED <<tcpState, evccTcpPort, peer>>
    BY <1>1 DEF Data
  <2>3. CASE Answered(h)
    BY <2>1, <2>2, <2>3 DEF Answered, Pending
  <2>4. CASE Unanswered(h)
    <3>1. CASE ResetSession
      BY <3>1 DEF ResetSession, Pending
    <3>2. CASE Acknowledge(h.ack) /\ UNCHANGED <<expected, session>>
      <4>1. awaiting' => awaiting /\ h.ack < expected /\ payload' = payload
        BY <1>2, <1>3, <3>2, Acknowledged
      <4>2. awaiting' => h.ack < TcpSeqNr + 1
        BY <1>2, <4>1 DEF Pending
      <4>3. awaiting' => h.ack = TcpSeqNr
        BY <1>2, <1>3, <2>1, <4>2 DEF ChargerTypes
      <4> QED
        BY <1>2, <2>1, <2>2, <3>2, <4>1, <4>3 DEF Pending
    <3> QED
      BY <2>4, <3>1, <3>2 DEF Unanswered
  <2> QED
    BY <1>1, <2>3, <2>4 DEF Data
<1> QED
  BY <1>4, <1>6, <1>7, <1>8, Handling DEF h

LEMMA ReceiveKeeps ==
    ASSUME LegacyInv, Receive
    PROVE  LegacyInv'
<1>1. up # <<>> /\ up' = Tail(up) /\ UNCHANGED peer
  BY DEF Receive
<1>2. \/ Rst(Head(up)) \/ Syn(Head(up)) \/ HandshakeAck(Head(up)) \/ NotConnected(Head(up))
      \/ Ack(Head(up)) \/ Data(Head(up)) \/ TooLarge(Head(up)) \/ Fin(Head(up))
  BY DEF Receive
<1> QED
  BY <1>1, <1>2, RstKeeps, SynKeeps, HandshakeAckKeeps, NotConnectedKeeps, AckKeeps,
      DataKeeps, TooLargeKeeps, FinKeeps

\* Steps of the charger's own: the port, the number and the vehicle stay.
LEMMA OwnSteps ==
    ASSUME LegacyInv, UNCHANGED <<up, peer, evccTcpPort, TcpSeqNr>>, ChargerTypes',
           Pending',
           UNCHANGED down \/ (awaiting /\ Resend)
    PROVE  LegacyInv'
<1>1. LegacyTypes /\ ChargerTypes /\ UpLine /\ DownLine /\ Ports /\ Pending /\ Vehicle
  BY DEF LegacyInv, LegacyTypes
<1>2. UpLine' /\ Ports' /\ Vehicle'
  BY <1>1 DEF UpLine, UpSegment, Ports, Vehicle, ReplyAnswersRequest
<1>3. \A g \in Segs : DownSegment(g) => DownSegment(g)'
  BY DEF DownSegment
<1>4. DownLine' /\ down' \in Seq(Segs)
  <2>1. CASE UNCHANGED down
    BY <1>3, <2>1, NothingSent
  <2>2. CASE awaiting /\ Resend
    <3>1. PICK f : f = Header("data", evccTcpPort, payload, TcpSeqNr, TcpAckNr)
      OBVIOUS
    <3>2. /\ f \in Segs /\ f.conn = evccTcpPort /\ f.kind = "data"
          /\ f.body = payload /\ f.seq = TcpSeqNr /\ f.ack = TcpAckNr
      BY <1>1, <3>1 DEF Header, Segs, Kinds, ChargerTypes
    <3>3. /\ payload = [conn |-> evccTcpPort, req |-> TcpSeqNr] /\ TcpAckNr = TcpSeqNr + 1
          /\ evccTcpPort = peer.conn => TcpSeqNr <= peer.sent
      BY <1>1, <2>2 DEF Pending
    <3>4. DownSegment(f)'
      BY <1>1, <3>2, <3>3 DEF DownSegment, ChargerTypes
    <3> QED
      BY <1>3, <2>2, <3>1, <3>2, <3>4, OneFrame DEF Resend
  <2> QED
    BY <2>1, <2>2
<1> QED
  BY <1>1, <1>2, <1>4 DEF LegacyInv, LegacyTypes

LEMMA TickKeeps ==
    ASSUME LegacyInv, Tick
    PROVE  LegacyInv'
<1>1. ChargerTypes /\ Pending
  BY DEF LegacyInv, LegacyTypes
<1>2. UNCHANGED <<up, peer>>
  BY DEF Tick
<1>3. CASE Retransmit
  <2>1. /\ awaiting /\ Resend
        /\ UNCHANGED <<tcpState, TcpSeqNr, TcpAckNr, evccTcpPort, awaiting, payload,
                       expected, session>>
    BY <1>3 DEF Retransmit, RetransmitDue
  <2> QED
    BY <1>1, <1>2, <2>1, OwnSteps DEF ChargerTypes, Pending
<1>4. CASE GiveUp
  <2>1. /\ tcpState' = "CLOSED" /\ ResetSession
        /\ UNCHANGED <<TcpSeqNr, TcpAckNr, evccTcpPort>>
        /\ UNCHANGED down \/ (awaiting /\ Resend)
    BY <1>4 DEF GiveUp, Close, RetransmitDue
  <2>2. ChargerTypes'
    BY <1>1, <2>1, SessionReset DEF ChargerTypes
  <2>3. Pending'
    BY <2>1, SessionReset DEF Pending
  <2> QED
    BY <1>2, <2>1, <2>2, <2>3, OwnSteps
<1>5. CASE Quiet
  <2>1. UNCHANGED <<tcpState, TcpSeqNr, TcpAckNr, evccTcpPort, awaiting, payload,
                    expected, session, down>>
    BY <1>5 DEF Quiet
  <2> QED
    BY <1>1, <1>2, <2>1, OwnSteps DEF ChargerTypes, Pending
<1> QED
  BY <1>3, <1>4, <1>5 DEF Tick

LEMMA WatchdogKeeps ==
    ASSUME LegacyInv, Watchdog
    PROVE  LegacyInv'
<1>1. /\ ResetSession /\ tcpState' \in {tcpState, "CLOSED"}
      /\ UNCHANGED <<TcpSeqNr, TcpAckNr, evccTcpPort, up, down, peer>>
  BY DEF Watchdog
<1>2. ChargerTypes'
  BY <1>1, SessionReset DEF LegacyInv, LegacyTypes, ChargerTypes
<1>3. Pending'
  BY <1>1, SessionReset DEF Pending
<1> QED
  BY <1>1, <1>2, <1>3, OwnSteps

-----------------------------------------------------------------------------
(* The vehicle's steps, and the line's.                                    *)

\* A segment the vehicle may put on the line.
Fits(m) ==
    /\ m.conn = peer.conn
    /\ HasAck(m) => evccTcpPort = peer.conn /\ m.ack = peer'.rcvd
    /\ m.kind = "data" =>
          /\ m.seq = m.ack
          /\ m.body = [conn |-> m.conn, req |-> m.seq]
          /\ m.seq <= peer'.sent

\* What the vehicle and the line may do while its connection stays the same.
LEMMA SameConnection ==
    ASSUME LegacyInv, UNCHANGED charger, peer' \in Ends, peer'.conn = peer.conn,
           peer'.sent >= peer.sent, peer'.rcvd >= peer.rcvd,
           peer'.state = "open" => evccTcpPort = peer.conn,
           Vehicle',
           UNCHANGED down \/ (down # <<>> /\ down' = Tail(down)),
           \/ UNCHANGED up
           \/ up # <<>> /\ up' = Tail(up)
           \/ \E m \in Segs : up' = Append(up, m) /\ Fits(m)
    PROVE  LegacyInv'
<1>1. LegacyTypes /\ ChargerTypes /\ UpLine /\ DownLine /\ Ports /\ Pending
  BY DEF LegacyInv, LegacyTypes
<1>2. /\ up \in Seq(Segs) /\ down \in Seq(Segs) /\ peer \in Ends
      /\ evccTcpPort \in Nat /\ TcpSeqNr \in Nat
      /\ peer.conn \in Nat /\ peer.sent \in Nat /\ peer.rcvd \in Nat
      /\ peer'.sent \in Nat /\ peer'.rcvd \in Nat
  BY <1>1 DEF LegacyTypes, ChargerTypes, Ends
<1>3. /\ UNCHANGED <<tcpState, TcpSeqNr, TcpAckNr, evccTcpPort, awaiting, payload, expected,
                     session>>
  BY DEF charger
<1>4. ChargerTypes'
  BY <1>1, <1>3 DEF ChargerTypes
<1>5. Pending' /\ Ports'
  BY <1>1, <1>2, <1>3 DEF Pending, Ports
<1>6. ASSUME NEW s \in Segs, UpSegment(s)
      PROVE  UpSegment(s)'
  <2>1. s.ack \in Nat /\ s.seq \in Nat
    BY DEF Segs
  <2> QED
    BY <1>2, <1>3, <1>6, <2>1 DEF UpSegment, HasAck
<1>7. ASSUME NEW f \in Segs, DownSegment(f)
      PROVE  DownSegment(f)'
  <2>1. f.seq \in Nat
    BY DEF Segs
  <2> QED
    BY <1>2, <1>3, <1>7, <2>1 DEF DownSegment
<1>8. DownLine' /\ down' \in Seq(Segs)
  BY <1>1, <1>2, <1>7, DownKept
<1>9. UpLine' /\ up' \in Seq(Segs)
  <2>1. CASE UNCHANGED up
    BY <1>1, <1>2, <1>6, <2>1, UpKept
  <2>2. CASE up # <<>> /\ up' = Tail(up)
    BY <1>1, <1>2, <1>6, <2>2, UpTaken
  <2>3. ASSUME NEW m \in Segs, up' = Append(up, m), Fits(m)
        PROVE  UpLine' /\ up' \in Seq(Segs)
    <3>1. UpSegment(m)'
      <4>1. m.conn = peer.conn /\ evccTcpPort <= peer.conn
        BY <1>1, <2>3 DEF Fits, Ports
      <4>2. HasAck(m) => m.conn = evccTcpPort /\ TcpSeqNr <= m.ack /\ m.ack = peer'.rcvd
        BY <1>3, <1>5, <2>3 DEF Fits, Ports
      <4> QED
        BY <1>2, <1>3, <2>3, <4>1, <4>2 DEF UpSegment, Fits, HasAck
    <3>2. ASSUME NEW s \in Segs, UpSegment(s)
          PROVE  InTurn(s, m)
      <4>1. s.conn \in Nat /\ s.ack \in Nat
        BY DEF Segs
      <4>2. HasAck(s) /\ HasAck(m) => s.ack <= m.ack
        BY <1>2, <2>3, <3>2, <4>1 DEF UpSegment, Fits
      <4>3. s.kind = "syn" => s.conn <= m.conn /\ (HasAck(m) => s.conn = m.conn)
        BY <2>3, <3>2 DEF UpSegment, Fits
      <4> QED
        BY <4>2, <4>3 DEF InTurn
    <3> QED
      BY <1>1, <1>2, <1>6, <2>3, <3>1, <3>2, UpSent
  <2> QED
    BY <2>1, <2>2, <2>3
<1> QED
  BY <1>2, <1>4, <1>5, <1>8, <1>9 DEF LegacyInv, LegacyTypes

LEMMA PeerConnectsKeeps ==
    ASSUME LegacyInv, PeerConnects, UNCHANGED charger
    PROVE  LegacyInv'
<1>1. LegacyTypes /\ ChargerTypes /\ UpLine /\ DownLine /\ Ports /\ Pending
  BY DEF LegacyInv, LegacyTypes
<1>2. /\ up \in Seq(Segs) /\ down \in Seq(Segs) /\ peer \in Ends
      /\ evccTcpPort \in Nat /\ peer.conn \in Nat
  BY <1>1 DEF LegacyTypes, ChargerTypes, Ends
<1>3. UNCHANGED <<tcpState, TcpSeqNr, TcpAckNr, evccTcpPort, awaiting, payload, expected,
                  session>>
  BY DEF charger
<1>4. /\ peer' = [state |-> "syn", conn |-> peer.conn + 1, sent |-> 0, rcvd |-> 0,
                  acked |-> TRUE, waiting |-> FALSE, tries |-> 0, got |-> <<>>]
      /\ down' = down
  BY DEF PeerConnects
<1>5. PICK m : m = [kind |-> "syn", conn |-> peer.conn + 1, seq |-> 0, ack |-> 0,
                    body |-> None]
  OBVIOUS
<1>6. up' = Append(up, m)
  BY <1>4, <1>5 DEF PeerConnects, PeerSends
<1>7. m \in Segs /\ m.kind = "syn" /\ m.conn = peer.conn + 1
  BY <1>2, <1>5 DEF Segs, Kinds, None, Bodies
<1>8. peer' \in Ends
  <2>1. <<>> \in Seq(Bodies)
    OBVIOUS
  <2> QED
    BY <1>2, <1>4, <2>1 DEF Ends
<1>9. evccTcpPort <= peer.conn /\ evccTcpPort # peer.conn + 1
  BY <1>1, <1>2 DEF Ports
<1>10. peer'.conn = peer.conn + 1 /\ peer'.state = "syn"
  BY <1>4
<1>11. Ports' /\ Pending'
  BY <1>1, <1>2, <1>3, <1>9, <1>10 DEF Ports, Pending
<1>12. Vehicle'
  BY <1>4 DEF Vehicle, ReplyAnswersRequest
<1>13. ASSUME NEW s \in Segs, UpSegment(s)
       PROVE  UpSegment(s)' /\ InTurn(s, m)
  <2>1. s.conn \in Nat /\ s.conn <= peer.conn
    BY <1>13 DEF Segs, UpSegment
  <2>2. s.conn <= peer.conn + 1 /\ s.conn # peer.conn + 1
    BY <1>2, <2>1
  <2> QED
    BY <1>3, <1>7, <1>9, <1>10, <1>13, <2>2 DEF UpSegment, InTurn, HasAck
<1>14. UpSegment(m)'
  BY <1>2, <1>3, <1>7, <1>9, <1>10 DEF UpSegment, HasAck
<1>15. UpLine' /\ up' \in Seq(Segs)
  BY <1>1, <1>2, <1>6, <1>7, <1>13, <1>14, UpSent
<1>16. ASSUME NEW f \in Segs, DownSegment(f)
       PROVE  DownSegment(f)'
  <2>1. f.conn \in Nat /\ f.conn <= evccTcpPort
    BY <1>16 DEF Segs, DownSegment
  <2>2. f.conn # peer.conn + 1
    BY <1>2, <1>9, <2>1
  <2> QED
    BY <1>3, <1>10, <1>16, <2>2 DEF DownSegment
<1>17. DownLine' /\ down' \in Seq(Segs)
  BY <1>1, <1>2, <1>4, <1>16, DownKept
<1>18. ChargerTypes'
  BY <1>1, <1>3 DEF ChargerTypes
<1> QED
  BY <1>8, <1>11, <1>12, <1>15, <1>17, <1>18 DEF LegacyInv, LegacyTypes

LEMMA PeerFacts ==
    ASSUME LegacyInv
    PROVE  /\ peer \in Ends /\ peer.conn \in Nat /\ peer.sent \in Nat
           /\ peer.rcvd \in Nat /\ peer.tries \in Nat /\ peer.acked \in BOOLEAN
           /\ peer.waiting \in BOOLEAN /\ peer.got \in Seq(Bodies)
           /\ peer.state \in {"closed", "syn", "open"}
           /\ Vehicle
           /\ peer.state = "open" => evccTcpPort = peer.conn
           /\ evccTcpPort \in Nat /\ None \in Bodies
BY DEF LegacyInv, LegacyTypes, ChargerTypes, Ports, Ends, None, Bodies

LEMMA PeerRequestsKeeps ==
    ASSUME LegacyInv, PeerRequests, UNCHANGED charger
    PROVE  LegacyInv'
<1>1. /\ peer.state = "open" /\ ~peer.waiting /\ down' = down
      /\ peer' = [peer EXCEPT !.sent = @ + 1, !.acked = FALSE, !.waiting = TRUE,
                              !.tries = 0]
  BY DEF PeerRequests
<1>2. /\ peer'.state = "open" /\ peer'.conn = peer.conn /\ peer'.sent = peer.sent + 1
      /\ peer'.rcvd = peer.rcvd /\ peer'.got = peer.got /\ peer'.waiting = TRUE
      /\ peer' \in Ends
  <2>1. peer.sent + 1 \in Nat
    BY PeerFacts
  <2> QED
    BY <1>1, <2>1, PeerFacts DEF Ends
<1>3. peer.rcvd = peer.sent + 1 /\ peer.rcvd = Len(peer.got) + 1
  BY <1>1, PeerFacts DEF Vehicle
<1>4. Vehicle'
  BY <1>2, <1>3, PeerFacts DEF Vehicle, ReplyAnswersRequest
<1>5. PICK m : m = [kind |-> "data", conn |-> peer.conn, seq |-> peer.sent + 1,
                    ack |-> peer.rcvd,
                    body |-> [conn |-> peer.conn, req |-> peer.sent + 1]]
  OBVIOUS
<1>6. up' = Append(up, m)
  BY <1>2, <1>5 DEF PeerRequests, PeerSends
<1>7. m \in Segs
  BY <1>5, PeerFacts DEF Segs, Kinds, Bodies
<1>8. Fits(m)
  BY <1>1, <1>2, <1>3, <1>5, PeerFacts DEF Fits
<1>9. peer'.sent >= peer.sent /\ peer'.rcvd >= peer.rcvd
  BY <1>2, PeerFacts
<1> QED
  BY <1>1, <1>2, <1>4, <1>6, <1>7, <1>8, <1>9, PeerFacts, SameConnection

LEMMA PeerRetransmitsKeeps ==
    ASSUME LegacyInv, PeerRetransmits, UNCHANGED charger
    PROVE  LegacyInv'
<1>1. peer' = [peer EXCEPT !.tries = @ + 1] /\ down' = down
  BY DEF PeerRetransmits
<1>2. /\ peer'.state = peer.state /\ peer'.conn = peer.conn /\ peer'.sent = peer.sent
      /\ peer'.rcvd = peer.rcvd /\ peer'.got = peer.got /\ peer'.waiting = peer.waiting
      /\ peer'.acked = peer.acked /\ peer' \in Ends
  BY <1>1, PeerFacts DEF Ends
<1>3. Vehicle'
  BY <1>2, PeerFacts DEF Vehicle, ReplyAnswersRequest
<1>4. \E m \in Segs : up' = Append(up, m) /\ Fits(m)
  <2>1. CASE peer.state = "syn" /\ PeerSends("syn", 0, 0, None)
    <3>1. PICK m : m = [kind |-> "syn", conn |-> peer.conn, seq |-> 0, ack |-> 0,
                        body |-> None]
      OBVIOUS
    <3>2. up' = Append(up, m)
      BY <1>2, <2>1, <3>1 DEF PeerSends
    <3>3. m \in Segs /\ Fits(m)
      BY <3>1, PeerFacts DEF Segs, Kinds, Fits, HasAck
    <3> QED
      BY <3>2, <3>3
  <2>2. CASE /\ peer.state = "open" /\ ~peer.acked
             /\ PeerSends("data", peer.sent, peer.rcvd,
                          [conn |-> peer.conn, req |-> peer.sent])
    <3>1. PICK m : m = [kind |-> "data", conn |-> peer.conn, seq |-> peer.sent,
                        ack |-> peer.rcvd,
                        body |-> [conn |-> peer.conn, req |-> peer.sent]]
      OBVIOUS
    <3>2. up' = Append(up, m)
      BY <1>2, <2>2, <3>1 DEF PeerSends
    <3>3. peer.rcvd = peer.sent
      BY <2>2, PeerFacts DEF Vehicle
    <3>4. m \in Segs
      BY <3>1, PeerFacts DEF Segs, Kinds, Bodies
    <3>5. Fits(m)
      BY <1>2, <2>2, <3>1, <3>3, PeerFacts DEF Fits
    <3> QED
      BY <3>2, <3>4, <3>5
  <2> QED
    BY <2>1, <2>2 DEF PeerRetransmits
<1>5. peer'.sent >= peer.sent /\ peer'.rcvd >= peer.rcvd
  BY <1>2, PeerFacts
<1> QED
  BY <1>1, <1>2, <1>3, <1>4, <1>5, PeerFacts, SameConnection

LEMMA PeerEndsKeeps ==
    ASSUME LegacyInv, PeerEnds, UNCHANGED charger
    PROVE  LegacyInv'
<1>1. peer' = [peer EXCEPT !.state = "closed"] /\ down' = down
  BY DEF PeerEnds
<1>2. /\ peer'.state = "closed" /\ peer'.conn = peer.conn /\ peer'.sent = peer.sent
      /\ peer'.rcvd = peer.rcvd /\ peer'.got = peer.got /\ peer' \in Ends
  BY <1>1, PeerFacts DEF Ends
<1>3. Vehicle'
  BY <1>2, PeerFacts DEF Vehicle, ReplyAnswersRequest
<1>4. UNCHANGED up \/ \E m \in Segs : up' = Append(up, m) /\ Fits(m)
  <2>1. CASE peer.state = "open" /\ PeerSends("fin", peer.sent + 1, peer.rcvd, None)
    <3>1. PICK m : m = [kind |-> "fin", conn |-> peer.conn, seq |-> peer.sent + 1,
                        ack |-> peer.rcvd, body |-> None]
      OBVIOUS
    <3>2. up' = Append(up, m)
      BY <1>2, <2>1, <3>1 DEF PeerSends
    <3>3. m \in Segs /\ Fits(m)
      BY <1>2, <2>1, <3>1, PeerFacts DEF Segs, Kinds, Fits
    <3> QED
      BY <3>2, <3>3
  <2>2. CASE PeerSends("rst", peer.sent + 1, peer.rcvd, None)
    <3>1. PICK m : m = [kind |-> "rst", conn |-> peer.conn, seq |-> peer.sent + 1,
                        ack |-> peer.rcvd, body |-> None]
      OBVIOUS
    <3>2. up' = Append(up, m)
      BY <1>2, <2>2, <3>1 DEF PeerSends
    <3>3. m \in Segs /\ Fits(m)
      BY <3>1, PeerFacts DEF Segs, Kinds, Fits, HasAck
    <3> QED
      BY <3>2, <3>3
  <2> QED
    BY <2>1, <2>2 DEF PeerEnds
<1>5. peer'.sent >= peer.sent /\ peer'.rcvd >= peer.rcvd
  BY <1>2, PeerFacts
<1> QED
  BY <1>1, <1>2, <1>3, <1>4, <1>5, PeerFacts, SameConnection

\* What the vehicle does with a segment it got.
LEMMA PeerTakesKeeps ==
    ASSUME LegacyInv, UNCHANGED charger, NEW f \in Segs, DownSegment(f),
           f.conn = peer.conn, PeerTakes(f), down # <<>>, down' = Tail(down)
    PROVE  LegacyInv'
<1>1. f.seq \in Nat /\ f.ack \in Nat /\ f.body \in Bodies
  BY DEF Segs
<1>2. ASSUME NEW k \in Nat, NEW n \in Nat, PeerSends("ack", k, n, None),
             peer'.conn = peer.conn, evccTcpPort = peer.conn, n = peer'.rcvd
      PROVE  \E m \in Segs : up' = Append(up, m) /\ Fits(m)
  <2>1. PICK m : m = [kind |-> "ack", conn |-> peer.conn, seq |-> k, ack |-> n,
                      body |-> None]
    OBVIOUS
  <2>2. up' = Append(up, m)
    BY <1>2, <2>1 DEF PeerSends
  <2>3. m \in Segs /\ Fits(m)
    BY <1>2, <2>1, PeerFacts DEF Segs, Kinds, Fits
  <2> QED
    BY <2>2, <2>3
<1>3. CASE /\ f.kind = "synack" /\ peer.state = "syn"
           /\ peer' = [peer EXCEPT !.state = "open", !.rcvd = 1, !.tries = 0]
           /\ PeerSends("ack", 1, 1, None)
  <2>1. /\ peer'.state = "open" /\ peer'.conn = peer.conn /\ peer'.sent = peer.sent
        /\ peer'.rcvd = 1 /\ peer'.got = peer.got /\ peer'.waiting = peer.waiting
        /\ peer'.acked = peer.acked /\ peer' \in Ends
    BY <1>3, PeerFacts DEF Ends
  <2>2. evccTcpPort = peer.conn
    <3>1. f.conn <= evccTcpPort /\ evccTcpPort <= peer.conn
      BY DEF DownSegment, LegacyInv, Ports
    <3> QED
      BY <3>1, PeerFacts
  <2>3. /\ peer.rcvd = 0 /\ peer.sent = 0 /\ peer.got = <<>> /\ peer.acked
        /\ ~peer.waiting
    BY <1>3, PeerFacts DEF Vehicle
  <2>4. Vehicle'
    BY <2>1, <2>3, PeerFacts DEF Vehicle, ReplyAnswersRequest
  <2>5. \E m \in Segs : up' = Append(up, m) /\ Fits(m)
    BY <1>2, <1>3, <2>1, <2>2
  <2>6. peer'.sent >= peer.sent /\ peer'.rcvd >= peer.rcvd
    BY <2>1, <2>3
  <2> QED
    BY <2>1, <2>2, <2>4, <2>5, <2>6, SameConnection
<1>4. CASE /\ f.kind = "ack" /\ peer.state = "open"
           /\ peer' = [peer EXCEPT !.acked = peer.acked \/ f.ack > peer.sent]
           /\ UNCHANGED up
  <2>1. /\ peer'.state = "open" /\ peer'.conn = peer.conn /\ peer'.sent = peer.sent
        /\ peer'.rcvd = peer.rcvd /\ peer'.got = peer.got /\ peer'.waiting = peer.waiting
        /\ (peer.acked => peer'.acked) /\ peer' \in Ends
    BY <1>4, PeerFacts DEF Ends
  <2>2. Vehicle'
    BY <1>4, <2>1, PeerFacts DEF Vehicle, ReplyAnswersRequest
  <2>3. peer'.sent >= peer.sent /\ peer'.rcvd >= peer.rcvd
    BY <2>1, PeerFacts
  <2> QED
    BY <1>4, <2>1, <2>2, <2>3, PeerFacts, SameConnection
<1>5. CASE /\ f.kind = "data" /\ peer.state = "open" /\ f.seq = peer.rcvd
           /\ peer' = [peer EXCEPT !.acked = peer.acked \/ f.ack > peer.sent,
                                   !.rcvd = @ + 1, !.waiting = FALSE,
                                   !.got = Append(@, f.body)]
           /\ PeerSends("ack", peer.sent + 1, peer'.rcvd, None)
  <2>1. /\ peer'.state = "open" /\ peer'.conn = peer.conn /\ peer'.sent = peer.sent
        /\ peer'.rcvd = peer.rcvd + 1 /\ peer'.waiting = FALSE
        /\ peer'.acked = (peer.acked \/ f.ack > peer.sent)
        /\ peer'.got = Append(peer.got, f.body)
    BY <1>5, PeerFacts DEF Ends
  <2>2. peer' \in Ends
    <3>1. Append(peer.got, f.body) \in Seq(Bodies)
      BY <1>1, PeerFacts
    <3>2. peer.rcvd + 1 \in Nat /\ (peer.acked \/ f.ack > peer.sent) \in BOOLEAN
      BY PeerFacts
    <3> QED
      BY <1>5, <3>1, <3>2, PeerFacts DEF Ends
  <2>3. /\ f.body = [conn |-> peer.conn, req |-> peer.rcvd]
        /\ f.ack = peer.rcvd + 1 /\ peer.rcvd <= peer.sent
    BY <1>5 DEF DownSegment
  <2>4. peer.rcvd = Len(peer.got) + 1 /\ peer.rcvd = peer.sent
    <3>1. /\ peer.rcvd = Len(peer.got) + 1
          /\ peer.rcvd = peer.sent \/ peer.rcvd = peer.sent + 1
      BY <1>5, PeerFacts DEF Vehicle
    <3> QED
      BY <2>3, <3>1, PeerFacts
  <2>5. peer'.acked
    <3>1. f.ack > peer.sent
      BY <2>3, <2>4, PeerFacts
    <3> QED
      BY <2>1, <3>1
  <2>6. /\ Len(peer'.got) = Len(peer.got) + 1 /\ peer'.got[Len(peer.got) + 1] = f.body
        /\ Len(peer.got) \in Nat
        /\ \A k \in 1 .. Len(peer.got) : peer'.got[k] = peer.got[k]
    BY <1>1, <2>1, PeerFacts
  <2>7. ReplyAnswersRequest'
    <3>1. ASSUME NEW k \in 1 .. Len(peer'.got)
          PROVE  peer'.got[k] = [conn |-> peer.conn, req |-> k]
      <4>1. k = Len(peer.got) + 1 \/ k \in 1 .. Len(peer.got)
        BY <2>6
      <4>2. CASE k = Len(peer.got) + 1
        BY <2>3, <2>4, <2>6, <4>2
      <4>3. CASE k \in 1 .. Len(peer.got)
        BY <2>6, <4>3, PeerFacts DEF Vehicle, ReplyAnswersRequest
      <4> QED
        BY <4>1, <4>2, <4>3
    <3> QED
      BY <2>1, <3>1 DEF ReplyAnswersRequest
  <2>8. Vehicle'
    BY <2>1, <2>4, <2>5, <2>6, <2>7, PeerFacts DEF Vehicle
  <2>9. \E m \in Segs : up' = Append(up, m) /\ Fits(m)
    <3>1. peer.sent + 1 \in Nat /\ peer'.rcvd \in Nat
      BY <2>1, PeerFacts
    <3> QED
      BY <1>2, <1>5, <2>1, <3>1, PeerFacts
  <2>10. peer'.sent >= peer.sent /\ peer'.rcvd >= peer.rcvd
    BY <2>1, PeerFacts
  <2> QED
    BY <1>5, <2>1, <2>2, <2>8, <2>9, <2>10, PeerFacts, SameConnection
<1>6. CASE /\ f.kind = "data" /\ peer.state = "open"
           /\ peer' = [peer EXCEPT !.acked = peer.acked \/ f.ack > peer.sent]
           /\ PeerSends("ack", peer.sent + 1, peer'.rcvd, None)
  <2>1. /\ peer'.state = "open" /\ peer'.conn = peer.conn /\ peer'.sent = peer.sent
        /\ peer'.rcvd = peer.rcvd /\ peer'.got = peer.got /\ peer'.waiting = peer.waiting
        /\ (peer.acked => peer'.acked) /\ peer' \in Ends
    BY <1>6, PeerFacts DEF Ends
  <2>2. Vehicle'
    BY <1>6, <2>1, PeerFacts DEF Vehicle, ReplyAnswersRequest
  <2>3. peer'.sent >= peer.sent /\ peer'.rcvd >= peer.rcvd
    BY <2>1, PeerFacts
  <2>4. \E m \in Segs : up' = Append(up, m) /\ Fits(m)
    <3>1. peer.sent + 1 \in Nat /\ peer'.rcvd \in Nat
      BY <2>1, PeerFacts
    <3> QED
      BY <1>2, <1>6, <2>1, <3>1, PeerFacts
  <2> QED
    BY <1>6, <2>1, <2>2, <2>3, <2>4, PeerFacts, SameConnection
<1>7. CASE UNCHANGED <<peer, up>>
  <2>1. peer' = peer /\ up' = up
    BY <1>7
  <2>2. Vehicle'
    BY <2>1, PeerFacts DEF Vehicle, ReplyAnswersRequest
  <2>3. peer'.sent >= peer.sent /\ peer'.rcvd >= peer.rcvd
    BY <2>1, PeerFacts
  <2> QED
    BY <2>1, <2>2, <2>3, PeerFacts, SameConnection
<1> QED
  BY <1>3, <1>4, <1>5, <1>6, <1>7 DEF PeerTakes

LEMMA PeerReceivesKeeps ==
    ASSUME LegacyInv, PeerReceives, UNCHANGED charger
    PROVE  LegacyInv'
<1>1. down # <<>> /\ down' = Tail(down)
  BY DEF PeerReceives
<1>2. PICK f : f = Head(down)
  OBVIOUS
<1>3. f \in Segs /\ DownSegment(f)
  <2>1. down \in Seq(Segs) /\ DownLine
    BY DEF LegacyInv, LegacyTypes
  <2>2. Len(down) \in Nat /\ Len(down) >= 1 /\ f = down[1] /\ f \in Segs
    BY <1>1, <1>2, <2>1
  <2> QED
    BY <2>1, <2>2 DEF DownLine
<1>4. CASE f.conn = peer.conn /\ PeerTakes(f)
  BY <1>1, <1>3, <1>4, PeerTakesKeeps
<1>5. CASE UNCHANGED peer /\ (PeerSends("rst", f.ack, f.ack, None) \/ UNCHANGED up)
  <2>1. peer' = peer
    BY <1>5
  <2>2. Vehicle'
    BY <2>1, PeerFacts DEF Vehicle, ReplyAnswersRequest
  <2>3. peer'.sent >= peer.sent /\ peer'.rcvd >= peer.rcvd
    BY <2>1, PeerFacts
  <2>4. UNCHANGED up \/ \E m \in Segs : up' = Append(up, m) /\ Fits(m)
    <3>1. PICK m : m = [kind |-> "rst", conn |-> peer.conn, seq |-> f.ack, ack |-> f.ack,
                        body |-> None]
      OBVIOUS
    <3>2. UNCHANGED up \/ up' = Append(up, m)
      BY <1>5, <2>1, <3>1 DEF PeerSends
    <3>3. m \in Segs /\ Fits(m)
      BY <1>3, <3>1, PeerFacts DEF Segs, Kinds, Fits, HasAck
    <3> QED
      BY <3>2, <3>3
  <2> QED
    BY <1>1, <2>1, <2>2, <2>3, <2>4, PeerFacts, SameConnection
<1> QED
  BY <1>2, <1>4, <1>5 DEF PeerReceives

LEMMA LineLosesKeeps ==
    ASSUME LegacyInv, LineLoses, UNCHANGED charger
    PROVE  LegacyInv'
<1>1. /\ peer' = peer
      /\ UNCHANGED down \/ (down # <<>> /\ down' = Tail(down))
      /\ UNCHANGED up \/ (up # <<>> /\ up' = Tail(up))
  BY DEF LineLoses
<1>2. Vehicle'
  BY <1>1, PeerFacts DEF Vehicle, ReplyAnswersRequest
<1>3. peer'.sent >= peer.sent /\ peer'.rcvd >= peer.rcvd
  BY <1>1, PeerFacts
<1> QED
  BY <1>1, <1>2, <1>3, PeerFacts, SameConnection

-----------------------------------------------------------------------------
(* The theorems.                                                           *)

LEMMA LegacyInvStep == LegacyInv /\ [Next]_vars => LegacyInv'
<1> SUFFICES ASSUME LegacyInv, [Next]_vars PROVE LegacyInv'
  OBVIOUS
<1>1. CASE Receive
  BY <1>1, ReceiveKeeps
<1>2. CASE Tick
  BY <1>2, TickKeeps
<1>3. CASE Watchdog
  BY <1>3, WatchdogKeeps
<1>4. CASE PeerStep
  BY <1>4, PeerConnectsKeeps, PeerRequestsKeeps, PeerRetransmitsKeeps, PeerEndsKeeps,
      PeerReceivesKeeps, LineLosesKeeps DEF PeerStep
<1>5. CASE UNCHANGED vars
  <2>1. UNCHANGED charger /\ UNCHANGED <<up, down, peer>>
    BY <1>5 DEF vars
  <2>2. Vehicle'
    BY <2>1, PeerFacts DEF Vehicle, ReplyAnswersRequest
  <2>3. peer'.sent >= peer.sent /\ peer'.rcvd >= peer.rcvd
    BY <2>1, PeerFacts
  <2> QED
    BY <2>1, <2>2, <2>3, PeerFacts, SameConnection
<1> QED
  BY <1>1, <1>2, <1>3, <1>4, <1>5 DEF Next

LEMMA LegacyInvHolds == Spec => []LegacyInv
BY LegacyStart, LegacyInvStep, PTL DEF Spec

\* Whatever is lost, repeated or late, the k-th response a vehicle takes from the
\* byte stream of its connection answers its k-th request (evaluateTcpPacket and
\* tcp_retransmitPendingPayload of src/tcp.cpp, which look at no sequence number).
THEOREM ReplyAnswersRequestHolds == Spec => []ReplyAnswersRequest
<1>1. LegacyInv => ReplyAnswersRequest
  BY DEF LegacyInv, Vehicle
<1> QED
  BY <1>1, LegacyInvHolds, PTL

\* Whichever way a connection ends (FIN, RST, idle timeout, limit of
\* retransmissions, watchdog), no session and no pending payload outlives it
\* (resetHlcSession and its callers in src/tcp.cpp).
THEOREM SessionNeedsConnectionHolds == Spec => []SessionNeedsConnection
<1>1. LegacyInv => SessionNeedsConnection
  BY DEF LegacyInv, Pending, SessionNeedsConnection
<1> QED
  BY <1>1, LegacyInvHolds, PTL

=============================================================================
