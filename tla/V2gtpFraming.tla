---------------------------- MODULE V2gtpFraming ----------------------------
(***************************************************************************)
(* Splitting the byte stream of a TCP connection into V2GTP frames:        *)
(* tcp_bufferPayload of src/tcp.cpp and its callers.                       *)
(*                                                                         *)
(* The vehicle sends a sequence of frames; the network cuts it into        *)
(* segments anywhere.  A byte is its position in that stream, counted from *)
(* 1, so that the model can tell which bytes the receive buffer holds and  *)
(* which of them are handed to the decoder.                                *)
(*                                                                         *)
(* tcp_rxdataLen is a uint8_t although the buffer has 1000 bytes: the      *)
(* count is kept modulo Width.  Bytes at or beyond the count are always    *)
(* overwritten before they are counted, so the buffer is the sequence of   *)
(* its counted bytes.                                                      *)
(***************************************************************************)
EXTENDS Integers, Sequences, FiniteSets

CONSTANTS
    Header,      \* V2GTP_HEADER_SIZE
    Width,       \* the values of tcp_rxdataLen: 256
    BufLen,      \* TCP_RX_DATA_LEN
    LenWidth,    \* the values of frameLen, a uint32_t
    MaxSegment,  \* the longest segment a caller passes on
    Claims,      \* the payload lengths a header may claim
    MaxFrames,   \* bound: frames of one connection
    MaxStream    \* bound: bytes of one connection that arrive

ASSUME FramingAssumption ==
    /\ Header \in Nat \ {0}
    /\ Width \in Nat \ {0}
    /\ BufLen \in Nat
    /\ LenWidth \in Nat \ {0}
    /\ MaxSegment \in Nat
    /\ Claims \subseteq Nat
    /\ MaxFrames \in Nat
    /\ MaxStream \in Nat

\* A frame as its header describes it: EXI data, another payload type, or no
\* V2GTP header at all.
Frames == [claim : Claims, kind : {"exi"}]
             \cup [claim : {1}, kind : {"other", "garbled"}]

VARIABLES
    stream,     \* the frames the vehicle sent on this connection, each with the
                \* number of bytes before it
    received,   \* how many bytes of it have arrived
    rx,         \* the counted bytes of tcp_rxdata
    pc,         \* "idle", or "loop" inside the while of tcp_bufferPayload
    handed,     \* history: the frames given to decodeV2GTP on this connection,
                \* 0 for bytes that are not one frame of the stream
    damage      \* history: "none", "dropped" once the buffer was emptied within
                \* the connection, "wrapped" while the count has overflowed
vars == <<stream, received, rx, pc, handed, damage>>

Size(i) == Header + stream[i].frame.claim
End(i) == stream[i].start + Size(i)
StreamEnd == IF stream = <<>> THEN 0 ELSE End(Len(stream))
Bytes(a, b) == [j \in 1 .. b - a |-> a + j]    \* those after a up to b

TypeOK ==
    /\ stream \in Seq([frame : Frames, start : Nat])
    /\ received \in Nat
    /\ rx \in Seq(Nat)
    /\ Len(rx) \in 0 .. Width - 1
    /\ pc \in {"idle", "loop"}
    /\ handed \in Seq(Nat)
    /\ damage \in {"none", "dropped", "wrapped"}

Init ==
    /\ stream = <<>>
    /\ received = 0
    /\ rx = <<>>
    /\ pc = "idle"
    /\ handed = <<>>
    /\ damage = "none"

-----------------------------------------------------------------------------

\* tcp_rxdataLen = 0; resetHlcSession()
Drop ==
    /\ rx' = <<>>
    /\ pc' = "idle"
    /\ damage' = "dropped"

\* The value a uint8_t keeps of n.
Narrow(n) == IF n < Width THEN n ELSE n % Width

\* The vehicle sends one more frame.
VehicleSends(f) ==
    /\ Len(stream) < MaxFrames
    /\ stream' = Append(stream, [frame |-> f, start |-> StreamEnd])
    /\ UNCHANGED <<received, rx, pc, handed, damage>>

\* A segment of k bytes: refused when buffer and segment exceed BufLen,
\* otherwise appended, the count cut to its width.
Receive(k) ==
    /\ pc = "idle"
    /\ received + k <= StreamEnd
    /\ received + k <= MaxStream    \* the vehicle need not send all it claims
    /\ received' = received + k
    /\ LET held == Len(rx) + k IN
       \/ /\ held > BufLen
          /\ Drop
       \/ /\ held <= BufLen
          /\ rx' = SubSeq(rx \o Bytes(received, received + k), 1, Narrow(held))
          /\ pc' = "loop"
          /\ damage' = IF held < Width THEN damage ELSE "wrapped"
    /\ UNCHANGED <<stream, handed>>

\* tcp_tick resets the session between two segments (idle timeout, watchdog).
SessionReset ==
    /\ pc = "idle"
    /\ received > 0
    /\ Drop
    /\ UNCHANGED <<stream, received, handed>>

\* The connection ends and the next one begins: transport_reset, then a stream
\* of its own.
Reconnect ==
    /\ pc = "idle"
    /\ received > 0
    /\ stream' = <<>>
    /\ received' = 0
    /\ rx' = <<>>
    /\ handed' = <<>>
    /\ damage' = "none"
    /\ UNCHANGED pc

-----------------------------------------------------------------------------
(* The loop.  The first Header bytes of the buffer are read as a header.   *)

HeaderAt(i) == \A j \in 1 .. Header : rx[j] = stream[i].start + j
\* The header the loop may read: that of a frame if it stands at the front,
\* any header if other bytes do.
Headers ==
    LET at == {i \in DOMAIN stream : HeaderAt(i)}
    IN  IF at = {} THEN Frames ELSE {stream[i].frame : i \in at}

FrameLen(f) == (Header + f.claim) % LenWidth

NoHeaderYet ==
    /\ Len(rx) < Header
    /\ pc' = "idle"
    /\ UNCHANGED <<rx, handed, damage>>

\* Mutant: a frame that just fits is waited for.
IncompleteByOne(f) == Len(rx) <= FrameLen(f)

Incomplete(f) == Len(rx) < FrameLen(f)

\* Mutant: waiting inside the loop.
WaitInLoop(f) ==
    /\ f.kind # "garbled"
    /\ FrameLen(f) <= BufLen
    /\ Incomplete(f)
    /\ UNCHANGED <<pc, rx, handed, damage>>

WaitForMore(f) ==
    /\ f.kind # "garbled"
    /\ FrameLen(f) <= BufLen
    /\ Incomplete(f)
    /\ pc' = "idle"
    /\ UNCHANGED <<rx, handed, damage>>

\* Bad version octets, a frame longer than the buffer, another payload type.
Refuse(f) ==
    /\ \/ f.kind = "garbled"
       \/ FrameLen(f) > BufLen
       \/ f.kind = "other" /\ ~Incomplete(f)
    /\ Drop
    /\ UNCHANGED handed

\* Which frame of the stream the first n bytes of the buffer are, or 0.
FrameAt(n) ==
    LET same == {i \in DOMAIN stream : Size(i) = n
                    /\ \A j \in 1 .. n : rx[j] = stream[i].start + j}
    IN  IF same = {} THEN 0 ELSE CHOOSE i \in same : TRUE

\* Mutants: the rest is not moved to the front; the count stays the frame's
\* when there is no rest.
RestNotMoved(f) == SubSeq(rx, 1, Len(rx) - FrameLen(f))
RestNotCounted(f) == IF FrameLen(f) = Len(rx) THEN rx
                     ELSE SubSeq(rx, FrameLen(f) + 1, Len(rx))

\* What is left behind the frame, moved to the front.
Rest(f) == SubSeq(rx, FrameLen(f) + 1, Len(rx))

\* decodeV2GTP, then the rest.  A reset of the session inside the decoder does
\* not empty the buffer: the count is set to that of the rest afterwards.
Deliver(f) ==
    /\ f.kind = "exi"
    /\ FrameLen(f) <= BufLen
    /\ ~Incomplete(f)
    /\ handed' = IF FrameLen(f) = 0 THEN handed
                 ELSE Append(handed, FrameAt(FrameLen(f)))
    /\ rx' = Rest(f)
    /\ UNCHANGED <<pc, damage>>

LoopStep ==
    /\ pc = "loop"
    /\ \/ NoHeaderYet
       \/ /\ Len(rx) >= Header
          /\ \E f \in Headers : WaitForMore(f) \/ Refuse(f) \/ Deliver(f)
    /\ UNCHANGED <<stream, received>>

Next ==
    \/ \E f \in Frames : VehicleSends(f)
    \/ \E k \in 1 .. MaxSegment : Receive(k)
    \/ SessionReset
    \/ Reconnect
    \/ LoopStep

Spec == Init /\ [][Next]_vars
\* A task inside the loop goes on with it.
FairSpec == Spec /\ WF_vars(LoopStep)

-----------------------------------------------------------------------------
(* Properties                                                              *)

\* The buffer holds the last bytes received, in their order, with nothing
\* missing: appending, moving the rest down and the resets never leave a byte
\* of an earlier frame or connection in it, until the count overflows.
BufferIsTail ==
    damage # "wrapped" =>
        /\ Len(rx) <= received
        /\ \A j \in 1 .. Len(rx) : rx[j] = received - Len(rx) + j

\* Reference: the frames that have arrived whole, in order.
Arrived == {i \in DOMAIN stream : End(i) <= received}
\* No header claims so many bytes that the 32-bit frame length overflows.
HonestLengths == \A i \in DOMAIN stream : Size(i) < LenWidth

\* However the network cuts the stream, partial and coalesced frames included,
\* the decoder is given every frame that has arrived, whole, once and in order,
\* on an undisturbed connection.
SplitsLikeReference ==
    pc = "idle" /\ damage = "none" /\ HonestLengths =>
        handed = [i \in 1 .. Cardinality(Arrived) |-> i]

\* After a drop in the middle of a frame, and even after the count overflowed,
\* a frame is never decoded twice or after a later one.
HandedInOrder ==
    \A i, j \in 1 .. Len(handed) :
        i < j /\ handed[i] # 0 /\ handed[j] # 0 => handed[i] < handed[j]

\* The loop over the buffer ends, unless a header claims so many bytes that the
\* 32-bit frame length is zero.
LoopEnds ==
    pc = "loop" ~>
        \/ pc = "idle"
        \/ Len(rx) >= Header /\ \E f \in Headers : FrameLen(f) = 0
=============================================================================
