------------------------- MODULE V2gtpFraming_proofs -------------------------
(***************************************************************************)
(* Proofs about V2gtpFraming, for every width of the count, buffer, set of *)
(* lengths and segmentation: the types, what the receive buffer holds, and *)
(* that the decoder is given the frames a reference splitter would give,   *)
(* and never a frame twice or after a later one.                           *)
(***************************************************************************)
EXTENDS V2gtpFraming, SequenceTheorems, FiniteSetTheorems, TLAPS

\* The arithmetic of fixed widths.
LEMMA SmallNarrow ==
    ASSUME NEW w \in Nat \ {0}, NEW x \in Nat
    PROVE  x % w \in 0 .. w - 1 /\ (x < w => x % w = x)
OBVIOUS

LEMMA NarrowRange ==
    ASSUME NEW n \in Nat
    PROVE  Narrow(n) \in 0 .. Width - 1 /\ Narrow(n) <= n
<1>1. Width \in Nat \ {0}
  BY FramingAssumption
<1>2. n % Width \in 0 .. Width - 1
  BY <1>1, SmallNarrow
<1>3. QED
  BY <1>1, <1>2 DEF Narrow

\* The length read from a header of frame f is a natural number, and the true
\* one unless it overflows.
LEMMA FrameLenRange ==
    ASSUME NEW f \in Frames
    PROVE  /\ f.claim \in Nat
           /\ FrameLen(f) \in Nat
           /\ Header + f.claim < LenWidth => FrameLen(f) = Header + f.claim
<1>1. f.claim \in Nat
  <2>1. \/ f \in [claim : Claims, kind : {"exi"}]
        \/ f \in [claim : {1}, kind : {"other", "garbled"}]
    BY DEF Frames
  <2>2. f.claim \in Claims \/ f.claim = 1
    BY <2>1
  <2>3. \A c \in Claims : c \in Nat
    BY FramingAssumption
  <2>4. QED
    BY <2>2, <2>3
<1>2. Header + f.claim \in Nat /\ LenWidth \in Nat \ {0}
  BY <1>1, FramingAssumption
<1>3. ASSUME NEW x \in Nat
      PROVE  /\ x % LenWidth \in Nat
             /\ x < LenWidth => x % LenWidth = x
  <2>1. x % LenWidth \in 0 .. LenWidth - 1 /\ (x < LenWidth => x % LenWidth = x)
    BY <1>2, SmallNarrow
  <2>2. QED
    BY <2>1, <1>2
<1>4. QED
  BY <1>1, <1>2, <1>3 DEF FrameLen

\* What the loop reads as a header is one, and the index of a frame a number.
LEMMA HeadersAreFrames == ASSUME TypeOK PROVE Headers \subseteq Frames
<1>1. \A i \in DOMAIN stream : stream[i].frame \in Frames
  <2>1. stream \in [1 .. Len(stream) -> [frame : Frames, start : Nat]]
        /\ DOMAIN stream = 1 .. Len(stream)
    BY LenProperties DEF TypeOK
  <2>2. QED
    BY <2>1
<1>2. QED
  BY <1>1 DEF Headers

LEMMA FrameAtRange == ASSUME TypeOK, NEW n PROVE FrameAt(n) \in Nat
<1>1. DOMAIN stream \subseteq Nat
  <2>1. DOMAIN stream = 1 .. Len(stream)
    BY LenProperties DEF TypeOK
  <2>2. QED
    BY <2>1
<1>2. QED
  BY <1>1 DEF FrameAt

LEMMA StreamEndRange ==
    ASSUME TypeOK
    PROVE  /\ StreamEnd \in Nat
           /\ \A i \in DOMAIN stream :
                 Size(i) \in Nat /\ Size(i) >= Header /\ End(i) \in Nat
                 /\ stream[i].start \in Nat /\ End(i) = stream[i].start + Size(i)
<1>1. /\ stream \in [1 .. Len(stream) -> [frame : Frames, start : Nat]]
      /\ DOMAIN stream = 1 .. Len(stream) /\ Len(stream) \in Nat
  BY LenProperties DEF TypeOK
<1>2. ASSUME NEW i \in DOMAIN stream
      PROVE  Size(i) \in Nat /\ Size(i) >= Header /\ End(i) \in Nat
             /\ stream[i].start \in Nat /\ End(i) = stream[i].start + Size(i)
  <2>1. stream[i].frame \in Frames /\ stream[i].start \in Nat
    BY <1>1
  <2>2. stream[i].frame.claim \in Nat /\ Header \in Nat
    BY <2>1, FrameLenRange, FramingAssumption
  <2>3. Size(i) \in Nat /\ Size(i) >= Header
    BY <2>2 DEF Size
  <2>4. QED
    BY <2>1, <2>3 DEF End
<1>3. CASE stream = <<>>
  BY <1>2, <1>3 DEF StreamEnd
<1>4. CASE stream # <<>>
  <2>1. Len(stream) \in DOMAIN stream
    BY <1>1, <1>4, EmptySeq DEF TypeOK
  <2>2. QED
    BY <1>2, <1>4, <2>1 DEF StreamEnd
<1>5. QED
  BY <1>3, <1>4

-----------------------------------------------------------------------------
(* The buffer.                                                             *)

BufferInv == TypeOK /\ BufferIsTail

\* Emptying the buffer keeps both.
LEMMA DropKeeps ==
    ASSUME Drop, TypeOK, received' \in Nat, handed' = handed,
           stream' = stream
    PROVE  BufferInv'
BY FramingAssumption, EmptySeq DEF Drop, BufferInv, TypeOK, BufferIsTail

\* What the buffer is after a segment of k bytes was appended.
LEMMA Appended ==
    ASSUME TypeOK, NEW k \in 1 .. MaxSegment,
           NEW all, all = rx \o Bytes(received, received + k)
    PROVE  /\ all \in Seq(Nat)
           /\ Len(all) = Len(rx) + k
           /\ \A j \in 1 .. Len(rx) : all[j] = rx[j]
           /\ \A j \in 1 .. k : all[Len(rx) + j] = received + j
<1>1. k \in Nat /\ received \in Nat /\ rx \in Seq(Nat)
  BY FramingAssumption DEF TypeOK
<1>2. /\ Bytes(received, received + k) = [j \in 1 .. k |-> received + j]
      /\ \A j \in 1 .. k : received + j \in Nat
  BY <1>1 DEF Bytes
<1> DEFINE b == Bytes(received, received + k)
<1>3. b \in Seq(Nat) /\ Len(b) = k /\ \A j \in 1 .. k : b[j] = received + j
  <2>1. b \in [1 .. k -> Nat]
    BY <1>2
  <2>2. b \in Seq(Nat)
    BY <1>1, <2>1
  <2>3. Len(b) = k
    BY <1>1, <2>1, <2>2, LenProperties
  <2>4. QED
    BY <1>2, <2>2, <2>3
<1> HIDE DEF b
<1>4. /\ rx \o b \in Seq(Nat)
      /\ Len(rx \o b) = Len(rx) + Len(b)
      /\ \A i \in 1 .. Len(rx) + Len(b) :
            (rx \o b)[i] = IF i <= Len(rx) THEN rx[i] ELSE b[i - Len(rx)]
  BY <1>1, <1>3, ConcatProperties
<1>5. all = rx \o b /\ Len(rx) \in Nat
  BY <1>1 DEF b
<1>6. ASSUME NEW j \in 1 .. k PROVE all[Len(rx) + j] = received + j
  BY <1>1, <1>3, <1>4, <1>5
<1>7. \A j \in 1 .. Len(rx) : all[j] = rx[j]
  BY <1>3, <1>1, <1>4, <1>5
<1>8. all \in Seq(Nat) /\ Len(all) = Len(rx) + k
  BY <1>3, <1>4, <1>5
<1>9. QED
  BY <1>6, <1>7, <1>8

LEMMA ReceiveKeeps ==
    ASSUME BufferInv, NEW k \in 1 .. MaxSegment, Receive(k)
    PROVE  BufferInv'
<1>1. k \in Nat /\ k > 0 /\ received \in Nat /\ rx \in Seq(Nat) /\ Len(rx) \in Nat
  BY FramingAssumption DEF BufferInv, TypeOK
<1>2. received' = received + k /\ received' \in Nat
  BY <1>1 DEF Receive
<1>3. CASE Drop
  BY <1>2, <1>3, DropKeeps DEF Receive, BufferInv
<1>4. CASE ~Drop
  <2> DEFINE all == rx \o Bytes(received, received + k)
             n == Narrow(Len(rx) + k)
  <2>1. /\ rx' = SubSeq(all, 1, n) /\ pc' = "loop"
        /\ damage' = IF Len(rx) + k < Width THEN damage ELSE "wrapped"
        /\ UNCHANGED <<stream, handed>>
    BY <1>4 DEF Receive
  <2>2. /\ all \in Seq(Nat)
        /\ Len(all) = Len(rx) + k
        /\ \A j \in 1 .. Len(rx) : all[j] = rx[j]
        /\ \A j \in 1 .. k : all[Len(rx) + j] = received + j
    BY Appended DEF BufferInv
  <2>3. n \in 0 .. Width - 1 /\ n <= Len(rx) + k /\ n \in Nat
    BY <1>1, NarrowRange, FramingAssumption
  <2> HIDE DEF all, n
  <2>4. \A j \in 1 .. n : all[j] \in Nat
    <3>1. \A j \in 1 .. n : j \in 1 .. Len(all)
      BY <1>1, <2>2, <2>3
    <3>2. QED
      BY <2>2, <3>1, ElementOfSeq
  <2>5. /\ rx' \in Seq(Nat) /\ Len(rx') = n
        /\ \A j \in 1 .. n : rx'[j] = all[j]
    BY <2>1, <2>3, <2>4, SubSeqProperties
  <2>6. TypeOK'
    BY <1>2, <2>1, <2>3, <2>5 DEF BufferInv, TypeOK
  <2>7. ASSUME damage' # "wrapped" PROVE BufferIsTail'
    <3>1. damage # "wrapped" /\ n = Len(rx) + k
      BY <1>1, <2>1, <2>7 DEF n, Narrow
    <3>2. /\ Len(rx) <= received
          /\ \A j \in 1 .. Len(rx) : rx[j] = received - Len(rx) + j
      BY <3>1 DEF BufferInv, BufferIsTail
    <3>3. ASSUME NEW j \in 1 .. n PROVE rx'[j] = received' - Len(rx') + j
      <4>1. received' - Len(rx') + j = received - Len(rx) + j
        BY <1>1, <1>2, <2>3, <2>5, <3>1
      <4>2. CASE j <= Len(rx)
        BY <1>1, <2>2, <2>5, <3>2, <4>1, <4>2
      <4>3. CASE j > Len(rx)
        <5>1. j - Len(rx) \in 1 .. k /\ Len(rx) + (j - Len(rx)) = j
          BY <1>1, <3>1, <4>3
        <5>2. all[j] = received + (j - Len(rx))
          BY <2>2, <5>1
        <5>3. QED
          BY <1>1, <2>5, <4>1, <5>2
      <4>4. QED
        BY <1>1, <4>2, <4>3
    <3>4. QED
      BY <1>1, <1>2, <2>3, <2>5, <3>1, <3>2, <3>3 DEF BufferIsTail
  <2>8. QED
    BY <2>6, <2>7 DEF BufferInv, BufferIsTail
<1>5. QED
  BY <1>3, <1>4

\* What the buffer is after the frame of f was taken from its front.
LEMMA RestOfBuffer ==
    ASSUME TypeOK, NEW f \in Frames, ~Incomplete(f)
    PROVE  /\ Rest(f) \in Seq(Nat)
           /\ Len(Rest(f)) = Len(rx) - FrameLen(f)
           /\ \A j \in 1 .. Len(rx) - FrameLen(f) : Rest(f)[j] = rx[FrameLen(f) + j]
<1> DEFINE n == FrameLen(f)
<1>1. n \in Nat /\ rx \in Seq(Nat) /\ Len(rx) \in Nat /\ n <= Len(rx)
  BY FrameLenRange DEF TypeOK, Incomplete
<1>2. Rest(f) = SubSeq(rx, n + 1, Len(rx))
  BY DEF Rest
<1> HIDE DEF n
<1>3. \A j \in n + 1 .. Len(rx) : rx[j] \in Nat
  BY <1>1, ElementOfSeq
<1>4. n + 1 \in Int /\ Len(rx) \in Int
  BY <1>1
<1>5. /\ SubSeq(rx, n + 1, Len(rx)) \in Seq(Nat)
      /\ Len(SubSeq(rx, n + 1, Len(rx))) =
           IF n + 1 <= Len(rx) THEN Len(rx) - (n + 1) + 1 ELSE 0
      /\ \A j \in 1 .. Len(rx) - (n + 1) + 1 :
            SubSeq(rx, n + 1, Len(rx))[j] = rx[n + 1 + j - 1]
  BY <1>3, <1>4, SubSeqProperties
<1>6. Len(rx) - (n + 1) + 1 = Len(rx) - n
  BY <1>1
<1>7. \A j \in 1 .. Len(rx) - n : n + 1 + j - 1 = n + j
  BY <1>1
<1>8. (IF n + 1 <= Len(rx) THEN Len(rx) - n ELSE 0) = Len(rx) - n
  BY <1>1
<1>9. QED
  BY <1>2, <1>5, <1>6, <1>7, <1>8 DEF n

LEMMA LoopStepKeeps ==
    ASSUME BufferInv, LoopStep
    PROVE  BufferInv'
<1> USE DEF BufferInv
<1>1. stream' = stream /\ received' = received
  BY DEF LoopStep
<1>2. CASE NoHeaderYet
  BY <1>1, <1>2 DEF NoHeaderYet, TypeOK, BufferIsTail
<1>3. CASE \E f \in Headers : WaitForMore(f)
  BY <1>1, <1>3 DEF WaitForMore, TypeOK, BufferIsTail
<1>4. CASE \E f \in Headers : Refuse(f)
  <2>1. Drop /\ handed' = handed
    BY <1>4 DEF Refuse
  <2>2. received' \in Nat
    BY <1>1 DEF TypeOK
  <2>3. QED
    BY <1>1, <2>1, <2>2, DropKeeps
<1>5. ASSUME NEW f \in Headers, Deliver(f) PROVE BufferInv'
  <2> DEFINE n == FrameLen(f)
  <2>1. f \in Frames
    BY HeadersAreFrames
  <2>2. n \in Nat /\ n <= Len(rx) /\ Len(rx) \in Nat /\ Len(rx) <= Width - 1
        /\ received \in Nat /\ Width \in Nat
    BY <1>5, <2>1, FrameLenRange, FramingAssumption
       DEF Deliver, Incomplete, TypeOK
  <2>3. /\ rx' \in Seq(Nat) /\ Len(rx') = Len(rx) - n
        /\ \A j \in 1 .. Len(rx) - n : rx'[j] = rx[n + j]
    BY <1>5, <2>1, RestOfBuffer DEF Deliver
  <2>4. handed' \in Seq(Nat)
    BY <1>5, FrameAtRange, AppendProperties DEF Deliver, TypeOK
  <2> HIDE DEF n
  <2>5. TypeOK'
    <3>1. Len(rx') \in 0 .. Width - 1
      BY <2>2, <2>3
    <3>2. QED
      BY <1>1, <1>5, <2>3, <2>4, <3>1 DEF TypeOK, Deliver
  <2>6. BufferIsTail'
    <3> SUFFICES ASSUME damage' # "wrapped"
                 PROVE  /\ Len(rx') <= received'
                        /\ \A j \in 1 .. Len(rx') : rx'[j] = received' - Len(rx') + j
      BY DEF BufferIsTail
    <3>1. /\ Len(rx) <= received
          /\ \A j \in 1 .. Len(rx) : rx[j] = received - Len(rx) + j
      BY <1>5 DEF Deliver, BufferIsTail
    <3>2. ASSUME NEW j \in 1 .. Len(rx') PROVE rx'[j] = received' - Len(rx') + j
      <4>1. n + j \in 1 .. Len(rx) /\ j \in 1 .. Len(rx) - n
        BY <2>2, <2>3
      <4>2. rx'[j] = received - Len(rx) + (n + j)
        BY <2>3, <3>1, <4>1
      <4>3. QED
        BY <1>1, <2>2, <2>3, <4>2
    <3>3. QED
      BY <1>1, <2>2, <2>3, <3>1, <3>2
  <2>7. QED
    BY <2>5, <2>6
<1>6. QED
  BY <1>2, <1>3, <1>4, <1>5 DEF LoopStep

\* Every step keeps the types and the buffer.
LEMMA StepKeeps == BufferInv /\ [Next]_vars => BufferInv'
<1> SUFFICES ASSUME BufferInv, [Next]_vars PROVE BufferInv'
  OBVIOUS
<1>1. ASSUME NEW f \in Frames, VehicleSends(f) PROVE BufferInv'
  <2>1. StreamEnd \in Nat
    BY StreamEndRange DEF BufferInv
  <2>2. stream' \in Seq([frame : Frames, start : Nat])
    BY <1>1, <2>1, AppendProperties DEF VehicleSends, BufferInv, TypeOK
  <2>3. QED
    BY <1>1, <2>2 DEF VehicleSends, BufferInv, TypeOK, BufferIsTail
<1>2. ASSUME NEW k \in 1 .. MaxSegment, Receive(k) PROVE BufferInv'
  BY <1>2, ReceiveKeeps
<1>3. CASE SessionReset
  BY <1>3, DropKeeps DEF SessionReset, BufferInv, TypeOK
<1>4. CASE Reconnect
  BY <1>4, FramingAssumption DEF Reconnect, BufferInv, TypeOK, BufferIsTail
<1>5. CASE LoopStep
  BY <1>5, LoopStepKeeps
<1>6. CASE UNCHANGED vars
  BY <1>6 DEF vars, BufferInv, TypeOK, BufferIsTail
<1>7. QED
  BY <1>1, <1>2, <1>3, <1>4, <1>5, <1>6 DEF Next

LEMMA InitHolds == Init => BufferInv
BY FramingAssumption DEF Init, BufferInv, TypeOK, BufferIsTail

\* The variables keep their types: the count stays below its width.
THEOREM TypeCorrect == Spec => []TypeOK
<1>1. BufferInv => TypeOK
  BY DEF BufferInv
<1>2. QED
  BY <1>1, InitHolds, StepKeeps, PTL DEF Spec

\* Until the count overflows, the receive buffer of tcp_bufferPayload holds the
\* last bytes received and nothing else, whatever the segments and the resets.
THEOREM BufferIsTailHolds == Spec => []BufferIsTail
<1>1. BufferInv => BufferIsTail
  BY DEF BufferInv
<1>2. QED
  BY <1>1, InitHolds, StepKeeps, PTL DEF Spec

-----------------------------------------------------------------------------
(* The frames handed to the decoder.                                       *)

\* The frames of the stream lie end to end.
StreamInv ==
    /\ received <= StreamEnd
    /\ stream # <<>> => stream[1].start = 0
    /\ \A i \in DOMAIN stream : i + 1 \in DOMAIN stream => stream[i + 1].start = End(i)
    /\ \A i, j \in DOMAIN stream : i < j => End(i) <= stream[j].start

\* The end of the first n frames.
Base(n) == IF n = 0 THEN 0 ELSE End(n)

\* On an undisturbed connection the first n frames were handed over, the buffer
\* begins with the next, and outside the loop the next is incomplete.
InStep(n) ==
    /\ n = Len(handed)
    /\ n <= Len(stream)
    /\ handed = [i \in 1 .. n |-> i]
    /\ received - Len(rx) = Base(n)
    /\ pc = "idle" /\ n < Len(stream) => received < End(n + 1)

SyncInv == damage = "none" /\ HonestLengths => InStep(Len(handed))

SplitInv == BufferInv /\ StreamInv /\ SyncInv

LEMMA StreamIsFunction ==
    ASSUME TypeOK
    PROVE  /\ stream \in Seq([frame : Frames, start : Nat])
           /\ DOMAIN stream = 1 .. Len(stream) /\ Len(stream) \in Nat
           /\ \A i \in DOMAIN stream : stream[i].frame \in Frames
           /\ StreamEnd = IF Len(stream) = 0 THEN 0 ELSE End(Len(stream))
<1>1. /\ stream \in [1 .. Len(stream) -> [frame : Frames, start : Nat]]
      /\ DOMAIN stream = 1 .. Len(stream) /\ Len(stream) \in Nat
      /\ stream = <<>> <=> Len(stream) = 0
  BY LenProperties, EmptySeq DEF TypeOK
<1>2. QED
  BY <1>1 DEF TypeOK, StreamEnd

\* The frame after the first n begins where they end.
LEMMA NextStart ==
    ASSUME TypeOK, StreamInv, NEW n \in Nat, n < Len(stream)
    PROVE  n + 1 \in DOMAIN stream /\ stream[n + 1].start = Base(n)
<1>1. n + 1 \in DOMAIN stream
  BY StreamIsFunction
<1>2. CASE n = 0
  <2>1. stream # <<>>
    BY <1>1
  <2>2. QED
    BY <1>1, <1>2, <2>1 DEF StreamInv, Base
<1>3. CASE n # 0
  <2>1. n \in DOMAIN stream
    BY <1>3, StreamIsFunction
  <2>2. QED
    BY <1>1, <1>3, <2>1 DEF StreamInv, Base
<1>4. QED
  BY <1>2, <1>3

\* The stream keeps its shape as frames are added.
LEMMA StreamKept == ASSUME TypeOK, StreamInv, [Next]_vars PROVE StreamInv'
<1>1. ASSUME NEW f \in Frames, VehicleSends(f) PROVE StreamInv'
  <2>0. PICK l \in Nat, e \in {[frame |-> f, start |-> StreamEnd]} :
            l = Len(stream) /\ e = [frame |-> f, start |-> StreamEnd]
    BY StreamIsFunction
  <2>1. StreamEnd \in Nat /\ received \in Nat
    BY StreamEndRange DEF TypeOK
  <2>2. /\ l \in Nat /\ Len(stream') = l + 1 /\ stream'[l + 1] = e
        /\ \A i \in 1 .. l : stream'[i] = stream[i]
        /\ DOMAIN stream = 1 .. l /\ DOMAIN stream' = 1 .. l + 1
    <3>1. stream' = Append(stream, e) /\ e \in [frame : Frames, start : Nat]
      BY <1>1, <2>0, <2>1 DEF VehicleSends
    <3>2. stream' \in Seq([frame : Frames, start : Nat])
      BY <3>1, StreamIsFunction, AppendProperties
    <3>3. QED
      BY <2>0, <3>1, <3>2, StreamIsFunction, AppendProperties, LenProperties
  <2>3. received' = received
    BY <1>1 DEF VehicleSends
  <2>4. \A i \in 1 .. l : End(i)' = End(i) /\ End(i) \in Nat
                            /\ stream[i].start \in Nat /\ Size(i) \in Nat
    BY <2>2, StreamEndRange DEF End, Size
  <2>5. /\ End(l + 1)' = StreamEnd + (Header + f.claim)
        /\ Header + f.claim \in Nat
    <3>1. stream'[l + 1].frame.claim = f.claim /\ stream'[l + 1].start = StreamEnd
      BY <2>0, <2>2
    <3>2. f.claim \in Nat /\ Header \in Nat
      BY FrameLenRange, FramingAssumption
    <3>3. QED
      BY <3>1, <3>2 DEF End, Size
  <2>6. StreamEnd = IF l = 0 THEN 0 ELSE End(l)
    BY <2>0, StreamIsFunction
  <2>7. \A i \in 1 .. l : End(i) <= StreamEnd
    <3>1. ASSUME NEW i \in 1 .. l PROVE End(i) <= StreamEnd
      <4>1. l \in 1 .. l /\ StreamEnd = End(l)
        BY <2>2, <2>6
      <4>2. CASE i < l
        <5>1. End(i) <= stream[l].start
          BY <2>2, <4>1, <4>2 DEF StreamInv
        <5>2. stream[l].start <= End(l)
          BY <2>2, <2>4, <4>1, StreamEndRange
        <5>3. QED
          BY <2>4, <4>1, <5>1, <5>2
      <4>3. CASE i = l
        BY <2>4, <4>1, <4>3
      <4>4. i < l \/ i = l
        <5>1. l \in Nat
          BY <2>2
        <5>2. QED
          BY <5>1
      <4>5. QED
        BY <4>2, <4>3, <4>4
    <3>2. QED
      BY <3>1
  <2>8. StreamEnd' = End(l + 1)'
    <3>1. stream' # <<>>
      BY <2>2
    <3>2. QED
      BY <2>2, <3>1 DEF StreamEnd
  <2>9. received' <= StreamEnd'
    BY <2>1, <2>3, <2>5, <2>8 DEF StreamInv
  <2>10. stream'[1].start = 0
    <3>1. CASE l = 0
      BY <2>0, <2>2, <2>6, <3>1
    <3>2. CASE l # 0
      BY <2>2, <3>2 DEF StreamInv
    <3>3. QED
      BY <3>1, <3>2
  <2>11. ASSUME NEW i \in 1 .. l + 1, i + 1 \in 1 .. l + 1
         PROVE  stream'[i + 1].start = End(i)'
    <3>1. CASE i = l
      BY <2>0, <2>2, <2>4, <2>6, <3>1
    <3>2. CASE i < l
      <4>1. i \in 1 .. l /\ i + 1 \in 1 .. l
        BY <2>2, <3>2
      <4>2. QED
        BY <2>2, <2>4, <4>1 DEF StreamInv
    <3>3. QED
      BY <2>2, <2>11, <3>1, <3>2
  <2>12. ASSUME NEW i \in 1 .. l + 1, NEW j \in 1 .. l + 1, i < j
         PROVE  End(i)' <= stream'[j].start
    <3>1. i \in 1 .. l
      BY <2>2, <2>12
    <3>2. CASE j = l + 1
      BY <2>0, <2>2, <2>4, <2>7, <3>1, <3>2
    <3>3. CASE j # l + 1
      <4>1. j \in 1 .. l
        BY <2>2, <3>3
      <4>2. QED
        BY <2>2, <2>4, <2>12, <3>1, <4>1 DEF StreamInv
    <3>4. QED
      BY <3>2, <3>3
  <2>13. QED
    BY <2>2, <2>9, <2>10, <2>11, <2>12 DEF StreamInv
<1>2. ASSUME NEW k \in 1 .. MaxSegment, Receive(k) PROVE StreamInv'
  BY <1>2 DEF Receive, StreamInv, StreamEnd, End, Size
<1>3. CASE SessionReset
  BY <1>3 DEF SessionReset, StreamInv, StreamEnd, End, Size
<1>4. CASE Reconnect
  BY <1>4 DEF Reconnect, StreamInv, StreamEnd
<1>5. CASE LoopStep
  BY <1>5 DEF LoopStep, StreamInv, StreamEnd, End, Size
<1>6. CASE UNCHANGED vars
  BY <1>6 DEF vars, StreamInv, StreamEnd, End, Size
<1>7. QED
  BY <1>1, <1>2, <1>3, <1>4, <1>5, <1>6 DEF Next

\* Different frames begin at different places.
LEMMA StartsDiffer ==
    ASSUME TypeOK, StreamInv, NEW i \in DOMAIN stream, NEW j \in DOMAIN stream,
           stream[i].start = stream[j].start
    PROVE  i = j
<1>1. i \in Nat /\ j \in Nat
  BY StreamIsFunction
<1>2. /\ Size(i) \in Nat /\ Size(i) >= Header /\ End(i) = stream[i].start + Size(i)
      /\ Size(j) \in Nat /\ Size(j) >= Header /\ End(j) = stream[j].start + Size(j)
      /\ stream[i].start \in Nat /\ Header \in Nat /\ Header > 0
  BY StreamEndRange, FramingAssumption
<1>3. (i < j => End(i) <= stream[j].start) /\ (j < i => End(j) <= stream[i].start)
  BY DEF StreamInv
<1>4. QED
  BY <1>1, <1>2, <1>3

\* On an undisturbed connection the loop reads the header of the next frame,
\* and with it the true length.
LEMMA FrontHeader ==
    ASSUME BufferInv, StreamInv, NEW n \in Nat, InStep(n), damage = "none",
           HonestLengths, Len(rx) >= Header
    PROVE  /\ n < Len(stream)
           /\ Headers = {stream[n + 1].frame}
           /\ FrameLen(stream[n + 1].frame) = Size(n + 1)
           /\ \A j \in 1 .. Len(rx) : rx[j] = stream[n + 1].start + j
<1>1. /\ TypeOK /\ Header \in Nat /\ Header > 0 /\ Len(rx) \in Nat /\ received \in Nat
      /\ received - Len(rx) = Base(n) /\ n <= Len(stream) /\ Len(stream) \in Nat
  BY StreamIsFunction, FramingAssumption DEF BufferInv, TypeOK, InStep
<1>2. n < Len(stream)
  <2>1. SUFFICES ASSUME n = Len(stream) PROVE FALSE
    BY <1>1
  <2>2. Base(n) = StreamEnd /\ StreamEnd \in Nat
    BY <1>1, <2>1, StreamIsFunction, StreamEndRange DEF Base
  <2>3. received <= StreamEnd
    BY DEF StreamInv
  <2>4. QED
    BY <1>1, <2>2, <2>3
<1>3. n + 1 \in DOMAIN stream /\ stream[n + 1].start = Base(n)
  BY <1>1, <1>2, NextStart
<1>4. ASSUME NEW j \in 1 .. Len(rx) PROVE rx[j] = stream[n + 1].start + j
  <2>1. rx[j] = received - Len(rx) + j
    BY DEF BufferInv, BufferIsTail
  <2>2. QED
    BY <1>1, <1>3, <2>1
<1>5. HeaderAt(n + 1)
  BY <1>1, <1>4 DEF HeaderAt
<1>6. ASSUME NEW i \in DOMAIN stream, HeaderAt(i) PROVE i = n + 1
  <2>1. 1 \in 1 .. Header /\ 1 \in 1 .. Len(rx)
    BY <1>1
  <2>2. rx[1] = stream[i].start + 1 /\ rx[1] = stream[n + 1].start + 1
    BY <1>4, <1>6, <2>1 DEF HeaderAt
  <2>3. stream[i].start \in Nat /\ stream[n + 1].start \in Nat
    BY <1>1, <1>3, StreamEndRange
  <2>4. stream[i].start = stream[n + 1].start
    BY <2>2, <2>3
  <2>5. QED
    BY <1>1, <1>3, <2>4, StartsDiffer
<1>7. {i \in DOMAIN stream : HeaderAt(i)} = {n + 1}
  BY <1>3, <1>5, <1>6
<1>8. Headers = {stream[n + 1].frame}
  BY <1>7 DEF Headers
<1>9. FrameLen(stream[n + 1].frame) = Size(n + 1)
  <2>1. stream[n + 1].frame \in Frames
    BY <1>1, <1>3, StreamIsFunction
  <2>2. Header + stream[n + 1].frame.claim < LenWidth
    BY <1>3 DEF HonestLengths, Size
  <2>3. QED
    BY <2>1, <2>2, FrameLenRange DEF Size
<1>10. QED
  BY <1>2, <1>4, <1>8, <1>9

LEMMA LoopStepInStep ==
    ASSUME BufferInv, StreamInv, NEW n \in Nat, InStep(n), damage = "none",
           HonestLengths, LoopStep, damage' = "none"
    PROVE  InStep(Len(handed))'
<1>0. /\ TypeOK /\ Header \in Nat /\ Header > 0 /\ Len(rx) \in Nat /\ received \in Nat
      /\ received - Len(rx) = Base(n) /\ n <= Len(stream) /\ Len(stream) \in Nat
      /\ n = Len(handed) /\ handed = [i \in 1 .. n |-> i]
  BY StreamIsFunction, FramingAssumption DEF BufferInv, TypeOK, InStep
<1>1. stream' = stream /\ received' = received
  BY DEF LoopStep
<1>2. \A i : End(i)' = End(i) /\ Base(i)' = Base(i) /\ Size(i)' = Size(i)
  BY <1>1 DEF End, Size, Base
<1>3. ASSUME n < Len(stream)
      PROVE  End(n + 1) = Base(n) + Size(n + 1) /\ Size(n + 1) \in Nat
             /\ Size(n + 1) >= Header /\ Base(n) \in Nat
  BY <1>0, <1>3, NextStart, StreamEndRange
<1>4. CASE /\ rx' = rx /\ handed' = handed
           /\ n < Len(stream) => Len(rx) < Size(n + 1)
  <2>1. n < Len(stream) => received < End(n + 1)
    BY <1>0, <1>3, <1>4
  <2>2. QED
    BY <1>0, <1>1, <1>2, <1>4, <2>1 DEF InStep
<1>5. CASE NoHeaderYet
  BY <1>0, <1>3, <1>4, <1>5 DEF NoHeaderYet
<1>6. CASE ~NoHeaderYet
  <2>1. Len(rx) >= Header /\ (\E f \in Headers : WaitForMore(f) \/ Refuse(f) \/ Deliver(f))
    BY <1>6 DEF LoopStep
  <2>2. /\ n < Len(stream)
        /\ Headers = {stream[n + 1].frame}
        /\ FrameLen(stream[n + 1].frame) = Size(n + 1)
        /\ \A j \in 1 .. Len(rx) : rx[j] = stream[n + 1].start + j
    BY <2>1, FrontHeader
  <2> DEFINE f == stream[n + 1].frame
  <2>3. WaitForMore(f) \/ Refuse(f) \/ Deliver(f)
    BY <2>1, <2>2
  <2>4. ~Refuse(f)
    BY DEF Refuse, Drop
  <2>5. CASE WaitForMore(f)
    BY <1>4, <2>2, <2>5 DEF WaitForMore, Incomplete
  <2>6. CASE Deliver(f)
    <3>1. Size(n + 1) \in Nat /\ Size(n + 1) > 0 /\ Size(n + 1) <= Len(rx)
          /\ n + 1 \in DOMAIN stream
      BY <1>0, <1>3, <2>2, <2>6, NextStart DEF Deliver, Incomplete
    <3>2. FrameAt(Size(n + 1)) = n + 1
      <4> DEFINE good(i) == Size(i) = Size(n + 1)
                    /\ \A j \in 1 .. Size(n + 1) : rx[j] = stream[i].start + j
      <4>1. good(n + 1)
        BY <2>2, <3>1
      <4>2. ASSUME NEW i \in DOMAIN stream, good(i) PROVE i = n + 1
        <5>1. 1 \in 1 .. Size(n + 1) /\ 1 \in 1 .. Len(rx)
          BY <1>0, <3>1
        <5>2. rx[1] = stream[i].start + 1 /\ rx[1] = stream[n + 1].start + 1
          BY <2>2, <4>2, <5>1
        <5>3. stream[i].start \in Nat /\ stream[n + 1].start \in Nat
          BY <1>0, <3>1, StreamEndRange
        <5>4. stream[i].start = stream[n + 1].start
          BY <5>2, <5>3
        <5>5. QED
          BY <1>0, <3>1, <5>4, StartsDiffer
      <4>3. {i \in DOMAIN stream : good(i)} = {n + 1}
        BY <3>1, <4>1, <4>2
      <4>4. QED
        BY <4>3 DEF FrameAt
    <3>3. handed' = Append(handed, n + 1)
      BY <2>2, <2>6, <3>1, <3>2 DEF Deliver
    <3>4. handed' = [i \in 1 .. n + 1 |-> i] /\ Len(handed') = n + 1
      <4>1. handed \in Seq(Nat) /\ handed' \in Seq(Nat) /\ Len(handed') = n + 1
            /\ (\A i \in 1 .. n : handed'[i] = i) /\ handed'[n + 1] = n + 1
        BY <1>0, <3>3, AppendProperties DEF TypeOK
      <4>2. handed' \in [1 .. n + 1 -> Nat]
        BY <4>1, LenProperties
      <4>3. \A i \in 1 .. n + 1 : handed'[i] = i
        BY <4>1
      <4>4. QED
        BY <4>1, <4>2, <4>3
    <3>5. Len(rx') = Len(rx) - Size(n + 1)
      <4>1. f \in Frames
        BY <1>0, <3>1, StreamIsFunction
      <4>2. QED
        BY <1>0, <2>2, <2>6, <4>1, RestOfBuffer DEF Deliver
    <3>6. received' - Len(rx') = Base(n + 1)'
      <4>1. Base(n + 1) = End(n + 1)
        BY DEF Base
      <4>2. QED
        BY <1>0, <1>1, <1>2, <1>3, <2>2, <3>1, <3>5, <4>1
    <3>7. pc' = "loop"
      BY <2>6 DEF Deliver, LoopStep
    <3>8. n + 1 <= Len(stream)
      BY <1>0, <2>2
    <3>9. QED
      BY <1>1, <3>4, <3>6, <3>7, <3>8 DEF InStep
  <2>7. QED
    BY <2>3, <2>4, <2>5, <2>6
<1>7. QED
  BY <1>5, <1>6

LEMMA ZeroLess == ASSUME NEW a, NEW b, a = 0, b = 0 PROVE a - b = 0
OBVIOUS

\* A connection without a byte or a frame is in step.
LEMMA NothingYet ==
    ASSUME stream = <<>>, received = 0, rx = <<>>, handed = <<>>
    PROVE  InStep(Len(handed))
<1>1. Len(handed) = 0 /\ Len(rx) = 0 /\ Len(stream) = 0
  OBVIOUS
<1>2. handed = [i \in 1 .. 0 |-> i]
  OBVIOUS
<1>3. received - Len(rx) = Base(Len(handed))
  <2>1. Base(Len(handed)) = 0
    BY <1>1 DEF Base
  <2>2. received - Len(rx) = 0
    BY <1>1, ZeroLess
  <2>3. QED
    BY <2>1, <2>2
<1>4. handed = [i \in 1 .. Len(handed) |-> i]
  BY <1>1, <1>2
<1>5. Len(handed) <= Len(stream) /\ ~(Len(handed) < Len(stream))
  BY <1>1
<1>6. QED
  BY <1>3, <1>4, <1>5 DEF InStep

\* A segment that neither overflows the buffer nor the count, and a step that
\* leaves buffer and frames alone, keep the splitter in step.
LEMMA OtherStepInStep ==
    ASSUME BufferInv, BufferInv', StreamInv, SyncInv, [Next]_vars, ~LoopStep,
           damage' = "none", HonestLengths'
    PROVE  InStep(Len(handed))'
<1>1. ASSUME NEW f \in Frames, VehicleSends(f) PROVE InStep(Len(handed))'
  <2>1. PICK l \in Nat : l = Len(stream)
    BY StreamIsFunction DEF BufferInv
  <2>2. /\ UNCHANGED <<received, rx, pc, handed, damage>>
        /\ Len(stream') = l + 1
        /\ \A i \in 1 .. l : stream'[i] = stream[i]
        /\ stream'[l + 1] = [frame |-> f, start |-> StreamEnd]
        /\ DOMAIN stream = 1 .. l /\ DOMAIN stream' = 1 .. l + 1
    <3>1. StreamEnd \in Nat /\ stream \in Seq([frame : Frames, start : Nat])
      BY StreamEndRange DEF BufferInv, TypeOK
    <3>2. [frame |-> f, start |-> StreamEnd] \in [frame : Frames, start : Nat]
      BY <3>1
    <3>3. stream' = Append(stream, [frame |-> f, start |-> StreamEnd])
      BY <1>1 DEF VehicleSends
    <3>4. stream' \in Seq([frame : Frames, start : Nat])
      BY <3>1, <3>2, <3>3, AppendProperties
    <3>5. QED
      BY <1>1, <2>1, <3>1, <3>2, <3>3, <3>4, AppendProperties, LenProperties
         DEF VehicleSends
  <2>3. HonestLengths
    <3>1. \A i \in 1 .. l : Size(i)' = Size(i)
      BY <2>2 DEF Size
    <3>2. QED
      BY <2>1, <2>2, <3>1 DEF HonestLengths
  <2>4. PICK n \in Nat : n = Len(handed) /\ InStep(n)
    BY <2>2, <2>3 DEF SyncInv, BufferInv, TypeOK
  <2>5. Base(n)' = Base(n)
    BY <2>1, <2>2, <2>4 DEF Base, End, Size, InStep
  <2>6. n < l + 1 /\ pc = "idle" => received < End(n + 1)'
    <3>1. CASE n < l
      <4>1. n + 1 \in 1 .. l
        BY <2>1, <2>4, <3>1
      <4>2. End(n + 1)' = End(n + 1)
        BY <2>2, <4>1 DEF End, Size
      <4>3. QED
        BY <2>1, <2>4, <3>1, <4>2 DEF InStep
    <3>2. CASE n = l
      <4>1. received <= StreamEnd /\ received \in Nat /\ StreamEnd \in Nat
        BY StreamEndRange DEF StreamInv, BufferInv, TypeOK
      <4>2. End(n + 1)' = StreamEnd + (Header + f.claim)
        <5>1. stream'[n + 1].frame.claim = f.claim /\ stream'[n + 1].start = StreamEnd
          BY <2>2, <3>2
        <5>2. QED
          BY <5>1 DEF End, Size
      <4>3. f.claim \in Nat /\ Header \in Nat /\ Header > 0
        BY FrameLenRange, FramingAssumption
      <4>4. QED
        BY <4>1, <4>2, <4>3
    <3>3. QED
      BY <2>1, <2>4, <3>1, <3>2 DEF InStep
  <2>7. QED
    BY <2>1, <2>2, <2>4, <2>5, <2>6 DEF InStep
<1>2. ASSUME NEW k \in 1 .. MaxSegment, Receive(k) PROVE InStep(Len(handed))'
  <2>1. /\ k \in Nat /\ Len(rx) \in Nat /\ received \in Nat /\ received' = received + k
        /\ UNCHANGED <<stream, handed>> /\ ~Drop
    BY <1>2, FramingAssumption DEF Receive, BufferInv, TypeOK, Drop
  <2>2. /\ damage = "none" /\ pc' = "loop"
        /\ Len(rx') = Len(rx) + k
    <3>1. /\ rx' = SubSeq(rx \o Bytes(received, received + k), 1, Narrow(Len(rx) + k))
          /\ pc' = "loop" /\ Len(rx) + k < Width /\ damage = "none"
      BY <1>2, <2>1 DEF Receive
    <3>2. Narrow(Len(rx) + k) = Len(rx) + k
      BY <3>1 DEF Narrow
    <3>3. PICK all : all = rx \o Bytes(received, received + k)
      OBVIOUS
    <3>4. all \in Seq(Nat) /\ Len(all) = Len(rx) + k
      BY <3>3, Appended DEF BufferInv
    <3>5. SubSeq(all, 1, Len(all)) = all
      BY <3>4, SubSeqFull
    <3>6. QED
      BY <3>1, <3>2, <3>3, <3>4, <3>5
  <2>3. \A i : End(i)' = End(i) /\ Base(i)' = Base(i) /\ Size(i)' = Size(i)
    BY <2>1 DEF End, Size, Base
  <2>4. InStep(Len(handed)) /\ Len(handed) \in Nat
    <3>1. HonestLengths
      BY <2>1, <2>3 DEF HonestLengths
    <3>2. QED
      BY <2>2, <3>1 DEF SyncInv, BufferInv, TypeOK
  <2>5. received' - Len(rx') = received - Len(rx)
    BY <2>1, <2>2
  <2>6. QED
    BY <2>1, <2>2, <2>3, <2>4, <2>5 DEF InStep
<1>3. CASE SessionReset
  BY <1>3 DEF SessionReset, Drop
<1>4. CASE Reconnect
  <2>1. stream' = <<>> /\ received' = 0 /\ rx' = <<>> /\ handed' = <<>>
    BY <1>4 DEF Reconnect
  <2>2. Len(handed') = 0 /\ Len(rx') = 0 /\ Len(stream') = 0
    BY <2>1
  <2>3. handed' = [i \in 1 .. 0 |-> i]
    BY <2>1
  <2>4. received' - Len(rx') = Base(Len(handed))'
    <3>1. Base(Len(handed))' = 0
      BY <2>2 DEF Base
    <3>2. received' - Len(rx') = 0
      BY <2>1, <2>2, ZeroLess
    <3>3. QED
      BY <3>1, <3>2
  <2>5. handed' = [i \in 1 .. Len(handed') |-> i]
    BY <2>2, <2>3
  <2>6. Len(handed') <= Len(stream') /\ ~(Len(handed') < Len(stream'))
    BY <2>2
  <2>7. QED
    BY <2>4, <2>5, <2>6 DEF InStep
<1>5. CASE UNCHANGED vars
  <2>1. \A i : End(i)' = End(i) /\ Base(i)' = Base(i) /\ Size(i)' = Size(i)
    BY <1>5 DEF vars, End, Size, Base
  <2>2. InStep(Len(handed))
    BY <1>5, <2>1 DEF vars, SyncInv, HonestLengths
  <2>3. QED
    BY <1>5, <2>1, <2>2 DEF vars, InStep
<1>6. QED
  BY <1>1, <1>2, <1>3, <1>4, <1>5 DEF Next

LEMMA SplitStep == SplitInv /\ [Next]_vars => SplitInv'
<1> SUFFICES ASSUME SplitInv, [Next]_vars PROVE SplitInv'
  OBVIOUS
<1>1. BufferInv' /\ StreamInv'
  BY StepKeeps, StreamKept DEF SplitInv, BufferInv
<1>2. SyncInv'
  <2>1. SUFFICES ASSUME damage' = "none", HonestLengths' PROVE InStep(Len(handed))'
    BY DEF SyncInv
  <2>2. CASE LoopStep
    <3>1. damage = "none"
      BY <2>1, <2>2 DEF LoopStep, NoHeaderYet, WaitForMore, Refuse, Drop, Deliver
    <3>2. HonestLengths
      BY <2>1, <2>2 DEF LoopStep, HonestLengths, Size
    <3>3. InStep(Len(handed)) /\ Len(handed) \in Nat
      BY <3>1, <3>2 DEF SplitInv, SyncInv, BufferInv, TypeOK
    <3>4. QED
      BY <2>1, <2>2, <3>1, <3>2, <3>3, LoopStepInStep DEF SplitInv
  <2>3. CASE ~LoopStep
    BY <1>1, <2>1, <2>3, OtherStepInStep DEF SplitInv
  <2>4. QED
    BY <2>2, <2>3
<1>3. QED
  BY <1>1, <1>2 DEF SplitInv

LEMMA SplitInit == Init => SplitInv
<1> SUFFICES ASSUME Init PROVE SplitInv
  OBVIOUS
<1>1. BufferInv
  BY InitHolds
<1>2. StreamInv
  BY DEF Init, StreamInv, StreamEnd
<1>3. SyncInv
  BY NothingYet DEF Init, SyncInv
<1>4. QED
  BY <1>1, <1>2, <1>3 DEF SplitInv

\* In step and outside the loop, the frames handed over are those that arrived.
LEMMA InStepIsReference == SplitInv => SplitsLikeReference
<1> SUFFICES ASSUME SplitInv, pc = "idle", damage = "none", HonestLengths
             PROVE  handed = [i \in 1 .. Cardinality(Arrived) |-> i]
  BY DEF SplitsLikeReference
<1>1. PICK n \in Nat : n = Len(handed) /\ InStep(n)
  BY DEF SplitInv, SyncInv, BufferInv, TypeOK
<1>2. /\ TypeOK /\ StreamInv /\ Len(stream) \in Nat /\ DOMAIN stream = 1 .. Len(stream)
      /\ received \in Nat /\ Len(rx) \in Nat /\ n <= Len(stream)
      /\ received - Len(rx) = Base(n)
      /\ n < Len(stream) => received < End(n + 1)
      /\ \A i \in DOMAIN stream : End(i) \in Nat /\ stream[i].start \in Nat
                                  /\ stream[i].start <= End(i)
  <2>1. TypeOK /\ StreamInv
    BY DEF SplitInv, BufferInv
  <2>2. \A i \in DOMAIN stream : End(i) \in Nat /\ stream[i].start \in Nat
                                  /\ stream[i].start <= End(i)
    BY <2>1, StreamEndRange
  <2>3. QED
    BY <1>1, <2>1, <2>2, StreamIsFunction DEF InStep, TypeOK
<1>3. ASSUME NEW i \in 1 .. n PROVE End(i) <= received
  <2>1. i \in DOMAIN stream /\ n \in DOMAIN stream
    BY <1>2
  <2>2. End(i) <= End(n)
    <3>1. CASE i < n
      <4>1. End(i) <= stream[n].start
        BY <1>2, <2>1, <3>1 DEF StreamInv
      <4>2. QED
        BY <1>2, <2>1, <4>1
    <3>2. CASE i = n
      BY <1>2, <2>1, <3>2
    <3>3. QED
      BY <3>1, <3>2
  <2>3. Base(n) = End(n)
    BY DEF Base
  <2>4. QED
    BY <1>2, <2>1, <2>2, <2>3
<1>4. ASSUME NEW i \in DOMAIN stream, i > n PROVE received < End(i)
  <2>1. n + 1 \in DOMAIN stream /\ i \in Nat /\ n < Len(stream)
    BY <1>2, <1>4
  <2>2. End(n + 1) <= End(i)
    <3>1. CASE n + 1 < i
      <4>1. End(n + 1) <= stream[i].start
        BY <1>2, <2>1, <3>1 DEF StreamInv
      <4>2. QED
        BY <1>2, <2>1, <4>1
    <3>2. CASE n + 1 = i
      BY <1>2, <3>2
    <3>3. QED
      BY <1>4, <2>1, <3>1, <3>2
  <2>3. QED
    BY <1>2, <2>1, <2>2
<1>5. Arrived = 1 .. n
  <2>1. ASSUME NEW i \in DOMAIN stream, End(i) <= received PROVE i \in 1 .. n
    <3>1. ~(i > n)
      BY <1>2, <1>4, <2>1
    <3>2. QED
      BY <1>2, <3>1
  <2>2. 1 .. n \subseteq DOMAIN stream
    BY <1>2
  <2>3. QED
    BY <1>3, <2>1, <2>2 DEF Arrived
<1>6. Cardinality(1 .. n) = n
  <2>1. Cardinality(1 .. n) = IF 1 > n THEN 0 ELSE n - 1 + 1
    BY FS_Interval
  <2>2. QED
    BY <2>1
<1>7. QED
  BY <1>1, <1>5, <1>6 DEF InStep

\* However the stream is cut into segments, tcp_bufferPayload gives the decoder
\* exactly the frames that have arrived, whole, once and in order, until a drop
\* or an overflow of the count.
THEOREM SplitsLikeReferenceHolds == Spec => []SplitsLikeReference
BY InStepIsReference, SplitInit, SplitStep, PTL DEF Spec

-----------------------------------------------------------------------------
(* The order of the frames, also after a drop or an overflow.              *)

\* The bytes in the buffer have arrived and stand in the stream's order, even
\* where some of them are missing.
Rising ==
    /\ \A j \in 1 .. Len(rx) : rx[j] <= received
    /\ \A j, k \in 1 .. Len(rx) : j < k => rx[j] < rx[k]

\* A frame that was handed over lies before every byte in the buffer.
Behind ==
    \A m \in 1 .. Len(handed) : handed[m] # 0 =>
        /\ handed[m] \in DOMAIN stream
        /\ End(handed[m]) <= received
        /\ \A j \in 1 .. Len(rx) : End(handed[m]) < rx[j]

OrderInv == TypeOK /\ StreamInv /\ Rising /\ Behind /\ HandedInOrder

\* An empty buffer keeps what was handed over.
LEMMA EmptyKeepsOrder ==
    ASSUME OrderInv, TypeOK', StreamInv', rx' = <<>>,
           UNCHANGED <<stream, received, handed>>
    PROVE  OrderInv'
<1>1. Len(rx') = 0
  OBVIOUS
<1>2. Rising'
  BY <1>1 DEF Rising
<1>3. Behind'
  BY <1>1 DEF OrderInv, Behind, End, Size
<1>4. HandedInOrder'
  BY DEF OrderInv, HandedInOrder
<1>5. QED
  BY <1>2, <1>3, <1>4 DEF OrderInv

\* The bytes of a segment come after those in the buffer and after every frame
\* that was handed over, whatever the width of the count cuts off.
LEMMA ReceiveKeepsOrder ==
    ASSUME OrderInv, TypeOK', StreamInv', NEW k \in 1 .. MaxSegment, Receive(k), ~Drop
    PROVE  OrderInv'
<1> DEFINE all == rx \o Bytes(received, received + k)
           n == Narrow(Len(rx) + k)
<1>0. k \in Nat /\ k > 0 /\ received \in Nat /\ received' = received + k
  BY FramingAssumption DEF OrderInv, TypeOK, Receive
<1>1. /\ k \in Nat /\ k > 0 /\ received \in Nat /\ received' = received + k
      /\ rx \in Seq(Nat) /\ Len(rx) \in Nat
      /\ \A j \in 1 .. Len(rx) : rx[j] \in Nat
      /\ rx' = SubSeq(all, 1, n)
      /\ UNCHANGED <<stream, handed>>
  <2>1. /\ k \in Nat /\ k > 0 /\ received \in Nat /\ rx \in Seq(Nat)
    BY FramingAssumption DEF OrderInv, TypeOK
  <2>2. \A j \in 1 .. Len(rx) : rx[j] \in Nat
    BY <2>1, ElementOfSeq
  <2>3. received' = received + k /\ UNCHANGED <<stream, handed>> /\ rx' = SubSeq(all, 1, n)
    BY DEF Receive
  <2>4. QED
    BY <2>1, <2>2, <2>3
<1>2. /\ all \in Seq(Nat)
      /\ Len(all) = Len(rx) + k
      /\ \A j \in 1 .. Len(rx) : all[j] = rx[j]
      /\ \A j \in 1 .. k : all[Len(rx) + j] = received + j
  BY Appended DEF OrderInv
<1>3. n \in Nat /\ n <= Len(rx) + k
  BY <1>1, NarrowRange, FramingAssumption
<1>4. \A j \in 1 .. n : all[j] \in Nat
  BY <1>1, <1>2, <1>3, ElementOfSeq
<1> HIDE DEF all, n
<1>5. /\ Len(rx') = n
      /\ \A j \in 1 .. n : rx'[j] = all[j]
  BY <1>1, <1>3, <1>4, SubSeqProperties
<1>6. ASSUME NEW j \in 1 .. n
      PROVE  \/ j \in 1 .. Len(rx) /\ rx'[j] = rx[j]
             \/ j > Len(rx) /\ rx'[j] = received + (j - Len(rx))
                            /\ j - Len(rx) \in 1 .. k
  <2>1. CASE j <= Len(rx)
    BY <1>1, <1>2, <1>3, <1>5, <2>1
  <2>2. CASE j > Len(rx)
    <3>1. j - Len(rx) \in 1 .. k /\ Len(rx) + (j - Len(rx)) = j
      BY <1>1, <1>3, <2>2
    <3>2. all[j] = received + (j - Len(rx))
      BY <1>2, <3>1
    <3>3. QED
      BY <1>5, <2>2, <3>1, <3>2
  <2>3. QED
    BY <1>1, <1>3, <2>1, <2>2
<1>7. Rising'
  <2>1. /\ \A j \in 1 .. Len(rx) : rx[j] <= received
        /\ \A j, l \in 1 .. Len(rx) : j < l => rx[j] < rx[l]
    BY DEF OrderInv, Rising
  <2>2. ASSUME NEW j \in 1 .. n PROVE rx'[j] <= received'
    <3>1. CASE j \in 1 .. Len(rx) /\ rx'[j] = rx[j]
      <4>1. rx[j] \in Nat /\ rx[j] <= received
        BY <1>1, <2>1, <3>1
      <4>2. received <= received + k
        BY <1>1
      <4>3. QED
        BY <1>0, <3>1, <4>1, <4>2
    <3>2. CASE rx'[j] = received + (j - Len(rx)) /\ j - Len(rx) \in 1 .. k
      <4>1. PICK e \in 1 .. k : rx'[j] = received + e
        BY <3>2
      <4>2. QED
        BY <1>0, <4>1
    <3>3. QED
      BY <1>6, <3>1, <3>2
  <2>3. ASSUME NEW j \in 1 .. n, NEW l \in 1 .. n, j < l PROVE rx'[j] < rx'[l]
    BY <1>1, <1>3, <1>6, <2>1, <2>3
  <2>4. QED
    BY <1>5, <2>2, <2>3 DEF Rising
<1>8. Behind'
  <2> SUFFICES ASSUME NEW m \in 1 .. Len(handed), handed[m] # 0
               PROVE  /\ handed[m] \in DOMAIN stream
                      /\ End(handed[m]) <= received'
                      /\ \A j \in 1 .. n : End(handed[m]) < rx'[j]
    BY <1>1, <1>5 DEF Behind, End, Size
  <2>1. /\ handed[m] \in DOMAIN stream
        /\ End(handed[m]) <= received
        /\ \A j \in 1 .. Len(rx) : End(handed[m]) < rx[j]
    BY DEF OrderInv, Behind
  <2>2. End(handed[m]) \in Nat
    BY <2>1, StreamEndRange DEF OrderInv
  <2>3. ASSUME NEW j \in 1 .. n PROVE End(handed[m]) < rx'[j]
    <3>1. CASE j \in 1 .. Len(rx) /\ rx'[j] = rx[j]
      BY <2>1, <3>1
    <3>2. CASE rx'[j] = received + (j - Len(rx)) /\ j - Len(rx) \in 1 .. k
      <4>1. PICK e \in 1 .. k : rx'[j] = received + e
        BY <3>2
      <4>2. QED
        BY <1>0, <2>1, <2>2, <4>1
    <3>3. QED
      BY <1>6, <3>1, <3>2
  <2>4. QED
    BY <1>1, <1>3, <2>1, <2>2, <2>3
<1>9. HandedInOrder'
  BY <1>1 DEF OrderInv, HandedInOrder
<1>10. QED
  BY <1>7, <1>8, <1>9 DEF OrderInv

\* The frame at the front of the buffer ends at the last of its bytes.
LEMMA FrontFrame ==
    ASSUME TypeOK, NEW n \in Nat, 0 < n, n <= Len(rx), FrameAt(n) # 0
    PROVE  /\ FrameAt(n) \in DOMAIN stream
           /\ End(FrameAt(n)) = rx[n]
           /\ stream[FrameAt(n)].start + 1 = rx[1]
<1> DEFINE same == {i \in DOMAIN stream : Size(i) = n
                      /\ \A j \in 1 .. n : rx[j] = stream[i].start + j}
<1>1. FrameAt(n) \in same
  BY DEF FrameAt
<1>2. n \in 1 .. n /\ 1 \in 1 .. n
  OBVIOUS
<1>3. QED
  BY <1>1, <1>2 DEF End

\* Of two frames, the one that ends where the other has not begun is earlier.
LEMMA EarlierFrame ==
    ASSUME TypeOK, StreamInv, NEW i \in DOMAIN stream, NEW j \in DOMAIN stream,
           End(i) < stream[j].start + 1
    PROVE  i < j
<1>1. i \in Nat /\ j \in Nat
  BY StreamIsFunction
<1>2. /\ Size(i) \in Nat /\ Size(i) >= Header /\ End(i) = stream[i].start + Size(i)
      /\ Size(j) \in Nat /\ Size(j) >= Header /\ End(j) = stream[j].start + Size(j)
      /\ stream[i].start \in Nat /\ stream[j].start \in Nat
      /\ Header \in Nat /\ Header > 0
  BY StreamEndRange, FramingAssumption
<1>3. j < i => End(j) <= stream[i].start
  BY DEF StreamInv
<1>4. QED
  BY <1>1, <1>2, <1>3

\* What is taken from the front of the buffer comes after all that was handed
\* over before, and before what stays.
LEMMA DeliverKeepsOrder ==
    ASSUME OrderInv, TypeOK', StreamInv', NEW f \in Headers, Deliver(f),
           UNCHANGED <<stream, received>>
    PROVE  OrderInv'
<1> DEFINE n == FrameLen(f)
           h == FrameAt(n)
<1>1. f \in Frames
  BY HeadersAreFrames DEF OrderInv
<1>2. /\ n \in Nat /\ n <= Len(rx) /\ Len(rx) \in Nat /\ received \in Nat
      /\ \A j \in 1 .. Len(rx) : rx[j] \in Nat
  BY <1>1, FrameLenRange DEF Deliver, Incomplete, OrderInv, TypeOK
<1>3. /\ Len(rx') = Len(rx) - n
      /\ \A j \in 1 .. Len(rx) - n : rx'[j] = rx[n + j]
  BY <1>1, RestOfBuffer DEF Deliver, OrderInv
<1>4. handed' = IF n = 0 THEN handed ELSE Append(handed, h)
  BY DEF Deliver
<1>5. h \in Nat /\ handed \in Seq(Nat) /\ Len(handed) \in Nat
  BY FrameAtRange DEF OrderInv, TypeOK
<1> HIDE DEF n, h
<1>6. /\ \A j \in 1 .. Len(rx) : rx[j] <= received
      /\ \A j, k \in 1 .. Len(rx) : j < k => rx[j] < rx[k]
  BY DEF OrderInv, Rising
<1>7. ASSUME NEW j \in 1 .. Len(rx')
      PROVE  n + j \in 1 .. Len(rx) /\ rx'[j] = rx[n + j] /\ n + j > n
  BY <1>2, <1>3
<1>8. Rising'
  <2>1. ASSUME NEW j \in 1 .. Len(rx') PROVE rx'[j] <= received'
    BY <1>6, <1>7
  <2>2. ASSUME NEW j \in 1 .. Len(rx'), NEW k \in 1 .. Len(rx'), j < k
        PROVE  rx'[j] < rx'[k]
    <3>1. n + j < n + k
      BY <1>2, <1>3, <2>2
    <3>2. QED
      BY <1>6, <1>7, <3>1
  <2>3. QED
    BY <2>1, <2>2 DEF Rising
<1>9. ASSUME NEW m \in 1 .. Len(handed), handed[m] # 0
      PROVE  /\ handed[m] \in DOMAIN stream
             /\ End(handed[m]) <= received
             /\ \A j \in 1 .. Len(rx) : End(handed[m]) < rx[j]
  BY <1>9 DEF OrderInv, Behind
<1>10. \A i : End(i)' = End(i)
  BY DEF End, Size
<1>11. CASE n = 0
  <2>1. handed' = handed
    BY <1>4, <1>11
  <2>2. Behind'
    BY <1>7, <1>9, <1>10, <2>1 DEF Behind
  <2>3. HandedInOrder'
    BY <2>1 DEF OrderInv, HandedInOrder
  <2>4. QED
    BY <1>8, <2>2, <2>3 DEF OrderInv
<1>12. CASE n # 0
  <2>1. /\ Len(handed') = Len(handed) + 1
        /\ \A m \in 1 .. Len(handed) : handed'[m] = handed[m]
        /\ handed'[Len(handed) + 1] = h
    BY <1>4, <1>5, <1>12, AppendProperties
  <2>2. 0 < n /\ n \in 1 .. Len(rx) /\ 1 \in 1 .. Len(rx)
    BY <1>2, <1>12
  <2>3. h # 0 => /\ h \in DOMAIN stream /\ End(h) = rx[n]
                 /\ stream[h].start + 1 = rx[1]
    BY <1>2, <2>2, FrontFrame DEF OrderInv, h
  <2>4. Behind'
    <3> SUFFICES ASSUME NEW m \in 1 .. Len(handed'), handed'[m] # 0
                 PROVE  /\ handed'[m] \in DOMAIN stream
                        /\ End(handed'[m]) <= received
                        /\ \A j \in 1 .. Len(rx') : End(handed'[m]) < rx'[j]
      BY <1>10 DEF Behind
    <3>1. CASE m \in 1 .. Len(handed)
      BY <1>7, <1>9, <2>1, <3>1
    <3>2. CASE m = Len(handed) + 1
      <4>1. handed'[m] = h /\ h # 0
        BY <2>1, <3>2
      <4>2. h \in DOMAIN stream /\ End(h) = rx[n]
        BY <2>3, <4>1
      <4>3. End(h) <= received
        BY <1>6, <2>2, <4>2
      <4>4. ASSUME NEW j \in 1 .. Len(rx') PROVE End(h) < rx'[j]
        BY <1>6, <1>7, <2>2, <4>2
      <4>5. QED
        BY <4>1, <4>2, <4>3, <4>4
    <3>3. QED
      BY <1>5, <2>1, <3>1, <3>2
  <2>5. HandedInOrder'
    <3> SUFFICES ASSUME NEW i \in 1 .. Len(handed'), NEW j \in 1 .. Len(handed'),
                        i < j, handed'[i] # 0, handed'[j] # 0
                 PROVE  handed'[i] < handed'[j]
      BY DEF HandedInOrder
    <3>1. i \in 1 .. Len(handed) /\ handed'[i] = handed[i]
      BY <1>5, <2>1
    <3>2. CASE j \in 1 .. Len(handed)
      BY <2>1, <3>1, <3>2 DEF OrderInv, HandedInOrder
    <3>3. CASE j = Len(handed) + 1
      <4>1. /\ h # 0 /\ handed'[j] = h /\ h \in DOMAIN stream
            /\ stream[h].start + 1 = rx[1]
        BY <2>1, <2>3, <3>3
      <4>2. handed[i] \in DOMAIN stream /\ End(handed[i]) < rx[1]
        BY <1>9, <2>2, <3>1
      <4>3. handed[i] < h
        BY <4>1, <4>2, EarlierFrame DEF OrderInv
      <4>4. QED
        BY <3>1, <4>1, <4>3
    <3>4. QED
      BY <1>5, <2>1, <3>2, <3>3
  <2>6. QED
    BY <1>8, <2>4, <2>5 DEF OrderInv
<1>13. QED
  BY <1>11, <1>12

\* A frame the vehicle adds lies behind those that were handed over.
LEMMA SendKeepsOrder ==
    ASSUME OrderInv, TypeOK', StreamInv', NEW f \in Frames, VehicleSends(f)
    PROVE  OrderInv'
<1>1. PICK l \in Nat : l = Len(stream) /\ DOMAIN stream = 1 .. l
  BY StreamIsFunction DEF OrderInv
<1>2. DOMAIN stream' = 1 .. l + 1 /\ \A i \in 1 .. l : stream'[i] = stream[i]
  <2>1. StreamEnd \in Nat /\ stream \in Seq([frame : Frames, start : Nat])
    BY StreamEndRange DEF OrderInv, TypeOK
  <2>2. PICK e \in [frame : Frames, start : Nat] : e = [frame |-> f, start |-> StreamEnd]
    BY <2>1
  <2>3. stream' = Append(stream, e)
    BY <2>2 DEF VehicleSends
  <2>4. stream' \in Seq([frame : Frames, start : Nat])
    BY <2>1, <2>3, AppendProperties
  <2>5. QED
    BY <1>1, <2>1, <2>3, <2>4, AppendProperties, LenProperties
<1>3. \A i \in 1 .. l : i \in DOMAIN stream' /\ End(i)' = End(i)
  BY <1>1, <1>2 DEF End, Size
<1>4. UNCHANGED <<received, rx, handed>>
  BY DEF VehicleSends
<1>5. Rising' /\ HandedInOrder'
  BY <1>4 DEF OrderInv, Rising, HandedInOrder
<1>6. Behind'
  BY <1>1, <1>3, <1>4 DEF OrderInv, Behind
<1>7. QED
  BY <1>5, <1>6 DEF OrderInv

LEMMA OrderStep == OrderInv /\ TypeOK' /\ [Next]_vars => OrderInv'
<1> SUFFICES ASSUME OrderInv, TypeOK', [Next]_vars PROVE OrderInv'
  OBVIOUS
<1>1. StreamInv'
  BY StreamKept DEF OrderInv
<1>2. ASSUME UNCHANGED <<stream, received, rx, handed>> PROVE OrderInv'
  BY <1>1, <1>2 DEF OrderInv, Rising, Behind, HandedInOrder, End, Size
<1>3. ASSUME NEW f \in Frames, VehicleSends(f) PROVE OrderInv'
  BY <1>1, <1>3, SendKeepsOrder
<1>4. ASSUME NEW k \in 1 .. MaxSegment, Receive(k) PROVE OrderInv'
  <2>1. CASE Drop
    <3>1. /\ received' = received + k /\ rx' = <<>> /\ UNCHANGED <<stream, handed>>
          /\ received \in Nat /\ k \in Nat
      BY <1>4, <2>1, FramingAssumption DEF Receive, Drop, OrderInv, TypeOK
    <3>2. Len(rx') = 0
      BY <3>1
    <3>3. Rising' /\ HandedInOrder'
      BY <3>1, <3>2 DEF OrderInv, Rising, HandedInOrder
    <3>4. Behind'
      <4> SUFFICES ASSUME NEW m \in 1 .. Len(handed), handed[m] # 0
                   PROVE  handed[m] \in DOMAIN stream /\ End(handed[m]) <= received'
        BY <3>1, <3>2 DEF Behind, End, Size
      <4>1. handed[m] \in DOMAIN stream /\ End(handed[m]) <= received
        BY DEF OrderInv, Behind
      <4>2. End(handed[m]) \in Nat
        BY <4>1, StreamEndRange DEF OrderInv
      <4>3. QED
        BY <3>1, <4>1, <4>2
    <3>5. QED
      BY <1>1, <3>3, <3>4 DEF OrderInv
  <2>2. CASE ~Drop
    BY <1>1, <1>4, <2>2, ReceiveKeepsOrder
  <2>3. QED
    BY <2>1, <2>2
<1>5. CASE SessionReset
  BY <1>1, <1>5, EmptyKeepsOrder DEF SessionReset, Drop
<1>6. CASE Reconnect
  <2>1. rx' = <<>> /\ handed' = <<>>
    BY <1>6 DEF Reconnect
  <2>2. Len(rx') = 0 /\ Len(handed') = 0
    BY <2>1
  <2>3. QED
    BY <1>1, <2>2 DEF OrderInv, Rising, Behind, HandedInOrder
<1>7. CASE LoopStep
  <2>1. UNCHANGED <<stream, received>>
    BY <1>7 DEF LoopStep
  <2>2. CASE NoHeaderYet \/ \E f \in Headers : WaitForMore(f)
    BY <1>2, <2>1, <2>2 DEF NoHeaderYet, WaitForMore
  <2>3. CASE \E f \in Headers : Refuse(f)
    BY <1>1, <2>1, <2>3, EmptyKeepsOrder DEF Refuse, Drop
  <2>4. CASE \E f \in Headers : Deliver(f)
    BY <1>1, <2>1, <2>4, DeliverKeepsOrder
  <2>5. QED
    BY <1>7, <2>2, <2>3, <2>4 DEF LoopStep
<1>8. CASE UNCHANGED vars
  BY <1>2, <1>8 DEF vars
<1>9. QED
  BY <1>3, <1>4, <1>5, <1>6, <1>7, <1>8 DEF Next

LEMMA OrderInit == Init => OrderInv
<1> SUFFICES ASSUME Init PROVE OrderInv
  OBVIOUS
<1>1. TypeOK /\ StreamInv
  BY SplitInit DEF SplitInv, BufferInv
<1>2. Len(rx) = 0 /\ Len(handed) = 0
  BY DEF Init
<1>3. QED
  BY <1>1, <1>2 DEF OrderInv, Rising, Behind, HandedInOrder

\* After a drop in the middle of a frame, and even after the count overflowed,
\* tcp_bufferPayload never gives the decoder a frame twice or after a later one.
THEOREM HandedInOrderHolds == Spec => []HandedInOrder
<1>1. OrderInv => HandedInOrder
  BY DEF OrderInv
<1>2. QED
  BY <1>1, OrderInit, OrderStep, TypeCorrect, PTL DEF Spec
=============================================================================
