--------------------------- MODULE FramingProofs ----------------------------
(***************************************************************************)
(* Proofs about Framing, for every size of header, buffer and kernel       *)
(* buffers, every set of message sizes and every window.                   *)
(***************************************************************************)
EXTENDS Framing, SequenceTheorems, TLAPS

-----------------------------------------------------------------------------
(* The stream, as long as it is intact: frames follow each other without   *)
(* a gap and the last one may still be growing.                            *)
End(i) == frames[i].start + HeaderSize + frames[i].size

StreamInv ==
  /\ \A i \in DOMAIN frames : frames[i].start = IF i = 1 THEN 0 ELSE End(i - 1)
  /\ \A i, j \in DOMAIN frames : i < j => frames[i].start < frames[j].start
  /\ frames = << >> => wr = 0
  /\ frames # << >> =>
       LET last == frames[Len(frames)] IN
         /\ last.body <= last.size
         /\ wr = last.start + HeaderSize + last.body
         /\ sending => last.body = 0

(* The position of the first byte that has not been consumed by a message. *)
NextByte == IF delivered = << >> THEN 0 ELSE End(Len(delivered))

(* The buffer holds the stream from there on.  The bytes of a call that    *)
(* got an error may be one short; the descriptor is removed after it.      *)
ReceiverInv ==
  /\ InOrder
  /\ rpc = "wait" =>
       /\ rd = NextByte + pos
       /\ \A j \in Index : j < pos => buf[j] = NextByte + j
  /\ rpc = "parse" =>
       /\ NextByte + got <= rd + cur
       /\ ~rdhup => NextByte + got = rd + cur
       /\ \A j \in Index : j < got => buf[j] + cur = NextByte + j

FramingInv == TypeOK /\ IndexBounds /\ (Intact => StreamInv /\ ReceiverInv)
-----------------------------------------------------------------------------
(* What FramingAssumption says, without the power of the radix.            *)
LEMMA ConstantsNat ==
  /\ HeaderSize \in Nat /\ HeaderSize > 0 /\ Capacity \in Nat /\ BufferSize \in Nat
  /\ Sizes \subseteq Nat /\ Garbage \subseteq Nat
BY FramingAssumption

(* The calls of send_data as a sequence of frames.                         *)
LEMMA FramesAre ==
  ASSUME TypeOK
  PROVE  /\ frames \in Seq(Frame)
         /\ Len(frames) \in Nat
         /\ DOMAIN frames = 1 .. Len(frames)
         /\ frames = << >> <=> Len(frames) = 0
         /\ \A i \in 1 .. Len(frames) :
              /\ frames[i] \in Frame
              /\ frames[i].start \in Nat /\ frames[i].size \in Nat
              /\ frames[i].hdr \in Nat /\ frames[i].body \in Nat
<1>1. frames \in Seq(Frame)
  BY DEF TypeOK
<1>2. /\ Len(frames) \in Nat /\ DOMAIN frames = 1 .. Len(frames)
      /\ frames = << >> <=> Len(frames) = 0
  BY <1>1, LenProperties, EmptySeq
<1>3. ASSUME NEW i \in 1 .. Len(frames) PROVE frames[i] \in Frame
  BY <1>1, ElementOfSeq
<1>4. \A f \in Frame : f.start \in Nat /\ f.size \in Nat /\ f.hdr \in Nat /\ f.body \in Nat
  BY DEF Frame
<1>5. QED
  BY <1>1, <1>2, <1>3, <1>4

(* strtol's result, as the code uses it, is a size.                        *)
LEMMA ReadSizeNat ==
  ASSUME TypeOK, NEW c \in Nat, NEW size \in ReadSize(c)
  PROVE  size \in Nat
<1>1. CASE \E m \in DOMAIN frames : IsHeader(c, m)
  <2>1. PICK m \in DOMAIN frames : size \in Printed(frames[m].size)
    BY <1>1 DEF ReadSize
  <2>2. frames[m].size \in Nat
    BY <2>1, FramesAre
  <2>3. QED
    BY <2>1, <2>2, FramingAssumption DEF Printed
<1>2. CASE ~ \E m \in DOMAIN frames : IsHeader(c, m)
  BY <1>2, ConstantsNat DEF ReadSize
<1>3. QED
  BY <1>1, <1>2

(* The space recv() and send() work with.                                  *)
LEMMA RoomNat ==
  ASSUME TypeOK
  PROVE  Free \in Nat /\ Free = Capacity - wr + rd /\ Unread \in Nat
BY ConstantsNat DEF TypeOK, Free, Unread

(* Type correctness and the bounds of the buffer, action by action.        *)
LEMMA InitBounds == Init => TypeOK /\ IndexBounds
<1> SUFFICES ASSUME Init PROVE TypeOK /\ IndexBounds
  OBVIOUS
<1>1. frames \in Seq(Frame) /\ delivered \in Seq(Seq(Int))
  BY EmptySeq DEF Init
<1>2. buf \in [Index -> Int]
  BY DEF Init, NulByte
<1>3. /\ rd \in Nat /\ arr \in Nat /\ wr \in Nat /\ pos \in Nat /\ got \in Nat /\ cur \in Nat
      /\ rd <= arr /\ arr <= wr /\ wr - rd <= Capacity
  BY ConstantsNat DEF Init
<1>4. /\ sending \in BOOLEAN /\ closed \in BOOLEAN /\ rdhup \in BOOLEAN /\ torn \in BOOLEAN
      /\ hup \in {"none", "fin", "rst"} /\ rpc \in {"wait", "parse", "removed"}
      /\ ~sending
  BY Zenon DEF Init
<1>5. TypeOK
  BY <1>1, <1>2, <1>3, <1>4 DEF TypeOK
<1>6. QED
  BY <1>5, ConstantsNat DEF Init, IndexBounds

LEMMA SendHeaderBounds ==
  ASSUME TypeOK, IndexBounds, NEW size \in Sizes, SendHeader(size)
  PROVE  TypeOK' /\ IndexBounds'
<1> DEFINE n == Least(HeaderSize, Free)
<1>1. n \in Nat /\ n <= Free
  BY RoomNat, ConstantsNat DEF Least
<1> DEFINE f == [start |-> wr, size |-> size, hdr |-> n, body |-> 0]
<1>2. f \in Frame
  BY <1>1, ConstantsNat DEF TypeOK, Frame
<1>3. /\ frames' = Append(frames, f) /\ wr' = wr + n /\ sending' = TRUE
      /\ UNCHANGED <<closed, arr, hup, rd, buf, pos, rpc, got, cur, rdhup, delivered, torn>>
  BY DEF SendHeader, link, loop
<1> HIDE DEF f
<1>4. frames' \in Seq(Frame) /\ frames' # << >>
  BY <1>2, <1>3, FramesAre, AppendProperties
<1> HIDE DEF n
<1>5. wr' \in Nat /\ arr <= wr' /\ wr' - rd <= Capacity
  <2>1. wr \in Nat /\ arr \in Nat /\ rd \in Nat /\ arr <= wr
    BY DEF TypeOK
  <2>2. n \in Nat /\ n <= Capacity - wr + rd /\ Capacity \in Nat
    BY <1>1, RoomNat, ConstantsNat
  <2> QED
    BY <1>3, <2>1, <2>2
<1>6. QED
  BY <1>3, <1>4, <1>5 DEF TypeOK, IndexBounds, Index

LEMMA SendPayloadBounds ==
  ASSUME TypeOK, IndexBounds, SendPayload
  PROVE  TypeOK' /\ IndexBounds'
<1> DEFINE i == Len(frames)
           n == IF closed THEN 0 ELSE Least(frames[i].size, Free)
<1>1. i \in DOMAIN frames /\ frames[i].size \in Nat
  <2>1. i \in Nat /\ i # 0
    BY FramesAre DEF SendPayload, TypeOK
  <2>2. QED
    BY <2>1, FramesAre
<1>2. n \in Nat /\ n <= Free
  BY <1>1, RoomNat DEF Least
<1>3. frames' = [frames EXCEPT ![i].body = n]
  BY DEF SendPayload
<1>4. /\ wr' = wr + n /\ sending' = FALSE
      /\ UNCHANGED <<closed, arr, hup, rd, buf, pos, rpc, got, cur, rdhup, delivered, torn>>
  BY DEF SendPayload, link, loop
<1>5. frames' \in Seq(Frame)
  <2> DEFINE f == [frames[i] EXCEPT !.body = n]
  <2>1. f \in Frame
    BY <1>1, <1>2, FramesAre DEF Frame
  <2>2. frames' = [frames EXCEPT ![i] = f]
    BY <1>3
  <2> HIDE DEF f, n, i
  <2>3. QED
    BY <1>1, <2>1, <2>2, FramesAre, ExceptSeq
<1> HIDE DEF n, i
<1>6. wr' \in Nat /\ arr <= wr' /\ wr' - rd <= Capacity
  BY <1>2, <1>4, RoomNat, ConstantsNat DEF TypeOK
<1>7. QED
  BY <1>4, <1>5, <1>6 DEF TypeOK, IndexBounds, Index

LEMMA RecvBounds ==
  ASSUME TypeOK, IndexBounds, Recv
  PROVE  TypeOK' /\ IndexBounds'
<1> DEFINE r == RecvResult
<1>0. BufferSize - pos \in Nat
  BY ConstantsNat DEF TypeOK, IndexBounds
<1>1. r \in Int /\ r <= BufferSize - pos /\ (r > 0 => r <= Unread)
  BY <1>0, RoomNat DEF RecvResult, Least
<1>2. /\ rdhup' = (hup # "none")
      /\ UNCHANGED <<frames, sending, closed, wr, arr, hup, delivered, torn>>
  BY DEF Recv, sender, link
<1>3. CASE r + pos <= 0
  <2>1. /\ pos' = 0 /\ rpc' \in {"wait", "removed"}
        /\ UNCHANGED <<rd, buf, got, cur>>
    BY <1>3 DEF Recv, Return
  <2>2. QED
    BY <1>2, <2>1, ConstantsNat DEF TypeOK, IndexBounds, Index
<1>4. CASE r + pos > 0
  <2>1. /\ rd' = IF r > 0 THEN rd + r ELSE rd
        /\ buf' = [j \in Index |-> IF pos <= j /\ j < pos + r THEN rd + (j - pos) ELSE buf[j]]
        /\ got' = pos + r /\ cur' = 0 /\ rpc' = "parse" /\ pos' = pos
    BY <1>1, <1>4 DEF Recv, TypeOK
  <2>2. rd' \in Nat /\ rd' <= arr /\ wr - rd' <= Capacity
    BY <1>1, <2>1, ConstantsNat DEF TypeOK, Unread
  <2>3. buf' \in [Index -> Int]
    BY <2>1, ConstantsNat DEF TypeOK, Index
  <2>4. got' \in Nat /\ got' <= BufferSize
    BY <1>1, <1>4, <2>1, ConstantsNat DEF TypeOK
  <2> HIDE DEF r
  <2>5. QED
    BY <1>2, <2>1, <2>2, <2>3, <2>4 DEF TypeOK, IndexBounds, Index
<1>5. QED
  BY <1>1, <1>3, <1>4 DEF TypeOK

LEMMA KeepBounds ==
  ASSUME TypeOK, IndexBounds, ShortHeader \/ Incomplete
  PROVE  TypeOK' /\ IndexBounds'
<1>1. /\ rpc = "parse" /\ cur < got
      /\ buf' = MovedToFront /\ rpc' \in {"wait", "removed"} /\ torn' \in BOOLEAN
      /\ pos' = got \/ pos' = got - cur
      /\ UNCHANGED <<frames, sending, closed, wr, arr, hup, rd, got, cur, rdhup, delivered>>
  BY DEF ShortHeader, Incomplete, Return, sender, link, TypeOK
<1>2. buf' \in [Index -> Int]
  BY <1>1, ConstantsNat DEF MovedToFront, TypeOK, IndexBounds, Index
<1>3. pos' \in Nat /\ pos' <= BufferSize
  BY <1>1, ConstantsNat DEF TypeOK, IndexBounds
<1>4. QED
  BY <1>1, <1>2, <1>3 DEF TypeOK, IndexBounds, Index

LEMMA CallbackBounds ==
  ASSUME TypeOK, IndexBounds, Callback
  PROVE  TypeOK' /\ IndexBounds'
<1>1. PICK size \in ReadSize(cur) :
        /\ got - cur - HeaderSize >= size
        /\ delivered' = Append(delivered, [j \in 1 .. size |-> buf[cur + HeaderSize + j - 1]])
        /\ cur' = cur + HeaderSize + size
  BY DEF Callback
<1>2. size \in Nat
  BY <1>1, ReadSizeNat DEF TypeOK
<1>3. /\ rpc = "parse"
      /\ UNCHANGED <<frames, sending, closed, wr, arr, hup, rd, buf, pos, rpc, got, rdhup, torn>>
  BY DEF Callback, sender, link
<1> DEFINE slice == [j \in 1 .. size |-> buf[cur + HeaderSize + j - 1]]
<1>4. slice \in Seq(Int)
  <2>1. \A j \in 1 .. size : buf[cur + HeaderSize + j - 1] \in Int
    BY <1>1, <1>2, <1>3, ConstantsNat DEF TypeOK, IndexBounds, Index
  <2>2. QED
    BY <1>2, <2>1
<1>5. delivered' \in Seq(Seq(Int))
  BY <1>1, <1>4 DEF TypeOK
<1>6. cur' \in Nat /\ cur' <= got
  BY <1>1, <1>2, ConstantsNat DEF TypeOK
<1> HIDE DEF slice
<1>7. QED
  BY <1>3, <1>5, <1>6 DEF TypeOK, IndexBounds, Index

LEMMA DrainedBounds ==
  ASSUME TypeOK, IndexBounds, Drained
  PROVE  TypeOK' /\ IndexBounds'
BY ConstantsNat DEF Drained, Return, sender, link, TypeOK, IndexBounds, Index, NulByte

LEMMA NetworkBounds ==
  ASSUME TypeOK, IndexBounds, CloseSender \/ Arrive \/ ArriveFin \/ ArriveReset
  PROVE  TypeOK' /\ IndexBounds'
<1>1. /\ UNCHANGED <<frames, sending, wr, rd, buf, pos, rpc, got, cur, rdhup, delivered, torn>>
      /\ closed' \in BOOLEAN /\ hup' \in {"none", "fin", "rst"}
  BY DEF CloseSender, Arrive, ArriveFin, ArriveReset, sender, link, loop, TypeOK
<1>2. arr' \in Nat /\ arr <= arr' /\ arr' <= wr
  BY DEF CloseSender, Arrive, ArriveFin, ArriveReset, sender, link, TypeOK
<1>3. QED
  BY <1>1, <1>2 DEF TypeOK, IndexBounds

LEMMA NextBounds == TypeOK /\ IndexBounds /\ [Next]_vars => TypeOK' /\ IndexBounds'
<1> SUFFICES ASSUME TypeOK, IndexBounds, [Next]_vars
             PROVE  TypeOK' /\ IndexBounds'
  OBVIOUS
<1>1. CASE UNCHANGED vars
  BY <1>1 DEF vars, sender, link, loop, TypeOK, IndexBounds, Index
<1>2. CASE Next
  BY <1>2, SendHeaderBounds, SendPayloadBounds, RecvBounds, KeepBounds, CallbackBounds,
     DrainedBounds, NetworkBounds DEF Next, OnData
<1>3. QED
  BY <1>1, <1>2

(* Type correctness of the framing.                                        *)
THEOREM FramingTypeOK == Spec => []TypeOK
<1>1. TypeOK /\ IndexBounds /\ [Next]_vars => TypeOK' /\ IndexBounds'
  BY NextBounds
<1>2. QED
  BY <1>1, InitBounds, PTL DEF Spec
-----------------------------------------------------------------------------
(* The payloads on_data_cb was called with, as a sequence.                 *)
LEMMA DeliveredAre ==
  ASSUME TypeOK
  PROVE  /\ delivered \in Seq(Seq(Int))
         /\ Len(delivered) \in Nat
         /\ DOMAIN delivered = 1 .. Len(delivered)
         /\ delivered = << >> <=> Len(delivered) = 0
<1>1. delivered \in Seq(Seq(Int))
  BY DEF TypeOK
<1>2. QED
  BY <1>1, LenProperties, EmptySeq

(* No more messages are delivered than were sent; where the next one is.   *)
LEMMA NextByteIs ==
  ASSUME TypeOK, InOrder, Intact, StreamInv
  PROVE  /\ Len(delivered) <= Len(frames)
         /\ NextByte \in Nat
         /\ Len(delivered) < Len(frames) => frames[Len(delivered) + 1].start = NextByte
<1>1. Len(delivered) <= Len(frames)
  <2>1. CASE Len(delivered) = 0
    BY <2>1, FramesAre
  <2>2. CASE Len(delivered) # 0
    <3>1. Len(delivered) \in DOMAIN delivered
      BY <2>2, DeliveredAre
    <3>2. Len(delivered) \in DOMAIN frames
      BY <3>1 DEF InOrder
    <3>3. QED
      BY <3>2, FramesAre
  <2>3. QED
    BY <2>1, <2>2
<1>2. NextByte \in Nat
  BY <1>1, FramesAre, DeliveredAre, ConstantsNat DEF NextByte, End
<1>3. ASSUME Len(delivered) < Len(frames)
      PROVE  frames[Len(delivered) + 1].start = NextByte
  <2>1. Len(delivered) + 1 \in DOMAIN frames
    BY <1>3, FramesAre, DeliveredAre
  <2>2. frames[Len(delivered) + 1].start
          = IF Len(delivered) + 1 = 1 THEN 0 ELSE End(Len(delivered) + 1 - 1)
    BY <2>1 DEF StreamInv
  <2>3. QED
    BY <2>2, DeliveredAre DEF NextByte
<1>4. QED
  BY <1>1, <1>2, <1>3

(* What the two halves of send_data do to the sequence of frames.          *)
LEMMA SendHeaderFrame ==
  ASSUME TypeOK, NEW size \in Sizes, SendHeader(size)
  PROVE  \E f \in Frame : /\ frames' = Append(frames, f)
                          /\ f.start = wr /\ f.size = size /\ f.body = 0
                          /\ wr' = wr + f.hdr
<1> DEFINE n == Least(HeaderSize, Free)
           f == [start |-> wr, size |-> size, hdr |-> n, body |-> 0]
<1>1. n \in Nat
  BY RoomNat, ConstantsNat DEF Least
<1>2. f \in Frame
  BY <1>1, ConstantsNat DEF TypeOK, Frame
<1>3. frames' = Append(frames, f) /\ wr' = wr + n
  BY DEF SendHeader
<1>4. QED
  BY <1>2, <1>3

LEMMA SendPayloadFrame ==
  ASSUME TypeOK, SendPayload
  PROVE  /\ Len(frames) > 0 /\ sending /\ Len(frames') = Len(frames)
         /\ DOMAIN frames' = DOMAIN frames
         /\ \A i \in DOMAIN frames : /\ frames'[i].start = frames[i].start
                                     /\ frames'[i].size = frames[i].size
                                     /\ frames'[i].hdr = frames[i].hdr
         /\ \A i \in 1 .. Len(frames) - 1 : frames'[i] = frames[i]
         /\ frames'[Len(frames)].body \in Nat
         /\ frames'[Len(frames)].body <= frames[Len(frames)].size
         /\ wr' = wr + frames'[Len(frames)].body
<1> DEFINE k == Len(frames)
           n == IF closed THEN 0 ELSE Least(frames[k].size, Free)
           f == [frames[k] EXCEPT !.body = n]
<1>1. k \in 1 .. Len(frames) /\ sending
  <2>1. k \in Nat /\ k # 0 /\ sending
    BY FramesAre DEF SendPayload, TypeOK
  <2>2. QED
    BY <2>1
<1>2. n \in Nat /\ n <= frames[k].size
  BY <1>1, FramesAre, RoomNat DEF Least
<1>3. f \in Frame /\ f.start = frames[k].start /\ f.size = frames[k].size
      /\ f.hdr = frames[k].hdr /\ f.body = n
  <2>1. frames[k] \in Frame
    BY <1>1, FramesAre
  <2> HIDE DEF n
  <2>2. QED
    BY <1>2, <2>1 DEF Frame
<1>14. frames' = [frames EXCEPT ![k] = f]
  BY DEF SendPayload
<1>15. wr' = wr + n
  BY DEF SendPayload
<1> HIDE DEF n, f
<1>5. /\ frames' \in Seq(Frame) /\ Len(frames') = Len(frames)
      /\ \A i \in 1 .. Len(frames) : frames'[i] = IF i = k THEN f ELSE frames[i]
  BY <1>1, <1>3, <1>14, FramesAre, ExceptSeq
<1>6. DOMAIN frames' = 1 .. Len(frames) /\ DOMAIN frames = 1 .. Len(frames)
  BY <1>5, FramesAre, LenProperties
<1>7. frames'[k] = f /\ k \in Nat
  BY <1>1, <1>5, FramesAre
<1>8. \A i \in 1 .. Len(frames) - 1 : frames'[i] = frames[i]
  BY <1>5, <1>7
<1>9. \A i \in DOMAIN frames : /\ frames'[i].start = frames[i].start
                              /\ frames'[i].size = frames[i].size
                              /\ frames'[i].hdr = frames[i].hdr
  BY <1>3, <1>5, <1>6
<1>10. /\ frames'[k].body \in Nat /\ frames'[k].body <= frames[k].size
       /\ wr' = wr + frames'[k].body
  BY <1>15, <1>2, <1>3, <1>7
<1>11. Len(frames) > 0
  BY <1>1, <1>7
<1>12. QED
  BY <1>1, <1>5, <1>6, <1>8, <1>9, <1>10, <1>11

(* What happened to the stream cannot be undone.                           *)
LEMMA IntactBefore ==
  ASSUME TypeOK, Next, Intact'
  PROVE  Intact
<1>1. CASE \E size \in Sizes : SendHeader(size)
  <2>1. PICK f \in Frame : frames' = Append(frames, f)
    BY <1>1, SendHeaderFrame
  <2>2. /\ Len(frames') = Len(frames) + 1
        /\ \A i \in 1 .. Len(frames) : frames'[i] = frames[i]
        /\ DOMAIN frames' = 1 .. Len(frames')
    BY <2>1, FramesAre, AppendProperties, LenProperties
  <2>3. torn' = torn
    BY <1>1 DEF SendHeader, loop
  <2>4. ~torn
    BY <2>3, Zenon DEF Intact
  <2>5. \A i \in 1 .. Len(frames') - 1 : WholeFrame(i)'
    BY DEF Intact
  <2>6. ASSUME NEW i \in 1 .. Len(frames)
        PROVE  WholeHeader(i) /\ WholeFrame(i)
    <3>1. frames'[i] = frames[i] /\ i \in 1 .. Len(frames') - 1
      BY <2>2, FramesAre
    <3>2. QED
      BY <2>5, <3>1 DEF WholeHeader, WholeFrame
  <2>7. QED
    BY <2>4, <2>6, FramesAre DEF Intact
<1>2. CASE SendPayload
  <2>1. /\ torn' = torn /\ Len(frames') = Len(frames)
        /\ DOMAIN frames' = DOMAIN frames
        /\ \A i \in DOMAIN frames : frames'[i].hdr = frames[i].hdr /\ frames'[i].size = frames[i].size
        /\ \A i \in 1 .. Len(frames) - 1 : frames'[i] = frames[i]
    BY <1>2, SendPayloadFrame DEF SendPayload, loop
  <2>2. QED
    BY <2>1, FramesAre DEF Intact, WholeFrame, WholeHeader
<1>3. CASE CloseSender \/ Arrive \/ ArriveFin \/ ArriveReset \/ OnData
  <2>1. UNCHANGED frames /\ (torn => torn')
    <3>1. UNCHANGED frames
      BY <1>3 DEF CloseSender, Arrive, ArriveFin, ArriveReset, OnData, Recv, ShortHeader,
                  Incomplete, Callback, Drained, sender, link, loop
    <3>2. torn => torn'
      BY <1>3, Zenon DEF CloseSender, Arrive, ArriveFin, ArriveReset, OnData, Recv, ShortHeader,
                  Incomplete, Callback, Drained, sender, link, loop
    <3>3. QED
      BY <3>1, <3>2
  <2>2. QED
    BY <2>1 DEF Intact, WholeFrame, WholeHeader
<1>4. QED
  BY <1>1, <1>2, <1>3 DEF Next

-----------------------------------------------------------------------------
(* The stream is laid out frame behind frame as long as it is intact.      *)
LEMMA SendHeaderStream ==
  ASSUME TypeOK, StreamInv, Intact', NEW size \in Sizes, SendHeader(size)
  PROVE  StreamInv'
<1> DEFINE k == Len(frames)
<1>1. PICK f \in Frame : /\ frames' = Append(frames, f)
                         /\ f.start = wr /\ f.size = size /\ f.body = 0
                         /\ wr' = wr + f.hdr
  BY SendHeaderFrame
<1>2. /\ Len(frames') = k + 1 /\ DOMAIN frames' = 1 .. k + 1
      /\ \A i \in 1 .. k : frames'[i] = frames[i]
      /\ frames'[k + 1] = f /\ k \in Nat /\ frames' # << >>
  BY <1>1, FramesAre, AppendProperties, LenProperties
<1>3. \A i \in 1 .. k + 1 : WholeHeader(i)'
  BY <1>2 DEF Intact
<1>4. \A i \in 1 .. k : WholeFrame(i)'
  BY <1>2 DEF Intact
<1>5. f.hdr = HeaderSize
  BY <1>2, <1>3 DEF WholeHeader
<1>6. \A i \in 1 .. k : frames[i].body = frames[i].size
  BY <1>2, <1>4 DEF WholeFrame
<1>7. wr = IF k = 0 THEN 0 ELSE End(k)
  BY <1>6, FramesAre DEF StreamInv, End
<1>8. \A i \in 1 .. k : End(i)' = End(i)
  BY <1>2 DEF End
<1>9. ASSUME NEW i \in 1 .. k + 1
      PROVE  frames'[i].start = IF i = 1 THEN 0 ELSE End(i - 1)'
  <2>1. CASE i = k + 1
    BY <1>1, <1>2, <1>7, <1>8, <2>1
  <2>2. CASE i \in 1 .. k
    BY <1>2, <1>8, <2>2, FramesAre DEF StreamInv
  <2>3. QED
    BY <1>2, <2>1, <2>2
<1> DEFINE Rising == \A i, j \in 1 .. k : i < j => frames[i].start < frames[j].start
<1>13. Rising /\ \A i \in 1 .. k : frames[i].start \in Nat
  BY FramesAre DEF StreamInv
<1>10. ASSUME NEW i \in 1 .. k + 1, NEW j \in 1 .. k + 1, i < j
       PROVE  frames'[i].start < frames'[j].start
  <2>1. i \in 1 .. k
    BY <1>2, <1>10
  <2>2. CASE j = k + 1
    <3>1. frames[i].start <= frames[k].start
      <4>1. k \in 1 .. k /\ (i < k \/ i = k)
        BY <1>2, <2>1
      <4>2. QED
        BY <1>13, <2>1, <4>1
    <3>2. frames[k].start < End(k) /\ k # 0
      BY <2>1, <1>2, FramesAre, ConstantsNat DEF End
    <3>3. frames'[i].start = frames[i].start /\ frames'[j].start = wr
      BY <1>1, <1>2, <2>1, <2>2
    <3>4. wr = End(k) /\ End(k) \in Int /\ frames[i].start \in Int /\ frames[k].start \in Int
      BY <1>2, <1>7, <2>1, <3>2, FramesAre, ConstantsNat DEF End
    <3>5. QED
      BY <3>1, <3>2, <3>3, <3>4
  <2>3. CASE j \in 1 .. k
    BY <1>2, <1>13, <1>10, <2>1, <2>3
  <2>4. QED
    BY <1>2, <2>2, <2>3
<1>11. /\ f.body <= f.size
       /\ wr' = f.start + HeaderSize + f.body
       /\ f.body = 0
  BY <1>1, <1>5, ConstantsNat DEF TypeOK
<1>12. QED
  BY <1>2, <1>9, <1>10, <1>11 DEF StreamInv

LEMMA SendPayloadStream ==
  ASSUME TypeOK, StreamInv, Intact, SendPayload
  PROVE  StreamInv'
<1> DEFINE k == Len(frames)
<1>1. /\ k \in Nat /\ k > 0 /\ sending /\ Len(frames') = k
      /\ DOMAIN frames = 1 .. k /\ DOMAIN frames' = 1 .. k
  BY FramesAre, SendPayloadFrame
<1>2. \A i \in 1 .. k : /\ frames'[i].start = frames[i].start
                        /\ frames'[i].size = frames[i].size
  BY <1>1, SendPayloadFrame
<1>3. \A i \in 1 .. k : End(i)' = End(i)
  BY <1>2 DEF End
<1>4. \A i \in 1 .. k : frames'[i].start = IF i = 1 THEN 0 ELSE End(i - 1)'
  BY <1>1, <1>2, <1>3 DEF StreamInv
<1>5. \A i, j \in 1 .. k : i < j => frames'[i].start < frames'[j].start
  BY <1>1, <1>2 DEF StreamInv
<1>6. wr = frames[k].start + HeaderSize
  <2>1. frames # << >> /\ k \in 1 .. Len(frames)
    BY <1>1, FramesAre
  <2>2. frames[k].body = 0 /\ wr = frames[k].start + HeaderSize + frames[k].body
    BY <1>1, <2>1 DEF StreamInv
  <2>3. QED
    BY <2>1, <2>2, FramesAre, ConstantsNat
<1>7. /\ frames'[k].body <= frames'[k].size
      /\ wr' = frames'[k].start + HeaderSize + frames'[k].body
  <2>1. /\ frames'[k].body <= frames[k].size
        /\ wr' = wr + frames'[k].body
    BY SendPayloadFrame
  <2>2. QED
    BY <1>1, <1>2, <1>6, <2>1
<1>8. ~sending' /\ frames' # << >>
  <2>1. ~sending'
    BY DEF SendPayload
  <2>2. frames' # << >>
    BY <1>1
  <2>3. QED
    BY <2>1, <2>2
<1>9. QED
  BY <1>1, <1>4, <1>5, <1>7, <1>8 DEF StreamInv

(* The receiver does not notice what the sender does.                      *)
LEMMA SenderReceiver ==
  ASSUME TypeOK, Intact, StreamInv, ReceiverInv, UNCHANGED loop,
         Len(frames') \in Nat, Len(frames) <= Len(frames'), DOMAIN frames' = 1 .. Len(frames'),
         \A i \in 1 .. Len(frames) : /\ frames'[i].start = frames[i].start
                                    /\ frames'[i].size = frames[i].size
  PROVE  ReceiverInv'
<1>1. /\ delivered' = delivered
      /\ UNCHANGED <<rd, pos, buf, rpc, got, cur, rdhup>>
  BY DEF loop
<1>2. InOrder
  BY DEF ReceiverInv
<1>3. Len(delivered) <= Len(frames) /\ Len(frames) \in Nat /\ Len(delivered) \in Nat
  BY <1>2, NextByteIs, FramesAre, DeliveredAre
<1>4. \A i \in 1 .. Len(frames) : End(i)' = End(i) /\ Payload(i)' = Payload(i)
  BY DEF End, Payload
<1>5. InOrder'
  BY <1>1, <1>2, <1>3, <1>4, DeliveredAre DEF InOrder
<1>6. NextByte' = NextByte
  BY <1>1, <1>3, <1>4, DeliveredAre DEF NextByte
<1>7. QED
  BY <1>1, <1>5, <1>6 DEF ReceiverInv, Index

-----------------------------------------------------------------------------
(* The receiver's side of the stream: what is known of the buffer while    *)
(* the loop of on_data is in it.                                           *)
LEMMA Parsing ==
  ASSUME TypeOK, IndexBounds, ReceiverInv, rpc = "parse", NextByte \in Nat
  PROVE  /\ InOrder
         /\ cur \in Nat /\ got \in Nat /\ cur <= got /\ got <= BufferSize
         /\ NextByte + got <= rd + cur
         /\ ~rdhup => NextByte + got = rd + cur
         /\ \A j \in 0 .. got - 1 : j \in Index /\ buf[j] + cur = NextByte + j
         /\ \A j \in Index : buf[j] \in Int
BY ConstantsNat DEF TypeOK, IndexBounds, ReceiverInv, Index

(* Bytes kept for the next call of on_data are the ones not consumed.      *)
LEMMA KeptReceiver ==
  ASSUME TypeOK, IndexBounds, ReceiverInv, rpc = "parse", NextByte \in Nat,
         UNCHANGED <<frames, delivered, rd>>,
         buf' = MovedToFront, pos' = got - cur, Return(rdhup)
  PROVE  ReceiverInv'
<1>1. InOrder' /\ NextByte' = NextByte
  BY Parsing DEF InOrder, Payload, NextByte, End
<1>2. rpc' # "parse" /\ (rpc' = "wait" => ~rdhup)
  BY DEF Return
<1>3. rpc' = "wait" => rd' = NextByte + pos'
  BY <1>2, Parsing DEF TypeOK
<1>4. ASSUME NEW j \in Index, j < pos'
      PROVE  buf'[j] = NextByte + j
  <2>1. j \in Nat /\ j < got - cur /\ cur + j \in 0 .. got - 1
    BY <1>4, Parsing, ConstantsNat DEF Index
  <2>2. buf'[j] = buf[cur + j]
    BY <2>1 DEF MovedToFront
  <2>3. QED
    BY <2>1, <2>2, Parsing
<1>5. QED
  BY <1>1, <1>2, <1>3, <1>4 DEF ReceiverInv, Index

LEMMA RecvReceiver ==
  ASSUME TypeOK, IndexBounds, ReceiverInv, NextByte \in Nat, Recv
  PROVE  ReceiverInv'
<1> DEFINE r == RecvResult
<1>1. /\ rpc = "wait" /\ rdhup' = (hup # "none") /\ UNCHANGED <<frames, delivered>>
  BY DEF Recv, sender
<1>2. InOrder' /\ NextByte' = NextByte
  BY <1>1 DEF ReceiverInv, InOrder, Payload, NextByte, End
<1>3. /\ rd = NextByte + pos /\ pos \in Nat /\ rd \in Nat /\ pos <= BufferSize
      /\ \A j \in Index : j < pos => buf[j] = NextByte + j
  BY <1>1 DEF ReceiverInv, TypeOK, IndexBounds
<1>4. /\ r \in Int /\ r <= BufferSize - pos /\ -1 <= r
      /\ r = -1 => hup = "rst"
  BY <1>3, RoomNat, ConstantsNat DEF RecvResult, Least
<1>5. CASE r + pos <= 0
  <2>1. pos' = 0 /\ Return(hup # "none") /\ rd' = rd
    BY <1>5 DEF Recv
  <2>2. rpc' = "wait" => pos = 0
    BY <1>3, <1>4, <1>5, <2>1 DEF Return
  <2>3. rpc' # "parse"
    BY <2>1 DEF Return
  <2>4. \A j \in Index : ~(j < 0)
    BY ConstantsNat DEF Index
  <2> HIDE DEF r
  <2>5. QED
    BY <1>2, <1>3, <2>1, <2>2, <2>3, <2>4 DEF ReceiverInv, Index
<1>6. CASE r + pos > 0
  <2>1. /\ rd' = IF r > 0 THEN rd + r ELSE rd
        /\ buf' = [j \in Index |-> IF pos <= j /\ j < pos + r THEN rd + (j - pos) ELSE buf[j]]
        /\ got' = pos + r /\ cur' = 0 /\ rpc' = "parse"
    BY <1>3, <1>4, <1>6 DEF Recv
  <2> HIDE DEF r
  <2>2. NextByte + got' <= rd' + cur'
    BY <1>3, <1>4, <2>1
  <2>3. ~rdhup' => NextByte + got' = rd' + cur'
    <3>0. ~rdhup' => hup = "none"
      BY <1>1, Zenon
    <3>1. ~rdhup' => r >= 0
      BY <3>0, <1>4
    <3>2. r >= 0 => NextByte + got' = rd' + cur'
      BY <1>3, <1>4, <2>1
    <3>3. QED
      BY <3>1, <3>2
  <2>4. ASSUME NEW j \in Index, j < got'
        PROVE  buf'[j] + cur' = NextByte + j
    <3>1. j \in Nat
      BY ConstantsNat DEF Index
    <3>2. buf'[j] = NextByte + j
      BY <1>3, <1>4, <2>1, <2>4, <3>1
    <3>3. QED
      BY <2>1, <3>1, <3>2
  <2>5. rpc' # "wait"
    BY <2>1
  <2>6. QED
    BY <1>2, <2>2, <2>3, <2>4, <2>5 DEF ReceiverInv, Index
<1>7. QED
  BY <1>3, <1>4, <1>5, <1>6

LEMMA DrainedReceiver ==
  ASSUME TypeOK, IndexBounds, ReceiverInv, NextByte \in Nat, Drained
  PROVE  ReceiverInv'
<1>1. /\ rpc = "parse" /\ cur >= got /\ pos' = 0 /\ Return(rdhup)
      /\ UNCHANGED <<frames, delivered, rd>>
  BY DEF Drained, sender
<1>2. InOrder' /\ NextByte' = NextByte
  BY <1>1, Parsing DEF InOrder, Payload, NextByte, End
<1>3. rpc' # "parse" /\ (rpc' = "wait" => ~rdhup)
  BY <1>1 DEF Return
<1>4. rpc' = "wait" => rd' = NextByte + pos'
  <2>1. rpc' = "wait" => NextByte + got = rd + cur
    BY <1>1, <1>3, Parsing
  <2>2. cur = got /\ got \in Nat /\ rd \in Nat
    BY <1>1, Parsing DEF TypeOK
  <2>3. QED
    BY <1>1, <2>1, <2>2
<1>5. \A j \in Index : ~(j < 0)
  BY ConstantsNat DEF Index
<1>6. QED
  BY <1>1, <1>2, <1>3, <1>4, <1>5 DEF ReceiverInv, Index

(* The heart of the argument: the bytes at current_pos are the next        *)
(* message's, and the first of them its header.                            *)
LEMMA HeaderComes ==
  ASSUME TypeOK, IndexBounds, Intact, StreamInv, ReceiverInv,
         rpc = "parse", got - cur >= HeaderSize
  PROVE  LET k == Len(delivered) + 1 IN
           /\ Len(delivered) < Len(frames) /\ k \in 1 .. Len(frames)
           /\ frames[k].start = NextByte /\ frames[k].size \in Nat
           /\ \A j \in 0 .. got - cur - 1 : buf[cur + j] = NextByte + j
           /\ IsHeader(cur, k)
<1> DEFINE n == Len(delivered)
           k == n + 1
<1>2. rpc = "parse" /\ got - cur >= HeaderSize
  OBVIOUS
<1>3. /\ n \in Nat /\ n <= Len(frames) /\ NextByte \in Nat
      /\ n < Len(frames) => frames[k].start = NextByte
  BY NextByteIs, DeliveredAre DEF ReceiverInv
<1>5. n < Len(frames)
  <2>1. NextByte + HeaderSize <= wr
    BY <1>2, <1>3, Parsing, ConstantsNat DEF TypeOK
  <2>2. CASE Len(frames) = 0
    BY <1>3, <2>1, <2>2, FramesAre, ConstantsNat DEF StreamInv
  <2>3. CASE Len(frames) # 0 /\ n = Len(frames)
    <3>1. NextByte = End(n) /\ n \in 1 .. Len(frames)
      BY <1>3, <2>3, DeliveredAre DEF NextByte
    <3>2. wr <= End(n)
      BY <2>3, <3>1, FramesAre, ConstantsNat DEF StreamInv, End
    <3>3. QED
      BY <1>3, <2>1, <3>1, <3>2, ConstantsNat DEF TypeOK
  <2>4. QED
    BY <1>3, <2>2, <2>3, FramesAre
<1>6. k \in 1 .. Len(frames) /\ frames[k].start = NextByte /\ frames[k].size \in Nat
  BY <1>3, <1>5, FramesAre
<1>7. \A j \in 0 .. got - cur - 1 : buf[cur + j] = NextByte + j
  <2>1. ASSUME NEW j \in 0 .. got - cur - 1
        PROVE  buf[cur + j] = NextByte + j
    <3>1. /\ cur + j \in 0 .. got - 1 /\ j \in Nat /\ cur \in Nat
      BY <1>2, <1>3, Parsing
    <3>2. buf[cur + j] + cur = NextByte + (cur + j) /\ buf[cur + j] \in Int
      BY <1>2, <1>3, <3>1, Parsing
    <3>3. QED
      BY <1>3, <3>1, <3>2
  <2>2. QED
    BY <2>1
<1>8. IsHeader(cur, k)
  <2>1. frames[k].hdr = HeaderSize
    BY <1>6, FramesAre DEF Intact, WholeHeader
  <2>2. \A j \in 0 .. HeaderSize - 1 : buf[cur + j] = frames[k].start + j
    <3>1. \A j \in 0 .. HeaderSize - 1 : j \in 0 .. got - cur - 1
      BY <1>2, <1>3, Parsing, ConstantsNat
    <3>2. QED
      BY <1>6, <1>7, <3>1
  <2>3. QED
    BY <2>1, <2>2 DEF IsHeader
<1>9. QED
  BY <1>5, <1>6, <1>7, <1>8

(* No other frame's header can stand there, so what is cut out is the next *)
(* message.                                                                *)
LEMMA CallbackReceiver ==
  ASSUME TypeOK, IndexBounds, Intact, StreamInv, ReceiverInv, Callback
  PROVE  ReceiverInv' /\ Len(delivered) < Len(frames)
<1> DEFINE n == Len(delivered)
           k == n + 1
<1>1. PICK size \in ReadSize(cur) :
        /\ got - cur - HeaderSize >= size
        /\ delivered' = Append(delivered, [j \in 1 .. size |-> buf[cur + HeaderSize + j - 1]])
        /\ cur' = cur + HeaderSize + size
  BY DEF Callback
<1>2. /\ rpc = "parse" /\ got - cur >= HeaderSize
      /\ UNCHANGED <<frames, rd, buf, rpc, got, rdhup>>
  BY DEF Callback, sender
<1>3. /\ n \in Nat /\ n <= Len(frames) /\ NextByte \in Nat
      /\ n < Len(frames) => frames[k].start = NextByte
  BY NextByteIs, DeliveredAre DEF ReceiverInv
<1>4. size \in Nat
  BY <1>1, ReadSizeNat DEF TypeOK
<1>5. /\ n < Len(frames) /\ k \in 1 .. Len(frames)
      /\ frames[k].start = NextByte /\ frames[k].size \in Nat
      /\ \A j \in 0 .. got - cur - 1 : buf[cur + j] = NextByte + j
      /\ IsHeader(cur, k)
  BY <1>2, HeaderComes
<1>6. k \in 1 .. Len(frames) /\ frames[k].start = NextByte /\ frames[k].size \in Nat
  BY <1>5
<1>7. \A j \in 0 .. got - cur - 1 : buf[cur + j] = NextByte + j
  BY <1>5
<1>8. IsHeader(cur, k)
  BY <1>5
<1>9. \A m \in 1 .. Len(frames) : IsHeader(cur, m) => m = k
  <2>1. ASSUME NEW m \in 1 .. Len(frames), IsHeader(cur, m)
        PROVE  m = k
    <3>1. buf[cur + 0] = frames[m].start + 0 /\ buf[cur + 0] = frames[k].start + 0
      BY <1>8, <2>1, ConstantsNat DEF IsHeader
    <3>2. frames[m].start = frames[k].start
      BY <1>6, <3>1, FramesAre
    <3>3. /\ m < k => frames[m].start < frames[k].start
          /\ k < m => frames[k].start < frames[m].start
      BY <1>6, FramesAre DEF StreamInv
    <3>4. QED
      BY <1>3, <1>6, <3>2, <3>3, FramesAre
  <2>2. QED
    BY <2>1
<1>10. size = frames[k].size
  <2>1. ReadSize(cur) = UNION {Printed(frames[m].size) :
                                 m \in {i \in DOMAIN frames : IsHeader(cur, i)}}
    BY <1>6, <1>8, FramesAre DEF ReadSize
  <2>2. {i \in DOMAIN frames : IsHeader(cur, i)} = {k}
    BY <1>6, <1>8, <1>9, FramesAre
  <2>3. ReadSize(cur) = Printed(frames[k].size)
    BY <2>1, <2>2
  <2>4. Printed(frames[k].size) = {frames[k].size}
    BY <1>6, FramesAre DEF Intact, WholeHeader
  <2>5. QED
    BY <1>1, <2>3, <2>4
<1> DEFINE slice == [j \in 1 .. size |-> buf[cur + HeaderSize + j - 1]]
<1>11. slice = Payload(k)
  <2>1. ASSUME NEW j \in 1 .. size
        PROVE  buf[cur + HeaderSize + j - 1] = frames[k].start + HeaderSize + j - 1
    <3>1. /\ HeaderSize + j - 1 \in 0 .. got - cur - 1 /\ cur \in Nat
          /\ cur + HeaderSize + j - 1 = cur + (HeaderSize + j - 1)
      <4>1. cur \in Nat /\ got \in Nat /\ cur <= got
        BY <1>2, <1>3, Parsing
      <4>2. HeaderSize + size <= got - cur /\ HeaderSize \in Nat /\ HeaderSize > 0
        BY <1>1, <1>4, <4>1, ConstantsNat
      <4> QED
        BY <1>4, <4>1, <4>2
    <3>2. buf[cur + (HeaderSize + j - 1)] = NextByte + (HeaderSize + j - 1)
      BY <1>7, <3>1
    <3>3. QED
      BY <1>3, <1>6, <3>1, <3>2, ConstantsNat
  <2>2. QED
    BY <1>10, <2>1 DEF Payload
<1>12. /\ Len(delivered') = k /\ DOMAIN delivered' = 1 .. k
       /\ \A i \in 1 .. n : delivered'[i] = delivered[i]
       /\ delivered'[k] = Payload(k)
  <2>1. delivered' = Append(delivered, Payload(k))
    BY <1>1, <1>11
  <2>2. slice \in Seq(Int)
    <3>1. ASSUME NEW j \in 1 .. size
          PROVE  buf[cur + HeaderSize + j - 1] \in Int
      <4>1. /\ cur \in Nat /\ got \in Nat /\ got <= BufferSize
            /\ \A i \in Index : buf[i] \in Int
        BY <1>2, <1>3, Parsing
      <4>2. HeaderSize + size <= got - cur /\ HeaderSize \in Nat /\ HeaderSize > 0
        BY <1>1, <1>2, <1>4, <4>1, ConstantsNat
      <4>3. cur + HeaderSize + j - 1 \in Index
        BY <1>4, <4>1, <4>2, ConstantsNat DEF Index
      <4> QED
        BY <4>1, <4>3
    <3>2. QED
      BY <1>4, <3>1
  <2> HIDE DEF slice
  <2>3. QED
    BY <1>11, <2>1, <2>2, DeliveredAre, AppendProperties, LenProperties
<1>13. InOrder'
  <2>1. \A i \in 1 .. n : i \in DOMAIN frames /\ delivered[i] = Payload(i)
    <3>1. InOrder
      BY DEF ReceiverInv
    <3> QED
      BY <3>1, DeliveredAre DEF InOrder
  <2>2. \A i \in 1 .. k : i \in DOMAIN frames /\ delivered'[i] = Payload(i)
    BY <1>3, <1>6, <1>12, <2>1, FramesAre
  <2>3. QED
    BY <1>2, <1>12, <2>2 DEF InOrder, Payload
<1>14. NextByte' = NextByte + HeaderSize + frames[k].size
  <2>1. delivered' # << >>
    BY <1>3, <1>12
  <2>2. NextByte' = End(k)
    BY <1>2, <1>12, <2>1 DEF NextByte, End
  <2>3. QED
    BY <1>6, <2>2 DEF End
<1> DEFINE step == HeaderSize + frames[k].size
<1>15. /\ NextByte' = NextByte + step /\ cur' = cur + step /\ step \in Nat
       /\ NextByte \in Nat /\ cur \in Nat /\ got \in Nat /\ rd \in Nat
  <2>1. step \in Nat
    BY <1>6, ConstantsNat
  <2>2. cur \in Nat /\ got \in Nat /\ rd \in Nat /\ NextByte \in Nat
    BY <1>3 DEF TypeOK
  <2>3. NextByte' = NextByte + step
    BY <1>3, <1>6, <1>14, ConstantsNat
  <2>4. cur' = cur + step
    <3>1. cur' = cur + HeaderSize + frames[k].size
      BY <1>1, <1>10
    <3>2. QED
      BY <1>6, <2>2, <3>1, ConstantsNat
  <2>5. QED
    BY <2>1, <2>2, <2>3, <2>4
<1> HIDE DEF step
<1>16. /\ NextByte' + got <= rd + cur'
       /\ ~rdhup => NextByte' + got = rd + cur'
  <2>1. /\ NextByte + got <= rd + cur
        /\ ~rdhup => NextByte + got = rd + cur
    BY <1>2, <1>3, Parsing
  <2>2. QED
    BY <1>15, <2>1
<1>17. ASSUME NEW j \in Index, j < got
       PROVE  buf[j] + cur' = NextByte' + j
  <2>1. j \in 0 .. got - 1 /\ j \in Nat /\ buf[j] \in Int
    BY <1>2, <1>3, <1>17, Parsing, ConstantsNat DEF Index
  <2>2. buf[j] + cur = NextByte + j
    BY <1>2, <1>3, <2>1, Parsing
  <2>3. QED
    BY <1>15, <2>1, <2>2
<1>18. QED
  BY <1>2, <1>5, <1>13, <1>16, <1>17 DEF ReceiverInv, Index

-----------------------------------------------------------------------------
(* The strengthened invariant holds at first and is preserved by each step. *)
LEMMA InitFraming == Init => FramingInv
<1> SUFFICES ASSUME Init PROVE FramingInv
  OBVIOUS
<1>1. TypeOK /\ IndexBounds
  BY InitBounds
<1>2. frames = << >> /\ delivered = << >> /\ wr = 0 /\ rd = 0 /\ pos = 0 /\ rpc = "wait"
  BY DEF Init
<1>3. DOMAIN frames = {} /\ DOMAIN delivered = {}
  BY <1>1, <1>2, FramesAre, DeliveredAre
<1>4. StreamInv
  BY <1>2, <1>3 DEF StreamInv
<1>5. InOrder /\ NextByte = 0
  BY <1>2, <1>3 DEF InOrder, NextByte
<1>6. \A j \in Index : ~(j < 0)
  BY ConstantsNat DEF Index
<1>7. ReceiverInv
  BY <1>2, <1>5, <1>6 DEF ReceiverInv
<1>8. QED
  BY <1>1, <1>4, <1>7 DEF FramingInv

LEMMA NextStream ==
  ASSUME TypeOK, IndexBounds, Intact, Intact', StreamInv, ReceiverInv, Next
  PROVE  StreamInv' /\ ReceiverInv'
<1>0. NextByte \in Nat
  BY NextByteIs DEF ReceiverInv
<1>1. ASSUME NEW size \in Sizes, SendHeader(size)
      PROVE  StreamInv' /\ ReceiverInv'
  <2>1. StreamInv'
    BY <1>1, SendHeaderStream
  <2>2. PICK f \in Frame : frames' = Append(frames, f)
    BY <1>1, SendHeaderFrame
  <2>3. /\ Len(frames') = Len(frames) + 1 /\ DOMAIN frames' = 1 .. Len(frames')
        /\ \A i \in 1 .. Len(frames) : frames'[i] = frames[i]
        /\ Len(frames) \in Nat
    BY <2>2, FramesAre, AppendProperties, LenProperties
  <2>4. UNCHANGED loop
    BY <1>1 DEF SendHeader
  <2>5. QED
    BY <2>1, <2>3, <2>4, SenderReceiver
<1>2. CASE SendPayload
  <2>1. StreamInv'
    BY <1>2, SendPayloadStream
  <2>2. UNCHANGED loop
    BY <1>2 DEF SendPayload
  <2>3. QED
    BY <1>2, <2>1, <2>2, SendPayloadFrame, SenderReceiver, FramesAre
<1>3. CASE CloseSender \/ Arrive \/ ArriveFin \/ ArriveReset
  <2>1. UNCHANGED <<frames, sending, wr>> /\ UNCHANGED loop
    BY <1>3 DEF CloseSender, Arrive, ArriveFin, ArriveReset, sender
  <2>2. StreamInv'
    BY <2>1 DEF StreamInv, End
  <2>3. QED
    BY <2>1, <2>2, SenderReceiver, FramesAre
<1>4. CASE OnData
  <2>1. UNCHANGED sender
    BY <1>4 DEF OnData, Recv, ShortHeader, Incomplete, Callback, Drained
  <2>2. StreamInv'
    BY <2>1 DEF sender, StreamInv, End
  <2>3. CASE Recv
    BY <1>0, <2>2, <2>3, RecvReceiver
  <2>4. CASE ShortHeader
    <3>1. /\ rpc = "parse" /\ buf' = MovedToFront /\ pos' = got /\ Return(rdhup)
          /\ UNCHANGED <<frames, delivered, rd>>
      BY <2>4 DEF ShortHeader, sender
    <3>2. cur = 0
      <4>1. ~(cur > 0)
        BY <2>4, Zenon DEF ShortHeader, Intact
      <4>2. QED
        BY <4>1 DEF TypeOK
    <3>3. pos' = got - cur
      BY <3>1, <3>2 DEF TypeOK
    <3>4. QED
      BY <1>0, <2>2, <3>1, <3>3, KeptReceiver
  <2>5. CASE Incomplete
    <3>1. /\ rpc = "parse" /\ buf' = MovedToFront /\ pos' = got - cur /\ Return(rdhup)
          /\ UNCHANGED <<frames, delivered, rd>>
      BY <2>5 DEF Incomplete, sender
    <3>2. QED
      BY <1>0, <2>2, <3>1, KeptReceiver
  <2>6. CASE Callback
    BY <2>2, <2>6, CallbackReceiver
  <2>7. CASE Drained
    BY <1>0, <2>2, <2>7, DrainedReceiver
  <2>8. QED
    BY <1>4, <2>3, <2>4, <2>5, <2>6, <2>7 DEF OnData
<1>5. QED
  BY <1>1, <1>2, <1>3, <1>4 DEF Next

LEMMA NextFraming == FramingInv /\ [Next]_vars => FramingInv'
<1> SUFFICES ASSUME FramingInv, [Next]_vars PROVE FramingInv'
  OBVIOUS
<1>1. TypeOK /\ IndexBounds /\ TypeOK' /\ IndexBounds'
  BY NextBounds DEF FramingInv
<1>2. CASE Next
  <2>1. Intact' => Intact
    BY <1>1, <1>2, IntactBefore
  <2>2. Intact' => StreamInv' /\ ReceiverInv'
    BY <1>1, <1>2, <2>1, NextStream DEF FramingInv
  <2>3. QED
    BY <1>1, <2>2 DEF FramingInv
<1>3. CASE UNCHANGED vars
  BY <1>1, <1>3 DEF FramingInv, vars, sender, link, loop, Intact, WholeFrame, WholeHeader,
     StreamInv, ReceiverInv, NextByte, End, InOrder, Payload
<1>4. QED
  BY <1>2, <1>3

(* While the stream is intact its frames lie one behind the other and the  *)
(* buffer holds it from the first byte no message has consumed: the        *)
(* inductive invariant from which what on_data_cb gets follows.            *)
THEOREM FramingInvariant == Spec => []FramingInv
BY InitFraming, NextFraming, PTL DEF Spec

(* on_data never copies or hands out anything outside the receive buffer   *)
(* or beyond the bytes received, whatever the stream holds; and as long as *)
(* no accident has happened, strtol always starts at a whole header and    *)
(* stops inside it.                                                        *)
THEOREM FramingBufferBounds == Spec => []BufferBounds
<1>1. FramingInv => BufferBounds
  <2> SUFFICES ASSUME FramingInv, Intact, rpc = "parse", got - cur >= HeaderSize
               PROVE  Scanned(cur) \subseteq 0 .. got - 1
    BY DEF FramingInv, BufferBounds
  <2>1. \E m \in DOMAIN frames : IsHeader(cur, m)
    BY HeaderComes, FramesAre DEF FramingInv
  <2>2. Scanned(cur) = cur .. cur + HeaderSize - 1
    BY <2>1 DEF Scanned
  <2>3. cur \in Nat /\ got \in Nat
    BY DEF FramingInv, TypeOK
  <2>4. QED
    BY <2>2, <2>3, ConstantsNat
<1>2. QED
  BY <1>1, FramingInvariant, PTL

(* For every segmentation of the stream, every buffer and every number of  *)
(* messages in flight: as long as no header was torn, no size too long and *)
(* no send() cut short, on_data_cb gets exactly what send_data was given.  *)
THEOREM FramingIntactInOrder == Spec => []IntactInOrder
<1>1. FramingInv => IntactInOrder
  BY DEF FramingInv, IntactInOrder, ReceiverInv
<1>2. QED
  BY <1>1, FramingInvariant, PTL

-----------------------------------------------------------------------------
(* A header fits the kernel's buffers and every size fits the header.      *)
HeadersFit ==
  /\ HeaderSize <= Capacity
  /\ \A size \in Sizes : size < HeaderLimit

(* One message at a time, as in the ping-pong example.                     *)
PingPongUse == Window <= 1 /\ HeadersFit

(* Whoever starts a message now has seen all the earlier ones answered.    *)
OneAtATime == \A size \in Sizes : SendHeader(size) => Len(frames) <= Len(delivered)

(* None of the accidents named in Intact can happen then: a new frame      *)
(* starts when everything before it was consumed.                          *)
PingPongInv ==
  /\ Intact
  /\ Len(frames) <= Len(delivered) + 1
  /\ (rpc = "parse" /\ cur > 0) => cur = got
  /\ (rpc = "removed" \/ rdhup \/ hup # "none") => closed

(* A new header finds everything before it consumed, so it is taken whole. *)
LEMMA PingPongSendHeader ==
  ASSUME HeadersFit, OneAtATime, FramingInv, PingPongInv, NEW size \in Sizes, SendHeader(size)
  PROVE  Intact' /\ Len(frames') <= Len(delivered') + 1
<1> DEFINE k == Len(frames)
<1>1. TypeOK /\ IndexBounds /\ Intact /\ StreamInv /\ ReceiverInv
  BY DEF FramingInv, PingPongInv
<1>2. InOrder /\ NextByte \in Nat /\ Len(delivered) \in Nat /\ Len(delivered) <= k /\ k \in Nat
  BY <1>1, NextByteIs, FramesAre, DeliveredAre DEF ReceiverInv
<1>3. Len(delivered) = k
  BY <1>2 DEF OneAtATime
<1>4. rpc \in {"wait", "parse"}
  BY <1>1, Zenon DEF SendHeader, PingPongInv, TypeOK
<1>5. NextByte <= rd
  <2>1. CASE rpc = "wait"
    <3>1. rd = NextByte + pos /\ pos \in Nat
      BY <1>1, <2>1 DEF ReceiverInv, TypeOK
    <3>2. QED
      BY <1>2, <3>1
  <2>2. CASE rpc = "parse"
    <3>1. NextByte + got <= rd + cur /\ cur <= got /\ cur \in Nat /\ got \in Nat
      BY <1>1, <1>2, <2>2, Parsing
    <3>2. rd \in Nat
      BY <1>1 DEF TypeOK
    <3>3. QED
      BY <1>2, <3>1, <3>2
  <2>3. QED
    BY <1>4, <2>1, <2>2
<1>6. rd <= wr /\ rd \in Nat /\ wr \in Nat
  BY <1>1 DEF TypeOK
<1>7. rd = wr /\ (k > 0 => frames[k].body = frames[k].size)
  <2>1. CASE k = 0
    BY <1>1, <1>6, <2>1, FramesAre DEF StreamInv
  <2>2. CASE k > 0
    <3>1. k \in 1 .. k /\ frames # << >> /\ delivered # << >>
      BY <1>1, <1>2, <1>3, <2>2, FramesAre, DeliveredAre
    <3>2. NextByte = frames[k].start + HeaderSize + frames[k].size
      BY <1>3, <3>1 DEF NextByte, End
    <3>3. /\ frames[k].body <= frames[k].size
          /\ wr = frames[k].start + HeaderSize + frames[k].body
      BY <1>1, <3>1 DEF StreamInv
    <3>4. /\ frames[k].start \in Nat /\ frames[k].size \in Nat /\ frames[k].body \in Nat
      BY <1>1, <3>1, FramesAre
    <3> DEFINE start == frames[k].start
               size0 == frames[k].size
               body == frames[k].body
    <3>5. /\ start \in Nat /\ size0 \in Nat /\ body \in Nat /\ body <= size0
          /\ wr = start + HeaderSize + body /\ start + HeaderSize + size0 <= rd
      BY <1>5, <3>2, <3>3, <3>4
    <3> HIDE DEF start, size0, body
    <3>6. rd = wr /\ body = size0
      BY <1>6, <3>5, ConstantsNat
    <3>7. QED
      BY <3>6 DEF body, size0
  <2>3. QED
    BY <1>2, <2>1, <2>2
<1>8. Least(HeaderSize, Free) = HeaderSize
  BY <1>6, <1>7, ConstantsNat DEF Least, Free, HeadersFit
<1> DEFINE f == [start |-> wr, size |-> size, hdr |-> HeaderSize, body |-> 0]
<1>9. f \in Frame /\ frames' = Append(frames, f)
  BY <1>6, <1>8, ConstantsNat DEF SendHeader, Frame
<1>10. f.size = size /\ f.hdr = HeaderSize
  OBVIOUS
<1> HIDE DEF f
<1>11. /\ Len(frames') = k + 1 /\ DOMAIN frames' = 1 .. k + 1
       /\ \A i \in 1 .. k : frames'[i] = frames[i]
       /\ frames'[k + 1] = f
  BY <1>1, <1>9, FramesAre, AppendProperties, LenProperties
<1>12. torn' = torn /\ delivered' = delivered
  BY DEF SendHeader, loop
<1>13. ASSUME NEW i \in 1 .. k
       PROVE  WholeHeader(i)' /\ WholeFrame(i)'
  <2>1. WholeHeader(i) /\ (i < k => frames[i].body = frames[i].size)
    BY <1>1, <1>2, FramesAre DEF Intact, WholeFrame
  <2>2. frames[i].body = frames[i].size
    BY <1>2, <1>7, <2>1
  <2>3. QED
    BY <1>11, <2>1, <2>2 DEF WholeHeader, WholeFrame
<1>14. Printed(frames'[k + 1].size) = {frames'[k + 1].size} /\ frames'[k + 1].hdr = HeaderSize
  <2>1. size < HeaderLimit
    BY DEF HeadersFit
  <2>2. Printed(size) = {size}
    BY <2>1, Zenon DEF Printed
  <2>3. QED
    BY <1>10, <1>11, <2>2
<1>15. ~torn'
  BY <1>1, <1>12, Zenon DEF Intact
<1>16. ASSUME NEW i \in 1 .. k + 1
       PROVE  WholeHeader(i)'
  <2>1. CASE i \in 1 .. k
    BY <1>13, <2>1
  <2>2. CASE i = k + 1
    BY <1>14, <2>2 DEF WholeHeader
  <2>3. QED
    BY <1>2, <2>1, <2>2
<1>17. QED
  BY <1>2, <1>3, <1>11, <1>12, <1>13, <1>15, <1>16 DEF Intact

(* Arithmetic over integers, apart from the state it is used for.          *)
LEMMA Squeeze ==
  ASSUME NEW g \in Int, NEW r \in Int, NEW c \in Int, NEW w \in Int, NEW n \in Int,
         n + g <= r + c, c <= g, r <= w, w <= n
  PROVE  c = g
OBVIOUS

(* A callback takes the only message there is, so nothing is left behind   *)
(* it; hence no header is ever torn.                                       *)
LEMMA PingPongCallback ==
  ASSUME FramingInv, PingPongInv, Callback
  PROVE  cur' = got'
<1>1. TypeOK /\ IndexBounds /\ Intact /\ StreamInv /\ ReceiverInv
  BY DEF FramingInv, PingPongInv
<1>2. /\ ReceiverInv' /\ Len(delivered) < Len(frames) /\ TypeOK' /\ IndexBounds'
  BY <1>1, CallbackReceiver, CallbackBounds
<1>3. /\ rpc = "parse" /\ rpc' = rpc /\ UNCHANGED <<frames, rd, wr, arr, got, rdhup>>
  BY DEF Callback, sender, link
<1>4. /\ NextByte' + got' <= rd' + cur' /\ cur' <= got'
      /\ cur' \in Nat /\ got' \in Nat /\ rd' \in Nat /\ rd' <= wr
  BY <1>2, <1>3 DEF ReceiverInv, IndexBounds, TypeOK
<1>5. Len(delivered') = Len(delivered) + 1
  <2>1. PICK e : delivered' = Append(delivered, e)
    BY DEF Callback
  <2>2. QED
    BY <1>1, <1>2, <2>1 DEF TypeOK
<1>6. Len(delivered') = Len(frames) /\ delivered' # << >>
  <2>1. /\ Len(delivered) \in Nat /\ Len(frames) \in Nat
        /\ delivered' = << >> => Len(delivered') = 0
    BY <1>1, FramesAre, DeliveredAre
  <2>2. QED
    BY <1>2, <1>5, <2>1 DEF PingPongInv
<1>7. wr <= NextByte'
  <2> DEFINE k == Len(frames)
             start == frames[k].start
             size0 == frames[k].size
             body == frames[k].body
  <2>1. k \in 1 .. Len(frames) /\ frames # << >>
    BY <1>1, <1>2, FramesAre, DeliveredAre
  <2>2. NextByte' = start + HeaderSize + size0
    BY <1>3, <1>6 DEF NextByte, End
  <2>3. wr = start + HeaderSize + body /\ body <= size0
    BY <1>1, <2>1 DEF StreamInv
  <2>4. start \in Nat /\ size0 \in Nat /\ body \in Nat
    BY <1>1, <2>1, FramesAre
  <2> HIDE DEF start, size0, body
  <2>5. QED
    BY <2>2, <2>3, <2>4, ConstantsNat
<1>8. NextByte' \in Int
  <2>1. NextByte' = frames[Len(frames)].start + HeaderSize + frames[Len(frames)].size
    BY <1>3, <1>6 DEF NextByte, End
  <2>2. Len(frames) \in 1 .. Len(frames)
    BY <1>1, <1>2, FramesAre, DeliveredAre
  <2>3. QED
    BY <1>1, <2>1, <2>2, FramesAre, ConstantsNat
<1>9. wr \in Nat
  BY <1>1 DEF TypeOK
<1>10. cur' \in Int /\ got' \in Int /\ rd' \in Int /\ wr \in Int
  BY <1>4, <1>9
<1>11. QED
  BY <1>4, <1>7, <1>8, <1>10, Squeeze

LEMMA PingPongStep ==
  ASSUME HeadersFit, OneAtATime, FramingInv, PingPongInv, [Next]_vars
  PROVE  PingPongInv'
<1>1. TypeOK /\ IndexBounds /\ Intact /\ Len(frames) \in Nat /\ Len(delivered) \in Nat
  BY FramesAre, DeliveredAre DEF FramingInv, PingPongInv
<1>2. CASE UNCHANGED vars
  BY <1>2 DEF vars, sender, link, loop, PingPongInv, Intact, WholeHeader, WholeFrame
<1>3. ASSUME NEW size \in Sizes, SendHeader(size)
      PROVE  PingPongInv'
  <2>1. UNCHANGED <<closed, link, loop>>
    BY <1>3 DEF SendHeader
  <2>2. Intact' /\ Len(frames') <= Len(delivered') + 1
    BY <1>3, PingPongSendHeader
  <2>3. QED
    BY <2>1, <2>2 DEF PingPongInv, link, loop
<1>4. CASE SendPayload
  <2>1. /\ Len(frames') = Len(frames) /\ DOMAIN frames' = DOMAIN frames
        /\ \A i \in DOMAIN frames : /\ frames'[i].size = frames[i].size
                                    /\ frames'[i].hdr = frames[i].hdr
        /\ \A i \in 1 .. Len(frames) - 1 : frames'[i] = frames[i]
    BY <1>1, <1>4, SendPayloadFrame
  <2>2. torn' = torn /\ UNCHANGED <<closed, link, loop>>
    BY <1>4 DEF SendPayload, loop
  <2>3. \A i \in DOMAIN frames' : WholeHeader(i)'
    BY <1>1, <2>1 DEF Intact, WholeHeader
  <2>4. \A i \in 1 .. Len(frames') - 1 : WholeFrame(i)'
    BY <1>1, <2>1 DEF Intact, WholeFrame, WholeHeader
  <2>5. Intact'
    BY <1>1, <2>2, <2>3, <2>4 DEF Intact
  <2>6. QED
    BY <2>1, <2>2, <2>5 DEF PingPongInv, link, loop
<1>5. CASE CloseSender \/ Arrive \/ ArriveFin \/ ArriveReset
  <2>1. UNCHANGED <<frames, torn, delivered, rpc, got, cur, rdhup>>
    BY <1>5 DEF CloseSender, Arrive, ArriveFin, ArriveReset, sender, loop
  <2>2. (rpc' = "removed" \/ rdhup' \/ hup' # "none") => closed'
    BY <1>5, <2>1, Zenon DEF CloseSender, Arrive, ArriveFin, ArriveReset, sender, link, PingPongInv
  <2>3. QED
    BY <2>1, <2>2 DEF PingPongInv, Intact, WholeHeader, WholeFrame
<1>6. CASE OnData
  <2>1. UNCHANGED <<frames, closed, hup>>
    BY <1>6 DEF OnData, Recv, ShortHeader, Incomplete, Callback, Drained, sender, link
  <2>2. (rpc' = "removed" \/ rdhup' \/ hup' # "none") => closed'
    BY <1>6, <2>1, Zenon DEF OnData, Recv, ShortHeader, Incomplete, Callback, Drained, Return,
                             PingPongInv
  <2>3. torn' => torn
    <3>1. CASE ShortHeader
      <4>1. ~(cur > 0)
        <5>1. cur < got /\ rpc = "parse"
          BY <3>1 DEF ShortHeader
        <5>2. QED
          BY <1>1, <5>1 DEF PingPongInv, TypeOK
      <4>2. QED
        BY <3>1, <4>1, Zenon DEF ShortHeader
    <3>2. CASE Recv \/ Incomplete \/ Callback \/ Drained
      BY <3>2, Zenon DEF Recv, Incomplete, Callback, Drained
    <3>3. QED
      BY <1>6, <3>1, <3>2 DEF OnData
  <2>4. Intact'
    <3>1. ~torn'
      BY <1>1, <2>3, Zenon DEF Intact
    <3>2. QED
      BY <1>1, <2>1, <3>1 DEF Intact, WholeHeader, WholeFrame
  <2>5. Len(frames') <= Len(delivered') + 1
    <3>1. CASE Callback
      <4>1. PICK e : delivered' = Append(delivered, e)
        BY <3>1 DEF Callback
      <4>2. Len(delivered') = Len(delivered) + 1
        BY <1>1, <4>1 DEF TypeOK
      <4>3. QED
        BY <1>1, <2>1, <4>2 DEF PingPongInv
    <3>2. CASE Recv \/ ShortHeader \/ Incomplete \/ Drained
      BY <2>1, <3>2 DEF Recv, ShortHeader, Incomplete, Drained, PingPongInv
    <3>3. QED
      BY <1>6, <3>1, <3>2 DEF OnData
  <2>6. (rpc' = "parse" /\ cur' > 0) => cur' = got'
    <3>1. CASE Callback
      BY <3>1, PingPongCallback
    <3>2. CASE Recv
      BY <3>2 DEF Recv, Return
    <3>3. CASE ShortHeader \/ Incomplete \/ Drained
      BY <3>3 DEF ShortHeader, Incomplete, Drained, Return
    <3>4. QED
      BY <1>6, <3>1, <3>2, <3>3 DEF OnData
  <2>7. QED
    BY <2>2, <2>4, <2>5, <2>6 DEF PingPongInv
<1>7. QED
  BY <1>2, <1>3, <1>4, <1>5, <1>6 DEF Next

LEMMA PingPongInit == Init => PingPongInv
<1> SUFFICES ASSUME Init PROVE PingPongInv
  OBVIOUS
<1>1. Len(frames) = 0 /\ Len(delivered) = 0 /\ DOMAIN frames = {}
  BY DEF Init
<1>2. ~torn /\ ~rdhup /\ rpc = "wait" /\ hup = "none"
  BY Zenon DEF Init
<1>3. QED
  BY <1>1, <1>2 DEF PingPongInv, Intact

LEMMA WindowOfOne ==
  ASSUME PingPongUse, TypeOK
  PROVE  HeadersFit /\ OneAtATime
<1>1. Len(frames) \in Nat /\ Len(delivered) \in Nat
  BY FramesAre, DeliveredAre
<1>2. HeadersFit /\ Window \in Nat /\ Window <= 1
  BY FramingAssumption DEF PingPongUse
<1>3. ASSUME NEW size \in Sizes, SendHeader(size)
      PROVE  Len(frames) <= Len(delivered)
  <2>1. Len(frames) - Len(delivered) < Window
    BY <1>3 DEF SendHeader
  <2>2. QED
    BY <1>1, <1>2, <2>1
<1>4. QED
  BY <1>2, <1>3 DEF OneAtATime

(* With one message at a time none of the accidents of the protocol can    *)
(* happen, so the stream stays intact.                                     *)
THEOREM FramingPingPong == ASSUME PingPongUse PROVE Spec => [](FramingInv /\ PingPongInv)
<1>1. Init => FramingInv /\ PingPongInv
  BY InitFraming, PingPongInit
<1>2. FramingInv /\ PingPongInv /\ [Next]_vars => (FramingInv /\ PingPongInv)'
  BY NextFraming, PingPongStep, WindowOfOne DEF FramingInv
<1>3. QED
  BY <1>1, <1>2, PTL DEF Spec

(* With one message at a time the connection keeps its promise, for every  *)
(* segmentation, message sizes and buffers: what on_data_cb is called with *)
(* are the messages given to send_data, in order and unharmed.             *)
THEOREM FramingPingPongInOrder == ASSUME PingPongUse PROVE Spec => []InOrder
<1>1. FramingInv /\ PingPongInv => InOrder
  BY DEF FramingInv, PingPongInv, ReceiverInv
<1>2. QED
  BY <1>1, FramingPingPong, PTL

-----------------------------------------------------------------------------
(* The messages handed to send_data, as the channel sees them.             *)
Bytes(f)     == [j \in 1 .. f.size |-> f.start + HeaderSize + j - 1]
Messages(fs) == [i \in DOMAIN fs |-> Bytes(fs[i])]

(* The history of frames maps to a history of messages.                    *)
LEMMA FunctionIsSeq ==
  ASSUME NEW S, NEW n \in Nat, NEW f \in [1 .. n -> S]
  PROVE  f \in Seq(S) /\ Len(f) = n
OBVIOUS

LEMMA MessagesAre ==
  ASSUME NEW fs \in Seq(Frame)
  PROVE  /\ Messages(fs) \in Seq(Seq(Int)) /\ Len(Messages(fs)) = Len(fs)
         /\ \A i \in 1 .. Len(fs) : Messages(fs)[i] = Bytes(fs[i])
<1>1. DOMAIN fs = 1 .. Len(fs) /\ Len(fs) \in Nat
  BY LenProperties
<1>2. ASSUME NEW i \in 1 .. Len(fs)
      PROVE  Bytes(fs[i]) \in Seq(Int)
  <2>1. fs[i] \in Frame
    BY ElementOfSeq
  <2>2. fs[i].size \in Nat /\ fs[i].start \in Nat
    BY <2>1 DEF Frame
  <2>3. Bytes(fs[i]) \in [1 .. fs[i].size -> Int]
    BY <2>2, ConstantsNat DEF Bytes
  <2>4. QED
    BY <2>2, <2>3, FunctionIsSeq
<1>3. Messages(fs) = [i \in 1 .. Len(fs) |-> Bytes(fs[i])]
  BY <1>1 DEF Messages
<1>4. Messages(fs) \in [1 .. Len(fs) -> Seq(Int)]
  BY <1>2, <1>3
<1>5. Messages(fs) \in Seq(Seq(Int)) /\ Len(Messages(fs)) = Len(fs)
  BY <1>1, <1>4, FunctionIsSeq
<1>6. QED
  BY <1>3, <1>5

(* Sending a header is the moment a message enters the channel.            *)
LEMMA SendHeaderSends ==
  ASSUME TypeOK, NEW size \in Sizes, SendHeader(size)
  PROVE  Channel!Send
<1> DEFINE m == Messages(frames)
           n == Len(frames)
<1>1. PICK f \in Frame : frames' = Append(frames, f)
  BY SendHeaderFrame
<1>2. /\ frames' \in Seq(Frame) /\ Len(frames') = n + 1 /\ n \in Nat
      /\ \A i \in 1 .. n : frames'[i] = frames[i]
  BY <1>1, FramesAre, AppendProperties
<1>3. m \in Seq(Seq(Int)) /\ Len(m) = n
  BY FramesAre, MessagesAre
<1>4. m' \in Seq(Seq(Int)) /\ Len(m') = n + 1
  BY <1>2, MessagesAre
<1>5. ASSUME NEW i \in 1 .. n PROVE m'[i] = m[i]
  <2>1. frames'[i] = frames[i] /\ i \in 1 .. Len(frames')
    BY <1>2
  <2>2. m[i] = Bytes(frames[i])
    BY FramesAre, MessagesAre
  <2>3. m'[i] = Bytes(frames'[i])
    BY <1>2, <2>1, MessagesAre
  <2>4. QED
    BY <2>1, <2>2, <2>3
<1> DEFINE e == m'[n + 1]
           t == Append(m, e)
<1> HIDE DEF m
<1>6. e \in Seq(Int)
  BY <1>2, <1>4, ElementOfSeq
<1> HIDE DEF e
<1>7. /\ t \in Seq(Seq(Int)) /\ Len(t) = n + 1
      /\ \A i \in 1 .. n : t[i] = m[i]
      /\ t[n + 1] = e
  BY <1>3, <1>6, AppendProperties
<1> HIDE DEF t
<1>8. ASSUME NEW i \in 1 .. n + 1 PROVE m'[i] = t[i]
  <2>1. CASE i \in 1 .. n
    BY <1>5, <1>7, <2>1
  <2>2. CASE i = n + 1
    BY <1>7, <2>2 DEF e
  <2>3. QED
    BY <1>2, <2>1, <2>2
<1>9. m' = t
  BY <1>4, <1>7, <1>8, SeqEqual
<1>10. Len(m') = Len(m) + 1 /\ m' = Append(m, m'[Len(m) + 1])
  BY <1>3, <1>4, <1>9 DEF t, e
<1>11. delivered' = delivered
  BY DEF SendHeader, loop
<1>12. QED
  BY <1>10, <1>11 DEF m, Messages, Bytes, Payload, Channel!Send

(* A callback takes the next message out of it.                            *)
LEMMA CallbackDelivers ==
  ASSUME FramingInv, Intact, Callback
  PROVE  Channel!Deliver
<1> DEFINE n == Len(delivered)
<1>1. TypeOK /\ IndexBounds /\ StreamInv /\ ReceiverInv
  BY DEF FramingInv
<1>2. n < Len(frames) /\ InOrder' /\ TypeOK'
  BY <1>1, CallbackReceiver, CallbackBounds DEF ReceiverInv
<1>3. frames' = frames /\ \E e : delivered' = Append(delivered, e)
  BY DEF Callback, sender
<1>4. PICK e : delivered' = Append(delivered, e)
  BY <1>3
<1>5. /\ n \in Nat /\ Len(delivered') = n + 1 /\ delivered'[n + 1] = e
      /\ DOMAIN delivered' = 1 .. n + 1
  BY <1>1, <1>4 DEF TypeOK
<1>6. n + 1 \in DOMAIN delivered'
  BY <1>5
<1>7. \A i \in DOMAIN delivered' : delivered'[i] = Payload(i)
  BY <1>2, <1>3 DEF InOrder, Payload
<1>8. e = Payload(n + 1)
  BY <1>5, <1>6, <1>7
<1> DEFINE m == Messages(frames)
<1>9. n + 1 \in 1 .. Len(frames) /\ m[n + 1] = Payload(n + 1) /\ Len(m) = Len(frames)
  <2>1. n + 1 \in 1 .. Len(frames)
    BY <1>1, <1>2, <1>5, FramesAre
  <2>2. m[n + 1] = Bytes(frames[n + 1]) /\ Len(m) = Len(frames)
    BY <1>1, <2>1, MessagesAre, FramesAre
  <2>3. QED
    BY <2>1, <2>2 DEF Bytes, Payload
<1>10. m' = m
  BY <1>3 DEF Messages
<1>11. delivered' = Append(delivered, m[n + 1]) /\ n < Len(m)
  BY <1>2, <1>4, <1>8, <1>9
<1>12. QED
  BY <1>10, <1>11 DEF Messages, Bytes, Payload, Channel!Deliver

LEMMA ChannelStarts == Init => Channel!Init
<1> SUFFICES ASSUME Init PROVE Channel!Init
  OBVIOUS
<1>1. [i \in DOMAIN frames |-> Payload(i)] = Messages(frames)
  BY DEF Messages, Bytes, Payload
<1>2. TypeOK /\ frames = << >> /\ delivered = << >>
  BY InitBounds DEF Init
<1>3. Messages(frames) \in Seq(Seq(Int)) /\ Len(Messages(frames)) = 0
  <2>1. frames \in Seq(Frame) /\ Len(frames) = 0
    BY <1>2, FramesAre
  <2>2. QED
    BY <2>1, MessagesAre
<1>4. Messages(frames) = << >>
  BY <1>3, EmptySeq
<1>5. QED
  BY <1>1, <1>2, <1>4, Zenon DEF Channel!Init

LEMMA ChannelStep == FramingInv /\ PingPongInv /\ [Next]_vars => [Channel!Next]_(Channel!chan)
<1> DEFINE m == Messages(frames)
<1> SUFFICES ASSUME FramingInv, PingPongInv, [Next]_vars
             PROVE  Channel!Next \/ UNCHANGED <<m, delivered>>
  BY DEF Channel!chan, Messages, Bytes, Payload
<1>1. TypeOK /\ Intact
  BY DEF FramingInv, PingPongInv
<1>2. ASSUME NEW size \in Sizes, SendHeader(size) PROVE Channel!Next
  BY <1>1, <1>2, SendHeaderSends DEF Channel!Next
<1>3. CASE Callback
  BY <1>1, <1>3, CallbackDelivers DEF Channel!Next
<1>4. CASE SendPayload
  <2>1. /\ DOMAIN frames' = DOMAIN frames
        /\ \A i \in DOMAIN frames : /\ frames'[i].start = frames[i].start
                                    /\ frames'[i].size = frames[i].size
    BY <1>1, <1>4, SendPayloadFrame
  <2>2. m' = m
    <3>1. \A i \in DOMAIN frames : Bytes(frames'[i]) = Bytes(frames[i])
      BY <2>1 DEF Bytes
    <3>2. QED
      BY <2>1, <3>1 DEF Messages
  <2>3. delivered' = delivered
    BY <1>4 DEF SendPayload, loop
  <2>4. QED
    BY <2>2, <2>3
<1>5. CASE \/ CloseSender \/ Arrive \/ ArriveFin \/ ArriveReset
           \/ Recv \/ ShortHeader \/ Incomplete \/ Drained \/ UNCHANGED vars
  <2>1. UNCHANGED <<frames, delivered>>
    BY <1>5 DEF CloseSender, Arrive, ArriveFin, ArriveReset, Recv, ShortHeader, Incomplete,
                Drained, vars, sender, loop
  <2>2. QED
    BY <2>1 DEF Messages
<1>6. QED
  BY <1>2, <1>3, <1>4, <1>5 DEF Next, OnData

(* With one message at a time the connection, its buffers and its parser   *)
(* implement the channel the Network interface promises.                   *)
THEOREM FramingImplementsChannel == ASSUME PingPongUse PROVE Spec => ImplementsChannel
  BY ChannelStarts, ChannelStep, FramingPingPong, PTL DEF Spec, ImplementsChannel, Channel!Spec

-----------------------------------------------------------------------------
(* A message fits the receive buffer with its header; one that does not    *)
(* would never be delivered.                                               *)
MessagesFit == \A size \in Sizes : HeaderSize + size <= BufferSize

(* After the FIN nothing more comes, and an event that tells of it reads   *)
(* all there is.                                                           *)
HangupInv ==
  /\ \A i \in DOMAIN frames : frames[i].size \in Sizes
  /\ hup = "fin" => closed /\ arr = wr
  /\ rdhup => hup # "none"
  /\ rpc = "removed" => rdhup
  /\ (rpc # "wait" /\ rdhup /\ hup = "fin") => rd = wr

(* Arithmetic over integers, apart from the state it is used for.          *)
LEMMA RestFits ==
  ASSUME NEW next \in Int, NEW start \in Int, NEW size \in Int, NEW body \in Int,
         NEW header \in Int, NEW room \in Int,
         start <= next, body <= size, header + size <= room
  PROVE  start + header + body <= next + room
OBVIOUS

(* The unread rest of the stream is part of one message, so a buffer that  *)
(* holds a message has room for it.                                        *)
LEMMA UnreadFits ==
  ASSUME FramingInv, PingPongInv, HangupInv, MessagesFit
  PROVE  NextByte \in Nat /\ wr <= NextByte + BufferSize
<1>1. /\ TypeOK /\ Intact /\ StreamInv /\ InOrder /\ Len(frames) <= Len(delivered) + 1
      /\ wr \in Nat
  BY DEF FramingInv, PingPongInv, ReceiverInv, TypeOK
<1>2. /\ Len(delivered) <= Len(frames) /\ NextByte \in Nat
      /\ Len(delivered) < Len(frames) => frames[Len(delivered) + 1].start = NextByte
  BY <1>1, NextByteIs
<1>3. CASE Len(frames) = 0
  BY <1>1, <1>2, <1>3, FramesAre, ConstantsNat DEF StreamInv
<1>4. CASE Len(frames) # 0
  <2> DEFINE k == Len(frames)
             last == frames[k]
  <2>1. k \in DOMAIN frames /\ k \in Nat /\ frames # << >>
    BY <1>1, <1>4, FramesAre
  <2>2. last.size \in Sizes /\ last.start \in Nat /\ last.size \in Nat /\ last.body \in Nat
    BY <1>1, <2>1, FramesAre DEF HangupInv
  <2>3. HeaderSize + last.size <= BufferSize
    BY <2>2 DEF MessagesFit
  <2>4. last.body <= last.size /\ wr = last.start + HeaderSize + last.body
    BY <1>1, <2>1 DEF StreamInv
  <2>5. last.start <= NextByte
    <3>1. CASE Len(delivered) < k
      <4>1. Len(delivered) + 1 = k
        BY <1>1, <2>1, <3>1, DeliveredAre
      <4>2. QED
        BY <1>2, <2>2, <3>1, <4>1
    <3>2. CASE Len(delivered) = k
      <4>1. NextByte = last.start + HeaderSize + last.size
        BY <1>1, <1>4, <3>2, DeliveredAre DEF NextByte, End
      <4>2. QED
        BY <2>2, <4>1, ConstantsNat
    <3>3. QED
      BY <1>1, <1>2, <2>1, <3>1, <3>2, DeliveredAre
  <2> HIDE DEF k, last
  <2>6. QED
    <3>1. NextByte \in Int /\ HeaderSize \in Int /\ BufferSize \in Int
      BY <1>2, ConstantsNat
    <3>2. last.start + HeaderSize + last.body <= NextByte + BufferSize
      BY <2>2, <2>3, <2>4, <2>5, <3>1, RestFits
    <3> QED
      BY <1>2, <2>4, <3>2
<1>5. QED
  BY <1>3, <1>4

(* recv() on an event that tells of the FIN leaves nothing in the kernel.  *)
LEMMA HangupRecv ==
  ASSUME FramingInv, PingPongInv, HangupInv, MessagesFit, Recv
  PROVE  HangupInv'
<1> DEFINE r == RecvResult
<1>1. /\ rpc = "wait" /\ rdhup' = (hup # "none")
      /\ UNCHANGED <<frames, sending, closed, wr, arr, hup>>
  BY DEF Recv, sender, link
<1>2. /\ TypeOK /\ ReceiverInv /\ NextByte \in Nat /\ wr <= NextByte + BufferSize
      /\ pos \in Nat /\ rd \in Nat /\ arr \in Nat /\ rd <= arr /\ arr <= wr /\ wr \in Nat
      /\ pos <= BufferSize
  BY UnreadFits DEF FramingInv, PingPongInv, TypeOK, IndexBounds
<1>3. rd = NextByte + pos
  BY <1>1, <1>2 DEF ReceiverInv
<1>4. ASSUME hup = "fin"
      PROVE  arr = wr /\ r = arr - rd
  BY <1>2, <1>3, <1>4, ConstantsNat DEF HangupInv, RecvResult, Least, Unread
<1>5. CASE r + pos <= 0
  <2>1. rpc' = (IF hup # "none" THEN "removed" ELSE "wait") /\ rd' = rd
    BY <1>5 DEF Recv, Return
  <2>2. hup = "fin" => rd' = wr'
    <3>1. SUFFICES ASSUME hup = "fin" PROVE rd' = wr'
      OBVIOUS
    <3>2. arr = wr /\ r = arr - rd
      BY <1>4, <3>1
    <3> HIDE DEF r
    <3>3. QED
      BY <1>1, <1>2, <1>5, <2>1, <3>2
  <2>3. rpc' = "removed" => rdhup'
    BY <1>1, <2>1, Zenon
  <2>4. QED
    BY <1>1, <2>2, <2>3 DEF HangupInv
<1>6. CASE ~(r + pos <= 0)
  <2>1. rpc' = "parse" /\ rd' = (IF r > 0 THEN rd + r ELSE rd)
    BY <1>6 DEF Recv
  <2>2. hup = "fin" => rd' = wr'
    <3>1. SUFFICES ASSUME hup = "fin" PROVE rd' = wr'
      OBVIOUS
    <3>2. arr = wr /\ r = arr - rd
      BY <1>4, <3>1
    <3> HIDE DEF r
    <3>3. QED
      BY <1>1, <1>2, <1>6, <2>1, <3>2
  <2>3. QED
    BY <1>1, <2>1, <2>2 DEF HangupInv
<1>7. QED
  BY <1>5, <1>6

LEMMA HangupStep ==
  ASSUME FramingInv, PingPongInv, HangupInv, MessagesFit, [Next]_vars
  PROVE  HangupInv'
<1>0. TypeOK
  BY DEF FramingInv
<1>1. CASE UNCHANGED vars
  BY <1>1 DEF vars, sender, link, loop, HangupInv
<1>2. ASSUME NEW size \in Sizes, SendHeader(size)
      PROVE  HangupInv'
  <2>1. ~closed /\ UNCHANGED <<closed, hup, arr, rpc, rdhup, rd>> /\ hup # "fin"
    BY <1>2 DEF SendHeader, link, loop, HangupInv
  <2>2. PICK f \in Frame : frames' = Append(frames, f) /\ f.size = size
    BY <1>0, <1>2, SendHeaderFrame
  <2>3. \A i \in DOMAIN frames' : frames'[i] = f \/ (i \in DOMAIN frames /\ frames'[i] = frames[i])
    BY <1>0, <2>2, FramesAre
  <2>4. \A i \in DOMAIN frames' : frames'[i].size \in Sizes
    BY <1>2, <2>2, <2>3 DEF HangupInv
  <2>5. QED
    BY <2>1, <2>4 DEF HangupInv
<1>3. CASE SendPayload
  <2>1. /\ DOMAIN frames' = DOMAIN frames
        /\ \A i \in DOMAIN frames : frames'[i].size = frames[i].size
    BY <1>0, <1>3, SendPayloadFrame
  <2>2. UNCHANGED <<closed, hup, arr, rpc, rdhup, rd>>
    BY <1>3 DEF SendPayload, link, loop
  <2>3. closed => wr' = wr
    BY <1>0, <1>3 DEF SendPayload, TypeOK
  <2>4. QED
    BY <2>1, <2>2, <2>3 DEF HangupInv
<1>4. CASE CloseSender
  BY <1>4 DEF CloseSender, link, loop, HangupInv
<1>5. CASE Arrive \/ ArriveReset
  <2>1. hup = "none" /\ hup' # "fin" /\ UNCHANGED <<frames, rpc, rdhup, rd>>
    BY <1>5 DEF Arrive, ArriveReset, sender, loop
  <2>2. QED
    BY <2>1 DEF HangupInv
<1>6. CASE ArriveFin
  BY <1>6 DEF ArriveFin, sender, loop, HangupInv
<1>7. CASE Recv
  BY <1>7, HangupRecv
<1>8. CASE ShortHeader \/ Incomplete \/ Callback \/ Drained
  <2>1. rpc = "parse" /\ UNCHANGED <<frames, sending, closed, wr, arr, hup, rd, rdhup>>
    BY <1>8 DEF ShortHeader, Incomplete, Callback, Drained, sender, link
  <2>2. rpc' = "removed" => rdhup'
    BY <1>8, <2>1, Zenon DEF ShortHeader, Incomplete, Callback, Drained, Return
  <2>3. QED
    BY <2>1, <2>2 DEF HangupInv
<1>9. QED
  BY <1>1, <1>2, <1>3, <1>4, <1>5, <1>6, <1>7, <1>8 DEF Next, OnData

(* With one message at a time that fits the buffer, a connection closed in *)
(* order is read to its end before evloop_run removes it: the event that   *)
(* carries EPOLLRDHUP is handled by one recv(), which takes all there is.  *)
THEOREM FramingHangupLosesNothing ==
  ASSUME PingPongUse, MessagesFit
  PROVE  Spec => []HangupLosesNothing
<1>1. Init => HangupInv
  BY DEF Init, HangupInv
<1>2. FramingInv /\ PingPongInv /\ HangupInv /\ [Next]_vars => HangupInv'
  BY HangupStep
<1>3. HangupInv => HangupLosesNothing
  BY DEF HangupInv, HangupLosesNothing
<1>4. QED
  BY <1>1, <1>2, <1>3, FramingPingPong, PTL DEF Spec
=============================================================================
