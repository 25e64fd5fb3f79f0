------------------------------ MODULE Framing -------------------------------
(***************************************************************************)
(* One direction of one TCP connection of the Posix backend: send_data     *)
(* puts a header and a payload into the socket, the kernel carries the     *)
(* bytes in segments of any size, on_data cuts the byte stream back into   *)
(* messages in a buffer of fixed size and calls the user's on_data_cb.     *)
(*                                                                         *)
(* A byte is named by its position in the stream: byte n is the n-th byte  *)
(* the sender's kernel ever accepted.  What a byte holds follows from the  *)
(* frame its position lies in, so a message arrives unharmed exactly when  *)
(* the callback is given the positions of its payload.                     *)
(***************************************************************************)
EXTENDS Integers, Sequences

CONSTANTS
  HeaderSize,   \* sizeof(size_t), 8 in the code
  Radix,        \* base of the size printed into the header, 10 in the code
  HeaderLimit,  \* first size whose digits fill the header: Radix^(HeaderSize-1)
  BufferSize,   \* network_config.buffersize
  Capacity,     \* bytes the two kernel buffers of the connection hold
  Sizes,        \* sizes send_data is called with
  Garbage,      \* what strtol may make of bytes that are not one header
  Window,       \* messages the application leaves unanswered at a time
  MaxFrames,    \* bound of the model: calls of send_data
  MaxCalls      \* bound of the model: calls of on_data_cb; a torn header can
                \* make the code repeat them for ever

ASSUME FramingAssumption ==
  /\ HeaderSize \in Nat \ {0} /\ Radix \in Nat \ {0, 1}
  /\ HeaderLimit \in Nat /\ HeaderLimit = Radix^(HeaderSize - 1)
  /\ BufferSize \in Nat /\ Capacity \in Nat
  /\ Sizes \subseteq Nat /\ Garbage \subseteq Nat
  /\ Window \in Nat /\ MaxFrames \in Nat /\ MaxCalls \in Nat

VARIABLES
  frames,    \* calls of send_data: where the frame starts, the size asked for,
             \* the header bytes and the payload bytes the kernel accepted
  sending,   \* a send_data holds the send mutex between its two send() calls
  closed,    \* the sender's end of the connection is closed
  wr,        \* bytes accepted from the sender so far
  arr,       \* bytes that have arrived in the receiver's kernel so far
  hup,       \* how the receiver's kernel saw the connection end
  rd,        \* bytes recv() has returned so far
  buf,       \* buf_struct.buf: the stream position of each byte, -1 for '\0'
  pos,       \* buf_struct.pos
  rpc,       \* the event loop: waiting, inside on_data's loop, fd removed
  got,       \* on_data: bytes_recv
  cur,       \* on_data: current_pos
  rdhup,     \* the event being processed carries EPOLLRDHUP
  delivered, \* payloads on_data_cb was called with
  torn       \* a header split over two reads was left behind a whole message

sender == <<frames, sending, closed, wr>>
link   == <<arr, hup>>
loop   == <<rd, buf, pos, rpc, got, cur, rdhup, delivered, torn>>
vars   == <<sender, link, loop>>

Frame    == [start : Nat, size : Nat, hdr : Nat, body : Nat]
Index    == 0 .. BufferSize - 1
NulByte  == -1
Unread   == arr - rd
Free     == Capacity - (wr - rd)
Least(a, b) == IF a < b THEN a ELSE b

-----------------------------------------------------------------------------
(* snprintf(header, sizeof(header), "%zu", size) keeps the leading         *)
(* HeaderSize - 1 digits: the numbers a reader of that header may find.    *)
Printed(size) ==
  IF size < HeaderLimit
  THEN {size}
  ELSE {v \in 0 .. HeaderLimit - 1 :
          /\ HeaderLimit \div Radix <= v
          /\ \E k \in 1 .. size : v = size \div Radix^k}

(* The HeaderSize bytes of the buffer from index c on are the header of    *)
(* frame m.                                                                *)
IsHeader(c, m) ==
  /\ frames[m].hdr = HeaderSize
  /\ \A j \in 0 .. HeaderSize - 1 : buf[c + j] = frames[m].start + j

(* strtol(buf + current_pos): the printed size if a header stands there,   *)
(* otherwise whatever number the bytes happen to spell.                    *)
ReadSize(c) ==
  IF \E m \in DOMAIN frames : IsHeader(c, m)
  THEN UNION {Printed(frames[m].size) : m \in {n \in DOMAIN frames : IsHeader(c, n)}}
  ELSE Garbage

(* The bytes strtol may look at: it stops at the first one that is no      *)
(* digit, at the latest the '\0' of a header.  Elsewhere nothing stops it   *)
(* before the end of the buffer, nor there.                                *)
Scanned(c) ==
  IF \E m \in DOMAIN frames : IsHeader(c, m)
  THEN c .. c + HeaderSize - 1
  ELSE c .. BufferSize

(* The positions the payload of frame i occupies if the frame is whole.    *)
Payload(i) == [j \in 1 .. frames[i].size |-> frames[i].start + HeaderSize + j - 1]

-----------------------------------------------------------------------------
Init ==
  /\ frames = << >> /\ sending = FALSE /\ closed = FALSE /\ wr = 0
  /\ arr = 0 /\ hup = "none"
  /\ rd = 0 /\ buf = [j \in Index |-> NulByte] /\ pos = 0
  /\ rpc = "wait" /\ got = 0 /\ cur = 0 /\ rdhup = FALSE
  /\ delivered = << >> /\ torn = FALSE

(* send_data under the send mutex, first send(): the header.  The socket   *)
(* is non-blocking, so the kernel takes what fits; the result is ignored.  *)
SendHeader(size) ==
  /\ ~closed /\ ~sending
  /\ Len(frames) < MaxFrames /\ Len(frames) - Len(delivered) < Window
  /\ LET n == Least(HeaderSize, Free) IN
       /\ frames' = Append(frames, [start |-> wr, size |-> size, hdr |-> n, body |-> 0])
       /\ wr' = wr + n
  /\ sending' = TRUE
  /\ UNCHANGED <<closed, link, loop>>

(* send_data, second send(): the payload.  Its result is returned to the   *)
(* caller and the mutex is released.                                       *)
SendPayload ==
  /\ sending
  /\ LET i == Len(frames)
         n == IF closed THEN 0 ELSE Least(frames[i].size, Free) IN
       /\ frames' = [frames EXCEPT ![i].body = n]
       /\ wr' = wr + n
  /\ sending' = FALSE
  /\ UNCHANGED <<closed, link, loop>>

(* The sending side closes the connection.                                 *)
CloseSender ==
  /\ ~closed /\ ~sending
  /\ closed' = TRUE
  /\ UNCHANGED <<frames, sending, wr, link, loop>>

(* The network brings more of the accepted bytes.                          *)
Arrive ==
  /\ hup = "none"
  /\ arr' \in arr + 1 .. wr
  /\ UNCHANGED <<sender, hup, loop>>

(* The FIN follows the last byte.                                          *)
ArriveFin ==
  /\ closed /\ arr = wr /\ hup = "none"
  /\ hup' = "fin"
  /\ UNCHANGED <<sender, arr, loop>>

(* The connection is reset; bytes that have not arrived are lost.          *)
ArriveReset ==
  /\ hup = "none"
  /\ hup' = "rst" /\ closed' = TRUE
  /\ UNCHANGED <<frames, sending, wr, arr, loop>>

-----------------------------------------------------------------------------
(* Mutant: EPOLLRDHUP is not looked at.                                    *)
ReturnOnly(hangup) == rpc' = "wait"

(* on_data returns; the event loop removes the descriptor if the event     *)
(* carried EPOLLRDHUP.                                                     *)
Return(hangup) == rpc' = IF hangup THEN "removed" ELSE "wait"

(* Mutant: on_data asks for the size of the buffer, not for what is left.  *)
RecvPastBuffer ==
  IF Unread > 0 THEN Least(Unread, BufferSize)
                ELSE IF hup = "rst" THEN -1 ELSE 0

(* Mutant: recv() is taken to have filled all of the room.                 *)
RecvFills ==
  IF Unread > 0 THEN BufferSize - pos ELSE IF hup = "rst" THEN -1 ELSE 0

(* Mutant: on_data reads a header's worth at a time.                       *)
RecvHeaderOnly ==
  IF Unread > 0 THEN Least(Least(Unread, HeaderSize), BufferSize - pos)
                ELSE IF hup = "rst" THEN -1 ELSE 0

(* recv() at the start of on_data: all that has arrived and fits behind    *)
(* the bytes kept from the previous call; 0 at the end of the stream or    *)
(* when the buffer has no room, -1 after a reset.                          *)
RecvResult ==
  IF Unread > 0 THEN Least(Unread, BufferSize - pos)
                ELSE IF hup = "rst" THEN -1 ELSE 0

Readable == Unread > 0 \/ hup # "none"

(* on_data up to its loop, on an event for the descriptor.                 *)
Recv ==
  /\ rpc = "wait" /\ Readable
  /\ rdhup' = (hup # "none")
  /\ LET r == RecvResult IN
       IF r + pos <= 0
       THEN /\ pos' = 0 /\ Return(hup # "none")
            /\ UNCHANGED <<rd, buf, got, cur>>
       ELSE /\ rd' = IF r > 0 THEN rd + r ELSE rd
            /\ buf' = [j \in Index |-> IF pos <= j /\ j < pos + r
                                       THEN rd + (j - pos) ELSE buf[j]]
            /\ got' = pos + r /\ cur' = 0 /\ rpc' = "parse"
            /\ UNCHANGED pos
  /\ UNCHANGED <<delivered, torn, sender, link>>

(* std::copy of the bytes from current_pos to bytes_recv to the front.     *)
MovedToFront == [j \in Index |-> IF j < got - cur THEN buf[cur + j] ELSE buf[j]]

(* Less than a header is left: the bytes are kept, pos is bytes_recv.      *)
ShortHeader ==
  /\ rpc = "parse" /\ cur < got
  /\ got - cur < HeaderSize
  /\ buf' = MovedToFront
  /\ pos' = got
  /\ torn' = (torn \/ cur > 0)
  /\ Return(rdhup)
  /\ UNCHANGED <<rd, got, cur, rdhup, delivered, sender, link>>

(* Mutant: pos counts the bytes of messages already consumed.              *)
IncompleteKeepsAll ==
  /\ rpc = "parse" /\ cur < got
  /\ got - cur >= HeaderSize
  /\ \E size \in ReadSize(cur) : got - cur - HeaderSize < size
  /\ buf' = MovedToFront
  /\ pos' = got
  /\ Return(rdhup)
  /\ UNCHANGED <<rd, got, cur, rdhup, delivered, torn, sender, link>>

(* Mutant: an incomplete message is not kept.                              *)
IncompleteDrops ==
  /\ rpc = "parse" /\ cur < got
  /\ got - cur >= HeaderSize
  /\ \E size \in ReadSize(cur) : got - cur - HeaderSize < size
  /\ pos' = 0
  /\ Return(rdhup)
  /\ UNCHANGED <<rd, buf, got, cur, rdhup, delivered, torn, sender, link>>

(* A header is there but not all of its message: the bytes are kept.       *)
Incomplete ==
  /\ rpc = "parse" /\ cur < got
  /\ got - cur >= HeaderSize
  /\ \E size \in ReadSize(cur) : got - cur - HeaderSize < size
  /\ buf' = MovedToFront
  /\ pos' = got - cur
  /\ Return(rdhup)
  /\ UNCHANGED <<rd, got, cur, rdhup, delivered, torn, sender, link>>

(* Mutant: current_pos advances by the payload only.                       *)
CallbackSkipsHeader ==
  /\ Len(delivered) < MaxCalls
  /\ rpc = "parse" /\ cur < got
  /\ got - cur >= HeaderSize
  /\ \E size \in ReadSize(cur) :
       /\ got - cur - HeaderSize >= size
       /\ delivered' = Append(delivered,
                              [j \in 1 .. size |-> buf[cur + HeaderSize + j - 1]])
       /\ cur' = cur + size
  /\ UNCHANGED <<rd, buf, pos, rpc, got, rdhup, torn, sender, link>>

(* A whole message: on_data_cb is called with it, the loop goes on.        *)
Callback ==
  /\ Len(delivered) < MaxCalls
  /\ rpc = "parse" /\ cur < got
  /\ got - cur >= HeaderSize
  /\ \E size \in ReadSize(cur) :
       /\ got - cur - HeaderSize >= size
       /\ delivered' = Append(delivered,
                              [j \in 1 .. size |-> buf[cur + HeaderSize + j - 1]])
       /\ cur' = cur + HeaderSize + size
  /\ UNCHANGED <<rd, buf, pos, rpc, got, rdhup, torn, sender, link>>

(* Mutant: pos is not reset.                                               *)
DrainedKeepsPos ==
  /\ rpc = "parse" /\ cur >= got
  /\ buf' = [j \in Index |-> NulByte]
  /\ Return(rdhup)
  /\ UNCHANGED <<rd, pos, got, cur, rdhup, delivered, torn, sender, link>>

(* Everything was consumed: the buffer is emptied and cleared.             *)
Drained ==
  /\ rpc = "parse" /\ cur >= got
  /\ pos' = 0
  /\ buf' = [j \in Index |-> NulByte]
  /\ Return(rdhup)
  /\ UNCHANGED <<rd, got, cur, rdhup, delivered, torn, sender, link>>

OnData == Recv \/ ShortHeader \/ Incomplete \/ Callback \/ Drained

Next ==
  \/ \E size \in Sizes : SendHeader(size)
  \/ SendPayload \/ CloseSender
  \/ Arrive \/ ArriveFin \/ ArriveReset
  \/ OnData

Spec == Init /\ [][Next]_vars

(* The event loop keeps running, a thread inside send_data goes on, and    *)
(* the network delivers; nobody has to send, close or reset.               *)
FairSpec ==
  /\ Spec
  /\ WF_vars(OnData) /\ WF_vars(SendPayload)
  /\ WF_vars(Arrive) /\ WF_vars(ArriveFin)
-----------------------------------------------------------------------------
(* The values each part of the state may take; once the kernel has         *)
(* accepted, transported and returned them, bytes stay in that order.      *)
TypeOK ==
  /\ frames \in Seq(Frame)
  /\ sending \in BOOLEAN /\ closed \in BOOLEAN
  /\ sending => frames # << >>
  /\ rd \in Nat /\ arr \in Nat /\ wr \in Nat
  /\ rd <= arr /\ arr <= wr /\ wr - rd <= Capacity
  /\ hup \in {"none", "fin", "rst"}
  /\ buf \in [Index -> Int]
  /\ pos \in Nat /\ got \in Nat /\ cur \in Nat
  /\ rpc \in {"wait", "parse", "removed"}
  /\ rdhup \in BOOLEAN /\ torn \in BOOLEAN
  /\ delivered \in Seq(Seq(Int))

(* recv() gets a length that is not negative, and current_pos never runs   *)
(* past bytes_recv, so what is copied and the slice given to on_data_cb    *)
(* end before it.                                                          *)
IndexBounds ==
  /\ pos <= BufferSize
  /\ rpc = "parse" => cur <= got /\ got <= BufferSize

(* What on_data_cb got so far are the first messages given to send_data,   *)
(* each once, in order and with exactly its bytes.                         *)
InOrder ==
  \A i \in DOMAIN delivered : i \in DOMAIN frames /\ delivered[i] = Payload(i)

(* The header of frame i was accepted whole and tells the size.            *)
WholeHeader(i) ==
  /\ Printed(frames[i].size) = {frames[i].size}
  /\ frames[i].hdr = HeaderSize

WholeFrame(i) == WholeHeader(i) /\ frames[i].body = frames[i].size

(* None of the three accidents of this protocol has happened: a size with  *)
(* too many digits, a frame put behind one that send() took only a part    *)
(* of, a torn header.                                                      *)
Intact ==
  /\ ~torn
  /\ \A i \in DOMAIN frames : WholeHeader(i)
  /\ \A i \in 1 .. Len(frames) - 1 : WholeFrame(i)

(* on_data's recv(), copies and slices stay inside the receive buffer and  *)
(* the bytes received, also after the stream has been misread.  strtol,    *)
(* which is given no length, stays inside them too as long as no accident  *)
(* has happened; afterwards it may run past both.                          *)
BufferBounds ==
  /\ IndexBounds
  /\ Intact /\ rpc = "parse" /\ got - cur >= HeaderSize
       => Scanned(cur) \subseteq 0 .. got - 1

(* The accidents named in Intact are the only ones: without them messages  *)
(* arrive exactly, for every segmentation and any number in flight.        *)
IntactInOrder == Intact => InOrder

(* A connection the peer closed in order is not removed from the event     *)
(* loop while bytes of it are unread.                                      *)
HangupLosesNothing == (rpc = "removed" /\ hup = "fin") => rd = wr

(* A message that was accepted whole reaches on_data_cb, unless the        *)
(* connection is reset first.                                              *)
EventuallyDelivered ==
  \A i \in 1 .. MaxFrames :
    (i \in DOMAIN frames /\ WholeFrame(i))
      ~> (Len(delivered) >= i \/ hup = "rst")

(* The event loop does not wake up for ever over bytes it cannot use: in   *)
(* the end there is nothing to read or the descriptor is removed.          *)
NoBusyLoop == <>[](rpc = "removed" \/ (rpc = "wait" /\ ~Readable))

(* The connection seen from outside: messages sent, messages received.     *)
Channel == INSTANCE MessageChannel
             WITH sent <- [i \in DOMAIN frames |-> Payload(i)],
                  received <- delivered

(* Framing implements the abstract channel.                                *)
ImplementsChannel == Channel!Spec
=============================================================================
