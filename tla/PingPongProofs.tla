-------------------------- MODULE PingPongProofs ---------------------------
(***************************************************************************)
(* Theorems about PingPong: the example uses its connection as             *)
(* FramingProofs asks, for every size of header, buffer and kernel buffers *)
(* with room for a header, and for any number of messages.                 *)
(***************************************************************************)
EXTENDS PingPong, FramingProofs

(* What the two sides may say: the client never "Ping!", the server only   *)
(* that.                                                                   *)
ClientWords == {"PingPong!", "Pong!"}
ServerWords == {"Ping!"}

(* What has been said so far: a word for each frame, an answer for each    *)
(* message delivered, and the client has heard the first of the answers.   *)
SaidInv ==
  /\ words \in Seq(ClientWords) /\ Len(words) = Len(frames)
  /\ answers \in Seq(ServerWords) /\ Len(answers) = Len(delivered)
  /\ heard \in Seq(ServerWords) /\ Len(heard) <= Len(answers)
  /\ \A i \in DOMAIN heard : heard[i] = answers[i]
  /\ client # "running" => frames = << >> /\ heard = << >>

ExchangeInv == FramingInv /\ PingPongInv /\ SaidInv /\ Alternates
-----------------------------------------------------------------------------
LEMMA WordsAre ==
  ASSUME SaidInv, TypeOK
  PROVE  /\ DOMAIN words = 1 .. Len(frames) /\ DOMAIN answers = 1 .. Len(answers)
         /\ DOMAIN heard = 1 .. Len(heard)
         /\ Len(frames) \in Nat /\ Len(answers) \in Nat /\ Len(heard) \in Nat
<1>1. words \in Seq(ClientWords) /\ answers \in Seq(ServerWords) /\ heard \in Seq(ServerWords)
      /\ Len(words) = Len(frames)
  BY DEF SaidInv
<1> QED  BY <1>1, FramesAre

(* The last element of a sequence, after Append.                           *)
LEMMA Appended ==
  ASSUME NEW S, NEW s \in Seq(S), NEW e \in S
  PROVE  /\ Append(s, e) \in Seq(S) /\ Len(Append(s, e)) = Len(s) + 1
         /\ DOMAIN Append(s, e) = 1 .. Len(s) + 1
         /\ \A i \in 1 .. Len(s) : Append(s, e)[i] = s[i]
         /\ Append(s, e)[Len(s) + 1] = e
  OBVIOUS

(* Everything the exchange does to the connection, the framing may do.     *)
LEMMA ExchangeFrames == ExchangeNext => [Next]_vars
<1> SUFFICES ASSUME ExchangeNext PROVE [Next]_vars
  OBVIOUS
<1>1. ASSUME NEW size \in Sizes, ClientStarts(size) \/ ClientAnswers(size)
      PROVE  [Next]_vars
  BY <1>1 DEF ClientStarts, ClientAnswers, Next
<1>2. CASE ServerListens \/ AnswerArrives
  BY <1>2 DEF ServerListens, AnswerArrives
<1>3. CASE ServerSide
  BY <1>3 DEF ServerSide, ServerReads, ServerAnswers, Next, OnData
<1>5. CASE \/ Link(SendPayload) \/ Link(Arrive)
           \/ Link(CloseSender) \/ Link(ArriveFin) \/ Link(ArriveReset)
  BY <1>5 DEF Link, Next
<1> QED  BY <1>1, <1>2, <1>3, <1>5 DEF ExchangeNext

(* A step of the server or the network that is no callback.                *)
LEMMA QuietSaid ==
  ASSUME FramingInv, SaidInv, Alternates, UNCHANGED <<client, words, answers, heard>>,
         Len(frames') = Len(frames), Len(delivered') = Len(delivered),
         frames = << >> <=> frames' = << >>
  PROVE  SaidInv' /\ Alternates'
  BY DEF SaidInv, Alternates

(* A new frame: either the first, or the answer to what the server said    *)
(* last, which is "Ping!".                                                 *)
LEMMA ClientSaid ==
  ASSUME FramingInv, SaidInv, Alternates, NEW size \in Sizes,
         ClientStarts(size) \/ ClientAnswers(size)
  PROVE  SaidInv' /\ Alternates'
<1>0. TypeOK
  BY DEF FramingInv
<1>1. CASE client' = "terminated"
  <2>1. client = "new" /\ UNCHANGED <<frames, delivered, words, answers, heard>>
    BY <1>1 DEF ClientStarts, ClientAnswers, vars, sender, loop
  <2> QED  BY <1>1, <2>1 DEF SaidInv, Alternates
<1>2. CASE client' # "terminated"
  <2>1. SendHeader(size) /\ client' = "running" /\ UNCHANGED <<answers, heard, delivered>>
    BY <1>2 DEF ClientStarts, ClientAnswers, SendHeader, loop
  <2>2. PICK f \in Frame : frames' = Append(frames, f)
    BY <1>0, <2>1, SendHeaderFrame
  <2>3. Len(frames') = Len(frames) + 1
    BY <1>0, <2>2, FramesAre
  <2>4. PICK w \in ClientWords : words' = Append(words, w) /\ (Len(words) > 0 => w = "Pong!")
                           /\ Len(frames) <= Len(heard)
    <3>1. CASE ClientStarts(size)
      <4>1. client = "new" /\ words' = <<"PingPong!">>
        BY <2>1, <3>1, <1>2 DEF ClientStarts
      <4>2. Len(frames) = 0 /\ words = << >> /\ Len(heard) = 0
        <5>1. frames = << >> /\ heard = << >> /\ words \in Seq(ClientWords) /\ Len(words) = Len(frames)
          BY <4>1 DEF SaidInv
        <5> QED  BY <5>1
      <4>3. words' = Append(words, "PingPong!") /\ Len(words) = 0
        BY <4>1, <4>2
      <4> QED  BY <4>2, <4>3 DEF ClientWords
    <3>2. CASE ClientAnswers(size)
      <4>1. /\ frames # << >> /\ Len(heard) = Len(frames)
            /\ words' = Append(words, ReplyTo(heard[Len(heard)]))
        BY <3>2 DEF ClientAnswers
      <4>2. Len(heard) \in DOMAIN heard /\ Len(heard) \in DOMAIN answers
        BY <1>0, <4>1, WordsAre, FramesAre DEF SaidInv
      <4>3. heard[Len(heard)] = "Ping!"
        BY <4>2 DEF SaidInv, Alternates
      <4>4. Len(frames) \in Nat
        BY <1>0, FramesAre
      <4> QED  BY <4>1, <4>3, <4>4 DEF ReplyTo, ClientWords
    <3> QED  BY <2>1, <3>1, <3>2 DEF ClientStarts
  <2>5. words \in Seq(ClientWords) /\ Len(words) = Len(frames) /\ Len(words) \in Nat
    BY DEF SaidInv
  <2>6. /\ words' \in Seq(ClientWords) /\ Len(words') = Len(words) + 1
        /\ DOMAIN words' = 1 .. Len(words) + 1 /\ DOMAIN words = 1 .. Len(words)
        /\ \A i \in 1 .. Len(words) : words'[i] = words[i]
        /\ words'[Len(words) + 1] = w
    BY <2>4, <2>5, Appended
  <2>7. SaidInv'
    BY <2>1, <2>3, <2>5, <2>6 DEF SaidInv
  <2>8. \A i \in DOMAIN words' : i > 1 => words'[i] = "Pong!"
    <3> SUFFICES ASSUME NEW i \in DOMAIN words', i > 1 PROVE words'[i] = "Pong!"
      OBVIOUS
    <3>1. CASE i \in DOMAIN words
      BY <2>6, <3>1 DEF Alternates
    <3>2. CASE i = Len(words) + 1
      BY <2>4, <2>5, <2>6, <3>2
    <3> QED  BY <2>5, <2>6, <3>1, <3>2
  <2>9. Len(delivered) <= Len(frames') /\ Len(frames') <= Len(heard) + 1
    BY <1>0, <2>3, <2>4, FramesAre, DeliveredAre, WordsAre DEF Alternates
  <2> QED  BY <2>1, <2>7, <2>8, <2>9 DEF Alternates
<1> QED  BY <1>1, <1>2

(* The callback of the server: what it is given is the client's word, as   *)
(* the framing delivers in order, and that is never "Ping!".               *)
LEMMA ServerSaid ==
  ASSUME FramingInv, FramingInv', PingPongInv', SaidInv, Alternates, ServerAnswers
  PROVE  SaidInv' /\ Alternates'
<1>1. TypeOK /\ TypeOK' /\ InOrder' /\ UNCHANGED <<frames, client, words, heard>>
  BY DEF FramingInv, PingPongInv, ReceiverInv, ServerAnswers, Callback, sender
<1>2. PICK e : delivered' = Append(delivered, e)
  BY DEF ServerAnswers, Callback
<1>3. Len(delivered') = Len(delivered) + 1 /\ Len(delivered') \in DOMAIN delivered'
  BY <1>1, <1>2 DEF TypeOK
<1> DEFINE n == Len(delivered')
<1>4. n \in DOMAIN frames /\ delivered'[n] = Payload(n)
  BY <1>1, <1>3 DEF InOrder, Payload
<1>5. LastWord(delivered') = {words[n]}
  BY <1>4 DEF LastWord
<1>6. words[n] # "Ping!"
  <2>1. words \in Seq(ClientWords) /\ n \in DOMAIN words
    BY <1>1, <1>4, WordsAre, FramesAre DEF SaidInv
  <2>2. words[n] \in ClientWords
    BY <2>1
  <2> QED  BY <2>2 DEF ClientWords
<1>7. answers' = Append(answers, "Ping!")
  BY <1>5, <1>6 DEF ServerAnswers, ReplyTo
<1>8. /\ answers \in Seq(ServerWords) /\ Len(answers) \in Nat
      /\ Len(answers) = Len(delivered) /\ DOMAIN answers = 1 .. Len(answers)
      /\ Len(heard) <= Len(answers) /\ Len(heard) \in Nat /\ DOMAIN heard = 1 .. Len(heard)
  BY <1>1, WordsAre DEF SaidInv
<1>9. /\ answers' \in Seq(ServerWords) /\ Len(answers') = Len(answers) + 1
      /\ DOMAIN answers' = 1 .. Len(answers) + 1
      /\ \A i \in 1 .. Len(answers) : answers'[i] = answers[i]
  <2>1. "Ping!" \in ServerWords
    BY DEF ServerWords
  <2> QED  BY <1>7, <1>8, <2>1, Appended
<1>10. \A i \in DOMAIN answers' : answers'[i] = "Ping!"
  <2>1. \A i \in DOMAIN answers' : answers'[i] \in ServerWords
    BY <1>9
  <2> QED  BY <2>1 DEF ServerWords
<1>11. \A i \in DOMAIN heard : heard'[i] = answers'[i]
  BY <1>1, <1>8, <1>9 DEF SaidInv
<1>12. Len(answers') = Len(delivered') /\ Len(heard) <= Len(answers')
  BY <1>3, <1>8, <1>9
<1>13. Len(delivered') <= Len(frames')
  BY <1>1, <1>4, FramesAre
<1>14. SaidInv'
  BY <1>1, <1>9, <1>11, <1>12 DEF SaidInv
<1>15. Alternates'
  BY <1>1, <1>10, <1>12, <1>13 DEF Alternates
<1> QED  BY <1>14, <1>15

(* The client hears the next of the answers.                               *)
LEMMA HeardSaid ==
  ASSUME FramingInv, SaidInv, Alternates, AnswerArrives
  PROVE  SaidInv' /\ Alternates'
<1>1. /\ UNCHANGED <<frames, delivered, client, words, answers>>
      /\ Len(heard) < Len(answers) /\ heard' = Append(heard, answers[Len(heard) + 1])
  BY DEF AnswerArrives, Back!Deliver, vars, sender, loop
<1>2. /\ TypeOK /\ Len(frames) \in Nat /\ Len(delivered) \in Nat
      /\ answers \in Seq(ServerWords) /\ Len(answers) \in Nat /\ DOMAIN answers = 1 .. Len(answers)
      /\ heard \in Seq(ServerWords) /\ Len(heard) \in Nat /\ DOMAIN heard = 1 .. Len(heard)
  BY WordsAre, FramesAre, DeliveredAre DEF SaidInv, FramingInv
<1>3. answers[Len(heard) + 1] \in ServerWords
  BY <1>1, <1>2
<1>4. /\ heard' \in Seq(ServerWords) /\ Len(heard') = Len(heard) + 1
      /\ DOMAIN heard' = 1 .. Len(heard) + 1
      /\ \A i \in 1 .. Len(heard) : heard'[i] = heard[i]
      /\ heard'[Len(heard) + 1] = answers[Len(heard) + 1]
  BY <1>1, <1>2, <1>3, Appended
<1>5. \A i \in DOMAIN heard' : heard'[i] = answers'[i]
  BY <1>1, <1>2, <1>4 DEF SaidInv
<1>6. client = "running"
  BY <1>1, <1>2 DEF SaidInv, Alternates
<1>7. SaidInv'
  BY <1>1, <1>2, <1>4, <1>5, <1>6 DEF SaidInv
<1>8. Alternates'
  BY <1>1, <1>2, <1>4 DEF Alternates
<1> QED  BY <1>7, <1>8

(* The client has heard the answers to all it said before it says more, so *)
(* it never has two messages under way, whatever the window allows.        *)
LEMMA ExchangeOneAtATime ==
  ASSUME ExchangeInv, [ExchangeNext]_allVars
  PROVE  OneAtATime
<1>1. SaidInv /\ TypeOK
  BY DEF ExchangeInv, FramingInv
<1>2. Len(heard) <= Len(delivered) /\ Len(delivered) \in Nat
  BY <1>1, DeliveredAre DEF SaidInv
<1> SUFFICES ASSUME NEW n \in Sizes, SendHeader(n)
             PROVE  Len(frames) <= Len(delivered)
  BY DEF OneAtATime
<1>3. ~sending /\ sending'
  BY DEF SendHeader
<1>4. CASE \E size \in Sizes : ClientStarts(size) \/ ClientAnswers(size)
  <2>1. client = "new" \/ Len(heard) = Len(frames)
    BY <1>4 DEF ClientStarts, ClientAnswers
  <2>2. client = "new" => Len(frames) = 0
    BY <1>1 DEF SaidInv
  <2> QED  BY <1>2, <2>1, <2>2
<1>5. CASE UNCHANGED allVars \/ ServerListens \/ ServerSide \/ AnswerArrives
  BY <1>3, <1>5 DEF allVars, vars, sender, ServerListens, AnswerArrives, ServerSide, ServerReads,
                    ServerAnswers, Recv, ShortHeader, Incomplete, Callback, Drained
<1>6. CASE \/ Link(SendPayload) \/ Link(Arrive)
           \/ Link(CloseSender) \/ Link(ArriveFin) \/ Link(ArriveReset)
  BY <1>3, <1>6 DEF Link, SendPayload, Arrive, CloseSender, ArriveFin, ArriveReset, sender
<1> QED  BY <1>4, <1>5, <1>6 DEF ExchangeNext

LEMMA ExchangeStep ==
  ASSUME HeadersFit, ExchangeInv, [ExchangeNext]_allVars
  PROVE  ExchangeInv'
<1>1. /\ FramingInv /\ PingPongInv /\ SaidInv /\ Alternates /\ TypeOK
  BY DEF ExchangeInv, FramingInv
<1>2. [Next]_vars
  BY ExchangeFrames DEF allVars
<1>3. FramingInv' /\ PingPongInv'
  BY <1>1, <1>2, ExchangeOneAtATime, NextFraming, PingPongStep
<1>4. SaidInv' /\ Alternates'
  <2>1. CASE UNCHANGED allVars \/ ServerListens
    BY <1>1, <2>1, QuietSaid DEF allVars, exchange, vars, sender, loop, ServerListens
  <2>2. ASSUME NEW size \in Sizes, ClientStarts(size) \/ ClientAnswers(size)
        PROVE  SaidInv' /\ Alternates'
    BY <1>1, <2>2, ClientSaid
  <2>3. CASE ServerAnswers
    BY <1>1, <1>3, <2>3, ServerSaid
  <2>4. CASE AnswerArrives
    BY <1>1, <2>4, HeardSaid
  <2>5. CASE \/ ServerReads \/ Link(Arrive)
             \/ Link(CloseSender) \/ Link(ArriveFin) \/ Link(ArriveReset)
    <3>1. UNCHANGED <<frames, delivered, client, words, answers, heard>>
      BY <2>5 DEF ServerReads, Link, Recv, ShortHeader, Incomplete, Drained, Arrive, CloseSender,
                  ArriveFin, ArriveReset, sender, loop, exchange
    <3> QED  BY <1>1, <3>1, QuietSaid
  <2>6. CASE Link(SendPayload)
    <3>1. SendPayload /\ UNCHANGED <<delivered, client, words, answers, heard>>
      BY <2>6 DEF Link, exchange, SendPayload, loop
    <3>2. Len(frames') = Len(frames) /\ Len(frames) > 0
      BY <1>1, <3>1, SendPayloadFrame
    <3>3. frames # << >> /\ frames' # << >>
      BY <3>2
    <3> QED  BY <1>1, <3>1, <3>2, <3>3, QuietSaid
  <2> QED  BY <1>3, <2>1, <2>2, <2>3, <2>4, <2>5, <2>6 DEF ExchangeNext, ServerSide
<1> QED  BY <1>3, <1>4 DEF ExchangeInv

LEMMA ExchangeStart == ExchangeInit => ExchangeInv
<1> SUFFICES ASSUME ExchangeInit PROVE ExchangeInv
  OBVIOUS
<1>1. FramingInv /\ PingPongInv
  BY InitFraming, PingPongInit DEF ExchangeInit
<1>2. /\ frames = << >> /\ delivered = << >> /\ words = << >> /\ answers = << >> /\ heard = << >>
  BY DEF ExchangeInit, Init
<1>3. SaidInv /\ Alternates
  BY <1>2 DEF SaidInv, Alternates
<1> QED  BY <1>1, <1>3 DEF ExchangeInv

THEOREM PingPongInvariant == ASSUME HeadersFit PROVE ExchangeSpec => []ExchangeInv
<1>1. ExchangeInit => ExchangeInv
  BY ExchangeStart
<1>2. ExchangeInv /\ [ExchangeNext]_allVars => ExchangeInv'
  BY ExchangeStep
<1> QED  BY <1>1, <1>2, PTL DEF ExchangeSpec

(* The exchange takes turns, whatever the segments, sizes, buffers and the *)
(* window: that it does rests on what the framing delivers to the          *)
(* callbacks, which in turn rests on the exchange having taken turns so    *)
(* far.                                                                    *)
THEOREM PingPongAlternates == ASSUME HeadersFit PROVE ExchangeSpec => []Alternates
<1>1. ExchangeInv => Alternates
  BY DEF ExchangeInv
<1> QED  BY <1>1, PingPongInvariant, PTL

(* The connection of the example carries its messages as the abstract      *)
(* channel does.                                                           *)
THEOREM PingPongImplementsChannel ==
  ASSUME HeadersFit
  PROVE  ExchangeSpec => ImplementsChannel
<1>1. ExchangeInit => Channel!Init
  BY ChannelStarts DEF ExchangeInit
<1>2. ExchangeInv /\ [ExchangeNext]_allVars => [Channel!Next]_(Channel!chan)
  BY ExchangeFrames, ChannelStep DEF ExchangeInv, allVars
<1> QED
  BY <1>1, <1>2, PingPongInvariant, PTL DEF ExchangeSpec, ImplementsChannel, Channel!Spec

(* When the client goes away in order, the server reads all it said before *)
(* evloop_run removes the connection: the event that carries EPOLLRDHUP is *)
(* handled by one recv(), which takes all there is.                        *)
THEOREM PingPongHangupLosesNothing ==
  ASSUME HeadersFit, MessagesFit
  PROVE  ExchangeSpec => []HangupLosesNothing
<1>1. ExchangeInit => HangupInv
  BY DEF ExchangeInit, Init, HangupInv
<1>2. ExchangeInv /\ HangupInv /\ [ExchangeNext]_allVars => HangupInv'
  BY ExchangeFrames, HangupStep DEF ExchangeInv, allVars
<1>3. HangupInv => HangupLosesNothing
  BY DEF HangupInv, HangupLosesNothing
<1> QED  BY <1>1, <1>2, <1>3, PingPongInvariant, PTL DEF ExchangeSpec
=============================================================================
