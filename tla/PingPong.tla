------------------------------ MODULE PingPong ------------------------------
(***************************************************************************)
(* The ping-pong example: a server listens, a client connects and sends,   *)
(* and from then on each answers in its on_data callback what it was sent. *)
(*                                                                         *)
(* The direction to the server is module Framing with all its bytes.  The  *)
(* direction back is MessageChannel, which Framing implements when one     *)
(* message is under way at a time (FramingProofs); that the exchange keeps *)
(* to this is checked here.                                                *)
(***************************************************************************)
EXTENDS Framing

VARIABLES
  listening, \* the server has registered its handle
  client,    \* the client's thread: new, running, or terminated by a throw
  words,     \* what the client said in each frame
  answers,   \* what the server's callback sent back
  heard      \* what the client's callback got

exchange == <<listening, client, words, answers, heard>>
allVars  == <<vars, exchange>>

Back == INSTANCE MessageChannel WITH sent <- answers, received <- heard

(* Mutant: strncmp is taken to answer whether its arguments are equal.     *)
ReplySwapped(word) == IF word = "Ping!" THEN "Ping!" ELSE "Pong!"

(* The callback of both sides: strncmp(data, "Ping!", size).               *)
ReplyTo(word) == IF word = "Ping!" THEN "Pong!" ELSE "Ping!"

(* The word in the last payload handed to the server's callback, or any if *)
(* those bytes are not a message of the client.                            *)
LastWord(payloads) ==
  LET n == Len(payloads) IN
    IF n \in DOMAIN frames /\ payloads[n] = Payload(n) THEN {words[n]}
    ELSE {"Ping!", "noise"}

-----------------------------------------------------------------------------
(* The server registers a handle to listen with; main() gives it a second. *)
ServerListens ==
  /\ ~listening /\ listening' = TRUE
  /\ UNCHANGED <<vars, client, words, answers, heard>>

(* The client's first send_data connects; if nobody listens yet it throws  *)
(* out of the constructor and the program terminates.                      *)
ClientStarts(size) ==
  /\ client = "new"
  /\ IF listening
     THEN client' = "running" /\ SendHeader(size) /\ words' = <<"PingPong!">>
     ELSE client' = "terminated" /\ UNCHANGED <<vars, words>>
  /\ UNCHANGED <<listening, answers, heard>>

(* The client's callback sends its answer on the connection.               *)
ClientAnswers(size) ==
  /\ client = "running" /\ frames # << >> /\ Len(heard) = Len(frames)
  /\ SendHeader(size)
  /\ words' = Append(words, ReplyTo(heard[Len(heard)]))
  /\ UNCHANGED <<listening, client, answers, heard>>

(* Mutant: the server has nothing to say to a word it does not know.       *)
ServerAnswersKnown ==
  /\ Callback
  /\ \E word \in LastWord(delivered') :
       answers' = IF word = "PingPong!" THEN answers ELSE Append(answers, ReplyTo(word))
  /\ UNCHANGED <<listening, client, words, heard>>

(* The server's callback, called by on_data, sends its answer at once.     *)
ServerAnswers ==
  /\ Callback
  /\ \E word \in LastWord(delivered') : answers' = Append(answers, ReplyTo(word))
  /\ UNCHANGED <<listening, client, words, heard>>

(* An answer reaches a client that is still there.                         *)
AnswerArrives ==
  /\ ~closed /\ Back!Deliver
  /\ UNCHANGED <<vars, listening, client, words>>

(* What else on_data does at the server, and the connection under it.      *)
ServerReads == (Recv \/ ShortHeader \/ Incomplete \/ Drained) /\ UNCHANGED exchange
ServerSide  == ServerReads \/ ServerAnswers
Link(step)  == client = "running" /\ step /\ UNCHANGED exchange

ExchangeInit ==
  /\ Init
  /\ listening = FALSE /\ client = "new"
  /\ words = << >> /\ answers = << >> /\ heard = << >>

ExchangeNext ==
  \/ ServerListens \/ ServerSide
  \/ \E size \in Sizes : ClientStarts(size) \/ ClientAnswers(size)
  \/ AnswerArrives
  \/ Link(SendPayload) \/ Link(Arrive)
  \/ Link(CloseSender) \/ Link(ArriveFin) \/ Link(ArriveReset)

(* Both threads run and both loops handle what is ready; the network       *)
(* delivers.  The client may go away or be reset at any time.              *)
ExchangeSpec ==
  /\ ExchangeInit /\ [][ExchangeNext]_allVars
  /\ WF_allVars(ServerListens) /\ WF_allVars(ServerSide)
  /\ WF_allVars(\E size \in Sizes : ClientStarts(size) \/ ClientAnswers(size))
  /\ WF_allVars(AnswerArrives)
  /\ WF_allVars(Link(SendPayload)) /\ WF_allVars(Link(Arrive)) /\ WF_allVars(Link(ArriveFin))
-----------------------------------------------------------------------------
(* The two take turns: at most one message is under way in both directions *)
(* together, so each keeps to what its channel asks of it; and the server  *)
(* says nothing but "Ping!", the client "Pong!" once it has begun.         *)
Alternates ==
  /\ Len(heard) <= Len(answers) /\ Len(answers) = Len(delivered)
  /\ Len(delivered) <= Len(frames) /\ Len(frames) <= Len(heard) + 1
  /\ \A i \in DOMAIN answers : answers[i] = "Ping!"
  /\ \A i \in DOMAIN words : i > 1 => words[i] = "Pong!"

(* The exchange goes on (to the bound of the model) unless the client did  *)
(* not find its server, has gone, or could not put a whole message into    *)
(* the socket.                                                             *)
GoesOn ==
  LET Cut == ~sending /\ frames # << >> /\ ~WholeFrame(Len(frames)) IN
    <>(client = "terminated" \/ closed \/ Cut \/ Len(heard) = MaxFrames)
=============================================================================
