--------------------------- MODULE MessageStreams ---------------------------
(***************************************************************************)
(* What the users of send_data expect of all connections together: each    *)
(* message goes into one connection, once, as a header and a payload with  *)
(* nothing between them, and what a connection has carried stays as it is. *)
(* A message may also go nowhere: its sender throws or its peer is gone.   *)
(***************************************************************************)
EXTENDS Naturals, Sequences

VARIABLES issued,   \* the number of messages handed to send_data
          whole,    \* of each connection, the messages it has carried
          partial   \* of each connection, the message whose payload is to
                    \* come, or 0

streams == <<issued, whole, partial>>

Init == issued = 0 /\ whole = << >> /\ partial = << >>

(* A message is handed to send_data.                                       *)
Issue == issued' = issued + 1 /\ UNCHANGED <<whole, partial>>

(* There is one more connection.                                           *)
Open == /\ whole' = Append(whole, << >>)
        /\ partial' = Append(partial, 0)
        /\ UNCHANGED issued

Started(m) ==
  \E c \in DOMAIN whole : partial[c] = m \/ \E i \in DOMAIN whole[c] : whole[c][i] = m

(* A message's header goes into a connection that waits for no payload.    *)
Begin(c) ==
  /\ partial[c] = 0
  /\ \E m \in 1 .. issued : ~Started(m) /\ partial' = [partial EXCEPT ![c] = m]
  /\ UNCHANGED <<issued, whole>>

(* The payload of the message at hand.                                     *)
Complete(c) ==
  /\ partial[c] # 0
  /\ whole' = [whole EXCEPT ![c] = Append(@, partial[c])]
  /\ partial' = [partial EXCEPT ![c] = 0]
  /\ UNCHANGED issued

Next == Issue \/ Open \/ \E c \in DOMAIN whole : Begin(c) \/ Complete(c)

Spec == Init /\ [][Next]_streams
=============================================================================
