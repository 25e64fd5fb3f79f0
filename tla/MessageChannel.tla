--------------------------- MODULE MessageChannel ---------------------------
(***************************************************************************)
(* What a user of the Network interface (network.h, class Network) expects *)
(* of one direction of one connection: every message handed to send_data   *)
(* reaches the peer's on_data callback once, whole and in order.  Messages *)
(* that are still under way when the connection ends are lost.             *)
(***************************************************************************)
EXTENDS Naturals, Sequences

VARIABLES sent,      \* the messages handed to send_data, in order
          received   \* the messages the on_data callback was called with

chan == <<sent, received>>

Init == /\ sent = << >>
        /\ received = << >>

(* A message is appended to what was sent, nothing else changes.           *)
Send == /\ Len(sent') = Len(sent) + 1
        /\ sent' = Append(sent, sent'[Len(sent) + 1])
        /\ UNCHANGED received

(* The callback is called with the next message that was sent.             *)
Deliver == /\ Len(received) < Len(sent)
           /\ received' = Append(received, sent[Len(received) + 1])
           /\ UNCHANGED sent

Next == Send \/ Deliver

Spec == Init /\ [][Next]_chan
=============================================================================
