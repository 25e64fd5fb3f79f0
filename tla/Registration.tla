---------------------------- MODULE Registration ----------------------------
(***************************************************************************)
(* What register_handle of the Libfabric backend amounts to for the user   *)
(* of the Network interface (network.h): each address gets one attempt.    *)
(* It ends with a socket that works or with one that never will; neither   *)
(* outcome is ever taken back, and another address is not touched by it.   *)
(***************************************************************************)
CONSTANT Key        \* what a socket is registered under

VARIABLE status     \* of each key: "new", "ready" or "dead"

Init == status = [k \in Key |-> "new"]

(* One attempt comes to its end.                                           *)
Settle(k) ==
  /\ status[k] = "new"
  /\ \E outcome \in {"ready", "dead"} : status' = [status EXCEPT ![k] = outcome]

Next == \E k \in Key : Settle(k)

Spec == Init /\ [][Next]_status
=============================================================================
