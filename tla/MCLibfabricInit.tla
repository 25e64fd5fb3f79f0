-------------------------- MODULE MCLibfabricInit ---------------------------
(* LibfabricInit for TLC.                                                  *)
EXTENDS LibfabricInit

\* Handles to listen at (two of them with one port) and to connect to.
NoAddress    == [ip |-> "", port |-> 0]
At(ip, port) == [ip |-> ip, port |-> port]
Handles ==
  {[local |-> At(ip, 1), remote |-> NoAddress] : ip \in {"here", "there"}} \cup
  {[local |-> NoAddress, remote |-> At("there", port)] : port \in {1, 2}}
=============================================================================
