----------------------------- MODULE MCClosing ------------------------------
(* Closing for TLC.                                                        *)
EXTENDS Closing, TLC

\* The handles to listen at differ only in their address, and so do peers.
Symmetric == Permutations(Local) \cup Permutations(Peer)
=============================================================================
