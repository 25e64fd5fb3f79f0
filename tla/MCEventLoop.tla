---------------------------- MODULE MCEventLoop -----------------------------
(* EventLoop for TLC.                                                      *)
EXTENDS EventLoop, TLC

\* The threads differ only in what they do.
Symmetric == Permutations(Thread)
=============================================================================
