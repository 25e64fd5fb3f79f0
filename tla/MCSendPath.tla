----------------------------- MODULE MCSendPath -----------------------------
(* SendPath for TLC.                                                       *)
EXTENDS SendPath, TLC

\* Two hosts, two ports.
At(ip, port) == [ip |-> ip, port |-> port]
Addresses    == {At(ip, port) : ip \in {"here", "there"}, port \in {1, 2}}
None         == {}
Here1        == {At("here", 1)}
There1       == {At("there", 1)}
HerePorts    == {At("here", 1), At("here", 2)}
There2       == {At("there", 2)}

\* The threads differ only in what they do.
Symmetric == Permutations(Thread)
=============================================================================
