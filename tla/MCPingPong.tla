----------------------------- MODULE MCPingPong -----------------------------
(* PingPong for TLC; the constants are given in the configuration.         *)
EXTENDS PingPong, FiniteSets
=============================================================================
