---------------------------- MODULE MCPingPong ----------------------------
(* PingPong for TLC. *)
EXTENDS PingPong
=============================================================================
