----------------------------- MODULE MCPingPong -----------------------------
(* PingPong with small numbers, stopped and started again up to twice. *)
EXTENDS PingPong
=============================================================================
