------------------------------ MODULE MCMNServer ------------------------------
(* MNServer on a small instance: two servers that share their port.                *)
EXTENDS MNServer, TLC

CONSTANTS s1, s2

MCServers == {s1, s2}
MCFirst == (s1 :> 1 @@ s2 :> 1)
MCLast == (s1 :> 1 @@ s2 :> 1)
=============================================================================
