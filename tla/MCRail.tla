------------------------------- MODULE MCRail -------------------------------
(* Rail on a small instance: three stations, and two trains for the first. *)
EXTENDS Rail, TLC

CONSTANTS t1, t2, t3

MCTrains == {t1, t2, t3}
MCDest == (t1 :> 1) @@ (t2 :> 2) @@ (t3 :> 1)
=============================================================================
