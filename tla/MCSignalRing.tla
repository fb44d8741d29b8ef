---------------------------- MODULE MCSignalRing ----------------------------
(* The four programs of SignalRing with their three rounds each way. *)
EXTENDS SignalRing
=============================================================================
