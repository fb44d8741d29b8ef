---------------------------- MODULE MCTurnTaking ----------------------------
(* TurnTaking with five messages a turn, a queue shorter than a turn, and a backlog   *)
(* that two connections of dead points fill.                                         *)
EXTENDS TurnTaking
=============================================================================
