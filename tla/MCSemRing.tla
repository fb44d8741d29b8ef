------------------------------ MODULE MCSemRing ------------------------------
(* The four programs of SemRing, stopped and started again up to twice. *)
EXTENDS SemRing
=============================================================================
