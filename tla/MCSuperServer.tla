---------------------------- MODULE MCSuperServer ----------------------------
(* SuperServer with three clients of two messages each and one death. *)
EXTENDS SuperServer
=============================================================================
