---------------------------- MODULE MCInterview ----------------------------
(* Interview with three candidates, one message and sockets that hold one
   descriptor; one interviewer is started again and one candidate leaves. *)
EXTENDS Interview
=============================================================================
