-------------------------------- MODULE Turns --------------------------------
(***************************************************************************)
(* What a ring of processes promises: a turn that goes from each process   *)
(* to its right neighbour, the first one having it at the start.  Only a   *)
(* fault takes a turn away, and only a fault gives one, to process 1: as   *)
(* many turns are made up as there were faults, and no more.               *)
(***************************************************************************)
EXTENDS Integers

CONSTANT N
Procs == 1..N
Right(p) == IF p = N THEN 1 ELSE p + 1

VARIABLES turns, faults         \* turns each process has, faults so far
vars == <<turns, faults>>

Init == turns = [p \in Procs |-> IF p = 1 THEN 1 ELSE 0] /\ faults = 0

Pass(p) ==
    /\ turns[p] > 0
    /\ turns' = [turns EXCEPT ![p] = @ - 1, ![Right(p)] = @ + 1]
    /\ UNCHANGED faults

Fault(p) ==
    /\ \/ turns[p] > 0 /\ turns' = [turns EXCEPT ![p] = @ - 1]
       \/ p = 1 /\ turns' = [turns EXCEPT ![p] = @ + 1]
       \/ UNCHANGED turns
    /\ faults' = faults + 1

Next == \E p \in Procs : Pass(p) \/ Fault(p)
Spec == Init /\ [][Next]_vars
=============================================================================
