------------------------------ MODULE MCESSRing ------------------------------
(* ESSRing on small instances.  Clients differ in their names alone, and both   *)
(* the choice of sender and the choice of neighbour are symmetric in them.      *)
EXTENDS ESSRing, TLC

Sym == Permutations(Clients)
MCMaxKinds == (0 :> 0) @@ (1 :> 3) @@ (2 :> 3) @@ (3 :> 1)
=============================================================================
