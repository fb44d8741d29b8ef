------------------------------- MODULE MCPizza -------------------------------
(* Pizza with two orders, two starts of W1 and three of D. *)
EXTENDS Pizza
=============================================================================
