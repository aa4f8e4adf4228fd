------------------------------ MODULE MCPivots ------------------------------
(* An instance of Pivots for TLC: two addresses and a domain in front of them. *)
EXTENDS Pivots, TLC

CONSTANTS ip1, ip2, d1, x, y, as1

MCOwn == [i \in Ioc |-> CASE i = ip1 -> {x} [] i = ip2 -> {y} [] OTHER -> {}]
=============================================================================
