---------------------------- MODULE MCNamespaces ----------------------------
(* Values of the constants of Namespaces for TLC. *)
EXTENDS Namespaces, TLC

CONSTANTS u1, u2

(* One user sends overlapping requests, the other does not. *)
Overlapping == [u \in Users |-> IF u = u1 THEN 2 ELSE 1]

(* To read the private namespaces or one of them, or everything. *)
MCGrantable ==
  [perms : {{"read"}}, on : {"private"} \cup Paths] \cup [perms : {{"all"}}, on : {"all"}]

Symmetry == Permutations(Workers) \cup Permutations(Paths)
=============================================================================
