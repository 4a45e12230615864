------------------------------- MODULE MCFork -------------------------------
(* Forks between two namespaces, with and without each permission; those of *)
(* the second namespace are refused, since it is private.                   *)
EXTENDS Fork, TLC

CONSTANTS n1, n2

MCRequests ==
  {[source |-> n1, target |-> n2, extra |-> e, empty |-> z] : <<e, z>> \in BOOLEAN \X BOOLEAN}
    \cup {[source |-> n2, target |-> n1, extra |-> TRUE, empty |-> TRUE]}

Symmetric == Permutations(Workers) \cup Permutations(Paths)
=============================================================================
