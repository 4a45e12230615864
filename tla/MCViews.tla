------------------------------- MODULE MCViews -------------------------------
(* Views on two namespaces with the same two paths. *)
EXTENDS Views, TLC

CONSTANTS home, other, p1, p2, h1, h2

Whole(n, v) == [g \in {n} \X {p1, p2} |-> v]
MCBatches == {Whole(home, 0), (<<home, p1>> :> 1), (<<other, p1>> :> 1)}
MCPatches == {(<<home, p1>> :> h2), (<<other, p1>> :> h2)}
MCEdgeLists == {{<<<<home, p1>>, <<home, p2>>>>}}
MCRemaps == {{<<home, p1>>}}
Symmetry == Permutations(SetIds)
=============================================================================
