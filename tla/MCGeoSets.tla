------------------------------ MODULE MCGeoSets ------------------------------
(* Values of the constants of GeoSets for TLC. *)
EXTENDS GeoSets, TLC

CONSTANTS s1, s2, g1, g2, p1, p2, p3, PlanPaths

Map(s, S) == [op |-> "map", slot |-> s, geos |-> S, path |-> "map"]
On(op, S, p) == [op |-> op, slot |-> s1, geos |-> S, path |-> p]

(* Mappings of two slots that overlap, one of them to no geography at all;   *)
(* plans that complete one version of the first slot and not the other, and  *)
(* a graph that fits only one of them.  A mapping has no path of its own.    *)
MCPaths == PlanPaths \cup {"map", "graph"}
MCRequests ==
  {Map(s1, {g1}), Map(s1, {g1, g2}), Map(s2, {g2}), Map(s1, {})}
  \cup {On("plan", {g1}, p) : p \in PlanPaths}
  \cup {On("graph", {g1, g2}, "graph")}

(* The mappings alone, for one worker. *)
MapRequests == {Map(s, {g}) : s \in Slots, g \in Geos}

Symmetry == Permutations(Workers) \cup Permutations(PlanPaths)
=============================================================================
