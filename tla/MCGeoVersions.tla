---------------------------- MODULE MCGeoVersions ----------------------------
(* Values of the constants of GeoVersions for TLC. *)
EXTENDS GeoVersions, TLC

CONSTANTS p1, p2, h1, h2, i1, i2, i3

(* Creations and patches that overlap in paths, geometries and imports: a     *)
(* patch that leaves one of its geographies unchanged, patches that reuse    *)
(* an import, patches to the empty polygon with consent and without it.      *)
Create(o) == [op |-> "create", objs |-> o, imp |-> i1, allowEmpty |-> FALSE]
Patch(o, i, a) == [op |-> "patch", objs |-> o, imp |-> i, allowEmpty |-> a]

MCRequests ==
  {Create(o) : o \in {(p1 :> h2), (p1 :> h1 @@ p2 :> EmptyHash)}}
  \cup {Patch((p1 :> h2), i, FALSE) : i \in {i1, i2}}
  \cup {Patch((p1 :> h1 @@ p2 :> h2), i, FALSE) : i \in {i2, i3}}
  \cup {Patch((p1 :> EmptyHash), i3, a) : a \in BOOLEAN}

Symmetry == Permutations(Workers)
=============================================================================
