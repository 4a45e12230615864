--------------------------- MODULE MCColumnValues ---------------------------
(* Values of the constants of ColumnValues for TLC. *)
EXTENDS ColumnValues

CONSTANTS g1, g2, v1, v2

AllBatches == UNION {[S -> Vals] : S \in SUBSET Geos}

(* Three bodies that overlap and conflict: with three instants, two requests *)
(* contend for the same open row and for the same primary key.              *)
OverlappingBatches == [{g1, g2} -> {v1}] \cup [{g1, g2} -> {v2}] \cup [{g1} -> {v1}]
=============================================================================
