---------------------------- MODULE TemporalTable ----------------------------
(***************************************************************************)
(* What a versioned table of GerryDB promises its readers: for every key   *)
(* and every instant, one value or none.  A write takes effect at an       *)
(* instant t; it never alters what the table says of the instants before   *)
(* t, and writes to a key take effect in strictly increasing instants, so  *)
(* that "the value as of t", once settled, can be cited for ever.          *)
(***************************************************************************)
EXTENDS Naturals

CONSTANTS Keys,    \* what is versioned (the geographies of one column)
          Vals,    \* the values a key may have
          Absent,  \* the answer for an instant before the first version
          Times    \* the instants, a set of naturals

VARIABLE asOf      \* asOf[k][t]: the value of k as of t

Writes == UNION {[S -> Vals] : S \in SUBSET Keys}

(* From t - 1 on the table says the same of k: no version of k starts at t or later. *)
Settled(k, t) == \A u, v \in {s \in Times : s + 1 >= t} : asOf[k][u] = asOf[k][v]

Init == asOf = [k \in Keys |-> [t \in Times |-> Absent]]

Write(b, t) ==
  /\ \A k \in DOMAIN b : Settled(k, t)
  /\ asOf' = [k \in Keys |-> [u \in Times |->
                IF k \in DOMAIN b /\ u >= t THEN b[k] ELSE asOf[k][u]]]

Next == \E b \in Writes, t \in Times : Write(b, t)

Spec == Init /\ [][Next]_asOf
=============================================================================
