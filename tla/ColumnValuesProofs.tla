------------------------- MODULE ColumnValuesProofs -------------------------
(***************************************************************************)
(* Proofs about ColumnValues for every set of workers, geographies, values *)
(* and request bodies, and every bound on the clock.                       *)
(*                                                                         *)
(* NoValueLost is not inductive: that a commit adds a version for every    *)
(* geography it closes one for depends on what the transaction read, and   *)
(* that the versions it closes are not the ones it adds on the keys it     *)
(* holds.  OnlyWritten, Holding and Reserved say so of a transaction in    *)
(* flight.                                                                 *)
(***************************************************************************)
EXTENDS ColumnValues, TLAPS

USE NullAssumption, MaxTimeAssumption, BatchesAssumption

(* with_tuples names versions of geo_ids_to_insert only, and no other       *)
(* geography is written than those of the request.                          *)
OnlyWritten ==
  \A w \in Workers :
    /\ req[w].write \subseteq DOMAIN req[w].batch
    /\ \A k \in req[w].targets : k[1] \in req[w].write
    /\ req[w].pc = "started" => req[w].targets = {}

(* What a request holds before, during and after its INSERT. *)
Holding ==
  \A w \in Workers :
    /\ req[w].pc \in {"idle", "started", "diffed"} => req[w].held = {}
    /\ req[w].pc = "read" => req[w].at \in NewKeys(w)
    /\ req[w].pc = "inserted" => NewKeys(w) \subseteq req[w].held

(* A row is held by one request, and an inserted one is not in the table.    *)
Reserved ==
  \A v \in Workers :
    /\ \A r \in rows : Key(r) \in req[v].held => Key(r) \notin NewKeys(v)
    /\ \A w \in Workers \ {v} : req[v].held \cap req[w].held = {}

(* The primary key. *)
KeysUnique == \A r, s \in rows : Key(r) = Key(s) => r = s

Inv == TypeOK /\ OnlyWritten /\ Holding /\ Reserved /\ KeysUnique /\ NoValueLost

(* A batch is a function from some geographies to values. *)
LEMMA BatchType ==
  ASSUME NEW b \in Batches \cup {NoBatch}
  PROVE  /\ DOMAIN b \subseteq Geos
         /\ \A g \in DOMAIN b : b[g] \in Vals
<1>1. CASE b \in Batches
  BY <1>1
<1>2. CASE b = NoBatch
  BY <1>2 DEF NoBatch
<1> QED
  BY <1>1, <1>2

(* An idle request is a request. *)
LEMMA IdleType == Idle \in Request
  BY DEF Idle, Request

(* A row that the INSERT or the UPDATE takes adds to what the request holds. *)
LEMMA RowTaken ==
  ASSUME TypeOK, NEW w \in Workers, InsertRow(w) \/ CloseRow(w)
  PROVE  /\ UNCHANGED <<clock, rows>>
         /\ \A v \in Workers \ {w} : req'[v] = req[v]
         /\ req'[w].write = req[w].write /\ req'[w].now = req[w].now
         /\ req'[w].batch = req[w].batch /\ req'[w].targets = req[w].targets
         /\ req'[w].held = req[w].held \cup {req[w].at}
         /\ req'[w].pc \in {"read", "inserted"} /\ req[w].pc \in {"read", "inserted"}
<1> USE DEF TypeOK, Request
<1>1. CASE InsertRow(w)
  <2> DEFINE left == NewKeys(w) \ (req[w].held \cup {req[w].at})
             pc == IF left = {} THEN "inserted" ELSE "read"
  <2>1. PICK k : req' = [req EXCEPT ![w] = [req[w] EXCEPT !.pc = pc,
                           !.held = req[w].held \cup {req[w].at}, !.at = k]]
    BY <1>1 DEF InsertRow
  <2>2. pc \in {"read", "inserted"}
    OBVIOUS
  <2> HIDE DEF pc
  <2>3. /\ \A v \in Workers \ {w} : req'[v] = req[v]
        /\ req'[w] = [req[w] EXCEPT !.pc = pc, !.held = req[w].held \cup {req[w].at}, !.at = k]
    BY <2>1
  <2>4. UNCHANGED <<clock, rows>> /\ req[w].pc = "read"
    BY <1>1 DEF InsertRow
  <2> QED
    BY <2>2, <2>3, <2>4
<1>2. CASE CloseRow(w)
  <2>1. PICK k : req' = [req EXCEPT ![w] = [req[w] EXCEPT
                           !.held = req[w].held \cup {req[w].at}, !.at = k]]
    BY <1>2 DEF CloseRow
  <2> QED
    BY <1>2, <2>1 DEF CloseRow
<1> QED
  BY <1>1, <1>2

-----------------------------------------------------------------------------
(* Every step keeps the types. *)
LEMMA TypeStep == TypeOK /\ OnlyWritten /\ Holding /\ [Next]_vars => TypeOK'
<1> SUFFICES ASSUME TypeOK, OnlyWritten, Holding, [Next]_vars
             PROVE  TypeOK'
  OBVIOUS
<1> USE IdleType DEF TypeOK
<1>1. CASE Tick
  BY <1>1 DEF Tick
<1>2. ASSUME NEW w \in Workers, NEW b \in Batches, Start(w, b)
      PROVE  TypeOK'
  <2>1. [Idle EXCEPT !.pc = "started", !.now = clock, !.batch = b] \in Request
    BY DEF Idle, Request
  <2> QED
    BY <1>2, <2>1 DEF Start
<1>3. ASSUME NEW w \in Workers, Diff(w)
      PROVE  TypeOK'
  <2>1. Changed(w) \subseteq Geos
    BY BatchType DEF Changed, Request
  <2>2. [req[w] EXCEPT !.pc = IF Changed(w) = {} THEN "inserted" ELSE "diffed",
                       !.write = Changed(w)] \in Request
    BY <2>1 DEF Request
  <2> QED
    BY <1>3, <2>2 DEF Diff
<1>4. ASSUME NEW w \in Workers, ReadTargets(w)
      PROVE  TypeOK'
  <2>1. {Key(r) : r \in OpenRows(req[w].write)} \subseteq Geos \X Nat
    BY DEF OpenRows, Key, Row
  <2>2. \A k \in NewKeys(w) : k \in Geos \X Nat
    BY DEF NewKeys, Request
  <2>3. ASSUME NEW k \in NewKeys(w)
        PROVE  [req[w] EXCEPT !.pc = "read", !.at = k,
                              !.targets = {Key(r) : r \in OpenRows(req[w].write)}] \in Request
    BY <2>1, <2>2 DEF Request
  <2> QED
    BY <1>4, <2>3 DEF ReadTargets
<1>a. ASSUME NEW w \in Workers, NEW next, NEW left, next \in NextOf(left),
             left \subseteq Geos \X Nat, req[w].at \in Geos \X Nat, NEW pc,
             pc \in {"read", "inserted"}
      PROVE  [req[w] EXCEPT !.pc = pc, !.held = req[w].held \cup {req[w].at}, !.at = next]
               \in Request
  <2>1. next \in (Geos \X Nat) \cup {Null}
    BY <1>a DEF NextOf
  <2>2. req[w].held \cup {req[w].at} \in SUBSET (Geos \X Nat)
    BY <1>a DEF Request
  <2> QED
    BY <1>a, <2>1, <2>2 DEF Request
<1>5. ASSUME NEW w \in Workers, InsertRow(w)
      PROVE  TypeOK'
  <2> DEFINE left == NewKeys(w) \ (req[w].held \cup {req[w].at})
             rest == IF left = {} THEN req[w].targets ELSE left
             pc == IF left = {} THEN "inserted" ELSE "read"
  <2>1. \A k \in NewKeys(w) : k \in Geos \X Nat
    BY DEF NewKeys, Request
  <2>2. req[w].at \in Geos \X Nat
    BY <1>5, <2>1 DEF InsertRow, Holding
  <2>3. rest \subseteq Geos \X Nat
    BY <2>1 DEF Request
  <2>4. PICK next \in NextOf(rest) :
          req' = [req EXCEPT ![w] = [req[w] EXCEPT !.pc = pc,
                    !.held = req[w].held \cup {req[w].at}, !.at = next]]
    BY <1>5 DEF InsertRow
  <2>5. pc \in {"read", "inserted"}
    OBVIOUS
  <2> HIDE DEF rest, pc
  <2>6. [req[w] EXCEPT !.pc = pc, !.held = req[w].held \cup {req[w].at}, !.at = next]
          \in Request
    BY <1>a, <2>2, <2>3, <2>4, <2>5
  <2> QED
    BY <1>5, <2>4, <2>6 DEF InsertRow
<1>6. ASSUME NEW w \in Workers, CloseRow(w)
      PROVE  TypeOK'
  <2> DEFINE rest == req[w].targets \ (req[w].held \cup {req[w].at})
  <2>1. req[w].at \in Geos \X Nat /\ rest \subseteq Geos \X Nat
    BY <1>6 DEF CloseRow, Request
  <2>2. PICK next \in NextOf(rest) :
          req' = [req EXCEPT ![w] = [req[w] EXCEPT
                    !.held = req[w].held \cup {req[w].at}, !.at = next]]
    BY <1>6 DEF CloseRow
  <2> HIDE DEF rest
  <2>3. [req[w] EXCEPT !.pc = "inserted", !.held = req[w].held \cup {req[w].at}, !.at = next]
          \in Request
    BY <1>a, <2>1, <2>2
  <2>4. [req[w] EXCEPT !.held = req[w].held \cup {req[w].at}, !.at = next] \in Request
    BY <1>6, <2>3 DEF CloseRow, Request
  <2> QED
    BY <1>6, <2>2, <2>4 DEF CloseRow
<1>7. ASSUME NEW w \in Workers, Fail(w)
      PROVE  TypeOK'
  BY <1>7 DEF Fail
<1>8. ASSUME NEW w \in Workers, Abort(w)
      PROVE  TypeOK'
  BY <1>8 DEF Abort
<1>9. ASSUME NEW w \in Workers, Commit(w)
      PROVE  TypeOK'
  <2>1. Closed(w) \subseteq Row
    BY DEF Closed, AsClosed, Row, Request
  <2>2. NewRows(w) \subseteq Row
    <3>1. \A g \in req[w].write : g \in Geos /\ req[w].batch[g] \in Vals
      BY BatchType DEF OnlyWritten, Request
    <3> QED
      BY <3>1 DEF NewRows, Row, Request
  <2> QED
    BY <1>9, <2>1, <2>2 DEF Commit
<1>10. CASE UNCHANGED vars
  BY <1>10 DEF vars
<1> QED
  BY <1>1, <1>2, <1>3, <1>4, <1>5, <1>6, <1>7, <1>8, <1>9, <1>10 DEF Next

-----------------------------------------------------------------------------
(* Which statements leave the table alone. *)
LEMMA OnlyCommitWrites ==
  ASSUME [Next]_vars
  PROVE  rows' = rows \/ \E w \in Workers : Commit(w)
BY DEF Next, vars, Tick, Start, Diff, ReadTargets, InsertRow, CloseRow, Fail, Abort

(* What each transaction intends to write is a function of its own reads. *)
LEMMA OnlyWrittenStep == TypeOK /\ OnlyWritten /\ [Next]_vars => OnlyWritten'
<1> SUFFICES ASSUME TypeOK, OnlyWritten, [Next]_vars
             PROVE  OnlyWritten'
  OBVIOUS
<1> USE DEF TypeOK, OnlyWritten
<1>1. ASSUME NEW w \in Workers, req' = [req EXCEPT ![w] = Idle]
      PROVE  OnlyWritten'
  BY <1>1 DEF Idle, NoBatch
<1>2. ASSUME NEW w \in Workers, NEW b \in Batches, Start(w, b)
      PROVE  OnlyWritten'
  BY <1>2 DEF Start, Idle
<1>3. ASSUME NEW w \in Workers, Diff(w)
      PROVE  OnlyWritten'
  <2>1. Changed(w) \subseteq DOMAIN req[w].batch
    BY DEF Changed
  <2> QED
    BY <1>3, <2>1 DEF Diff, Request
<1>4. ASSUME NEW w \in Workers, ReadTargets(w)
      PROVE  OnlyWritten'
  <2>1. \A k \in {Key(r) : r \in OpenRows(req[w].write)} : k[1] \in req[w].write
    BY DEF OpenRows, Key, Row
  <2> QED
    BY <1>4, <2>1 DEF ReadTargets, Request
<1>5. ASSUME NEW w \in Workers, InsertRow(w) \/ CloseRow(w)
      PROVE  OnlyWritten'
  BY <1>5, RowTaken
<1>6. CASE UNCHANGED req
  BY <1>6
<1> QED
  BY <1>1, <1>2, <1>3, <1>4, <1>5, <1>6 DEF Next, vars, Tick, Fail, Abort, Commit

(* A commit keeps the key and the value of every version and adds its own.  *)
LEMMA CommitRows ==
  ASSUME TypeOK, NEW w \in Workers, Commit(w)
  PROVE  /\ \A r \in rows : /\ AsClosed(w, r) \in rows'
                            /\ Key(AsClosed(w, r)) = Key(r)
                            /\ AsClosed(w, r).geo = r.geo
                            /\ AsClosed(w, r).val = r.val
                            /\ AsClosed(w, r).to =
                                 IF Key(r) \in req[w].targets THEN req[w].now ELSE r.to
         /\ \A n \in NewRows(w) : /\ n \in rows'
                                  /\ Key(n) \in NewKeys(w)
                                  /\ n.to = Null
         /\ \A r \in rows' : (\E s \in rows : r = AsClosed(w, s)) \/ r \in NewRows(w)
<1>1. ASSUME NEW r \in rows
      PROVE  /\ Key(AsClosed(w, r)) = Key(r)
             /\ AsClosed(w, r).geo = r.geo
             /\ AsClosed(w, r).val = r.val
             /\ AsClosed(w, r).to = IF Key(r) \in req[w].targets THEN req[w].now ELSE r.to
  BY <1>1 DEF AsClosed, Key, TypeOK, Row
<1>2. \A n \in NewRows(w) : Key(n) \in NewKeys(w) /\ n.to = Null
  BY DEF NewRows, Key, NewKeys
<1>3. rows' = {AsClosed(w, r) : r \in rows} \cup NewRows(w)
  BY DEF Commit, Closed
<1> QED
  BY <1>1, <1>2, <1>3

(* A request holds nothing before its INSERT, which ends when it holds all    *)
(* its keys.                                                                *)
LEMMA HoldingStep == TypeOK /\ OnlyWritten /\ Holding /\ [Next]_vars => Holding'
<1> SUFFICES ASSUME TypeOK, OnlyWritten, Holding, [Next]_vars
             PROVE  Holding'
  OBVIOUS
<1> USE DEF TypeOK, Holding
<1>1. ASSUME NEW w \in Workers, req' = [req EXCEPT ![w] = Idle]
      PROVE  Holding'
  BY <1>1 DEF Idle, NewKeys
<1>2. ASSUME NEW w \in Workers, NEW b \in Batches, Start(w, b)
      PROVE  Holding'
  BY <1>2 DEF Start, Idle, NewKeys
<1>3. ASSUME NEW w \in Workers, Diff(w)
      PROVE  Holding'
  <2>1. PICK pc : /\ pc = IF Changed(w) = {} THEN "inserted" ELSE "diffed"
                  /\ req' = [req EXCEPT ![w] = [req[w] EXCEPT !.pc = pc, !.write = Changed(w)]]
    BY <1>3 DEF Diff
  <2>2. /\ req'[w].pc = pc /\ req'[w].write = Changed(w) /\ req'[w].held = req[w].held
        /\ \A v \in Workers \ {w} : req'[v] = req[v]
    BY <2>1 DEF Request
  <2>3. req[w].held = {}
    BY <1>3 DEF Diff
  <2> QED
    BY <2>1, <2>2, <2>3 DEF NewKeys
<1>4. ASSUME NEW w \in Workers, ReadTargets(w)
      PROVE  Holding'
  <2>1. PICK k \in NewKeys(w) :
          req' = [req EXCEPT ![w] = [req[w] EXCEPT !.pc = "read", !.at = k,
                    !.targets = {Key(r) : r \in OpenRows(req[w].write)}]]
    BY <1>4 DEF ReadTargets
  <2>2. /\ req'[w].pc = "read" /\ req'[w].at = k /\ req'[w].held = req[w].held
        /\ req'[w].write = req[w].write /\ req'[w].now = req[w].now
        /\ \A v \in Workers \ {w} : req'[v] = req[v]
    BY <2>1 DEF Request
  <2> QED
    BY <2>2 DEF NewKeys
<1>5. ASSUME NEW w \in Workers, InsertRow(w) \/ CloseRow(w)
      PROVE  Holding'
  <2>1. req'[w].pc = "read" => req'[w].at \in NewKeys(w)
    <3>1. CASE InsertRow(w)
      <4> DEFINE left == NewKeys(w) \ (req[w].held \cup {req[w].at})
                 pc == IF left = {} THEN "inserted" ELSE "read"
                 rest == IF left = {} THEN req[w].targets ELSE left
      <4>1. PICK k \in NextOf(rest) : req' = [req EXCEPT ![w] = [req[w] EXCEPT !.pc = pc,
                              !.held = req[w].held \cup {req[w].at}, !.at = k]]
        BY <3>1 DEF InsertRow
      <4> HIDE DEF pc
      <4>2. req'[w].pc = pc /\ req'[w].at = k
        BY <4>1 DEF Request
      <4> USE DEF pc
      <4>3. left # {} => k \in left
        BY <4>1 DEF NextOf
      <4>4. NewKeys(w)' = NewKeys(w)
        BY <3>1, RowTaken DEF NewKeys
      <4> QED
        BY <4>2, <4>3, <4>4
    <3>2. CASE CloseRow(w)
      BY <3>2 DEF CloseRow, Request
    <3> QED
      BY <1>5, <3>1, <3>2
  <2>2. req'[w].pc = "inserted" =>
          NewKeys(w) \subseteq req[w].held \cup {req[w].at}
    <3>1. CASE InsertRow(w)
      <4> DEFINE left == NewKeys(w) \ (req[w].held \cup {req[w].at})
                 pc == IF left = {} THEN "inserted" ELSE "read"
      <4>1. PICK k : req' = [req EXCEPT ![w] = [req[w] EXCEPT !.pc = pc,
                              !.held = req[w].held \cup {req[w].at}, !.at = k]]
        BY <3>1 DEF InsertRow
      <4> HIDE DEF pc
      <4>2. req'[w].pc = pc
        BY <4>1 DEF Request
      <4> USE DEF pc
      <4> QED
        BY <4>2
    <3>2. CASE CloseRow(w)
      BY <3>2 DEF CloseRow
    <3> QED
      BY <1>5, <3>1, <3>2
  <2>3. NewKeys(w)' = NewKeys(w) /\ \A v \in Workers \ {w} : NewKeys(v)' = NewKeys(v)
    BY <1>5, RowTaken DEF NewKeys
  <2> QED
    BY <1>5, <2>1, <2>2, <2>3, RowTaken
<1>7. CASE UNCHANGED req
  BY <1>7 DEF NewKeys
<1> QED
  BY <1>1, <1>2, <1>3, <1>4, <1>5, <1>7 DEF Next, vars, Tick, Fail, Abort, Commit

(* A row is taken when no other request holds it, and an inserted one is not *)
(* in the table before its request commits.                                 *)
LEMMA ReservedStep == TypeOK /\ OnlyWritten /\ Holding /\ Reserved /\ [Next]_vars => Reserved'
<1> SUFFICES ASSUME TypeOK, OnlyWritten, Holding, Reserved, [Next]_vars
             PROVE  Reserved'
  OBVIOUS
<1> USE DEF TypeOK, Reserved, NewKeys
<1>1. ASSUME NEW w \in Workers, req' = [req EXCEPT ![w] = Idle], rows' = rows
      PROVE  Reserved'
  BY <1>1 DEF Idle
<1>2. ASSUME NEW w \in Workers, NEW b \in Batches, Start(w, b)
      PROVE  Reserved'
  BY <1>2 DEF Start, Idle
<1>3. ASSUME NEW w \in Workers, Diff(w)
      PROVE  Reserved'
  BY <1>3 DEF Diff, Request, Holding
<1>4. ASSUME NEW w \in Workers, ReadTargets(w)
      PROVE  Reserved'
  BY <1>4 DEF ReadTargets, Request, Holding
<1>5. ASSUME NEW w \in Workers, InsertRow(w) \/ CloseRow(w)
      PROVE  Reserved'
  <2>1. /\ rows' = rows
        /\ \A v \in Workers \ {w} : req'[v] = req[v]
        /\ req'[w].write = req[w].write /\ req'[w].now = req[w].now
        /\ req'[w].held = req[w].held \cup {req[w].at}
    BY <1>5, RowTaken
  <2>2. \A v \in Workers \ {w} : req[w].at \notin req[v].held
    BY <1>5 DEF InsertRow, CloseRow, Blocked, WaitsFor
  <2>3. \A r \in rows : Key(r) = req[w].at => Key(r) \notin NewKeys(w) \/ Key(r) \in req[w].held
    BY <1>5 DEF InsertRow, CloseRow, KeyExists, Holding
  <2> QED
    BY <2>1, <2>2, <2>3
<1>6. ASSUME NEW w \in Workers, Commit(w)
      PROVE  Reserved'
  <2>1. \A r \in rows' : (\E s \in rows : Key(s) = Key(r)) \/ Key(r) \in NewKeys(w)
    BY <1>6, CommitRows
  <2>2. \A v \in Workers : req'[v] = IF v = w THEN Idle ELSE req[v]
    BY <1>6 DEF Commit
  <2>3. NewKeys(w) \subseteq req[w].held
    BY <1>6 DEF Commit, Holding
  <2> QED
    BY <1>6, <2>1, <2>2, <2>3 DEF Idle
<1>7. CASE UNCHANGED <<rows, req>>
  BY <1>7
<1> QED
  BY <1>1, <1>2, <1>3, <1>4, <1>5, <1>6, <1>7 DEF Next, vars, Tick, Fail, Abort

(* What commits is new to the table. *)
LEMMA NewKeysFree ==
  ASSUME Holding, Reserved, NEW w \in Workers, Commit(w)
  PROVE  \A r \in rows : Key(r) \notin NewKeys(w)
BY DEF Holding, Reserved, Commit

(* The primary key holds. *)
LEMMA KeysUniqueStep == Inv /\ [Next]_vars => KeysUnique'
<1> SUFFICES ASSUME Inv, [Next]_vars
             PROVE  KeysUnique'
  OBVIOUS
<1> USE DEF Inv
<1>1. CASE rows' = rows
  BY <1>1 DEF KeysUnique, Key
<1>2. ASSUME NEW w \in Workers, Commit(w)
      PROVE  KeysUnique'
  <2> SUFFICES ASSUME NEW r \in rows', NEW s \in rows', Key(r) = Key(s)
               PROVE  r = s
    BY DEF KeysUnique, Key
  <2>1. \A x \in rows : Key(x) \notin NewKeys(w)
    BY <1>2, NewKeysFree
  <2>2. CASE \E x \in rows : r = AsClosed(w, x)
    <3>1. PICK x \in rows : r = AsClosed(w, x)
      BY <2>2
    <3>2. s \notin NewRows(w)
      BY <3>1, <2>1, <1>2, CommitRows
    <3>3. PICK y \in rows : s = AsClosed(w, y)
      BY <3>2, <1>2, CommitRows
    <3>4. x = y
      BY <3>1, <3>3, <1>2, CommitRows DEF KeysUnique
    <3> QED
      BY <3>1, <3>3, <3>4
  <2>3. CASE r \in NewRows(w)
    <3>1. s \in NewRows(w)
      BY <2>3, <2>1, <1>2, CommitRows
    <3> QED
      BY <3>1, <2>3 DEF NewRows, Key
  <2> QED
    BY <2>2, <2>3, <1>2, CommitRows
<1> QED
  BY <1>1, <1>2, OnlyCommitWrites

(* A commit adds an open version of every geography it closes one for. *)
LEMMA NoValueLostStep == Inv /\ [Next]_vars => NoValueLost'
<1> SUFFICES ASSUME Inv, [Next]_vars
             PROVE  NoValueLost'
  OBVIOUS
<1> USE DEF Inv
<1>1. CASE rows' = rows
  BY <1>1 DEF NoValueLost
<1>2. ASSUME NEW w \in Workers, Commit(w), NEW r \in rows'
      PROVE  \E s \in rows' : s.geo = r.geo /\ s.to = Null
  <2>1. CASE r \in NewRows(w)
    BY <2>1, <1>2, CommitRows
  <2>2. ASSUME NEW x \in rows, r = AsClosed(w, x)
        PROVE  \E s \in rows' : s.geo = r.geo /\ s.to = Null
    <3>1. PICK y \in rows : y.geo = x.geo /\ y.to = Null
      BY DEF NoValueLost
    <3>2. CASE Key(y) \notin req[w].targets
      <4>1. AsClosed(w, y).to = Null /\ AsClosed(w, y).geo = r.geo
        BY <3>1, <3>2, <2>2, <1>2, CommitRows
      <4> QED
        BY <4>1, <1>2, CommitRows
    <3>3. CASE Key(y) \in req[w].targets
      <4>1. y.geo \in req[w].write
        BY <3>3 DEF OnlyWritten, Key
      <4>2. PICK n \in NewRows(w) : n.geo = y.geo
        <5>1. [geo |-> y.geo, val |-> req[w].batch[y.geo], from |-> req[w].now, to |-> Null]
                \in NewRows(w)
          BY <4>1 DEF NewRows
        <5> QED
          BY <5>1
      <4>3. n.geo = r.geo
        BY <4>2, <3>1, <2>2, <1>2, CommitRows
      <4> QED
        BY <4>3, <1>2, CommitRows
    <3> QED
      BY <3>2, <3>3
  <2> QED
    BY <2>1, <2>2, <1>2, CommitRows
<1> QED
  BY <1>1, <1>2, OnlyCommitWrites DEF NoValueLost

(* An instant that a closed version no longer covers is that of its          *)
(* successor, whichever of the two starts first.                            *)
LEMMA NeverBlankStep == Inv /\ NeverBlank /\ [Next]_vars => NeverBlank'
<1> SUFFICES ASSUME Inv, NeverBlank, [Next]_vars
             PROVE  NeverBlank'
  OBVIOUS
<1> USE DEF Inv
<1>1. CASE rows' = rows
  BY <1>1 DEF NeverBlank, Effective
<1>2. ASSUME NEW w \in Workers, Commit(w)
      PROVE  NeverBlank'
  <2> SUFFICES ASSUME NEW r \in rows', NEW t \in Times, r.from <= t
               PROVE  \E s \in rows' : s.geo = r.geo /\ Effective(s, t)
    BY DEF NeverBlank, Effective
  <2>1. req[w].now \in Nat /\ t \in Nat
    BY DEF TypeOK, Request, Times
  <2>2. CASE r \in NewRows(w)
    BY <2>2, <1>2, CommitRows DEF Effective
  <2>3. ASSUME NEW x \in rows, r = AsClosed(w, x)
        PROVE  \E s \in rows' : s.geo = r.geo /\ Effective(s, t)
    <3>1. x.geo = r.geo /\ x.from = r.from
      BY <2>3, <1>2, CommitRows DEF Key
    <3>2. PICK u \in rows : u.geo = r.geo /\ Effective(u, t)
      BY <3>1 DEF NeverBlank
    <3>3. /\ AsClosed(w, u) \in rows'
          /\ AsClosed(w, u).geo = r.geo
          /\ AsClosed(w, u).from = u.from
          /\ AsClosed(w, u).to = IF Key(u) \in req[w].targets THEN req[w].now ELSE u.to
      BY <3>2, <1>2, CommitRows DEF Key
    <3>4. CASE Key(u) \notin req[w].targets \/ t < req[w].now
      BY <3>2, <3>3, <3>4 DEF Effective
    <3>5. CASE Key(u) \in req[w].targets /\ req[w].now <= t
      <4> DEFINE n == [geo |-> u.geo, val |-> req[w].batch[u.geo],
                       from |-> req[w].now, to |-> Null]
      <4>1. u.geo \in req[w].write
        BY <3>5 DEF OnlyWritten, Key
      <4>2. n \in NewRows(w)
        BY <4>1 DEF NewRows
      <4>3. n.geo = r.geo /\ Effective(n, t)
        BY <3>2, <3>5 DEF Effective
      <4> QED
        BY <4>2, <4>3, <1>2, CommitRows
    <3> QED
      BY <2>1, <3>4, <3>5
  <2> QED
    BY <2>2, <2>3, <1>2, CommitRows
<1> QED
  BY <1>1, <1>2, OnlyCommitWrites

(* The strengthened invariant holds of every reachable state. *)
THEOREM Invariance == Spec => []Inv
<1>1. Init => Inv
  BY IdleType DEF Init, Inv, TypeOK, OnlyWritten, Holding, Reserved, KeysUnique, NoValueLost,
                  Idle
<1>2. Inv /\ [Next]_vars => Inv'
  BY TypeStep, OnlyWrittenStep, HoldingStep, ReservedStep,
     KeysUniqueStep, NoValueLostStep DEF Inv
<1> QED
  BY <1>1, <1>2, PTL DEF Spec

(* The variables keep their types. *)
THEOREM TypeCorrect == Spec => []TypeOK
<1>1. Inv => TypeOK
  BY DEF Inv
<1> QED
  BY <1>1, Invariance, PTL

(* However requests interleave, fail or crash, a geography that was given a  *)
(* value has a current one.                                                 *)
THEOREM ValueNeverLost == Spec => []NoValueLost
<1>1. Inv => NoValueLost
  BY DEF Inv
<1> QED
  BY <1>1, Invariance, PTL

(* However requests interleave, fail or crash, and whatever the order of the *)
(* instants they have read, a geography has a value at every instant from    *)
(* that of its first one on.                                                *)
THEOREM NoInstantBlank == Spec => []NeverBlank
<1>1. Init => NeverBlank
  BY DEF Init, NeverBlank
<1> QED
  BY <1>1, NeverBlankStep, Invariance, PTL DEF Spec

(* However requests interleave, fail or crash, versions are only added, and  *)
(* are closed at the start of a version the same commit adds.               *)
THEOREM HistoryNeverRewritten == Spec => HistoryKept
<1>1. Inv /\ [Next]_vars =>
        [\A r \in rows : \E s \in rows' :
           /\ Key(s) = Key(r) /\ s.val = r.val
           /\ s.to # r.to => \E n \in rows' \ rows : Key(n) = <<r.geo, s.to>>]_rows
  <2> SUFFICES ASSUME Inv, [Next]_vars, rows' # rows, NEW r \in rows
               PROVE  \E s \in rows' :
                        /\ Key(s) = Key(r) /\ s.val = r.val
                        /\ s.to # r.to => \E n \in rows' \ rows : Key(n) = <<r.geo, s.to>>
    OBVIOUS
  <2> USE DEF Inv
  <2>1. PICK w \in Workers : Commit(w)
    BY OnlyCommitWrites
  <2>2. ASSUME AsClosed(w, r).to # r.to
        PROVE  \E n \in rows' \ rows : Key(n) = <<r.geo, AsClosed(w, r).to>>
    <3>1. Key(r) \in req[w].targets /\ AsClosed(w, r).to = req[w].now
      BY <2>1, <2>2, CommitRows
    <3>2. PICK n \in NewRows(w) : Key(n) = <<r.geo, req[w].now>>
      <4>1. r.geo \in req[w].write
        BY <3>1 DEF OnlyWritten, Key
      <4>2. [geo |-> r.geo, val |-> req[w].batch[r.geo], from |-> req[w].now, to |-> Null]
              \in NewRows(w)
        BY <4>1 DEF NewRows
      <4> QED
        BY <4>2 DEF Key
    <3>3. n \notin rows
      BY <2>1, CommitRows, NewKeysFree
    <3> QED
      BY <3>1, <3>2, <3>3, <2>1, CommitRows
  <2> QED
    BY <2>1, <2>2, CommitRows
<1> QED
  BY <1>1, Invariance, PTL DEF Spec, HistoryKept
=============================================================================
