----------------------- MODULE ColumnValuesSerialProofs -----------------------
(***************************************************************************)
(* Proofs about ColumnValues when requests on the column do not overlap    *)
(* (MaxInFlight = 1), for every set of geographies, values and request     *)
(* bodies and every bound on the clock: the versions of a geography tile   *)
(* its history, and set_values implements TemporalTable.                   *)
(***************************************************************************)
EXTENDS ColumnValuesProofs, FiniteSetTheorems

USE NullAssumption, MaxTimeAssumption, BatchesAssumption

Reading == {"diffed", "read", "inserted"}

(* Serial execution. *)
OneAtATime ==
  \A v, w \in Workers : req[v].pc # "idle" /\ req[w].pc # "idle" => v = w

(* What the request in flight has read is still so. *)
ReadsHold ==
  \A w \in Workers :
    /\ req[w].pc \in Reading => req[w].write = Changed(w)
    /\ req[w].pc \in Reading \ {"diffed"} =>
         req[w].targets = {Key(r) : r \in OpenRows(req[w].write)}

(* No version starts or ends after the instant of the request in flight. *)
EndsBy(t) == \A r \in rows : r.from <= t /\ (r.to # Null => r.to <= t)
InThePast ==
  /\ clock \in Times /\ EndsBy(clock)
  /\ \A w \in Workers : req[w].pc # "idle" =>
       req[w].now \in Times /\ req[w].now <= clock /\ EndsBy(req[w].now)

(* A version ends when its successor starts, and holds another value. *)
Succession ==
  \A r \in rows :
    /\ r.to # Null => r.from < r.to /\ \E s \in rows : Key(s) = <<r.geo, r.to>> /\ s.val # r.val
    /\ \A s \in rows : s.geo = r.geo /\ r.from < s.from => r.to # Null /\ r.to <= s.from

SerialInv == Inv /\ OneAtATime /\ ReadsHold /\ InThePast /\ Succession

-----------------------------------------------------------------------------
(* A request starts when no other one is in flight. *)
LEMMA NoneInFlight ==
  ASSUME Cardinality(InFlight) < 1
  PROVE  InFlight = {}
<1>1. IsFiniteSet(InFlight)
  BY WorkersAssumption, FS_Subset DEF InFlight
<1>2. Cardinality(InFlight) \in Nat
  BY <1>1, FS_CardinalityType
<1>3. Cardinality(InFlight) = 0
  BY <1>2
<1> QED
  BY <1>1, <1>3, FS_EmptySet

LEMMA OneAtATimeStep == MaxInFlight = 1 /\ TypeOK /\ OneAtATime /\ [Next]_vars => OneAtATime'
<1> SUFFICES ASSUME MaxInFlight = 1, TypeOK, OneAtATime, [Next]_vars
             PROVE  OneAtATime'
  OBVIOUS
<1>1. ASSUME NEW w \in Workers, NEW b \in Batches, Start(w, b)
      PROVE  OneAtATime'
  <2>1. \A v \in Workers : req[v].pc = "idle"
    BY <1>1, NoneInFlight DEF Start, InFlight
  <2>2. \A v \in Workers \ {w} : req'[v] = req[v]
    BY <1>1 DEF Start, TypeOK
  <2> QED
    BY <2>1, <2>2 DEF OneAtATime
<1>2. ASSUME \A v \in Workers : req'[v].pc # "idle" => req[v].pc # "idle"
      PROVE  OneAtATime'
  BY <1>2 DEF OneAtATime
<1>3. ASSUME NEW w \in Workers,
             \/ Diff(w) \/ ReadTargets(w) \/ InsertRow(w) \/ CloseRow(w)
             \/ Fail(w) \/ Abort(w) \/ Commit(w)
      PROVE  \A v \in Workers : req'[v].pc # "idle" => req[v].pc # "idle"
  <2>1. CASE Diff(w) \/ ReadTargets(w)
    BY <2>1 DEF Diff, ReadTargets, TypeOK
  <2>2. CASE InsertRow(w) \/ CloseRow(w)
    BY <2>2, RowTaken
  <2>3. CASE Fail(w) \/ Abort(w) \/ Commit(w)
    BY <2>3 DEF Fail, Abort, Commit, Idle, TypeOK
  <2> QED
    BY <1>3, <2>1, <2>2, <2>3
<1>4. CASE UNCHANGED req
  BY <1>4, <1>2
<1> QED
  BY <1>1, <1>2, <1>3, <1>4 DEF Next, vars, Tick

(* Only the request in flight changes rows, and then it is no longer. *)
LEMMA ReadsHoldStep ==
  TypeOK /\ OnlyWritten /\ OneAtATime /\ ReadsHold /\ [Next]_vars => ReadsHold'
<1> SUFFICES ASSUME TypeOK, OnlyWritten, OneAtATime, ReadsHold, [Next]_vars
             PROVE  ReadsHold'
  OBVIOUS
<1> USE DEF TypeOK
<1>a. ASSUME NEW v \in Workers, rows' = rows, req'[v].batch = req[v].batch
      PROVE  Changed(v)' = Changed(v)
  BY <1>a DEF Changed, OldPairs, OpenRows
<1>b. ASSUME NEW v \in Workers, rows' = rows, req'[v].write = req[v].write
      PROVE  {Key(r) : r \in OpenRows(req[v].write)}' = {Key(r) : r \in OpenRows(req[v].write)}
  BY <1>b DEF Key, OpenRows
<1> DEFINE Holds(v) ==
      /\ req[v].pc \in Reading => req[v].write = Changed(v)
      /\ req[v].pc \in Reading \ {"diffed"} =>
           req[v].targets = {Key(r) : r \in OpenRows(req[v].write)}
<1>c. ASSUME NEW v \in Workers, rows' = rows, req'[v] = req[v]
      PROVE  Holds(v)'
  BY <1>a, <1>b, <1>c DEF ReadsHold
<1>d. ASSUME NEW w \in Workers, rows' = rows, \A v \in Workers \ {w} : req'[v] = req[v], Holds(w)'
      PROVE  ReadsHold'
  BY <1>c, <1>d DEF ReadsHold
<1>1. ASSUME NEW w \in Workers, NEW b \in Batches, Start(w, b)
      PROVE  ReadsHold'
  <2>1. req'[w].pc = "started" /\ rows' = rows /\ \A v \in Workers \ {w} : req'[v] = req[v]
    BY <1>1 DEF Start, Idle
  <2> QED
    BY <2>1, <1>d DEF Reading
<1>2. ASSUME NEW w \in Workers, Diff(w)
      PROVE  ReadsHold'
  <2>1. /\ rows' = rows /\ \A v \in Workers \ {w} : req'[v] = req[v]
        /\ req'[w].batch = req[w].batch /\ req'[w].write = Changed(w)
        /\ req'[w].targets = req[w].targets
        /\ req'[w].pc = IF Changed(w) = {} THEN "inserted" ELSE "diffed"
    BY <1>2 DEF Diff, Request
  <2>2. req[w].targets = {}
    BY <1>2 DEF Diff, OnlyWritten
  <2>3. Changed(w)' = Changed(w)
    BY <2>1, <1>a
  <2>4. req'[w].pc # "diffed" => req'[w].write = {}
    BY <2>1
  <2>5. {Key(r) : r \in OpenRows({})}' = {}
    BY DEF OpenRows
  <2> QED
    BY <2>1, <2>2, <2>3, <2>4, <2>5, <1>d DEF OpenRows, Reading
<1>3. ASSUME NEW w \in Workers, ReadTargets(w)
      PROVE  ReadsHold'
  <2>1. /\ rows' = rows /\ \A v \in Workers \ {w} : req'[v] = req[v]
        /\ req'[w].batch = req[w].batch /\ req'[w].write = req[w].write
        /\ req'[w].targets = {Key(r) : r \in OpenRows(req[w].write)}
    BY <1>3 DEF ReadTargets, Request
  <2>2. req[w].write = Changed(w)
    BY <1>3 DEF ReadTargets, ReadsHold, Reading
  <2> QED
    BY <2>1, <2>2, <1>a, <1>b, <1>d
<1>4. ASSUME NEW w \in Workers, InsertRow(w) \/ CloseRow(w)
      PROVE  ReadsHold'
  <2>1. /\ rows' = rows /\ \A v \in Workers \ {w} : req'[v] = req[v]
        /\ req'[w].batch = req[w].batch /\ req'[w].write = req[w].write
        /\ req'[w].targets = req[w].targets
    BY <1>4, RowTaken DEF TypeOK
  <2>2. /\ req[w].write = Changed(w)
        /\ req[w].targets = {Key(r) : r \in OpenRows(req[w].write)}
    BY <1>4 DEF InsertRow, CloseRow, ReadsHold, Reading
  <2> QED
    BY <2>1, <2>2, <1>a, <1>b, <1>d
<1>5. ASSUME NEW w \in Workers, Fail(w) \/ Abort(w)
      PROVE  ReadsHold'
  <2>1. req'[w].pc = "idle" /\ rows' = rows /\ \A v \in Workers \ {w} : req'[v] = req[v]
    BY <1>5 DEF Fail, Abort, Idle
  <2> QED
    BY <2>1, <1>d DEF Reading
<1>6. ASSUME NEW w \in Workers, Commit(w)
      PROVE  ReadsHold'
  <2>1. req'[w].pc = "idle" /\ \A v \in Workers \ {w} : req'[v] = req[v]
    BY <1>6 DEF Commit, Idle
  <2>2. \A v \in Workers : req'[v].pc = "idle"
    BY <1>6, <2>1 DEF Commit, OneAtATime
  <2> QED
    BY <2>2 DEF ReadsHold, Reading
<1>7. CASE UNCHANGED <<rows, req>>
  BY <1>7, <1>c DEF ReadsHold
<1> QED
  BY <1>1, <1>2, <1>3, <1>4, <1>5, <1>6, <1>7 DEF Next, vars, Tick

LEMMA InThePastStep == TypeOK /\ OneAtATime /\ InThePast /\ [Next]_vars => InThePast'
<1> SUFFICES ASSUME TypeOK, OneAtATime, InThePast, [Next]_vars
             PROVE  InThePast'
  OBVIOUS
<1> USE DEF TypeOK, Times
<1>a. ASSUME rows' = rows
      PROVE  \A t : EndsBy(t)' <=> EndsBy(t)
  BY <1>a DEF EndsBy
<1>1. CASE Tick
  <2>1. EndsBy(clock + 1)
    BY DEF InThePast, EndsBy, Row
  <2>2. rows' = rows /\ req' = req /\ clock' = clock + 1 /\ clock' \in Times
    BY <1>1 DEF Tick, InThePast
  <2> QED
    BY <2>1, <2>2 DEF InThePast, Request, EndsBy
<1>2. ASSUME NEW w \in Workers, NEW b \in Batches, Start(w, b)
      PROVE  InThePast'
  <2>1. rows' = rows /\ clock' = clock /\ req'[w].now = clock
        /\ \A v \in Workers \ {w} : req'[v] = req[v]
    BY <1>2 DEF Start, Idle
  <2> QED
    BY <2>1 DEF InThePast, EndsBy
<1>3. ASSUME NEW w \in Workers, Commit(w)
      PROVE  InThePast'
  <2>1. \A v \in Workers : req'[v].pc = "idle"
    BY <1>3 DEF Commit, OneAtATime, Idle
  <2>2. clock' = clock /\ req[w].now \in Times /\ req[w].now <= clock /\ EndsBy(clock)
    BY <1>3 DEF Commit, InThePast
  <2>3. ASSUME NEW r \in rows
        PROVE  /\ AsClosed(w, r).from <= clock
               /\ AsClosed(w, r).to # Null => AsClosed(w, r).to <= clock
    BY <2>2 DEF AsClosed, EndsBy, Row
  <2>4. ASSUME NEW r \in NewRows(w)
        PROVE  r.from <= clock /\ r.to = Null
    BY <2>2 DEF NewRows
  <2>5. EndsBy(clock)'
    BY <1>3, <2>2, <2>3, <2>4, CommitRows DEF EndsBy
  <2> QED
    BY <2>1, <2>2, <2>5 DEF InThePast
<1>4. ASSUME NEW w \in Workers,
             Diff(w) \/ ReadTargets(w) \/ InsertRow(w) \/ CloseRow(w) \/ Fail(w) \/ Abort(w)
      PROVE  InThePast'
  <2>1. rows' = rows /\ clock' = clock /\ \A v \in Workers \ {w} : req'[v] = req[v]
    BY <1>4, RowTaken DEF Diff, ReadTargets, Fail, Abort
  <2>2. req'[w].pc = "idle" \/ (req'[w].now = req[w].now /\ req[w].pc # "idle")
    <3>1. CASE Diff(w) \/ ReadTargets(w)
      <4>1. req'[w].now = req[w].now
        <5>1. CASE Diff(w)
          BY <5>1 DEF Diff, Request
        <5>2. CASE ReadTargets(w)
          BY <5>2 DEF ReadTargets, Request
        <5> QED
          BY <3>1, <5>1, <5>2
      <4>2. req[w].pc # "idle"
        BY <3>1 DEF Diff, ReadTargets
      <4> QED
        BY <4>1, <4>2
    <3>2. CASE InsertRow(w) \/ CloseRow(w)
      BY <3>2, RowTaken
    <3>3. CASE Fail(w) \/ Abort(w)
      BY <3>3 DEF Fail, Abort, Idle
    <3> QED
      BY <1>4, <3>1, <3>2, <3>3
  <2> QED
    BY <2>1, <2>2 DEF InThePast, EndsBy
<1>5. CASE UNCHANGED vars
  BY <1>5 DEF InThePast, EndsBy, vars
<1> QED
  BY <1>1, <1>2, <1>3, <1>4, <1>5 DEF Next

-----------------------------------------------------------------------------
(* What a commit closes are the open versions of what it writes, and it      *)
(* writes another value.                                                     *)
LEMMA CommitCloses ==
  ASSUME SerialInv, NEW w \in Workers, Commit(w)
  PROVE  /\ \A r \in rows : Key(r) \in req[w].targets <=> r.geo \in req[w].write /\ r.to = Null
         /\ \A r \in rows : r.geo \in req[w].write =>
              /\ r.from < req[w].now
              /\ r.to = Null => r.val # req[w].batch[r.geo]
              /\ r.to # Null => r.to < req[w].now
<1> USE DEF SerialInv, Inv, TypeOK
<1>1. req[w].write = Changed(w) /\ req[w].targets = {Key(r) : r \in OpenRows(req[w].write)}
  BY DEF Commit, ReadsHold, Reading
<1>2. ASSUME NEW r \in rows
      PROVE  Key(r) \in req[w].targets <=> r.geo \in req[w].write /\ r.to = Null
  BY <1>1 DEF OpenRows, KeysUnique
<1>3. req[w].now \in Nat /\ EndsBy(req[w].now)
  BY DEF Commit, InThePast, Times
<1>4. ASSUME NEW r \in rows, r.geo \in req[w].write
      PROVE  r.from < req[w].now
  <2>1. Key(r) \notin NewKeys(w)
    BY NewKeysFree
  <2>2. r.from # req[w].now
    BY <1>4, <2>1 DEF Key, NewKeys
  <2> QED
    BY <1>3, <2>2 DEF EndsBy, Row
<1>5. ASSUME NEW r \in rows, r.geo \in req[w].write, r.to = Null
      PROVE  r.val # req[w].batch[r.geo]
  <2>1. r.geo \in DOMAIN req[w].batch
    BY <1>5 DEF OnlyWritten
  <2>2. <<r.geo, r.val>> \in OldPairs(w)
    BY <1>5, <2>1 DEF OldPairs, OpenRows
  <2> QED
    BY <1>1, <1>5, <2>2 DEF Changed
<1>6. ASSUME NEW r \in rows, r.geo \in req[w].write, r.to # Null
      PROVE  r.to < req[w].now
  <2>1. PICK s \in rows : Key(s) = <<r.geo, r.to>>
    BY <1>6 DEF Succession
  <2>2. s.geo = r.geo /\ s.from = r.to
    BY <2>1 DEF Key
  <2> QED
    BY <1>4, <1>6, <2>2
<1> QED
  BY <1>2, <1>4, <1>5, <1>6

LEMMA SuccessionStep == SerialInv /\ [Next]_vars => Succession'
<1> SUFFICES ASSUME SerialInv, [Next]_vars
             PROVE  Succession'
  OBVIOUS
<1>1. CASE rows' = rows
  BY <1>1 DEF Succession, Key, SerialInv
<1>2. ASSUME NEW w \in Workers, Commit(w)
      PROVE  Succession'
  <2> USE DEF SerialInv, Inv, TypeOK
  <2> DEFINE now == req[w].now
  <2>1. now \in Nat
    BY DEF Request
  <2>2. ASSUME NEW r \in rows
        PROVE  /\ AsClosed(w, r) \in rows' /\ AsClosed(w, r).geo = r.geo
               /\ AsClosed(w, r).from = r.from /\ AsClosed(w, r).val = r.val
               /\ AsClosed(w, r).to = IF r.geo \in req[w].write /\ r.to = Null THEN now ELSE r.to
    <3>1. /\ AsClosed(w, r) \in rows' /\ Key(AsClosed(w, r)) = Key(r)
          /\ AsClosed(w, r).geo = r.geo /\ AsClosed(w, r).val = r.val
          /\ AsClosed(w, r).to = IF Key(r) \in req[w].targets THEN now ELSE r.to
      BY <1>2, CommitRows
    <3>2. Key(r) \in req[w].targets <=> r.geo \in req[w].write /\ r.to = Null
      BY <1>2, CommitCloses
    <3>3. AsClosed(w, r).from = r.from
      BY <3>1 DEF Key
    <3> QED
      BY <3>1, <3>2, <3>3
  <2>3. ASSUME NEW n \in NewRows(w)
        PROVE  /\ n \in rows' /\ n.geo \in req[w].write /\ n.from = now /\ n.to = Null
               /\ n.val = req[w].batch[n.geo]
    BY <1>2 DEF NewRows, Commit
  <2>4. ASSUME NEW r \in rows'
        PROVE  (\E s \in rows : r = AsClosed(w, s)) \/ r \in NewRows(w)
    BY <1>2, CommitRows
  <2>5. ASSUME NEW r \in rows
        PROVE  r.from \in Nat /\ (r.to # Null => r.to \in Nat)
    BY DEF Row
  <2> HIDE DEF SerialInv, Inv, TypeOK
  <2>6. ASSUME NEW r \in rows', r.to # Null
        PROVE  r.from < r.to /\ \E s \in rows' : Key(s) = <<r.geo, r.to>> /\ s.val # r.val
    <3>1. PICK x \in rows : r = AsClosed(w, x)
      BY <2>3, <2>4, <2>6
    <3>2. CASE x.geo \in req[w].write /\ x.to = Null
      <4>1. [geo |-> x.geo, val |-> req[w].batch[x.geo], from |-> now, to |-> Null] \in NewRows(w)
        BY <3>2 DEF NewRows
      <4>2. PICK n \in NewRows(w) : n.geo = x.geo
        BY <4>1
      <4>3. x.from < now /\ x.val # n.val
        BY <1>2, <3>2, <4>2, <2>3, CommitCloses
      <4> QED
        BY <2>2, <2>3, <3>1, <3>2, <4>2, <4>3 DEF Key
    <3>3. CASE ~ (x.geo \in req[w].write /\ x.to = Null)
      <4>1. x.to # Null /\ r.to = x.to
        BY <2>2, <2>6, <3>1, <3>3
      <4>2. PICK s \in rows : Key(s) = <<x.geo, x.to>> /\ s.val # x.val
        BY <4>1 DEF SerialInv, Succession
      <4>3. Key(AsClosed(w, s)) = <<r.geo, r.to>> /\ AsClosed(w, s).val # r.val
        BY <2>2, <3>1, <4>1, <4>2 DEF Key
      <4>4. x.from < x.to
        BY <4>1 DEF SerialInv, Succession
      <4> QED
        BY <2>2, <3>1, <4>1, <4>3, <4>4
    <3> QED
      BY <3>2, <3>3
  <2>7. ASSUME NEW r \in rows', NEW s \in rows', s.geo = r.geo, r.from < s.from
        PROVE  r.to # Null /\ r.to <= s.from
    <3>1. CASE r \in NewRows(w)
      <4>1. PICK x \in rows : s = AsClosed(w, x)
        BY <2>1, <2>3, <2>4, <2>7, <3>1
      <4>2. x.from < now
        BY <1>2, <2>2, <2>3, <2>7, <3>1, <4>1, CommitCloses
      <4> QED
        BY <2>1, <2>2, <2>3, <2>5, <2>7, <3>1, <4>1, <4>2
    <3>2. ASSUME NEW x \in rows, r = AsClosed(w, x), s \in NewRows(w)
          PROVE  r.to # Null /\ r.to <= s.from
      <4>1. x.geo \in req[w].write
        BY <2>2, <2>3, <2>7, <3>2
      <4>2. x.to # Null => x.to < now
        BY <1>2, <4>1, CommitCloses
      <4> QED
        BY <2>1, <2>2, <2>3, <2>5, <3>2, <4>1, <4>2, NullAssumption
    <3>3. ASSUME NEW x \in rows, r = AsClosed(w, x), NEW y \in rows, s = AsClosed(w, y)
          PROVE  r.to # Null /\ r.to <= s.from
      <4>1. x.to # Null /\ x.to <= y.from
        BY <2>2, <2>7, <3>3 DEF SerialInv, Succession
      <4> QED
        BY <2>2, <3>3, <4>1
    <3> QED
      BY <2>4, <3>1, <3>2, <3>3
  <2> QED
    BY <2>6, <2>7 DEF Succession
<1> QED
  BY <1>1, <1>2, OnlyCommitWrites

(* The inductive invariant of serial execution. *)
THEOREM SerialInvariance == MaxInFlight = 1 => (Spec => []SerialInv)
<1> SUFFICES ASSUME MaxInFlight = 1
             PROVE  Spec => []SerialInv
  OBVIOUS
<1>1. Init => OneAtATime /\ ReadsHold /\ InThePast /\ Succession
  <2> SUFFICES ASSUME Init
               PROVE  OneAtATime /\ ReadsHold /\ InThePast /\ Succession
    OBVIOUS
  <2>1. rows = {} /\ clock \in Times
    BY DEF Init, Times
  <2>2. \A w \in Workers : req[w].pc = "idle"
    BY DEF Init, Idle
  <2> QED
    BY <2>1, <2>2 DEF OneAtATime, ReadsHold, InThePast, Succession, Reading, EndsBy
<1>2. SerialInv /\ Inv' /\ [Next]_vars => SerialInv'
  BY OneAtATimeStep, ReadsHoldStep, InThePastStep, SuccessionStep DEF SerialInv, Inv
<1> QED
  BY <1>1, <1>2, Invariance, PTL DEF Spec, SerialInv

-----------------------------------------------------------------------------
(* At most one version of a geography is effective at an instant. *)
LEMMA OneEffective ==
  ASSUME SerialInv, NEW r \in rows, NEW s \in rows, r.geo = s.geo, NEW t \in Times,
         Effective(r, t), Effective(s, t)
  PROVE  r = s
<1> USE DEF SerialInv, Inv, TypeOK, Row, Times, Effective
<1>1. ~ (r.from < s.from)
  BY DEF Succession
<1>2. ~ (s.from < r.from)
  BY DEF Succession
<1>3. Key(r) = Key(s)
  BY <1>1, <1>2 DEF Key
<1> QED
  BY <1>3 DEF KeysUnique

(* When requests on the column do not overlap, the versions of a geography   *)
(* follow one another without a gap or an overlap, each with another value   *)
(* than the next one.                                                       *)
THEOREM SerialTiled == MaxInFlight = 1 => (Spec => []Tiled)
<1>1. SerialInv => Tiled
  BY OneEffective DEF SerialInv, Succession, Tiled
<1> QED
  BY <1>1, SerialInvariance, PTL

(* When requests on the column do not overlap, a request that succeeds       *)
(* leaves the values of its batch as the current ones, whether it wrote them *)
(* or found them there.                                                     *)
THEOREM SerialBatchStored == MaxInFlight = 1 => (Spec => BatchStored)
<1>1. ASSUME SerialInv, NEW w \in Workers, Commit(w), NEW g \in DOMAIN req[w].batch
      PROVE  \E r \in rows' : r.geo = g /\ r.to = Null /\ r.val = req[w].batch[g]
  <2> USE <1>1 DEF SerialInv, Inv
  <2>1. CASE g \in req[w].write
    <3>1. [geo |-> g, val |-> req[w].batch[g], from |-> req[w].now, to |-> Null] \in rows'
      BY <2>1 DEF Commit, NewRows
    <3> QED
      BY <3>1
  <2>2. CASE g \notin req[w].write
    <3>1. <<g, req[w].batch[g]>> \in OldPairs(w)
      BY <2>2 DEF Commit, ReadsHold, Reading, Changed
    <3>2. PICK r \in rows : r.geo = g /\ r.val = req[w].batch[g] /\ r.to = Null
      BY <3>1 DEF OldPairs, OpenRows
    <3>3. Key(r) \notin req[w].targets
      BY <2>2, <3>2, CommitCloses
    <3> QED
      BY <3>2, <3>3, CommitRows
  <2> QED
    BY <2>1, <2>2
<1>2. SerialInv /\ [Next]_vars =>
        [\A w \in Workers : Commit(w) =>
           \A g \in DOMAIN req[w].batch : \E r \in rows' :
              r.geo = g /\ r.to = Null /\ r.val = req[w].batch[g]]_vars
  BY <1>1
<1> QED
  BY <1>2, SerialInvariance, PTL DEF Spec, BatchStored

-----------------------------------------------------------------------------
(* What a reader is told: the value of the effective version, if there is one. *)
AnswersVersion ==
  \A r \in rows, t \in Times : Effective(r, t) => AsOf(r.geo, t) = r.val
AnswersAbsent ==
  \A g \in Geos, t \in Times :
    (\A r \in rows : r.geo = g => ~ Effective(r, t)) => AsOf(g, t) = Absent

LEMMA Answers == SerialInv => AnswersVersion /\ AnswersAbsent
<1>1. ASSUME SerialInv, NEW r \in rows, NEW t \in Times, Effective(r, t)
      PROVE  AsOf(r.geo, t) = r.val
  <2>1. {s \in rows : s.geo = r.geo /\ Effective(s, t)} = {r}
    BY <1>1, OneEffective
  <2> QED
    BY <2>1 DEF AsOf
<1>2. ASSUME NEW g \in Geos, NEW t \in Times, \A r \in rows : r.geo = g => ~ Effective(r, t)
      PROVE  AsOf(g, t) = Absent
  <2>1. {s \in rows : s.geo = g /\ Effective(s, t)} = {}
    BY <1>2
  <2> QED
    BY <2>1 DEF AsOf
<1> QED
  BY <1>1, <1>2 DEF AnswersVersion, AnswersAbsent

(* A commit changes the answers from its `now` on, of what it writes. *)
LEMMA CommitAnswers ==
  ASSUME SerialInv, SerialInv', NEW w \in Workers, Commit(w), NEW g \in Geos, NEW t \in Times
  PROVE  AsOf(g, t)' = IF g \in req[w].write /\ t >= req[w].now THEN req[w].batch[g]
                       ELSE AsOf(g, t)
<1> DEFINE now == req[w].now
<1>1. AnswersVersion /\ AnswersAbsent
  BY Answers
<1>2. AnswersVersion' /\ AnswersAbsent'
  BY Answers, PTL
<1>3. now \in Nat /\ t \in Nat /\ \A r \in rows : r \in Row
  BY DEF SerialInv, Inv, TypeOK, Request, Times
<1>4. ASSUME g \in req[w].write, t >= now
      PROVE  AsOf(g, t)' = req[w].batch[g]
  <2>1. PICK n \in rows' : n.geo = g /\ n.val = req[w].batch[g] /\ n.from = now /\ n.to = Null
    <3>1. [geo |-> g, val |-> req[w].batch[g], from |-> now, to |-> Null] \in rows'
      BY <1>4 DEF Commit, NewRows
    <3> QED
      BY <3>1
  <2>2. Effective(n, t)
    BY <1>3, <1>4, <2>1 DEF Effective
  <2> QED
    BY <1>2, <2>1, <2>2 DEF AnswersVersion, Effective
<1>5. ASSUME ~ (g \in req[w].write /\ t >= now)
      PROVE  AsOf(g, t)' = AsOf(g, t)
  <2>1. ASSUME NEW r \in rows, r.geo = g
        PROVE  /\ AsClosed(w, r) \in rows'
               /\ AsClosed(w, r).geo = g /\ AsClosed(w, r).val = r.val
               /\ Effective(AsClosed(w, r), t) <=> Effective(r, t)
    <3>1. /\ AsClosed(w, r) \in rows' /\ Key(AsClosed(w, r)) = Key(r)
          /\ AsClosed(w, r).geo = r.geo /\ AsClosed(w, r).val = r.val
          /\ AsClosed(w, r).to = IF Key(r) \in req[w].targets THEN now ELSE r.to
      BY CommitRows DEF SerialInv, Inv
    <3>2. Key(r) \in req[w].targets <=> r.geo \in req[w].write /\ r.to = Null
      BY CommitCloses
    <3>3. AsClosed(w, r).from = r.from
      BY <3>1 DEF Key
    <3>4. r.from \in Nat /\ r.to \in Nat \cup {Null}
      BY <1>3 DEF Row
    <3> QED
      BY <1>3, <1>5, <2>1, <3>1, <3>2, <3>3, <3>4 DEF Effective
  <2>2. CASE \E r \in rows : r.geo = g /\ Effective(r, t)
    <3>1. PICK r \in rows : r.geo = g /\ Effective(r, t)
      BY <2>2
    <3>2. PICK s \in rows' : s.geo = g /\ s.val = r.val /\ Effective(s, t)
      BY <2>1, <3>1
    <3>3. AsOf(g, t)' = s.val
      BY <1>2, <3>2 DEF AnswersVersion, Effective
    <3>4. AsOf(g, t) = r.val
      BY <1>1, <3>1 DEF AnswersVersion
    <3> QED
      BY <3>2, <3>3, <3>4
  <2>3. CASE \A r \in rows : r.geo = g => ~ Effective(r, t)
    <3>1. ASSUME NEW s \in rows', s.geo = g
          PROVE  ~ Effective(s, t)
      <4>1. CASE s \in NewRows(w)
        BY <1>3, <1>5, <3>1, <4>1 DEF NewRows, Effective
      <4>2. ASSUME NEW r \in rows, s = AsClosed(w, r)
            PROVE  ~ Effective(s, t)
        <5>1. r.geo = g
          BY <3>1, <4>2, CommitRows DEF SerialInv, Inv
        <5> QED
          BY <2>1, <2>3, <4>2, <5>1
      <4> QED
        BY <4>1, <4>2, CommitRows DEF SerialInv, Inv
    <3>2. AsOf(g, t)' = Absent
      BY <1>2, <3>1 DEF AnswersAbsent, Effective
    <3> QED
      BY <1>1, <2>3, <3>2 DEF AnswersAbsent
  <2> QED
    BY <2>2, <2>3
<1> QED
  BY <1>4, <1>5

(* Before a commit, the answers about what it writes are settled. *)
LEMMA CommitSettled ==
  ASSUME SerialInv, NEW w \in Workers, Commit(w), NEW g \in req[w].write, g \in Geos,
         NEW u \in Times, NEW v \in Times, u + 1 >= req[w].now, v + 1 >= req[w].now
  PROVE  AsOf(g, u) = AsOf(g, v)
<1>1. AnswersVersion /\ AnswersAbsent
  BY Answers
<1>2. req[w].now \in Nat /\ u \in Nat /\ v \in Nat /\ \A r \in rows : r \in Row
  BY DEF SerialInv, Inv, TypeOK, Request, Times
<1>3. ASSUME NEW r \in rows, r.geo = g
      PROVE  (Effective(r, u) <=> r.to = Null) /\ (Effective(r, v) <=> r.to = Null)
  <2>1. r.from < req[w].now /\ (r.to # Null => r.to < req[w].now)
    BY <1>3, CommitCloses
  <2>2. r.from \in Nat /\ r.to \in Nat \cup {Null}
    BY <1>2 DEF Row
  <2> QED
    BY <1>2, <2>1, <2>2 DEF Effective
<1>4. CASE \E r \in rows : r.geo = g /\ r.to = Null
  BY <1>1, <1>3, <1>4 DEF AnswersVersion
<1>5. CASE \A r \in rows : r.geo = g => r.to # Null
  BY <1>1, <1>3, <1>5 DEF AnswersAbsent
<1> QED
  BY <1>4, <1>5

(* A commit is one write of the versioned table. *)
LEMMA CommitRefines ==
  ASSUME SerialInv, SerialInv', NEW w \in Workers, Commit(w)
  PROVE  Table!Next
<1> DEFINE b == [g \in req[w].write |-> req[w].batch[g]]
<1>1. req[w].write \subseteq Geos /\ \A g \in req[w].write : req[w].batch[g] \in Vals
  BY BatchType DEF SerialInv, Inv, OnlyWritten, TypeOK, Request
<1>2. b \in Table!Writes
  BY <1>1 DEF Table!Writes
<1>3. req[w].now \in Times
  BY DEF SerialInv, InThePast, Commit
<1>4. \A g \in Geos, t \in Times : AsOfTable[g][t] = AsOf(g, t)
  BY DEF AsOfTable
<1>5. \A g \in DOMAIN b : Table!Settled(g, req[w].now)
  BY <1>1, <1>4, CommitSettled DEF Table!Settled
<1>6. AsOfTable' = [g \in Geos |-> [t \in Times |-> AsOf(g, t)']]
  BY DEF AsOfTable
<1>7. AsOfTable' = [g \in Geos |-> [t \in Times |->
                      IF g \in DOMAIN b /\ t >= req[w].now THEN b[g] ELSE AsOfTable[g][t]]]
  BY <1>4, <1>6, CommitAnswers
<1> HIDE DEF b
<1>8. Table!Write(b, req[w].now)
  BY <1>5, <1>7 DEF Table!Write
<1> QED
  BY <1>2, <1>3, <1>8 DEF Table!Next

(* When requests on the column do not overlap, set_values implements the     *)
(* versioned table: each commit is one write, at its `now`, of what changes  *)
(* of its batch, and the past of that instant is stable.                    *)
THEOREM SerialImplementsTable == MaxInFlight = 1 => (Spec => ImplementsTable)
<1>1. Init => Table!Init
  <2> SUFFICES ASSUME Init
               PROVE  \A g \in Geos, t \in Times : AsOf(g, t) = Absent
    BY DEF Table!Init, AsOfTable
  <2> QED
    BY DEF Init, AsOf
<1>2. SerialInv /\ SerialInv' /\ [Next]_vars => [Table!Next]_AsOfTable
  <2> SUFFICES ASSUME SerialInv, SerialInv', [Next]_vars
               PROVE  [Table!Next]_AsOfTable
    OBVIOUS
  <2>1. CASE rows' = rows
    BY <2>1 DEF AsOfTable, AsOf, Effective
  <2>2. ASSUME NEW w \in Workers, Commit(w)
        PROVE  Table!Next
    BY <2>2, CommitRefines
  <2> QED
    BY <2>1, <2>2, OnlyCommitWrites
<1> QED
  BY <1>1, <1>2, SerialInvariance, PTL DEF Spec, ImplementsTable, Table!Spec
===============================================================================
