---------------------------- MODULE GeoSetsProofs ----------------------------
(***************************************************************************)
(* Proofs about GeoSets for every set of workers, slots, geographies,      *)
(* paths and request bodies, and every limit.                              *)
(*                                                                         *)
(* OpenSetsBounded and PlansBounded bound what overlapping requests can do *)
(* by the number of workers.  Neither is inductive: the first one holds    *)
(* because each open version of a slot can be attributed to a worker that  *)
(* inserted no other open one (Attributed), the second one because every   *)
(* request between its check of the limit and its commit occupies a worker *)
(* (Promised counts it with the plans there are).                          *)
(***************************************************************************)
EXTENDS GeoSets, FiniteSetTheorems, TLAPS

USE NullAssumption, RequestsAssumption

(* What a transaction has inserted is of its operation, and comes last. *)
Shape ==
  \A w \in Workers :
    /\ req[w].pc # "idle" => req[w].body \in Requests
    /\ req[w].pc = "idle" => req[w] = Idle
    /\ req[w].pc \in {"compared", "updating"} => Op(w) = "map"
    /\ req[w].pc \in {"found", "unlimited", "limited"} => Op(w) = "plan"
    /\ req[w].pc = "counted" => Op(w) \in {"plan", "graph"}
    /\ Inserts(w, "set") => req[w].pc = "ready" /\ Op(w) = "map"
    /\ Inserts(w, "plan") => req[w].pc = "ready" /\ Op(w) = "plan"
    /\ Inserts(w, "graph") => req[w].pc = "ready" /\ Op(w) = "graph"

(* The ids of the set versions. *)
Numbered ==
  /\ IsFiniteSet(sets)
  /\ \A u, v \in sets : u.id = v.id => u = v
  /\ \A v \in sets : v.id <= Cardinality(sets)

Inv1 == TypeOK /\ Shape /\ Numbered

(* An UPDATE has found versions of its slot; those it has locked stay open,  *)
(* and no two transactions have locked the same one.                        *)
Locked ==
  \A w \in Workers :
    /\ \A i \in req[w].targets : \E v \in sets : v.id = i /\ v.slot = Slot(w)
    /\ Inserts(w, "set") => \A v \in sets : v.id \in req[w].targets => v.to = Null
    /\ Inserts(w, "set") => ~ LockedByOther(w)

Updates(w) == req[w].pc = "updating" \/ Inserts(w, "set")

(* Each open version of a slot can be attributed to a worker that inserted   *)
(* no other open one, since a request finds what the same worker inserted    *)
(* before.                                                                  *)
Attributes(by) ==
  /\ \A s \in Slots : \A u, v \in OpenSets(s) : by[u.id] = by[v.id] => u = v
  /\ \A w \in Workers : Updates(w) =>
       \A v \in OpenSets(Slot(w)) : by[v.id] = w => v.id \in req[w].targets
Attributed == \E by \in [Nat -> Workers] : Attributes(by)

(* The set version a request has found is one of its slot, and what it has   *)
(* inserted is within it.                                                   *)
InsertsObject(w) == Inserts(w, "plan") \/ Inserts(w, "graph")
Found ==
  \A w \in Workers :
    req[w].pc \in {"found", "unlimited", "limited", "counted"} \/ InsertsObject(w) =>
      \E v \in sets : /\ v.id = req[w].set /\ v.slot = Slot(w)
                      /\ InsertsObject(w) => Named(w) \subseteq v.members

(* The requests that passed the check of the limit and have not committed. *)
Promised(s) ==
  {w \in Workers : req[w].pc \in {"counted", "ready"} /\ Op(w) = "plan" /\ Slot(w) = s}
PromisesBounded ==
  /\ IsFiniteSet(plans)
  /\ \A s \in Slots :
       Cardinality(PlansAt(s)) + Cardinality(Promised(s)) < MaxPlans + Cardinality(Workers)

Inv == Inv1 /\ Locked /\ Attributed /\ StaysMapped /\ Found /\ WithinSet /\ PromisesBounded

LEMMA IdleType == Idle \in Transaction
  BY DEF Idle, Transaction

-----------------------------------------------------------------------------
(* What a worker's step does to its own transaction. *)
LEMMA StartStep ==
  ASSUME TypeOK, NEW w \in Workers, NEW q \in Requests, Start(w, q)
  PROVE  \E t \in Transaction :
           /\ req' = [req EXCEPT ![w] = t] /\ req[w].pc = "idle" /\ Unwritten
           /\ t.pc = "started" /\ t.body = q /\ t.targets = {} /\ t.new = {}
<1> DEFINE t == [Idle EXCEPT !.pc = "started", !.body = q,
                             !.now = IF q.op = "map" THEN clock ELSE 0]
<1>1. t \in Transaction /\ t.pc = "started" /\ t.body = q /\ t.targets = {} /\ t.new = {}
  BY DEF Idle, Transaction, TypeOK
<1>2. req' = [req EXCEPT ![w] = t] /\ req[w].pc = "idle" /\ Unwritten
  BY DEF Start
<1> HIDE DEF t
<1> QED
  BY <1>1, <1>2

LEMMA CompareStep ==
  ASSUME TypeOK, NEW w \in Workers, Compare(w)
  PROVE  \E t \in Transaction :
           /\ req' = [req EXCEPT ![w] = t] /\ Unwritten
           /\ req[w].pc = "started" /\ Op(w) = "map" /\ t.pc \in {"ready", "compared"}
           /\ t.body = req[w].body /\ t.targets = req[w].targets /\ t.new = req[w].new
           /\ t.set = req[w].set
<1> DEFINE t == [req[w] EXCEPT !.pc = IF OldGeos(w) = Named(w) THEN "ready" ELSE "compared"]
<1>1. /\ t \in Transaction /\ t.pc \in {"ready", "compared"}
      /\ t.body = req[w].body /\ t.targets = req[w].targets /\ t.new = req[w].new
      /\ t.set = req[w].set
  BY DEF Transaction, TypeOK
<1>2. req' = [req EXCEPT ![w] = t] /\ req[w].pc = "started" /\ Op(w) = "map" /\ Unwritten
  BY DEF Compare
<1> HIDE DEF t
<1> QED
  BY <1>1, <1>2

LEMMA StartUpdateStep ==
  ASSUME TypeOK, NEW w \in Workers, StartUpdate(w)
  PROVE  \E t \in Transaction :
           /\ req' = [req EXCEPT ![w] = t] /\ Unwritten
           /\ req[w].pc = "compared" /\ t.pc = "updating"
           /\ t.targets = {v.id : v \in OpenSets(Slot(w))}
           /\ t.body = req[w].body /\ t.new = req[w].new /\ t.set = req[w].set
<1> DEFINE ids == {v.id : v \in OpenSets(Slot(w))}
           t == [req[w] EXCEPT !.pc = "updating", !.targets = ids]
<1>1. ids \in SUBSET Nat
  BY DEF OpenSets, TypeOK, SetVersion
<1>2. req' = [req EXCEPT ![w] = t] /\ req[w].pc = "compared" /\ Unwritten
  BY DEF StartUpdate
<1> HIDE DEF ids
<1>3. /\ t \in Transaction /\ t.pc = "updating" /\ t.targets = ids
      /\ t.body = req[w].body /\ t.new = req[w].new /\ t.set = req[w].set
  BY <1>1 DEF Transaction, TypeOK
<1> HIDE DEF t
<1> QED
  BY <1>2, <1>3 DEF ids

LEMMA FinishUpdateStep ==
  ASSUME TypeOK, NEW w \in Workers, FinishUpdate(w)
  PROVE  \E t \in Transaction :
           /\ req' = [req EXCEPT ![w] = t] /\ Unwritten
           /\ req[w].pc = "updating" /\ ~ LockedByOther(w) /\ t.pc = "ready" /\ t.new = {"set"}
           /\ t.targets = req[w].targets \cap {v.id : v \in {u \in sets : u.to = Null}}
           /\ t.body = req[w].body /\ t.set = req[w].set
<1> DEFINE open == {v.id : v \in {u \in sets : u.to = Null}}
           t == [req[w] EXCEPT !.pc = "ready", !.new = {"set"}, !.targets = @ \cap open]
<1>1. req' = [req EXCEPT ![w] = t] /\ req[w].pc = "updating" /\ ~ LockedByOther(w) /\ Unwritten
  BY DEF FinishUpdate
<1> HIDE DEF open
<1>2. /\ t \in Transaction /\ t.pc = "ready" /\ t.new = {"set"}
      /\ t.targets = req[w].targets \cap open /\ t.body = req[w].body /\ t.set = req[w].set
  BY DEF Transaction, TypeOK
<1> HIDE DEF t
<1> QED
  BY <1>1, <1>2 DEF open

LEMMA FindSetStep ==
  ASSUME TypeOK, NEW w \in Workers, FindSet(w)
  PROVE  \E t \in Transaction :
           /\ req' = [req EXCEPT ![w] = t] /\ Unwritten
           /\ req[w].pc = "started" /\ Op(w) # "map"
           /\ t.pc = IF Op(w) = "plan" THEN "found" ELSE "counted"
           /\ \E v \in OpenSets(Slot(w)) : t.set = v.id
           /\ t.body = req[w].body /\ t.targets = req[w].targets /\ t.new = req[w].new
<1>1. PICK v \in OpenSets(Slot(w)) :
        req' = [req EXCEPT ![w].pc = IF Op(w) = "plan" THEN "found" ELSE "counted",
                           ![w].set = v.id]
  BY DEF FindSet
<1> DEFINE t == [req[w] EXCEPT !.pc = IF Op(w) = "plan" THEN "found" ELSE "counted", !.set = v.id]
<1>2. v.id \in Nat
  BY DEF OpenSets, TypeOK, SetVersion
<1>3. /\ t \in Transaction /\ t.pc = IF Op(w) = "plan" THEN "found" ELSE "counted"
      /\ t.set = v.id
      /\ t.body = req[w].body /\ t.targets = req[w].targets /\ t.new = req[w].new
  BY <1>2 DEF Transaction, TypeOK
<1>4. req' = [req EXCEPT ![w] = t] /\ req[w].pc = "started" /\ Op(w) # "map" /\ Unwritten
  BY <1>1 DEF FindSet
<1> HIDE DEF t
<1> QED
  BY <1>3, <1>4

LEMMA ReadLimitStep ==
  ASSUME TypeOK, NEW w \in Workers, ReadLimit(w)
  PROVE  \E t \in Transaction :
           /\ req' = [req EXCEPT ![w] = t] /\ Unwritten
           /\ req[w].pc = "found" /\ t.pc \in {"limited", "unlimited"}
           /\ t.body = req[w].body /\ t.targets = req[w].targets /\ t.new = req[w].new
           /\ t.set = req[w].set
<1> DEFINE t == [req[w] EXCEPT !.pc = IF Slot(w) \in limits THEN "limited" ELSE "unlimited"]
<1>1. /\ t \in Transaction /\ t.pc \in {"limited", "unlimited"}
      /\ t.body = req[w].body /\ t.targets = req[w].targets /\ t.new = req[w].new
      /\ t.set = req[w].set
  BY DEF Transaction, TypeOK
<1>2. req' = [req EXCEPT ![w] = t] /\ req[w].pc = "found" /\ Unwritten
  BY DEF ReadLimit
<1> HIDE DEF t
<1> QED
  BY <1>1, <1>2

LEMMA InsertLimitStep ==
  ASSUME TypeOK, NEW w \in Workers, InsertLimit(w)
  PROVE  \E t \in Transaction :
           /\ req' = [req EXCEPT ![w] = t] /\ Unwritten
           /\ req[w].pc = "unlimited" /\ t.pc = "limited" /\ t.new = req[w].new \cup {"limit"}
           /\ t.body = req[w].body /\ t.targets = req[w].targets /\ t.set = req[w].set
<1> DEFINE t == [req[w] EXCEPT !.pc = "limited", !.new = @ \cup {"limit"}]
<1>1. /\ t \in Transaction /\ t.pc = "limited" /\ t.new = req[w].new \cup {"limit"}
      /\ t.body = req[w].body /\ t.targets = req[w].targets /\ t.set = req[w].set
  BY DEF Transaction, TypeOK
<1>2. req' = [req EXCEPT ![w] = t] /\ req[w].pc = "unlimited" /\ Unwritten
  BY DEF InsertLimit
<1> HIDE DEF t
<1> QED
  BY <1>1, <1>2

LEMMA CountStep ==
  ASSUME TypeOK, NEW w \in Workers, Count(w)
  PROVE  \E t \in Transaction :
           /\ req' = [req EXCEPT ![w] = t] /\ Unwritten
           /\ req[w].pc = "limited" /\ Cardinality(PlansAt(Slot(w))) < MaxPlans
           /\ t.pc = "counted"
           /\ t.body = req[w].body /\ t.targets = req[w].targets /\ t.new = req[w].new
           /\ t.set = req[w].set
<1> DEFINE t == [req[w] EXCEPT !.pc = "counted"]
<1>1. /\ t \in Transaction /\ t.pc = "counted"
      /\ t.body = req[w].body /\ t.targets = req[w].targets /\ t.new = req[w].new
      /\ t.set = req[w].set
  BY DEF Transaction, TypeOK
<1>2. /\ req' = [req EXCEPT ![w] = t] /\ req[w].pc = "limited" /\ Unwritten
      /\ Cardinality(PlansAt(Slot(w))) < MaxPlans
  BY DEF Count
<1> HIDE DEF t
<1> QED
  BY <1>1, <1>2

LEMMA InsertObjectStep ==
  ASSUME TypeOK, Shape, NEW w \in Workers, InsertObject(w)
  PROVE  \E t \in Transaction :
           /\ req' = [req EXCEPT ![w] = t] /\ Unwritten
           /\ req[w].pc = "counted" /\ Named(w) \subseteq Members(w)
           /\ t.pc = "ready" /\ t.new = req[w].new \cup {Op(w)}
           /\ t.body = req[w].body /\ t.targets = req[w].targets /\ t.set = req[w].set
<1> DEFINE op == Op(w)
           t == [req[w] EXCEPT !.pc = "ready", !.new = @ \cup {op}]
<1>1. op \in {"plan", "graph"}
  BY DEF InsertObject, Shape
<1>2. /\ req' = [req EXCEPT ![w] = t] /\ req[w].pc = "counted" /\ Unwritten
      /\ Named(w) \subseteq Members(w)
  BY DEF InsertObject
<1> HIDE DEF op
<1>3. /\ t \in Transaction /\ t.pc = "ready" /\ t.new = req[w].new \cup {op}
      /\ t.body = req[w].body /\ t.targets = req[w].targets /\ t.set = req[w].set
  BY <1>1 DEF Transaction, TypeOK
<1> HIDE DEF t
<1> QED
  BY <1>2, <1>3 DEF op

(* A transaction that ends. *)
LEMMA EndStep ==
  ASSUME TypeOK, NEW w \in Workers, Idled(w)
  PROVE  req' \in [Workers -> Transaction] /\ req' = [req EXCEPT ![w] = Idle] /\ req'[w] = Idle
  BY IdleType DEF TypeOK, Idled

(* Which steps a proof about transactions has to consider. *)
LEMMA WhatRuns ==
  ASSUME [Next]_vars
  PROVE  \/ UNCHANGED <<sets, plans, graphs, limits, req>>
         \/ \E w \in Workers :
              \/ \E q \in Requests : Start(w, q)
              \/ Compare(w) \/ StartUpdate(w) \/ FinishUpdate(w)
              \/ FindSet(w) \/ ReadLimit(w) \/ InsertLimit(w) \/ Count(w) \/ InsertObject(w)
              \/ Idled(w) /\ Unwritten
              \/ Commit(w)
  BY DEF Next, vars, Tick, Fail, Abort

(* Only a commit writes. *)
LEMMA OnlyCommitWrites ==
  ASSUME [Next]_vars
  PROVE  UNCHANGED <<sets, plans, graphs, limits>> \/ \E w \in Workers : Commit(w)
  BY DEF Next, vars, Tick, Unwritten, Start, Compare, StartUpdate, FinishUpdate, FindSet,
         ReadLimit, InsertLimit, Count, InsertObject, Fail, Abort

(* What a request in flight names. *)
LEMMA BodyType ==
  ASSUME Shape, NEW w \in Workers, req[w].pc # "idle"
  PROVE  /\ req[w].body \in Requests /\ Op(w) \in {"map", "plan", "graph"}
         /\ Slot(w) \in Slots /\ Named(w) \subseteq Geos /\ Path(w) \in Paths
  BY DEF Shape, Op, Slot, Named, Path, Body

-----------------------------------------------------------------------------
LEMMA TypeStep == TypeOK /\ Shape /\ Numbered /\ [Next]_vars => TypeOK'
<1> SUFFICES ASSUME TypeOK, Shape, Numbered, [Next]_vars
             PROVE  TypeOK'
  OBVIOUS
<1>1. req' \in [Workers -> Transaction] /\ clock' \in Nat
  <2>1. clock' \in Nat
    <3>1. clock' = clock \/ clock' = clock + 1
      BY DEF Next, vars, Tick, Unwritten, Start, Compare, StartUpdate, FinishUpdate, FindSet,
             ReadLimit, InsertLimit, Count, InsertObject, Fail, Abort, Commit
    <3> QED
      BY <3>1 DEF TypeOK
  <2>2. ASSUME NEW w \in Workers, NEW t \in Transaction, req' = [req EXCEPT ![w] = t]
        PROVE  req' \in [Workers -> Transaction]
    BY <2>2 DEF TypeOK
  <2>3. CASE UNCHANGED req
    BY <2>1, <2>3 DEF TypeOK
  <2>4. ASSUME NEW w \in Workers, Idled(w)
        PROVE  req' \in [Workers -> Transaction]
    BY <2>4, EndStep
  <2> QED
    BY <2>1, <2>2, <2>3, <2>4, WhatRuns, StartStep, CompareStep, StartUpdateStep, FinishUpdateStep,
       FindSetStep, ReadLimitStep, InsertLimitStep, CountStep, InsertObjectStep DEF Commit
<1>2. CASE UNCHANGED <<sets, plans, graphs, limits>>
  BY <1>1, <1>2 DEF TypeOK
<1>3. ASSUME NEW w \in Workers, Commit(w)
      PROVE  TypeOK'
  <2>1. /\ Slot(w) \in Slots /\ Named(w) \subseteq Geos /\ Path(w) \in Paths
        /\ req[w].now \in Nat /\ req[w].set \in Nat
    BY <1>3, BodyType DEF Commit, TypeOK, Transaction
  <2>2. NewSet(w) \in SetVersion
    BY <2>1, FS_CardinalityType DEF NewSet, SetVersion, Numbered
  <2>3. \A v \in sets : CloseSet(w, v) \in SetVersion
    BY <2>1 DEF CloseSet, TypeOK, SetVersion
  <2>4. NewPlan(w) \in Plan /\ NewGraph(w) \in Graph
    BY <2>1 DEF NewPlan, NewGraph, Plan, Graph
  <2>5. sets' \subseteq SetVersion
    BY <1>3, <2>2, <2>3 DEF Commit, New
  <2>6. plans' \subseteq Plan /\ graphs' \subseteq Graph /\ limits' \subseteq Slots
    BY <1>3, <2>1, <2>4 DEF Commit, New, TypeOK
  <2> QED
    BY <1>1, <2>5, <2>6 DEF TypeOK
<1> QED
  BY <1>2, <1>3, OnlyCommitWrites

LEMMA ShapeStep == TypeOK /\ Shape /\ [Next]_vars => Shape'
<1> SUFFICES ASSUME TypeOK, Shape, [Next]_vars
             PROVE  Shape'
  OBVIOUS
<1> USE DEF Op, Inserts
<1>1. CASE UNCHANGED req
  BY <1>1 DEF Shape
<1>2. ASSUME NEW w \in Workers, NEW t \in Transaction, req' = [req EXCEPT ![w] = t],
             t.pc # "idle", t.body \in Requests,
             t.pc \in {"compared", "updating"} => t.body.op = "map",
             t.pc \in {"found", "unlimited", "limited"} => t.body.op = "plan",
             t.pc = "counted" => t.body.op \in {"plan", "graph"},
             "set" \in t.new => t.pc = "ready" /\ t.body.op = "map",
             "plan" \in t.new => t.pc = "ready" /\ t.body.op = "plan",
             "graph" \in t.new => t.pc = "ready" /\ t.body.op = "graph"
      PROVE  Shape'
  BY <1>2 DEF Shape, TypeOK
<1>3. ASSUME NEW w \in Workers, NEW q \in Requests, Start(w, q)
      PROVE  Shape'
  BY <1>2, <1>3, StartStep
<1>4. ASSUME NEW w \in Workers, Compare(w)
      PROVE  Shape'
  BY <1>2, <1>4, CompareStep DEF Shape
<1>5. ASSUME NEW w \in Workers, StartUpdate(w)
      PROVE  Shape'
  BY <1>2, <1>5, StartUpdateStep DEF Shape
<1>6. ASSUME NEW w \in Workers, FinishUpdate(w)
      PROVE  Shape'
  BY <1>2, <1>6, FinishUpdateStep DEF Shape
<1>7. ASSUME NEW w \in Workers, FindSet(w)
      PROVE  Shape'
  <2>1. Op(w) \in {"plan", "graph"}
    BY <1>7, BodyType, FindSetStep
  <2> QED
    BY <1>2, <1>7, <2>1, FindSetStep DEF Shape
<1>8. ASSUME NEW w \in Workers, ReadLimit(w)
      PROVE  Shape'
  BY <1>2, <1>8, ReadLimitStep DEF Shape
<1>9. ASSUME NEW w \in Workers, InsertLimit(w)
      PROVE  Shape'
  BY <1>2, <1>9, InsertLimitStep DEF Shape
<1>10. ASSUME NEW w \in Workers, Count(w)
       PROVE  Shape'
  BY <1>2, <1>10, CountStep DEF Shape
<1>11. ASSUME NEW w \in Workers, InsertObject(w)
       PROVE  Shape'
  BY <1>2, <1>11, InsertObjectStep DEF Shape
<1>12. ASSUME NEW w \in Workers, Idled(w)
       PROVE  Shape'
  <2>1. req'[w] = Idle /\ \A v \in Workers \ {w} : req'[v] = req[v]
    BY <1>12, EndStep DEF TypeOK
  <2>2. Idle.pc = "idle" /\ Idle.new = {}
    BY DEF Idle
  <2> QED
    BY <2>1, <2>2 DEF Shape
<1> QED
  BY <1>1, <1>3, <1>4, <1>5, <1>6, <1>7, <1>8, <1>9, <1>10, <1>11, <1>12, WhatRuns DEF Commit

-----------------------------------------------------------------------------
(* A commit keeps every version but for its end, and adds at most one. *)
LEMMA CommitSets ==
  ASSUME Inv1, NEW w \in Workers, Commit(w)
  PROVE  /\ \A v \in sets :
              /\ CloseSet(w, v) \in sets'
              /\ CloseSet(w, v).id = v.id /\ CloseSet(w, v).slot = v.slot
              /\ CloseSet(w, v).members = v.members /\ CloseSet(w, v).from = v.from
              /\ CloseSet(w, v).to =
                   IF Inserts(w, "set") /\ v.id \in req[w].targets THEN req[w].now ELSE v.to
         /\ Inserts(w, "set") => NewSet(w) \in sets'
         /\ \A u \in sets' : \/ \E v \in sets : u = CloseSet(w, v)
                             \/ Inserts(w, "set") /\ u = NewSet(w)
         /\ \A v \in sets : v.id # NewSet(w).id
<1>1. sets' = {CloseSet(w, v) : v \in sets} \cup New(w, "set", NewSet(w))
  BY DEF Commit
<1>2. ASSUME NEW v \in sets
      PROVE  /\ CloseSet(w, v).id = v.id /\ CloseSet(w, v).slot = v.slot
             /\ CloseSet(w, v).members = v.members /\ CloseSet(w, v).from = v.from
             /\ CloseSet(w, v).to =
                  IF Inserts(w, "set") /\ v.id \in req[w].targets THEN req[w].now ELSE v.to
  BY DEF CloseSet, Inv1, TypeOK, SetVersion
<1>3. \A v \in sets : v.id # NewSet(w).id
  <2>1. NewSet(w).id = Cardinality(sets) + 1
    BY DEF NewSet
  <2>2. \A v \in sets : v.id \in Nat /\ v.id <= Cardinality(sets)
    BY DEF Inv1, TypeOK, SetVersion, Numbered
  <2> QED
    BY <2>1, <2>2, FS_CardinalityType DEF Inv1, Numbered
<1> QED
  BY <1>1, <1>2, <1>3 DEF New

LEMMA NumberedStep == Inv1 /\ [Next]_vars => Numbered'
<1> SUFFICES ASSUME Inv1, [Next]_vars
             PROVE  Numbered'
  OBVIOUS
<1>1. CASE sets' = sets
  BY <1>1 DEF Inv1, Numbered
<1>2. ASSUME NEW w \in Workers, Commit(w)
      PROVE  Numbered'
  <2> DEFINE kept == {CloseSet(w, v) : v \in sets}
             close == [v \in sets |-> CloseSet(w, v)]
  <2>1. close \in Bijection(sets, kept)
    <3>1. \A u, v \in sets : CloseSet(w, u) = CloseSet(w, v) => u = v
      BY <1>2, CommitSets DEF Inv1, Numbered
    <3> QED
      BY <3>1 DEF Bijection, Injection, Surjection, IsInjective
  <2>2. IsFiniteSet(sets) /\ Cardinality(sets) \in Nat
    BY FS_CardinalityType DEF Inv1, Numbered
  <2>3. IsFiniteSet(kept) /\ Cardinality(kept) = Cardinality(sets)
    BY <2>1, <2>2, FS_Bijection DEF ExistsBijection
  <2>4. \A u \in kept : u.id # NewSet(w).id
    BY <1>2, CommitSets
  <2>5. sets' = IF Inserts(w, "set") THEN kept \cup {NewSet(w)} ELSE kept
    BY <1>2 DEF Commit, New
  <2>6. /\ IsFiniteSet(sets')
        /\ Cardinality(sets') = Cardinality(sets) + IF Inserts(w, "set") THEN 1 ELSE 0
    BY <2>2, <2>3, <2>4, <2>5, FS_AddElement
  <2>7. NewSet(w).id = Cardinality(sets) + 1
    BY DEF NewSet
  <2>8. \A u \in kept : u.id \in Nat /\ u.id <= Cardinality(sets)
    BY <1>2, CommitSets DEF Inv1, TypeOK, SetVersion, Numbered
  <2>9. \A u, v \in kept : u.id = v.id => u = v
    BY <1>2, CommitSets DEF Inv1, Numbered
  <2> HIDE DEF kept
  <2>10. CASE Inserts(w, "set")
    <3>1. sets' = kept \cup {NewSet(w)} /\ Cardinality(sets') = Cardinality(sets) + 1
      BY <2>5, <2>6, <2>10
    <3>2. \A u, v \in sets' : u.id = v.id => u = v
      BY <2>4, <2>9, <3>1
    <3>3. \A u \in sets' : u.id <= Cardinality(sets')
      BY <2>2, <2>7, <2>8, <3>1
    <3> QED
      BY <2>6, <3>2, <3>3 DEF Numbered
  <2>11. CASE ~ Inserts(w, "set")
    BY <2>2, <2>5, <2>6, <2>8, <2>9, <2>11 DEF Numbered
  <2> QED
    BY <2>10, <2>11
<1> QED
  BY <1>1, <1>2, OnlyCommitWrites

-----------------------------------------------------------------------------
LEMMA LockedStep == Inv1 /\ Locked /\ [Next]_vars => Locked'
<1> SUFFICES ASSUME Inv1, Locked, [Next]_vars
             PROVE  Locked'
  OBVIOUS
<1> USE DEF Inserts, Slot, LockedByOther
<1>1. CASE UNCHANGED <<sets, req>>
  BY <1>1 DEF Locked
<1>2. ASSUME NEW w \in Workers, NEW t \in Transaction, req' = [req EXCEPT ![w] = t], sets' = sets,
             \A i \in t.targets : \E v \in sets : v.id = i /\ v.slot = t.body.slot,
             "set" \in t.new => \A v \in sets : v.id \in t.targets => v.to = Null,
             "set" \in t.new => \A x \in Workers \ {w} :
                                  Inserts(x, "set") => req[x].targets \cap t.targets = {}
      PROVE  Locked'
  <2>1. req'[w] = t /\ \A x \in Workers \ {w} : req'[x] = req[x]
    BY <1>2 DEF Inv1, TypeOK
  <2> QED
    BY <1>2, <2>1 DEF Locked
<1>3. ASSUME NEW w \in Workers, NEW t \in Transaction, req' = [req EXCEPT ![w] = t], sets' = sets,
             t.body = req[w].body, t.targets = req[w].targets, "set" \notin t.new
      PROVE  Locked'
  <2>1. \A i \in t.targets : \E v \in sets : v.id = i /\ v.slot = t.body.slot
    BY <1>3 DEF Locked
  <2> QED
    BY <1>2, <1>3, <2>1
<1>4. ASSUME NEW w \in Workers, NEW q \in Requests, Start(w, q)
      PROVE  Locked'
  BY <1>2, <1>4, StartStep DEF Inv1, Unwritten
<1>5. ASSUME NEW w \in Workers, req[w].pc # "ready"
      PROVE  "set" \notin req[w].new
  BY <1>5 DEF Inv1, Shape
<1>6. ASSUME NEW w \in Workers, Compare(w)
      PROVE  Locked'
  BY <1>3, <1>5, <1>6, CompareStep DEF Inv1, Unwritten
<1>7. ASSUME NEW w \in Workers, StartUpdate(w)
      PROVE  Locked'
  <2>1. \A i \in {v.id : v \in OpenSets(Slot(w))} : \E v \in sets : v.id = i /\ v.slot = Slot(w)
    BY DEF OpenSets
  <2> QED
    BY <1>2, <1>5, <1>7, <2>1, StartUpdateStep DEF Inv1, Unwritten
<1>8. ASSUME NEW w \in Workers, FinishUpdate(w)
      PROVE  Locked'
  <2>1. PICK t \in Transaction :
           /\ req' = [req EXCEPT ![w] = t] /\ Unwritten
           /\ ~ LockedByOther(w) /\ t.new = {"set"}
           /\ t.targets = req[w].targets \cap {v.id : v \in {u \in sets : u.to = Null}}
           /\ t.body = req[w].body
    BY <1>8, FinishUpdateStep DEF Inv1
  <2>2. \A i \in t.targets : \E v \in sets : v.id = i /\ v.slot = t.body.slot
    BY <2>1 DEF Locked
  <2>3. \A v \in sets : v.id \in t.targets => v.to = Null
    BY <2>1 DEF Inv1, Numbered
  <2>4. \A x \in Workers \ {w} : Inserts(x, "set") => req[x].targets \cap t.targets = {}
    BY <2>1
  <2> QED
    BY <1>2, <2>1, <2>2, <2>3, <2>4 DEF Unwritten
<1>9. ASSUME NEW w \in Workers, FindSet(w)
      PROVE  Locked'
  BY <1>3, <1>5, <1>9, FindSetStep DEF Inv1, Unwritten
<1>10. ASSUME NEW w \in Workers, ReadLimit(w)
       PROVE  Locked'
  BY <1>3, <1>5, <1>10, ReadLimitStep DEF Inv1, Unwritten
<1>11. ASSUME NEW w \in Workers, InsertLimit(w)
       PROVE  Locked'
  BY <1>3, <1>5, <1>11, InsertLimitStep DEF Inv1, Unwritten
<1>12. ASSUME NEW w \in Workers, Count(w)
       PROVE  Locked'
  BY <1>3, <1>5, <1>12, CountStep DEF Inv1, Unwritten
<1>13. ASSUME NEW w \in Workers, InsertObject(w)
       PROVE  Locked'
  <2>1. Op(w) # "set"
    BY <1>13, BodyType DEF Inv1, InsertObject
  <2> QED
    BY <1>3, <1>5, <1>13, <2>1, InsertObjectStep DEF Inv1, Unwritten
<1>14. ASSUME NEW w \in Workers, Idled(w), Unwritten
       PROVE  Locked'
  BY <1>2, <1>14, EndStep, IdleType DEF Inv1, Unwritten, Idle
<1>15. ASSUME NEW w \in Workers, Commit(w)
       PROVE  Locked'
  <2>1. req'[w] = Idle /\ \A x \in Workers \ {w} : req'[x] = req[x]
    BY <1>15, EndStep DEF Commit, Inv1, TypeOK
  <2>2. ASSUME NEW x \in Workers \ {w}, NEW i \in req[x].targets
        PROVE  \E v \in sets' : v.id = i /\ v.slot = Slot(x)
    <3>1. PICK v \in sets : v.id = i /\ v.slot = Slot(x)
      BY DEF Locked
    <3> QED
      BY <1>15, <3>1, CommitSets
  <2>3. ASSUME NEW x \in Workers \ {w}, Inserts(x, "set"), NEW u \in sets', u.id \in req[x].targets
        PROVE  u.to = Null
    <3>1. CASE Inserts(w, "set") /\ u = NewSet(w)
      BY <3>1 DEF NewSet
    <3>2. ASSUME NEW v \in sets, u = CloseSet(w, v)
          PROVE  u.to = Null
      <4>1. v.to = Null /\ ~ (Inserts(w, "set") /\ v.id \in req[w].targets)
        BY <1>15, <2>3, <3>2, CommitSets DEF Locked
      <4> QED
        BY <1>15, <3>2, <4>1, CommitSets
    <3> QED
      BY <1>15, <3>1, <3>2, CommitSets
  <2>4. Idle.targets = {} /\ Idle.new = {}
    BY DEF Idle
  <2> QED
    BY <2>1, <2>2, <2>3, <2>4 DEF Locked
<1> QED
  BY <1>1, <1>4, <1>6, <1>7, <1>8, <1>9, <1>10, <1>11, <1>12, <1>13, <1>14, <1>15, WhatRuns

(* What a commit closes is of its slot, where it adds an open version. *)
LEMMA StaysMappedStep == Inv1 /\ Locked /\ StaysMapped /\ [Next]_vars => StaysMapped'
<1> SUFFICES ASSUME Inv1, Locked, StaysMapped, [Next]_vars
             PROVE  StaysMapped'
  OBVIOUS
<1>1. CASE sets' = sets
  BY <1>1 DEF StaysMapped, OpenSets
<1>2. ASSUME NEW w \in Workers, Commit(w), NEW u \in sets'
      PROVE  \E v \in sets' : v.slot = u.slot /\ v.to = Null
  <2>1. CASE u = NewSet(w)
    BY <2>1 DEF NewSet
  <2>2. ASSUME NEW x \in sets, u = CloseSet(w, x)
        PROVE  \E v \in sets' : v.slot = u.slot /\ v.to = Null
    <3>1. PICK y \in sets : y.slot = x.slot /\ y.to = Null
      BY DEF StaysMapped, OpenSets
    <3>2. CASE ~ (Inserts(w, "set") /\ y.id \in req[w].targets)
      BY <1>2, <2>2, <3>1, <3>2, CommitSets
    <3>3. CASE Inserts(w, "set") /\ y.id \in req[w].targets
      <4>1. y.slot = Slot(w)
        <5>1. PICK v \in sets : v.id = y.id /\ v.slot = Slot(w)
          BY <3>3 DEF Locked
        <5> QED
          BY <5>1 DEF Inv1, Numbered
      <4>2. NewSet(w) \in sets' /\ NewSet(w).slot = Slot(w) /\ NewSet(w).to = Null
        BY <1>2, <3>3, CommitSets DEF NewSet
      <4>3. u.slot = Slot(w)
        BY <1>2, <2>2, <3>1, <4>1, CommitSets
      <4> QED
        BY <4>2, <4>3
    <3> QED
      BY <3>2, <3>3
  <2> QED
    BY <1>2, <2>1, <2>2, CommitSets
<1> QED
  BY <1>1, <1>2, OnlyCommitWrites DEF StaysMapped, OpenSets

-----------------------------------------------------------------------------
LEMMA AttributedStep == Inv1 /\ Locked /\ Attributed /\ [Next]_vars => Attributed'
<1> SUFFICES ASSUME Inv1, Locked, [Next]_vars, NEW by \in [Nat -> Workers], Attributes(by)
             PROVE  Attributed'
  BY DEF Attributed
<1>0. \A v \in sets : v.id \in Nat
  BY DEF Inv1, TypeOK, SetVersion
<1>1. ASSUME sets' = sets,
             \A w \in Workers : Updates(w)' =>
               \A v \in OpenSets(Slot(w))' : by[v.id] = w => v.id \in req'[w].targets
      PROVE  Attributed'
  <2>1. \A s \in Slots : OpenSets(s)' = OpenSets(s)
    BY <1>1 DEF OpenSets
  <2>2. Attributes(by)'
    BY <1>1, <2>1 DEF Attributes
  <2> QED
    BY <2>2 DEF Attributed
<1>2. CASE UNCHANGED <<sets, req>>
  BY <1>1, <1>2 DEF Attributes, Updates, Inserts, OpenSets, Slot
<1>3. ASSUME NEW w \in Workers, NEW t \in Transaction, req' = [req EXCEPT ![w] = t], sets' = sets,
             t.pc = "updating" \/ "set" \in t.new =>
               \A v \in sets : v.slot = t.body.slot /\ v.to = Null /\ by[v.id] = w =>
                 v.id \in t.targets
      PROVE  Attributed'
  <2>1. req'[w] = t /\ \A x \in Workers \ {w} : req'[x] = req[x]
    BY <1>3 DEF Inv1, TypeOK
  <2> QED
    BY <1>1, <1>3, <2>1 DEF Attributes, Updates, Inserts, OpenSets, Slot
<1>4. ASSUME NEW w \in Workers, req[w].pc # "ready"
      PROVE  "set" \notin req[w].new
  BY <1>4 DEF Inv1, Shape, Inserts
<1>5. ASSUME NEW w \in Workers, NEW q \in Requests, Start(w, q)
      PROVE  Attributed'
  <2>1. PICK t \in Transaction : /\ req' = [req EXCEPT ![w] = t] /\ sets' = sets
                                 /\ t.pc = "started" /\ t.new = {}
    BY <1>5, StartStep DEF Inv1, Unwritten
  <2> QED
    BY <1>3, <2>1
<1>6. ASSUME NEW w \in Workers, Compare(w)
      PROVE  Attributed'
  BY <1>3, <1>4, <1>6, CompareStep DEF Inv1, Unwritten
<1>7. ASSUME NEW w \in Workers, StartUpdate(w)
      PROVE  Attributed'
  <2>1. PICK t \in Transaction : /\ req' = [req EXCEPT ![w] = t] /\ sets' = sets
                                 /\ t.targets = {v.id : v \in OpenSets(Slot(w))}
                                 /\ t.body = req[w].body
    BY <1>7, StartUpdateStep DEF Inv1, Unwritten
  <2> QED
    BY <1>3, <2>1 DEF OpenSets, Slot
<1>8. ASSUME NEW w \in Workers, FinishUpdate(w)
      PROVE  Attributed'
  <2>1. \A v \in OpenSets(Slot(w)) : by[v.id] = w => v.id \in req[w].targets
    BY <1>8, FinishUpdateStep DEF Inv1, Attributes, Updates
  <2> QED
    BY <1>3, <1>8, <2>1, FinishUpdateStep DEF Inv1, Unwritten, OpenSets, Slot
<1>9. ASSUME NEW w \in Workers, FindSet(w)
      PROVE  Attributed'
  BY <1>3, <1>4, <1>9, FindSetStep DEF Inv1, Unwritten
<1>10. ASSUME NEW w \in Workers, ReadLimit(w)
       PROVE  Attributed'
  BY <1>3, <1>4, <1>10, ReadLimitStep DEF Inv1, Unwritten
<1>11. ASSUME NEW w \in Workers, InsertLimit(w)
       PROVE  Attributed'
  BY <1>3, <1>4, <1>11, InsertLimitStep DEF Inv1, Unwritten
<1>12. ASSUME NEW w \in Workers, Count(w)
       PROVE  Attributed'
  BY <1>3, <1>4, <1>12, CountStep DEF Inv1, Unwritten
<1>13. ASSUME NEW w \in Workers, InsertObject(w)
       PROVE  Attributed'
  <2>1. Op(w) # "set"
    BY <1>13, BodyType DEF Inv1, InsertObject
  <2> QED
    BY <1>3, <1>4, <1>13, <2>1, InsertObjectStep DEF Inv1, Unwritten
<1>14. ASSUME NEW w \in Workers, Idled(w), Unwritten
       PROVE  Attributed'
  BY <1>3, <1>14, EndStep, IdleType DEF Inv1, Unwritten, Idle
<1>15. ASSUME NEW w \in Workers, Commit(w)
       PROVE  Attributed'
  <2> DEFINE new == NewSet(w)
  <2>1. req'[w] = Idle /\ \A x \in Workers \ {w} : req'[x] = req[x]
    BY <1>15, EndStep DEF Commit, Inv1, TypeOK
  <2>2. new.id \in Nat /\ new.slot = Slot(w)
    BY FS_CardinalityType DEF NewSet, Inv1, Numbered
  <2>3. PICK next \in [Nat -> Workers] :
          next[new.id] = w /\ \A i \in Nat \ {new.id} : next[i] = by[i]
    <3>1. [by EXCEPT ![new.id] = w] \in [Nat -> Workers]
      BY <2>2
    <3> QED
      BY <2>2, <3>1
  <2> HIDE DEF new
  <2>4. ASSUME NEW u \in sets', u.to = Null
        PROVE  \/ u = new /\ Inserts(w, "set")
               \/ /\ \E v \in sets : /\ u = CloseSet(w, v) /\ v.to = Null
                                     /\ v.id = u.id /\ v.slot = u.slot
                  /\ next[u.id] = by[u.id]
                  /\ ~ (Inserts(w, "set") /\ u.id \in req[w].targets)
    <3>1. req[w].now \in Nat
      BY DEF Inv1, TypeOK, Transaction
    <3>2. ASSUME NEW v \in sets, u = CloseSet(w, v)
          PROVE  /\ v.to = Null /\ v.id = u.id /\ v.slot = u.slot
                 /\ next[u.id] = by[u.id]
                 /\ ~ (Inserts(w, "set") /\ u.id \in req[w].targets)
      <4>1. v.id = u.id /\ v.slot = u.slot /\ v.id # new.id
            /\ u.to = IF Inserts(w, "set") /\ v.id \in req[w].targets THEN req[w].now ELSE v.to
        BY <1>15, <3>2, CommitSets DEF new
      <4> QED
        BY <1>0, <2>3, <2>4, <3>1, <4>1
    <3> QED
      BY <1>15, <3>2, CommitSets DEF new
  <2>5. ASSUME NEW u \in sets', NEW v \in sets', u.to = Null, v.to = Null,
               u.slot = v.slot, u.slot \in Slots, next[u.id] = next[v.id]
        PROVE  u = v
    <3>1. ASSUME NEW x \in sets', NEW y \in sets', x.to = Null, y.to = Null, x.slot = y.slot,
                 next[x.id] = next[y.id], x = new, Inserts(w, "set")
          PROVE  x = y
      <4>1. ASSUME NEW z \in sets, z.to = Null, z.id = y.id, z.slot = y.slot,
                   next[y.id] = by[y.id]
            PROVE  y.id \in req[w].targets
        <5>1. z \in OpenSets(Slot(w)) /\ by[z.id] = w
          BY <2>2, <2>3, <3>1, <4>1 DEF OpenSets
        <5> QED
          BY <3>1, <4>1, <5>1 DEF Attributes, Updates
      <4> QED
        BY <2>4, <3>1, <4>1
    <3>2. ASSUME NEW x \in sets, NEW y \in sets, u = CloseSet(w, x), v = CloseSet(w, y),
                 x.to = Null, y.to = Null, x.id = u.id, x.slot = u.slot, y.id = v.id,
                 y.slot = v.slot, by[u.id] = by[v.id]
          PROVE  u = v
      <4>1. x = y
        BY <2>5, <3>2 DEF Attributes, OpenSets
      <4> QED
        BY <3>2, <4>1
    <3> QED
      BY <2>4, <2>5, <3>1, <3>2
  <2>6. ASSUME NEW x \in Workers \ {w}, Updates(x), NEW u \in sets', u.slot = Slot(x), u.to = Null,
               next[u.id] = x
        PROVE  u.id \in req[x].targets
    <3>1. u # new
      BY <2>3, <2>6
    <3>2. PICK v \in sets : v.to = Null /\ v.id = u.id /\ v.slot = u.slot /\ by[v.id] = x
      BY <2>4, <2>6, <3>1
    <3> QED
      BY <2>6, <3>2 DEF Attributes, OpenSets
  <2>7. ~ Updates(w)' /\ \A x \in Workers \ {w} : Updates(x)' = Updates(x) /\ Slot(x)' = Slot(x)
    BY <2>1 DEF Updates, Inserts, Idle, Slot
  <2>8. Attributes(next)'
    BY <2>1, <2>5, <2>6, <2>7 DEF Attributes, OpenSets
  <2> QED
    BY <2>3, <2>8 DEF Attributed
<1> QED
  BY <1>2, <1>5, <1>6, <1>7, <1>8, <1>9, <1>10, <1>11, <1>12, <1>13, <1>14, <1>15, WhatRuns

(* A slot has no more open versions than there are workers to attribute them to. *)
LEMMA AttributedBounds == TypeOK /\ Attributed => OpenSetsBounded
<1> SUFFICES ASSUME TypeOK, NEW by \in [Nat -> Workers], Attributes(by), NEW s \in Slots
             PROVE  Cardinality(OpenSets(s)) <= Cardinality(Workers)
  BY DEF Attributed, OpenSetsBounded
<1> DEFINE f == [v \in OpenSets(s) |-> by[v.id]]
<1>1. \A v \in OpenSets(s) : v.id \in Nat
  BY DEF OpenSets, TypeOK, SetVersion
<1>2. f \in Injection(OpenSets(s), Workers)
  BY <1>1 DEF Attributes, Injection, IsInjective
<1> QED
  BY <1>2, WorkersAssumption, FS_Injection

-----------------------------------------------------------------------------
(* The members of the version that was found. *)
LEMMA MembersOf ==
  ASSUME Numbered, NEW w \in Workers, NEW v \in sets, v.id = req[w].set
  PROVE  Members(w) = v.members
<1>1. {u \in sets : u.id = req[w].set} = {v}
  BY DEF Numbered
<1> QED
  BY <1>1 DEF Members

(* The version that was found keeps its members until the commit. *)
LEMMA FoundStep == Inv1 /\ Found /\ [Next]_vars => Found'
<1> SUFFICES ASSUME Inv1, Found, [Next]_vars
             PROVE  Found'
  OBVIOUS
<1> USE DEF InsertsObject, Inserts, Slot, Named
<1> DEFINE Late == {"found", "unlimited", "limited", "counted"}
           Objects == {"plan", "graph"}
<1>1. CASE UNCHANGED <<sets, req>>
  BY <1>1 DEF Found
<1>2. ASSUME NEW w \in Workers, NEW t \in Transaction, req' = [req EXCEPT ![w] = t], sets' = sets,
             t.pc \in Late \/ t.new \cap Objects # {} =>
               \E v \in sets : /\ v.id = t.set /\ v.slot = t.body.slot
                               /\ t.new \cap Objects # {} => t.body.geos \subseteq v.members
      PROVE  Found'
  <2>1. req'[w] = t /\ \A x \in Workers \ {w} : req'[x] = req[x]
    BY <1>2 DEF Inv1, TypeOK
  <2> QED
    BY <1>2, <2>1 DEF Found
<1>3. ASSUME NEW w \in Workers, req[w].pc # "ready"
      PROVE  req[w].new \cap Objects = {}
  BY <1>3 DEF Inv1, Shape
<1>4. ASSUME NEW w \in Workers, NEW t \in Transaction, req' = [req EXCEPT ![w] = t], sets' = sets,
             req[w].pc \in Late, t.body = req[w].body, t.set = req[w].set, t.new \cap Objects = {}
      PROVE  Found'
  BY <1>2, <1>4 DEF Found
<1>5. ASSUME NEW w \in Workers, NEW q \in Requests, Start(w, q)
      PROVE  Found'
  <2>1. PICK t \in Transaction : /\ req' = [req EXCEPT ![w] = t] /\ sets' = sets
                                 /\ t.pc = "started" /\ t.new = {}
    BY <1>5, StartStep DEF Inv1, Unwritten
  <2> QED
    BY <1>2, <2>1
<1>6. ASSUME NEW w \in Workers, Compare(w)
      PROVE  Found'
  <2>1. PICK t \in Transaction : /\ req' = [req EXCEPT ![w] = t] /\ sets' = sets
                                 /\ t.pc \in {"ready", "compared"} /\ t.new = req[w].new
                                 /\ req[w].pc = "started"
    BY <1>6, CompareStep DEF Inv1, Unwritten
  <2> QED
    BY <1>2, <1>3, <2>1
<1>7. ASSUME NEW w \in Workers, StartUpdate(w)
      PROVE  Found'
  <2>1. PICK t \in Transaction : /\ req' = [req EXCEPT ![w] = t] /\ sets' = sets
                                 /\ t.pc = "updating" /\ t.new = req[w].new
                                 /\ req[w].pc = "compared"
    BY <1>7, StartUpdateStep DEF Inv1, Unwritten
  <2> QED
    BY <1>2, <1>3, <2>1
<1>8. ASSUME NEW w \in Workers, FinishUpdate(w)
      PROVE  Found'
  <2>1. PICK t \in Transaction : /\ req' = [req EXCEPT ![w] = t] /\ sets' = sets
                                 /\ t.pc = "ready" /\ t.new = {"set"}
    BY <1>8, FinishUpdateStep DEF Inv1, Unwritten
  <2> QED
    BY <1>2, <2>1
<1>9. ASSUME NEW w \in Workers, FindSet(w)
      PROVE  Found'
  <2>1. PICK t \in Transaction : /\ req' = [req EXCEPT ![w] = t] /\ sets' = sets
                                 /\ req[w].pc = "started" /\ t.new = req[w].new
                                 /\ t.body = req[w].body
                                 /\ \E v \in OpenSets(Slot(w)) : t.set = v.id
    BY <1>9, FindSetStep DEF Inv1, Unwritten
  <2>2. \E v \in sets : v.id = t.set /\ v.slot = t.body.slot
    BY <2>1 DEF OpenSets
  <2> QED
    BY <1>2, <1>3, <2>1, <2>2
<1>10. ASSUME NEW w \in Workers, ReadLimit(w)
       PROVE  Found'
  BY <1>3, <1>4, <1>10, ReadLimitStep DEF Inv1, Unwritten
<1>11. ASSUME NEW w \in Workers, InsertLimit(w)
       PROVE  Found'
  BY <1>3, <1>4, <1>11, InsertLimitStep DEF Inv1, Unwritten
<1>12. ASSUME NEW w \in Workers, Count(w)
       PROVE  Found'
  BY <1>3, <1>4, <1>12, CountStep DEF Inv1, Unwritten
<1>13. ASSUME NEW w \in Workers, InsertObject(w)
       PROVE  Found'
  <2>1. PICK t \in Transaction : /\ req' = [req EXCEPT ![w] = t] /\ sets' = sets
                                 /\ req[w].pc = "counted" /\ Named(w) \subseteq Members(w)
                                 /\ t.body = req[w].body /\ t.set = req[w].set
    BY <1>13, InsertObjectStep DEF Inv1, Unwritten
  <2>2. PICK v \in sets : v.id = req[w].set /\ v.slot = Slot(w)
    BY <2>1 DEF Found
  <2>3. Named(w) \subseteq v.members
    BY <2>1, <2>2, MembersOf DEF Inv1
  <2> QED
    BY <1>2, <2>1, <2>2, <2>3
<1>14. ASSUME NEW w \in Workers, Idled(w), Unwritten
       PROVE  Found'
  BY <1>2, <1>14, EndStep, IdleType DEF Inv1, Unwritten, Idle
<1>15. ASSUME NEW w \in Workers, Commit(w)
       PROVE  Found'
  <2>1. req'[w] = Idle /\ \A x \in Workers \ {w} : req'[x] = req[x]
    BY <1>15, EndStep DEF Commit, Inv1, TypeOK
  <2>2. \A v \in sets : \E u \in sets' :
          u.id = v.id /\ u.slot = v.slot /\ u.members = v.members
    BY <1>15, CommitSets
  <2>3. Idle.pc = "idle" /\ Idle.new = {}
    BY DEF Idle
  <2> QED
    BY <2>1, <2>2, <2>3 DEF Found
<1> QED
  BY <1>1, <1>5, <1>6, <1>7, <1>8, <1>9, <1>10, <1>11, <1>12, <1>13, <1>14, <1>15, WhatRuns

LEMMA WithinSetStep == Inv1 /\ Found /\ WithinSet /\ [Next]_vars => WithinSet'
<1> SUFFICES ASSUME Inv1, Found, WithinSet, [Next]_vars
             PROVE  WithinSet'
  OBVIOUS
<1>1. CASE UNCHANGED <<sets, plans, graphs>>
  BY <1>1 DEF WithinSet
<1>2. ASSUME NEW w \in Workers, Commit(w)
      PROVE  WithinSet'
  <2>1. \A v \in sets : \E u \in sets' :
          u.id = v.id /\ u.slot = v.slot /\ u.members = v.members
    BY <1>2, CommitSets
  <2>2. ASSUME NEW p \in plans'
        PROVE  \E v \in sets : v.id = p.set /\ v.slot = p.slot /\ p.assigned \subseteq v.members
                               /\ p.complete = (p.assigned = v.members)
    <3>1. CASE p \in plans
      BY <3>1 DEF WithinSet
    <3>2. CASE p = NewPlan(w) /\ Inserts(w, "plan")
      <4>1. PICK v \in sets : v.id = req[w].set /\ v.slot = Slot(w) /\ Named(w) \subseteq v.members
        BY <3>2 DEF Found, InsertsObject
      <4>2. Members(w) = v.members
        BY <4>1, MembersOf DEF Inv1
      <4>3. (Members(w) \subseteq Named(w)) = (Named(w) = v.members)
        BY <4>1, <4>2
      <4> QED
        BY <3>2, <4>1, <4>3 DEF NewPlan
    <3> QED
      BY <1>2, <3>1, <3>2 DEF Commit, New
  <2>3. ASSUME NEW g \in graphs'
        PROVE  \E v \in sets : v.id = g.set /\ g.nodes \subseteq v.members
    <3>1. CASE g \in graphs
      BY <3>1 DEF WithinSet
    <3>2. CASE g = NewGraph(w) /\ Inserts(w, "graph")
      BY <3>2 DEF Found, InsertsObject, NewGraph
    <3> QED
      BY <1>2, <3>1, <3>2 DEF Commit, New
  <2>4. ASSUME NEW p \in plans'
        PROVE  \E u \in sets' : u.id = p.set /\ u.slot = p.slot /\ p.assigned \subseteq u.members
                                /\ p.complete = (p.assigned = u.members)
    <3>1. PICK v \in sets : v.id = p.set /\ v.slot = p.slot /\ p.assigned \subseteq v.members
                            /\ p.complete = (p.assigned = v.members)
      BY <2>2
    <3>2. PICK u \in sets' : u.id = v.id /\ u.slot = v.slot /\ u.members = v.members
      BY <2>1
    <3> QED
      BY <3>1, <3>2
  <2>5. ASSUME NEW g \in graphs'
        PROVE  \E u \in sets' : u.id = g.set /\ g.nodes \subseteq u.members
    BY <2>1, <2>3
  <2> QED
    BY <2>4, <2>5 DEF WithinSet
<1> QED
  BY <1>1, <1>2, OnlyCommitWrites

-----------------------------------------------------------------------------
LEMMA PlansAtType ==
  ASSUME PromisesBounded, NEW s
  PROVE  IsFiniteSet(PlansAt(s)) /\ Cardinality(PlansAt(s)) \in Nat
<1>1. IsFiniteSet(PlansAt(s))
  BY FS_Subset DEF PromisesBounded, PlansAt
<1> QED
  BY <1>1, FS_CardinalityType

LEMMA PromisedType ==
  ASSUME NEW S \in SUBSET Workers
  PROVE  /\ IsFiniteSet(S) /\ Cardinality(S) \in Nat
         /\ Cardinality(S) <= Cardinality(Workers) /\ Cardinality(Workers) \in Nat
  BY WorkersAssumption, FS_Subset, FS_CardinalityType

(* A plan is promised by a worker that sees room for it; there is always the *)
(* room of one worker, and a commit makes a plan of a promise.              *)
LEMMA PromisesBoundedStep == Inv1 /\ PromisesBounded /\ [Next]_vars => PromisesBounded'
<1> SUFFICES ASSUME Inv1, PromisesBounded, [Next]_vars
             PROVE  PromisesBounded'
  OBVIOUS
<1> USE DEF Op, Slot
<1>1. ASSUME plans' = plans, \A s \in Slots : Promised(s)' \subseteq Promised(s)
      PROVE  PromisesBounded'
  <2>1. ASSUME NEW s \in Slots
        PROVE  Cardinality(PlansAt(s))' + Cardinality(Promised(s))'
                 < MaxPlans + Cardinality(Workers)
    <3>1. Promised(s) \subseteq Workers
      BY DEF Promised
    <3>2. Cardinality(Promised(s)') <= Cardinality(Promised(s)) /\ Cardinality(Promised(s)') \in Nat
      BY <1>1, <3>1, PromisedType, FS_Subset
    <3>3. Cardinality(PlansAt(s)') = Cardinality(PlansAt(s))
      BY <1>1 DEF PlansAt
    <3>4. Cardinality(PlansAt(s)) + Cardinality(Promised(s)) < MaxPlans + Cardinality(Workers)
      BY DEF PromisesBounded
    <3> QED
      BY <3>1, <3>2, <3>3, <3>4, PlansAtType, PromisedType, MaxPlansAssumption
  <2> QED
    BY <1>1, <2>1 DEF PromisesBounded
<1>2. ASSUME NEW w \in Workers, NEW t \in Transaction, req' = [req EXCEPT ![w] = t], plans' = plans,
             t.pc \in {"counted", "ready"} /\ t.body.op = "plan" =>
               req[w].pc \in {"counted", "ready"} /\ t.body = req[w].body
      PROVE  PromisesBounded'
  <2>1. req'[w] = t /\ \A x \in Workers \ {w} : req'[x] = req[x]
    BY <1>2 DEF Inv1, TypeOK
  <2>2. \A s \in Slots : Promised(s)' \subseteq Promised(s)
    BY <1>2, <2>1 DEF Promised
  <2> QED
    BY <1>1, <1>2, <2>2
<1>3. CASE UNCHANGED <<plans, req>>
  BY <1>1, <1>3 DEF Promised
<1>4. ASSUME NEW w \in Workers, NEW q \in Requests, Start(w, q)
      PROVE  PromisesBounded'
  BY <1>2, <1>4, StartStep DEF Inv1, Unwritten
<1>5. ASSUME NEW w \in Workers, Compare(w)
      PROVE  PromisesBounded'
  BY <1>2, <1>5, CompareStep DEF Inv1, Unwritten
<1>6. ASSUME NEW w \in Workers, StartUpdate(w)
      PROVE  PromisesBounded'
  BY <1>2, <1>6, StartUpdateStep DEF Inv1, Unwritten
<1>7. ASSUME NEW w \in Workers, FinishUpdate(w)
      PROVE  PromisesBounded'
  BY <1>2, <1>7, FinishUpdateStep DEF Inv1, Shape, Unwritten
<1>8. ASSUME NEW w \in Workers, FindSet(w)
      PROVE  PromisesBounded'
  BY <1>2, <1>8, FindSetStep DEF Inv1, Unwritten
<1>9. ASSUME NEW w \in Workers, ReadLimit(w)
      PROVE  PromisesBounded'
  BY <1>2, <1>9, ReadLimitStep DEF Inv1, Unwritten
<1>10. ASSUME NEW w \in Workers, InsertLimit(w)
       PROVE  PromisesBounded'
  BY <1>2, <1>10, InsertLimitStep DEF Inv1, Unwritten
<1>11. ASSUME NEW w \in Workers, Count(w)
       PROVE  PromisesBounded'
  <2>1. PICK t \in Transaction : /\ req' = [req EXCEPT ![w] = t] /\ plans' = plans
                                 /\ req[w].pc = "limited" /\ t.body = req[w].body
    BY <1>11, CountStep DEF Inv1, Unwritten
  <2>2. Cardinality(PlansAt(Slot(w))) < MaxPlans
    BY <1>11 DEF Count
  <2>3. req'[w] = t /\ \A x \in Workers \ {w} : req'[x] = req[x]
    BY <2>1 DEF Inv1, TypeOK
  <2>4. ASSUME NEW s \in Slots
        PROVE  Cardinality(PlansAt(s))' + Cardinality(Promised(s))'
                 < MaxPlans + Cardinality(Workers)
    <3>1. Cardinality(PlansAt(s)') = Cardinality(PlansAt(s))
      BY <2>1 DEF PlansAt
    <3>2. CASE s = Slot(w)
      <4>1. Promised(s)' \in SUBSET Workers
        BY DEF Promised
      <4> QED
        BY <2>2, <3>1, <3>2, <4>1, PlansAtType, PromisedType, MaxPlansAssumption
    <3>3. CASE s # Slot(w)
      <4>1. Promised(s)' = Promised(s)
        BY <2>1, <2>3, <3>3 DEF Promised
      <4> QED
        BY <3>1, <4>1 DEF PromisesBounded
    <3> QED
      BY <3>2, <3>3
  <2> QED
    BY <2>1, <2>4 DEF PromisesBounded
<1>12. ASSUME NEW w \in Workers, InsertObject(w)
       PROVE  PromisesBounded'
  BY <1>2, <1>12, InsertObjectStep DEF Inv1, Unwritten
<1>13. ASSUME NEW w \in Workers, Idled(w), Unwritten
       PROVE  PromisesBounded'
  BY <1>2, <1>13, EndStep, IdleType DEF Inv1, Unwritten, Idle
<1>14. ASSUME NEW w \in Workers, Commit(w)
       PROVE  PromisesBounded'
  <2>1. req'[w] = Idle /\ \A x \in Workers \ {w} : req'[x] = req[x]
    BY <1>14, EndStep DEF Commit, Inv1, TypeOK
  <2>2. plans' = plans \cup New(w, "plan", NewPlan(w))
    BY <1>14 DEF Commit
  <2>3. IsFiniteSet(plans')
    BY <2>2, FS_AddElement DEF PromisesBounded, New
  <2>4. ASSUME NEW s \in Slots
        PROVE  Cardinality(PlansAt(s)') + Cardinality(Promised(s)')
                 < MaxPlans + Cardinality(Workers)
    <3>1. Promised(s)' = Promised(s) \ {w}
      BY <2>1 DEF Promised, Idle
    <3>2. Promised(s) \in SUBSET Workers /\ Promised(s) \ {w} \in SUBSET Workers
      BY DEF Promised
    <3>3. Cardinality(PlansAt(s)) + Cardinality(Promised(s)) < MaxPlans + Cardinality(Workers)
      BY DEF PromisesBounded
    <3>4. CASE Inserts(w, "plan") /\ Slot(w) = s
      <4>1. w \in Promised(s)
        BY <3>4 DEF Promised, Inv1, Shape
      <4>2. Cardinality(Promised(s) \ {w}) = Cardinality(Promised(s)) - 1
        BY <3>2, <4>1, PromisedType, FS_RemoveElement
      <4>3. PlansAt(s)' = PlansAt(s) \cup {NewPlan(w)}
        BY <2>2, <3>4 DEF PlansAt, New, NewPlan
      <4>4. /\ Cardinality(PlansAt(s)') <= Cardinality(PlansAt(s)) + 1
            /\ Cardinality(PlansAt(s)') \in Nat
        <5>1. IsFiniteSet(PlansAt(s)) /\ Cardinality(PlansAt(s)) \in Nat
          BY PlansAtType
        <5> QED
          BY <4>3, <5>1, FS_AddElement
      <4> QED
        BY <3>1, <3>2, <3>3, <4>2, <4>4, PlansAtType, PromisedType, MaxPlansAssumption
    <3>5. CASE ~ (Inserts(w, "plan") /\ Slot(w) = s)
      <4>1. PlansAt(s)' = PlansAt(s)
        BY <2>2, <3>5 DEF PlansAt, New, NewPlan
      <4>2. Cardinality(Promised(s) \ {w}) <= Cardinality(Promised(s))
        BY <3>2, PromisedType, FS_Subset
      <4> QED
        BY <3>1, <3>2, <3>3, <4>1, <4>2, PlansAtType, PromisedType, MaxPlansAssumption
    <3> QED
      BY <3>4, <3>5
  <2> QED
    BY <2>3, <2>4 DEF PromisesBounded
<1> QED
  BY <1>3, <1>4, <1>5, <1>6, <1>7, <1>8, <1>9, <1>10, <1>11, <1>12, <1>13, <1>14, WhatRuns

-----------------------------------------------------------------------------
(* The strengthened invariant holds of every reachable state. *)
THEOREM Invariance == Spec => []Inv
<1>1. Init => Inv
  <2> SUFFICES ASSUME Init
               PROVE  Inv
    OBVIOUS
  <2>1. /\ sets = {} /\ plans = {} /\ graphs = {} /\ limits = {} /\ clock = 1
        /\ req = [w \in Workers |-> Idle]
    BY DEF Init
  <2>2. \A w \in Workers : /\ req[w] = Idle /\ req[w].pc = "idle" /\ req[w].new = {}
                           /\ req[w].targets = {}
    BY <2>1 DEF Idle
  <2>3. TypeOK
    BY <2>1, IdleType DEF TypeOK
  <2>4. Shape /\ Numbered
    BY <2>1, <2>2, FS_EmptySet DEF Shape, Numbered, Inserts
  <2>5. Locked /\ StaysMapped /\ WithinSet
    BY <2>1, <2>2 DEF Locked, StaysMapped, WithinSet, Inserts
  <2>6. Found
    BY <2>2 DEF Found, InsertsObject, Inserts
  <2>7. Attributed
    <3>1. PICK w \in Workers : TRUE
      BY WorkersAssumption
    <3>2. [i \in Nat |-> w] \in [Nat -> Workers]
      OBVIOUS
    <3>3. (\A s : OpenSets(s) = {}) /\ \A x \in Workers : ~ Updates(x)
      BY <2>1, <2>2 DEF OpenSets, Updates, Inserts
    <3>4. \A by \in [Nat -> Workers] : Attributes(by)
      BY <3>3 DEF Attributes
    <3> QED
      BY <3>2, <3>4 DEF Attributed
  <2>8. PromisesBounded
    <3>1. Cardinality(Workers) \in Nat /\ Cardinality(Workers) # 0
      BY WorkersAssumption, FS_CardinalityType, FS_EmptySet
    <3>2. \A s \in Slots : PlansAt(s) = {} /\ Promised(s) = {}
      BY <2>1, <2>2 DEF PlansAt, Promised
    <3> QED
      <4>1. IsFiniteSet(plans)
        BY <2>1, FS_EmptySet
      <4>2. \A s \in Slots : Cardinality(PlansAt(s)) = 0 /\ Cardinality(Promised(s)) = 0
        BY <3>2, FS_EmptySet
      <4> QED
        BY <3>1, <4>1, <4>2, MaxPlansAssumption DEF PromisesBounded
  <2> QED
    BY <2>3, <2>4, <2>5, <2>6, <2>7, <2>8 DEF Inv, Inv1
<1>2. Inv /\ [Next]_vars => Inv'
  BY TypeStep, ShapeStep, NumberedStep, LockedStep, AttributedStep, StaysMappedStep,
     FoundStep, WithinSetStep, PromisesBoundedStep DEF Inv, Inv1
<1> QED
  BY <1>1, <1>2, PTL DEF Spec

(* The variables keep their types. *)
THEOREM TypeCorrect == Spec => []TypeOK
<1>1. Inv => TypeOK
  BY DEF Inv, Inv1
<1> QED
  BY <1>1, Invariance, PTL

(* However map_locality overlaps with itself, fails or crashes, a slot that  *)
(* was mapped has an open set version.                                      *)
THEOREM AlwaysMapped == Spec => []StaysMapped
<1>1. Inv => StaysMapped
  BY DEF Inv
<1> QED
  BY <1>1, Invariance, PTL

(* However map_locality overlaps with itself, a slot never has more open     *)
(* versions than there are workers.                                         *)
THEOREM OpenVersionsBounded == Spec => []OpenSetsBounded
<1>1. Inv => OpenSetsBounded
  BY AttributedBounds DEF Inv, Inv1
<1> QED
  BY <1>1, Invariance, PTL

(* A plan or a graph is within the set version it was created on, although   *)
(* that one may be closed while it is created.                              *)
THEOREM CreatedWithinSet == Spec => []WithinSet
<1>1. Inv => WithinSet
  BY DEF Inv
<1> QED
  BY <1>1, Invariance, PTL

(* Overlapping requests exceed the limit on the plans of a slot by less than *)
(* the number of workers.                                                   *)
THEOREM LimitOvershootBounded == Spec => []PlansBounded
<1>1. Inv => PlansBounded
  <2> SUFFICES ASSUME Inv, NEW s \in Slots
               PROVE  Cardinality(PlansAt(s)) < MaxPlans + Cardinality(Workers)
    BY DEF PlansBounded
  <2>1. Promised(s) \in SUBSET Workers
    BY DEF Promised
  <2>2. Cardinality(PlansAt(s)) + Cardinality(Promised(s)) < MaxPlans + Cardinality(Workers)
    BY DEF Inv, PromisesBounded
  <2> QED
    BY <2>1, <2>2, PlansAtType, PromisedType, MaxPlansAssumption DEF Inv
<1> QED
  BY <1>1, Invariance, PTL

(* No step of any interleaving changes a set version but to close an open    *)
(* one: an UPDATE that waited for a lock does not close what was closed in   *)
(* the meantime.                                                            *)
THEOREM VersionsFrozen == Spec => SetsFrozen
<1>1. Inv /\ [Next]_vars =>
        [\A v \in sets : \E u \in sets' :
           u = v \/ (v.to = Null /\ u = [v EXCEPT !.to = u.to])]_sets
  <2> SUFFICES ASSUME Inv, [Next]_vars, sets' # sets, NEW v \in sets
               PROVE  \E u \in sets' : u = v \/ (v.to = Null /\ u = [v EXCEPT !.to = u.to])
    OBVIOUS
  <2>1. PICK w \in Workers : Commit(w)
    BY OnlyCommitWrites
  <2>2. CloseSet(w, v) \in sets'
    BY <2>1, CommitSets DEF Inv
  <2>3. CASE Inserts(w, "set") /\ v.id \in req[w].targets
    <3>1. v.to = Null
      BY <2>3 DEF Inv, Locked
    <3>2. CloseSet(w, v) = [v EXCEPT !.to = req[w].now]
      BY <2>3 DEF CloseSet
    <3>3. CloseSet(w, v).to = req[w].now
      BY <2>1, <2>3, CommitSets DEF Inv
    <3> QED
      BY <2>2, <3>1, <3>2, <3>3
  <2>4. CASE ~ (Inserts(w, "set") /\ v.id \in req[w].targets)
    BY <2>2, <2>4 DEF CloseSet
  <2> QED
    BY <2>3, <2>4
<1> QED
  BY <1>1, Invariance, PTL DEF Spec, SetsFrozen
==============================================================================
