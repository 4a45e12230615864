------------------------------- MODULE GeoSets -------------------------------
(***************************************************************************)
(* The versioned sets of geographies that a layer has at a locality        *)
(* (crud/geo_layer.py, map_locality), and the plans and graphs that        *)
(* concurrent requests attach to them (crud/plan.py, crud/graph.py) under  *)
(* READ COMMITTED.  A slot is a pair of a layer and a locality.  One       *)
(* action per statement whose answer another transaction can change.       *)
(***************************************************************************)
EXTENDS Naturals, FiniteSets

CONSTANTS Workers,
          Slots,      \* pairs of a layer and a locality
          Geos,       \* geographies
          Paths,      \* paths of plans and of graphs in the namespace
          Null,       \* SQL NULL in valid_to
          Requests,   \* the request bodies clients send
          MaxPlans,   \* plan_limit.max_plans
          MaxTime,    \* bound on the clock
          MaxSets     \* bound on the number of set versions

Body == [op : {"map", "plan", "graph"}, slot : Slots, geos : SUBSET Geos, path : Paths]

ASSUME NullAssumption == Null \notin Nat
ASSUME WorkersAssumption == IsFiniteSet(Workers) /\ Workers # {}
ASSUME RequestsAssumption == Requests \subseteq Body
ASSUME MaxPlansAssumption == MaxPlans \in Nat
ASSUME MaxTimeAssumption == MaxTime \in Nat
ASSUME MaxSetsAssumption == MaxSets \in Nat

VARIABLES clock,
          sets,    \* committed rows of geo_set_version with their geo_set_member rows
          plans,   \* committed rows of plan with their plan_assignment rows
          graphs,  \* committed rows of graph, each with the ends of its edges
          limits,  \* slots with a committed row of plan_limit
          req      \* what each worker's transaction has done so far

vars == <<clock, sets, plans, graphs, limits, req>>

SetVersion == [id : Nat, slot : Slots, members : SUBSET Geos, from : Nat, to : Nat \cup {Null}]
Plan == [path : Paths, set : Nat, slot : Slots, assigned : SUBSET Geos, complete : BOOLEAN]
Graph == [path : Paths, set : Nat, nodes : SUBSET Geos]

(* set: the set version found for a plan or a graph; new: what the           *)
(* transaction has inserted; targets: the set versions an UPDATE found open. *)
NoRequest == [op |-> "none"]
Transaction ==
  [pc : {"idle", "started", "compared", "updating", "found", "unlimited", "limited",
         "counted", "ready"},
   body : Requests \cup {NoRequest}, now : Nat, set : Nat, targets : SUBSET Nat,
   new : SUBSET {"set", "limit", "plan", "graph"}]
Idle == [pc |-> "idle", body |-> NoRequest, now |-> 0, set |-> 0,
         targets |-> {}, new |-> {}]

TypeOK ==
  /\ clock \in Nat
  /\ sets \subseteq SetVersion
  /\ plans \subseteq Plan
  /\ graphs \subseteq Graph
  /\ limits \subseteq Slots
  /\ req \in [Workers -> Transaction]

Init ==
  /\ clock = 1
  /\ sets = {} /\ plans = {} /\ graphs = {} /\ limits = {}
  /\ req = [w \in Workers |-> Idle]

-----------------------------------------------------------------------------
Op(w) == req[w].body.op
Slot(w) == req[w].body.slot
Named(w) == req[w].body.geos
Path(w) == req[w].body.path

OpenSets(s) == {v \in sets : v.slot = s /\ v.to = Null}

(* old_geo_ids: the members of every version of every set. *)
OldGeos(w) == UNION {v.members : v \in sets}

(* Fault: the members are those of the slot's current version. *)
MembersOfSlot(w) == UNION {v.members : v \in OpenSets(Slot(w))}

(* set_geo_ids *)
Members(w) == UNION {v.members : v \in {u \in sets : u.id = req[w].set}}

PlansAt(s) == {p \in plans : p.slot = s}

Inserts(w, what) == what \in req[w].new
LimitTaken(w) == \E v \in Workers \ {w} : Inserts(v, "limit") /\ Slot(v) = Slot(w)
PathTaken(w) == \E v \in Workers \ {w} : Inserts(v, Op(w)) /\ Path(v) = Path(w)
PathExists(w) == \E r \in (IF Op(w) = "plan" THEN plans ELSE graphs) : r.path = Path(w)
LockedByOther(w) ==
  \E v \in Workers \ {w} : Inserts(v, "set") /\ req[v].targets \cap req[w].targets # {}

Idled(w) == req' = [req EXCEPT ![w] = Idle]
Unwritten == UNCHANGED <<clock, sets, plans, graphs, limits>>

-----------------------------------------------------------------------------
Tick ==
  /\ clock < MaxTime
  /\ clock' = clock + 1
  /\ UNCHANGED <<sets, plans, graphs, limits, req>>

(* The handler has resolved the namespace, the locality and the geographies. *)
Start(w, q) ==
  /\ req[w].pc = "idle"
  /\ q.op = "map" => Cardinality(sets) < MaxSets
  /\ req' = [req EXCEPT ![w] = [Idle EXCEPT !.pc = "started", !.body = q,
                                    !.now = IF q.op = "map" THEN clock ELSE 0]]
  /\ Unwritten

(* map_locality: nothing is written when the old members are the new ones. *)
Compare(w) ==
  /\ req[w].pc = "started" /\ Op(w) = "map"
  /\ req' = [req EXCEPT ![w].pc = IF OldGeos(w) = Named(w) THEN "ready" ELSE "compared"]
  /\ Unwritten

(* Fault: the UPDATE does not select the layer and the locality. *)
StartUpdateOfAll(w) ==
  /\ req[w].pc = "compared"
  /\ req' = [req EXCEPT ![w].pc = "updating",
                        ![w].targets = {v.id : v \in {u \in sets : u.to = Null}}]
  /\ Unwritten

(* Fault: the UPDATE selects the versions whose valid_to is not NULL. *)
StartUpdateOfClosed(w) ==
  /\ req[w].pc = "compared"
  /\ req' = [req EXCEPT ![w].pc = "updating",
               ![w].targets = {v.id : v \in {u \in sets : u.slot = Slot(w) /\ u.to # Null}}]
  /\ Unwritten

(* The UPDATE starts with the versions it finds open...                      *)
StartUpdate(w) ==
  /\ req[w].pc = "compared"
  /\ req' = [req EXCEPT ![w].pc = "updating",
                        ![w].targets = {v.id : v \in OpenSets(Slot(w))}]
  /\ Unwritten

(* Fault: the UPDATE does not look at valid_to again after it waited. *)
FinishUpdateByKey(w) ==
  /\ req[w].pc = "updating"
  /\ ~ LockedByOther(w)
  /\ Named(w) # {}
  /\ req' = [req EXCEPT ![w].pc = "ready", ![w].new = {"set"}]
  /\ Unwritten

(* ...and, with their locks, skips those closed in the meantime; then the    *)
(* version and its members are inserted.  An empty INSERT is an error.       *)
FinishUpdate(w) ==
  /\ req[w].pc = "updating"
  /\ ~ LockedByOther(w)
  /\ Named(w) # {}
  /\ req' = [req EXCEPT ![w].pc = "ready", ![w].new = {"set"},
                        ![w].targets = @ \cap {v.id : v \in {u \in sets : u.to = Null}}]
  /\ Unwritten

(* geo_set_from_paths: any open version of the slot. *)
FindSet(w) ==
  /\ req[w].pc = "started" /\ Op(w) # "map"
  /\ \E v \in OpenSets(Slot(w)) :
        req' = [req EXCEPT ![w].pc = IF Op(w) = "plan" THEN "found" ELSE "counted",
                           ![w].set = v.id]
  /\ Unwritten

ReadLimit(w) ==
  /\ req[w].pc = "found"
  /\ req' = [req EXCEPT ![w].pc = IF Slot(w) \in limits THEN "limited" ELSE "unlimited"]
  /\ Unwritten

(* The slot's row of plan_limit is its primary key. *)
InsertLimit(w) ==
  /\ req[w].pc = "unlimited"
  /\ ~ LimitTaken(w)
  /\ Slot(w) \notin limits
  /\ req' = [req EXCEPT ![w].pc = "limited", ![w].new = @ \cup {"limit"}]
  /\ Unwritten

(* Fault: the limit is compared with > instead of >=. *)
CountOffByOne(w) ==
  /\ req[w].pc = "limited"
  /\ Cardinality(PlansAt(Slot(w))) <= MaxPlans
  /\ req' = [req EXCEPT ![w].pc = "counted"]
  /\ Unwritten

Count(w) ==
  /\ req[w].pc = "limited"
  /\ Cardinality(PlansAt(Slot(w))) < MaxPlans
  /\ req' = [req EXCEPT ![w].pc = "counted"]
  /\ Unwritten

(* The geographies are members of the set; the path is unique in the table.  *)
InsertObject(w) ==
  /\ req[w].pc = "counted"
  /\ Named(w) \subseteq Members(w) /\ Named(w) # {}
  /\ ~ PathTaken(w) /\ ~ PathExists(w)
  /\ req' = [req EXCEPT ![w].pc = "ready", ![w].new = @ \cup {Op(w)}]
  /\ Unwritten

(* An error response: the transaction is rolled back. *)
Fail(w) ==
  /\ \/ req[w].pc = "updating" /\ ~ LockedByOther(w) /\ Named(w) = {}
     \/ req[w].pc = "started" /\ Op(w) # "map" /\ OpenSets(Slot(w)) = {}
     \/ req[w].pc = "unlimited" /\ Slot(w) \in limits
     \/ req[w].pc = "limited" /\ Cardinality(PlansAt(Slot(w))) >= MaxPlans
     \/ req[w].pc = "counted" /\ ~ (Named(w) \subseteq Members(w) /\ Named(w) # {})
     \/ req[w].pc = "counted" /\ PathExists(w)
  /\ Idled(w)
  /\ Unwritten

(* A crash, a lost connection or a deadlock victim. *)
Abort(w) ==
  /\ req[w].pc # "idle"
  /\ Idled(w)
  /\ Unwritten

CloseSet(w, v) ==
  IF Inserts(w, "set") /\ v.id \in req[w].targets THEN [v EXCEPT !.to = req[w].now] ELSE v

(* Fault: the members are inserted before the version has an id. *)
NewSetUnflushed(w) ==
  [id |-> Null, slot |-> Slot(w), members |-> Named(w), from |-> req[w].now, to |-> Null]

NewSet(w) ==
  [id |-> Cardinality(sets) + 1, slot |-> Slot(w), members |-> Named(w),
   from |-> req[w].now, to |-> Null]

(* Fault: a plan is complete when it assigns the current members of its slot. *)
NewPlanOfSlot(w) ==
  [path |-> Path(w), set |-> req[w].set, slot |-> Slot(w), assigned |-> Named(w),
   complete |-> MembersOfSlot(w) \subseteq Named(w)]

NewPlan(w) ==
  [path |-> Path(w), set |-> req[w].set, slot |-> Slot(w), assigned |-> Named(w),
   complete |-> Members(w) \subseteq Named(w)]
NewGraph(w) == [path |-> Path(w), set |-> req[w].set, nodes |-> Named(w)]

New(w, what, row) == IF Inserts(w, what) THEN {row} ELSE {}

Commit(w) ==
  /\ req[w].pc = "ready"
  /\ sets' = {CloseSet(w, v) : v \in sets} \cup New(w, "set", NewSet(w))
  /\ plans' = plans \cup New(w, "plan", NewPlan(w))
  /\ graphs' = graphs \cup New(w, "graph", NewGraph(w))
  /\ limits' = limits \cup New(w, "limit", Slot(w))
  /\ Idled(w)
  /\ UNCHANGED clock

Next ==
  \/ Tick
  \/ \E w \in Workers : \/ \E q \in Requests : Start(w, q)
                        \/ Compare(w)
                        \/ StartUpdate(w)
                        \/ FinishUpdate(w)
                        \/ FindSet(w)
                        \/ ReadLimit(w)
                        \/ InsertLimit(w)
                        \/ Count(w)
                        \/ InsertObject(w)
                        \/ Fail(w)
                        \/ Abort(w)
                        \/ Commit(w)

Spec == Init /\ [][Next]_vars

-----------------------------------------------------------------------------
(* Once a layer has a set at a locality it always has one: no interleaving   *)
(* of map_locality, a failure included, leaves the slot without an open     *)
(* version.                                                                  *)
StaysMapped == \A v \in sets : OpenSets(v.slot) # {}

(* Set versions are history: the members of a version never change, and a    *)
(* closed version keeps the instant at which it was closed.                  *)
SetsFrozen ==
  [][\A v \in sets : \E u \in sets' :
       u = v \/ (v.to = Null /\ u = [v EXCEPT !.to = u.to])]_sets

(* Overlapping requests may leave a slot with several open versions, since   *)
(* an UPDATE that waited does not see what the other one inserted; but never *)
(* with more than there are workers, and with one worker there is only one.  *)
OpenSetsBounded == \A s \in Slots : Cardinality(OpenSets(s)) <= Cardinality(Workers)

(* A plan assigns, and a graph connects, members of the set version it was   *)
(* created on, although that version may be superseded while it is created;  *)
(* and a plan is marked complete exactly when it assigns all of them.        *)
WithinSet ==
  /\ \A p \in plans : \E v \in sets :
       v.id = p.set /\ v.slot = p.slot /\ p.assigned \subseteq v.members
       /\ p.complete = (p.assigned = v.members)
  /\ \A g \in graphs : \E v \in sets : v.id = g.set /\ g.nodes \subseteq v.members

(* The limit on the plans of a slot is checked before the plan is inserted,  *)
(* with no lock: overlapping requests can exceed it, but only by as many as  *)
(* there are other workers; requests one at a time never do.                 *)
PlansBounded == \A s \in Slots : Cardinality(PlansAt(s)) < MaxPlans + Cardinality(Workers)

(* What the log message of map_locality says ("the new set is identical to   *)
(* the old set"): a request that writes nothing finds its geographies to be  *)
(* a current set of its layer at its locality already.                       *)
SkippedOnlyIfIdentical ==
  \A w \in Workers : req[w].pc = "ready" /\ Op(w) = "map" /\ ~ Inserts(w, "set") =>
    \E v \in OpenSets(Slot(w)) : v.members = Named(w)
=============================================================================
