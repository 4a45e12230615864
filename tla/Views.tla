-------------------------------- MODULE Views --------------------------------
(***************************************************************************)
(* Views (crud/view.py): a view is pinned to an instant `at`, and what it  *)
(* renders is selected from the versioned tables by that instant, each     *)
(* time anew.  The tables are written by the requests of the other         *)
(* modules, which take their `now` when they start and commit later: here  *)
(* a write is its commit, with a `now` of any earlier instant, so that a   *)
(* version can appear in the past.  A creation and a render are several    *)
(* statements with commits in between, and ogr2ogr runs its two queries on *)
(* connections of its own.                                                 *)
(*                                                                         *)
(* One locality, one layer path (a layer in each namespace), one template  *)
(* with one column, every plan visible in the view, and graphs             *)
(* (crud/graph.py) on the layer of the namespace of the views.             *)
(***************************************************************************)
EXTENDS Naturals, FiniteSets, FiniteSetsExt

CONSTANTS Namespaces, Paths,
          Home,        \* the namespace of the views
          Vals,        \* values of the column, naturals
          Hashes,      \* geometry hashes
          FirstHash,   \* the geometry every geography is created with
          SetIds,      \* set_version_ids
          Null,        \* SQL NULL in valid_to, and no answer yet
          Batches,     \* bodies of PUTs of values: functions from geographies
          Patches,     \* patches of geometries: functions from geographies
          Remaps,      \* sets of geographies to map the home layer to
          EdgeLists,   \* edges of graphs: sets of pairs of geographies
          ViewPaths,   \* paths of views
          Instants,    \* instants of views
          MaxTime,     \* bound on the clock
          MaxRows,     \* bound on the rows of the versioned tables
          MaxDerived   \* bound on the number of plans and graphs

Geos == Namespaces \X Paths

ASSUME NullAssumption == Null \notin Nat
ASSUME HomeAssumption == Home \in Namespaces /\ FirstHash \in Hashes /\ Vals \subseteq Nat
ASSUME BodiesAssumption ==
  /\ Batches \subseteq UNION {[S -> Vals] : S \in SUBSET Geos}
  /\ Patches \subseteq UNION {[S -> Hashes] : S \in SUBSET Geos}
  /\ Remaps \subseteq (SUBSET ({Home} \X Paths)) \ {{}}
  /\ EdgeLists \subseteq SUBSET (Geos \X Geos)
ASSUME FiniteAssumption == IsFiniteSet(Namespaces) /\ IsFiniteSet(Paths)
ASSUME BoundsAssumption ==
  MaxTime \in Nat /\ MaxRows \in Nat /\ MaxDerived \in Nat /\ Instants \subseteq Nat

VARIABLES clock,
          values,    \* committed rows of column_value
          versions,  \* committed rows of geo_version
          sets,      \* committed rows of geo_set_version, with their members
          plans,     \* committed plans: their set and created_at
          graphs,    \* committed graphs: their set, created_at and edges
          views,     \* committed views
          cached,    \* per view, the rows of its last cached render
          create,    \* the creation of a view in flight
          render     \* the render in flight

tables == <<values, versions, sets, plans, graphs>>
vars == <<clock, values, versions, sets, plans, graphs, views, cached, create, render>>

Ends == Nat \cup {Null}
Value == [geo : Geos, val : Vals, from : Nat, to : Ends]
Version == [geo : Geos, hash : Hashes, from : Nat, to : Ends]
SetVersion == [id : SetIds, members : SUBSET Geos, from : Nat, to : Ends]
RenderedRow == Paths \X Hashes \X Vals
Graph == [set : SetIds, created : Nat, edges : EdgeLists]
View == [path : ViewPaths, at : Nat, cur : SetIds, sets : SUBSET SetIds, numGeos : Nat,
         graph : Graph \cup {Null}]

Creation == [pc : {"started", "chosen", "found", "compared", "counted"},
             path : ViewPaths, at : Nat, graph : Graph \cup {Null},
             cur : SetIds \cup {Null}, sets : SUBSET SetIds]
Rendering == [pc : {"started", "queried", "exported"}, view : View,
              rows : SUBSET RenderedRow, points : Nat, plansOk : BOOLEAN]

TypeOK ==
  /\ clock \in Nat
  /\ values \subseteq Value /\ versions \subseteq Version /\ sets \subseteq SetVersion
  /\ plans \subseteq [set : SetIds, created : Nat]
  /\ graphs \subseteq Graph
  /\ views \subseteq View
  /\ cached \in [ViewPaths -> (SUBSET RenderedRow) \cup {Null}]
  /\ create \in Creation \cup {Null}
  /\ render \in Rendering \cup {Null}

(* At instant 0 every namespace has its geographies, mapped to its layer.    *)
SetOf(n, i) == [id |-> i, members |-> {n} \X Paths, from |-> 0, to |-> Null]
Init ==
  /\ clock = 1
  /\ values = {}
  /\ versions = [geo : Geos, hash : {FirstHash}, from : {0}, to : {Null}]
  /\ \E number \in [Namespaces -> SetIds] :
       /\ \A m, n \in Namespaces : number[m] = number[n] => m = n
       /\ sets = {SetOf(n, number[n]) : n \in Namespaces}
  /\ plans = {}
  /\ graphs = {}
  /\ views = {}
  /\ cached = [p \in ViewPaths |-> Null]
  /\ create = Null
  /\ render = Null

-----------------------------------------------------------------------------
(* Fault: only what is current is selected. *)
EffectiveNow(r, t) == r.from <= t /\ r.to = Null

(* The condition of every query of a view: both ends belong to the interval. *)
Effective(r, t) == r.from <= t /\ (r.to = Null \/ t <= r.to)

EffectiveSets(t) == {s \in sets : Effective(s, t)}
Members(ids) == UNION {s.members : s \in {x \in sets : x.id \in ids}}
HomeSets(S) == {s \in S : \E g \in s.members : g[1] = Home}
EffectiveValues(g, t) == {r \in values : r.geo = g /\ Effective(r, t)}

(* column_sub: the values are grouped by the path of their geography alone.  *)
PathVals(p, t) == {r.val : r \in {x \in values : x.geo[2] = p /\ Effective(x, t)}}

(* The queries of the render of a graph, whose instant is its created_at.    *)
GraphRows(g) ==
  {<<x.geo[2], x.hash>> :
     x \in {y \in versions : y.geo \in Members({g.set}) /\ y.geo[1] = Home /\ Effective(y, g.created)}}

(* The geometries of the members. *)
Selected(v) ==
  {<<x.geo, x.hash>> : x \in {y \in versions : y.geo \in Members(v.sets) /\ Effective(y, v.at)}}

(* geo_query *)
GeoRows(v) ==
  {<<s[1][2], s[2], Max(PathVals(s[1][2], v.at))>> :
     s \in {x \in Selected(v) : PathVals(x[1][2], v.at) # {}}}

(* internal_point_query: a point is that of a geometry. *)
PointRows(v) == {<<s[1][2], s[2]>> : s \in Selected(v)}

(* _plans and plan_assignment_query, which joins every version of a member.  *)
PlansOf(v) == {p \in plans : p.set \in v.sets /\ p.created <= v.at}
PlanRows(v, path) ==
  {y \in versions \X {s \in sets : s.id \in v.sets} :
     y[1].geo[2] = path /\ y[1].geo \in y[2].members}
PlanPathsUnique(v) == PlansOf(v) # {} => \A p \in Paths : Cardinality(PlanRows(v, p)) <= 1

-----------------------------------------------------------------------------
Tick ==
  /\ clock < MaxTime
  /\ clock' = clock + 1
  /\ UNCHANGED <<tables, views, cached, create, render>>

(* The commit of a request that took its `now` at t. *)
Written(t) ==
  /\ t <= clock
  /\ Cardinality(values') + Cardinality(versions') + Cardinality(sets') <= MaxRows
  /\ UNCHANGED <<clock, views, cached, create, render>>

Closed(rows, G, t) ==
  {IF r.geo \in G /\ r.to = Null THEN [r EXCEPT !.to = t] ELSE r : r \in rows}

(* set_values, see ColumnValues: only changes are stored. *)
SetValues(t, b) ==
  LET old == {<<r.geo, r.val>> : r \in {x \in values : x.geo \in DOMAIN b /\ x.to = Null}}
      changed == {g \in DOMAIN b : <<g, b[g]>> \notin old}
  IN /\ old # {} => Cardinality(old) = Cardinality(DOMAIN b)
     /\ \A r \in values : r.geo \in changed => r.from # t
     /\ values' = Closed(values, changed, t)
                    \cup {[geo |-> g, val |-> b[g], from |-> t, to |-> Null] : g \in changed}
     /\ UNCHANGED <<versions, sets, plans, graphs>> /\ Written(t)

(* patch_bulk, see GeoVersions. *)
PatchGeos(t, b) ==
  LET changed == {g \in DOMAIN b : \A x \in versions :
                    x.geo = g /\ x.to = Null => x.hash # b[g]}
  IN /\ versions' = Closed(versions, changed, t)
                      \cup {[geo |-> g, hash |-> b[g], from |-> t, to |-> Null] : g \in changed}
     /\ UNCHANGED <<values, sets, plans, graphs>> /\ Written(t)

(* map_locality, see GeoSets; it is skipped when the members of all sets are *)
(* those of the request.                                                     *)
MapLocality(t, b, id) ==
  /\ \A s \in sets : s.id # id
  /\ UNION {s.members : s \in sets} # b
  /\ sets' = {IF s \in HomeSets(sets) /\ s.to = Null THEN [s EXCEPT !.to = t] ELSE s : s \in sets}
               \cup {[id |-> id, members |-> b, from |-> t, to |-> Null]}
  /\ UNCHANGED <<values, versions, plans, graphs>> /\ Written(t)

(* A plan on the current set of the home layer: created_at is the start of   *)
(* its transaction.                                                          *)
CreatePlan(t) ==
  /\ Cardinality(plans) + Cardinality(graphs) < MaxDerived
  /\ \E s \in HomeSets(sets) :
       s.to = Null /\ plans' = plans \cup {[set |-> s.id, created |-> t]}
  /\ UNCHANGED <<values, versions, sets, graphs>> /\ Written(t)

(* A graph on that set, between geographies of the set (graph.create).       *)
CreateGraph(t, edges) ==
  /\ Cardinality(plans) + Cardinality(graphs) < MaxDerived
  /\ \E s \in HomeSets(sets) :
       /\ s.to = Null
       /\ \A e \in edges : e[1] \in s.members /\ e[2] \in s.members
       /\ graphs' = graphs \cup {[set |-> s.id, created |-> t, edges |-> edges]}
  /\ UNCHANGED <<values, versions, sets, plans>> /\ Written(t)

-----------------------------------------------------------------------------
Created == UNCHANGED <<clock, tables, cached, render>>
Step(pc) == create # Null /\ create.pc = pc

(* Fault: valid_at is not replaced by now. *)
StartViewUndated(p, t, g) ==
  /\ create = Null
  /\ create' = [pc |-> "started", path |-> p, at |-> Null, graph |-> g, cur |-> Null, sets |-> {}]
  /\ UNCHANGED views /\ Created

(* valid_at is given by the client, but not in the future, or is now.        *)
StartView(p, t, g) ==
  /\ create = Null
  /\ t <= clock
  /\ create' = [pc |-> "started", path |-> p, at |-> t, graph |-> g, cur |-> Null, sets |-> {}]
  /\ UNCHANGED views /\ Created

(* curr_ns_query *)
ChooseSet ==
  /\ Step("started")
  /\ \E s \in HomeSets(EffectiveSets(create.at)) :
       create' = [create EXCEPT !.pc = "chosen", !.cur = s.id]
  /\ UNCHANGED views /\ Created

(* __get_all_set_col_ids: the sets with a value of the column. *)
FindSets ==
  LET found == {s.id : s \in {x \in EffectiveSets(create.at) :
                                \E g \in x.members : EffectiveValues(g, create.at) # {}}}
  IN /\ Step("chosen")
     /\ found # {}
     /\ create' = [create EXCEPT !.pc = IF found \subseteq {create.cur} THEN "compared" ELSE "found",
                                 !.sets = found \cup {create.cur}]
     /\ UNCHANGED views /\ Created

(* The pairs of a path and a hash are made a dict: at the instant of a       *)
(* change a path has two and keeps one of them.                              *)
Dicts(id) ==
  LET pairs == {<<x.geo[2], x.hash>> : x \in {y \in versions : /\ y.geo \in Members({id})
                                                               /\ Effective(y, create.at)}}
      hashes(p) == {h \in Hashes : <<p, h>> \in pairs}
      paths == {p \in Paths : hashes(p) # {}}
  IN {d \in [paths -> Hashes] : \A p \in paths : d[p] \in hashes(p)}

(* The geometries of the sets agree path by path. *)
Compare ==
  /\ Step("found")
  /\ \E d \in Dicts(create.cur) : \A s \in create.sets : d \in Dicts(s)
  /\ create' = [create EXCEPT !.pc = "compared"]
  /\ UNCHANGED views /\ Created

(* Fault: a graph of an earlier set of the layer is accepted. *)
GraphFitsLayer == create.graph # Null => create.graph.created <= create.at

GraphFits ==
  create.graph # Null => create.graph.set = create.cur /\ create.graph.created <= create.at

NumGeos == Cardinality(Members({create.cur}))

(* value_counts: a value is counted in every set of its geography.           *)
ValueCount ==
  Cardinality({x \in values \X create.sets :
                 x[1].geo \in Members({x[2]}) /\ Effective(x[1], create.at)})

(* Fault: the values are not counted. *)
CountNothing == Step("compared") /\ create' = [create EXCEPT !.pc = "counted"]
                /\ UNCHANGED views /\ Created

Count ==
  /\ Step("compared")
  /\ GraphFits
  /\ ValueCount = NumGeos
  /\ create' = [create EXCEPT !.pc = "counted"]
  /\ UNCHANGED views /\ Created

(* The path is unique. *)
CommitView ==
  /\ Step("counted")
  /\ \A v \in views : v.path # create.path
  /\ views' = views \cup
       {[path |-> create.path, at |-> create.at, cur |-> create.cur, sets |-> create.sets,
         numGeos |-> NumGeos, graph |-> create.graph]}
  /\ create' = Null
  /\ Created

(* A validation fails or the worker does. *)
DropView ==
  /\ create # Null
  /\ create' = Null
  /\ UNCHANGED views /\ Created

-----------------------------------------------------------------------------
Rendered == UNCHANGED <<clock, tables, views, create>>
At(pc) == render # Null /\ render.pc = pc

(* The context is read in the transaction of the request: the plans...       *)
StartRender(v) ==
  /\ render = Null
  /\ render' = [pc |-> "started", view |-> v, rows |-> {}, points |-> 0,
                plansOk |-> PlanPathsUnique(v)]
  /\ UNCHANGED cached /\ Rendered

(* ...then ogr2ogr runs the query of the geographies...                      *)
ExportGeos ==
  /\ At("started")
  /\ render' = [render EXCEPT !.pc = "queried", !.rows = GeoRows(render.view)]
  /\ UNCHANGED cached /\ Rendered

(* ...and, in another process, that of their internal points.                *)
ExportPoints ==
  /\ At("queried")
  /\ render' = [render EXCEPT !.pc = "exported", !.points = Cardinality(PointRows(render.view))]
  /\ UNCHANGED cached /\ Rendered

(* Fault: the number of rows is not compared with that of the view. *)
ChecksOutUncounted == render.points = Cardinality(render.rows) /\ render.plansOk

(* The counts of rows, the unique index on the paths, and the primary key of *)
(* the table of plan assignments.                                            *)
ChecksOut ==
  /\ render.view.numGeos = Cardinality(render.rows)
  /\ render.points = Cardinality(render.rows)
  /\ \A x, y \in render.rows : x[1] = y[1] => x = y
  /\ render.plansOk

(* The file is sent, and is cached if there is a bucket. *)
FinishRender ==
  /\ At("exported")
  /\ ChecksOut
  /\ cached' \in {cached, [cached EXCEPT ![render.view.path] = render.rows]}
  /\ render' = Null
  /\ Rendered

FailRender ==
  /\ render # Null
  /\ render' = Null
  /\ UNCHANGED cached /\ Rendered

Next ==
  \/ Tick
  \/ \E t \in 1 .. MaxTime :
       \/ \E b \in Batches : SetValues(t, b)
       \/ \E b \in Patches : PatchGeos(t, b)
       \/ \E b \in Remaps, id \in SetIds : MapLocality(t, b, id)
       \/ CreatePlan(t)
       \/ \E edges \in EdgeLists : CreateGraph(t, edges)
  \/ \E p \in ViewPaths, t \in Instants, g \in graphs \cup {Null} : StartView(p, t, g)
  \/ ChooseSet
  \/ FindSets
  \/ Compare
  \/ Count
  \/ CommitView
  \/ DropView
  \/ \E v \in views : StartRender(v)
  \/ ExportGeos
  \/ ExportPoints
  \/ FinishRender
  \/ FailRender

Spec == Init /\ [][Next]_vars

-----------------------------------------------------------------------------
(* What a view or a graph selects is fixed by its instant, although it is    *)
(* selected anew by every render: it only changes when a request commits     *)
(* that had started by that instant.                                         *)
Late(t) == \E r \in (values' \ values) \cup (versions' \ versions) : r.to = Null /\ r.from <= t
Pinned ==
  [][/\ \A v \in views : GeoRows(v)' # GeoRows(v) => Late(v.at)
     /\ \A g \in graphs : GraphRows(g)' # GraphRows(g) => Late(g.created)]_vars

(* The number of geographies stored with a view is the number of rows it     *)
(* renders, whatever is committed between the statements of its creation or  *)
(* later, for a view of one set in which no geography has two versions or    *)
(* two values at the instant of the view.                                    *)
OneEach(v) == \A g \in Members({v.cur}) :
  /\ Cardinality({x \in versions : x.geo = g /\ Effective(x, v.at)}) <= 1
  /\ Cardinality(EffectiveValues(g, v.at)) <= 1
Checksum == \A v \in views :
  v.sets = {v.cur} /\ OneEach(v) => Cardinality(GeoRows(v)) = v.numGeos

(* A cached render, which is served from then on, has one row for each       *)
(* geography of the set in the namespace of the view and no other, although  *)
(* the sets were compared and counted before, and its two queries and those  *)
(* of the creation see different states.                                     *)
CachedWhole == \A v \in views :
  LET rows == cached[v.path]
      members == Members({v.cur})
  IN rows # Null => /\ {x[1] : x \in rows} = {g[2] : g \in members}
                    /\ Cardinality(rows) = Cardinality(members)

(* Both ends of every edge of a view's graph are rows of its cached render:  *)
(* the edges were checked against a set when the graph was created, and are  *)
(* copied into the file without a check, after other mappings of the layer.  *)
EdgesRendered == \A v \in views :
  cached[v.path] # Null /\ v.graph # Null =>
    \A e \in v.graph.edges : {e[1][2], e[2][2]} \subseteq {x[1] : x \in cached[v.path]}

(* The table of the plan assignments of a rendered view has one row per path *)
(* (violated: it has one per version of a geography).                        *)
PlansRendered == \A v \in views : PlanPathsUnique(v)
=============================================================================
