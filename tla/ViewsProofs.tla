----------------------------- MODULE ViewsProofs -----------------------------
(***************************************************************************)
(* What a view or a graph selects is fixed by its instant, and what is     *)
(* stored, cached and drawn of a view agree, for all sets of namespaces,   *)
(* geographies, request bodies and views, and every bound.                 *)
(*                                                                         *)
(* A write at t alters what is selected at t and later only.  Named is     *)
(* needed for the sets of a view, which are identifiers: they name sets    *)
(* that exist, so that no later mapping can be given one of them and bring *)
(* other members into the view.                                            *)
(*                                                                         *)
(* The statements of a creation and of a render see different states.      *)
(* What one of them established reaches the last one only because it can   *)
(* not be undone: that the sets of a view have the same paths (Agreed),    *)
(* that each geography has a value at the instant (Valued), that it has a  *)
(* geometry at every instant (Covered), that the set is of one namespace   *)
(* (AtHome) and does not change.                                           *)
(***************************************************************************)
EXTENDS Views, FiniteSetTheorems, TLAPS

USE NullAssumption, BoundsAssumption

Ids == {s.id : s \in sets}

Named ==
  /\ Ids \subseteq SetIds
  /\ \A v \in views : v.at \in Nat /\ v.sets \subseteq Ids
  /\ \A g \in graphs : g \in Graph /\ g.set \in Ids
  /\ create \in Creation \cup {Null}
  /\ create # Null =>
       /\ create.sets \subseteq Ids
       /\ create.pc # "started" => create.cur \in Ids

-----------------------------------------------------------------------------
(* Sets are never removed, and keep their identifiers and members. *)
LEMMA SetsKept ==
  ASSUME [Next]_vars
  PROVE  /\ Ids \subseteq Ids' /\ (Ids \subseteq SetIds => Ids' \subseteq SetIds)
         /\ \A I \in SUBSET Ids : Members(I)' = Members(I)
<1>1. CASE sets' = sets
  BY <1>1 DEF Ids, Members
<1>2. ASSUME NEW t \in 1 .. MaxTime, NEW b \in Remaps, NEW id \in SetIds, MapLocality(t, b, id)
      PROVE  /\ Ids \subseteq Ids' /\ (Ids \subseteq SetIds => Ids' \subseteq SetIds)
             /\ \A I \in SUBSET Ids : Members(I)' = Members(I)
  <2> DEFINE Kept(s) == IF s \in HomeSets(sets) /\ s.to = Null THEN [s EXCEPT !.to = t] ELSE s
             new == [id |-> id, members |-> b, from |-> t, to |-> Null]
  <2>1. sets' = {Kept(s) : s \in sets} \cup {new}
    BY <1>2 DEF MapLocality
  <2>2. \A s \in sets : Kept(s).id = s.id /\ Kept(s).members = s.members
    OBVIOUS
  <2>3. id \notin Ids
    BY <1>2 DEF MapLocality, Ids
  <2> HIDE DEF Kept
  <2>4. Ids \subseteq Ids' /\ (Ids \subseteq SetIds => Ids' \subseteq SetIds)
    BY <2>1, <2>2 DEF Ids
  <2>5. ASSUME NEW I \in SUBSET Ids
        PROVE  Members(I)' = Members(I)
    BY <2>1, <2>2, <2>3 DEF Members
  <2> QED
    BY <2>4, <2>5
<1> QED
  BY <1>1, <1>2
  DEF Next, vars, tables, Tick, SetValues, PatchGeos, CreatePlan, CreateGraph, StartView, ChooseSet, FindSets,
      Compare, Count, CommitView, DropView, StartRender, ExportGeos, ExportPoints,
      FinishRender, FailRender, Created, Rendered

(* A view names sets that exist. *)
LEMMA NamedStep == Named /\ [Next]_vars => Named'
<1> SUFFICES ASSUME Named, [Next]_vars
             PROVE  Named'
  OBVIOUS
<1> USE DEF Named
<1>1. Ids \subseteq Ids' /\ Ids' \subseteq SetIds
  BY SetsKept
<1>2. CASE UNCHANGED <<views, graphs, create>>
  BY <1>1, <1>2
<1>3. ASSUME NEW p \in ViewPaths, NEW t \in Instants, NEW g \in graphs \cup {Null}, StartView(p, t, g)
      PROVE  Named'
  BY <1>1, <1>3 DEF StartView, Creation, Created, tables
<1>4. CASE ChooseSet
  BY <1>1, <1>4 DEF ChooseSet, Step, Creation, HomeSets, EffectiveSets, Ids, Created, tables
<1>5. CASE FindSets
  BY <1>1, <1>5 DEF FindSets, Step, Creation, EffectiveSets, Ids, Created, tables
<1>6. CASE Compare \/ Count
  BY <1>1, <1>6 DEF Compare, Count, Step, Creation, Created, tables
<1>7. CASE CommitView
  BY <1>1, <1>7 DEF CommitView, Step, Creation, Created, tables
<1>8. CASE DropView
  BY <1>1, <1>8 DEF DropView, Created, tables
<1>9. ASSUME NEW t \in 1 .. MaxTime, NEW edges \in EdgeLists, CreateGraph(t, edges)
      PROVE  Named'
  <2>1. \A g \in graphs' \ graphs : g \in Graph /\ g.set \in Ids
    BY <1>9 DEF CreateGraph, HomeSets, Graph, Ids
  <2>2. UNCHANGED <<views, create>>
    BY <1>9 DEF CreateGraph, Written
  <2> QED
    BY <1>1, <2>1, <2>2
<1> QED
  BY <1>2, <1>3, <1>4, <1>5, <1>6, <1>7, <1>8, <1>9
  DEF Next, vars, tables, Tick, Written, SetValues, PatchGeos, MapLocality, CreatePlan, StartRender,
      ExportGeos, ExportPoints, FinishRender, FailRender, Rendered

(* A PUT of values alters nothing that is selected by an earlier instant. *)
LEMMA ValuesPinned ==
  ASSUME NEW t \in 1 .. MaxTime, NEW b \in Batches, SetValues(t, b),
         NEW v, v.at \in Nat, ~ Late(v.at), NEW p
  PROVE  PathVals(p, v.at)' = PathVals(p, v.at)
<1> DEFINE old == {<<r.geo, r.val>> : r \in {x \in values : x.geo \in DOMAIN b /\ x.to = Null}}
           changed == {g \in DOMAIN b : <<g, b[g]>> \notin old}
           Kept(r) == IF r.geo \in changed /\ r.to = Null THEN [r EXCEPT !.to = t] ELSE r
           New(g) == [geo |-> g, val |-> b[g], from |-> t, to |-> Null]
<1>1. values' = {Kept(r) : r \in values} \cup {New(g) : g \in changed}
  BY DEF SetValues, Closed
<1>2. \A g \in changed : New(g) \notin values
  OBVIOUS
<1>3. \A r \in values : /\ Kept(r).geo = r.geo /\ Kept(r).val = r.val /\ Kept(r).from = r.from
                        /\ Kept(r) = r \/ (r.to = Null /\ Kept(r).to = t /\ r.geo \in changed)
  OBVIOUS
<1>4. \A g \in changed : New(g).from = t /\ New(g).to = Null
  OBVIOUS
<1> HIDE DEF old, changed, Kept, New
<1>5. ASSUME NEW g \in changed
      PROVE  v.at < t
  <2>1. New(g) \in values' \ values
    BY <1>1, <1>2
  <2>2. ~ (New(g).from <= v.at)
    BY <1>4, <2>1 DEF Late
  <2> QED
    BY <1>4, <2>2
<1>6. ASSUME NEW r \in values
      PROVE  Effective(Kept(r), v.at) <=> Effective(r, v.at)
  BY <1>3, <1>5 DEF Effective
<1>7. \A g \in changed : ~ Effective(New(g), v.at)
  BY <1>4, <1>5 DEF Effective
<1> QED
  BY <1>1, <1>3, <1>6, <1>7 DEF PathVals

(* A patch alters nothing that is selected by an earlier instant. *)
LEMMA VersionsPinned ==
  ASSUME NEW t \in 1 .. MaxTime, NEW b \in Patches, PatchGeos(t, b),
         NEW at \in Nat, ~ Late(at)
  PROVE  /\ \A x \in versions : Effective(x, at) =>
              \E y \in versions' : Effective(y, at) /\ y.geo = x.geo /\ y.hash = x.hash
         /\ \A y \in versions' : Effective(y, at) =>
              \E x \in versions : Effective(x, at) /\ y.geo = x.geo /\ y.hash = x.hash
<1> DEFINE changed == {g \in DOMAIN b : \A x \in versions : x.geo = g /\ x.to = Null => x.hash # b[g]}
           Kept(r) == IF r.geo \in changed /\ r.to = Null THEN [r EXCEPT !.to = t] ELSE r
           New(g) == [geo |-> g, hash |-> b[g], from |-> t, to |-> Null]
<1>1. versions' = {Kept(r) : r \in versions} \cup {New(g) : g \in changed}
  BY DEF PatchGeos, Closed
<1>2. \A g \in changed : New(g) \notin versions
  OBVIOUS
<1>3. \A r \in versions : /\ Kept(r).geo = r.geo /\ Kept(r).hash = r.hash /\ Kept(r).from = r.from
                          /\ Kept(r) = r \/ (r.to = Null /\ Kept(r).to = t /\ r.geo \in changed)
  OBVIOUS
<1>4. \A g \in changed : New(g).from = t /\ New(g).to = Null
  OBVIOUS
<1> HIDE DEF changed, Kept, New
<1>5. ASSUME NEW g \in changed
      PROVE  at < t
  <2>1. New(g) \in versions' \ versions
    BY <1>1, <1>2
  <2>2. ~ (New(g).from <= at)
    BY <1>4, <2>1 DEF Late
  <2> QED
    BY <1>4, <2>2
<1>6. ASSUME NEW r \in versions
      PROVE  Effective(Kept(r), at) <=> Effective(r, at)
  BY <1>3, <1>5 DEF Effective
<1>7. \A g \in changed : ~ Effective(New(g), at)
  BY <1>4, <1>5 DEF Effective
<1> QED
  BY <1>1, <1>3, <1>6, <1>7

-----------------------------------------------------------------------------
(* No step but a late write alters what a view selects. *)
LEMMA SelectionStep ==
  ASSUME Named, [Next]_vars, NEW v \in views, ~ Late(v.at)
  PROVE  GeoRows(v)' = GeoRows(v)
<1>1. v.at \in Nat /\ v.sets \in SUBSET Ids
  BY DEF Named
<1>2. Members(v.sets)' = Members(v.sets)
  BY <1>1, SetsKept
<1>3. CASE UNCHANGED <<values, versions>>
  <2>1. \A p : PathVals(p, v.at)' = PathVals(p, v.at)
    BY <1>3 DEF PathVals
  <2>2. Selected(v)' = Selected(v)
    BY <1>2, <1>3 DEF Selected
  <2> QED
    BY <2>1, <2>2 DEF GeoRows
<1>4. ASSUME NEW t \in 1 .. MaxTime, NEW b \in Batches, SetValues(t, b)
      PROVE  GeoRows(v)' = GeoRows(v)
  <2>1. \A p : PathVals(p, v.at)' = PathVals(p, v.at)
    BY <1>1, <1>4, ValuesPinned
  <2>2. Selected(v)' = Selected(v)
    BY <1>2, <1>4 DEF SetValues, Selected
  <2> QED
    BY <2>1, <2>2 DEF GeoRows
<1>5. ASSUME NEW t \in 1 .. MaxTime, NEW b \in Patches, PatchGeos(t, b)
      PROVE  GeoRows(v)' = GeoRows(v)
  <2>1. \A p : PathVals(p, v.at)' = PathVals(p, v.at)
    BY <1>5 DEF PatchGeos, PathVals
  <2>2. Selected(v)' = Selected(v)
    BY <1>1, <1>2, <1>5, VersionsPinned DEF Selected
  <2> QED
    BY <2>1, <2>2 DEF GeoRows
<1> QED
  BY <1>3, <1>4, <1>5
  DEF Next, vars, tables, Tick, MapLocality, CreatePlan, CreateGraph, StartView, ChooseSet, FindSets,
      Compare, Count, CommitView, DropView, StartRender, ExportGeos, ExportPoints,
      FinishRender, FailRender, Created, Rendered

(* Nor what a graph selects. *)
LEMMA GraphSelectionStep ==
  ASSUME Named, [Next]_vars, NEW g \in graphs, ~ Late(g.created)
  PROVE  GraphRows(g)' = GraphRows(g)
<1>1. g.created \in Nat /\ {g.set} \in SUBSET Ids
  BY DEF Named, Graph
<1>2. Members({g.set})' = Members({g.set})
  BY <1>1, SetsKept
<1>3. CASE UNCHANGED versions
  BY <1>2, <1>3 DEF GraphRows
<1>4. ASSUME NEW t \in 1 .. MaxTime, NEW b \in Patches, PatchGeos(t, b)
      PROVE  GraphRows(g)' = GraphRows(g)
  <2>1. /\ \A x \in versions : Effective(x, g.created) =>
              \E y \in versions' : Effective(y, g.created) /\ y.geo = x.geo /\ y.hash = x.hash
        /\ \A y \in versions' : Effective(y, g.created) =>
              \E x \in versions : Effective(x, g.created) /\ y.geo = x.geo /\ y.hash = x.hash
    BY <1>1, <1>4, VersionsPinned
  <2>2. PICK M : M = Members({g.set}) /\ M = Members({g.set})'
    BY <1>2
  <2> DEFINE Row(x) == <<x.geo[2], x.hash>>
             Of(x) == x.geo \in M /\ x.geo[1] = Home /\ Effective(x, g.created)
  <2>3. \A x \in versions : Of(x) => \E y \in versions' : Of(y) /\ Row(y) = Row(x)
    BY <2>1
  <2>4. \A y \in versions' : Of(y) => \E x \in versions : Of(x) /\ Row(y) = Row(x)
    BY <2>1
  <2>5. GraphRows(g) = {Row(x) : x \in {y \in versions : Of(y)}}
        /\ GraphRows(g)' = {Row(x) : x \in {y \in versions' : Of(y)}}
    BY <2>2 DEF GraphRows
  <2> HIDE DEF Row, Of
  <2> QED
    BY <2>3, <2>4, <2>5
<1> QED
  BY <1>3, <1>4
  DEF Next, vars, tables, Tick, SetValues, MapLocality, CreatePlan, CreateGraph, StartView, ChooseSet,
      FindSets, Compare, Count, CommitView, DropView, StartRender, ExportGeos, ExportPoints,
      FinishRender, FailRender, Created, Rendered

(* The sets of a view and of a graph exist, in every reachable state. *)
THEOREM SetsExist == Spec => []Named
<1>1. Init => Named
  BY DEF Init, Named, Ids, SetOf
<1> QED
  BY <1>1, NamedStep, PTL DEF Spec

(* What a view or a graph selects only changes when a request commits that   *)
(* had taken its instant by that of the view or of the graph.                *)
THEOREM PinnedToInstant == Spec => Pinned
<1>1. Named /\ [Next]_vars => 
        [/\ \A v \in views : GeoRows(v)' # GeoRows(v) => Late(v.at)
         /\ \A g \in graphs : GraphRows(g)' # GraphRows(g) => Late(g.created)]_vars
  BY SelectionStep, GraphSelectionStep
<1> QED
  BY <1>1, SetsExist, PTL DEF Spec, Pinned

-----------------------------------------------------------------------------
(* The invariant behind the checksum, the cache and the types.               *)
PathsOf(ids) == {g[2] : g \in Members(ids)}

Finite == IsFiniteSet(values) /\ IsFiniteSet(versions)

(* A set is of one namespace, and an identifier of one set. *)
Layered ==
  /\ \A s \in sets : \E n \in Namespaces : s.members \subseteq {n} \X Paths
  /\ \A s, u \in sets : s.id = u.id => s = u

(* A geography has a geometry at every instant. *)
Covered == \A g \in Geos, t \in Nat : \E x \in versions : x.geo = g /\ Effective(x, t)

(* The primary key of column_value, and one current value of a geography. *)
Keyed ==
  /\ \A a, b \in values : a.geo = b.geo /\ a.from = b.from => a = b
  /\ \A a, b \in values : a.geo = b.geo /\ a.to = Null /\ b.to = Null => a = b

(* What is known of a view, or of the creation of one. *)
AtHome(id) == id \in Ids /\ Members({id}) \subseteq {Home} \X Paths
Agreed(c) == PathsOf(c.sets) \subseteq PathsOf({c.cur})
Single(c) == \A g \in Members({c.cur}) : \A a, b \in EffectiveValues(g, c.at) : a = b
Valued(c) ==
  c.sets = {c.cur} /\ Single(c) => \A g \in Members({c.cur}) : EffectiveValues(g, c.at) # {}

Linked == \A g \in graphs : \A e \in g.edges : {e[1], e[2]} \subseteq Members({g.set})

RightCreation(c) ==
  /\ c.graph # Null => c.graph \in graphs
  /\ c.pc # "started" => AtHome(c.cur)
  /\ c.pc \in {"compared", "counted"} => Agreed(c)
  /\ c.pc = "counted" => Valued(c) /\ (c.graph # Null => c.graph.set = c.cur)
Creating == create # Null => RightCreation(create)

RightView(v) ==
  /\ AtHome(v.cur) /\ Agreed(v) /\ Valued(v)
  /\ v.numGeos = Cardinality(Members({v.cur}))
  /\ v.graph # Null => v.graph \in graphs /\ v.graph.set = v.cur
Stored ==
  /\ \A u, v \in views : u.path = v.path => u = v
  /\ \A v \in views : RightView(v)

Exporting ==
  render # Null =>
    /\ render.view \in views
    /\ render.pc # "started" =>
         /\ IsFiniteSet(render.rows)
         /\ {r[1] : r \in render.rows} \subseteq PathsOf({render.view.cur})

Caching ==
  /\ \A p \in ViewPaths : cached[p] # Null => \E v \in views : v.path = p
  /\ CachedWhole

Tables == Finite /\ Layered /\ Covered /\ Keyed /\ Linked
Inv == TypeOK /\ Named /\ Tables /\ Creating /\ Stored /\ Exporting /\ Caching

-----------------------------------------------------------------------------
(* Finite sets. *)
LEMMA ImageFinite ==
  ASSUME NEW S, IsFiniteSet(S), NEW f
  PROVE  IsFiniteSet({f[x] : x \in S})
<1> DEFINE T == {f[x] : x \in S}
           g == [x \in S |-> f[x]]
<1>1. g \in Surjection(S, T)
  BY DEF Surjection
<1> QED
  BY <1>1, FS_Surjection

LEMMA GeosFinite == IsFiniteSet(Geos)
  BY FiniteAssumption, FS_Product DEF Geos

(* A finite set of naturals has a greatest element: a subset of the elements  *)
(* above one of them, with none below it, is empty.                           *)
LEMMA MaxIn ==
  ASSUME NEW S, IsFiniteSet(S), S \subseteq Nat, S # {}
  PROVE  Max(S) \in S
<1> DEFINE Above(x) == {y \in S : y > x}
           T == {Above(x) : x \in S}
<1>1. T \subseteq FiniteSubsetsOf(S) /\ T # {}
  <2>1. \A x : Above(x) \subseteq S
    OBVIOUS
  <2> HIDE DEF Above
  <2>2. \A x : IsFiniteSet(Above(x))
    BY <2>1, FS_Subset
  <2> QED
    BY <2>1, <2>2 DEF FiniteSubsetsOf
<1>2. PICK U \in T : \A V \in T : ~ (<<V, U>> \in StrictSubsetOrdering(S))
  BY <1>1, FS_StrictSubsetOrderingWellFounded, WFMin
<1>3. \A x, y : y \in Above(x) <=> y \in S /\ y > x
  OBVIOUS
<1> HIDE DEF Above
<1>4. PICK x \in S : U = Above(x)
  OBVIOUS
<1>5. ASSUME NEW z \in Above(x)
      PROVE  FALSE
  <2>1. z \in S /\ z \in Nat /\ x \in Nat /\ z > x
    BY <1>3
  <2>2. z \notin Above(z) /\ \A y \in Above(z) : y \in S /\ y \in Nat /\ y > x
    BY <1>3, <2>1
  <2>3. Above(z) \in T /\ Above(z) \subseteq Above(x) /\ Above(x) \subseteq S
    BY <1>3, <2>1, <2>2
  <2>4. Above(z) # U
    BY <1>4, <1>5, <2>2
  <2>5. <<Above(z), U>> \in StrictSubsetOrdering(S)
    BY <1>4, <2>3, <2>4 DEF StrictSubsetOrdering
  <2> QED
    BY <1>2, <2>3, <2>5
<1>6. \A y \in S : x >= y
  BY <1>3, <1>5
<1> QED
  BY <1>6 DEF Max

-----------------------------------------------------------------------------
(* What a write does to the rows of a versioned table. *)
Closing(r, C, t) == IF r.geo \in C /\ r.to = Null THEN [r EXCEPT !.to = t] ELSE r
NewValue(g, b, t) == [geo |-> g, val |-> b[g], from |-> t, to |-> Null]
NewVersion(g, b, t) == [geo |-> g, hash |-> b[g], from |-> t, to |-> Null]

LEMMA ValuesWritten ==
  ASSUME NEW t \in 1 .. MaxTime, NEW b \in Batches, SetValues(t, b)
  PROVE  \E C \in SUBSET Geos :
           /\ \A g \in C : b[g] \in Vals
           /\ \A r \in values : r.geo \in C => r.from # t
           /\ values' = {Closing(r, C, t) : r \in values} \cup {NewValue(g, b, t) : g \in C}
<1> DEFINE old == {<<r.geo, r.val>> : r \in {x \in values : x.geo \in DOMAIN b /\ x.to = Null}}
           C == {g \in DOMAIN b : <<g, b[g]>> \notin old}
<1>1. PICK S \in SUBSET Geos : b \in [S -> Vals]
  BY BodiesAssumption
<1>2. C \in SUBSET Geos /\ \A g \in C : b[g] \in Vals
  BY <1>1
<1>3. \A r \in values : r.geo \in C => r.from # t
  BY DEF SetValues
<1>4. values' = {Closing(r, C, t) : r \in values} \cup {NewValue(g, b, t) : g \in C}
  BY DEF SetValues, Closed, Closing, NewValue
<1> QED
  BY <1>2, <1>3, <1>4

LEMMA VersionsWritten ==
  ASSUME NEW t \in 1 .. MaxTime, NEW b \in Patches, PatchGeos(t, b)
  PROVE  \E C \in SUBSET Geos :
           /\ \A g \in C : b[g] \in Hashes
           /\ versions' = {Closing(x, C, t) : x \in versions} \cup {NewVersion(g, b, t) : g \in C}
<1> DEFINE C == {g \in DOMAIN b : \A x \in versions : x.geo = g /\ x.to = Null => x.hash # b[g]}
<1>1. PICK S \in SUBSET Geos : b \in [S -> Hashes]
  BY BodiesAssumption
<1>2. C \in SUBSET Geos /\ \A g \in C : b[g] \in Hashes
  BY <1>1
<1>3. versions' = {Closing(x, C, t) : x \in versions} \cup {NewVersion(g, b, t) : g \in C}
  BY DEF PatchGeos, Closed, Closing, NewVersion
<1> QED
  BY <1>2, <1>3

LEMMA ClosingFields ==
  ASSUME NEW C, NEW t, NEW r, r \in Value \/ r \in Version
  PROVE  /\ Closing(r, C, t).geo = r.geo /\ Closing(r, C, t).from = r.from
         /\ r \in Value => Closing(r, C, t).val = r.val
         /\ r \in Version => Closing(r, C, t).hash = r.hash
         /\ r.to # Null \/ r.geo \notin C => Closing(r, C, t) = r
         /\ r.to = Null /\ r.geo \in C => Closing(r, C, t).to = t
  BY DEF Closing, Value, Version

(* Which steps write to the tables. *)
LEMMA Writers ==
  ASSUME [Next]_vars
  PROVE  /\ values' = values \/ \E t \in 1 .. MaxTime, b \in Batches : SetValues(t, b)
         /\ versions' = versions \/ \E t \in 1 .. MaxTime, b \in Patches : PatchGeos(t, b)
         /\ \/ sets' = sets
            \/ \E t \in 1 .. MaxTime, b \in Remaps, id \in SetIds : MapLocality(t, b, id)
         /\ \/ graphs' = graphs
            \/ \E t \in 1 .. MaxTime, edges \in EdgeLists : CreateGraph(t, edges)
         /\ plans' = plans \/ \E t \in 1 .. MaxTime : CreatePlan(t)
  BY DEF Next, vars, tables, Tick, SetValues, PatchGeos, MapLocality, CreatePlan, CreateGraph,
     StartView, ChooseSet, FindSets, Compare, Count, CommitView, DropView, StartRender,
     ExportGeos, ExportPoints, FinishRender, FailRender, Created, Rendered

LEMMA FiniteStep == TypeOK /\ Finite /\ [Next]_vars => Finite'
<1> SUFFICES ASSUME TypeOK, Finite, [Next]_vars
             PROVE  Finite'
  OBVIOUS
<1>1. ASSUME NEW t \in 1 .. MaxTime, NEW b \in Batches, SetValues(t, b)
      PROVE  IsFiniteSet(values')
  <2>1. PICK C \in SUBSET Geos :
          values' = {Closing(r, C, t) : r \in values} \cup {NewValue(g, b, t) : g \in C}
    BY <1>1, ValuesWritten
  <2> DEFINE f == [r \in values |-> Closing(r, C, t)]
             n == [g \in C |-> NewValue(g, b, t)]
  <2>2. values' = {f[r] : r \in values} \cup {n[g] : g \in C}
    BY <2>1
  <2> HIDE DEF f, n
  <2>3. IsFiniteSet({f[r] : r \in values})
    BY ImageFinite DEF Finite
  <2>4. IsFiniteSet({n[g] : g \in C})
    BY GeosFinite, FS_Subset, ImageFinite
  <2> QED
    BY <2>2, <2>3, <2>4, FS_Union
<1>2. ASSUME NEW t \in 1 .. MaxTime, NEW b \in Patches, PatchGeos(t, b)
      PROVE  IsFiniteSet(versions')
  <2>1. PICK C \in SUBSET Geos :
          versions' = {Closing(r, C, t) : r \in versions} \cup {NewVersion(g, b, t) : g \in C}
    BY <1>2, VersionsWritten
  <2> DEFINE f == [r \in versions |-> Closing(r, C, t)]
             n == [g \in C |-> NewVersion(g, b, t)]
  <2>2. versions' = {f[r] : r \in versions} \cup {n[g] : g \in C}
    BY <2>1
  <2> HIDE DEF f, n
  <2>3. IsFiniteSet({f[r] : r \in versions})
    BY ImageFinite DEF Finite
  <2>4. IsFiniteSet({n[g] : g \in C})
    BY GeosFinite, FS_Subset, ImageFinite
  <2> QED
    BY <2>2, <2>3, <2>4, FS_Union
<1> QED
  BY <1>1, <1>2, Writers DEF Finite

LEMMA LayeredStep == TypeOK /\ Layered /\ [Next]_vars => Layered'
<1> SUFFICES ASSUME TypeOK, Layered, [Next]_vars
             PROVE  Layered'
  OBVIOUS
<1>1. ASSUME NEW t \in 1 .. MaxTime, NEW b \in Remaps, NEW id \in SetIds, MapLocality(t, b, id)
      PROVE  Layered'
  <2> DEFINE Kept(s) == IF s \in HomeSets(sets) /\ s.to = Null THEN [s EXCEPT !.to = t] ELSE s
             new == [id |-> id, members |-> b, from |-> t, to |-> Null]
  <2>1. sets' = {Kept(s) : s \in sets} \cup {new}
    BY <1>1 DEF MapLocality
  <2>2. \A s \in sets : Kept(s).id = s.id /\ Kept(s).members = s.members
    OBVIOUS
  <2>3. \A s \in sets : s.id # id
    BY <1>1 DEF MapLocality
  <2>4. b \subseteq {Home} \X Paths /\ Home \in Namespaces
    BY BodiesAssumption, HomeAssumption
  <2>5. new.id = id /\ new.members = b
    OBVIOUS
  <2> HIDE DEF Kept, new
  <2>6. \A s \in sets' : \E n \in Namespaces : s.members \subseteq {n} \X Paths
    BY <2>1, <2>2, <2>4, <2>5 DEF Layered
  <2>7. \A s, u \in sets' : s.id = u.id => s = u
    BY <2>1, <2>2, <2>3, <2>5 DEF Layered
  <2> QED
    BY <2>6, <2>7 DEF Layered
<1> QED
  BY <1>1, Writers DEF Layered

(* A patch leaves no instant without a geometry: what it closes ends where    *)
(* its own version begins.                                                    *)
LEMMA CoveredStep == TypeOK /\ Covered /\ [Next]_vars => Covered'
<1> SUFFICES ASSUME TypeOK, Covered, [Next]_vars
             PROVE  Covered'
  OBVIOUS
<1>1. ASSUME NEW t \in 1 .. MaxTime, NEW b \in Patches, PatchGeos(t, b),
             NEW g \in Geos, NEW at \in Nat
      PROVE  \E y \in versions' : y.geo = g /\ Effective(y, at)
  <2>1. PICK C \in SUBSET Geos :
          versions' = {Closing(x, C, t) : x \in versions} \cup {NewVersion(h, b, t) : h \in C}
    BY <1>1, VersionsWritten
  <2>2. PICK x \in versions : x.geo = g /\ Effective(x, at)
    BY DEF Covered
  <2>3. x \in Version /\ x.from \in Nat /\ t \in Nat
    BY DEF TypeOK, Version
  <2>4. CASE g \in C /\ t <= at
    <3>1. NewVersion(g, b, t) \in versions'
      BY <2>1, <2>4
    <3>2. NewVersion(g, b, t).geo = g /\ Effective(NewVersion(g, b, t), at)
      BY <2>4 DEF NewVersion, Effective
    <3> QED
      BY <3>1, <3>2
  <2>5. CASE ~ (g \in C /\ t <= at)
    <3>1. Closing(x, C, t) \in versions' /\ Closing(x, C, t).geo = g
      BY <2>1, <2>2, <2>3, ClosingFields
    <3>2. Effective(Closing(x, C, t), at)
      BY <2>2, <2>3, <2>5, ClosingFields DEF Effective
    <3> QED
      BY <3>1, <3>2
  <2> QED
    BY <2>4, <2>5
<1> QED
  BY <1>1, Writers DEF Covered, Effective

LEMMA KeyedStep == TypeOK /\ Keyed /\ [Next]_vars => Keyed'
<1> SUFFICES ASSUME TypeOK, Keyed, [Next]_vars
             PROVE  Keyed'
  OBVIOUS
<1>1. ASSUME NEW t \in 1 .. MaxTime, NEW b \in Batches, SetValues(t, b)
      PROVE  Keyed'
  <2>1. PICK C \in SUBSET Geos :
          /\ \A r \in values : r.geo \in C => r.from # t
          /\ values' = {Closing(r, C, t) : r \in values} \cup {NewValue(g, b, t) : g \in C}
    BY <1>1, ValuesWritten
  <2>2. \A g : /\ NewValue(g, b, t).geo = g /\ NewValue(g, b, t).from = t
               /\ NewValue(g, b, t).to = Null
    BY DEF NewValue
  <2>3. \A r \in values : /\ Closing(r, C, t).geo = r.geo /\ Closing(r, C, t).from = r.from
                          /\ Closing(r, C, t).to = Null => r.to = Null /\ r.geo \notin C
    BY ClosingFields DEF TypeOK
  <2>4. \A x, y \in values' : x.geo = y.geo /\ x.from = y.from => x = y
    BY <2>1, <2>2, <2>3 DEF Keyed
  <2>5. \A x, y \in values' : x.geo = y.geo /\ x.to = Null /\ y.to = Null => x = y
    BY <2>1, <2>2, <2>3 DEF Keyed
  <2> QED
    BY <2>4, <2>5 DEF Keyed
<1> QED
  BY <1>1, Writers DEF Keyed

(* The edges of a graph join members of its set, which never change. *)
LEMMA LinkedStep == TypeOK /\ Named /\ Layered /\ Linked /\ [Next]_vars => Linked'
<1> SUFFICES ASSUME TypeOK, Named, Layered, Linked, [Next]_vars
             PROVE  Linked'
  OBVIOUS
<1>1. \A g \in graphs : Members({g.set})' = Members({g.set})
  BY SetsKept DEF Named
<1>2. ASSUME NEW t \in 1 .. MaxTime, NEW edges \in EdgeLists, CreateGraph(t, edges)
      PROVE  Linked'
  <2>1. PICK s \in sets :
          /\ \A e \in edges : e[1] \in s.members /\ e[2] \in s.members
          /\ graphs' = graphs \cup {[set |-> s.id, created |-> t, edges |-> edges]}
    BY <1>2 DEF CreateGraph, HomeSets
  <2>2. sets' = sets
    BY <1>2 DEF CreateGraph
  <2>3. s.members \subseteq Members({s.id})
    BY DEF Members
  <2>4. Members({s.id})' = Members({s.id})
    BY <2>2 DEF Members
  <2>5. ASSUME NEW g \in graphs', NEW e \in g.edges
        PROVE  {e[1], e[2]} \subseteq Members({g.set})'
    <3>1. CASE g \in graphs
      BY <1>1, <2>5, <3>1 DEF Linked
    <3>2. CASE g = [set |-> s.id, created |-> t, edges |-> edges]
      <4>1. g.set = s.id /\ e \in edges
        BY <2>5, <3>2
      <4> QED
        BY <2>1, <2>3, <2>4, <4>1
    <3> QED
      BY <2>1, <3>1, <3>2
  <2> QED
    BY <2>5 DEF Linked
<1> QED
  BY <1>1, <1>2, Writers DEF Linked

-----------------------------------------------------------------------------
(* At every instant a geography keeps having a value, and has no fewer. *)
LEMMA MoreValues ==
  ASSUME TypeOK, Keyed, [Next]_vars, NEW g, NEW at \in Nat
  PROVE  /\ EffectiveValues(g, at) # {} => EffectiveValues(g, at)' # {}
         /\ (\A x, y \in EffectiveValues(g, at)' : x = y)
              => \A x, y \in EffectiveValues(g, at) : x = y
<1>1. CASE values' = values
  BY <1>1 DEF EffectiveValues
<1>2. ASSUME NEW t \in 1 .. MaxTime, NEW b \in Batches, SetValues(t, b)
      PROVE  /\ EffectiveValues(g, at) # {} => EffectiveValues(g, at)' # {}
             /\ (\A x, y \in EffectiveValues(g, at)' : x = y)
                  => \A x, y \in EffectiveValues(g, at) : x = y
  <2>1. PICK C \in SUBSET Geos :
          /\ \A r \in values : r.geo \in C => r.from # t
          /\ values' = {Closing(r, C, t) : r \in values} \cup {NewValue(h, b, t) : h \in C}
    BY <1>2, ValuesWritten
  <2> DEFINE new == NewValue(g, b, t)
             After(x) == IF Effective(Closing(x, C, t), at) THEN Closing(x, C, t) ELSE new
  <2>2. new.geo = g /\ new.from = t /\ new.to = Null
    BY DEF NewValue
  <2> HIDE DEF new
  <2>3. \A x \in values :
          /\ x.from \in Nat /\ x.to \in Nat \cup {Null}
          /\ Closing(x, C, t).geo = x.geo /\ Closing(x, C, t).from = x.from
          /\ x.to # Null \/ x.geo \notin C => Closing(x, C, t) = x
          /\ x.to = Null /\ x.geo \in C => Closing(x, C, t).to = t
    BY ClosingFields DEF TypeOK, Value, Ends
  <2>4. ASSUME NEW x \in EffectiveValues(g, at), ~ Effective(Closing(x, C, t), at)
        PROVE  x.to = Null /\ g \in C /\ new \in values' /\ Effective(new, at)
    <3>1. x \in values /\ x.geo = g /\ Effective(x, at)
      BY DEF EffectiveValues
    <3>2. x.to = Null /\ g \in C /\ t < at
      BY <2>3, <2>4, <3>1 DEF Effective
    <3> QED
      BY <2>1, <2>2, <3>2 DEF Effective, new
  <2>5. ASSUME NEW x \in EffectiveValues(g, at)
        PROVE  After(x) \in EffectiveValues(g, at)'
    <3>1. x \in values /\ x.geo = g
      BY DEF EffectiveValues
    <3>2. After(x) \in values' /\ After(x).geo = g /\ Effective(After(x), at)
      BY <2>1, <2>2, <2>3, <2>4, <3>1
    <3> QED
      BY <3>2 DEF EffectiveValues, Effective
  <2>6. ASSUME NEW x \in EffectiveValues(g, at), NEW y \in EffectiveValues(g, at),
               After(x) = After(y)
        PROVE  x = y
    <3>1. x \in values /\ x.geo = g /\ y \in values /\ y.geo = g
      BY DEF EffectiveValues
    <3>2. CASE After(x) = Closing(x, C, t) /\ After(y) = Closing(y, C, t)
      <4>1. x.from = y.from
        BY <2>3, <2>6, <3>1, <3>2
      <4> QED
        BY <3>1, <4>1 DEF Keyed
    <3>3. CASE ~ Effective(Closing(x, C, t), at) /\ ~ Effective(Closing(y, C, t), at)
      <4>1. x.to = Null /\ y.to = Null
        BY <2>4, <3>3
      <4> QED
        BY <3>1, <4>1 DEF Keyed
    <3>4. CASE Effective(Closing(x, C, t), at) /\ ~ Effective(Closing(y, C, t), at)
      <4>1. g \in C /\ Closing(x, C, t) = new
        BY <2>4, <2>6, <3>4
      <4>2. x.from = t
        BY <2>2, <2>3, <3>1, <4>1
      <4> QED
        BY <2>1, <3>1, <4>1, <4>2
    <3>5. CASE ~ Effective(Closing(x, C, t), at) /\ Effective(Closing(y, C, t), at)
      <4>1. g \in C /\ Closing(y, C, t) = new
        BY <2>4, <2>6, <3>5
      <4>2. y.from = t
        BY <2>2, <2>3, <3>1, <4>1
      <4> QED
        BY <2>1, <3>1, <4>1, <4>2
    <3> QED
      BY <3>2, <3>3, <3>4, <3>5
  <2> HIDE DEF After
  <2> QED
    BY <2>5, <2>6
<1> QED
  BY <1>1, <1>2, Writers

(* What is known of the sets and the values of a view stays so. *)
LEMMA Stays ==
  ASSUME TypeOK, Keyed, [Next]_vars,
         NEW c, c.cur \in Ids, c.at \in Nat
  PROVE  /\ Members({c.cur})' = Members({c.cur})
         /\ AtHome(c.cur) => AtHome(c.cur)'
         /\ Agreed(c) /\ c.sets \subseteq Ids => Agreed(c)'
         /\ Valued(c) => Valued(c)'
<1>1. Ids \subseteq Ids' /\ Members({c.cur})' = Members({c.cur})
  BY SetsKept
<1>2. AtHome(c.cur) => AtHome(c.cur)'
  BY <1>1 DEF AtHome
<1>3. ASSUME Agreed(c), c.sets \subseteq Ids
      PROVE  Agreed(c)'
  <2>1. Members(c.sets)' = Members(c.sets)
    BY <1>3, SetsKept
  <2> QED
    BY <1>1, <1>3, <2>1 DEF Agreed, PathsOf
<1>4. ASSUME Valued(c)
      PROVE  Valued(c)'
  <2> SUFFICES ASSUME c.sets = {c.cur}, Single(c)', NEW g \in Members({c.cur})
               PROVE  EffectiveValues(g, c.at)' # {}
    BY <1>1 DEF Valued
  <2>1. Single(c)
    BY <1>1, MoreValues DEF Single
  <2>2. EffectiveValues(g, c.at) # {}
    BY <1>4, <2>1 DEF Valued
  <2> QED
    BY <2>2, MoreValues
<1> QED
  BY <1>1, <1>2, <1>3, <1>4

-----------------------------------------------------------------------------
(* What the statements of a creation find. *)
LEMMA MembersOf ==
  ASSUME Layered, NEW s \in sets
  PROVE  Members({s.id}) = s.members
  BY DEF Members, Layered

LEMMA MembersType ==
  ASSUME TypeOK, NEW ids
  PROVE  Members(ids) \subseteq Geos /\ IsFiniteSet(Members(ids)) /\ PathsOf(ids) \subseteq Paths
<1>1. Members(ids) \subseteq Geos
  BY DEF TypeOK, SetVersion, Members
<1> QED
  BY <1>1, GeosFinite, FS_Subset DEF PathsOf, Geos

(* A set of the home layer is of the home namespace alone. *)
LEMMA ChosenAtHome ==
  ASSUME Layered, NEW s \in sets, s \in HomeSets(sets)
  PROVE  AtHome(s.id)
<1>1. PICK n \in Namespaces : s.members \subseteq {n} \X Paths
  BY DEF Layered
<1>2. PICK g \in s.members : g[1] = Home
  BY DEF HomeSets
<1>3. n = Home
  BY <1>1, <1>2
<1> QED
  BY <1>1, <1>3, MembersOf DEF AtHome, Ids

(* The paths of the dict of a set are those of its members, for each of them *)
(* has a geometry at the instant.                                            *)
LEMMA DictPaths ==
  ASSUME TypeOK, Covered, create.at \in Nat, NEW id, NEW d \in Dicts(id)
  PROVE  DOMAIN d = PathsOf({id})
<1> DEFINE pairs == {<<x.geo[2], x.hash>> : x \in {y \in versions : /\ y.geo \in Members({id})
                                                                   /\ Effective(y, create.at)}}
           hashes(p) == {h \in Hashes : <<p, h>> \in pairs}
           paths == {p \in Paths : hashes(p) # {}}
<1>1. DOMAIN d = paths
  BY DEF Dicts
<1>2. ASSUME NEW g \in Members({id})
      PROVE  g[2] \in paths
  <2>1. g \in Geos /\ g[2] \in Paths
    BY MembersType DEF Geos
  <2>2. PICK x \in versions : x.geo = g /\ Effective(x, create.at)
    BY <2>1 DEF Covered
  <2>3. x.hash \in Hashes
    BY DEF TypeOK, Version
  <2>4. x.hash \in hashes(g[2])
    BY <2>2, <2>3
  <2> QED
    BY <2>1, <2>4
<1>3. ASSUME NEW p \in paths
      PROVE  p \in PathsOf({id})
  <2>1. PICK h \in Hashes : <<p, h>> \in pairs
    OBVIOUS
  <2> QED
    BY <2>1 DEF PathsOf
<1> HIDE DEF paths
<1> QED
  BY <1>1, <1>2, <1>3 DEF PathsOf

LEMMA ComparedAgree ==
  ASSUME TypeOK, Covered, create.at \in Nat, Compare
  PROVE  Agreed(create)
<1>1. PICK d \in Dicts(create.cur) : \A s \in create.sets : d \in Dicts(s)
  BY DEF Compare
<1>2. DOMAIN d = PathsOf({create.cur}) /\ \A s \in create.sets : DOMAIN d = PathsOf({s})
  BY <1>1, DictPaths
<1>3. \A p \in PathsOf(create.sets) : \E s \in create.sets : p \in PathsOf({s})
  BY DEF PathsOf, Members
<1> QED
  BY <1>2, <1>3 DEF Agreed

(* As many values as members, and one for each of the members that have one: *)
(* no member is without.                                                     *)
LEMMA CountedValued ==
  ASSUME TypeOK, Finite, NEW cur, create.cur = cur, Count
  PROVE  Valued(create)
<1> SUFFICES ASSUME create.sets = {cur}, Single(create), NEW g \in Members({cur})
             PROVE  EffectiveValues(g, create.at) # {}
  BY DEF Valued
<1> DEFINE M == Members({cur})
           S == {x \in values \X create.sets :
                   x[1].geo \in Members({x[2]}) /\ Effective(x[1], create.at)}
           f == [x \in S |-> x[1].geo]
<1>1. Cardinality(S) = Cardinality(M)
  BY DEF Count, ValueCount, NumGeos
<1>2. IsFiniteSet(M)
  BY MembersType
<1>3. \A x \in S : x[1] \in EffectiveValues(x[1].geo, create.at) /\ x[1].geo \in M /\ x[2] = cur
  BY DEF EffectiveValues
<1>4. ASSUME NEW x \in S, NEW y \in S, x[1].geo = y[1].geo
      PROVE  x = y
  <2>1. x[1] = y[1] /\ x[2] = y[2]
    BY <1>3, <1>4 DEF Single
  <2>2. x = <<x[1], x[2]>> /\ y = <<y[1], y[2]>>
    OBVIOUS
  <2> QED
    BY <2>1, <2>2
<1>5. f \in [S -> M] /\ \A x \in S : f[x] = x[1].geo
  BY <1>3
<1> HIDE DEF S, M, f
<1>6. f \in Injection(S, M)
  BY <1>4, <1>5 DEF Injection, IsInjective
<1>7. f \in Surjection(S, M)
  BY <1>1, <1>2, <1>6, FS_Injection
<1>8. PICK x \in S : f[x] = g
  BY <1>7 DEF Surjection, M
<1> QED
  BY <1>3, <1>5, <1>8

-----------------------------------------------------------------------------
LEMMA GraphsGrow ==
  ASSUME [Next]_vars
  PROVE  graphs \subseteq graphs'
  BY Writers DEF CreateGraph

(* What a creation has found holds until it commits. *)
LEMMA CreatingStep == TypeOK /\ Named /\ Tables /\ Creating /\ [Next]_vars => Creating'
<1> SUFFICES ASSUME TypeOK, Named, Tables, Creating, [Next]_vars, create' # Null
             PROVE  RightCreation(create)'
  BY DEF Creating
<1> USE DEF Tables
<1>1. graphs \subseteq graphs'
  BY GraphsGrow
<1>2. CASE create' = create
  <2>1. create \in Creation /\ RightCreation(create) /\ create.sets \subseteq Ids
    BY <1>2 DEF Creating, Named
  <2>2. CASE create.pc = "started"
    BY <1>1, <1>2, <2>1, <2>2 DEF RightCreation
  <2>3. CASE create.pc # "started"
    <3>1. PICK c : c = create
      OBVIOUS
    <3>2. c.cur \in Ids /\ c.at \in Nat /\ c.sets \subseteq Ids
      BY <1>2, <2>1, <2>3, <3>1 DEF Named, Creation
    <3>3. /\ AtHome(c.cur) => AtHome(c.cur)'
          /\ Agreed(c) => Agreed(c)'
          /\ Valued(c) => Valued(c)'
      BY <3>2, Stays
    <3>4. RightCreation(c)
      BY <2>1, <3>1
    <3>5. RightCreation(c)'
      BY <1>1, <3>3, <3>4 DEF RightCreation
    <3> QED
      BY <1>2, <3>1, <3>5 DEF RightCreation, AtHome, Agreed, Valued, Single
  <2> QED
    BY <2>2, <2>3
<1>3. ASSUME UNCHANGED tables, NEW c, c = create', RightCreation(c)
      PROVE  RightCreation(create)'
  <2>1. /\ \A id : AtHome(id)' <=> AtHome(id)
        /\ \A ids : Members(ids)' = Members(ids)
        /\ \A g, t : EffectiveValues(g, t)' = EffectiveValues(g, t)
        /\ graphs' = graphs
    BY <1>3 DEF tables, AtHome, Members, Ids, EffectiveValues, Effective
  <2>2. RightCreation(c)'
    BY <1>3, <2>1 DEF RightCreation, Agreed, PathsOf, Valued, Single
  <2> QED
    BY <1>3, <2>2 DEF RightCreation, AtHome, Agreed, Valued, Single
<1>4. ASSUME NEW p \in ViewPaths, NEW t \in Instants, NEW g \in graphs \cup {Null},
             StartView(p, t, g)
      PROVE  RightCreation(create)'
  <2>1. PICK c : c = create'
    OBVIOUS
  <2>2. c.pc = "started" /\ c.graph \in graphs \cup {Null}
    BY <1>4, <2>1 DEF StartView
  <2>3. RightCreation(c)
    BY <2>2 DEF RightCreation
  <2> QED
    BY <1>3, <1>4, <2>1, <2>3 DEF StartView, Created
<1>5. create # Null => create \in Creation
  BY DEF Named
<1>6. CASE ChooseSet
  <2>1. PICK s \in HomeSets(EffectiveSets(create.at)) :
          create' = [create EXCEPT !.pc = "chosen", !.cur = s.id]
    BY <1>6 DEF ChooseSet
  <2>2. s \in sets /\ s \in HomeSets(sets)
    BY DEF HomeSets, EffectiveSets
  <2>3. AtHome(s.id)
    BY <2>2, ChosenAtHome
  <2>4. PICK c : c = create'
    OBVIOUS
  <2>5. c.pc = "chosen" /\ c.cur = s.id /\ c.graph = create.graph
    BY <1>5, <1>6, <2>1, <2>4 DEF ChooseSet, Step, Creation
  <2>6. RightCreation(c)
    BY <1>6, <2>3, <2>5 DEF ChooseSet, Step, Creating, RightCreation
  <2> QED
    BY <1>3, <1>6, <2>4, <2>6 DEF ChooseSet, Created
<1>7. CASE FindSets
  <2> DEFINE found == {s.id : s \in {x \in EffectiveSets(create.at) :
                                \E g \in x.members : EffectiveValues(g, create.at) # {}}}
             next == IF found \subseteq {create.cur} THEN "compared" ELSE "found"
  <2>1. create' = [create EXCEPT !.pc = next, !.sets = found \cup {create.cur}]
    BY <1>7 DEF FindSets
  <2>2. PICK c : c = create'
    OBVIOUS
  <2>3. /\ c.pc = next /\ c.cur = create.cur /\ c.graph = create.graph
        /\ c.sets = found \cup {create.cur}
    BY <1>5, <1>7, <2>1, <2>2 DEF FindSets, Step, Creation
  <2>4. c.pc \in {"found", "compared"} /\ (c.pc = "compared" => c.sets = {c.cur})
    BY <2>3
  <2>5. c.pc = "compared" => Agreed(c)
    BY <2>4 DEF Agreed
  <2>6. RightCreation(c)
    BY <1>7, <2>3, <2>4, <2>5 DEF FindSets, Step, Creating, RightCreation
  <2> QED
    BY <1>3, <1>7, <2>2, <2>6 DEF FindSets, Created
<1>8. CASE Compare
  <2>1. Agreed(create)
    BY <1>5, <1>8, ComparedAgree DEF Compare, Step, Creation
  <2>2. PICK c : c = create'
    OBVIOUS
  <2>3. /\ c.pc = "compared" /\ c.cur = create.cur /\ c.graph = create.graph
        /\ c.sets = create.sets
    BY <1>5, <1>8, <2>2 DEF Compare, Step, Creation
  <2>4. RightCreation(c)
    BY <1>8, <2>1, <2>3 DEF Compare, Step, Creating, RightCreation, Agreed
  <2> QED
    BY <1>3, <1>8, <2>2, <2>4 DEF Compare, Created
<1>9. CASE Count
  <2>1. Valued(create) /\ (create.graph # Null => create.graph.set = create.cur)
    BY <1>9, CountedValued DEF Count, GraphFits
  <2>2. PICK c : c = create'
    OBVIOUS
  <2>3. /\ c.pc = "counted" /\ c.cur = create.cur /\ c.graph = create.graph
        /\ c.sets = create.sets /\ c.at = create.at
    BY <1>5, <1>9, <2>2 DEF Count, Step, Creation
  <2>4. RightCreation(c)
    BY <1>9, <2>1, <2>3 DEF Count, Step, Creating, RightCreation, Agreed, Valued, Single
  <2> QED
    BY <1>3, <1>9, <2>2, <2>4 DEF Count, Created
<1>10. CommitView \/ DropView => FALSE
  BY DEF CommitView, DropView
<1> QED
  BY <1>2, <1>4, <1>6, <1>7, <1>8, <1>9, <1>10
  DEF Next, vars, Tick, SetValues, PatchGeos, MapLocality, CreatePlan, CreateGraph, Written,
      StartRender, ExportGeos, ExportPoints, FinishRender, FailRender, Rendered

(* What was right of a view when it was created is so for ever. *)
LEMMA StoredStep ==
  TypeOK /\ Named /\ Tables /\ Creating /\ Stored /\ [Next]_vars => Stored'
<1> SUFFICES ASSUME TypeOK, Named, Tables, Creating, Stored, [Next]_vars
             PROVE  Stored'
  OBVIOUS
<1> USE DEF Tables
<1>1. ASSUME NEW v \in views
      PROVE  RightView(v)'
  <2>1. RightView(v) /\ v.cur \in Ids /\ v.at \in Nat /\ v.sets \subseteq Ids
    BY DEF Stored, RightView, AtHome, Named
  <2>2. /\ Members({v.cur})' = Members({v.cur})
        /\ AtHome(v.cur) => AtHome(v.cur)'
        /\ Agreed(v) => Agreed(v)'
        /\ Valued(v) => Valued(v)'
    BY <2>1, Stays
  <2> QED
    BY <2>1, <2>2, GraphsGrow DEF RightView
<1>2. CASE views' = views
  BY <1>1, <1>2 DEF Stored
<1>3. CASE CommitView
  <2>1. PICK c : c = create
    OBVIOUS
  <2> DEFINE new == [path |-> c.path, at |-> c.at, cur |-> c.cur, sets |-> c.sets,
                     numGeos |-> NumGeos, graph |-> c.graph]
  <2>2. PICK n : n = new
    OBVIOUS
  <2>3. views' = views \cup {n} /\ \A v \in views : v.path # n.path
    BY <1>3, <2>1, <2>2 DEF CommitView
  <2>4. RightCreation(c) /\ c.pc = "counted"
    BY <1>3, <2>1 DEF CommitView, Step, Creating
  <2>5. /\ n.at = c.at /\ n.cur = c.cur /\ n.sets = c.sets /\ n.graph = c.graph
        /\ n.numGeos = Cardinality(Members({n.cur}))
    BY <2>1, <2>2 DEF NumGeos
  <2>6. RightView(n)
    BY <2>4, <2>5 DEF RightView, RightCreation, Agreed, Valued, Single
  <2>7. /\ AtHome(n.cur)' <=> AtHome(n.cur)
        /\ \A ids : Members(ids)' = Members(ids)
        /\ \A g, t : EffectiveValues(g, t)' = EffectiveValues(g, t)
        /\ graphs' = graphs
    BY <1>3 DEF CommitView, Created, tables, AtHome, Members, Ids, EffectiveValues, Effective
  <2>8. RightView(n)'
    BY <2>6, <2>7 DEF RightView, Agreed, PathsOf, Valued, Single
  <2> QED
    BY <1>1, <2>3, <2>8 DEF Stored
<1> QED
  BY <1>2, <1>3
  DEF Next, vars, Tick, SetValues, PatchGeos, MapLocality, CreatePlan, CreateGraph, Written,
      StartView, ChooseSet, FindSets, Compare, Count, DropView, StartRender, ExportGeos,
      ExportPoints, FinishRender, FailRender, Rendered, Created

-----------------------------------------------------------------------------
(* Rendering. *)
LEMMA RowPaths ==
  ASSUME NEW v
  PROVE  {r[1] : r \in GeoRows(v)} \subseteq PathsOf(v.sets)
<1> SUFFICES ASSUME NEW r \in GeoRows(v)
             PROVE  r[1] \in PathsOf(v.sets)
  OBVIOUS
<1>1. PICK s \in Selected(v) : r = <<s[1][2], s[2], Max(PathVals(s[1][2], v.at))>>
  BY DEF GeoRows
<1>2. PICK x \in versions : x.geo \in Members(v.sets) /\ s = <<x.geo, x.hash>>
  BY DEF Selected
<1>3. r[1] = x.geo[2]
  BY <1>1, <1>2
<1> QED
  BY <1>2, <1>3 DEF PathsOf

LEMMA GeoRowsFinite ==
  ASSUME Finite, NEW v
  PROVE  IsFiniteSet(GeoRows(v))
<1> DEFINE X == {y \in versions : y.geo \in Members(v.sets) /\ Effective(y, v.at)}
           f == [x \in X |-> <<x.geo, x.hash>>]
           S == {s \in Selected(v) : PathVals(s[1][2], v.at) # {}}
           h == [s \in S |-> <<s[1][2], s[2], Max(PathVals(s[1][2], v.at))>>]
<1>1. IsFiniteSet(X)
  BY FS_Subset DEF Finite
<1>2. {f[x] : x \in X} = Selected(v)
  BY DEF Selected
<1>3. {h[s] : s \in S} = GeoRows(v)
  BY DEF GeoRows
<1> HIDE DEF X, f, h
<1>4. IsFiniteSet(Selected(v))
  BY <1>1, <1>2, ImageFinite
<1>5. IsFiniteSet(S)
  BY <1>4, FS_Subset
<1> HIDE DEF S
<1> QED
  BY <1>3, <1>5, ImageFinite

LEMMA ExportingStep ==
  TypeOK /\ Named /\ Tables /\ Stored /\ Exporting /\ [Next]_vars => Exporting'
<1> SUFFICES ASSUME TypeOK, Named, Tables, Stored, Exporting, [Next]_vars,
                    NEW x, x = render', x # Null
             PROVE  /\ x.view \in views'
                    /\ x.pc # "started" =>
                         /\ IsFiniteSet(x.rows)
                         /\ {r[1] : r \in x.rows} \subseteq PathsOf({x.view.cur})'
  BY DEF Exporting, PathsOf, Members
<1>1. views \subseteq views'
  BY DEF Next, vars, tables, Tick, SetValues, PatchGeos, MapLocality, CreatePlan, CreateGraph,
     Written, StartView, ChooseSet, FindSets, Compare, Count, CommitView, DropView, StartRender,
     ExportGeos, ExportPoints, FinishRender, FailRender, Rendered, Created
<1>2. ASSUME NEW v \in views
      PROVE  PathsOf({v.cur})' = PathsOf({v.cur})
  <2>1. v.cur \in Ids
    BY DEF Stored, RightView, AtHome
  <2> QED
    BY <2>1, SetsKept DEF PathsOf
<1>3. render # Null => render \in Rendering
  BY DEF TypeOK
<1>4. CASE render' = render
  <2>1. /\ x.view \in views
        /\ x.pc # "started" => /\ IsFiniteSet(x.rows)
                               /\ {r[1] : r \in x.rows} \subseteq PathsOf({x.view.cur})
    BY <1>4 DEF Exporting
  <2> QED
    BY <1>1, <1>2, <2>1
<1>5. ASSUME NEW v \in views, StartRender(v)
      PROVE  x.view \in views' /\ x.pc = "started"
  BY <1>1, <1>5 DEF StartRender
<1>6. CASE ExportGeos
  <2>1. PICK v \in views : v = render.view
    BY <1>6 DEF ExportGeos, At, Exporting
  <2>2. x.view = v /\ x.rows = GeoRows(v)
    BY <1>3, <1>6, <2>1 DEF ExportGeos, At, Rendering
  <2>3. {r[1] : r \in GeoRows(v)} \subseteq PathsOf({v.cur})
    BY RowPaths DEF Stored, RightView, Agreed
  <2> QED
    BY <1>1, <1>2, <2>2, <2>3, GeoRowsFinite DEF Tables
<1>7. CASE ExportPoints
  <2>1. PICK v \in views : v = render.view
    BY <1>7 DEF ExportPoints, At, Exporting
  <2>2. x.view = v /\ x.rows = render.rows /\ render.pc # "started"
    BY <1>3, <1>7, <2>1 DEF ExportPoints, At, Rendering
  <2>3. IsFiniteSet(x.rows) /\ {r[1] : r \in x.rows} \subseteq PathsOf({v.cur})
    BY <1>7, <2>1, <2>2 DEF ExportPoints, At, Exporting
  <2> QED
    BY <1>1, <1>2, <2>2, <2>3
<1>8. ~ (FinishRender \/ FailRender)
  BY DEF FinishRender, FailRender
<1> QED
  BY <1>4, <1>5, <1>6, <1>7, <1>8
  DEF Next, vars, Tick, SetValues, PatchGeos, MapLocality, CreatePlan, CreateGraph, Written,
      StartView, ChooseSet, FindSets, Compare, Count, CommitView, DropView, Created

(* Rows of the paths of a set, as many as it has members and of one path     *)
(* each, are those of all its paths.                                         *)
LEMMA CountedWhole ==
  ASSUME TypeOK, NEW id, AtHome(id), NEW R, IsFiniteSet(R),
         {r[1] : r \in R} \subseteq PathsOf({id}),
         \A x, y \in R : x[1] = y[1] => x = y,
         Cardinality(R) = Cardinality(Members({id}))
  PROVE  {r[1] : r \in R} = {g[2] : g \in Members({id})}
<1> DEFINE M == Members({id})
           f == [r \in R |-> <<Home, r[1]>>]
<1>1. M \subseteq {Home} \X Paths /\ IsFiniteSet(M)
  BY MembersType DEF AtHome
<1>2. \A g \in M : g = <<Home, g[2]>>
  BY <1>1
<1>3. ASSUME NEW r \in R
      PROVE  <<Home, r[1]>> \in M
  <2>1. r[1] \in PathsOf({id})
    OBVIOUS
  <2>2. PICK g \in M : g[2] = r[1]
    BY <2>1 DEF PathsOf
  <2> QED
    BY <1>2, <2>2
<1>4. f \in [R -> M] /\ \A r \in R : f[r] = <<Home, r[1]>>
  BY <1>3
<1> HIDE DEF f, M
<1>5. f \in Injection(R, M)
  BY <1>4 DEF Injection, IsInjective
<1>6. f \in Surjection(R, M)
  BY <1>1, <1>5, FS_Injection DEF M
<1>7. ASSUME NEW g \in M
      PROVE  g[2] \in {r[1] : r \in R}
  <2>1. PICK r \in R : f[r] = g
    BY <1>6 DEF Surjection
  <2>2. g = <<Home, g[2]>> /\ g = <<Home, r[1]>>
    BY <1>2, <1>4, <2>1
  <2>3. g[2] = r[1]
    BY <2>2
  <2> QED
    BY <2>3
<1> QED
  BY <1>7 DEF M, PathsOf

LEMMA CachingStep ==
  TypeOK /\ Named /\ Tables /\ Stored /\ Exporting /\ Caching /\ [Next]_vars => Caching'
<1> SUFFICES ASSUME TypeOK, Named, Tables, Stored, Exporting, Caching, [Next]_vars
             PROVE  Caching'
  OBVIOUS
<1>1. ASSUME NEW v \in views
      PROVE  Members({v.cur})' = Members({v.cur})
  <2>1. v.cur \in Ids
    BY DEF Stored, RightView, AtHome
  <2> QED
    BY <2>1, SetsKept
<1>2. ASSUME NEW v \in views, v.path \in ViewPaths
      PROVE  cached[v.path] # Null =>
               /\ {x[1] : x \in cached[v.path]} = {g[2] : g \in Members({v.cur})'}
               /\ Cardinality(cached[v.path]) = Cardinality(Members({v.cur})')
  BY <1>1 DEF Caching, CachedWhole
<1>3. \A v \in views : v.path \in ViewPaths
  BY DEF TypeOK, View
<1>4. CASE UNCHANGED <<views, cached>>
  BY <1>2, <1>3, <1>4 DEF Caching, CachedWhole
<1>5. CASE CommitView
  <2>1. PICK n : /\ views' = views \cup {n} /\ cached' = cached
                 /\ n.path = create.path /\ \A v \in views : v.path # create.path
    BY <1>5 DEF CommitView, Created
  <2>2. create.path \in ViewPaths
    BY <1>5 DEF CommitView, Step, TypeOK, Creation
  <2>3. cached[n.path] = Null
    BY <2>1, <2>2 DEF Caching
  <2> QED
    BY <1>2, <1>3, <2>1, <2>3 DEF Caching, CachedWhole
<1>6. CASE FinishRender
  <2>1. render # Null /\ render.pc = "exported" /\ ChecksOut /\ views' = views
    BY <1>6 DEF FinishRender, At, Rendered
  <2>2. PICK v \in views : v = render.view
    BY <2>1 DEF Exporting
  <2>3. PICK R : R = render.rows
    OBVIOUS
  <2>4. /\ v.numGeos = Cardinality(R) /\ \A x, y \in R : x[1] = y[1] => x = y
    BY <2>1, <2>2, <2>3 DEF ChecksOut
  <2>5. IsFiniteSet(R) /\ {r[1] : r \in R} \subseteq PathsOf({v.cur})
    BY <2>1, <2>2, <2>3 DEF Exporting
  <2>6. AtHome(v.cur) /\ v.numGeos = Cardinality(Members({v.cur}))
    BY DEF Stored, RightView
  <2>7. /\ {r[1] : r \in R} = {g[2] : g \in Members({v.cur})}
        /\ Cardinality(R) = Cardinality(Members({v.cur}))
    BY <2>4, <2>5, <2>6, CountedWhole
  <2>8. CASE cached' = cached
    BY <1>4, <2>1, <2>8
  <2>9. CASE cached' = [cached EXCEPT ![v.path] = R]
    <3>1. /\ cached'[v.path] = R
          /\ \A p \in ViewPaths \ {v.path} : cached'[p] = cached[p]
      BY <1>3, <2>9 DEF TypeOK
    <3>2. ASSUME NEW u \in views
          PROVE  cached'[u.path] # Null =>
                   /\ {x[1] : x \in cached'[u.path]} = {g[2] : g \in Members({u.cur})'}
                   /\ Cardinality(cached'[u.path]) = Cardinality(Members({u.cur})')
      <4>1. CASE u.path = v.path
        <5>1. u = v
          BY <4>1 DEF Stored
        <5> QED
          BY <1>1, <2>7, <3>1, <5>1
      <4>2. CASE u.path # v.path
        BY <1>2, <1>3, <3>1, <4>2
      <4> QED
        BY <4>1, <4>2
    <3>3. \A p \in ViewPaths : cached'[p] # Null => \E u \in views : u.path = p
      BY <3>1 DEF Caching
    <3> QED
      BY <2>1, <3>2, <3>3 DEF Caching, CachedWhole
  <2> QED
    BY <1>6, <2>2, <2>3, <2>8, <2>9 DEF FinishRender
<1> QED
  BY <1>4, <1>5, <1>6
  DEF Next, vars, Tick, SetValues, PatchGeos, MapLocality, CreatePlan, CreateGraph, Written,
      StartView, ChooseSet, FindSets, Compare, Count, DropView, StartRender,
      ExportGeos, ExportPoints, FailRender, Rendered, Created

-----------------------------------------------------------------------------
(* Types. *)
LEMMA SelectedType ==
  ASSUME TypeOK, Finite, NEW v
  PROVE  /\ \A s \in Selected(v) : s[1] \in Geos /\ s[2] \in Hashes
         /\ IsFiniteSet(Selected(v))
<1> DEFINE X == {y \in versions : y.geo \in Members(v.sets) /\ Effective(y, v.at)}
           f == [x \in X |-> <<x.geo, x.hash>>]
<1>1. \A s \in Selected(v) : s[1] \in Geos /\ s[2] \in Hashes
  BY DEF Selected, TypeOK, Version
<1>2. IsFiniteSet(X)
  BY FS_Subset DEF Finite
<1>3. {f[x] : x \in X} = Selected(v)
  BY DEF Selected
<1> HIDE DEF X, f
<1> QED
  BY <1>1, <1>2, <1>3, ImageFinite

LEMMA PathValsType ==
  ASSUME TypeOK, Finite, NEW p, NEW t, PathVals(p, t) # {}
  PROVE  Max(PathVals(p, t)) \in Vals
<1> DEFINE X == {x \in values : x.geo[2] = p /\ Effective(x, t)}
           f == [r \in X |-> r.val]
<1>1. PathVals(p, t) \subseteq Vals /\ PathVals(p, t) \subseteq Nat
  BY HomeAssumption DEF PathVals, TypeOK, Value
<1>2. IsFiniteSet(X)
  BY FS_Subset DEF Finite
<1>3. {f[r] : r \in X} = PathVals(p, t)
  BY DEF PathVals
<1> HIDE DEF X, f
<1>4. IsFiniteSet(PathVals(p, t))
  BY <1>2, <1>3, ImageFinite
<1> QED
  BY <1>1, <1>4, MaxIn

LEMMA GeoRowsType ==
  ASSUME TypeOK, Finite, NEW v
  PROVE  GeoRows(v) \subseteq RenderedRow
<1> SUFFICES ASSUME NEW r \in GeoRows(v)
             PROVE  r \in RenderedRow
  OBVIOUS
<1>1. PICK s \in Selected(v) : /\ PathVals(s[1][2], v.at) # {}
                               /\ r = <<s[1][2], s[2], Max(PathVals(s[1][2], v.at))>>
  BY DEF GeoRows
<1>2. s[1][2] \in Paths /\ s[2] \in Hashes
  BY SelectedType DEF Geos
<1>3. Max(PathVals(s[1][2], v.at)) \in Vals
  BY <1>1, PathValsType
<1> QED
  BY <1>1, <1>2, <1>3 DEF RenderedRow

LEMMA PointsType ==
  ASSUME TypeOK, Finite, NEW v
  PROVE  Cardinality(PointRows(v)) \in Nat
<1> DEFINE f == [s \in Selected(v) |-> <<s[1][2], s[2]>>]
<1>1. {f[s] : s \in Selected(v)} = PointRows(v)
  BY DEF PointRows
<1> HIDE DEF f
<1>2. IsFiniteSet(PointRows(v))
  BY <1>1, SelectedType, ImageFinite
<1> QED
  BY <1>2, FS_CardinalityType

LEMMA TablesType ==
  ASSUME TypeOK, Named, [Next]_vars
  PROVE  /\ values' \subseteq Value /\ versions' \subseteq Version /\ sets' \subseteq SetVersion
         /\ plans' \subseteq [set : SetIds, created : Nat] /\ graphs' \subseteq Graph
<1>1. ASSUME NEW t \in 1 .. MaxTime, NEW b \in Batches, SetValues(t, b)
      PROVE  values' \subseteq Value
  <2>1. PICK C \in SUBSET Geos :
          /\ \A g \in C : b[g] \in Vals
          /\ values' = {Closing(r, C, t) : r \in values} \cup {NewValue(g, b, t) : g \in C}
    BY <1>1, ValuesWritten
  <2>2. \A r \in values : Closing(r, C, t) \in Value
    BY DEF TypeOK, Value, Closing, Ends
  <2>3. \A g \in C : NewValue(g, b, t) \in Value
    BY <2>1 DEF NewValue, Value, Ends
  <2> QED
    BY <2>1, <2>2, <2>3
<1>2. ASSUME NEW t \in 1 .. MaxTime, NEW b \in Patches, PatchGeos(t, b)
      PROVE  versions' \subseteq Version
  <2>1. PICK C \in SUBSET Geos :
          /\ \A g \in C : b[g] \in Hashes
          /\ versions' = {Closing(r, C, t) : r \in versions} \cup {NewVersion(g, b, t) : g \in C}
    BY <1>2, VersionsWritten
  <2>2. \A r \in versions : Closing(r, C, t) \in Version
    BY DEF TypeOK, Version, Closing, Ends
  <2>3. \A g \in C : NewVersion(g, b, t) \in Version
    BY <2>1 DEF NewVersion, Version, Ends
  <2> QED
    BY <2>1, <2>2, <2>3
<1>3. ASSUME NEW t \in 1 .. MaxTime, NEW b \in Remaps, NEW id \in SetIds, MapLocality(t, b, id)
      PROVE  sets' \subseteq SetVersion
  <2> DEFINE Kept(s) == IF s \in HomeSets(sets) /\ s.to = Null THEN [s EXCEPT !.to = t] ELSE s
             new == [id |-> id, members |-> b, from |-> t, to |-> Null]
  <2>1. sets' = {Kept(s) : s \in sets} \cup {new}
    BY <1>3 DEF MapLocality
  <2>2. b \subseteq Geos
    BY BodiesAssumption, HomeAssumption DEF Geos
  <2>3. \A s \in sets : Kept(s) \in SetVersion
    BY DEF TypeOK, SetVersion, Ends
  <2>4. new \in SetVersion
    BY <2>2 DEF SetVersion, Ends
  <2> HIDE DEF Kept, new
  <2> QED
    BY <2>1, <2>3, <2>4
<1>4. ASSUME NEW t \in 1 .. MaxTime, CreatePlan(t)
      PROVE  plans' \subseteq [set : SetIds, created : Nat]
  BY <1>4 DEF CreatePlan, HomeSets, TypeOK, SetVersion
<1>5. ASSUME NEW t \in 1 .. MaxTime, NEW edges \in EdgeLists, CreateGraph(t, edges)
      PROVE  graphs' \subseteq Graph
  BY <1>5 DEF CreateGraph, HomeSets, TypeOK, SetVersion, Graph
<1> QED
  BY <1>1, <1>2, <1>3, <1>4, <1>5, Writers DEF TypeOK

LEMMA TypeStep == TypeOK /\ Named /\ Tables /\ Creating /\ [Next]_vars => TypeOK'
<1> SUFFICES ASSUME TypeOK, Named, Tables, Creating, [Next]_vars
             PROVE  TypeOK'
  OBVIOUS
<1>1. clock' \in Nat
  <2>1. clock' = clock \/ clock' = clock + 1
    BY DEF Next, vars, Tick, SetValues, PatchGeos, MapLocality, CreatePlan, CreateGraph,
       Written, StartView, ChooseSet, FindSets, Compare, Count, CommitView, DropView,
       StartRender, ExportGeos, ExportPoints, FinishRender, FailRender, Rendered, Created
  <2> QED
    BY <2>1 DEF TypeOK
<1>2. create' \in Creation \cup {Null}
  BY NamedStep DEF Named
<1>3. views' \subseteq View
  <2>1. CASE views' = views
    BY <2>1 DEF TypeOK
  <2>2. CASE CommitView
    <3>1. create \in Creation /\ create.pc = "counted" /\ create.cur \in SetIds
      BY <2>2 DEF CommitView, Step, TypeOK, Named
    <3>2. NumGeos \in Nat
      BY MembersType, FS_CardinalityType DEF NumGeos
    <3> QED
      BY <2>2, <3>1, <3>2 DEF CommitView, TypeOK, Creation, View
  <2> QED
    BY <2>1, <2>2 DEF Next, vars, Tick, SetValues, PatchGeos, MapLocality, CreatePlan,
       CreateGraph, Written, StartView, ChooseSet, FindSets, Compare, Count, DropView,
       StartRender, ExportGeos, ExportPoints, FinishRender, FailRender, Rendered
<1>4. cached' \in [ViewPaths -> (SUBSET RenderedRow) \cup {Null}]
  <2>1. CASE cached' = cached
    BY <2>1 DEF TypeOK
  <2>2. CASE FinishRender
    <3>1. render \in Rendering
      BY <2>2 DEF FinishRender, At, TypeOK
    <3>2. render.view.path \in ViewPaths /\ render.rows \in SUBSET RenderedRow
      BY <3>1 DEF Rendering, View
    <3> QED
      BY <2>2, <3>2 DEF FinishRender, TypeOK
  <2> QED
    BY <2>1, <2>2 DEF Next, vars, Tick, SetValues, PatchGeos, MapLocality, CreatePlan,
       CreateGraph, Written, StartView, ChooseSet, FindSets, Compare, Count, CommitView,
       DropView, StartRender, ExportGeos, ExportPoints, FailRender, Created
<1>5. render' \in Rendering \cup {Null}
  <2>1. render # Null => render \in Rendering
    BY DEF TypeOK
  <2>2. ASSUME NEW v \in views, StartRender(v)
        PROVE  render' \in Rendering
    <3>1. PlanPathsUnique(v) \in BOOLEAN /\ v \in View
      BY DEF PlanPathsUnique, TypeOK
    <3> QED
      BY <2>2, <3>1 DEF StartRender, Rendering
  <2>3. CASE ExportGeos
    <3>1. GeoRows(render.view) \in SUBSET RenderedRow
      BY GeoRowsType DEF Tables
    <3> QED
      BY <2>1, <2>3, <3>1 DEF ExportGeos, At, Rendering
  <2>4. CASE ExportPoints
    <3>1. Cardinality(PointRows(render.view)) \in Nat
      BY PointsType DEF Tables
    <3> QED
      BY <2>1, <2>4, <3>1 DEF ExportPoints, At, Rendering
  <2>5. CASE render' \in {render, Null}
    BY <2>5 DEF TypeOK
  <2> QED
    BY <2>2, <2>3, <2>4, <2>5 DEF Next, vars, Tick, SetValues, PatchGeos, MapLocality,
       CreatePlan, CreateGraph, Written, StartView, ChooseSet, FindSets, Compare, Count,
       CommitView, DropView, FinishRender, FailRender, Created
<1> QED
  BY <1>1, <1>2, <1>3, <1>4, <1>5, TablesType DEF TypeOK

-----------------------------------------------------------------------------
LEMMA InitTables == Init => Named /\ Tables
<1> SUFFICES ASSUME Init
             PROVE  Named /\ Tables
  OBVIOUS
<1>1. PICK number \in [Namespaces -> SetIds] :
        /\ \A m, n \in Namespaces : number[m] = number[n] => m = n
        /\ sets = {SetOf(n, number[n]) : n \in Namespaces}
  BY DEF Init
<1>2. \A n \in Namespaces : /\ SetOf(n, number[n]).id = number[n]
                            /\ SetOf(n, number[n]).members = {n} \X Paths
  BY DEF SetOf
<1>3. Named
  BY <1>1, <1>2 DEF Init, Named, Ids
<1>4. Layered
  BY <1>1, <1>2 DEF Layered
<1>5. versions = [geo : Geos, hash : {FirstHash}, from : {0}, to : {Null}] /\ values = {}
  BY DEF Init
<1>6. Finite
  <2> DEFINE f == [g \in Geos |-> [geo |-> g, hash |-> FirstHash, from |-> 0, to |-> Null]]
  <2>1. \A g \in Geos : f[g] \in versions
    BY <1>5
  <2>2. ASSUME NEW x \in versions
        PROVE  x \in {f[g] : g \in Geos}
    <3>1. x.geo \in Geos /\ x = [geo |-> x.geo, hash |-> FirstHash, from |-> 0, to |-> Null]
      BY <1>5
    <3>2. x = f[x.geo]
      BY <3>1
    <3> QED
      BY <3>1, <3>2
  <2> HIDE DEF f
  <2>3. versions = {f[g] : g \in Geos}
    BY <2>1, <2>2
  <2>4. IsFiniteSet(versions)
    BY <2>3, GeosFinite, ImageFinite
  <2> QED
    BY <1>5, <2>4, FS_EmptySet DEF Finite
<1>7. Covered
  <2> SUFFICES ASSUME NEW g \in Geos, NEW t \in Nat
               PROVE  \E x \in versions : x.geo = g /\ Effective(x, t)
    BY DEF Covered
  <2> DEFINE x == [geo |-> g, hash |-> FirstHash, from |-> 0, to |-> Null]
  <2>1. x \in versions /\ x.geo = g /\ Effective(x, t)
    BY <1>5 DEF Effective
  <2> QED
    BY <2>1
<1>8. Keyed /\ Linked
  BY <1>5 DEF Init, Keyed, Linked
<1> QED
  BY <1>3, <1>4, <1>6, <1>7, <1>8 DEF Tables

LEMMA InitType == Init => TypeOK
<1> SUFFICES ASSUME Init
             PROVE  TypeOK
  OBVIOUS
<1>1. versions \subseteq Version
  BY HomeAssumption DEF Init, Version, Ends
<1>2. sets \subseteq SetVersion
  <2>1. PICK number \in [Namespaces -> SetIds] : sets = {SetOf(n, number[n]) : n \in Namespaces}
    BY DEF Init
  <2>2. \A n \in Namespaces : SetOf(n, number[n]) \in SetVersion
    BY DEF SetOf, SetVersion, Geos, Ends
  <2> QED
    BY <2>1, <2>2
<1> QED
  BY <1>1, <1>2 DEF Init, TypeOK

(* The tables are as the views need them, what a creation has found still     *)
(* holds, and so does what was found of every view, in every reachable state. *)
THEOREM Invariance == Spec => []Inv
<1>1. Init => Inv
  <2>1. Init => Creating /\ Stored /\ Exporting /\ Caching
    BY DEF Init, Creating, Stored, Exporting, Caching, CachedWhole
  <2> QED
    BY <2>1, InitTables, InitType DEF Inv
<1>2. Inv /\ [Next]_vars => Inv'
  <2> SUFFICES ASSUME Inv, [Next]_vars
               PROVE  Inv'
    OBVIOUS
  <2>1. Tables'
    BY FiniteStep, LayeredStep, CoveredStep, KeyedStep, LinkedStep DEF Inv, Tables
  <2> QED
    BY <2>1, TypeStep, NamedStep, CreatingStep, StoredStep, ExportingStep, CachingStep DEF Inv
<1> QED
  BY <1>1, <1>2, PTL DEF Spec

(* The types of all the state: among them, that a render takes the greatest   *)
(* of at least one value and counts finitely many rows.                       *)
THEOREM TypeCorrect == Spec => []TypeOK
<1>1. Inv => TypeOK
  BY DEF Inv
<1> QED
  BY <1>1, Invariance, PTL

(* Of a set with one element at most, any two are equal. *)
LEMMA AtMostOne ==
  ASSUME NEW S, IsFiniteSet(S), Cardinality(S) <= 1
  PROVE  \A x, y \in S : x = y
<1> SUFFICES ASSUME NEW x \in S, NEW y \in S, x # y
             PROVE  FALSE
  OBVIOUS
<1>1. IsFiniteSet({x}) /\ Cardinality({x}) = 1
  BY FS_Singleton
<1>2. IsFiniteSet({x} \cup {y}) /\ Cardinality({x} \cup {y}) = Cardinality({x}) + 1
  BY <1>1, FS_AddElement
<1>3. Cardinality({x} \cup {y}) <= Cardinality(S) /\ Cardinality(S) \in Nat
  BY FS_Subset, FS_CardinalityType
<1> QED
  BY <1>1, <1>2, <1>3

(* The rows of a view of one set are one for each geography: it has a version *)
(* at the instant, the counts say that it has a value, and one of each is     *)
(* assumed.                                                                   *)
LEMMA ChecksumHolds ==
  ASSUME Inv, NEW v \in views, v.sets = {v.cur}, OneEach(v)
  PROVE  Cardinality(GeoRows(v)) = v.numGeos
<1> USE DEF Inv, Tables
<1> DEFINE M == Members({v.cur})
           R == GeoRows(v)
           f == [r \in R |-> <<Home, r[1]>>]
<1>1. RightView(v) /\ v.at \in Nat
  BY DEF Stored, Named
<1>2. M \subseteq {Home} \X Paths /\ M \subseteq Geos /\ IsFiniteSet(M)
  BY <1>1, MembersType DEF RightView, AtHome
<1>3. ASSUME NEW g \in M
      PROVE  /\ \A x, y \in {u \in versions : u.geo = g /\ Effective(u, v.at)} : x = y
             /\ \A x, y \in EffectiveValues(g, v.at) : x = y
  <2> DEFINE S == {x \in versions : x.geo = g /\ Effective(x, v.at)}
  <2>1. IsFiniteSet(S) /\ Cardinality(S) <= 1
    BY FS_Subset DEF OneEach, Finite
  <2>2. \A x, y \in S : x = y
    BY <2>1, AtMostOne
  <2>3. Cardinality(EffectiveValues(g, v.at)) <= 1
    BY DEF OneEach
  <2>4. EffectiveValues(g, v.at) \subseteq values
    BY DEF EffectiveValues
  <2>5. IsFiniteSet(EffectiveValues(g, v.at))
    BY <2>4, FS_Subset DEF Finite
  <2>6. \A x, y \in EffectiveValues(g, v.at) : x = y
    BY <2>3, <2>5, AtMostOne
  <2> QED
    BY <2>2, <2>6
<1>4. \A g \in M : EffectiveValues(g, v.at) # {}
  BY <1>1, <1>3 DEF RightView, Valued, Single
<1>5. ASSUME NEW r \in R
      PROVE  \E x \in versions :
               /\ x.geo \in M /\ Effective(x, v.at) /\ x.geo = <<Home, r[1]>>
               /\ r = <<x.geo[2], x.hash, Max(PathVals(x.geo[2], v.at))>>
  <2>1. PICK s \in Selected(v) : r = <<s[1][2], s[2], Max(PathVals(s[1][2], v.at))>>
    BY DEF GeoRows
  <2>2. PICK x \in versions : x.geo \in M /\ Effective(x, v.at) /\ s = <<x.geo, x.hash>>
    BY DEF Selected
  <2>3. r = <<x.geo[2], x.hash, Max(PathVals(x.geo[2], v.at))>>
    BY <2>1, <2>2
  <2>4. r[1] = x.geo[2] /\ x.geo = <<Home, x.geo[2]>>
    BY <1>2, <2>2, <2>3
  <2> QED
    BY <2>2, <2>3, <2>4
<1>6. ASSUME NEW g \in M
      PROVE  \E r \in R : <<Home, r[1]>> = g
  <2>1. g \in Geos /\ g = <<Home, g[2]>>
    BY <1>2
  <2>2. PICK x \in versions : x.geo = g /\ Effective(x, v.at)
    BY <1>1, <2>1 DEF Covered
  <2>3. PICK a \in EffectiveValues(g, v.at) : TRUE
    BY <1>4
  <2>4. a.val \in PathVals(g[2], v.at)
    BY DEF EffectiveValues, PathVals
  <2>5. <<g, x.hash>> \in Selected(v)
    BY <2>2 DEF Selected
  <2> DEFINE s == <<g, x.hash>>
             r == <<s[1][2], s[2], Max(PathVals(s[1][2], v.at))>>
  <2>6. s \in {u \in Selected(v) : PathVals(u[1][2], v.at) # {}}
    BY <2>4, <2>5
  <2>7. r \in R
    BY <2>6 DEF GeoRows
  <2>8. r[1] = g[2]
    OBVIOUS
  <2> QED
    BY <2>1, <2>7, <2>8
<1>7. f \in [R -> M] /\ \A r \in R : f[r] = <<Home, r[1]>>
  BY <1>5
<1> HIDE DEF f, M, R
<1>8. ASSUME NEW r \in R, NEW s \in R, f[r] = f[s]
      PROVE  r = s
  <2>1. PICK x \in versions :
          /\ x.geo \in M /\ Effective(x, v.at) /\ x.geo = <<Home, r[1]>>
          /\ r = <<x.geo[2], x.hash, Max(PathVals(x.geo[2], v.at))>>
    BY <1>5
  <2>2. PICK y \in versions :
          /\ y.geo \in M /\ Effective(y, v.at) /\ y.geo = <<Home, s[1]>>
          /\ s = <<y.geo[2], y.hash, Max(PathVals(y.geo[2], v.at))>>
    BY <1>5
  <2>3. x.geo = y.geo
    BY <1>7, <1>8, <2>1, <2>2
  <2>4. x = y
    BY <1>3, <2>1, <2>2, <2>3
  <2> QED
    BY <2>1, <2>2, <2>4
<1>9. f \in Injection(R, M)
  BY <1>7, <1>8 DEF Injection, IsInjective
<1>10. f \in Surjection(R, M)
  BY <1>6, <1>7 DEF Surjection
<1>11. Cardinality(R) = Cardinality(M)
  BY <1>2, <1>9, <1>10, FS_Injection
<1> QED
  BY <1>1, <1>11 DEF RightView, R, M

(* The number stored with a view is the number of its rows, at any time after *)
(* its creation and on the condition above (create of crud/view.py).          *)
THEOREM ChecksumRight == Spec => []Checksum
<1>1. Inv => Checksum
  BY ChecksumHolds DEF Checksum
<1> QED
  BY <1>1, Invariance, PTL

(* Whatever is cached of a view has one row for each geography of its set,    *)
(* and no other, whatever was committed between the statements of its         *)
(* creation and those of the render (ogr2ogr and the checks of render.py).    *)
THEOREM CachedIsWhole == Spec => []CachedWhole
<1>1. Inv => CachedWhole
  BY DEF Inv, Caching
<1> QED
  BY <1>1, Invariance, PTL

(* Both ends of an edge of a view's graph have a row in what is cached of the *)
(* view (the edges are copied into the file without a check).                 *)
THEOREM EdgesAreRendered == Spec => []EdgesRendered
<1>1. ASSUME Inv, NEW v \in views, cached[v.path] # Null, v.graph # Null,
             NEW e \in v.graph.edges
      PROVE  {e[1][2], e[2][2]} \subseteq {x[1] : x \in cached[v.path]}
  <2>1. {x[1] : x \in cached[v.path]} = {g[2] : g \in Members({v.cur})}
    BY <1>1 DEF Inv, Caching, CachedWhole
  <2>2. v.graph \in graphs /\ v.graph.set = v.cur
    BY <1>1 DEF Inv, Stored, RightView
  <2>3. {e[1], e[2]} \subseteq Members({v.cur})
    BY <1>1, <2>2 DEF Inv, Tables, Linked
  <2> QED
    BY <2>1, <2>3
<1>2. Inv => EdgesRendered
  BY <1>1 DEF EdgesRendered
<1> QED
  BY <1>2, Invariance, PTL
==============================================================================
