-------------------------------- MODULE Fork --------------------------------
(***************************************************************************)
(* Forking a layer of one namespace into a layer of another in a locality  *)
(* (api/geography/fork_geos.py, list_geos.py, crud/geography.py fork_bulk): *)
(* the listings of both layers are compared, and what only the source has  *)
(* is created in the target, by several forks at the same time under READ  *)
(* COMMITTED.  Other requests create, patch and map geographies: each is    *)
(* one step here, whose instant may be an earlier one (GeoVersions and      *)
(* GeoSets model them statement by statement).  Every namespace has one     *)
(* layer; both layers, the locality and the client's scopes are given.      *)
(***************************************************************************)
EXTENDS Naturals, FiniteSets

CONSTANTS Workers,
          Namespaces,
          Public,      \* the public namespaces
          Paths,       \* normalized paths of geographies
          Hashes,      \* hashes of their geometries
          EmptyHash,   \* that of the empty polygon
          Null,        \* SQL NULL in valid_to
          Requests,    \* the forks that clients ask for
          MaxTime,     \* bound on the clock
          MaxSkew,     \* bound on the age of a write's instant when it commits
          MaxWrites    \* bound on the number of requests that are not forks

Request == [source : Namespaces, target : Namespaces, extra : BOOLEAN, empty : BOOLEAN]

ASSUME PublicAssumption == Public \subseteq Namespaces
ASSUME RequestsAssumption == Requests \subseteq Request
ASSUME NullAssumption == Null \notin Nat
ASSUME BoundsAssumption == MaxTime \in Nat \ {0} /\ MaxSkew \in Nat /\ MaxWrites \in Nat

VARIABLES clock,
          versions,  \* committed rows of geo_version, with the geography's key
          members,   \* geographies in any version of the geo set of each layer
          writes,    \* how many requests other than forks have succeeded
          req        \* what each worker's fork has done so far

vars == <<clock, versions, members, writes, req>>

Geography == Namespaces \X Paths
Version == [geo : Geography, hash : Hashes, from : Nat, to : Nat \cup {Null}]
Pair == Paths \X Hashes

(* at: valid_at of both listings, then valid_from of the new versions. *)
NoRequest == [op |-> "none"]
Idle == [pc |-> "idle", body |-> NoRequest, at |-> 0, source |-> {}, target |-> {}]
Transaction == [pc : {"idle", "started", "sourced", "checked", "imported", "inserted"},
                body : Requests \cup {NoRequest}, at : Nat,
                source : SUBSET Pair, target : SUBSET Pair]

TypeOK ==
  /\ clock \in 1 .. MaxTime
  /\ versions \subseteq Version
  /\ members \in [Namespaces -> SUBSET Geography]
  /\ \A n \in Namespaces : members[n] \subseteq {v.geo : v \in versions}
  /\ writes \in 0 .. MaxWrites
  /\ req \in [Workers -> Transaction]

Init ==
  /\ clock = 1
  /\ versions = {}
  /\ members = [n \in Namespaces |-> {}]
  /\ writes = 0
  /\ req = [w \in Workers |-> Idle]

-----------------------------------------------------------------------------
Geos == {v.geo : v \in versions}
Open(g) == {v \in versions : v.geo = g /\ v.to = Null}

(* _get_path_hash_pairs: members of all versions of the layer's set, and an  *)
(* interval that includes its end.                                           *)
ValidAt(v, t) == v.from <= t /\ (v.to = Null \/ v.to >= t)
Listing(n, t) ==
  {<<v.geo[2], v.hash>> : v \in {u \in versions : u.geo \in members[n] /\ ValidAt(u, t)}}

Source(w) == req[w].body.source
Target(w) == req[w].body.target
Diff(w) == req[w].source \ req[w].target
DiffPaths(w) == {d[1] : d \in Diff(w)}
DiffGeos(w) == {Target(w)} \X DiffPaths(w)

(* Fault: what only the target has is not compared. *)
ForkableWithExtraTarget(w) ==
  /\ req[w].source # {}
  /\ req[w].body.empty \/ \A s \in req[w].source : s[2] # EmptyHash
  /\ req[w].body.extra \/ req[w].source \subseteq req[w].target

(* __validate_forkability *)
Forkable(w) ==
  /\ req[w].source # {}
  /\ req[w].body.empty \/ \A s \in req[w].source : s[2] # EmptyHash
  /\ req[w].target \subseteq req[w].source
  /\ req[w].body.extra \/ req[w].source \subseteq req[w].target

(* Fault: a path of the difference may occur twice. *)
CreatableTwice(w) == Diff(w) # {} /\ DiffGeos(w) \cap Geos = {}

(* __validate_create_geos, and an INSERT without rows, which is refused.     *)
Creatable(w) ==
  /\ Diff(w) # {}
  /\ Cardinality(DiffPaths(w)) = Cardinality(Diff(w))
  /\ DiffGeos(w) \cap Geos = {}

(* Fault: only one path of the difference is created. *)
ChosenFirst(w) == {[p \in {d[1]} |-> d[2]] : d \in Diff(w)}

(* path_hash_dict: one hash for each path. *)
Chosen(w) == {f \in [DiffPaths(w) -> Hashes] : \A p \in DiffPaths(w) : <<p, f[p]>> \in Diff(w)}

(* map_locality does nothing if the members of all sets are the new ones.    *)
Mapped(n, S) ==
  IF S = UNION {members[m] : m \in Namespaces} THEN members
  ELSE [members EXCEPT ![n] = @ \cup S]

(* The tags of geo_import and geography of a namespace are locked by forks.  *)
ImportTagLocked(n) ==
  \E v \in Workers : req[v].pc \in {"imported", "inserted"} /\ Target(v) = n
GeographyTagLocked(n) == \E v \in Workers : req[v].pc = "inserted" /\ Target(v) = n

-----------------------------------------------------------------------------
Tick ==
  /\ clock < MaxTime
  /\ clock' = clock + 1
  /\ UNCHANGED <<versions, members, writes, req>>

(* The instants at which a request that commits now may have read the clock. *)
Instants == {t \in 1 .. clock : clock - t <= MaxSkew}
New(g, h, t) == [geo |-> g, hash |-> h, from |-> t, to |-> Null]

CreateGeo(n, p, h, t) ==
  /\ writes < MaxWrites
  /\ <<n, p>> \notin Geos /\ ~ GeographyTagLocked(n)
  /\ versions' = versions \cup {New(<<n, p>>, h, t)}
  /\ writes' = writes + 1
  /\ UNCHANGED <<clock, members, req>>

PatchGeo(g, h, t) ==
  /\ writes < MaxWrites
  /\ g \in Geos /\ ~ GeographyTagLocked(g[1])
  /\ \A v \in Open(g) : v.hash # h
  /\ versions' = {IF v \in Open(g) THEN [v EXCEPT !.to = t] ELSE v : v \in versions}
                   \cup {New(g, h, t)}
  /\ writes' = writes + 1
  /\ UNCHANGED <<clock, members, req>>

MapGeos(n, S) ==
  /\ writes < MaxWrites
  /\ Cardinality({g[1] : g \in S}) = 1
  /\ members' = Mapped(n, S)
  /\ writes' = writes + 1
  /\ UNCHANGED <<clock, versions, req>>

-----------------------------------------------------------------------------
(* The namespaces are read and written by the user; the source is public.    *)
Start(w, q) ==
  /\ req[w].pc = "idle"
  /\ q.source \in Public
  /\ req' = [req EXCEPT ![w] = [Idle EXCEPT !.pc = "started", !.body = q, !.at = clock]]
  /\ UNCHANGED <<clock, versions, members, writes>>

ReadSource(w) ==
  /\ req[w].pc = "started"
  /\ req' = [req EXCEPT ![w].pc = "sourced", ![w].source = Listing(Source(w), req[w].at)]
  /\ UNCHANGED <<clock, versions, members, writes>>

ReadTarget(w) ==
  /\ req[w].pc = "sourced"
  /\ req' = [req EXCEPT ![w].pc = "checked", ![w].target = Listing(Target(w), req[w].at)]
  /\ UNCHANGED <<clock, versions, members, writes>>

(* geo_import.create: the upsert of its tag waits for other forks' commits.   *)
Import(w) ==
  /\ req[w].pc = "checked"
  /\ Forkable(w)
  /\ ~ ImportTagLocked(Target(w))
  /\ req' = [req EXCEPT ![w].pc = "imported"]
  /\ UNCHANGED <<clock, versions, members, writes>>

(* fork_bulk *)
InsertForked(w) ==
  /\ req[w].pc = "imported"
  /\ Creatable(w)
  /\ req' = [req EXCEPT ![w].pc = "inserted", ![w].at = clock]
  /\ UNCHANGED <<clock, versions, members, writes>>

(* map_locality and the commit.                                              *)
Commit(w) ==
  /\ req[w].pc = "inserted"
  /\ \E f \in Chosen(w) :
       versions' = versions \cup {New(<<Target(w), p>>, f[p], req[w].at) : p \in DOMAIN f}
  /\ members' = Mapped(Target(w), DiffGeos(w))
  /\ req' = [req EXCEPT ![w] = Idle]
  /\ UNCHANGED <<clock, writes>>

(* 403 and 409 of the check, 422 of the creation.                            *)
Fail(w) ==
  /\ \/ req[w].pc = "checked" /\ ~ Forkable(w)
     \/ req[w].pc = "imported" /\ ~ Creatable(w)
  /\ req' = [req EXCEPT ![w] = Idle]
  /\ UNCHANGED <<clock, versions, members, writes>>

(* A crash, a lost connection or an error of a statement. *)
Abort(w) ==
  /\ req[w].pc # "idle"
  /\ req' = [req EXCEPT ![w] = Idle]
  /\ UNCHANGED <<clock, versions, members, writes>>

Next ==
  \/ Tick
  \/ \E t \in Instants, h \in Hashes :
       \/ \E n \in Namespaces, p \in Paths : CreateGeo(n, p, h, t)
       \/ \E g \in Geos : PatchGeo(g, h, t)
  \/ \E n \in Namespaces, S \in SUBSET Geos : MapGeos(n, S)
  \/ \E w \in Workers : \/ \E q \in Requests : Start(w, q)
                        \/ ReadSource(w)
                        \/ ReadTarget(w)
                        \/ Import(w)
                        \/ InsertForked(w)
                        \/ Commit(w)
                        \/ Fail(w)
                        \/ Abort(w)

Spec == Init /\ [][Next]_vars

-----------------------------------------------------------------------------
(* The fork of w commits in this step. *)
Commits(w) == req[w].pc = "inserted" /\ versions' # versions /\ req'[w].pc = "idle"

(* What a fork adds is what its difference said, pair by pair: each path of   *)
(* the target namespace has the hash that the source listed and no other,     *)
(* whatever was created since the listings (fork_geos.py: "We are now         *)
(* guaranteed that the missing paths do not have a conflicting geography").   *)
ForkedAsListed ==
  [][\A w \in Workers : Commits(w) =>
       Diff(w) = {<<v.geo[2], v.hash>> :
                    v \in {u \in versions' : u.geo \in DiffGeos(w)}}]_vars

(* A fork leaves two equal listings: if neither layer's listing has changed  *)
(* since the fork read it, the target lists afterwards what the source does. *)
Unmoved(w) ==
  /\ req[w].source = Listing(Source(w), clock)
  /\ req[w].target = Listing(Target(w), clock)
ForkSyncs ==
  [][\A w \in Workers : Commits(w) /\ Unmoved(w)
       => \A q \in Requests : q = req[w].body
            => Listing(q.target, clock)' = Listing(q.source, clock)']_vars
=============================================================================
