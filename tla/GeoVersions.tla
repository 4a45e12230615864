----------------------------- MODULE GeoVersions -----------------------------
(***************************************************************************)
(* The geographies of one namespace, their versions and the shared         *)
(* geometry bins (crud/geography.py, create_bulk and patch_bulk), written  *)
(* by concurrent requests under READ COMMITTED.  One action per statement  *)
(* whose effect or answer another transaction can change.  A geometry is   *)
(* its hash; a path is taken in its normalized form.                       *)
(***************************************************************************)
EXTENDS Naturals, FiniteSets

CONSTANTS Workers,
          Paths,       \* normalized geography paths of the namespace
          Hashes,      \* geometry hashes
          EmptyHash,   \* the hash of the empty polygon, also that of no geometry
          Imports,     \* GeoImports the clients name in their requests
          Null,        \* SQL NULL in valid_to
          Requests,    \* the request bodies clients send
          MaxTime      \* bound on the clock

Objects == UNION {[S -> Hashes] : S \in SUBSET Paths}
Body == [op : {"create", "patch"}, objs : Objects, imp : Imports, allowEmpty : BOOLEAN]

ASSUME NullAssumption == Null \notin Nat
ASSUME HashAssumption == EmptyHash \in Hashes
ASSUME RequestsAssumption == Requests \subseteq Body
ASSUME MaxTimeAssumption == MaxTime \in Nat

VARIABLES clock,
          geos,      \* committed rows of geography
          bins,      \* committed rows of geo_bin
          versions,  \* committed rows of geo_version
          req        \* what each worker's transaction has done so far

vars == <<clock, geos, bins, versions, req>>

Version == [imp : Imports, geo : Paths, hash : Hashes, from : Nat, to : Nat \cup {Null}]
Key(v) == <<v.imp, v.geo>>

(* write: the paths of path_hash_dict; targets: the keys of the versions an  *)
(* UPDATE found open, then of those it closed; missing: missing_hashes.      *)
NoRequest == [op |-> "none"]
Transaction ==
  [pc : {"idle", "started", "checked", "diffed", "timed", "updating", "written", "binning",
         "binned", "versioned"},
   body : Requests \cup {NoRequest}, now : Nat, write : SUBSET Paths,
   targets : SUBSET (Imports \X Paths), missing : SUBSET Hashes]
Idle == [pc |-> "idle", body |-> NoRequest, now |-> 0, write |-> {},
         targets |-> {}, missing |-> {}]

TypeOK ==
  /\ clock \in Nat
  /\ geos \subseteq Paths
  /\ bins \subseteq Hashes
  /\ versions \subseteq Version
  /\ req \in [Workers -> Transaction]

Init ==
  /\ clock = 1
  /\ geos = {}
  /\ bins = {}
  /\ versions = {}
  /\ req = [w \in Workers |-> Idle]

-----------------------------------------------------------------------------
IsCreate(w) == req[w].body.op = "create"
Objs(w) == req[w].body.objs
Open(S) == {v \in versions : v.geo \in S /\ v.to = Null}

(* The rows a transaction in flight has inserted and the locks it holds.     *)
Past(w, pcs) == req[w].pc \in pcs
InsertedGeos(w) ==
  IF IsCreate(w) /\ Past(w, {"written", "binning", "binned", "versioned"})
  THEN req[w].write ELSE {}
InsertedBins(w) == IF Past(w, {"binned", "versioned"}) THEN req[w].missing ELSE {}
NewKeys(w) == {req[w].body.imp} \X req[w].write
Locked(w) ==
  IF Past(w, {"written", "binning", "binned", "versioned"}) THEN req[w].targets ELSE {}

GeosTaken(w) == \E v \in Workers \ {w} : req[w].write \cap InsertedGeos(v) # {}
BinsTaken(w) == \E v \in Workers \ {w} : req[w].missing \cap InsertedBins(v) # {}
KeysTaken(w) ==
  \E v \in Workers \ {w} : Past(v, {"versioned"}) /\ NewKeys(w) \cap NewKeys(v) # {}
LockedByOther(w) == \E v \in Workers \ {w} : req[w].targets \cap Locked(v) # {}

(* __get_path_hashes_to_patch *)
OldPairs(w) == {<<v.geo, v.hash>> : v \in Open(DOMAIN Objs(w))}
DiffPairs(w) == {<<p, Objs(w)[p]>> : p \in DOMAIN Objs(w)} \ OldPairs(w)
DiffAllowed(w) ==
  /\ {o[1] : o \in OldPairs(w)} = DOMAIN Objs(w)
  /\ req[w].body.allowEmpty \/ \A d \in DiffPairs(w) : d[2] # EmptyHash

Goto(w, pc) == req' = [req EXCEPT ![w].pc = pc]

-----------------------------------------------------------------------------
Tick ==
  /\ clock < MaxTime
  /\ clock' = clock + 1
  /\ UNCHANGED <<geos, bins, versions, req>>

Start(w, q) ==
  /\ req[w].pc = "idle"
  /\ req' = [req EXCEPT ![w] = [Idle EXCEPT !.pc = "started", !.body = q]]
  /\ UNCHANGED <<clock, geos, bins, versions>>

(* The SELECT of the existing geographies, and valid_from of a creation.     *)
Valid(w) == IF IsCreate(w) THEN DOMAIN Objs(w) \cap geos = {} ELSE DOMAIN Objs(w) \subseteq geos
Check(w) ==
  /\ req[w].pc = "started"
  /\ Valid(w)
  /\ req' = [req EXCEPT ![w].pc = "checked",
                        ![w].now = IF IsCreate(w) THEN clock ELSE 0,
                        ![w].write = IF IsCreate(w) THEN DOMAIN Objs(w) ELSE {}]
  /\ UNCHANGED <<clock, geos, bins, versions>>

(* A creation's INSERT INTO geography: unique (path, namespace).             *)
InsertGeos(w) ==
  /\ req[w].pc = "checked" /\ IsCreate(w)
  /\ ~ GeosTaken(w)
  /\ req[w].write \cap geos = {}
  /\ Goto(w, "written")
  /\ UNCHANGED <<clock, geos, bins, versions>>

(* A patch's SELECT of the current hashes: only changed geometries are written. *)
Diff(w) ==
  /\ req[w].pc = "checked" /\ ~ IsCreate(w)
  /\ DiffAllowed(w)
  /\ req' = [req EXCEPT ![w].pc = IF DiffPairs(w) = {} THEN "versioned" ELSE "diffed",
                        ![w].write = {d[1] : d \in DiffPairs(w)}]
  /\ UNCHANGED <<clock, geos, bins, versions>>

(* valid_time, on the clock of the worker. *)
TakeTime(w) ==
  /\ req[w].pc = "diffed"
  /\ req' = [req EXCEPT ![w].pc = "timed", ![w].now = clock]
  /\ UNCHANGED <<clock, geos, bins, versions>>

(* Fault: the UPDATE closes the versions of every geography of the request. *)
StartUpdateOfBatch(w) ==
  /\ req[w].pc = "timed"
  /\ req' = [req EXCEPT ![w].pc = "updating",
                        ![w].targets = {Key(v) : v \in Open(DOMAIN Objs(w))}]
  /\ UNCHANGED <<clock, geos, bins, versions>>

(* A patch's UPDATE starts with the versions it finds open...                *)
StartUpdate(w) ==
  /\ req[w].pc = "timed"
  /\ req' = [req EXCEPT ![w].pc = "updating",
                        ![w].targets = {Key(v) : v \in Open(req[w].write)}]
  /\ UNCHANGED <<clock, geos, bins, versions>>

(* Fault: the UPDATE selects by key alone what it found open before it waited. *)
FinishUpdateByKey(w) ==
  /\ req[w].pc = "updating"
  /\ ~ LockedByOther(w)
  /\ Goto(w, "written")
  /\ UNCHANGED <<clock, geos, bins, versions>>

(* ...and, once it has their locks, skips those closed in the meantime.        *)
FinishUpdate(w) ==
  /\ req[w].pc = "updating"
  /\ ~ LockedByOther(w)
  /\ req' = [req EXCEPT ![w].pc = "written",
               ![w].targets = @ \cap {Key(v) : v \in Open(Paths)}]
  /\ UNCHANGED <<clock, geos, bins, versions>>

(* Fault: a bin another request is inserting counts as stored. *)
ReadBinsUncommitted(w) ==
  LET missing == {Objs(w)[p] : p \in req[w].write}
                   \ (bins \cup UNION {InsertedBins(v) : v \in Workers \ {w}})
  IN /\ req[w].pc = "written"
     /\ req' = [req EXCEPT ![w].pc = IF missing = {} THEN "binned" ELSE "binning",
                           ![w].missing = missing]
     /\ UNCHANGED <<clock, geos, bins, versions>>

(* __get_missing_geo_bins *)
ReadBins(w) ==
  LET missing == {Objs(w)[p] : p \in req[w].write} \ bins
  IN /\ req[w].pc = "written"
     /\ req' = [req EXCEPT ![w].pc = IF missing = {} THEN "binned" ELSE "binning",
                           ![w].missing = missing]
     /\ UNCHANGED <<clock, geos, bins, versions>>

(* __insert_missing_geo_hashes: the hash is unique.                          *)
InsertBins(w) ==
  /\ req[w].pc = "binning"
  /\ ~ BinsTaken(w)
  /\ req[w].missing \cap bins = {}
  /\ Goto(w, "binned")
  /\ UNCHANGED <<clock, geos, bins, versions>>

(* __insert_geo_versions: the primary key is (import_id, geo_id).            *)
InsertVersions(w) ==
  /\ req[w].pc = "binned"
  /\ ~ KeysTaken(w)
  /\ \A v \in versions : Key(v) \notin NewKeys(w)
  /\ Goto(w, "versioned")
  /\ UNCHANGED <<clock, geos, bins, versions>>

(* A validation or an assertion fails, or an INSERT meets a committed key.   *)
Fail(w) ==
  /\ \/ req[w].pc = "started" /\ ~ Valid(w)
     \/ req[w].pc = "checked" /\ IsCreate(w) /\ req[w].write \cap geos # {}
     \/ req[w].pc = "checked" /\ ~ IsCreate(w) /\ ~ DiffAllowed(w)
     \/ req[w].pc = "binning" /\ req[w].missing \cap bins # {}
     \/ req[w].pc = "binned" /\ \E v \in versions : Key(v) \in NewKeys(w)
  /\ req' = [req EXCEPT ![w] = Idle]
  /\ UNCHANGED <<clock, geos, bins, versions>>

(* A crash, a lost connection, an invalid geometry or a deadlock victim.     *)
Abort(w) ==
  /\ req[w].pc # "idle"
  /\ req' = [req EXCEPT ![w] = Idle]
  /\ UNCHANGED <<clock, geos, bins, versions>>

CloseVersion(w, v) == IF Key(v) \in req[w].targets THEN [v EXCEPT !.to = req[w].now] ELSE v

(* Fault: a version is stored without its valid_from. *)
NewVersionsUndated(w) ==
  {[imp |-> req[w].body.imp, geo |-> p, hash |-> Objs(w)[p], from |-> Null, to |-> Null]
     : p \in req[w].write}

(* Fault: valid_from is the instant of the INSERT. *)
NewVersionsLate(w) ==
  {[imp |-> req[w].body.imp, geo |-> p, hash |-> Objs(w)[p], from |-> clock, to |-> Null]
     : p \in req[w].write}

NewVersions(w) ==
  {[imp |-> req[w].body.imp, geo |-> p, hash |-> Objs(w)[p], from |-> req[w].now, to |-> Null]
     : p \in req[w].write}

Commit(w) ==
  /\ req[w].pc = "versioned"
  /\ geos' = geos \cup InsertedGeos(w)
  /\ bins' = bins \cup InsertedBins(w)
  /\ versions' = {CloseVersion(w, v) : v \in versions} \cup NewVersions(w)
  /\ req' = [req EXCEPT ![w] = Idle]
  /\ UNCHANGED clock

Next ==
  \/ Tick
  \/ \E w \in Workers :
                     \/ \E q \in Requests : Start(w, q)
                     \/ Check(w)
                     \/ InsertGeos(w)
                     \/ Diff(w)
                     \/ TakeTime(w)
                     \/ StartUpdate(w)
                     \/ FinishUpdate(w)
                     \/ ReadBins(w)
                     \/ InsertBins(w)
                     \/ InsertVersions(w)
                     \/ Fail(w)
                     \/ Abort(w)
                     \/ Commit(w)

Spec == Init /\ [][Next]_vars

-----------------------------------------------------------------------------
(* Every geography has a current version: what the assertion of a patch     *)
(* (the paths with a current hash are those of the request) relies on.      *)
EveryGeographyCurrent == \A p \in geos : Open({p}) # {}

(* What is stored refers to what is stored: a version is of a committed      *)
(* geography and its geometry is in a committed bin, although the bins were  *)
(* looked up before another transaction could add or fail to add them.       *)
References == \A v \in versions : v.geo \in geos /\ v.hash \in bins

(* From its first version on a geography has one at every instant, although  *)
(* valid_time is read before the UPDATE looks for open versions and waits    *)
(* for their locks, so that a version may end before it starts.              *)
NoGap ==
  \A v \in versions : \A t \in v.from .. MaxTime :
    \E u \in versions : u.geo = v.geo /\ u.from <= t /\ (u.to = Null \/ t < u.to)

(* A closed version is history: no later request alters or removes it, and   *)
(* an open one is only ever closed.                                          *)
HistoryFrozen ==
  [][\A v \in versions : \E u \in versions' :
       u = v \/ (v.to = Null /\ u = [v EXCEPT !.to = u.to])]_versions
=============================================================================
