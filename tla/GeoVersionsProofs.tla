-------------------------- MODULE GeoVersionsProofs --------------------------
(***************************************************************************)
(* Proofs about GeoVersions for every set of workers, paths, geometries,   *)
(* imports and request bodies, and every bound on the clock.               *)
(*                                                                         *)
(* What a commit does to the tables depends on what the transaction read   *)
(* and locked several statements before.  The strengthened invariant says  *)
(* of a transaction in flight what other commits cannot undo: its row      *)
(* locks name open versions and are its own, the keys of the versions it   *)
(* has inserted are free, and what it refers to stays stored.              *)
(***************************************************************************)
EXTENDS GeoVersions, TLAPS

USE NullAssumption, RequestsAssumption, MaxTimeAssumption

Locks == {"written", "binning", "binned", "versioned"}
Writes == Locks \cup {"diffed", "timed", "updating"}

(* A transaction writes geographies of its request, and closes versions of   *)
(* those it writes.                                                          *)
OnlyWritten ==
  \A w \in Workers :
    /\ req[w].pc # "idle" => req[w].body \in Requests /\ req[w].write \subseteq DOMAIN Objs(w)
    /\ req[w].pc \in {"started", "checked", "diffed", "timed"} => req[w].targets = {}
    /\ \A k \in req[w].targets : k[2] \in req[w].write

(* A row lock is of one transaction, and the version it is on stays open.    *)
LocksHeld ==
  \A w \in Workers : req[w].pc \in Locks =>
    /\ \A v \in versions : Key(v) \in req[w].targets => v.to = Null
    /\ \A u \in Workers \ {w} : req[u].pc \in Locks => req[u].targets \cap req[w].targets = {}

(* The keys of inserted versions are free in the table and of one owner.     *)
KeysReserved ==
  \A w \in Workers : req[w].pc = "versioned" =>
    /\ \A v \in versions : Key(v) \notin NewKeys(w)
    /\ \A u \in Workers \ {w} : req[u].pc = "versioned" => NewKeys(u) \cap NewKeys(w) = {}

(* The geographies a patch writes are committed, and so are, or will be by   *)
(* its own commit, the bins of the geometries a transaction refers to.       *)
Stored ==
  \A w \in Workers :
    /\ req[w].pc = "checked" /\ ~ IsCreate(w) => DOMAIN Objs(w) \subseteq geos
    /\ req[w].pc \in Writes /\ ~ IsCreate(w) => req[w].write \subseteq geos
    /\ req[w].pc \in {"binning", "binned", "versioned"} =>
         \A p \in req[w].write : Objs(w)[p] \in bins \cup req[w].missing

(* The primary key.                                                          *)
OneVersionPerImport == \A u, v \in versions : Key(u) = Key(v) => u = v

Inv ==
  /\ TypeOK /\ OnlyWritten /\ LocksHeld /\ KeysReserved /\ Stored
  /\ EveryGeographyCurrent /\ References /\ OneVersionPerImport /\ NoGap

-----------------------------------------------------------------------------
(* A request body names geometries of paths, and an import. *)
LEMMA BodyType ==
  ASSUME NEW q \in Requests
  PROVE  /\ q.op \in {"create", "patch"}
         /\ DOMAIN q.objs \subseteq Paths
         /\ \A p \in DOMAIN q.objs : q.objs[p] \in Hashes
         /\ q.imp \in Imports
<1>1. q \in Body
  OBVIOUS
<1> QED
  BY <1>1 DEF Body, Objects

LEMMA IdleType == Idle \in Transaction
  BY DEF Idle, Transaction

(* Only a commit writes the tables. *)
LEMMA OnlyCommitWrites ==
  ASSUME [Next]_vars
  PROVE  UNCHANGED <<geos, bins, versions>> \/ \E w \in Workers : Commit(w)
BY DEF Next, vars, Tick, Start, Check, InsertGeos, Diff, TakeTime, StartUpdate, FinishUpdate,
       ReadBins, InsertBins, InsertVersions, Fail, Abort

(* The paths whose geometry changes are paths of the request. *)
LEMMA DiffPaths ==
  ASSUME NEW w \in Workers
  PROVE  {d[1] : d \in DiffPairs(w)} \subseteq DOMAIN Objs(w)
BY DEF DiffPairs

(* Every step keeps the types. *)
LEMMA TypeStep == TypeOK /\ OnlyWritten /\ [Next]_vars => TypeOK'
<1> SUFFICES ASSUME TypeOK, OnlyWritten, [Next]_vars
             PROVE  TypeOK'
  OBVIOUS
<1> USE IdleType DEF TypeOK
<1>1. CASE Tick
  BY <1>1 DEF Tick
<1>2. ASSUME NEW w \in Workers, NEW q \in Requests, Start(w, q)
      PROVE  TypeOK'
  <2>1. [Idle EXCEPT !.pc = "started", !.body = q] \in Transaction
    BY DEF Idle, Transaction
  <2> QED
    BY <1>2, <2>1 DEF Start
<1>3. ASSUME NEW w \in Workers, Check(w)
      PROVE  TypeOK'
  <2>1. DOMAIN Objs(w) \subseteq Paths
    BY <1>3, BodyType DEF Check, OnlyWritten, Objs
  <2>2. [req[w] EXCEPT !.pc = "checked",
                       !.now = IF IsCreate(w) THEN clock ELSE 0,
                       !.write = IF IsCreate(w) THEN DOMAIN Objs(w) ELSE {}] \in Transaction
    BY <2>1 DEF Transaction
  <2> QED
    BY <1>3, <2>2 DEF Check
<1>4. ASSUME NEW w \in Workers, TakeTime(w) \/ InsertGeos(w) \/ InsertBins(w) \/ InsertVersions(w)
      PROVE  TypeOK'
  BY <1>4 DEF TakeTime, InsertGeos, InsertBins, InsertVersions, Goto, Transaction
<1>5. ASSUME NEW w \in Workers, Diff(w)
      PROVE  TypeOK'
  <2>1. {d[1] : d \in DiffPairs(w)} \subseteq Paths
    BY <1>5, BodyType, DiffPaths DEF Diff, OnlyWritten, Objs
  <2>2. [req[w] EXCEPT !.pc = IF DiffPairs(w) = {} THEN "versioned" ELSE "diffed",
                       !.write = {d[1] : d \in DiffPairs(w)}] \in Transaction
    BY <2>1 DEF Transaction
  <2> QED
    BY <1>5, <2>2 DEF Diff
<1>6. ASSUME NEW w \in Workers, StartUpdate(w)
      PROVE  TypeOK'
  <2>1. {Key(v) : v \in Open(req[w].write)} \subseteq Imports \X Paths
    BY DEF Open, Key, Version
  <2>2. [req[w] EXCEPT !.pc = "updating",
                       !.targets = {Key(v) : v \in Open(req[w].write)}] \in Transaction
    BY <2>1 DEF Transaction
  <2> QED
    BY <1>6, <2>2 DEF StartUpdate
<1>7. ASSUME NEW w \in Workers, FinishUpdate(w)
      PROVE  TypeOK'
  BY <1>7 DEF FinishUpdate, Transaction
<1>8. ASSUME NEW w \in Workers, ReadBins(w)
      PROVE  TypeOK'
  <2> DEFINE missing == {Objs(w)[p] : p \in req[w].write} \ bins
  <2>1. missing \subseteq Hashes
    BY <1>8, BodyType DEF ReadBins, OnlyWritten, Objs
  <2>2. [req[w] EXCEPT !.pc = IF missing = {} THEN "binned" ELSE "binning",
                       !.missing = missing] \in Transaction
    BY <2>1 DEF Transaction
  <2> QED
    BY <1>8, <2>2 DEF ReadBins
<1>9. ASSUME NEW w \in Workers, Fail(w) \/ Abort(w)
      PROVE  TypeOK'
  BY <1>9 DEF Fail, Abort
<1>10. ASSUME NEW w \in Workers, Commit(w)
       PROVE  TypeOK'
  <2>1. {CloseVersion(w, v) : v \in versions} \subseteq Version
    BY DEF CloseVersion, Version, Transaction
  <2>2. NewVersions(w) \subseteq Version
    <3>1. \A p \in req[w].write : p \in Paths /\ Objs(w)[p] \in Hashes
      BY <1>10, BodyType DEF Commit, OnlyWritten, Objs
    <3>2. req[w].body.imp \in Imports /\ req[w].now \in Nat
      BY <1>10, BodyType DEF Commit, OnlyWritten, Transaction
    <3> QED
      BY <3>1, <3>2 DEF NewVersions, Version
  <2>3. InsertedGeos(w) \subseteq Paths /\ InsertedBins(w) \subseteq Hashes
    BY DEF InsertedGeos, InsertedBins, Transaction
  <2> QED
    BY <1>10, <2>1, <2>2, <2>3 DEF Commit
<1>11. CASE UNCHANGED vars
  BY <1>11 DEF vars
<1> QED
  BY <1>1, <1>2, <1>3, <1>4, <1>5, <1>6, <1>7, <1>8, <1>9, <1>10, <1>11 DEF Next

-----------------------------------------------------------------------------
(* What a transaction writes is of its request, and what it closes it writes. *)
LEMMA OnlyWrittenStep == TypeOK /\ OnlyWritten /\ [Next]_vars => OnlyWritten'
<1> SUFFICES ASSUME TypeOK, OnlyWritten, [Next]_vars
             PROVE  OnlyWritten'
  OBVIOUS
<1> USE DEF TypeOK, OnlyWritten, Objs
<1>1. ASSUME NEW w \in Workers, req' = [req EXCEPT ![w] = Idle]
      PROVE  OnlyWritten'
  BY <1>1 DEF Idle
<1>2. ASSUME NEW w \in Workers, NEW q \in Requests, Start(w, q)
      PROVE  OnlyWritten'
  BY <1>2 DEF Start, Idle
<1>3. ASSUME NEW w \in Workers, Check(w)
      PROVE  OnlyWritten'
  BY <1>3 DEF Check, Transaction
<1>4. ASSUME NEW w \in Workers, TakeTime(w) \/ InsertGeos(w) \/ InsertBins(w) \/ InsertVersions(w)
      PROVE  OnlyWritten'
  BY <1>4 DEF TakeTime, InsertGeos, InsertBins, InsertVersions, Goto, Transaction
<1>5. ASSUME NEW w \in Workers, Diff(w)
      PROVE  OnlyWritten'
  BY <1>5, DiffPaths DEF Diff, Transaction
<1>6. ASSUME NEW w \in Workers, StartUpdate(w)
      PROVE  OnlyWritten'
  <2>1. \A k \in {Key(v) : v \in Open(req[w].write)} : k[2] \in req[w].write
    BY DEF Open, Key
  <2> QED
    BY <1>6, <2>1 DEF StartUpdate, Transaction
<1>7. ASSUME NEW w \in Workers, FinishUpdate(w)
      PROVE  OnlyWritten'
  BY <1>7 DEF FinishUpdate, Transaction
<1>8. ASSUME NEW w \in Workers, ReadBins(w)
      PROVE  OnlyWritten'
  BY <1>8 DEF ReadBins, Transaction
<1>9. CASE UNCHANGED req
  BY <1>9
<1> QED
  BY <1>1, <1>2, <1>3, <1>4, <1>5, <1>6, <1>7, <1>8, <1>9
  DEF Next, vars, Tick, Fail, Abort, Commit

(* A commit keeps every version but for the end of those it closes, and adds *)
(* its own.                                                                  *)
LEMMA CommitVersions ==
  ASSUME TypeOK, NEW w \in Workers, Commit(w)
  PROVE  /\ \A v \in versions :
              /\ CloseVersion(w, v) \in versions'
              /\ Key(CloseVersion(w, v)) = Key(v)
              /\ CloseVersion(w, v).geo = v.geo
              /\ CloseVersion(w, v).hash = v.hash
              /\ CloseVersion(w, v).from = v.from
              /\ CloseVersion(w, v) = [v EXCEPT !.to = CloseVersion(w, v).to]
              /\ Key(v) \in req[w].targets => CloseVersion(w, v).to = req[w].now
              /\ Key(v) \notin req[w].targets => CloseVersion(w, v) = v
         /\ \A n \in NewVersions(w) :
              /\ n \in versions' /\ Key(n) \in NewKeys(w)
              /\ n.geo \in req[w].write /\ n.hash = Objs(w)[n.geo]
              /\ n.from = req[w].now /\ n.to = Null
         /\ \A v \in versions' : (\E u \in versions : v = CloseVersion(w, u)) \/ v \in NewVersions(w)
         /\ \A u \in Workers : req'[u] = IF u = w THEN Idle ELSE req[u]
<1>1. ASSUME NEW v \in versions
      PROVE  /\ Key(CloseVersion(w, v)) = Key(v)
             /\ CloseVersion(w, v).geo = v.geo
             /\ CloseVersion(w, v).hash = v.hash
             /\ CloseVersion(w, v).from = v.from
             /\ CloseVersion(w, v) = [v EXCEPT !.to = CloseVersion(w, v).to]
             /\ Key(v) \in req[w].targets => CloseVersion(w, v).to = req[w].now
             /\ Key(v) \notin req[w].targets => CloseVersion(w, v) = v
  BY DEF CloseVersion, Key, TypeOK, Version
<1>2. \A n \in NewVersions(w) : /\ Key(n) \in NewKeys(w)
                                /\ n.geo \in req[w].write /\ n.hash = Objs(w)[n.geo]
                                /\ n.from = req[w].now /\ n.to = Null
  BY DEF NewVersions, Key, NewKeys
<1>3. versions' = {CloseVersion(w, v) : v \in versions} \cup NewVersions(w)
  BY DEF Commit
<1>4. \A u \in Workers : req'[u] = IF u = w THEN Idle ELSE req[u]
  BY DEF Commit, TypeOK
<1> QED
  BY <1>1, <1>2, <1>3, <1>4

(* The keys of a transaction's new versions stay free until it commits. *)
LEMMA KeysReservedStep == TypeOK /\ KeysReserved /\ [Next]_vars => KeysReserved'
<1> SUFFICES ASSUME TypeOK, KeysReserved, [Next]_vars
             PROVE  KeysReserved'
  OBVIOUS
<1> USE DEF TypeOK, KeysReserved, NewKeys
<1>1. ASSUME NEW w \in Workers, req' = [req EXCEPT ![w] = Idle], versions' = versions
      PROVE  KeysReserved'
  BY <1>1 DEF Idle
<1>2. ASSUME NEW w \in Workers, NEW q \in Requests, Start(w, q)
      PROVE  KeysReserved'
  BY <1>2 DEF Start, Idle
<1>3. ASSUME NEW w \in Workers, Check(w)
      PROVE  KeysReserved'
  BY <1>3 DEF Check, Transaction
<1>4. ASSUME NEW w \in Workers, InsertGeos(w) \/ InsertBins(w)
      PROVE  KeysReserved'
  BY <1>4 DEF InsertGeos, InsertBins, Goto, Transaction
<1>5. ASSUME NEW w \in Workers, InsertVersions(w)
      PROVE  KeysReserved'
  BY <1>5 DEF InsertVersions, Goto, KeysTaken, Past, Transaction
<1>6. ASSUME NEW w \in Workers, Diff(w)
      PROVE  KeysReserved'
  BY <1>6 DEF Diff, Transaction
<1>7. ASSUME NEW w \in Workers, TakeTime(w) \/ StartUpdate(w) \/ FinishUpdate(w)
      PROVE  KeysReserved'
  BY <1>7 DEF TakeTime, StartUpdate, FinishUpdate, Transaction
<1>8. ASSUME NEW w \in Workers, ReadBins(w)
      PROVE  KeysReserved'
  BY <1>8 DEF ReadBins, Transaction
<1>9. ASSUME NEW w \in Workers, Commit(w)
      PROVE  KeysReserved'
  <2>1. \A v \in versions' : (\E u \in versions : Key(u) = Key(v)) \/ Key(v) \in NewKeys(w)
    BY <1>9, CommitVersions
  <2> QED
    BY <1>9, <2>1, CommitVersions DEF Commit, Idle
<1>10. CASE UNCHANGED <<versions, req>>
  BY <1>10
<1> QED
  BY <1>1, <1>2, <1>3, <1>4, <1>5, <1>6, <1>7, <1>8, <1>9, <1>10
  DEF Next, vars, Tick, Fail, Abort

(* A row lock keeps others from closing its version. *)
LEMMA LocksHeldStep ==
  TypeOK /\ OnlyWritten /\ OneVersionPerImport /\ LocksHeld /\ [Next]_vars => LocksHeld'
<1> SUFFICES ASSUME TypeOK, OnlyWritten, OneVersionPerImport, LocksHeld, [Next]_vars
             PROVE  LocksHeld'
  OBVIOUS
<1> USE DEF TypeOK, LocksHeld, Locks
<1>1. ASSUME NEW w \in Workers, req' = [req EXCEPT ![w] = Idle], versions' = versions
      PROVE  LocksHeld'
  BY <1>1 DEF Idle
<1>2. ASSUME NEW w \in Workers, NEW q \in Requests, Start(w, q)
      PROVE  LocksHeld'
  BY <1>2 DEF Start, Idle
<1>3. ASSUME NEW w \in Workers, Check(w)
      PROVE  LocksHeld'
  BY <1>3 DEF Check, Transaction
<1>4. ASSUME NEW w \in Workers, InsertGeos(w)
      PROVE  LocksHeld'
  BY <1>4 DEF InsertGeos, Goto, OnlyWritten, Transaction
<1>5. ASSUME NEW w \in Workers, TakeTime(w) \/ InsertBins(w) \/ InsertVersions(w)
      PROVE  LocksHeld'
  BY <1>5 DEF TakeTime, InsertBins, InsertVersions, Goto, Transaction
<1>6. ASSUME NEW w \in Workers, Diff(w)
      PROVE  LocksHeld'
  BY <1>6 DEF Diff, OnlyWritten, Transaction
<1>7. ASSUME NEW w \in Workers, StartUpdate(w)
      PROVE  LocksHeld'
  BY <1>7 DEF StartUpdate, Transaction
<1>8. ASSUME NEW w \in Workers, FinishUpdate(w)
      PROVE  LocksHeld'
  <2>1. \A v \in versions : Key(v) \in req'[w].targets => v.to = Null
    <3>1. req'[w].targets \subseteq {Key(v) : v \in Open(Paths)}
      BY <1>8 DEF FinishUpdate
    <3> QED
      BY <3>1 DEF Open, OneVersionPerImport
  <2>2. req'[w].targets \subseteq req[w].targets
    BY <1>8 DEF FinishUpdate
  <2>3. \A u \in Workers \ {w} : req[u].pc \in Locks => req[u].targets \cap req[w].targets = {}
    BY <1>8 DEF FinishUpdate, LockedByOther, Locked, Past
  <2>4. \A u \in Workers \ {w} : req'[u] = req[u]
    BY <1>8 DEF FinishUpdate
  <2>5. versions' = versions
    BY <1>8 DEF FinishUpdate
  <2> QED
    BY <2>1, <2>2, <2>3, <2>4, <2>5
<1>9. ASSUME NEW w \in Workers, ReadBins(w)
      PROVE  LocksHeld'
  BY <1>9 DEF ReadBins, Transaction
<1>10. ASSUME NEW w \in Workers, Commit(w)
       PROVE  LocksHeld'
  <2>1. req[w].pc \in Locks
    BY <1>10 DEF Commit
  <2>2. ASSUME NEW u \in Workers \ {w}, req[u].pc \in Locks,
               NEW v \in versions', Key(v) \in req[u].targets
        PROVE  v.to = Null
    <3>1. CASE v \in NewVersions(w)
      BY <3>1, <1>10, CommitVersions
    <3>2. CASE \E x \in versions : v = CloseVersion(w, x)
      BY <3>2, <2>1, <2>2, <1>10, CommitVersions
    <3> QED
      BY <3>1, <3>2, <1>10, CommitVersions
  <2> QED
    BY <2>2, <1>10, CommitVersions DEF Idle
<1>11. CASE UNCHANGED <<versions, req>>
  BY <1>11
<1> QED
  BY <1>1, <1>2, <1>3, <1>4, <1>5, <1>6, <1>7, <1>8, <1>9, <1>10, <1>11
  DEF Next, vars, Tick, Fail, Abort

(* What a transaction found stored stays stored: no transaction removes a    *)
(* geography or a bin.                                                       *)
LEMMA StoredStep == TypeOK /\ OnlyWritten /\ Stored /\ [Next]_vars => Stored'
<1> SUFFICES ASSUME TypeOK, OnlyWritten, Stored, [Next]_vars
             PROVE  Stored'
  OBVIOUS
<1> USE DEF TypeOK, Stored, Writes, Locks, IsCreate, Objs
<1>1. ASSUME NEW w \in Workers, req' = [req EXCEPT ![w] = Idle], UNCHANGED <<geos, bins>>
      PROVE  Stored'
  BY <1>1 DEF Idle
<1>2. ASSUME NEW w \in Workers, NEW q \in Requests, Start(w, q)
      PROVE  Stored'
  BY <1>2 DEF Start, Idle
<1>3. ASSUME NEW w \in Workers, Check(w)
      PROVE  Stored'
  BY <1>3 DEF Check, Valid, Transaction
<1>4. ASSUME NEW w \in Workers, InsertGeos(w)
      PROVE  Stored'
  BY <1>4 DEF InsertGeos, Goto, Transaction
<1>5. ASSUME NEW w \in Workers, InsertBins(w) \/ InsertVersions(w)
      PROVE  Stored'
  BY <1>5 DEF InsertBins, InsertVersions, Goto, Transaction
<1>6. ASSUME NEW w \in Workers, Diff(w)
      PROVE  Stored'
  <2>1. {d[1] : d \in DiffPairs(w)} \subseteq geos
    BY <1>6, DiffPaths DEF Diff
  <2>2. DiffPairs(w) = {} => {d[1] : d \in DiffPairs(w)} = {}
    OBVIOUS
  <2> QED
    BY <1>6, <2>1, <2>2 DEF Diff, Transaction
<1>7. ASSUME NEW w \in Workers, TakeTime(w) \/ StartUpdate(w) \/ FinishUpdate(w)
      PROVE  Stored'
  BY <1>7 DEF TakeTime, StartUpdate, FinishUpdate, Transaction
<1>8. ASSUME NEW w \in Workers, ReadBins(w)
      PROVE  Stored'
  BY <1>8 DEF ReadBins, Transaction
<1>9. ASSUME NEW w \in Workers, Commit(w)
      PROVE  Stored'
  <2>1. geos \subseteq geos' /\ bins \subseteq bins'
    BY <1>9 DEF Commit
  <2> QED
    BY <1>9, <2>1 DEF Commit, Idle
<1>10. CASE UNCHANGED <<geos, bins, req>>
  BY <1>10
<1> QED
  BY <1>1, <1>2, <1>3, <1>4, <1>5, <1>6, <1>7, <1>8, <1>9, <1>10
  DEF Next, vars, Tick, Fail, Abort

-----------------------------------------------------------------------------
(* A commit opens a version of every geography whose version it closes.      *)
LEMMA CurrentStep == Inv /\ [Next]_vars => EveryGeographyCurrent'
<1> SUFFICES ASSUME Inv, [Next]_vars, NEW p \in geos'
             PROVE  \E v \in versions' : v.geo = p /\ v.to = Null
  BY DEF EveryGeographyCurrent, Open
<1> USE DEF Inv
<1>1. CASE UNCHANGED <<geos, bins, versions>>
  BY <1>1 DEF EveryGeographyCurrent, Open
<1>2. ASSUME NEW w \in Workers, Commit(w)
      PROVE  \E v \in versions' : v.geo = p /\ v.to = Null
  <2>1. CASE p \in req[w].write
    <3>1. [imp |-> req[w].body.imp, geo |-> p, hash |-> Objs(w)[p],
           from |-> req[w].now, to |-> Null] \in NewVersions(w)
      BY <2>1 DEF NewVersions
    <3> QED
      BY <3>1, <1>2, CommitVersions
  <2>2. CASE p \notin req[w].write
    <3>1. p \in geos
      BY <1>2, <2>2 DEF Commit, InsertedGeos
    <3>2. PICK v \in versions : v.geo = p /\ v.to = Null
      BY <3>1 DEF EveryGeographyCurrent, Open
    <3>3. Key(v) \notin req[w].targets
      BY <2>2, <3>2 DEF OnlyWritten, Key
    <3> QED
      BY <3>2, <3>3, <1>2, CommitVersions
  <2> QED
    BY <2>1, <2>2
<1> QED
  BY <1>1, <1>2, OnlyCommitWrites

(* A commit refers to what it adds itself or has found stored. *)
LEMMA ReferencesStep == Inv /\ [Next]_vars => References'
<1> SUFFICES ASSUME Inv, [Next]_vars, NEW v \in versions'
             PROVE  v.geo \in geos' /\ v.hash \in bins'
  BY DEF References
<1> USE DEF Inv
<1>1. CASE UNCHANGED <<geos, bins, versions>>
  BY <1>1 DEF References
<1>2. ASSUME NEW w \in Workers, Commit(w)
      PROVE  v.geo \in geos' /\ v.hash \in bins'
  <2>1. geos' = geos \cup InsertedGeos(w) /\ bins' = bins \cup req[w].missing
    BY <1>2 DEF Commit, InsertedBins, Past
  <2>2. CASE \E u \in versions : v = CloseVersion(w, u)
    BY <2>1, <2>2, <1>2, CommitVersions DEF References
  <2>3. CASE v \in NewVersions(w)
    <3>1. req[w].write \subseteq geos'
      BY <2>1, <1>2 DEF Commit, Stored, InsertedGeos, Past, Writes, Locks
    <3>2. \A p \in req[w].write : Objs(w)[p] \in bins'
      BY <2>1, <1>2 DEF Commit, Stored
    <3> QED
      BY <2>3, <3>1, <3>2, <1>2, CommitVersions
  <2> QED
    BY <2>2, <2>3, <1>2, CommitVersions
<1> QED
  BY <1>1, <1>2, OnlyCommitWrites

(* A commit adds versions under the keys it has reserved. *)
LEMMA OneVersionStep == Inv /\ [Next]_vars => OneVersionPerImport'
<1> SUFFICES ASSUME Inv, [Next]_vars
             PROVE  OneVersionPerImport'
  OBVIOUS
<1> USE DEF Inv
<1>1. CASE UNCHANGED <<geos, bins, versions>>
  BY <1>1 DEF OneVersionPerImport, Key
<1>2. ASSUME NEW w \in Workers, Commit(w)
      PROVE  OneVersionPerImport'
  <2> SUFFICES ASSUME NEW r \in versions', NEW s \in versions', Key(r) = Key(s)
               PROVE  r = s
    BY DEF OneVersionPerImport, Key
  <2>1. \A u \in versions : Key(u) \notin NewKeys(w)
    BY <1>2 DEF Commit, KeysReserved
  <2>2. CASE \E x \in versions : r = CloseVersion(w, x)
    <3>1. PICK x \in versions : r = CloseVersion(w, x)
      BY <2>2
    <3>2. s \notin NewVersions(w)
      BY <3>1, <2>1, <1>2, CommitVersions
    <3>3. PICK y \in versions : s = CloseVersion(w, y)
      BY <3>2, <1>2, CommitVersions
    <3>4. x = y
      BY <3>1, <3>3, <1>2, CommitVersions DEF OneVersionPerImport
    <3> QED
      BY <3>1, <3>3, <3>4
  <2>3. CASE r \in NewVersions(w)
    <3>1. s \in NewVersions(w)
      BY <2>1, <2>3, <1>2, CommitVersions
    <3> QED
      BY <3>1, <2>3 DEF NewVersions, Key
  <2> QED
    BY <2>2, <2>3, <1>2, CommitVersions
<1> QED
  BY <1>1, <1>2, OnlyCommitWrites

(* An instant that a closed version no longer covers is that of its          *)
(* successor.                                                                *)
LEMMA NoGapStep == Inv /\ [Next]_vars => NoGap'
<1> USE DEF Inv
<1>1. ASSUME Inv, UNCHANGED <<geos, bins, versions>>
      PROVE  NoGap'
  BY <1>1 DEF NoGap
<1>2. ASSUME Inv, NEW w \in Workers, Commit(w)
      PROVE  NoGap'
  <2> SUFFICES ASSUME NEW v \in versions', NEW t \in v.from .. MaxTime
               PROVE  \E u \in versions' :
                        u.geo = v.geo /\ u.from <= t /\ (u.to = Null \/ t < u.to)
    BY DEF NoGap
  <2>0. req[w].now \in Nat /\ versions \subseteq Version
    BY <1>2 DEF TypeOK, Transaction
  <2>1. CASE v \in NewVersions(w)
    BY <2>0, <2>1, <1>2, CommitVersions
  <2>2. CASE \E x \in versions : v = CloseVersion(w, x)
    <3>1. PICK x \in versions : v = CloseVersion(w, x)
      BY <2>2
    <3>2. x.geo = v.geo /\ x.from = v.from
      BY <3>1, <1>2, CommitVersions
    <3>3. PICK u \in versions : u.geo = v.geo /\ u.from <= t /\ (u.to = Null \/ t < u.to)
      BY <3>2, <1>2 DEF NoGap
    <3>4. CASE Key(u) \notin req[w].targets
      BY <3>3, <3>4, <1>2, CommitVersions
    <3>5. CASE Key(u) \in req[w].targets
      <4>1. u.geo \in req[w].write
        BY <3>5, <1>2 DEF OnlyWritten, Key
      <4> DEFINE n == [imp |-> req[w].body.imp, geo |-> u.geo, hash |-> Objs(w)[u.geo],
                       from |-> req[w].now, to |-> Null]
      <4>2. n \in NewVersions(w)
        BY <4>1 DEF NewVersions
      <4>3. CASE t < req[w].now
        BY <3>3, <3>5, <4>3, <1>2, CommitVersions
      <4>4. CASE req[w].now <= t
        BY <3>3, <4>2, <4>4, <1>2, CommitVersions
      <4> QED
        BY <2>0, <3>2, <4>3, <4>4 DEF Version
    <3> QED
      BY <3>4, <3>5
  <2> QED
    BY <2>1, <2>2, <1>2, CommitVersions
<1> QED
  BY <1>1, <1>2, OnlyCommitWrites

-----------------------------------------------------------------------------
(* The strengthened invariant holds of every reachable state. *)
THEOREM Invariance == Spec => []Inv
<1>1. Init => Inv
  BY IdleType DEF Init, Inv, TypeOK, OnlyWritten, LocksHeld, KeysReserved, Stored,
                  EveryGeographyCurrent, References, OneVersionPerImport, NoGap,
                  Idle, Locks, Writes
<1>2. Inv /\ [Next]_vars => Inv'
  BY TypeStep, OnlyWrittenStep, LocksHeldStep, KeysReservedStep, StoredStep,
     CurrentStep, ReferencesStep, OneVersionStep, NoGapStep DEF Inv
<1> QED
  BY <1>1, <1>2, PTL DEF Spec

(* The variables keep their types. *)
THEOREM TypeCorrect == Spec => []TypeOK
<1>1. Inv => TypeOK
  BY DEF Inv
<1> QED
  BY <1>1, Invariance, PTL

(* However creations and patches interleave, fail or crash, a committed      *)
(* geography has a current version.                                          *)
THEOREM AlwaysCurrent == Spec => []EveryGeographyCurrent
<1>1. Inv => EveryGeographyCurrent
  BY DEF Inv
<1> QED
  BY <1>1, Invariance, PTL

(* What a version refers to is stored, although it was looked up in earlier  *)
(* statements, and bins are shared with requests that may fail.              *)
THEOREM ReferencesStored == Spec => []References
<1>1. Inv => References
  BY DEF Inv
<1> QED
  BY <1>1, Invariance, PTL

(* From its first version on a geography has one at every instant. *)
THEOREM NoInstantUncovered == Spec => []NoGap
<1>1. Inv => NoGap
  BY DEF Inv
<1> QED
  BY <1>1, Invariance, PTL

(* A closed version is never altered, and no version disappears: what an     *)
(* UPDATE closes is open under the row lock it holds.                        *)
THEOREM ClosedIsHistory == Spec => HistoryFrozen
<1>1. Inv /\ [Next]_vars =>
        [\A v \in versions : \E u \in versions' :
           u = v \/ (v.to = Null /\ u = [v EXCEPT !.to = u.to])]_versions
  <2> SUFFICES ASSUME Inv, [Next]_vars, versions' # versions, NEW v \in versions
               PROVE  \E u \in versions' : u = v \/ (v.to = Null /\ u = [v EXCEPT !.to = u.to])
    OBVIOUS
  <2> USE DEF Inv
  <2>1. PICK w \in Workers : Commit(w)
    BY OnlyCommitWrites
  <2>2. Key(v) \in req[w].targets => v.to = Null
    BY <2>1 DEF Commit, LocksHeld, Locks
  <2> QED
    BY <2>1, <2>2, CommitVersions
<1> QED
  BY <1>1, Invariance, PTL DEF Spec, HistoryFrozen
=============================================================================
