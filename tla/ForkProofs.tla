----------------------------- MODULE ForkProofs -----------------------------
(***************************************************************************)
(* Proofs about Fork for every set of workers, namespaces, paths and       *)
(* hashes, every set of forks that clients ask for, and every bound.       *)
(*                                                                         *)
(* fork_geos.py says that it is "guaranteed that the missing paths do not  *)
(* have a conflicting geography" when it inserts them.  That it is still so *)
(* at the commit is Creating; it is inductive because the geography tag of *)
(* the target keeps creations out, and because a fork is alone in its      *)
(* target, which is OneFork, from the geo_import tag.  Checked keeps what  *)
(* the earlier check established; Finite is what makes the comparison of   *)
(* two counts, in Creatable, say that no path has two hashes.              *)
(***************************************************************************)
EXTENDS Fork, FiniteSetTheorems, TLAPS

USE NullAssumption, RequestsAssumption, BoundsAssumption

(* The fork holds the geo_import tag of its target. *)
Locks(w) == req[w].pc \in {"imported", "inserted"}

(* A fork's instants are not in the future. *)
Running ==
  \A w \in Workers : req[w].pc # "idle" => req[w].body \in Requests /\ req[w].at <= clock

(* Tables, and so listings, are finite. *)
Finite == IsFiniteSet(versions) /\ \A w \in Workers : IsFiniteSet(req[w].source)

(* What was checked: the target listed nothing that the source did not. *)
Checked == \A w \in Workers : Locks(w) => req[w].target \subseteq req[w].source

(* The geo_import tag of a namespace has one holder. *)
OneFork == \A v, w \in Workers : Locks(v) /\ Locks(w) /\ Target(v) = Target(w) => v = w

(* What was inserted and is not committed: nothing of it exists. *)
Creating == \A w \in Workers : req[w].pc = "inserted" => Creatable(w)

Inv == TypeOK /\ Running /\ Finite /\ Checked /\ OneFork /\ Creating

LEMMA IdleType == Idle \in Transaction /\ Idle.pc = "idle" /\ Idle.source = {} /\ Idle.target = {}
  BY DEF Idle, Transaction

-----------------------------------------------------------------------------
(* The rows that a fork commits, and what it maps. *)
LEMMA BodyType ==
  ASSUME TypeOK, Running, NEW w \in Workers, req[w].pc # "idle"
  PROVE  /\ req[w].body \in Requests
         /\ Source(w) \in Namespaces /\ Target(w) \in Namespaces
         /\ Diff(w) \subseteq Pair /\ DiffPaths(w) \subseteq Paths
         /\ DiffGeos(w) \subseteq Geography
<1>1. req[w].body \in Requests /\ Source(w) \in Namespaces /\ Target(w) \in Namespaces
  BY DEF Running, Source, Target, Request
<1>2. Diff(w) \subseteq Pair
  BY DEF TypeOK, Transaction, Diff
<1>3. DiffPaths(w) \subseteq Paths
  BY <1>2 DEF DiffPaths, Pair
<1> QED
  BY <1>1, <1>2, <1>3 DEF DiffGeos, Geography

LEMMA CommitVersions ==
  ASSUME TypeOK, Running, NEW w \in Workers, Commit(w)
  PROVE  \E f \in Chosen(w) :
           /\ \A p \in DiffPaths(w) : f[p] \in Hashes /\ <<p, f[p]>> \in Diff(w)
           /\ versions' = versions \cup
                {New(<<Target(w), p>>, f[p], req[w].at) : p \in DiffPaths(w)}
<1>1. PICK f \in Chosen(w) :
        versions' = versions \cup {New(<<Target(w), p>>, f[p], req[w].at) : p \in DOMAIN f}
  BY DEF Commit
<1>2. DOMAIN f = DiffPaths(w)
  BY DEF Chosen
<1>3. \A p \in DiffPaths(w) : f[p] \in Hashes /\ <<p, f[p]>> \in Diff(w)
  BY DEF Chosen
<1> QED
  BY <1>1, <1>2, <1>3

LEMMA ChosenGeos ==
  ASSUME TypeOK, Running, NEW w \in Workers, Commit(w)
  PROVE  Geos' = Geos \cup DiffGeos(w)
<1>1. PICK f \in Chosen(w) :
        versions' = versions \cup {New(<<Target(w), p>>, f[p], req[w].at) : p \in DiffPaths(w)}
  BY CommitVersions
<1>2. \A p \in DiffPaths(w) : New(<<Target(w), p>>, f[p], req[w].at).geo = <<Target(w), p>>
  BY DEF New
<1>3. DiffGeos(w) = {<<Target(w), p>> : p \in DiffPaths(w)}
  BY DEF DiffGeos
<1> QED
  BY <1>1, <1>2, <1>3 DEF Geos

(* A geography that exists does not cease to. *)
LEMMA GeosGrow ==
  ASSUME TypeOK, Running, [Next]_vars
  PROVE  /\ Geos \subseteq Geos'
         /\ \A g \in Geos' \ Geos :
              \/ ~ GeographyTagLocked(g[1]) /\ req' = req
              \/ \E w \in Workers : Commit(w) /\ g \in DiffGeos(w)
<1>1. CASE versions' = versions
  BY <1>1 DEF Geos
<1>2. ASSUME NEW n \in Namespaces, NEW p \in Paths, NEW h \in Hashes, NEW t \in Instants,
             CreateGeo(n, p, h, t)
      PROVE  Geos' = Geos \cup {<<n, p>>} /\ ~ GeographyTagLocked(n) /\ req' = req
  <2>1. versions' = versions \cup {New(<<n, p>>, h, t)} /\ ~ GeographyTagLocked(n) /\ req' = req
    BY <1>2 DEF CreateGeo
  <2>2. New(<<n, p>>, h, t).geo = <<n, p>>
    BY DEF New
  <2> QED
    BY <2>1, <2>2 DEF Geos
<1>3. ASSUME NEW g \in Geos, NEW h \in Hashes, NEW t \in Instants, PatchGeo(g, h, t)
      PROVE  Geos' = Geos
  <2> DEFINE closed(v) == IF v \in Open(g) THEN [v EXCEPT !.to = t] ELSE v
  <2>1. versions' = {closed(v) : v \in versions} \cup {New(g, h, t)}
    BY <1>3 DEF PatchGeo
  <2>2. \A v \in versions : closed(v).geo = v.geo
    BY DEF TypeOK, Version
  <2>3. New(g, h, t).geo = g
    BY DEF New
  <2> HIDE DEF closed
  <2>4. Geos' = {v.geo : v \in {closed(u) : u \in versions}} \cup {g}
    BY <2>1, <2>3 DEF Geos
  <2> QED
    BY <2>2, <2>4 DEF Geos
<1>4. ASSUME NEW w \in Workers, Commit(w)
      PROVE  Geos' = Geos \cup DiffGeos(w)
  BY <1>4, ChosenGeos
<1>5. \/ versions' = versions
      \/ \E n \in Namespaces, p \in Paths, h \in Hashes, t \in Instants : CreateGeo(n, p, h, t)
      \/ \E g \in Geos, h \in Hashes, t \in Instants : PatchGeo(g, h, t)
      \/ \E w \in Workers : Commit(w)
  BY DEF Next, vars, Tick, MapGeos, Start, ReadSource, ReadTarget, Import, InsertForked, Fail,
         Abort
<1> QED
  BY <1>1, <1>2, <1>3, <1>4, <1>5

(* Which steps a proof about the forks has to consider. *)
LEMMA WhatRuns ==
  ASSUME [Next]_vars
  PROVE  \/ UNCHANGED req
         \/ \E w \in Workers :
              \/ \E q \in Requests : Start(w, q)
              \/ ReadSource(w) \/ ReadTarget(w) \/ Import(w) \/ InsertForked(w)
              \/ req' = [req EXCEPT ![w] = Idle] /\ (versions' = versions \/ Commit(w))
  BY DEF Next, vars, Tick, CreateGeo, PatchGeo, MapGeos, Commit, Fail, Abort

(* What a fork's step does to its own transaction. *)
LEMMA ForkStep ==
  ASSUME TypeOK, NEW w \in Workers
  PROVE  /\ \A q \in Requests : Start(w, q) => \E t \in Transaction :
              /\ req' = [req EXCEPT ![w] = t] /\ UNCHANGED <<clock, versions>>
              /\ t.pc = "started" /\ t.body = q /\ t.at = clock /\ t.source = {}
         /\ ReadSource(w) => \E t \in Transaction :
              /\ req' = [req EXCEPT ![w] = t] /\ UNCHANGED <<clock, versions>>
              /\ req[w].pc = "started" /\ t.pc = "sourced"
              /\ t.source = Listing(Source(w), req[w].at)
              /\ t.body = req[w].body /\ t.at = req[w].at
         /\ ReadTarget(w) => \E t \in Transaction :
              /\ req' = [req EXCEPT ![w] = t] /\ UNCHANGED <<clock, versions>>
              /\ req[w].pc = "sourced" /\ t.pc = "checked"
              /\ t.body = req[w].body /\ t.at = req[w].at /\ t.source = req[w].source
         /\ Import(w) => \E t \in Transaction :
              /\ req' = [req EXCEPT ![w] = t] /\ UNCHANGED <<clock, versions>>
              /\ req[w].pc = "checked" /\ t.pc = "imported"
              /\ Forkable(w) /\ ~ ImportTagLocked(Target(w))
              /\ t.body = req[w].body /\ t.at = req[w].at
              /\ t.source = req[w].source /\ t.target = req[w].target
         /\ InsertForked(w) => \E t \in Transaction :
              /\ req' = [req EXCEPT ![w] = t] /\ UNCHANGED <<clock, versions>>
              /\ req[w].pc = "imported" /\ t.pc = "inserted" /\ Creatable(w)
              /\ t.body = req[w].body /\ t.at = clock
              /\ t.source = req[w].source /\ t.target = req[w].target
<1> USE DEF TypeOK, Transaction
<1>0. \A n, a : Listing(n, a) \in SUBSET Pair
  BY DEF Listing, Version, Geography, Pair
<1>6. clock \in Nat
  OBVIOUS
<1>1. ASSUME NEW q \in Requests, Start(w, q)
      PROVE  \E t \in Transaction :
              /\ req' = [req EXCEPT ![w] = t] /\ UNCHANGED <<clock, versions>>
              /\ t.pc = "started" /\ t.body = q /\ t.at = clock /\ t.source = {}
  <2> DEFINE t == [Idle EXCEPT !.pc = "started", !.body = q, !.at = clock]
  <2>1. t \in Transaction /\ t.pc = "started" /\ t.body = q /\ t.at = clock /\ t.source = {}
    BY <1>6 DEF Idle
  <2>2. req' = [req EXCEPT ![w] = t] /\ UNCHANGED <<clock, versions>>
    BY <1>1 DEF Start
  <2> HIDE DEF t
  <2> QED
    BY <2>1, <2>2
<1>2. ASSUME ReadSource(w)
      PROVE  \E t \in Transaction :
              /\ req' = [req EXCEPT ![w] = t] /\ UNCHANGED <<clock, versions>>
              /\ req[w].pc = "started" /\ t.pc = "sourced"
              /\ t.source = Listing(Source(w), req[w].at)
              /\ t.body = req[w].body /\ t.at = req[w].at
  <2> DEFINE t == [req[w] EXCEPT !.pc = "sourced", !.source = Listing(Source(w), req[w].at)]
  <2>1. /\ t \in Transaction /\ t.pc = "sourced" /\ t.source = Listing(Source(w), req[w].at)
        /\ t.body = req[w].body /\ t.at = req[w].at
    BY <1>0
  <2> QED
    BY <1>2, <2>1 DEF ReadSource
<1>3. ASSUME ReadTarget(w)
      PROVE  \E t \in Transaction :
              /\ req' = [req EXCEPT ![w] = t] /\ UNCHANGED <<clock, versions>>
              /\ req[w].pc = "sourced" /\ t.pc = "checked"
              /\ t.body = req[w].body /\ t.at = req[w].at /\ t.source = req[w].source
  <2> DEFINE t == [req[w] EXCEPT !.pc = "checked", !.target = Listing(Target(w), req[w].at)]
  <2>1. /\ t \in Transaction /\ t.pc = "checked"
        /\ t.body = req[w].body /\ t.at = req[w].at /\ t.source = req[w].source
    BY <1>0
  <2> QED
    BY <1>3, <2>1 DEF ReadTarget
<1>4. ASSUME Import(w)
      PROVE  \E t \in Transaction :
              /\ req' = [req EXCEPT ![w] = t] /\ UNCHANGED <<clock, versions>>
              /\ req[w].pc = "checked" /\ t.pc = "imported"
              /\ Forkable(w) /\ ~ ImportTagLocked(Target(w))
              /\ t.body = req[w].body /\ t.at = req[w].at
              /\ t.source = req[w].source /\ t.target = req[w].target
  <2> DEFINE t == [req[w] EXCEPT !.pc = "imported"]
  <2>1. /\ t \in Transaction /\ t.pc = "imported"
        /\ t.body = req[w].body /\ t.at = req[w].at
        /\ t.source = req[w].source /\ t.target = req[w].target
    OBVIOUS
  <2> QED
    BY <1>4, <2>1 DEF Import
<1>5. ASSUME InsertForked(w)
      PROVE  \E t \in Transaction :
              /\ req' = [req EXCEPT ![w] = t] /\ UNCHANGED <<clock, versions>>
              /\ req[w].pc = "imported" /\ t.pc = "inserted" /\ Creatable(w)
              /\ t.body = req[w].body /\ t.at = clock
              /\ t.source = req[w].source /\ t.target = req[w].target
  <2> DEFINE t == [req[w] EXCEPT !.pc = "inserted", !.at = clock]
  <2>1. /\ t \in Transaction /\ t.pc = "inserted"
        /\ t.body = req[w].body /\ t.at = clock
        /\ t.source = req[w].source /\ t.target = req[w].target
    BY <1>6
  <2> QED
    BY <1>5, <2>1 DEF InsertForked
<1> QED
  BY <1>1, <1>2, <1>3, <1>4, <1>5

-----------------------------------------------------------------------------
(* Finite sets: the images under a function, and so the listings. *)
LEMMA ImageFinite ==
  ASSUME NEW S, IsFiniteSet(S), NEW f
  PROVE  IsFiniteSet({f[x] : x \in S})
<1> DEFINE T == {f[x] : x \in S}
           g == [x \in S |-> f[x]]
<1>1. g \in Surjection(S, T)
  BY DEF Surjection
<1> QED
  BY <1>1, FS_Surjection

LEMMA ListingFinite ==
  ASSUME IsFiniteSet(versions), NEW n, NEW t
  PROVE  IsFiniteSet(Listing(n, t))
<1> DEFINE S == {u \in versions : u.geo \in members[n] /\ ValidAt(u, t)}
           f == [v \in S |-> <<v.geo[2], v.hash>>]
<1>1. IsFiniteSet(S)
  BY FS_Subset
<1>2. {f[v] : v \in S} = Listing(n, t)
  BY DEF Listing
<1> HIDE DEF f, S
<1> QED
  BY <1>1, <1>2, ImageFinite

(* One path for each pair of a difference: its paths are finite too, and when *)
(* there are as many of them as pairs no path has two hashes.                 *)
LEMMA DiffFinite ==
  ASSUME Finite, NEW w \in Workers
  PROVE  IsFiniteSet(Diff(w)) /\ IsFiniteSet(DiffPaths(w))
<1> DEFINE f == [d \in Diff(w) |-> d[1]]
<1>1. IsFiniteSet(Diff(w))
  BY FS_Subset DEF Finite, Diff
<1>2. {f[d] : d \in Diff(w)} = DiffPaths(w)
  BY DEF DiffPaths
<1> HIDE DEF f
<1> QED
  BY <1>1, <1>2, ImageFinite

LEMMA DiffIsFunction ==
  ASSUME Finite, NEW w \in Workers, Creatable(w)
  PROVE  \A d, e \in Diff(w) : d[1] = e[1] => d = e
<1> DEFINE f == [d \in Diff(w) |-> d[1]]
<1>1. \A d \in Diff(w) : f[d] = d[1]
  OBVIOUS
<1>2. f \in [Diff(w) -> DiffPaths(w)]
  BY DEF DiffPaths
<1> HIDE DEF f
<1>3. \A p \in DiffPaths(w) : \E d \in Diff(w) : f[d] = p
  BY <1>1 DEF DiffPaths
<1>4. f \in Surjection(Diff(w), DiffPaths(w))
  BY <1>2, <1>3 DEF Surjection
<1>5. f \in Injection(Diff(w), DiffPaths(w))
  BY <1>4, DiffFinite, FS_Surjection DEF Creatable
<1> QED
  BY <1>1, <1>5 DEF Injection, IsInjective

-----------------------------------------------------------------------------
LEMMA MappedMembers ==
  ASSUME TypeOK, NEW n \in Namespaces, NEW S \in SUBSET Geography
  PROVE  /\ Mapped(n, S) \in [Namespaces -> SUBSET Geography]
         /\ \A m \in Namespaces : Mapped(n, S)[m] \subseteq members[m] \cup S
         /\ \A m \in Namespaces \ {n} : Mapped(n, S)[m] = members[m]
  BY DEF TypeOK, Mapped

LEMMA TypeStep == TypeOK /\ Running /\ [Next]_vars => TypeOK'
<1> SUFFICES ASSUME TypeOK, Running, [Next]_vars
             PROVE  TypeOK'
  OBVIOUS
<1>1. clock' \in 1 .. MaxTime
  <2>1. clock' = clock \/ (clock < MaxTime /\ clock' = clock + 1)
    BY DEF Next, vars, Tick, CreateGeo, PatchGeo, MapGeos, Start, ReadSource, ReadTarget,
           Import, InsertForked, Commit, Fail, Abort
  <2> QED
    BY <2>1 DEF TypeOK
<1>2. writes' \in 0 .. MaxWrites
  <2>1. writes' = writes \/ (writes < MaxWrites /\ writes' = writes + 1)
    BY DEF Next, vars, Tick, CreateGeo, PatchGeo, MapGeos, Start, ReadSource, ReadTarget,
           Import, InsertForked, Commit, Fail, Abort
  <2> QED
    BY <2>1 DEF TypeOK
<1>3. \A g \in Geography, h \in Hashes, t \in Nat : New(g, h, t) \in Version
  BY DEF New, Version
<1>4. Geos \subseteq Geography
  BY DEF TypeOK, Geos, Version
<1>5. versions' \subseteq Version
  <2>1. ASSUME NEW n \in Namespaces, NEW p \in Paths, NEW h \in Hashes, NEW t \in Instants,
               CreateGeo(n, p, h, t)
        PROVE  versions' \subseteq Version
    <3>1. <<n, p>> \in Geography /\ t \in Nat
      BY DEF Geography, Instants
    <3> QED
      BY <1>3, <2>1, <3>1 DEF CreateGeo, TypeOK
  <2>2. ASSUME NEW g \in Geos, NEW h \in Hashes, NEW t \in Instants, PatchGeo(g, h, t)
        PROVE  versions' \subseteq Version
    <3>1. New(g, h, t) \in Version /\ t \in Nat
      BY <1>3, <1>4 DEF Instants
    <3>2. \A v \in versions : v \in Version /\ [v EXCEPT !.to = t] \in Version
      BY <3>1 DEF TypeOK, Version
    <3> QED
      BY <2>2, <3>1, <3>2 DEF PatchGeo
  <2>3. ASSUME NEW w \in Workers, Commit(w)
        PROVE  versions' \subseteq Version
    <3>1. PICK f \in Chosen(w) :
            /\ \A p \in DiffPaths(w) : f[p] \in Hashes /\ <<p, f[p]>> \in Diff(w)
            /\ versions' = versions \cup
                 {New(<<Target(w), p>>, f[p], req[w].at) : p \in DiffPaths(w)}
      BY <2>3, CommitVersions
    <3>2. /\ req[w].at \in Nat
          /\ \A p \in DiffPaths(w) : <<Target(w), p>> \in Geography
      BY <2>3, BodyType DEF Commit, TypeOK, Transaction, Geography
    <3>3. \A p \in DiffPaths(w) : New(<<Target(w), p>>, f[p], req[w].at) \in Version
      BY <1>3, <3>1, <3>2
    <3> QED
      BY <3>1, <3>3 DEF TypeOK
  <2> QED
    BY <2>1, <2>2, <2>3 DEF TypeOK, Next, vars, Tick, MapGeos, Start, ReadSource, ReadTarget,
       Import, InsertForked, Fail, Abort
<1>6. /\ members' \in [Namespaces -> SUBSET Geography]
      /\ \A n \in Namespaces : members'[n] \subseteq Geos'
  <2>1. Geos \subseteq Geos' /\ \A n \in Namespaces : members[n] \subseteq Geos
    BY GeosGrow DEF TypeOK, Geos
  <2>2. ASSUME NEW n \in Namespaces, NEW S \in SUBSET Geos, MapGeos(n, S)
        PROVE  /\ members' \in [Namespaces -> SUBSET Geography]
               /\ \A m \in Namespaces : members'[m] \subseteq Geos'
    <3>1. members' = Mapped(n, S) /\ S \in SUBSET Geography
      BY <1>4, <2>2 DEF MapGeos
    <3> QED
      BY <2>1, <3>1, MappedMembers
  <2>3. ASSUME NEW w \in Workers, Commit(w)
        PROVE  /\ members' \in [Namespaces -> SUBSET Geography]
               /\ \A m \in Namespaces : members'[m] \subseteq Geos'
    <3>1. members' = Mapped(Target(w), DiffGeos(w)) /\ req[w].pc # "idle"
      BY <2>3 DEF Commit
    <3>2. Target(w) \in Namespaces /\ DiffGeos(w) \in SUBSET Geography
      BY <3>1, BodyType
    <3>3. \A m \in Namespaces : members'[m] \subseteq members[m] \cup DiffGeos(w)
      BY <3>1, <3>2, MappedMembers
    <3> QED
      BY <2>1, <2>3, <3>1, <3>2, <3>3, ChosenGeos, MappedMembers
  <2>4. CASE UNCHANGED members
    BY <2>1, <2>4 DEF TypeOK
  <2> QED
    BY <2>2, <2>3, <2>4 DEF Next, vars, Tick, CreateGeo, PatchGeo, Start, ReadSource,
       ReadTarget, Import, InsertForked, Fail, Abort
<1>7. req' \in [Workers -> Transaction]
  <2>1. ASSUME NEW w \in Workers, NEW t \in Transaction, req' = [req EXCEPT ![w] = t]
        PROVE  req' \in [Workers -> Transaction]
    BY <2>1 DEF TypeOK
  <2>2. CASE UNCHANGED req
    BY <2>2 DEF TypeOK
  <2>3. ASSUME NEW w \in Workers,
               \/ \E q \in Requests : Start(w, q)
               \/ ReadSource(w) \/ ReadTarget(w) \/ Import(w) \/ InsertForked(w)
               \/ req' = [req EXCEPT ![w] = Idle]
        PROVE  \E t \in Transaction : req' = [req EXCEPT ![w] = t]
    BY <2>3, ForkStep, IdleType
  <2> QED
    BY <2>1, <2>2, <2>3, WhatRuns
<1> QED
  BY <1>1, <1>2, <1>5, <1>6, <1>7 DEF TypeOK, Geos

-----------------------------------------------------------------------------
LEMMA ClockGrows == TypeOK /\ [Next]_vars => clock \in Nat /\ clock' \in Nat /\ clock <= clock'
<1> SUFFICES ASSUME TypeOK, [Next]_vars
             PROVE  clock \in Nat /\ clock' \in Nat /\ clock <= clock'
  OBVIOUS
<1>1. clock' = clock \/ clock' = clock + 1
  BY DEF Next, vars, Tick, CreateGeo, PatchGeo, MapGeos, Start, ReadSource, ReadTarget,
         Import, InsertForked, Commit, Fail, Abort
<1> QED
  BY <1>1 DEF TypeOK

LEMMA RunningStep == TypeOK /\ Running /\ [Next]_vars => Running'
<1> SUFFICES ASSUME TypeOK, Running, [Next]_vars
             PROVE  Running'
  OBVIOUS
<1>1. clock \in Nat /\ clock' \in Nat /\ clock <= clock'
  BY ClockGrows
<1>2. \A w \in Workers : req[w].at \in Nat
  BY DEF TypeOK, Transaction
<1>3. CASE UNCHANGED req
  BY <1>1, <1>2, <1>3 DEF Running
<1>4. ASSUME NEW w \in Workers, NEW t \in Transaction, req' = [req EXCEPT ![w] = t],
             t.pc # "idle" => t.body \in Requests /\ t.at <= clock
      PROVE  Running'
  <2>1. t.at \in Nat
    BY DEF Transaction
  <2>2. req'[w] = t /\ \A v \in Workers \ {w} : req'[v] = req[v]
    BY <1>4 DEF TypeOK
  <2> QED
    BY <1>1, <1>2, <1>4, <2>1, <2>2 DEF Running
<1>5. ASSUME NEW w \in Workers
      PROVE  /\ (\E q \in Requests : Start(w, q)) => Running'
             /\ ReadSource(w) \/ ReadTarget(w) \/ Import(w) \/ InsertForked(w) => Running'
             /\ req' = [req EXCEPT ![w] = Idle] => Running'
  <2>1. ASSUME NEW q \in Requests, Start(w, q)
        PROVE  Running'
    <3>1. PICK t \in Transaction : req' = [req EXCEPT ![w] = t] /\ t.body = q /\ t.at = clock
      BY <2>1, ForkStep
    <3>2. t.body \in Requests /\ t.at <= clock
      BY <1>1, <3>1
    <3> QED
      BY <1>4, <3>1, <3>2
  <2>2. ASSUME ReadSource(w) \/ ReadTarget(w) \/ Import(w) \/ InsertForked(w)
        PROVE  Running'
    <3>1. PICK t \in Transaction :
            /\ req' = [req EXCEPT ![w] = t] /\ req[w].pc # "idle"
            /\ t.body = req[w].body /\ t.at \in {req[w].at, clock}
      BY <2>2, ForkStep
    <3>2. t.body \in Requests /\ t.at <= clock
      BY <1>1, <3>1 DEF Running
    <3> QED
      BY <1>4, <3>1, <3>2
  <2>3. ASSUME req' = [req EXCEPT ![w] = Idle]
        PROVE  Running'
    BY <1>4, <2>3, IdleType
  <2> QED
    BY <2>1, <2>2, <2>3
<1> QED
  BY <1>3, <1>5, WhatRuns

LEMMA FiniteStep == TypeOK /\ Running /\ Finite /\ [Next]_vars => Finite'
<1> SUFFICES ASSUME TypeOK, Running, Finite, [Next]_vars
             PROVE  Finite'
  OBVIOUS
<1>1. IsFiniteSet(versions')
  <2>1. ASSUME NEW n \in Namespaces, NEW p \in Paths, NEW h \in Hashes, NEW t \in Instants,
               CreateGeo(n, p, h, t)
        PROVE  IsFiniteSet(versions')
    BY <2>1, FS_AddElement DEF CreateGeo, Finite
  <2>2. ASSUME NEW g \in Geos, NEW h \in Hashes, NEW t \in Instants, PatchGeo(g, h, t)
        PROVE  IsFiniteSet(versions')
    <3> DEFINE f == [v \in versions |-> IF v \in Open(g) THEN [v EXCEPT !.to = t] ELSE v]
               S == {f[v] : v \in versions}
    <3>1. versions' = S \cup {New(g, h, t)}
      BY <2>2 DEF PatchGeo
    <3> HIDE DEF f
    <3>2. IsFiniteSet(S)
      BY ImageFinite DEF Finite
    <3> QED
      BY <3>1, <3>2, FS_AddElement
  <2>3. ASSUME NEW w \in Workers, Commit(w)
        PROVE  IsFiniteSet(versions')
    <3>1. PICK f \in Chosen(w) :
            versions' = versions \cup
              {New(<<Target(w), p>>, f[p], req[w].at) : p \in DiffPaths(w)}
      BY <2>3, CommitVersions
    <3> DEFINE g == [p \in DiffPaths(w) |-> New(<<Target(w), p>>, f[p], req[w].at)]
               S == {g[p] : p \in DiffPaths(w)}
    <3>2. versions' = versions \cup S
      BY <3>1
    <3> HIDE DEF g
    <3>3. IsFiniteSet(S)
      BY ImageFinite, DiffFinite
    <3> QED
      BY <3>2, <3>3, FS_Union DEF Finite
  <2> QED
    BY <2>1, <2>2, <2>3 DEF Finite, Next, vars, Tick, MapGeos, Start, ReadSource, ReadTarget,
       Import, InsertForked, Fail, Abort
<1>2. ASSUME NEW w \in Workers, NEW t \in Transaction, req' = [req EXCEPT ![w] = t],
             IsFiniteSet(t.source)
      PROVE  Finite'
  BY <1>1, <1>2 DEF Finite, TypeOK
<1>3. CASE UNCHANGED req
  BY <1>1, <1>3 DEF Finite
<1>4. ASSUME NEW w \in Workers
      PROVE  /\ (\E q \in Requests : Start(w, q)) => Finite'
             /\ ReadSource(w) => Finite'
             /\ ReadTarget(w) \/ Import(w) \/ InsertForked(w) => Finite'
             /\ req' = [req EXCEPT ![w] = Idle] => Finite'
  <2>1. IsFiniteSet({})
    BY FS_EmptySet
  <2>2. ASSUME NEW q \in Requests, Start(w, q)
        PROVE  Finite'
    <3>1. PICK t \in Transaction : req' = [req EXCEPT ![w] = t] /\ t.source = {}
      BY <2>2, ForkStep
    <3> QED
      BY <1>2, <2>1, <3>1
  <2>3. ASSUME ReadSource(w)
        PROVE  Finite'
    <3>1. PICK t \in Transaction :
            req' = [req EXCEPT ![w] = t] /\ t.source = Listing(Source(w), req[w].at)
      BY <2>3, ForkStep
    <3>2. IsFiniteSet(Listing(Source(w), req[w].at))
      BY ListingFinite DEF Finite
    <3> QED
      BY <1>2, <3>1, <3>2
  <2>4. ASSUME ReadTarget(w) \/ Import(w) \/ InsertForked(w)
        PROVE  Finite'
    <3>1. PICK t \in Transaction : req' = [req EXCEPT ![w] = t] /\ t.source = req[w].source
      BY <2>4, ForkStep
    <3> QED
      BY <1>2, <3>1 DEF Finite
  <2>5. ASSUME req' = [req EXCEPT ![w] = Idle]
        PROVE  Finite'
    BY <1>2, <2>1, <2>5, IdleType
  <2> QED
    BY <2>2, <2>3, <2>4, <2>5
<1> QED
  BY <1>3, <1>4, WhatRuns

(* The four kinds of step that matter to what a fork locks and has checked. *)
LEMMA LockSteps ==
  ASSUME TypeOK, [Next]_vars
  PROVE  \/ UNCHANGED req
         \/ \E w \in Workers, t \in Transaction :
              /\ req' = [req EXCEPT ![w] = t]
              /\ \/ t.pc \notin {"imported", "inserted"}
                 \/ /\ t.pc = "imported" /\ Forkable(w) /\ ~ ImportTagLocked(Target(w))
                    /\ t.body = req[w].body
                    /\ t.source = req[w].source /\ t.target = req[w].target
                 \/ /\ req[w].pc = "imported" /\ t.pc = "inserted" /\ Creatable(w)
                    /\ versions' = versions
                    /\ t.body = req[w].body
                    /\ t.source = req[w].source /\ t.target = req[w].target
<1> DEFINE P(w, t) ==
             /\ req' = [req EXCEPT ![w] = t]
             /\ \/ t.pc \notin {"imported", "inserted"}
                \/ /\ t.pc = "imported" /\ Forkable(w) /\ ~ ImportTagLocked(Target(w))
                   /\ t.body = req[w].body
                   /\ t.source = req[w].source /\ t.target = req[w].target
                \/ /\ req[w].pc = "imported" /\ t.pc = "inserted" /\ Creatable(w)
                   /\ versions' = versions
                   /\ t.body = req[w].body
                   /\ t.source = req[w].source /\ t.target = req[w].target
<1>1. ASSUME NEW w \in Workers, NEW q \in Requests, Start(w, q)
      PROVE  \E t \in Transaction : P(w, t)
  <2>1. PICK t \in Transaction : req' = [req EXCEPT ![w] = t] /\ t.pc = "started"
    BY <1>1, ForkStep
  <2> QED
    BY <2>1
<1>2. ASSUME NEW w \in Workers, ReadSource(w)
      PROVE  \E t \in Transaction : P(w, t)
  <2>1. PICK t \in Transaction : req' = [req EXCEPT ![w] = t] /\ t.pc = "sourced"
    BY <1>2, ForkStep
  <2> QED
    BY <2>1
<1>3. ASSUME NEW w \in Workers, ReadTarget(w)
      PROVE  \E t \in Transaction : P(w, t)
  <2>1. PICK t \in Transaction : req' = [req EXCEPT ![w] = t] /\ t.pc = "checked"
    BY <1>3, ForkStep
  <2> QED
    BY <2>1
<1>4. ASSUME NEW w \in Workers, Import(w)
      PROVE  \E t \in Transaction : P(w, t)
  <2>1. PICK t \in Transaction :
          /\ req' = [req EXCEPT ![w] = t] /\ t.pc = "imported"
          /\ Forkable(w) /\ ~ ImportTagLocked(Target(w))
          /\ t.body = req[w].body /\ t.source = req[w].source /\ t.target = req[w].target
    BY <1>4, ForkStep
  <2> QED
    BY <2>1
<1>5. ASSUME NEW w \in Workers, InsertForked(w)
      PROVE  \E t \in Transaction : P(w, t)
  <2>1. PICK t \in Transaction :
          /\ req' = [req EXCEPT ![w] = t] /\ UNCHANGED <<clock, versions>>
          /\ req[w].pc = "imported" /\ t.pc = "inserted" /\ Creatable(w)
          /\ t.body = req[w].body /\ t.source = req[w].source /\ t.target = req[w].target
    BY <1>5, ForkStep
  <2> QED
    BY <2>1
<1>6. ASSUME NEW w \in Workers, req' = [req EXCEPT ![w] = Idle]
      PROVE  \E t \in Transaction : P(w, t)
  <2>1. P(w, Idle)
    BY <1>6, IdleType
  <2> QED
    BY <2>1, IdleType
<1> HIDE DEF P
<1>7. UNCHANGED req \/ \E w \in Workers, t \in Transaction : P(w, t)
  BY <1>1, <1>2, <1>3, <1>4, <1>5, <1>6, WhatRuns
<1> QED
  BY <1>7 DEF P

LEMMA CheckedStep == TypeOK /\ Checked /\ [Next]_vars => Checked'
<1> SUFFICES ASSUME TypeOK, Checked, [Next]_vars
             PROVE  Checked'
  OBVIOUS
<1>1. CASE UNCHANGED req
  BY <1>1 DEF Checked, Locks
<1>2. ASSUME NEW w \in Workers, NEW t \in Transaction, req' = [req EXCEPT ![w] = t],
             t.pc \in {"imported", "inserted"} => t.target \subseteq t.source
      PROVE  Checked'
  BY <1>2 DEF TypeOK, Checked, Locks
<1>3. ASSUME NEW w \in Workers, NEW t \in Transaction, req' = [req EXCEPT ![w] = t],
             t.pc = "imported", Forkable(w),
             t.source = req[w].source, t.target = req[w].target
      PROVE  Checked'
  <2>1. t.target \subseteq t.source
    BY <1>3 DEF Forkable
  <2> QED
    BY <1>2, <1>3, <2>1
<1>4. ASSUME NEW w \in Workers, NEW t \in Transaction, req' = [req EXCEPT ![w] = t],
             req[w].pc = "imported",
             t.source = req[w].source, t.target = req[w].target
      PROVE  Checked'
  <2>1. t.target \subseteq t.source
    BY <1>4 DEF Checked, Locks
  <2> QED
    BY <1>2, <1>4, <2>1
<1> QED
  BY <1>1, <1>2, <1>3, <1>4, LockSteps

(* The geo_import tag of the target is locked from the import to the commit. *)
LEMMA OneForkStep == TypeOK /\ OneFork /\ [Next]_vars => OneFork'
<1> SUFFICES ASSUME TypeOK, OneFork, [Next]_vars
             PROVE  OneFork'
  OBVIOUS
<1>1. CASE UNCHANGED req
  BY <1>1 DEF OneFork, Locks, Target
<1>2. ASSUME NEW w \in Workers, NEW t \in Transaction, req' = [req EXCEPT ![w] = t],
             t.pc \in {"imported", "inserted"} =>
               \A v \in Workers \ {w} : Locks(v) => Target(v) # t.body.target
      PROVE  OneFork'
  <2>1. req'[w] = t /\ \A v \in Workers \ {w} : req'[v] = req[v]
    BY <1>2 DEF TypeOK
  <2> QED
    BY <1>2, <2>1 DEF OneFork, Locks, Target
<1>3. ASSUME NEW w \in Workers, NEW t \in Transaction, req' = [req EXCEPT ![w] = t],
             ~ ImportTagLocked(Target(w)), t.body = req[w].body
      PROVE  OneFork'
  <2>1. \A v \in Workers : Locks(v) => Target(v) # t.body.target
    BY <1>3 DEF ImportTagLocked, Locks, Target
  <2> QED
    BY <1>2, <1>3, <2>1
<1>4. ASSUME NEW w \in Workers, NEW t \in Transaction, req' = [req EXCEPT ![w] = t],
             req[w].pc = "imported", t.body = req[w].body
      PROVE  OneFork'
  <2>1. \A v \in Workers \ {w} : Locks(v) => Target(v) # t.body.target
    BY <1>4 DEF OneFork, Locks, Target
  <2> QED
    BY <1>2, <1>4, <2>1
<1> QED
  BY <1>1, <1>2, <1>3, <1>4, LockSteps

(* The geography tag keeps creations out, the geo_import tag other forks. *)
LEMMA StillCreatable ==
  ASSUME TypeOK, Running, OneFork, Creating, [Next]_vars,
         NEW w \in Workers, req[w].pc = "inserted", req'[w] = req[w]
  PROVE  Creatable(w)'
<1>1. Creatable(w)
  BY DEF Creating
<1>2. /\ Diff(w)' = Diff(w) /\ DiffPaths(w)' = DiffPaths(w) /\ DiffGeos(w)' = DiffGeos(w)
  BY DEF Diff, DiffPaths, DiffGeos, Target
<1>3. ASSUME NEW g \in Geos' \ Geos, g \in DiffGeos(w)
      PROVE  FALSE
  <2>1. g[1] = Target(w)
    BY <1>3 DEF DiffGeos
  <2>2. GeographyTagLocked(g[1])
    BY <2>1 DEF GeographyTagLocked
  <2>3. PICK v \in Workers : Commit(v) /\ g \in DiffGeos(v)
    BY <1>3, <2>2, GeosGrow
  <2>4. g[1] = Target(v) /\ req[v].pc = "inserted" /\ req'[v].pc = "idle"
    BY <2>3, IdleType DEF Commit, DiffGeos, TypeOK
  <2>5. v = w
    BY <2>1, <2>4 DEF OneFork, Locks
  <2> QED
    BY <2>4, <2>5
<1>4. DiffGeos(w) \cap Geos' = {}
  BY <1>1, <1>3 DEF Creatable
<1> QED
  BY <1>1, <1>2, <1>4 DEF Creatable

LEMMA CreatingStep ==
  TypeOK /\ Running /\ OneFork /\ Creating /\ [Next]_vars => Creating'
<1> SUFFICES ASSUME TypeOK, Running, OneFork, Creating, [Next]_vars,
                    NEW w \in Workers, req'[w].pc = "inserted"
             PROVE  Creatable(w)'
  BY DEF Creating
<1>1. CASE req'[w] = req[w]
  BY <1>1, StillCreatable
<1>2. CASE req'[w] # req[w]
  <2>1. PICK v \in Workers, t \in Transaction :
          /\ req' = [req EXCEPT ![v] = t]
          /\ t.pc = "inserted" => /\ Creatable(v) /\ versions' = versions
                                  /\ t.body = req[v].body
                                  /\ t.source = req[v].source /\ t.target = req[v].target
    BY <1>2, LockSteps
  <2>2. v = w /\ req'[w] = t
    BY <1>2, <2>1 DEF TypeOK
  <2>3. Creatable(w) /\ versions' = versions
    BY <2>1, <2>2
  <2>4. /\ Diff(w)' = Diff(w) /\ DiffPaths(w)' = DiffPaths(w)
        /\ DiffGeos(w)' = DiffGeos(w) /\ Geos' = Geos
    BY <2>1, <2>2 DEF Diff, DiffPaths, DiffGeos, Target, Geos
  <2> QED
    BY <2>3, <2>4 DEF Creatable
<1> QED
  BY <1>1, <1>2

-----------------------------------------------------------------------------
(* What a fork checked and locked is so in every reachable state. *)
THEOREM Invariance == Spec => []Inv
<1>1. Init => Inv
  <2> SUFFICES ASSUME Init
               PROVE  Inv
    OBVIOUS
  <2>1. \A w \in Workers : req[w] = Idle
    BY DEF Init
  <2>2. TypeOK
    BY IdleType DEF Init, TypeOK, Version, Geography
  <2>3. Running /\ Checked /\ OneFork /\ Creating
    BY <2>1, IdleType DEF Running, Checked, OneFork, Creating, Locks
  <2>4. Finite
    BY <2>1, IdleType, FS_EmptySet DEF Init, Finite
  <2> QED
    BY <2>2, <2>3, <2>4 DEF Inv
<1>2. Inv /\ [Next]_vars => Inv'
  BY TypeStep, RunningStep, FiniteStep, CheckedStep, OneForkStep, CreatingStep DEF Inv
<1> QED
  BY <1>1, <1>2, PTL DEF Spec

(* The types of all the state; only geographies that exist are mapped. *)
THEOREM TypeCorrect == Spec => []TypeOK
<1>1. Inv => TypeOK
  BY DEF Inv
<1> QED
  BY <1>1, Invariance, PTL

-----------------------------------------------------------------------------
(* What a commit creates: one row for each pair of the difference. *)
Forked(w) == {New(<<Target(w), d[1]>>, d[2], req[w].at) : d \in Diff(w)}

LEMMA CommitsCommit ==
  ASSUME TypeOK, [Next]_vars, NEW w \in Workers, Commits(w)
  PROVE  Commit(w)
<1>1. req[w].pc = "inserted" /\ versions' # versions /\ req'[w].pc = "idle"
  BY DEF Commits
<1>2. ASSUME req' = req
      PROVE  FALSE
  BY <1>1, <1>2
<1>3. PICK v \in Workers : Commit(v)
  BY <1>1, <1>2 DEF Next, vars, Tick, CreateGeo, PatchGeo, MapGeos, Start, ReadSource,
     ReadTarget, Import, InsertForked, Fail, Abort
<1>4. v = w
  BY <1>1, <1>3 DEF Commit, TypeOK
<1> QED
  BY <1>3, <1>4

LEMMA CommitRows ==
  ASSUME Inv, NEW w \in Workers, Commit(w)
  PROVE  /\ versions' = versions \cup Forked(w)
         /\ \A u \in versions : u.geo \notin DiffGeos(w)
         /\ \A u \in Forked(w) : u.geo \in DiffGeos(w)
<1> USE DEF Inv
<1>1. Creatable(w) /\ req[w].pc # "idle"
  BY DEF Creating, Commit
<1>2. PICK f \in Chosen(w) :
        /\ \A p \in DiffPaths(w) : f[p] \in Hashes /\ <<p, f[p]>> \in Diff(w)
        /\ versions' = versions \cup
             {New(<<Target(w), p>>, f[p], req[w].at) : p \in DiffPaths(w)}
  BY CommitVersions
<1>3. \A d \in Diff(w) : d[1] \in DiffPaths(w) /\ d[2] = f[d[1]]
  <2> SUFFICES ASSUME NEW d \in Diff(w)
               PROVE  d[1] \in DiffPaths(w) /\ d[2] = f[d[1]]
    OBVIOUS
  <2>1. d[1] \in DiffPaths(w)
    BY DEF DiffPaths
  <2>2. <<d[1], f[d[1]]>> \in Diff(w)
    BY <1>2, <2>1
  <2>3. <<d[1], f[d[1]]>> = d
    BY <1>1, <2>2, DiffIsFunction
  <2>4. <<d[1], f[d[1]]>>[2] = f[d[1]]
    OBVIOUS
  <2> QED
    BY <2>1, <2>3, <2>4
<1>4. \A p \in DiffPaths(w) : \E d \in Diff(w) : d[1] = p
  BY DEF DiffPaths
<1>5. {New(<<Target(w), p>>, f[p], req[w].at) : p \in DiffPaths(w)} = Forked(w)
  <2>1. ASSUME NEW p \in DiffPaths(w)
        PROVE  New(<<Target(w), p>>, f[p], req[w].at) \in Forked(w)
    <3>1. PICK d \in Diff(w) : d[1] = p
      BY <1>4
    <3>2. d[2] = f[p]
      BY <1>3, <3>1
    <3>3. New(<<Target(w), d[1]>>, d[2], req[w].at) \in Forked(w)
      BY DEF Forked
    <3> QED
      BY <3>1, <3>2, <3>3
  <2>2. ASSUME NEW u \in Forked(w)
        PROVE  u \in {New(<<Target(w), p>>, f[p], req[w].at) : p \in DiffPaths(w)}
    <3>1. PICK d \in Diff(w) : u = New(<<Target(w), d[1]>>, d[2], req[w].at)
      BY DEF Forked
    <3>2. d[1] \in DiffPaths(w) /\ d[2] = f[d[1]]
      BY <1>3
    <3>3. u = New(<<Target(w), d[1]>>, f[d[1]], req[w].at)
      BY <3>1, <3>2
    <3> QED
      BY <3>2, <3>3
  <2> QED
    BY <2>1, <2>2
<1>6. \A u \in versions : u.geo \notin DiffGeos(w)
  BY <1>1 DEF Creatable, Geos
<1>7. \A u \in Forked(w) : u.geo \in DiffGeos(w)
  BY <1>3 DEF Forked, New, DiffGeos
<1> QED
  BY <1>2, <1>5, <1>6, <1>7

(* What is created, path by path, is the difference. *)
LEMMA ForkedPairs ==
  ASSUME Inv, NEW w \in Workers, Commit(w)
  PROVE  {<<u.geo[2], u.hash>> : u \in Forked(w)} = Diff(w)
<1>1. \A d \in Diff(w) : d = <<d[1], d[2]>>
  BY BodyType DEF Inv, Commit, Pair
<1>2. ASSUME NEW d \in Diff(w)
      PROVE  d \in {<<u.geo[2], u.hash>> : u \in Forked(w)}
  <2> DEFINE u == New(<<Target(w), d[1]>>, d[2], req[w].at)
  <2>1. u \in Forked(w)
    BY DEF Forked
  <2>2. u.geo[2] = d[1] /\ u.hash = d[2]
    BY DEF New
  <2> HIDE DEF u
  <2>3. d = <<u.geo[2], u.hash>>
    BY <1>1, <2>2
  <2> QED
    BY <2>1, <2>3
<1>3. ASSUME NEW u \in Forked(w)
      PROVE  <<u.geo[2], u.hash>> \in Diff(w)
  <2>1. PICK d \in Diff(w) : u = New(<<Target(w), d[1]>>, d[2], req[w].at)
    BY DEF Forked
  <2>2. u.geo[2] = d[1] /\ u.hash = d[2]
    BY <2>1 DEF New
  <2> QED
    BY <1>1, <2>2
<1> QED
  BY <1>2, <1>3

(* A fork creates the difference that it listed: each path with the one hash  *)
(* of the source, and none that another request has created in the meantime   *)
(* (fork_bulk under the locks of __validate_create_geos).                     *)
THEOREM ForkCreatesListed == Spec => ForkedAsListed
<1>1. ASSUME Inv, [Next]_vars, NEW w \in Workers, Commits(w)
      PROVE  Diff(w) = {<<v.geo[2], v.hash>> :
                          v \in {u \in versions' : u.geo \in DiffGeos(w)}}
  <2>1. Commit(w)
    BY <1>1, CommitsCommit DEF Inv
  <2>2. {u \in versions' : u.geo \in DiffGeos(w)} = Forked(w)
    BY <1>1, <2>1, CommitRows
  <2> QED
    BY <1>1, <2>1, <2>2, ForkedPairs
<1>2. Inv /\ [Next]_vars =>
        [\A w \in Workers : Commits(w) =>
           Diff(w) = {<<v.geo[2], v.hash>> :
                        v \in {u \in versions' : u.geo \in DiffGeos(w)}}]_vars
  BY <1>1
<1> QED
  BY <1>2, Invariance, PTL DEF Spec, ForkedAsListed

-----------------------------------------------------------------------------
(* After the commit the target's listing has the difference as well, at every *)
(* instant from that of the new rows on.                                      *)
LEMMA CommitTargetListing ==
  ASSUME Inv, NEW w \in Workers, Commit(w), NEW n \in Namespaces, n = Target(w),
         NEW t \in Nat, req[w].at <= t
  PROVE  Listing(n, t)' = Listing(n, t) \cup Diff(w)
<1> DEFINE old == {u \in versions : u.geo \in members[n] /\ ValidAt(u, t)}
           new == {u \in versions' : u.geo \in members'[n] /\ ValidAt(u, t)}
<1>1. /\ versions' = versions \cup Forked(w)
      /\ \A u \in versions : u.geo \notin DiffGeos(w)
      /\ \A u \in Forked(w) : u.geo \in DiffGeos(w)
  BY CommitRows
<1>2. members' = Mapped(n, DiffGeos(w)) /\ Creatable(w)
  BY DEF Inv, Creating, Commit
<1>3. members'[n] = members[n] \cup DiffGeos(w)
  <2>1. \A m \in Namespaces : members[m] \subseteq Geos
    BY DEF Inv, TypeOK, Geos
  <2>2. DiffGeos(w) \cap Geos = {}
    BY <1>2 DEF Creatable
  <2>3. PICK d \in Diff(w) : TRUE
    BY <1>2 DEF Creatable
  <2>4. <<Target(w), d[1]>> \in DiffGeos(w)
    BY DEF DiffGeos, DiffPaths
  <2>5. DiffGeos(w) # UNION {members[m] : m \in Namespaces}
    BY <2>1, <2>2, <2>4
  <2> QED
    BY <1>2, <2>5 DEF Mapped, Inv, TypeOK
<1>4. \A u \in Forked(w) : ValidAt(u, t)
  BY DEF Forked, New, ValidAt
<1>5. new = old \cup Forked(w)
  BY <1>1, <1>3, <1>4
<1>6. Listing(n, t)' = {<<v.geo[2], v.hash>> : v \in new}
  BY DEF Listing, ValidAt
<1>7. Listing(n, t) = {<<v.geo[2], v.hash>> : v \in old}
  BY DEF Listing
<1>8. Listing(n, t)' = {<<v.geo[2], v.hash>> : v \in old}
                         \cup {<<v.geo[2], v.hash>> : v \in Forked(w)}
  <2> HIDE DEF new, old
  <2> QED
    BY <1>5, <1>6
<1> QED
  BY <1>7, <1>8, ForkedPairs

(* Another layer's listing, the source's in particular, stays what it is: the *)
(* new geographies are in no layer yet.                                       *)
LEMMA CommitOtherListing ==
  ASSUME Inv, NEW w \in Workers, Commit(w), NEW n \in Namespaces, n # Target(w), NEW t \in Nat
  PROVE  Listing(n, t)' = Listing(n, t)
<1> DEFINE old == {u \in versions : u.geo \in members[n] /\ ValidAt(u, t)}
           new == {u \in versions' : u.geo \in members'[n] /\ ValidAt(u, t)}
<1>1. /\ versions' = versions \cup Forked(w)
      /\ \A u \in Forked(w) : u.geo \in DiffGeos(w)
  BY CommitRows
<1>2. Target(w) \in Namespaces /\ DiffGeos(w) \in SUBSET Geography
  BY BodyType DEF Inv, Commit
<1>3. members'[n] = members[n]
  BY <1>2, MappedMembers DEF Inv, Commit
<1>4. members[n] \cap DiffGeos(w) = {}
  BY DEF Inv, TypeOK, Creating, Creatable, Commit, Geos
<1>5. new = old
  BY <1>1, <1>3, <1>4
<1>6. Listing(n, t)' = {<<v.geo[2], v.hash>> : v \in new}
  BY DEF Listing, ValidAt
<1>7. Listing(n, t) = {<<v.geo[2], v.hash>> : v \in old}
  BY DEF Listing
<1> HIDE DEF new, old
<1> QED
  BY <1>5, <1>6, <1>7

(* A fork whose two listings are still what it read leaves the target with    *)
(* the listing of the source (fork_geos of api/geography/fork_geos.py).       *)
THEOREM ForkEqualizes == Spec => ForkSyncs
<1>1. ASSUME Inv, [Next]_vars, NEW w \in Workers, Commits(w), Unmoved(w),
             NEW q \in Requests, q = req[w].body
      PROVE  Listing(q.target, clock)' = Listing(q.source, clock)'
  <2>1. Commit(w) /\ clock' = clock
    BY <1>1, CommitsCommit DEF Inv, Commit
  <2>2. /\ q.source \in Namespaces /\ q.source = Source(w)
        /\ q.target \in Namespaces /\ q.target = Target(w)
    BY <1>1 DEF Source, Target, Request
  <2>3. PICK t \in Nat : t = clock
    BY <1>1 DEF Inv, TypeOK
  <2>4. req[w].at <= t
    BY <1>1, <2>1, <2>3 DEF Inv, Running, Commit
  <2>5. /\ req[w].source = Listing(q.source, t) /\ req[w].target = Listing(q.target, t)
    BY <1>1, <2>2, <2>3 DEF Unmoved
  <2>6. q.source # q.target
    <3>1. Diff(w) # {}
      BY <1>1, <2>1 DEF Inv, Creating, Creatable, Commit
    <3> QED
      BY <2>5, <3>1 DEF Diff
  <2>7. Listing(q.target, t)' = Listing(q.target, t) \cup Diff(w)
    BY <1>1, <2>1, <2>2, <2>4, CommitTargetListing
  <2>8. Listing(q.source, t)' = Listing(q.source, t)
    BY <1>1, <2>1, <2>2, <2>6, CommitOtherListing
  <2>9. req[w].target \subseteq req[w].source
    BY <1>1, <2>1 DEF Inv, Checked, Locks, Commit
  <2>10. Listing(q.target, t)' = Listing(q.source, t)'
    BY <2>5, <2>7, <2>8, <2>9 DEF Diff
  <2>11. /\ Listing(q.target, clock)' = Listing(q.target, t)'
         /\ Listing(q.source, clock)' = Listing(q.source, t)'
    BY <2>1, <2>3 DEF Listing, ValidAt
  <2> QED
    BY <2>10, <2>11
<1>2. Inv /\ [Next]_vars =>
        [\A w \in Workers : Commits(w) /\ Unmoved(w)
           => \A q \in Requests : q = req[w].body
                => Listing(q.target, clock)' = Listing(q.source, clock)']_vars
  BY <1>1
<1> QED
  BY <1>2, Invariance, PTL DEF Spec, ForkSyncs
==============================================================================
