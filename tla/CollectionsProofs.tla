-------------------------- MODULE CollectionsProofs --------------------------
(***************************************************************************)
(* The named objects of the server for all sets of workers, readers, paths *)
(* and request bodies.  What a request has inserted, or still will, has to *)
(* be known between its statements: that its paths are free and no other   *)
(* request's, that the objects of its aliases are there or are its own,     *)
(* and that what it refers to stays.                                        *)
(***************************************************************************)
EXTENDS Collections, TLAPS

(* The request has inserted its objects, or found the one it patches. *)
Working(w) == req[w].pc \in {"named", "inserted", "existing", "adding"}

Pending(w) ==
  /\ req[w].pc # "idle" => req[w].body \in Requests
  /\ req[w].pc = "idle" => req[w].added = {}
  /\ ~ Working(w) => ~ req[w].tagged
  /\ req[w].pc = "started" =>
       /\ req[w].added \subseteq Objs(w)
       /\ req[w].added = {} \/ req[w].added # Objs(w)
  /\ req[w].added \cap Taken(Kind(w)) = {}
  /\ Working(w) =>
       /\ req[w].added \cup req[w].todo \subseteq Objs(w) \cup Aliases(w)
       /\ ~ IsPatch(w) => Objs(w) \subseteq req[w].added
       /\ Resolved(w)
       /\ req[w].tagged => Kind(w) = "locality" \/ (req[w].pc = "adding" /\ req[w].todo = {})

AllPending == \A w \in Workers : Pending(w)

Apart ==
  \A w, v \in Workers :
    w # v /\ Kind(w) = Kind(v) => req[w].added \cap req[v].added = {}

-----------------------------------------------------------------------------
(* A path that a transaction inserts belongs to an object. *)
LEMMA OwnerType ==
  ASSUME NEW w \in Workers, TypeOK, Pending(w), Working(w), NothingDangles,
         NEW p \in req[w].added
  PROVE  Owner(w, p) \in Paths /\ Owner(w, p) \in req[w].added \cup Taken(Kind(w))
<1>1. req[w].body \in Body /\ req[w].body \in Requests
  BY RequestsAssumption DEF Pending, Working
<1>2. CASE p \in Objs(w)
  BY <1>1, <1>2 DEF Owner, Body, Objs
<1>3. CASE p \notin Objs(w)
  <2> DEFINE a == CHOOSE a \in req[w].body.aliases : a[1] = p
  <2>1. p \in Aliases(w)
    BY <1>3 DEF Pending
  <2>2. a \in req[w].body.aliases /\ a[1] = p
    BY <2>1 DEF Aliases
  <2>3. a[2] \in Paths /\ a[2] \in Owners(w)
    BY <2>2, <1>1 DEF Body, Owners
  <2>4. Owner(w, p) = IF a[2] \in Objs(w) THEN a[2] ELSE Obj(Kind(w), a[2])
    BY <1>3 DEF Owner
  <2> HIDE DEF a
  <2>5. CASE a[2] \in Objs(w)
    <3>1. ~ IsPatch(w)
      BY <2>5, <1>1, RequestsAssumption DEF IsPatch, Objs, Body
    <3> QED
      BY <3>1, <2>3, <2>4, <2>5 DEF Pending
  <2>6. CASE a[2] \notin Objs(w)
    <3>1. IsPatch(w)
      BY <2>3, <2>6, <1>1, RequestsAssumption DEF IsPatch, Owners, Objs, Body
    <3>2. a[2] \in Taken(Kind(w))
      BY <3>1, <2>3 DEF Pending, Resolved
    <3>3. \E n \in names : n.kind = Kind(w) /\ n.path = a[2]
      BY <3>2 DEF Taken
    <3>4. Obj(Kind(w), a[2]) \in {n.obj : n \in {m \in names : m.kind = Kind(w)}}
      BY <3>3 DEF Obj
    <3>5. Obj(Kind(w), a[2]) \in Paths /\ Obj(Kind(w), a[2]) \in Taken(Kind(w))
      BY <3>4 DEF NothingDangles, TypeOK, Name
    <3> QED
      BY <3>5, <2>4, <2>6
  <2> QED
    BY <2>5, <2>6
<1> QED
  BY <1>2, <1>3

(* What a commit adds to the taken paths. *)
LEMMA CommitTakes ==
  ASSUME NEW w \in Workers, Commit(w), NEW k
  PROVE  Taken(k)' = IF k = Kind(w) THEN Taken(k) \cup req[w].added ELSE Taken(k)
<1>1. \A n \in names' : n \in names \/ (n.kind = Kind(w) /\ n.path \in req[w].added)
  BY DEF Commit
<1>2. \A p \in req[w].added : \E n \in names' : n.kind = Kind(w) /\ n.path = p
  <2> TAKE p \in req[w].added
  <2> DEFINE new == [kind |-> Kind(w), path |-> p, obj |-> Owner(w, p)]
  <2>1. new \in names'
    BY DEF Commit
  <2>2. new.kind = Kind(w) /\ new.path = p
    OBVIOUS
  <2> QED
    BY <2>1, <2>2
<1>3. names \subseteq names'
  BY DEF Commit
<1>4. ASSUME NEW p
      PROVE  p \in Taken(k)' <=> p \in Taken(k) \/ (k = Kind(w) /\ p \in req[w].added)
  <2>1. p \in Taken(k)' <=> \E n \in names' : n.kind = k /\ n.path = p
    BY DEF Taken
  <2>2. p \in Taken(k) <=> \E n \in names : n.kind = k /\ n.path = p
    BY DEF Taken
  <2> QED
    BY <1>1, <1>2, <1>3, <2>1, <2>2
<1> QED
  BY <1>4

(* Nothing that is committed is removed. *)
LEMMA NamesGrow ==
  ASSUME [Next]_vars
  PROVE  /\ names \subseteq names' /\ members \subseteq members'
         /\ \A k : Taken(k) \subseteq Taken(k)'
<1>1. CASE names' = names /\ members' = members
  BY <1>1 DEF Taken
<1>2. ASSUME NEW w \in Workers, Commit(w)
      PROVE  names \subseteq names' /\ members \subseteq members'
  BY <1>2 DEF Commit
<1>3. ASSUME names \subseteq names'
      PROVE  \A k : Taken(k) \subseteq Taken(k)'
  BY <1>3 DEF Taken
<1> QED
  BY <1>1, <1>2, <1>3
  DEF Next, vars, Unwritten, Start, InsertObject, InsertColumn, CreatePartition, Resolve,
      SkipExisting, InsertAlias, Conflict, UpdateETag, Fail, Abort, StartRead, ReadTag, ReadObjects

-----------------------------------------------------------------------------
(* An INSERT of an object but the last leaves the request where it was. *)
LEMMA ObjectPlace ==
  ASSUME NEW w \in Workers, NEW p \in Paths, InsertObject(w, p)
  PROVE  \E pc \in {"started", "named", "adding"} :
           /\ req' = [req EXCEPT ![w].added = @ \cup {p}, ![w].todo = Aliases(w), ![w].pc = pc]
           /\ pc = "started" <=> req[w].added \cup {p} # Objs(w)
<1> DEFINE done == req[w].added \cup {p} = Objs(w)
           pc == IF ~ done THEN "started" ELSE IF Kind(w) = "column" THEN "named" ELSE "adding"
<1>1. req' = [req EXCEPT ![w].added = @ \cup {p}, ![w].todo = Aliases(w), ![w].pc = pc]
  BY DEF InsertObject
<1>2. pc \in {"started", "named", "adding"} /\ (pc = "started" <=> ~ done)
  OBVIOUS
<1> HIDE DEF pc
<1> QED
  BY <1>1, <1>2

LEMMA TypeStep == TypeOK /\ AllPending /\ NothingDangles /\ [Next]_vars => TypeOK'
<1> SUFFICES ASSUME TypeOK, AllPending, NothingDangles, [Next]_vars
             PROVE  TypeOK'
  OBVIOUS
<1>0. Unwritten /\ req' \in [Workers -> Transaction] => TypeOK'
  BY DEF Unwritten, TypeOK
<1>a. req \in [Workers -> Transaction]
  BY DEF TypeOK
<1>1. ASSUME NEW w \in Workers, NEW q \in Requests, Start(w, q)
      PROVE  TypeOK'
  BY <1>0, <1>a, <1>1 DEF Start, Transaction, Idle
<1>2. ASSUME NEW w \in Workers, NEW p \in Paths, InsertObject(w, p)
      PROVE  TypeOK'
  <2>1. req[w].body \in Body
    BY <1>2, RequestsAssumption DEF InsertObject, AllPending, Pending
  <2>2. Aliases(w) \in SUBSET Paths
    BY <2>1 DEF Body, Aliases
  <2>3. PICK pc \in {"started", "named", "adding"} :
          req' = [req EXCEPT ![w].added = @ \cup {p}, ![w].todo = Aliases(w), ![w].pc = pc]
    BY <1>2, ObjectPlace
  <2>4. req' \in [Workers -> Transaction]
    BY <1>a, <2>2, <2>3 DEF Transaction
  <2> QED
    BY <1>0, <1>2, <2>4 DEF InsertObject
<1>c. ASSUME NEW w \in Workers, InsertColumn(w) \/ CreatePartition(w)
      PROVE  TypeOK'
  <2>1. PICK pc \in {"inserted", "existing"} : req' = [req EXCEPT ![w].pc = pc]
    BY <1>c DEF InsertColumn, CreatePartition
  <2>2. req' \in [Workers -> Transaction]
    BY <1>a, <2>1 DEF Transaction
  <2> QED
    BY <1>0, <1>c, <2>2 DEF InsertColumn, CreatePartition
<1>3. ASSUME NEW w \in Workers, Resolve(w)
      PROVE  TypeOK'
  <2>1. req[w].body \in Body
    BY <1>3, RequestsAssumption DEF Resolve, AllPending, Pending
  <2>2. NewAliases(w) \in SUBSET Paths
    BY <2>1 DEF Body, NewAliases, Aliases
  <2> DEFINE pc == IF Kind(w) = "column" THEN "existing" ELSE "adding"
             tagged == Kind(w) = "locality"
  <2>3. pc \in {"existing", "adding"} /\ tagged \in BOOLEAN
    OBVIOUS
  <2>4. req' = [req EXCEPT ![w].pc = pc, ![w].todo = NewAliases(w), ![w].tagged = tagged]
    BY <1>3 DEF Resolve
  <2> HIDE DEF pc, tagged
  <2>5. req' \in [Workers -> Transaction]
    BY <1>a, <2>2, <2>3, <2>4 DEF Transaction
  <2> QED
    BY <1>0, <1>3, <2>5 DEF Resolve
<1>4. ASSUME NEW w \in Workers, SkipExisting(w)
      PROVE  TypeOK'
  BY <1>0, <1>a, <1>4 DEF SkipExisting, Transaction
<1>5. ASSUME NEW w \in Workers, NEW a \in req[w].todo, InsertAlias(w, a) \/ Conflict(w, a)
      PROVE  TypeOK'
  <2>1. a \in Paths
    BY <1>a DEF Transaction
  <2> QED
    BY <1>0, <1>a, <1>5, <2>1 DEF InsertAlias, Conflict, Transaction
<1>6. ASSUME NEW w \in Workers, UpdateETag(w)
      PROVE  TypeOK'
  BY <1>0, <1>a, <1>6 DEF UpdateETag, Transaction
<1>b. ASSUME NEW w \in Workers, Fail(w) \/ Abort(w)
      PROVE  TypeOK'
  <2>1. Idle \in Transaction
    BY DEF Idle, Transaction
  <2>2. req' = [req EXCEPT ![w] = Idle] /\ Unwritten
    BY <1>b DEF Fail, Abort
  <2> QED
    BY <1>0, <1>a, <2>1, <2>2
<1> USE DEF TypeOK
<1>7. ASSUME NEW w \in Workers, Commit(w)
      PROVE  TypeOK'
  <2>1. Pending(w) /\ Working(w) /\ req[w].body \in Body
    BY <1>7, RequestsAssumption DEF AllPending, Pending, Working, Commit
  <2>2. Kind(w) \in Kinds /\ Objs(w) \subseteq Paths /\ req[w].added \subseteq Paths
        /\ req[w].body.refs \subseteq Paths /\ req[w].body.sets \subseteq Paths
    BY <2>1 DEF Kind, Objs, Body, Kinds, Grouped, Named, Transaction
  <2>3. \A p \in req[w].added : Owner(w, p) \in Paths
    BY <2>1, OwnerType
  <2>4. names' \subseteq Name
    BY <1>7, <2>2, <2>3 DEF Commit, Name
  <2>5. members' \subseteq Member
    BY <1>7, <2>2 DEF Commit, Member
  <2>6. writes' \in Nat /\ tags' \in [Kinds -> SUBSET (1 .. writes')]
    BY <1>7, <2>2 DEF Commit, Upserted
  <2> QED
    BY <1>7, <2>4, <2>5, <2>6 DEF Commit, Transaction, Idle
<1>8. ASSUME NEW r \in Readers, NEW k \in Kinds, StartRead(r, k)
      PROVE  TypeOK'
  BY <1>8 DEF StartRead
<1>9. ASSUME NEW r \in Readers, ReadTag(r)
      PROVE  TypeOK'
  <2>1. Found(read[r].kind) \subseteq Nat
    BY DEF Found
  <2> QED
    BY <1>9, <2>1 DEF ReadTag
<1>10. ASSUME NEW r \in Readers, ReadObjects(r)
       PROVE  TypeOK'
  BY <1>10 DEF ReadObjects, Objects, Response
<1>11. CASE UNCHANGED vars
  BY <1>11 DEF vars
<1> QED
  BY <1>1, <1>2, <1>3, <1>4, <1>5, <1>6, <1>b, <1>c, <1>7, <1>8, <1>9, <1>10, <1>11 DEF Next

-----------------------------------------------------------------------------
(* What a worker is about to insert is not what others have inserted. *)
LEMMA InFlightApart ==
  ASSUME NEW w \in Workers, NEW v \in Workers, w # v, Pending(v), Kind(v) = Kind(w),
         NEW S, S \cap InFlight(w) = {}
  PROVE  S \cap req[v].added = {}
BY DEF InFlight, Pending

(* The other workers' transactions are as they were. *)
LEMMA PendingKept ==
  ASSUME NEW v \in Workers, Pending(v), req'[v] = req[v], \A k : Taken(k) \subseteq Taken(k)',
         req[v].added \cap Taken(Kind(v))' = {}
  PROVE  Pending(v)'
<1>1. Kind(v)' = Kind(v) /\ (IsPatch(v) <=> IsPatch(v)') /\ Objs(v)' = Objs(v)
      /\ Aliases(v)' = Aliases(v) /\ Owners(v)' = Owners(v) /\ (Working(v) <=> Working(v)')
      /\ RefKind(v)' = RefKind(v)
  BY DEF Kind, IsPatch, Objs, Aliases, Owners, Working, RefKind
<1>2. Resolved(v) => Resolved(v)'
  BY <1>1 DEF Resolved
<1> QED
  BY <1>1, <1>2 DEF Pending

(* A step of w that writes no row leaves the other transactions' as they were. *)
LEMMA StepPending ==
  ASSUME TypeOK, AllPending, NEW w \in Workers, Unwritten, Pending(w)',
         \A v \in Workers \ {w} : req'[v] = req[v]
  PROVE  AllPending'
<1>1. \A k : Taken(k)' = Taken(k)
  BY DEF Taken, Unwritten
<1>2. ASSUME NEW v \in Workers, v # w
      PROVE  Pending(v)'
  <2>1. Pending(v) /\ req'[v] = req[v]
    BY <1>2 DEF AllPending
  <2>2. req[v].added \cap Taken(Kind(v))' = {}
    BY <1>1, <2>1 DEF Pending, Kind
  <2> QED
    BY <1>1, <2>1, <2>2, PendingKept
<1> QED
  BY <1>2 DEF AllPending

LEMMA PendingStep == TypeOK /\ AllPending /\ Apart /\ [Next]_vars => AllPending'
<1> SUFFICES ASSUME TypeOK, AllPending, Apart, [Next]_vars
             PROVE  AllPending'
  OBVIOUS
<1>a. req \in [Workers -> Transaction]
  BY DEF TypeOK
<1>b. ASSUME NEW w \in Workers, req' = [req EXCEPT ![w] = Idle]
      PROVE  Pending(w)'
  BY <1>a, <1>b DEF Pending, Working, Idle
<1>c. ASSUME NEW w \in Workers, Unwritten, req'[w].body = req[w].body
      PROVE  /\ Kind(w)' = Kind(w) /\ (IsPatch(w)' <=> IsPatch(w)) /\ Objs(w)' = Objs(w)
             /\ Aliases(w)' = Aliases(w) /\ (Resolved(w)' <=> Resolved(w))
             /\ Taken(Kind(w))' = Taken(Kind(w))
  BY <1>c DEF Kind, IsPatch, Objs, Aliases, Resolved, Owners, Taken, RefKind, Unwritten
<1>1. ASSUME NEW w \in Workers, NEW q \in Requests, Start(w, q)
      PROVE  AllPending'
  <2>1. req'[w] = [Idle EXCEPT !.pc = "started", !.body = q]
    BY <1>1, <1>a DEF Start
  <2>2. Pending(w)'
    BY <2>1 DEF Pending, Working, Idle
  <2> QED
    BY <1>1, <1>a, <2>2, StepPending DEF Start
<1>2. ASSUME NEW w \in Workers, NEW p \in Paths, InsertObject(w, p)
      PROVE  AllPending'
  <2>1. PICK pc \in {"started", "named", "adding"} :
          /\ req' = [req EXCEPT ![w].added = @ \cup {p}, ![w].todo = Aliases(w), ![w].pc = pc]
          /\ pc = "started" <=> req[w].added \cup {p} # Objs(w)
    BY <1>2, ObjectPlace
  <2>2. /\ req'[w].body = req[w].body /\ req'[w].pc = pc
        /\ req'[w].added = req[w].added \cup {p} /\ req'[w].todo = Aliases(w)
        /\ req'[w].tagged = req[w].tagged
        /\ \A v \in Workers \ {w} : req'[v] = req[v]
    BY <2>1, <1>a DEF Transaction
  <2>3. /\ req[w].pc = "started" /\ Unwritten /\ Resolved(w)
        /\ p \in Objs(w) /\ p \notin Taken(Kind(w))
    BY <1>2 DEF InsertObject
  <2>4. /\ req[w].body \in Requests /\ ~ req[w].tagged
        /\ req[w].added \subseteq Objs(w) /\ req[w].added \cap Taken(Kind(w)) = {}
    BY <2>3 DEF AllPending, Pending, Working
  <2>5. Pending(w)'
    BY <2>1, <2>2, <2>3, <2>4, <1>c DEF Pending, Working
  <2> QED
    BY <2>2, <2>3, <2>5, StepPending
<1>d. ASSUME NEW w \in Workers, InsertColumn(w) \/ CreatePartition(w)
      PROVE  AllPending'
  <2>1. /\ req'[w].body = req[w].body /\ req'[w].pc \in {"inserted", "existing"}
        /\ req'[w].added = req[w].added /\ req'[w].todo = req[w].todo
        /\ req'[w].tagged = req[w].tagged
        /\ \A v \in Workers \ {w} : req'[v] = req[v]
    BY <1>d, <1>a DEF InsertColumn, CreatePartition, Transaction
  <2>2. req[w].pc \in {"named", "inserted"} /\ Unwritten /\ Working(w) /\ Pending(w)
    BY <1>d DEF InsertColumn, CreatePartition, Working, AllPending
  <2>3. Pending(w)'
    BY <2>1, <2>2, <1>c DEF Pending, Working
  <2> QED
    BY <2>1, <2>2, <2>3, StepPending
<1>3. ASSUME NEW w \in Workers, Resolve(w)
      PROVE  AllPending'
  <2>1. /\ req'[w].body = req[w].body /\ req'[w].pc \in {"existing", "adding"}
        /\ req'[w].added = req[w].added /\ req'[w].todo = NewAliases(w)
        /\ req'[w].tagged => Kind(w) = "locality"
        /\ \A v \in Workers \ {w} : req'[v] = req[v]
    <3> DEFINE pc == IF Kind(w) = "column" THEN "existing" ELSE "adding"
               tagged == Kind(w) = "locality"
    <3>1. req' = [req EXCEPT ![w].pc = pc, ![w].todo = NewAliases(w), ![w].tagged = tagged]
      BY <1>3 DEF Resolve
    <3>2. pc \in {"existing", "adding"} /\ (tagged => Kind(w) = "locality")
      OBVIOUS
    <3> HIDE DEF pc, tagged
    <3> QED
      BY <1>a, <3>1, <3>2 DEF Transaction
  <2>2. req[w].pc = "started" /\ Unwritten /\ Resolved(w) /\ IsPatch(w)
    BY <1>3 DEF Resolve
  <2>3. req[w].body \in Requests /\ req[w].added = {}
    BY <2>2, RequestsAssumption DEF AllPending, Pending, IsPatch, Objs, Body
  <2>4. NewAliases(w) \subseteq Aliases(w)
    BY DEF NewAliases
  <2>5. Pending(w)'
    BY <2>1, <2>2, <2>3, <2>4, <1>c DEF Pending, Working
  <2> QED
    BY <2>1, <2>2, <2>5, StepPending
<1>4. ASSUME NEW w \in Workers, SkipExisting(w)
      PROVE  AllPending'
  <2>1. /\ req'[w].body = req[w].body /\ req'[w].pc = "adding"
        /\ req'[w].added = req[w].added /\ req'[w].todo \subseteq req[w].todo
        /\ req'[w].tagged = req[w].tagged
        /\ \A v \in Workers \ {w} : req'[v] = req[v]
    BY <1>4, <1>a DEF SkipExisting, Transaction
  <2>2. req[w].pc = "existing" /\ Unwritten /\ Working(w) /\ Pending(w)
    BY <1>4 DEF SkipExisting, Working, AllPending
  <2>3. Pending(w)'
    BY <2>1, <2>2, <1>c DEF Pending, Working
  <2> QED
    BY <2>1, <2>2, <2>3, StepPending
<1>5. ASSUME NEW w \in Workers, NEW a \in req[w].todo, InsertAlias(w, a)
      PROVE  AllPending'
  <2>1. /\ req'[w].body = req[w].body /\ req'[w].pc = "adding"
        /\ req'[w].added = req[w].added \cup {a} /\ req'[w].todo = req[w].todo \ {a}
        /\ req'[w].tagged = req[w].tagged
        /\ \A v \in Workers \ {w} : req'[v] = req[v]
    BY <1>5, <1>a DEF InsertAlias, Transaction
  <2>2. /\ req[w].pc = "adding" /\ Unwritten /\ Working(w) /\ Pending(w)
        /\ a \notin Taken(Kind(w))
    BY <1>5 DEF InsertAlias, Working, AllPending
  <2>3. Pending(w)'
    BY <2>1, <2>2, <1>c DEF Pending, Working
  <2> QED
    BY <2>1, <2>2, <2>3, StepPending
<1>6. ASSUME NEW w \in Workers, NEW a \in req[w].todo, Conflict(w, a)
      PROVE  AllPending'
  <2>1. /\ req'[w].body = req[w].body /\ req'[w].pc = "adding"
        /\ req'[w].added = {} /\ req'[w].todo = req[w].todo \ {a}
        /\ req'[w].tagged = req[w].tagged
        /\ \A v \in Workers \ {w} : req'[v] = req[v]
    BY <1>6, <1>a DEF Conflict, Transaction
  <2>2. req[w].pc = "adding" /\ Unwritten /\ Working(w) /\ Pending(w) /\ IsPatch(w)
    BY <1>6 DEF Conflict, Working, AllPending
  <2>3. Pending(w)'
    BY <2>1, <2>2, <1>c DEF Pending, Working
  <2> QED
    BY <2>1, <2>2, <2>3, StepPending
<1>7. ASSUME NEW w \in Workers, UpdateETag(w)
      PROVE  AllPending'
  <2>1. /\ req'[w].body = req[w].body /\ req'[w].pc = "adding"
        /\ req'[w].added = req[w].added /\ req'[w].todo = {}
        /\ \A v \in Workers \ {w} : req'[v] = req[v]
    BY <1>7, <1>a DEF UpdateETag, Transaction
  <2>2. req[w].pc = "adding" /\ Unwritten /\ Working(w) /\ Pending(w)
    BY <1>7 DEF UpdateETag, Working, AllPending
  <2>3. Pending(w)'
    BY <2>1, <2>2, <1>c DEF Pending, Working
  <2> QED
    BY <2>1, <2>2, <2>3, StepPending
<1>8. ASSUME NEW w \in Workers, Fail(w) \/ Abort(w)
      PROVE  AllPending'
  <2>1. req' = [req EXCEPT ![w] = Idle] /\ Unwritten
    BY <1>8 DEF Fail, Abort
  <2>2. Pending(w)'
    BY <1>b, <2>1
  <2> QED
    BY <1>a, <2>1, <2>2, StepPending
<1>9. ASSUME NEW w \in Workers, Commit(w)
      PROVE  AllPending'
  <2>1. req' = [req EXCEPT ![w] = Idle] /\ Working(w)
    BY <1>9 DEF Commit, Working
  <2>2. Pending(w)'
    BY <1>b, <2>1
  <2>3. ASSUME NEW v \in Workers, v # w
        PROVE  Pending(v)'
    <3>1. req'[v] = req[v] /\ Pending(v)
      BY <1>a, <2>1, <2>3 DEF AllPending
    <3>2. Taken(Kind(v))' = IF Kind(v) = Kind(w) THEN Taken(Kind(v)) \cup req[w].added
                            ELSE Taken(Kind(v))
      <4>1. Kind(v)' = Kind(v)
        BY <3>1 DEF Kind
      <4> QED
        BY <1>9, CommitTakes, <4>1
    <3>3. req[v].added \cap Taken(Kind(v))' = {}
      BY <2>1, <2>3, <3>1, <3>2 DEF Apart, Pending
    <3> QED
      BY <3>1, <3>3, NamesGrow, PendingKept
  <2> QED
    BY <2>2, <2>3 DEF AllPending
<1>10. CASE names' = names /\ members' = members /\ req' = req
  <2>1. ASSUME NEW v \in Workers
        PROVE  Pending(v)'
    BY <1>10 DEF AllPending, Pending, Working, Kind, IsPatch, Objs, Aliases, Resolved, Owners,
                 RefKind, Taken
  <2> QED
    BY <2>1 DEF AllPending
<1> QED
  BY <1>1, <1>2, <1>3, <1>4, <1>5, <1>6, <1>7, <1>8, <1>9, <1>10, <1>d
  DEF Next, vars, StartRead, ReadTag, ReadObjects

-----------------------------------------------------------------------------
(* A step of w keeps the requests apart if w adds nothing, or what no other has. *)
LEMMA StepApart ==
  ASSUME Apart, NEW w \in Workers, \A v \in Workers \ {w} : req'[v] = req[v],
         \A v \in Workers \ {w} : Kind(w)' = Kind(v) => req'[w].added \cap req[v].added = {}
  PROVE  Apart'
BY DEF Apart, Kind

LEMMA ApartStep == TypeOK /\ AllPending /\ Apart /\ [Next]_vars => Apart'
<1> SUFFICES ASSUME TypeOK, AllPending, Apart, [Next]_vars
             PROVE  Apart'
  OBVIOUS
<1>a. req \in [Workers -> Transaction]
  BY DEF TypeOK
<1>b. ASSUME NEW w \in Workers, req'[w].added = {}, \A v \in Workers \ {w} : req'[v] = req[v]
      PROVE  Apart'
  BY <1>b, StepApart
<1>c. ASSUME NEW w \in Workers, NEW S, S \cap InFlight(w) = {},
             \A v \in Workers \ {w} : req'[v] = req[v],
             req'[w].body = req[w].body, req'[w].added = req[w].added \cup S
      PROVE  Apart'
  <2>1. Kind(w)' = Kind(w)
    BY <1>c DEF Kind
  <2>2. ASSUME NEW v \in Workers \ {w}, Kind(w) = Kind(v)
        PROVE  (req[w].added \cup S) \cap req[v].added = {}
    BY <2>2, <1>c, InFlightApart DEF Apart, AllPending
  <2> QED
    BY <1>c, <2>1, <2>2, StepApart
<1>1. ASSUME NEW w \in Workers, NEW q \in Requests, Start(w, q)
      PROVE  Apart'
  BY <1>1, <1>a, <1>b DEF Start, Idle
<1>2. ASSUME NEW w \in Workers, NEW p \in Paths, InsertObject(w, p)
      PROVE  Apart'
  <2>1. PICK pc \in {"started", "named", "adding"} :
          req' = [req EXCEPT ![w].added = @ \cup {p}, ![w].todo = Aliases(w), ![w].pc = pc]
    BY <1>2, ObjectPlace
  <2>2. /\ req'[w].body = req[w].body /\ req'[w].added = req[w].added \cup {p}
        /\ \A v \in Workers \ {w} : req'[v] = req[v]
    BY <2>1, <1>a DEF Transaction
  <2>3. {p} \cap InFlight(w) = {}
    BY <1>2 DEF InsertObject
  <2> QED
    BY <2>2, <2>3, <1>c
<1>3. ASSUME NEW w \in Workers,
             \/ Resolve(w) \/ SkipExisting(w) \/ UpdateETag(w)
             \/ InsertColumn(w) \/ CreatePartition(w)
      PROVE  Apart'
  <2>1. CASE Resolve(w)
    <3>1. /\ req'[w].added = req[w].added /\ \A v \in Workers \ {w} : req'[v] = req[v]
          /\ req[w].pc = "started" /\ IsPatch(w)
      BY <2>1, <1>a DEF Resolve, Transaction
    <3>2. req[w].added = {}
      BY <3>1, RequestsAssumption DEF AllPending, Pending, IsPatch, Objs, Body
    <3> QED
      BY <3>1, <3>2, <1>b
  <2>2. CASE ~ Resolve(w)
    <3>1. req'[w].body = req[w].body /\ req'[w].added = req[w].added
          /\ \A v \in Workers \ {w} : req'[v] = req[v]
      BY <1>3, <2>2, <1>a DEF SkipExisting, UpdateETag, InsertColumn, CreatePartition, Transaction
    <3>2. req'[w].added = req[w].added \cup {} /\ {} \cap InFlight(w) = {}
      BY <3>1
    <3> QED
      BY <3>1, <3>2, <1>c
  <2> QED
    BY <2>1, <2>2
<1>5. ASSUME NEW w \in Workers, NEW a \in req[w].todo, InsertAlias(w, a)
      PROVE  Apart'
  <2>1. /\ req'[w].body = req[w].body /\ req'[w].added = req[w].added \cup {a}
        /\ \A v \in Workers \ {w} : req'[v] = req[v]
    BY <1>5, <1>a DEF InsertAlias, Transaction
  <2>2. {a} \cap InFlight(w) = {}
    BY <1>5 DEF InsertAlias
  <2> QED
    BY <2>1, <2>2, <1>c
<1>6. ASSUME NEW w \in Workers, NEW a \in req[w].todo, Conflict(w, a)
      PROVE  Apart'
  <2>1. req'[w].added = {} /\ \A v \in Workers \ {w} : req'[v] = req[v]
    BY <1>6, <1>a DEF Conflict, Transaction
  <2> QED
    BY <2>1, <1>b
<1>7. ASSUME NEW w \in Workers, Fail(w) \/ Abort(w) \/ Commit(w)
      PROVE  Apart'
  <2>1. req' = [req EXCEPT ![w] = Idle]
    BY <1>7 DEF Fail, Abort, Commit
  <2> QED
    BY <2>1, <1>a, <1>b DEF Idle
<1>8. CASE req' = req
  BY <1>8 DEF Apart, Kind
<1> QED
  BY <1>1, <1>2, <1>3, <1>5, <1>6, <1>7, <1>8
  DEF Next, vars, StartRead, ReadTag, ReadObjects

-----------------------------------------------------------------------------
(* Only a commit changes the rows. *)
LEMMA OnlyCommits ==
  ASSUME [Next]_vars
  PROVE  (names' = names /\ members' = members) \/ \E w \in Workers : Commit(w)
BY DEF Next, vars, Unwritten, Start, InsertObject, InsertColumn, CreatePartition, Resolve,
       SkipExisting, InsertAlias, Conflict, UpdateETag, Fail, Abort, StartRead, ReadTag, ReadObjects

LEMMA OneObjectStep == TypeOK /\ AllPending /\ OneObjectPerName /\ [Next]_vars => OneObjectPerName'
<1> SUFFICES ASSUME TypeOK, AllPending, OneObjectPerName, [Next]_vars
             PROVE  OneObjectPerName'
  OBVIOUS
<1>1. CASE names' = names
  BY <1>1 DEF OneObjectPerName
<1>2. ASSUME NEW w \in Workers, Commit(w)
      PROVE  OneObjectPerName'
  <2>1. req[w].added \cap Taken(Kind(w)) = {}
    BY <1>2 DEF Commit, AllPending, Pending, Working
  <2> DEFINE New(p) == [kind |-> Kind(w), path |-> p, obj |-> Owner(w, p)]
  <2>2. names' = names \cup {New(p) : p \in req[w].added}
    BY <1>2 DEF Commit
  <2>3. \A p : New(p).kind = Kind(w) /\ New(p).path = p
    OBVIOUS
  <2> HIDE DEF New
  <2>4. ASSUME NEW m \in names, NEW p \in req[w].added
        PROVE  ~ (m.kind = New(p).kind /\ m.path = New(p).path)
    BY <2>1, <2>3 DEF Taken
  <2> QED
    BY <2>2, <2>3, <2>4 DEF OneObjectPerName
<1> QED
  BY <1>1, <1>2, OnlyCommits

LEMMA DanglesStep == TypeOK /\ AllPending /\ NothingDangles /\ [Next]_vars => NothingDangles'
<1> SUFFICES ASSUME TypeOK, AllPending, NothingDangles, [Next]_vars
             PROVE  NothingDangles'
  OBVIOUS
<1>1. CASE names' = names /\ members' = members
  BY <1>1 DEF NothingDangles, Taken
<1>2. ASSUME NEW w \in Workers, Commit(w)
      PROVE  NothingDangles'
  <2>1. Pending(w) /\ Working(w) /\ req[w].body \in Requests /\ req[w].body \in Body
    BY <1>2, RequestsAssumption DEF Commit, AllPending, Pending, Working
  <2>2. \A k : Taken(k) \subseteq Taken(k)'
    BY NamesGrow
  <2>3. \A k : k = Kind(w) => req[w].added \subseteq Taken(k)'
    BY <1>2, CommitTakes
  <2>4. ASSUME NEW n \in names'
        PROVE  \E k : n.kind = k /\ n.obj \in Taken(k)'
    <3>1. CASE n \in names
      BY <3>1, <2>2 DEF NothingDangles
    <3>2. ASSUME NEW p \in req[w].added, n = [kind |-> Kind(w), path |-> p, obj |-> Owner(w, p)]
          PROVE  \E k : n.kind = k /\ n.obj \in Taken(k)'
      <4>1. Owner(w, p) \in req[w].added \cup Taken(Kind(w))
        BY <2>1, OwnerType
      <4>2. n.kind = Kind(w) /\ n.obj = Owner(w, p)
        BY <3>2
      <4> QED
        BY <4>1, <4>2, <2>2, <2>3
    <3> QED
      BY <1>2, <3>1, <3>2 DEF Commit
  <2>5. ASSUME NEW m \in members'
        PROVE  \E k : /\ m.kind = k /\ m.path \in Taken(k)'
                      /\ m.refs \subseteq Taken("column")' /\ m.sets \subseteq Taken("column_set")'
    <3>1. CASE m \in members
      BY <3>1, <2>2 DEF NothingDangles
    <3>2. ASSUME NEW p \in Objs(w), Kind(w) \in Grouped,
                 m = [kind |-> Kind(w), path |-> p, refs |-> req[w].body.refs,
                      sets |-> req[w].body.sets]
          PROVE  \E k : /\ m.kind = k /\ m.path \in Taken(k)'
                        /\ m.refs \subseteq Taken("column")'
                        /\ m.sets \subseteq Taken("column_set")'
      <4>1. ~ IsPatch(w)
        BY <2>1, RequestsAssumption DEF IsPatch, Objs, Body
      <4>2. p \in req[w].added
        BY <4>1, <2>1 DEF Pending
      <4>3. /\ req[w].body.refs \subseteq Taken("column")
            /\ req[w].body.sets \subseteq Taken("column_set")
        BY <2>1, <3>2 DEF Pending, Resolved, RefKind
      <4>4. m.kind = Kind(w) /\ m.path = p /\ m.refs = req[w].body.refs /\ m.sets = req[w].body.sets
        BY <3>2
      <4> QED
        BY <4>2, <4>3, <4>4, <2>2, <2>3
    <3> QED
      BY <1>2, <3>1, <3>2 DEF Commit
  <2> QED
    BY <2>4, <2>5 DEF NothingDangles
<1> QED
  BY <1>1, <1>2, OnlyCommits

-----------------------------------------------------------------------------
(* The objects of other collections do not change with a commit. *)
LEMMA CommitObjects ==
  ASSUME NEW w \in Workers, Commit(w), NEW k, k # Kind(w)
  PROVE  Objects(k)' = Objects(k)
<1> DEFINE New(p) == [kind |-> Kind(w), path |-> p, obj |-> Owner(w, p)]
           NewMember(p) == [kind |-> Kind(w), path |-> p, refs |-> req[w].body.refs,
                            sets |-> req[w].body.sets]
<1>1. names' = names \cup {New(p) : p \in req[w].added}
  BY DEF Commit
<1>2. members' = members \/ members' = members \cup {NewMember(p) : p \in Objs(w)}
  BY DEF Commit
<1>3. \A p : New(p).kind = Kind(w) /\ NewMember(p).kind = Kind(w)
  OBVIOUS
<1> HIDE DEF New, NewMember
<1>4. {n \in names' : n.kind = k} = {n \in names : n.kind = k}
  BY <1>1, <1>3
<1>5. {m \in members' : m.kind = k} = {m \in members : m.kind = k}
  BY <1>2, <1>3
<1> QED
  BY <1>4, <1>5 DEF Objects

(* No response or request holds a tag of a write to come. *)
TagsWritten == \A r \in Readers : cache[r].tag <= writes /\ read[r].tag <= writes

LEMMA TagsStep == TypeOK /\ TagsWritten /\ [Next]_vars => TagsWritten'
<1> SUFFICES ASSUME TypeOK, TagsWritten, [Next]_vars
             PROVE  TagsWritten'
  OBVIOUS
<1> USE DEF TypeOK, TagsWritten
<1>1. CASE writes' = writes /\ read' = read /\ cache' = cache
  BY <1>1
<1>2. ASSUME NEW w \in Workers, Commit(w)
      PROVE  TagsWritten'
  <2>1. writes' = writes + 1 /\ read' = read /\ cache' = cache
    BY <1>2 DEF Commit
  <2>2. \A r \in Readers : cache[r].tag \in Nat /\ read[r].tag \in Nat
    BY DEF Response
  <2> QED
    BY <2>1, <2>2
<1>3. ASSUME NEW r \in Readers, NEW k \in Kinds, StartRead(r, k)
      PROVE  TagsWritten'
  BY <1>3 DEF StartRead
<1>4. ASSUME NEW r \in Readers, ReadTag(r)
      PROVE  TagsWritten'
  <2>1. Found(read[r].kind) \subseteq 0 .. writes
    BY DEF Found
  <2> QED
    BY <1>4, <2>1 DEF ReadTag
<1>5. ASSUME NEW r \in Readers, ReadObjects(r)
      PROVE  TagsWritten'
  <2>1. writes' = writes /\ cache'[r].tag = read[r].tag /\ read'[r].tag = 0
        /\ \A s \in Readers \ {r} : cache'[s] = cache[s] /\ read'[s] = read[s]
    BY <1>5 DEF ReadObjects
  <2> QED
    BY <2>1
<1> QED
  BY <1>1, <1>2, <1>3, <1>4, <1>5
  DEF Next, vars, Unwritten, Start, InsertObject, InsertColumn, CreatePartition, Resolve,
      SkipExisting, InsertAlias, Conflict, UpdateETag, Fail, Abort

Coherent(r) ==
  cache[r].kind \in Namespaced /\ cache[r].tag \in tags[cache[r].kind]
    => <<cache[r].names, cache[r].members>> = Objects(cache[r].kind)

LEMMA CoherentStep ==
  TypeOK /\ AllPending /\ TagsWritten /\ CacheCoherent /\ [Next]_vars => CacheCoherent'
<1> SUFFICES ASSUME TypeOK, AllPending, TagsWritten, CacheCoherent, [Next]_vars,
                    NEW r \in Readers
             PROVE  Coherent(r)'
  BY DEF CacheCoherent, Coherent
<1>0. Coherent(r)
  BY DEF CacheCoherent, Coherent
<1>1. CASE names' = names /\ members' = members /\ tags' = tags /\ cache' = cache
  BY <1>0, <1>1 DEF Coherent, Objects
<1>2. ASSUME NEW w \in Workers, Commit(w)
      PROVE  Coherent(r)'
  <2>1. req[w].body \in Body
    BY <1>2, RequestsAssumption DEF Commit, AllPending, Pending
  <2>2. Kind(w) \in Kinds
    BY <2>1 DEF Kind, Body
  <2>3. cache' = cache /\ tags' = [tags EXCEPT ![Kind(w)] = Upserted(Kind(w), writes + 1)]
    BY <1>2 DEF Commit
  <2>4. cache[r].tag # writes + 1
    BY DEF TypeOK, TagsWritten, Response
  <2>5. CASE cache[r].kind = Kind(w)
    <3>1. cache[r].kind \in Namespaced => tags'[cache[r].kind] = {writes + 1}
      BY <2>2, <2>3, <2>5 DEF Upserted, TypeOK
    <3> QED
      BY <2>3, <2>4, <3>1 DEF Coherent
  <2>6. CASE cache[r].kind # Kind(w)
    <3>1. cache[r].kind \in Namespaced => tags'[cache[r].kind] = tags[cache[r].kind]
      BY <2>2, <2>3, <2>6 DEF TypeOK, Namespaced
    <3>2. Objects(cache[r].kind)' = Objects(cache[r].kind)
      <4>1. \A k : k # Kind(w) => Objects(k)' = Objects(k)
        BY <1>2, CommitObjects
      <4> QED
        BY <2>3, <2>6, <4>1 DEF Objects
    <3> QED
      BY <1>0, <2>3, <3>1, <3>2 DEF Coherent
  <2> QED
    BY <2>5, <2>6
<1>3. ASSUME NEW s \in Readers, ReadObjects(s)
      PROVE  Coherent(r)'
  <2>1. names' = names /\ members' = members /\ tags' = tags
    BY <1>3 DEF ReadObjects
  <2>2. CASE r = s
    <3>1. /\ cache'[r].kind = read[r].kind
          /\ cache'[r].names = {n \in names : n.kind = read[r].kind}
          /\ cache'[r].members = {m \in members : m.kind = read[r].kind}
      BY <1>3, <2>2 DEF ReadObjects, TypeOK, Objects
    <3> QED
      BY <2>1, <3>1 DEF Coherent, Objects
  <2>3. CASE r # s
    <3>1. cache'[r] = cache[r]
      BY <1>3, <2>3 DEF ReadObjects, TypeOK
    <3> QED
      BY <1>0, <2>1, <3>1 DEF Coherent, Objects
  <2> QED
    BY <2>2, <2>3
<1> QED
  BY <1>1, <1>2, <1>3
  DEF Next, vars, Unwritten, Start, InsertObject, InsertColumn, CreatePartition, Resolve,
      SkipExisting, InsertAlias, Conflict, UpdateETag, Fail, Abort, StartRead, ReadTag

-----------------------------------------------------------------------------
(* A request that may have to wait is less far than the one it waits for, or *)
(* both are creating partitions, or localities, or it is at an alias.        *)
LEMMA WaitsOrdered == AllPending => LocksOrdered
<1> SUFFICES ASSUME AllPending, NEW w \in Workers, NEW v \in Workers, WaitsFor(w, v)
             PROVE  \/ Place(w) < Place(v)
                    \/ Place(w) = 3
                    \/ Place(w) = 2 /\ Place(v) = 2
                    \/ Place(w) = 0 /\ Place(v) = 0 /\ Kind(w) = "locality"
  BY DEF LocksOrdered
<1>1. Pending(w) /\ Pending(v) /\ Kind(w) = Kind(v)
  BY DEF AllPending, WaitsFor
<1>2. CASE req[w].pc = "started" /\ Objs(w) \cap req[v].added # {}
  <2>1. Place(w) = 0
    BY <1>2 DEF Place
  <2>2. CASE req[v].pc = "started"
    <3>1. req[v].body \in Requests /\ req[v].added \subseteq Objs(v) /\ req[v].added # Objs(v)
      BY <1>1, <1>2, <2>2 DEF Pending
    <3>2. req[v].body \in Body /\ req[v].added # {}
      BY <3>1, <1>2, RequestsAssumption
    <3>3. IsPatch(v) => Objs(v) = {}
      BY <3>1, <3>2, RequestsAssumption DEF IsPatch, Objs, Body
    <3>4. ~ IsPatch(v) /\ Kind(v) # "locality" => \E p \in Paths : Objs(v) = {p}
      BY <3>1, <3>2, RequestsAssumption DEF IsPatch, Kind, Objs, Body
    <3>5. Kind(v) = "locality"
      BY <3>1, <3>2, <3>3, <3>4
    <3>6. Place(v) = 0
      BY <2>2 DEF Place
    <3> QED
      BY <1>1, <2>1, <3>5, <3>6
  <2>3. CASE req[v].pc # "started"
    <3>1. Place(v) > 0
      BY <2>3 DEF Place
    <3> QED
      BY <2>1, <3>1
  <2> QED
    BY <2>2, <2>3
<1>3. CASE req[w].pc = "named" /\ Partitioned(v)
  <2>1. Place(w) = 1
    BY <1>3 DEF Place
  <2>2. Place(v) > 1
    BY <1>3 DEF Place, Partitioned, InsertedColumn
  <2> QED
    BY <2>1, <2>2
<1>4. CASE req[w].pc = "inserted" /\ InsertedColumn(v)
  <2>1. Place(w) = 2
    BY <1>4 DEF Place
  <2>2. Place(v) = 2 \/ Place(v) > 2
    BY <1>4 DEF Place, InsertedColumn
  <2> QED
    BY <2>1, <2>2
<1>5. CASE req[w].pc = "adding" /\ req[w].todo \cap req[v].added # {}
  <2>1. Place(w) = 3
    BY <1>5 DEF Place
  <2> QED
    BY <2>1
<1>6. CASE /\ req[w].pc = "adding" /\ req[w].todo = {} /\ ~ req[w].tagged /\ TagTaken(w)
           /\ req[v].tagged
  <2>1. Place(w) = 4
    BY <1>6 DEF Place
  <2>2. Kind(v) \in Namespaced
    BY <1>1, <1>6 DEF TagTaken
  <2>3. req[v].pc = "adding" /\ req[v].todo = {}
    BY <1>1, <1>6, <2>2 DEF Pending, Namespaced
  <2>4. Place(v) = 5
    BY <1>6, <2>3 DEF Place
  <2> QED
    BY <2>1, <2>4
<1> QED
  BY <1>2, <1>3, <1>4, <1>5, <1>6 DEF WaitsFor

-----------------------------------------------------------------------------
(* A name determines its row, so its object does not change. *)
LEMMA RowOfName ==
  ASSUME NEW N, \A m, n \in N : m.kind = n.kind /\ m.path = n.path => m = n,
         NEW n \in N
  PROVE  (CHOOSE x \in N : x.kind = n.kind /\ x.path = n.path) = n
OBVIOUS

LEMMA ObjectKept ==
  ASSUME OneObjectPerName, OneObjectPerName', names \subseteq names',
         NEW p, p \in Taken("column")
  PROVE  Obj("column", p)' = Obj("column", p)
<1>1. PICK n \in names : n.kind = "column" /\ n.path = p
  BY DEF Taken
<1>2. (CHOOSE x \in names : x.kind = n.kind /\ x.path = n.path) = n
  BY RowOfName DEF OneObjectPerName
<1>3. (CHOOSE x \in names' : x.kind = n.kind /\ x.path = n.path) = n
  <2>1. \A x, y \in names' : x.kind = y.kind /\ x.path = y.path => x = y
    BY DEF OneObjectPerName
  <2> QED
    BY <2>1, RowOfName
<1>4. Obj("column", p) = n.obj
  BY <1>1, <1>2 DEF Obj
<1>5. Obj("column", p)' = n.obj
  BY <1>1, <1>3 DEF Obj
<1> QED
  BY <1>4, <1>5

(* A column is among the paths of its own object. *)
LEMMA OwnPath ==
  ASSUME OneObjectPerName, NEW p, p \in Taken("column")
  PROVE  p \in ColumnPaths(p)
<1>1. PICK n \in names : n.kind = "column" /\ n.path = p
  BY DEF Taken
<1>2. (CHOOSE x \in names : x.kind = n.kind /\ x.path = n.path) = n
  BY RowOfName DEF OneObjectPerName
<1>3. Obj("column", p) = n.obj
  BY <1>1, <1>2 DEF Obj
<1> QED
  BY <1>1, <1>3 DEF ColumnPaths, AliasesOf

(* The committed sets that a request or a template names. *)
SetsAt(S) == {s \in members : s.kind = "column_set" /\ s.path \in S}

(* No two columns of a request, or of its sets, are the same object. *)
Differ(refs, sets) ==
  /\ \A p, q \in refs : Obj("column", p) = Obj("column", q) => p = q
  /\ \A p \in refs : \A s \in SetsAt(sets) : \A q \in s.refs : Obj("column", p) # Obj("column", q)
  /\ \A s, t \in SetsAt(sets) : s.path # t.path =>
       \A p \in s.refs : \A q \in t.refs : Obj("column", p) # Obj("column", q)

PendingDiffer ==
  \A w \in Workers : Working(w) /\ Kind(w) \in Grouped /\ ~ IsPatch(w)
                       => Differ(req[w].body.refs, req[w].body.sets)

OneMemberPerPath == \A m, s \in members : m.kind = s.kind /\ m.path = s.path => m = s

LEMMA DistinctDiffer ==
  ASSUME OneObjectPerName, NothingDangles, NEW w \in Workers, Kind(w) \in Grouped,
         Resolved(w), Distinct(w)
  PROVE  Differ(req[w].body.refs, req[w].body.sets)
<1> DEFINE refs == req[w].body.refs
           sets == req[w].body.sets
<1>1. refs \subseteq Taken("column")
  BY DEF Resolved, RefKind
<1>2. \A p, q : Obj("column", p) = Obj("column", q) => ColumnPaths(p) = ColumnPaths(q)
  BY DEF ColumnPaths
<1>3. \A s \in SetsAt(sets) : s.path \in sets /\ \A q \in s.refs :
        q \in Taken("column") /\ ColumnPaths(q) \subseteq SetPaths(s.path)
  BY DEF SetsAt, SetPaths, NothingDangles
<1>4. \A p \in Taken("column") : p \in ColumnPaths(p)
  BY OwnPath
<1>5. \A p, q \in refs : Obj("column", p) = Obj("column", q) => p = q
  BY <1>1, <1>2, <1>4 DEF Distinct
<1>6. ASSUME NEW p \in refs, NEW s \in SetsAt(sets), NEW q \in s.refs
      PROVE  Obj("column", p) # Obj("column", q)
  <2>1. ColumnPaths(p) \cap SetPaths(s.path) = {}
    BY <1>3 DEF Distinct
  <2> QED
    BY <2>1, <1>1, <1>2, <1>3, <1>4
<1>7. ASSUME NEW s \in SetsAt(sets), NEW t \in SetsAt(sets), s.path # t.path,
             NEW p \in s.refs, NEW q \in t.refs
      PROVE  Obj("column", p) # Obj("column", q)
  <2>1. SetPaths(s.path) \cap SetPaths(t.path) = {}
    BY <1>3, <1>7 DEF Distinct
  <2> QED
    BY <2>1, <1>2, <1>3, <1>4
<1> QED
  BY <1>5, <1>6, <1>7 DEF Differ

(* The objects of a request that commits were not there. *)
LEMMA CommitFresh ==
  ASSUME AllPending, NEW w \in Workers, Commit(w)
  PROVE  Objs(w) \cap Taken(Kind(w)) = {}
<1>1. Pending(w) /\ Working(w) /\ req[w].body \in Requests /\ req[w].body \in Body
  BY RequestsAssumption DEF Commit, AllPending, Pending, Working
<1>2. CASE IsPatch(w)
  BY <1>1, <1>2, RequestsAssumption DEF IsPatch, Objs, Body
<1>3. CASE ~ IsPatch(w)
  BY <1>1, <1>3 DEF Pending
<1> QED
  BY <1>2, <1>3

(* New rows do not come into the sets that are already named. *)
LEMMA SetsKept ==
  ASSUME TypeOK, AllPending, [Next]_vars, NEW S, S \subseteq Taken("column_set")
  PROVE  SetsAt(S)' = SetsAt(S)
<1>1. CASE members' = members
  BY <1>1 DEF SetsAt
<1>2. ASSUME NEW w \in Workers, Commit(w)
      PROVE  SetsAt(S)' = SetsAt(S)
  <2>1. Objs(w) \cap Taken(Kind(w)) = {}
    BY <1>2, CommitFresh
  <2> DEFINE NewMember(p) == [kind |-> Kind(w), path |-> p, refs |-> req[w].body.refs,
                              sets |-> req[w].body.sets]
  <2>2. members' = members \/ members' = members \cup {NewMember(p) : p \in Objs(w)}
    BY <1>2 DEF Commit
  <2>3. \A p : NewMember(p).kind = Kind(w) /\ NewMember(p).path = p
    OBVIOUS
  <2> HIDE DEF NewMember
  <2> QED
    BY <2>1, <2>2, <2>3 DEF SetsAt
<1> QED
  BY <1>1, <1>2, OnlyCommits

LEMMA DifferKept ==
  ASSUME TypeOK, AllPending, OneObjectPerName, OneObjectPerName', NothingDangles, [Next]_vars,
         NEW refs, NEW sets, refs \subseteq Taken("column"), sets \subseteq Taken("column_set"),
         Differ(refs, sets)
  PROVE  Differ(refs, sets)'
<1>1. SetsAt(sets)' = SetsAt(sets)
  BY SetsKept
<1>2. \A p \in Taken("column") : Obj("column", p)' = Obj("column", p)
  BY NamesGrow, ObjectKept
<1>3. \A s \in SetsAt(sets) : s.refs \subseteq Taken("column")
  BY DEF SetsAt, NothingDangles
<1> QED
  BY <1>1, <1>2, <1>3 DEF Differ

LEMMA MemberStep == TypeOK /\ AllPending /\ NothingDangles /\ OneMemberPerPath /\ [Next]_vars
                    => OneMemberPerPath'
<1> SUFFICES ASSUME TypeOK, AllPending, NothingDangles, OneMemberPerPath, [Next]_vars
             PROVE  OneMemberPerPath'
  OBVIOUS
<1>1. CASE members' = members
  BY <1>1 DEF OneMemberPerPath
<1>2. ASSUME NEW w \in Workers, Commit(w)
      PROVE  OneMemberPerPath'
  <2>1. Objs(w) \cap Taken(Kind(w)) = {}
    BY <1>2, CommitFresh
  <2> DEFINE NewMember(p) == [kind |-> Kind(w), path |-> p, refs |-> req[w].body.refs,
                              sets |-> req[w].body.sets]
  <2>2. members' = members \/ members' = members \cup {NewMember(p) : p \in Objs(w)}
    BY <1>2 DEF Commit
  <2>3. \A p : NewMember(p).kind = Kind(w) /\ NewMember(p).path = p
    OBVIOUS
  <2> HIDE DEF NewMember
  <2>4. ASSUME NEW m \in members, NEW p \in Objs(w)
        PROVE  ~ (m.kind = NewMember(p).kind /\ m.path = NewMember(p).path)
    BY <2>1, <2>3 DEF NothingDangles
  <2> QED
    BY <2>2, <2>3, <2>4 DEF OneMemberPerPath
<1> QED
  BY <1>1, <1>2, OnlyCommits

LEMMA DifferStep ==
  TypeOK /\ AllPending /\ OneObjectPerName /\ OneObjectPerName' /\ NothingDangles /\ PendingDiffer
  /\ [Next]_vars => PendingDiffer'
<1> SUFFICES ASSUME TypeOK, AllPending, OneObjectPerName, OneObjectPerName', NothingDangles,
                    PendingDiffer, [Next]_vars, NEW w \in Workers,
                    Working(w)', Kind(w)' \in Grouped, ~ IsPatch(w)'
             PROVE  Differ(req[w].body.refs, req[w].body.sets)'
  BY DEF PendingDiffer
<1>a. req \in [Workers -> Transaction]
  BY DEF TypeOK
<1>1. /\ req'[w].body = req[w].body
      /\ Working(w) \/ Resolve(w) \/ \E p \in Paths : InsertObject(w, p)
  <2>1. CASE req'[w] = req[w]
    BY <2>1 DEF Working
  <2>2. CASE req'[w].pc = "started" \/ req'[w] = Idle
    BY <2>2 DEF Working, Idle
  <2>3. CASE Resolve(w) \/ InsertColumn(w) \/ CreatePartition(w)
    BY <1>a, <2>3 DEF Resolve, InsertColumn, CreatePartition, Working, Transaction
  <2>a. ASSUME NEW p \in Paths, InsertObject(w, p)
        PROVE  req'[w].body = req[w].body
    <3>1. PICK pc :
            req' = [req EXCEPT ![w].added = @ \cup {p}, ![w].todo = Aliases(w), ![w].pc = pc]
      BY <2>a, ObjectPlace
    <3> QED
      BY <1>a, <3>1 DEF Transaction
  <2>4. ASSUME NEW a \in req[w].todo, InsertAlias(w, a) \/ Conflict(w, a)
        PROVE  req'[w].body = req[w].body /\ Working(w)
    BY <1>a, <2>4 DEF InsertAlias, Conflict, Working, Transaction
  <2>5. CASE SkipExisting(w) \/ UpdateETag(w)
    BY <1>a, <2>5 DEF SkipExisting, UpdateETag, Working, Transaction
  <2>6. ASSUME NEW q \in Requests, Start(w, q)
        PROVE  req'[w].pc = "started"
    BY <1>a, <2>6 DEF Start, Idle
  <2>7. CASE Fail(w) \/ Abort(w) \/ Commit(w)
    BY <1>a, <2>2, <2>7 DEF Fail, Abort, Commit
  <2>8. ASSUME NEW v \in Workers, v # w,
               \/ \E q \in Requests : Start(v, q)
               \/ \E p \in Paths : InsertObject(v, p)
               \/ InsertColumn(v) \/ CreatePartition(v)
               \/ Resolve(v) \/ SkipExisting(v) \/ UpdateETag(v)
               \/ \E a \in req[v].todo : InsertAlias(v, a) \/ Conflict(v, a)
               \/ Fail(v) \/ Abort(v) \/ Commit(v)
        PROVE  req'[w] = req[w]
    BY <1>a, <2>8 DEF Start, InsertObject, InsertColumn, CreatePartition, Resolve, SkipExisting,
                      UpdateETag, InsertAlias, Conflict, Fail, Abort, Commit
  <2>9. CASE req' = req
    BY <2>1, <2>9
  <2> QED
    BY <2>1, <2>2, <2>3, <2>a, <2>4, <2>5, <2>6, <2>7, <2>8, <2>9
    DEF Next, vars, StartRead, ReadTag, ReadObjects
<1>2. Kind(w) \in Grouped /\ ~ IsPatch(w)
  BY <1>1 DEF Kind, IsPatch
<1>3. Resolved(w) /\ Differ(req[w].body.refs, req[w].body.sets)
  <2>1. CASE Working(w)
    BY <1>2, <2>1 DEF AllPending, Pending, PendingDiffer
  <2>2. CASE \E p \in Paths : InsertObject(w, p)
    <3>1. Resolved(w) /\ Distinct(w)
      BY <1>2, <2>2 DEF InsertObject
    <3> QED
      BY <1>2, <3>1, DistinctDiffer
  <2> QED
    BY <1>1, <1>2, <2>1, <2>2 DEF Resolve
<1>4. PICK refs, sets : refs = req[w].body.refs /\ sets = req[w].body.sets
  OBVIOUS
<1>5. refs \subseteq Taken("column") /\ sets \subseteq Taken("column_set") /\ Differ(refs, sets)
  BY <1>2, <1>3, <1>4 DEF Resolved, RefKind
<1>6. Differ(refs, sets)'
  BY <1>5, DifferKept
<1> QED
  BY <1>1, <1>4, <1>6 DEF Differ, SetsAt

MembersDiffer == \A m \in members : Differ(m.refs, m.sets)

LEMMA MembersDifferStep ==
  TypeOK /\ AllPending /\ OneObjectPerName /\ OneObjectPerName' /\ NothingDangles /\ PendingDiffer
  /\ MembersDiffer /\ [Next]_vars => MembersDiffer'
<1> SUFFICES ASSUME TypeOK, AllPending, OneObjectPerName, OneObjectPerName', NothingDangles,
                    PendingDiffer, MembersDiffer, [Next]_vars, NEW m \in members'
             PROVE  Differ(m.refs, m.sets)'
  BY DEF MembersDiffer
<1>1. m.refs \subseteq Taken("column") /\ m.sets \subseteq Taken("column_set")
      /\ Differ(m.refs, m.sets)
  <2>1. CASE m \in members
    BY <2>1 DEF NothingDangles, MembersDiffer
  <2>2. ASSUME NEW w \in Workers, Commit(w), m \notin members
        PROVE  m.refs \subseteq Taken("column") /\ m.sets \subseteq Taken("column_set")
               /\ Differ(m.refs, m.sets)
    <3>1. Pending(w) /\ Working(w) /\ req[w].body \in Requests /\ req[w].body \in Body
      BY <2>2, RequestsAssumption DEF Commit, AllPending, Pending, Working
    <3>2. PICK p \in Objs(w) : m = [kind |-> Kind(w), path |-> p, refs |-> req[w].body.refs,
                                    sets |-> req[w].body.sets]
      BY <2>2 DEF Commit
    <3>3. m.refs = req[w].body.refs /\ m.sets = req[w].body.sets
      BY <3>2
    <3>4. Kind(w) \in Grouped
      BY <2>2 DEF Commit
    <3>5. ~ IsPatch(w)
      BY <3>1, <3>2, RequestsAssumption DEF IsPatch, Objs, Body
    <3>6. Resolved(w) /\ Differ(req[w].body.refs, req[w].body.sets)
      BY <3>1, <3>4, <3>5 DEF Pending, PendingDiffer
    <3> QED
      BY <3>3, <3>4, <3>6 DEF Resolved, RefKind
  <2> QED
    BY <2>1, <2>2, OnlyCommits
<1> QED
  BY <1>1, DifferKept

LEMMA OnceFromDiffer == MembersDiffer /\ OneMemberPerPath => ColumnsOnce
<1> SUFFICES ASSUME MembersDiffer, OneMemberPerPath, NEW m \in members,
                    NEW x \in Listed(m), NEW y \in Listed(m),
                    Obj("column", x[2]) = Obj("column", y[2])
             PROVE  x = y
  BY DEF ColumnsOnce
<1>1. Differ(m.refs, m.sets) /\ \A s \in SetsAt(m.sets) : s \in members /\ Differ(s.refs, s.sets)
  BY DEF MembersDiffer, SetsAt
<1>2. ASSUME NEW z \in Listed(m)
      PROVE  \/ \E p \in m.refs : z = <<m, p>>
             \/ \E s \in SetsAt(m.sets) : \E p \in s.refs : z = <<s, p>>
  BY DEF Listed, SetsAt
<1>3. ASSUME NEW s \in SetsAt(m.sets), NEW t \in SetsAt(m.sets), NEW p \in s.refs, NEW q \in t.refs,
             Obj("column", p) = Obj("column", q)
      PROVE  s = t /\ p = q
  <2>1. s.path = t.path
    BY <1>1, <1>3 DEF Differ
  <2>2. s = t
    BY <2>1 DEF OneMemberPerPath, SetsAt
  <2> QED
    BY <1>1, <1>3, <2>2 DEF Differ
<1>4. CASE (\E p \in m.refs : x = <<m, p>>) /\ (\E p \in m.refs : y = <<m, p>>)
  BY <1>1, <1>4 DEF Differ
<1>5. ASSUME NEW p \in m.refs, NEW s \in SetsAt(m.sets), NEW q \in s.refs
      PROVE  Obj("column", p) # Obj("column", q)
  BY <1>1 DEF Differ
<1>6. CASE (\E s \in SetsAt(m.sets) : \E p \in s.refs : x = <<s, p>>)
           /\ (\E s \in SetsAt(m.sets) : \E p \in s.refs : y = <<s, p>>)
  BY <1>3, <1>6
<1> QED
  BY <1>2, <1>4, <1>5, <1>6

-----------------------------------------------------------------------------
(* The invariant that is inductive. *)
IInv ==
  /\ TypeOK /\ AllPending /\ Apart
  /\ OneObjectPerName /\ NothingDangles
  /\ TagsWritten /\ CacheCoherent
  /\ OneMemberPerPath /\ PendingDiffer /\ MembersDiffer

LEMMA IInit == Init => IInv
<1> SUFFICES ASSUME Init
             PROVE  IInv
  OBVIOUS
<1>1. TypeOK
  <2>1. req \in [Workers -> Transaction]
    BY DEF Init, Transaction, Idle
  <2>2. cache \in [Readers -> Response]
    BY DEF Init, Response, NoResponse, Kinds, Named
  <2>3. read \in [Readers -> [pc : {"idle", "started", "tagged"}, kind : Kinds, tag : Nat]]
    BY DEF Init, Kinds, Named
  <2> QED
    BY <2>1, <2>2, <2>3 DEF Init, TypeOK
<1>2. AllPending
  BY DEF Init, AllPending, Pending, Working, Idle
<1>3. Apart
  BY DEF Init, Apart, Working, Idle
<1>4. OneObjectPerName /\ NothingDangles
  BY DEF Init, OneObjectPerName, NothingDangles
<1>5. TagsWritten
  BY DEF Init, TagsWritten, NoResponse
<1>6. CacheCoherent
  BY DEF Init, CacheCoherent, NoResponse, Namespaced, Kinds, Named
<1>7. OneMemberPerPath /\ PendingDiffer /\ MembersDiffer
  BY DEF Init, OneMemberPerPath, PendingDiffer, MembersDiffer, Working, Idle
<1> QED
  BY <1>1, <1>2, <1>3, <1>4, <1>5, <1>6, <1>7 DEF IInv

LEMMA IStep == IInv /\ [Next]_vars => IInv'
BY TypeStep, PendingStep, ApartStep, OneObjectStep, DanglesStep, TagsStep, CoherentStep,
   MemberStep, DifferStep, MembersDifferStep DEF IInv

LEMMA Inductive == Spec => []IInv
BY IInit, IStep, PTL DEF Spec

(* Every request holds paths of the server, and every tag is that of a write. *)
THEOREM TypeCorrect == Spec => []TypeOK
<1>1. IInv => TypeOK
  BY DEF IInv
<1> QED
  BY <1>1, Inductive, PTL

(* Requests that insert the same name at the same time cannot both succeed: *)
(* the unique keys of ColumnRef, LocalityRef, GeoLayer, ColumnSet and        *)
(* ViewTemplate, whose waits the checks before them in the code do not see.  *)
THEOREM NamesUnique == Spec => []OneObjectPerName
<1>1. IInv => OneObjectPerName
  BY DEF IInv
<1> QED
  BY <1>1, Inductive, PTL

(* Whatever a commit writes refers to objects that are committed by then, even *)
(* after _add_aliases has undone part of the transaction.                     *)
THEOREM ReferencesHold == Spec => []NothingDangles
<1>1. IInv => NothingDangles
  BY DEF IInv
<1> QED
  BY <1>1, Inductive, PTL

(* No later alias makes two columns of a set, or of a template and its sets,  *)
(* the same column: the checks of create see all the aliases there are, and   *)
(* an alias that comes later is of one column.                                *)
THEOREM NoColumnTwice == Spec => []ColumnsOnce
<1>1. IInv => ColumnsOnce
  BY OnceFromDiffer DEF IInv
<1> QED
  BY <1>1, Inductive, PTL

(* A client that revalidates its response with the tag it came with is not   *)
(* told that it is current when it is not (all and all_in_namespace).        *)
THEOREM ResponsesCurrent == Spec => []CacheCoherent
<1>1. IInv => CacheCoherent
  BY DEF IInv
<1> QED
  BY <1>1, Inductive, PTL

(* The order of the statements of create and patch: a deadlock is among      *)
(* creations at their partitions or among INSERTs of localities, or passes   *)
(* through an alias; the tags, the last lock, add none.                      *)
THEOREM DeadlocksLocated == Spec => []LocksOrdered
<1>1. IInv => LocksOrdered
  BY WaitsOrdered DEF IInv
<1> QED
  BY <1>1, Inductive, PTL
=============================================================================
