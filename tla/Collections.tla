----------------------------- MODULE Collections -----------------------------
(***************************************************************************)
(* The named objects of the server: columns and localities with their      *)
(* aliases, geographic layers, column sets and view templates              *)
(* (crud/column.py, locality.py, geo_layer.py, column_set.py,              *)
(* view_template.py), created and patched by concurrent requests under     *)
(* READ COMMITTED; the ETags of these collections (crud/base.py); and the  *)
(* responses that carry a tag with the objects of a collection             *)
(* (api/base.py).  An object is identified by its canonical path, which is *)
(* unique in its table and never removed.  The namespaced collections are  *)
(* those of one namespace.                                                 *)
(***************************************************************************)
EXTENDS Naturals, FiniteSets

CONSTANTS Workers, Readers,
          Paths,     \* paths and aliases, in their normalized form
          Requests,  \* the request bodies clients send
          MaxWrites  \* bound on the number of requests that succeed

Named == {"column", "locality"}
Grouped == {"column_set", "view_template"}
Kinds == Named \cup Grouped \cup {"geo_layer"}   \* the tables, which are the collections
Namespaced == Kinds \ {"locality"}

(* aliases: pairs of an alias and the path of its object; refs: parents of   *)
(* localities, or columns of a set or a template; sets: those of a template. *)
Body == [op : {"create", "patch"}, kind : Kinds, objs : SUBSET Paths,
         aliases : SUBSET (Paths \X Paths), refs : SUBSET Paths, sets : SUBSET Paths]

(* The aliases of a creation are those of its objects; a patch creates none;  *)
(* only localities are created several at a time.                            *)
ASSUME RequestsAssumption ==
  /\ Requests \subseteq Body
  /\ \A q \in Requests : IF q.op = "create" THEN {a[2] : a \in q.aliases} \subseteq q.objs
                         ELSE q.objs = {}
  /\ \A q \in Requests : q.op = "create" /\ q.kind # "locality" =>
       \E p \in Paths : q.objs = {p}
ASSUME MaxWritesAssumption == MaxWrites \in Nat

VARIABLES names,    \* committed paths: rows of column_ref, locality_ref, geo_layer...
          members,  \* committed rows of column_set_member and view_template_*_member
          writes,   \* how many requests have succeeded
          tags,     \* the tags in the committed rows of etag of each collection
          req,      \* what each worker's transaction has done so far
          read,     \* the request of each reader
          cache     \* the last response each reader received

vars == <<names, members, writes, tags, req, read, cache>>

Name == [kind : Kinds, path : Paths, obj : Paths]
Member == [kind : Grouped, path : Paths, refs : SUBSET Paths, sets : SUBSET Paths]

(* added: paths inserted and not committed; todo: aliases still to insert.   *)
NoRequest == [op |-> "none", kind |-> "none"]
Idle == [pc |-> "idle", body |-> NoRequest, added |-> {}, todo |-> {}, tagged |-> FALSE]
Transaction == [pc : {"idle", "started", "named", "inserted", "existing", "adding"},
                body : Requests \cup {NoRequest},
                added : SUBSET Paths, todo : SUBSET Paths, tagged : BOOLEAN]

(* A UUID is the number of the write that drew it; 0 is no ETag header.      *)
Response == [kind : Kinds, tag : Nat, names : SUBSET Name, members : SUBSET Member]
NoResponse == [kind |-> "column", tag |-> 0, names |-> {}, members |-> {}]

TypeOK ==
  /\ names \subseteq Name
  /\ members \subseteq Member
  /\ writes \in Nat
  /\ tags \in [Kinds -> SUBSET (1 .. writes)]
  /\ req \in [Workers -> Transaction]
  /\ read \in [Readers -> [pc : {"idle", "started", "tagged"}, kind : Kinds, tag : Nat]]
  /\ cache \in [Readers -> Response]

Init ==
  /\ names = {} /\ members = {}
  /\ writes = 0
  /\ tags = [k \in Kinds |-> {}]
  /\ req = [w \in Workers |-> Idle]
  /\ read = [r \in Readers |-> [pc |-> "idle", kind |-> "column", tag |-> 0]]
  /\ cache = [r \in Readers |-> NoResponse]

-----------------------------------------------------------------------------
Kind(w) == req[w].body.kind
IsPatch(w) == req[w].body.op = "patch"
Objs(w) == req[w].body.objs
Aliases(w) == {a[1] : a \in req[w].body.aliases}
Owners(w) == {a[2] : a \in req[w].body.aliases}

Taken(k) == {n.path : n \in {m \in names : m.kind = k}}
Obj(k, p) == (CHOOSE n \in names : n.kind = k /\ n.path = p).obj
AliasesOf(k, o) == {n.path : n \in {m \in names : m.kind = k /\ m.obj = o}}

(* Rows of a table that other transactions have inserted and not committed.  *)
InFlight(w) == UNION {req[v].added : v \in {u \in Workers \ {w} :
                                            req[u].pc # "idle" /\ Kind(u) = Kind(w)}}

(* Fault: an alias is inserted before its object has an id. *)
OwnerUnset(w, p) == IF p \in Objs(w) THEN p ELSE "null"

(* The object of a path that the request inserts. *)
Owner(w, p) ==
  IF p \in Objs(w) THEN p
  ELSE LET a == CHOOSE a \in req[w].body.aliases : a[1] = p
       IN IF a[2] \in Objs(w) THEN a[2] ELSE Obj(Kind(w), a[2])

(* The aliases that a patch finds missing on its object. *)
NewAliases(w) ==
  Aliases(w) \ UNION {AliasesOf(Kind(w), Obj(Kind(w), o)) : o \in Owners(w)}

(* What a request refers to: parents of localities, columns, column sets.    *)
RefKind(w) == IF Kind(w) \in Grouped THEN "column" ELSE Kind(w)
Resolved(w) ==
  /\ req[w].body.refs \subseteq Taken(RefKind(w))
  /\ req[w].body.sets \subseteq Taken("column_set")
  /\ IsPatch(w) => Owners(w) \subseteq Taken(Kind(w))

(* Fault: a template compares the paths its members are named by. *)
DistinctPaths(w) ==
  \A s \in req[w].body.sets : \A m \in members :
    m.kind = "column_set" /\ m.path = s => m.refs \cap req[w].body.refs = {}

(* No column twice: a set compares canonical paths, and a template compares  *)
(* all aliases of the columns it names with those of the columns of its sets. *)
ColumnPaths(p) == AliasesOf("column", Obj("column", p))
SetPaths(s) ==
  UNION {UNION {ColumnPaths(p) : p \in m.refs}
           : m \in {n \in members : n.kind = "column_set" /\ n.path = s}}
Distinct(w) ==
  LET refs == req[w].body.refs
      sets == req[w].body.sets
  IN /\ \A p, q \in refs : p # q => ColumnPaths(p) \cap ColumnPaths(q) = {}
     /\ \A p \in refs, s \in sets : ColumnPaths(p) \cap SetPaths(s) = {}
     /\ \A s, t \in sets : s # t => SetPaths(s) \cap SetPaths(t) = {}

-----------------------------------------------------------------------------
Unwritten == UNCHANGED <<names, members, writes, tags, read, cache>>

Start(w, q) ==
  /\ req[w].pc = "idle"
  /\ writes + Cardinality({v \in Workers : req[v].pc # "idle"}) < MaxWrites
  /\ req' = [req EXCEPT ![w] = [Idle EXCEPT !.pc = "started", !.body = q]]
  /\ Unwritten

(* INSERT of a canonical path, a layer, a set or a template, of which paths   *)
(* are unique; the INSERT of localities takes its rows one by one.           *)
InsertObject(w, p) ==
  LET done == req[w].added \cup {p} = Objs(w)
  IN /\ req[w].pc = "started" /\ ~ IsPatch(w)
     /\ Resolved(w)
     /\ Kind(w) \in Grouped => Distinct(w)
     /\ p \in Objs(w) \ (InFlight(w) \cup Taken(Kind(w)) \cup req[w].added)
     /\ req' = [req EXCEPT ![w].added = @ \cup {p}, ![w].todo = Aliases(w),
                           ![w].pc = IF ~ done THEN "started"
                                     ELSE IF Kind(w) = "column" THEN "named" ELSE "adding"]
     /\ Unwritten

(* The table locks of column creations, held until the end of the            *)
(* transaction.  CREATE TABLE ... PARTITION OF takes column_value ACCESS      *)
(* EXCLUSIVE and the tables its foreign keys refer to SHARE ROW EXCLUSIVE,   *)
(* column among them, against the ROW EXCLUSIVE of an INSERT into column.    *)
InsertedColumn(v) ==
  Kind(v) = "column" /\ ~ IsPatch(v) /\ req[v].pc \in {"inserted", "existing", "adding"}
Partitioned(v) == InsertedColumn(v) /\ req[v].pc # "inserted"

(* INSERT of the column. *)
InsertColumn(w) ==
  /\ req[w].pc = "named"
  /\ \A v \in Workers \ {w} : req[v].pc # "idle" => ~ Partitioned(v)
  /\ req' = [req EXCEPT ![w].pc = "inserted"]
  /\ Unwritten

(* The partition of the column's values. *)
CreatePartition(w) ==
  /\ req[w].pc = "inserted"
  /\ \A v \in Workers \ {w} : req[v].pc # "idle" => ~ InsertedColumn(v)
  /\ req' = [req EXCEPT ![w].pc = "existing"]
  /\ Unwritten

(* Fault: the patch of a column draws its tag first, as that of a locality. *)
ResolveTagged(w) ==
  /\ req[w].pc = "started" /\ IsPatch(w)
  /\ Resolved(w)
  /\ NewAliases(w) # {}
  /\ \A v \in Workers \ {w} : ~ (req[v].tagged /\ Kind(v) = Kind(w))
  /\ req' = [req EXCEPT ![w].pc = IF Kind(w) = "column" THEN "existing" ELSE "adding",
                        ![w].todo = NewAliases(w), ![w].tagged = TRUE]
  /\ Unwritten

(* A patch finds its object.  The patch of a locality draws its tag now: an  *)
(* INSERT that never waits, since NULLs are distinct in the unique index.    *)
Resolve(w) ==
  /\ req[w].pc = "started" /\ IsPatch(w)
  /\ Resolved(w)
  /\ NewAliases(w) # {}
  /\ req' = [req EXCEPT ![w].pc = IF Kind(w) = "column" THEN "existing" ELSE "adding",
                        ![w].todo = NewAliases(w), ![w].tagged = Kind(w) = "locality"]
  /\ Unwritten

(* _add_aliases of a column skips the paths of any column.                   *)
SkipExisting(w) ==
  /\ req[w].pc = "existing"
  /\ req' = [req EXCEPT ![w].pc = "adding",
                        ![w].todo = @ \ (Taken("column") \cup req[w].added)]
  /\ Unwritten

(* Fault: an INSERT does not wait for an equal path in flight. *)
InsertAliasUnkeyed(w, a) ==
  /\ req[w].pc = "adding" /\ a \in req[w].todo
  /\ a \notin Taken(Kind(w)) \cup req[w].added
  /\ req' = [req EXCEPT ![w].added = @ \cup {a}, ![w].todo = @ \ {a}]
  /\ Unwritten

(* Aliases are inserted one by one, in the order of a Python set; those of   *)
(* new localities by one INSERT, which takes its rows one by one.            *)
InsertAlias(w, a) ==
  /\ req[w].pc = "adding" /\ a \in req[w].todo
  /\ a \notin InFlight(w) \cup Taken(Kind(w)) \cup req[w].added
  /\ req' = [req EXCEPT ![w].added = @ \cup {a}, ![w].todo = @ \ {a}]
  /\ Unwritten

(* Fault: the creation of a column goes on after the rollback, too. *)
ConflictInCreate(w, a) ==
  /\ req[w].pc = "adding" /\ a \in req[w].todo /\ Kind(w) = "column"
  /\ a \in Taken("column")
  /\ req' = [req EXCEPT ![w].added = {}, ![w].todo = @ \ {a}]
  /\ Unwritten

(* The conflicting alias of a column: db.rollback(), which undoes all that   *)
(* the request has written, and the next alias.                              *)
Conflict(w, a) ==
  /\ req[w].pc = "adding" /\ a \in req[w].todo /\ Kind(w) = "column" /\ IsPatch(w)
  /\ a \in Taken("column")
  /\ req' = [req EXCEPT ![w].added = {}, ![w].todo = @ \ {a}]
  /\ Unwritten

(* _update_etag: the upsert of a namespaced tag waits for an uncommitted one. *)
TagTaken(w) ==
  /\ Kind(w) \in Namespaced
  /\ \E v \in Workers \ {w} : req[v].tagged /\ Kind(v) = Kind(w)
UpdateETag(w) ==
  /\ req[w].pc = "adding" /\ req[w].todo = {} /\ ~ req[w].tagged
  /\ ~ TagTaken(w)
  /\ req' = [req EXCEPT ![w].tagged = TRUE]
  /\ Unwritten

(* An error response: an unknown reference, a conflict, nothing to patch     *)
(* (the caller cannot unpack the result), or a rollback inside a creation.   *)
Fail(w) ==
  /\ \/ req[w].pc = "started" /\ ~ Resolved(w)
     \/ req[w].pc = "started" /\ Resolved(w) /\ IsPatch(w) /\ NewAliases(w) = {}
     \/ req[w].pc = "started" /\ Resolved(w) /\ Kind(w) \in Grouped /\ ~ Distinct(w)
     \/ req[w].pc = "started" /\ ~ IsPatch(w) /\ Objs(w) \cap Taken(Kind(w)) # {}
     \/ /\ req[w].pc = "adding" /\ ~ (Kind(w) = "column" /\ IsPatch(w))
        /\ req[w].todo \cap (Taken(Kind(w)) \cup req[w].added) # {}
  /\ req' = [req EXCEPT ![w] = Idle]
  /\ Unwritten

(* A crash, a lost connection or a deadlock victim. *)
Abort(w) ==
  /\ req[w].pc # "idle"
  /\ req' = [req EXCEPT ![w] = Idle]
  /\ Unwritten

(* Fault: an upsert without a new tag leaves the old one. *)
UpsertedOnce(k, t) == IF tags[k] = {} THEN {t} ELSE tags[k]

(* The rows of a collection's tag once a transaction with tag t commits.     *)
Upserted(k, t) == IF k \in Namespaced THEN {t} ELSE tags[k] \cup {t}

Commit(w) ==
  /\ req[w].pc = "adding" /\ req[w].todo = {} /\ req[w].tagged
  /\ writes' = writes + 1
  /\ names' = names \cup {[kind |-> Kind(w), path |-> p, obj |-> Owner(w, p)] : p \in req[w].added}
  /\ members' = IF Kind(w) \notin Grouped THEN members
                ELSE members \cup {[kind |-> Kind(w), path |-> p, refs |-> req[w].body.refs,
                                    sets |-> req[w].body.sets] : p \in Objs(w)}
  /\ tags' = [tags EXCEPT ![Kind(w)] = Upserted(Kind(w), writes')]
  /\ req' = [req EXCEPT ![w] = Idle]
  /\ UNCHANGED <<read, cache>>

-----------------------------------------------------------------------------
StartRead(r, k) ==
  /\ read[r].pc = "idle"
  /\ read' = [read EXCEPT ![r] = [pc |-> "started", kind |-> k, tag |-> 0]]
  /\ UNCHANGED <<names, members, writes, tags, req, cache>>

(* etag(): the first row of an unordered result, if there is one.            *)
Found(k) == IF tags[k] = {} THEN {0} ELSE tags[k]

ReadTag(r) ==
  /\ read[r].pc = "started"
  /\ \E t \in Found(read[r].kind) :
       read' = [read EXCEPT ![r].pc = "tagged", ![r].tag = t]
  /\ UNCHANGED <<names, members, writes, tags, req, cache>>

Objects(k) == <<{n \in names : n.kind = k}, {m \in members : m.kind = k}>>

(* all() or all_in_namespace(), and the response. *)
ReadObjects(r) ==
  LET k == read[r].kind
  IN /\ read[r].pc = "tagged"
     /\ read' = [read EXCEPT ![r].pc = "idle", ![r].tag = 0]
     /\ cache' = [cache EXCEPT ![r] = [kind |-> k, tag |-> read[r].tag,
                                       names |-> Objects(k)[1], members |-> Objects(k)[2]]]
     /\ UNCHANGED <<names, members, writes, tags, req>>

Next ==
  \/ \E w \in Workers : \/ \E q \in Requests : Start(w, q)
                        \/ \E p \in Paths : InsertObject(w, p)
                        \/ InsertColumn(w)
                        \/ CreatePartition(w)
                        \/ Resolve(w)
                        \/ SkipExisting(w)
                        \/ \E a \in req[w].todo : InsertAlias(w, a) \/ Conflict(w, a)
                        \/ UpdateETag(w)
                        \/ Fail(w)
                        \/ Abort(w)
                        \/ Commit(w)
  \/ \E r \in Readers : \/ \E k \in Kinds : StartRead(r, k)
                        \/ ReadTag(r)
                        \/ ReadObjects(r)

Spec == Init /\ [][Next]_vars

-----------------------------------------------------------------------------
(* A path or an alias names one object of its table, whichever requests     *)
(* insert it at the same time (the unique keys of ColumnRef and LocalityRef, *)
(* and the checks before them in create and _add_aliases).                  *)
OneObjectPerName ==
  \A m, n \in names : m.kind = n.kind /\ m.path = n.path => m = n

(* Nothing that is committed refers to an object that is not: an alias to   *)
(* the object of its canonical path, a set or a template to its columns and *)
(* sets, although a creation can be rolled back between two of its INSERTs.  *)
NothingDangles ==
  /\ \A n \in names : n.obj \in Taken(n.kind)
  /\ \A m \in members : /\ m.path \in Taken(m.kind)
                        /\ m.refs \subseteq Taken("column")
                        /\ m.sets \subseteq Taken("column_set")

(* The columns that a set or a template lists, each as often as it does. *)
Listed(m) ==
  {<<m, p>> : p \in m.refs} \cup
  UNION {{<<s, p>> : p \in s.refs} : s \in {n \in members : n.kind = "column_set"
                                                             /\ n.path \in m.sets}}

(* No column is twice in a set, or in a template and its sets, under any of *)
(* its names and whatever aliases were added since (column_set.create and   *)
(* view_template.create: "must be unique").                                 *)
ColumnsOnce ==
  \A m \in members : \A x, y \in Listed(m) :
    Obj("column", x[2]) = Obj("column", y[2]) => x = y

(* A response whose tag is still the one of its namespaced collection holds *)
(* the collection's current objects: the tag is read before the objects, so *)
(* a commit in between makes the tag too old, never the objects; and every   *)
(* request that changes a collection changes its tag.                       *)
CacheCoherent ==
  \A r \in Readers : LET c == cache[r] IN
    c.kind \in Namespaced /\ c.tag \in tags[c.kind]
      => <<c.names, c.members>> = Objects(c.kind)

(* w may have to wait for the end of v: for a path, the lock of a table, or  *)
(* a tag.                                                                   *)
WaitsFor(w, v) ==
  /\ w # v /\ req[v].pc # "idle" /\ req[w].pc # "idle" /\ Kind(w) = Kind(v)
  /\ \/ req[w].pc = "started" /\ ~ IsPatch(w) /\ Objs(w) \cap req[v].added # {}
     \/ req[w].pc = "named" /\ Partitioned(v)
     \/ req[w].pc = "inserted" /\ InsertedColumn(v)
     \/ req[w].pc = "adding" /\ req[w].todo \cap req[v].added # {}
     \/ req[w].pc = "adding" /\ req[w].todo = {} /\ ~ req[w].tagged /\ TagTaken(w)
        /\ req[v].tagged

(* Where a request is: before its last object, its column, its partition,    *)
(* its last alias, its tag or its commit.                                    *)
Place(w) ==
  CASE req[w].pc = "started" -> 0
    [] req[w].pc = "named" -> 1
    [] req[w].pc = "inserted" -> 2
    [] req[w].pc = "existing" \/ (req[w].pc = "adding" /\ req[w].todo # {}) -> 3
    [] req[w].pc = "adding" /\ req[w].todo = {} /\ ~ req[w].tagged -> 4
    [] OTHER -> 5

(* Who waits is less far than whom it waits for, with three exceptions: two  *)
(* creations that are about to add a partition, two INSERTs of localities,   *)
(* and a request that inserts its aliases, which may need the path of one    *)
(* that is about to insert its column.  So every deadlock of any number of   *)
(* requests is among creations of columns at their partitions, or among      *)
(* INSERTs of localities, or passes through a request between two aliases    *)
(* (_add_aliases iterates over a set): the tags come last and add none.      *)
LocksOrdered ==
  \A w, v \in Workers : WaitsFor(w, v) =>
    \/ Place(w) < Place(v)
    \/ Place(w) = 3
    \/ Place(w) = 2 /\ Place(v) = 2
    \/ Place(w) = 0 /\ Place(v) = 0 /\ Kind(w) = "locality"

(* What the comment in _add_aliases says of db.rollback(), "Rollback only   *)
(* this failed insert": the other aliases of the patch are still there.     *)
NoneForgotten ==
  \A w \in Workers :
    req[w].pc = "adding" /\ Kind(w) = "column" /\ IsPatch(w)
      => Aliases(w) \subseteq req[w].todo \cup req[w].added \cup Taken("column")
=============================================================================
