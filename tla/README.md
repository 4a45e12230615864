# A TLA+ development of GerryDB's metadata server

GerryDB (`src/gerrydb_meta`) is a FastAPI server over PostgreSQL. It stores
geographies, columns of values, layers, plans, graphs and views for
redistricting work, in namespaces with access control. Its promise is that
published data can be cited: whatever is written later, the answer "as of t"
stays what it was. Rows are therefore never overwritten; versions are closed
(`valid_to`) and added (`valid_from`), and views are pinned to an instant.

The server runs as several gunicorn processes with a thread pool each
(`serve.sh`), one database transaction per request (`api/deps.py`, `get_db`),
at PostgreSQL's default isolation level, READ COMMITTED. No code takes a lock
of its own. So the hard part of this program, and the subject of these modules,
is what holds when the statements of several requests interleave, and when one
of them fails or dies half way.

## 1. Inventory

| Component (code) | State | Operations | Hard behaviour | What makes it correct |
|---|---|---|---|---|
| Column values (`crud/column.py` `set_values`) | `column_value` rows, versioned by `valid_from`/`valid_to` | PUT values of a column | SELECT, SELECT, INSERT, UPDATE with no lock; keys with equal timestamps; rows taken one by one, in the order of a set or a scan, so that two requests can deadlock; failure between INSERT and UPDATE | no value is ever lost, history is only closed by a successor, versions tile time, readers see a versioned table |
| Geographies (`crud/geography.py`) | `geography`, `geo_version`, `geo_bin` | `create_bulk`, `patch_bulk`, `fork_bulk` | geometry bins shared by hash and raced for; the UPDATE waits and re-evaluates its condition; overlapping patches | every geography has a current version, versions refer to stored bins, closed versions are frozen |
| Layers and geo sets (`crud/geo_layer.py`) | `geo_set_version`, `geo_set_member` | `map_locality`, lookup of the current set | overlapping mappings; the query that decides whether anything is written | a mapped slot stays mapped, members never change |
| Plans (`crud/plan.py`), graphs (`crud/graph.py`) | `plan`, `plan_assignment`, `plan_limit`, `graph`, `graph_edge` | create | count-then-insert at the limit; a set superseded during creation | assignments within the set, the limit exceeded by no more than the overlap |
| ETags (`crud/base.py`, `api/base.py`) | `etag` | upsert at each write; read with each response | tag and body are two SELECTs; NULLs in a unique constraint | a response with the current tag holds the current objects |
| Namespaces (`crud/namespace.py`) | `namespace`, `namespace_limit` | create | counter read, checked and written back; scopes granted from scopes already held | counter and limit, creator can read |
| Users, groups, scopes, keys (`admin.py`, `scopes.py`) | `user`, `user_group`, `user_group_member`, `user_scope`, `user_group_scope`, `api_key` | the commands `init:user`, `user:create`, `usergroup:create`, `user:add:group`, `user:grant`, `usergroup:grant`; activate and deactivate keys | scopes on a namespace, the public ones, the private ones, all; to a user or a group, before or after the user joins; scopes cached by a request while they are added | a private namespace is open to its creator, to admins, and to those to whom that was granted |
| Columns, localities, layers, column sets, view templates (`crud/column.py`, `locality.py`, `geo_layer.py`, `column_set.py`, `view_template.py`) | rows of objects, references (canonical paths and aliases), members | create, add aliases | aliases inserted one by one, in any order, next to a tag; a table lock for the partition of a new column between its path and its aliases; a conflicting alias rolls back the whole transaction and the loop goes on; members compared by the aliases there are now | a path or alias names one object, nothing refers to what is not there, no column is used twice |
| Views (`crud/view.py`) | `view`, `view_render` | create, render, cached render | closed intervals at both ends; rows committed after `valid_at`; a cache without an expiry; a graph on an earlier set | two renders of a view agree, one row per geography, both ends of an edge are rows |
| Fork (`api/geography/fork_geos.py`, `list_geos.py`, `fork_bulk`) | none of its own | compare two layers, copy geographies, map the locality | comparison and copy in several statements, between which anyone writes to either namespace, another fork too | what is added is what was listed, or nothing is; afterwards both layers list the same |
| Metadata, imports (`crud/obj_meta.py`, `crud/geo_import.py`) | append-only rows | create, lookup | a record that is not there yet is refused | - |
| Rendering (`render.py`) | files | GeoPackage by `ogr2ogr` | other snapshot than the query's | row count equals the view's |
| Application, schemas, migrations | none | routing, handlers, (de)serialisation | - | - |

Requests interact only through the database, and through identifiers a client
got from one request and sends in the next (metadata, imports). A geo set version
refers to geographies; plans, graphs and views refer to a geo set version; views
select the column values and the geography versions of an instant; every write
draws a tag for its collection; scopes decide who may start a request at all.

## 2. Modules

| Module | What it models |
|---|---|
| `TemporalTable` | Abstract: what a versioned table promises. For each key and instant one value or none; a write at t changes only t and later, and only where the table is settled |
| `ColumnValues` | `set_values`, statement by statement, by any number of workers; refines `TemporalTable` when requests do not overlap |
| `ColumnValuesProofs` | TLAPS proofs about `ColumnValues` with requests that overlap |
| `ColumnValuesSerialProofs` | TLAPS proofs about `ColumnValues` with one request at a time, the refinement of `TemporalTable` among them |
| `GeoVersions` | `create_bulk` and `patch_bulk`: geographies, geometry bins, versions |
| `GeoVersionsProofs` | TLAPS proofs about `GeoVersions` |
| `GeoSets` | `map_locality`, the creation of plans with their limit, and of graphs |
| `GeoSetsProofs` | TLAPS proofs about `GeoSets` |
| `Views` | the creation and the rendering of views, with plans and graphs, over the tables that the modules above write; here a write is one step, with a `now` of any earlier instant |
| `ViewsProofs` | TLAPS proofs about `Views` |
| `Collections` | columns and localities with their aliases, layers, column sets and view templates; the tags of their collections and the responses that carry a tag |
| `CollectionsProofs` | TLAPS proofs about `Collections` |
| `Fork` | forks of a layer from one namespace into another, overlapping with one another and with writes to both namespaces |
| `ForkProofs` | TLAPS proofs about `Fork` |
| `Namespaces` | users, groups, scopes and the commands that add them, and the creation of namespaces with its limit |
| `NamespacesProofs` | TLAPS proofs about `Namespaces` |
| `MC*` | values of the constants, for TLC |

### How the code maps to the modules

* **A request is a worker.** `req[w].pc` says which statement the transaction of
  worker `w` ran last; the other fields are the local variables that later
  statements use (`now`, `geo_ids_to_insert`, `with_tuples`, `missing_hashes`,
  `path_hash_dict`...).
* **One action per statement whose answer or effect another transaction can
  change.** Validation that reads nothing mutable is part of the action that
  starts the request. Committed rows are the module's tables; a transaction's own
  uncommitted rows are a function of its `pc` (`Uncommitted`, `InsertedKeys`,
  `InsertedBins`, `Inserts`...) and reach the tables in `Commit`, which is
  `db.commit()` in `get_db`. `Abort`, enabled between any two statements, is a
  crash, a lost connection, a deadlock victim or an exception with no condition
  in the model: the transaction is rolled back. `Fail` is an error response that
  the code's own conditions or a constraint produce.
* **READ COMMITTED.** A SELECT sees the committed rows at its action. An INSERT
  waits for an uncommitted row with an equal unique key (`Blocked`,
  `KeysTaken`, `PathTaken`), and fails if that row commits. An UPDATE picks its rows,
  waits for their locks and then evaluates its WHERE clause again on them:
  `StartUpdate` and `FinishUpdate`. The difference matters. `set_values` updates
  by primary key, so nothing is re-evaluated; `patch_bulk` and `map_locality`
  update `WHERE valid_to IS NULL`, so that a row closed meanwhile is skipped, and
  a row inserted meanwhile is not seen.
* **One row at a time, where waiting is the question.** A statement of many rows
  takes their keys or locks one by one, and holds what it has while it waits for
  the next. `ColumnValues` (`InsertRow`, `CloseRow`, in any order) and
  `Collections` (`InsertAlias`, and the INSERT of localities) model that, since
  `RequestsFinish` and `LocksOrdered` are about it. In the other modules a
  statement takes its rows at once, when all are free: its rows become visible at
  the commit in either case, and no property there is about waiting. A deadlock
  is the `Abort` of one of its requests.
* **`Tick`** lets time pass between any two steps; two requests may read an
  equal `now`, and a request may commit long after its `now`.
* **Faults.** A definition whose comment starts with "Fault:" is no part of a
  specification. It is a plausible mistake in the definition below it, kept to
  show that the properties notice it.

## 3. Runs

| Run | Question | Instance |
|---|---|---|
| `column_values_concurrent` | What survives when PUTs overlap? No value is lost at any instant, history is only closed by a successor, every request ends although two can deadlock | 2 workers, 2 geographies, 3 bodies that conflict, 3 instants, both fair and crashing; 151,457 states |
| `column_values_serial` | Do requests one at a time implement the abstract table? | 1 worker, all bodies over 2 geographies and 2 values, 4 instants; 46,648 states |
| `column_values_batch` (violation) | Is a batch ever refused for what is stored? | 1 worker, 3 instants |
| `geo_versions` | Creations and patches that race for paths, bins, imports, versions | 2 workers, 2 paths, 3 hashes, 3 imports, 8 bodies, 3 instants; 4,759,415 states |
| `geo_sets` | Mappings that race, while plans and graphs are made on the sets they supersede | 2 workers, 2 slots, 2 geographies, 8 bodies, 3 versions, 2 instants |
| `geo_sets_skipped` (violation) | Is a mapping skipped only when it is already there? | 1 worker |
| `views` | What can commits before, at and after the instant of a view do to its creation, its renders and its cache? | 2 namespaces, 2 paths, 1 view at instant 2 of 3, 5 write bodies, at most 4 rows added, one plan or graph |
| `views_plans` (violation) | Is there one plan assignment per path in the file of a view? | the same |
| `collections` | Do names, references and tags survive colliding creations and patches of every kind, and where do they wait for each other? | 2 workers, 1 reader, 4 paths, 14 bodies, 4 successful requests; 1,868,407 states |
| `aliases_rollback` (violation) | Does a conflicting alias undo only its own INSERT? | the same, 3 successful requests |
| `fork` | What does a fork add when the listings it compared have changed? | 2 workers, 2 namespaces (one private), 2 paths, 2 hashes with the empty one, 2 instants, 4 other writes, each at most one instant old |
| `namespaces` | Do limits and counters hold, and who may do what in a namespace, while scopes and memberships are added? | 2 users of any group, one of them with overlapping requests, 2 workers, 2 paths, limit 1, one grant or added membership; 843,197 states |

Why these bounds suffice for what the runs ask: every hazard listed in
PROJECT.json is between two requests (the code has no protocol among three), and
two workers that start over as often as the clock and the tables allow produce
every overlap of two requests, each with a history of earlier ones. Three
instants allow an open version, its closing and a second successor, with equal
and different `now` in both orders; two geographies allow a body that is partly
unchanged. In `collections` four
successes are a column, a second column, a set or a patch of one of them and a
template, and the bodies collide in each table: a path with a path, a path with
an alias, two patches with the same two aliases. In `fork` four writes are a
geography of the source, its mapping, and either a second one or a patch, with a
creation in the target in between; two instants suffice to put a patch before,
at or after a listing. Three set versions on a slot are needed for one more open version than
there are workers; three plan paths for one plan more than the limit and the
overlap allow. In `namespaces` one of the
two users is an admin, the other of any group, and either can create what the
other should not see; one grant, to a user or to a group, on one namespace, the
private ones or all, or one membership, is what it takes to open it. In `views`
one instant suffices for a view since there is one before and one after it; the
rows allow a value for each geography and then any two of a changed value, a
changed geometry in either namespace and a new set. `MaxTime`, `MaxSets`,
`MaxRows`, `MaxDerived`, `MaxSkew`, `MaxWrites` and `MaxGrants` bound counters and
have no counterpart in the code; `MaxPlans` and `MaxCreate` are the code's
limits made small. CHECK_DEADLOCK is off because the bounded clock and the
bounded tables let a run stop, as a server without requests does. Waiting for
ever is checked instead as the liveness property `RequestsFinish`.

Symmetry is used for workers, plan paths, paths of geographies and namespace
paths, never in a run with a liveness property.

### What the properties say

`ColumnValues`: `NoValueLost`, `NeverBlank` and the action property
`HistoryKept` hold for overlapping requests. A version can be closed
twice, and before it starts, since `now` is read first and the UPDATE does not
look at `valid_to` again; `NeverBlank` says that no instant is left without a
value by that. `RequestsFinish` includes the deadlocks: two PUTs of the same
geographies can each hold a key, or a row, that the other one wants next, and
one of them is aborted. `Tiled`, `BatchStored` and `ImplementsTable` are about requests
on a column that do not overlap (`MaxInFlight = 1`), and only hold then: with
overlap two requests can both insert an open version, so that the current value
is no longer unique. The code takes no measure against that, and no document
claims one.

`GeoVersions`: `EveryGeographyCurrent` is what the assertion in
`__get_path_hashes_to_patch` relies on; `References`,
`NoGap` and `HistoryFrozen` relate the tables to one another and to the past. An
interval can be inverted, since `valid_time` is read on the server before the
UPDATE looks for open versions; `NoGap` says that this leaves no instant of a
geography without a version. As with column values, overlapping patches can
leave two open versions.

`GeoSets`: `StaysMapped`, `SetsFrozen`, `OpenSetsBounded`, `WithinSet`,
`PlansBounded`. The last and `OpenSetsBounded` give the exact extent of a race
that the code accepts: the excess is at most the number of other workers.

`Views`: `Pinned` is the promise that makes a view citable: what it selects
only changes by a commit that had read its clock by the instant of the view.
`Checksum` says when `num_geos` is the number of rows that will be rendered: for
a view of one set in which no geography has two versions or two values at the
instant. Both conditions are needed. At the instant of a change the closed
intervals of a version and of its successor both hold, and with two sets the
values of one path in both namespaces count twice. Then the view is created and
no render of it succeeds. `CachedWhole` is what the checks of the renderer leave
of this: whatever is cached has exactly one row for each geography.

`EdgesRendered` relates three moments: the edges of a graph were
checked when it was created, the layer may be mapped again, and the file of a
view takes the edges without a check; only the comparison of the set of the graph
with that of the view makes both ends of each edge a row.

`Collections`: `OneObjectPerName` and `NothingDangles` are what every lookup by
path relies on, through a rollback in the middle of a creation and through patches
that pass a failed alias. `ColumnsOnce` is a check at creation that has to hold for
ever: aliases added later, or by others at the time, do not make two members one
column. `CacheCoherent` is about namespaced collections, whose routes read the
tag first: a response with the current tag has the current objects.
`LocksOrdered` says where requests can wait for each other. A creation of a column
takes its canonical path, then inserts the column, then the partition of its
values (`CREATE TABLE ... PARTITION OF`, a lock of the whole table until the
commit), then its aliases one by one, and last its tag. Who waits is less far
than whom it waits for, with three exceptions: two creations that are both about
to add their partition, two INSERTs of localities, which take their rows in any
order, and a request that waits at one of its aliases, possibly for a canonical
path whose owner waits for its partition. So every deadlock is among the first,
or among the second, or passes through an alias, and never through a tag.

`Fork`: `ForkedAsListed` is the code's own "guaranteed" (`fork_geos.py:385`): when
a fork commits, each path it adds has in the target namespace the hash the source
listed and no other. The listing alone does not give it: a listing has every
version whose closed interval meets the instant, and members of every earlier
set, so that it can name one path twice, and the target namespace can hold a
path that its layer does not. The duplicate check and the lookup of
`__validate_create_geos`, and the tag of the import, which makes two forks into
one namespace wait for each other, do. `ForkSyncs` is the purpose of a fork, under
the condition that neither layer has changed since it was read.

`Namespaces`: `CountNotAhead`, `LimitExact` (for a user whose requests do not
overlap), `CreatorCanRead`, and `PrivateIsExplicit`: what a user may do in a private
namespace (`NamespaceGroup`: "visible only to users with explicit permissions") is
due to being its creator, to being an admin, or to a scope for that permission
which an administrator granted to the user or to a group of the user, on this
namespace, the private ones or all. Nobody gets it by the scopes that groups are
created with, by a group that was created empty, or by creating other namespaces.

### Fairness

Only `column_values_concurrent` uses fairness. `WF_vars(Step(w))`: a thread that can run its
next statement does, as threads of a live process and the database do; no
request has to arrive (`Start` is not fair), and nothing has to crash. `SF_vars` of
`InsertRow(w) \/ Fail(w)` and of `CloseRow(w)`: a statement that waits for a unique
key or a row lock may find it free and taken again, but PostgreSQL queues the
waiters of a lock and wakes them in order, so that one statement is not
overtaken for ever. `WF_vars(Deadlocked(w) /\ Abort(w))`: a statement that has waited
for `deadlock_timeout` looks for a cycle of waits and is aborted if it is on one;
`Deadlocked` is this cycle, and no other abort is fair.

## 4. Disagreements found while modelling

The four violation runs each check what a comment, a docstring or a message says:

* `set_values` asserts `len(old) == len(new)` as soon as one geography of the
  batch has a value; a batch of one geography with and one without a value fails,
  although the comment above says to invalidate old values "where present"
  (`AssertionHolds`).
* `map_locality` decides with the members of every set of every layer and
  locality; a second layer or locality with the same geographies is silently not
  mapped (`SkippedOnlyIfIdentical`).
* The plan assignments of a render are selected with no condition on the
  instant, so that a geography that was ever patched has several rows, and the
  INSERT into the file fails on its primary key (`PlansRendered`).
* `_add_aliases` of a column answers a conflict with `db.rollback()`, "Rollback
  only this failed insert"; it undoes the whole transaction, so that a patch
  that succeeds has lost the aliases it inserted before (`NoneForgotten`). In a
  creation the same call leaves the block of `db.begin(nested=True)` without its
  transaction, and the request ends with an error.

Seen on reading, with no run of their own:

* The tag of a collection without a namespace is never updated, since NULLs do not
  conflict in the upsert (`crud/base.py:116`): each write adds a row, and `etag()`
  returns any of them, not "the latest". `Collections` has these rows
  (`Upserted`, `Found`).
* A contributor who creates a public namespace is granted no scope on it
  (`crud/namespace.py:91` looks at reading only) and cannot write to it, although
  `admin.py:256` says so.
* A fork of layers that are identical passes the check (GET) and fails in the copy
  (POST), which has nothing to insert. A geography of the target namespace that
  is not in the layer makes the copy fail, too; the comment before it is about the
  layer only.
* A later fork into a layer maps only what it added: the current set of the layer
  then lacks the rest, while the listings, which look at the members of all
  versions, still show them.
* A patch of a column or a locality that adds nothing returns one object where its
  caller unpacks two: an error response for a request with no effect.
* The responses for sets and templates embed columns with their aliases, which
  change without the tag of the set or the template.
* A graph is rendered as of `created_at`, the start of its transaction; its set
  was looked up at least 0.1 s later (`get_obj_meta` sleeps), and may hold
  geographies that have no version at that instant.

## 5. Proofs

TLAPS proves the following for every value of the constants, from the
assumptions named in the modules and nothing else. These are: `Null` is none of
the values it stands in for; bodies have their types, and the aliases of a
creation are those of its objects; bounds are natural numbers, and the clock has
an instant after the first. Workers are finitely many, since they are the
threads of a server (`serve.sh`). In `Views` namespaces and paths are finitely
many, since they are the rows of two tables. No namespace has a path that is a
word of a scope (`global`, `public`, `private`, `all`): in the code a scope
names a namespace by `namespace_id` and a group of them in another column
(`models.py`, `UserScope`), so that they are never confused, while the model has
one field for both.

The eight proof modules have the same plan: a strengthened invariant, one lemma
per part with one case per action, a theorem that the invariant holds, and a
short theorem per property. Every property of a passing run but the liveness
property is the statement of a theorem.

| Module | Theorems, and the properties they establish |
|---|---|
| `ColumnValuesProofs` | `TypeCorrect`, `ValueNeverLost` (`NoValueLost`), `NoInstantBlank` (`NeverBlank`), `HistoryNeverRewritten` (`HistoryKept`) |
| `ColumnValuesSerialProofs` | `SerialTiled` (`Tiled`), `SerialBatchStored` (`BatchStored`), `SerialImplementsTable` (`ImplementsTable`) |
| `GeoVersionsProofs` | `TypeCorrect`, `AlwaysCurrent` (`EveryGeographyCurrent`), `ReferencesStored` (`References`), `NoInstantUncovered` (`NoGap`), `ClosedIsHistory` (`HistoryFrozen`) |
| `GeoSetsProofs` | `TypeCorrect`, `AlwaysMapped` (`StaysMapped`), `OpenVersionsBounded` (`OpenSetsBounded`), `CreatedWithinSet` (`WithinSet`), `LimitOvershootBounded` (`PlansBounded`), `VersionsFrozen` (`SetsFrozen`) |
| `CollectionsProofs` | `TypeCorrect`, `NamesUnique` (`OneObjectPerName`), `ReferencesHold` (`NothingDangles`), `NoColumnTwice` (`ColumnsOnce`), `ResponsesCurrent` (`CacheCoherent`), `DeadlocksLocated` (`LocksOrdered`) |
| `ViewsProofs` | `TypeCorrect`, `SetsExist`, `PinnedToInstant` (`Pinned`), `ChecksumRight` (`Checksum`), `CachedIsWhole` (`CachedWhole`), `EdgesAreRendered` (`EdgesRendered`) |
| `ForkProofs` | `TypeCorrect`, `ForkCreatesListed` (`ForkedAsListed`), `ForkEqualizes` (`ForkSyncs`) |
| `NamespacesProofs` | `TypeCorrect`, `NeverAhead` (`CountNotAhead`), `LimitKept` (`LimitExact`), `CreatorReads` (`CreatorCanRead`), `PrivateExplicit` (`PrivateIsExplicit`) |

**`ColumnValuesProofs`.** The invariant is `TypeOK /\ OnlyWritten /\ Holding /\
Reserved /\ KeysUnique /\ NoValueLost`. `NoValueLost` is not inductive: that a
commit leaves a current value follows only if what the UPDATE closes is of
geographies for which the transaction itself inserts (`OnlyWritten`), and if what
it closes is not what it inserts: the keys it holds (`Holding`) are free and no
other request's (`Reserved`), so that the primary key (`KeysUnique`, a step of the
proof and no result) stays.
`NeverBlank` is inductive relative to it: the instants at or after `now` that a
version gives up are those of the version the same commit inserts.

**`ColumnValuesSerialProofs`.** Each theorem has the hypothesis `MaxInFlight =
1`: requests on the column do not overlap, as in the serial run, though any
worker may serve them, fail or crash. To the invariant above it adds that one
request is in flight (`OneAtATime`), that what it read in the two SELECTs still
is so at its commit (`ReadsHold`), that nothing starts or ends after its `now`
(`InThePast`), and `Succession`: a closed version has a successor with another
value that starts where it ends, and none overlaps it. From that the versions in
effect at an instant are at most one, `AsOfTable` is a function of the rows, and
a commit is one `Write` of the abstract table: at its `now`, of the values that
differ from the current ones. That the table is settled for these keys is
`InThePast` together with the primary key, which refuses a second version with
the same `valid_from`. Every other step leaves the table as it is.

**`GeoVersionsProofs`.** The invariant adds to the properties `OnlyWritten` (as
above), `LocksHeld` (a row lock names an open version, and two transactions hold
none in common: why nothing closed is closed again), `KeysReserved` (why the
primary key stays), `Stored` (geographies and bins found in an earlier statement are still
there at the commit, since nothing deletes them).

**`GeoSetsProofs`.** The two bounds are not inductive, and what is missing is a
way of counting. `Attributed` says that each open version of a slot can be
attributed to a worker, no two to the same one, and that a worker which is
updating the slot has among its targets the version attributed to it: the UPDATE
picks its rows after the previous request of that worker has committed. So a
commit replaces the version of its worker and adds no second one.
`PromisesBounded` counts with the plans of a slot the requests that have passed
the check of the limit and have not committed; each of them occupies a worker.
For `StaysMapped` and `SetsFrozen`, `Locked` says that locked versions are open
and are one transaction's, and for `WithinSet`, `Found` that the set version
found in an earlier statement is still stored, and holds the geographies that
were looked up in it.

**`ViewsProofs`.** For `Pinned`: a write at t changes nothing effective before
t; the invariant `Named` is there for the sets of a view or a graph, which are
identifiers: they exist, so that no later mapping is given one of them. The
other properties relate a creation, a render and a cache, which read different
states. What an earlier statement established holds at a later one because no
commit can undo it: the sets of a view have the same paths (`Agreed`), each
geography has a value at the instant (`Valued`), a geometry at every instant
(`Covered`), a set is of one namespace (`Layered`, `AtHome`), values have a
primary key (`Keyed`), the edges of a graph lie in its set (`Linked`). `Stored`
says this of every view, `Creating` of the one that is being created,
`Exporting` and `Caching` of what is being rendered and of what is cached.
`Checksum` then is a bijection between the joined rows and the members of the
set; `CachedWhole` needs the finiteness of the tables, so that as many rows as
paths, with every path among them, are one row for each.

**`CollectionsProofs`.** None of the properties says anything of a request
between its statements, so the invariant adds that what a request has inserted
is free and no other request's (`AllPending`, `Apart`: why two of one name
cannot both commit), that what it refers to is still there, that the columns it
was found to list once differ as objects and keep doing so while aliases are
added (`PendingDiffer`, `MembersDiffer`), and that no reader has a tag of a
write to come (`TagsWritten`). `DeadlocksLocated` follows from `AllPending`
alone: what a request holds tells how far it is, and a request that holds the tag
of a namespaced collection has nothing left to wait for.

**`ForkProofs`.** `ForkedAsListed` is about the rows at the commit, and the
checks were made statements before. `Creating` says that what a fork has
inserted could still be created now. It is inductive for two reasons: a creation
by another request takes the geography tag of the target, which the fork holds,
and another fork into the target takes the `geo_import` tag first, which has one
holder (`OneFork`). `Checked` keeps what the earlier check of the listings found
(each pair of the target is one of the source), and `Finite` lets the comparison
of two counts say that no path has two hashes.

**`NamespacesProofs`.** The counter is written back from what the transaction
read: `CountsBehind` says that what was read is not ahead, and `CountsExact`
that for a user whose requests do not overlap it is the number of namespaces.
`PathsReserved`, the unique path, makes every commit add one namespace.
Administrators only add: `ScopesGrow` says that no step takes a permission away,
so that a request that found, with the scopes read at its start, that its user
can read what it creates is still right at its commit (`ReadsHeld`, for
`CreatorCanRead`). `ScopesOwn` says where a scope of a user comes from that was not
granted: from being the first user, an admin, or from a namespace that the user
created; `GroupScopesOwn` that a scope of a group other than the admins that was
not granted is on the public namespaces or on none. With the unique paths,
`PrivateIsExplicit` follows.

### What stays with TLC

* `RequestsFinish`: liveness under fairness is out of the prover's reach.
* The four violations, which are counterexamples.
* `TemporalTable` is implemented by serial requests only; the theorems about
  it have the hypothesis of the run.

## 6. What is not modelled

* Geometry, values, descriptions and other payloads: a geometry is its hash, a
  value is a model value, a path is taken in its normalized form.
* Partitions of `column_value` are in `Collections`, where the creation of a column
  adds one. `set_values` runs the same statement, with `IF NOT EXISTS`, for a
  column that has its partition, and does nothing then. That the locks of a
  creation on `column_value` and the tables it refers to make other requests wait
  (PUTs of values, renders, writers of geographies) is left out of their modules:
  it delays them until the creation ends, or one of the two is a deadlock's victim.
* `api/base.py` `check_etag` compares `If-None-Match` with the constant text
  `"{etag}"` (the string has no `f` prefix), so no real tag ever matches it and a
  304 is never sent; conditional requests therefore have no state to model.
* `api/namespace.py` reads the tag of the localities when one namespace is read:
  a response that no other response relies on.
* Deadlock detection outside `ColumnValues`: PostgreSQL's choice of a victim is an
  `Abort`. Overlapping patches of geographies (`geography.py:487`) can deadlock like
  PUTs of values; `GeoVersions` takes the rows of an UPDATE at once, and its
  properties are about what commits.
* Of views: more than one column, layer path or locality, plans hidden
  by their namespace, metadata tables. Overlapping writes of one table are in
  the module of that table; `Views` takes them one after the other.
* The file of a graph: the steps are those of a view without an expected number
  of rows; `GraphRows` is what it selects. The edges are not checked against it.
* The routes of views and graphs read their tag after the objects, so that a
  response can carry a newer tag than its objects; they take no `If-None-Match`.
* In `Fork` a creation, a patch or a mapping by another request is one step, and a
  geometry of the source is stored, as `GeoVersions` proves (`References`). A
  layer, its locality and its scopes are given; a namespace has one layer.
* In `Collections` cross-namespace
  members of templates are members, and hidden namespaces a refused request.
* API keys and metadata records: a flag an administrator sets, and rows that are
  added and looked up once. `get_obj_meta` sleeps 0.1 s "otherwise you can try to
  query the db before it has committed the metadata object": whether `get_db`
  commits before the response is sent depends on the version of FastAPI. No module
  assumes it; a record that is not found is refused.
* Of `admin.py`: keys, and the scopes on localities and metadata, which no
  namespace depends on. A command on several users (`user:add:group`,
  `user:create:bulk`) is several steps. A command is one step, since what it checks
  (an admin, a user, a group or a namespace that exists) is never taken away, and
  two commands that insert the same row are ordered by its unique key.
* Migrations, the format of files, logging: pure input and output.

## 7. Plan

1. Lemmas about the helpers that several proofs need in a form of their own
   (`Effective` and the succession of versions, the images of finite sets).
2. Converse results where a run shows a bound to be reached (`OpenSetsBounded`, `PlansBounded`),
   and what overlapping requests keep of `Tiled`.
3. `Views` with two columns, or two sets with values for one path each.
