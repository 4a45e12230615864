---------------------------- MODULE ColumnValues ----------------------------
(***************************************************************************)
(* The values of one data column (crud/column.py, set_values) as           *)
(* concurrent PUT requests write them.  Every request is one transaction   *)
(* of PostgreSQL at its default isolation level, READ COMMITTED            *)
(* (api/deps.py, get_db; crud/column.py): each statement sees what was     *)
(* committed when it started, and nothing is locked between a SELECT and   *)
(* the INSERT and UPDATE computed from it.  One action per SELECT, and one *)
(* per row that the INSERT or the UPDATE takes: a request holds the rows   *)
(* it has taken while it waits for the next one.                           *)
(***************************************************************************)
EXTENDS Naturals, FiniteSets

CONSTANTS Workers,      \* handler threads of the gunicorn processes
          Geos,         \* the geographies of the column
          Vals,         \* values of the column's type
          Null,         \* SQL NULL in valid_to
          Absent,       \* the value as of an instant before the first version
          Batches,      \* the request bodies: functions from geographies to values
          MaxTime,      \* bound on the clock
          MaxInFlight   \* requests on this column at once

ASSUME NullAssumption == Null \notin Nat
ASSUME WorkersAssumption == IsFiniteSet(Workers)
ASSUME MaxTimeAssumption == MaxTime \in Nat \ {0}
ASSUME BatchesAssumption == Batches \subseteq UNION {[S -> Vals] : S \in SUBSET Geos}

VARIABLES clock,  \* the clock `datetime.now` reads
          rows,   \* committed rows of column_value
          req     \* what each worker's transaction has done so far

vars == <<clock, rows, req>>

Times == 1 .. MaxTime
Row == [geo : Geos, val : Vals, from : Nat, to : Nat \cup {Null}]
Key(r) == <<r.geo, r.from>>
NoBatch == [g \in {} |-> g]

(* `now`, `values`, geo_ids_to_insert and with_tuples of a running set_values, *)
(* the keys of the rows it holds, and that of the row its statement is at.     *)
Request == [pc : {"idle", "started", "diffed", "read", "inserted"},
            now : Nat, batch : Batches \cup {NoBatch}, write : SUBSET Geos,
            targets : SUBSET (Geos \X Nat),
            held : SUBSET (Geos \X Nat), at : (Geos \X Nat) \cup {Null}]
Idle == [pc |-> "idle", now |-> 0, batch |-> NoBatch, write |-> {}, targets |-> {},
         held |-> {}, at |-> Null]

TypeOK ==
  /\ clock \in Nat
  /\ rows \in SUBSET Row
  /\ req \in [Workers -> Request]

Init ==
  /\ clock = 1
  /\ rows = {}
  /\ req = [w \in Workers |-> Idle]

-----------------------------------------------------------------------------
InFlight == {w \in Workers : req[w].pc # "idle"}
OpenRows(S) == {r \in rows : r.geo \in S /\ r.to = Null}

(* old_row_pairs and new_row_pairs. *)
OldPairs(w) == {<<r.geo, r.val>> : r \in OpenRows(DOMAIN req[w].batch)}
NewPairs(w) == {<<g, req[w].batch[g]>> : g \in DOMAIN req[w].batch}

(* The assertion: either no geography of the batch has a value, or each one has. *)
OldRowsMatch(w) ==
  OldPairs(w) # {} => Cardinality(OldPairs(w)) = Cardinality(NewPairs(w))

(* Fault: the diff compares geographies, not values. *)
ChangedIfNew(w) == {g \in DOMAIN req[w].batch : OpenRows({g}) = {}}

(* Fault: no diff, every geography of the batch is written. *)
ChangedAlways(w) == DOMAIN req[w].batch

(* geo_ids_to_insert: the geographies whose value changes. *)
Changed(w) ==
  IF OldPairs(w) = {} THEN DOMAIN req[w].batch
  ELSE {g \in DOMAIN req[w].batch : <<g, req[w].batch[g]>> \notin OldPairs(w)}

(* The keys of the rows to insert. *)
NewKeys(w) == {<<g, req[w].now>> : g \in req[w].write}
KeyExists(w) == \E r \in rows : Key(r) = req[w].at

(* The row a statement is at is one that another open transaction has        *)
(* inserted or updated: the statement waits for the end of that transaction. *)
WaitsFor(w, v) == w # v /\ req[w].at \in req[v].held
Blocked(w) == \E v \in Workers : WaitsFor(w, v)

(* A cycle of waits (a request waits for at most one other). *)
Deadlocked(w) ==
  \E S \in SUBSET Workers :
    w \in S /\ \A u \in S : (\E v \in S : WaitsFor(u, v)) /\ (\E v \in S : WaitsFor(v, u))

(* The next row of those left to a statement: a set has no order. *)
NextOf(left) == IF left = {} THEN {Null} ELSE left

-----------------------------------------------------------------------------
Tick ==
  /\ clock < MaxTime
  /\ clock' = clock + 1
  /\ UNCHANGED <<rows, req>>

(* A request arrives.  A batch with a repeated geography or an ill-typed     *)
(* value raises before the first statement; every other batch starts here.  *)
Start(w, b) ==
  /\ req[w].pc = "idle"
  /\ Cardinality(InFlight) < MaxInFlight
  /\ req' = [req EXCEPT ![w] = [Idle EXCEPT !.pc = "started", !.now = clock, !.batch = b]]
  /\ UNCHANGED <<clock, rows>>

(* The SELECT of the open rows and the diff against them. *)
Diff(w) ==
  /\ req[w].pc = "started"
  /\ OldRowsMatch(w)
  /\ req' = [req EXCEPT ![w].pc = IF Changed(w) = {} THEN "inserted" ELSE "diffed",
                        ![w].write = Changed(w)]
  /\ UNCHANGED <<clock, rows>>

(* Fault: the rows to close are those of the whole batch. *)
ReadTargetsOfBatch(w) ==
  /\ req[w].pc = "diffed"
  /\ \E first \in NewKeys(w) :
       req' = [req EXCEPT ![w].pc = "read", ![w].at = first,
                          ![w].targets = {Key(r) : r \in OpenRows(DOMAIN req[w].batch)}]
  /\ UNCHANGED <<clock, rows>>

(* The SELECT of the primary keys to close; the INSERT then begins. *)
ReadTargets(w) ==
  /\ req[w].pc = "diffed"
  /\ \E first \in NewKeys(w) :
       req' = [req EXCEPT ![w].pc = "read", ![w].at = first,
                          ![w].targets = {Key(r) : r \in OpenRows(req[w].write)}]
  /\ UNCHANGED <<clock, rows>>

(* One row of the INSERT, whose key no other transaction holds; after the   *)
(* last one the UPDATE begins, if there is a row to close.                  *)
InsertRow(w) ==
  LET taken == req[w].held \cup {req[w].at}
      left  == NewKeys(w) \ taken
  IN /\ req[w].pc = "read"
     /\ ~ Blocked(w)
     /\ ~ KeyExists(w)
     /\ \E next \in NextOf(IF left = {} THEN req[w].targets ELSE left) :
          req' = [req EXCEPT ![w].pc = IF left = {} THEN "inserted" ELSE "read",
                             ![w].held = taken, ![w].at = next]
     /\ UNCHANGED <<clock, rows>>

(* One row of the UPDATE of valid_to, which selects its rows by key alone: a *)
(* row that another transaction has closed meanwhile is closed again.        *)
CloseRow(w) ==
  LET taken == req[w].held \cup {req[w].at}
  IN /\ req[w].pc = "inserted" /\ req[w].at # Null
     /\ ~ Blocked(w)
     /\ \E next \in NextOf(req[w].targets \ taken) :
          req' = [req EXCEPT ![w].held = taken, ![w].at = next]
     /\ UNCHANGED <<clock, rows>>

(* The assertion fails, or the INSERT meets a committed row with its key. *)
Fails(w) == \/ req[w].pc = "started" /\ ~ OldRowsMatch(w)
            \/ req[w].pc = "read" /\ ~ Blocked(w) /\ KeyExists(w)

(* Fault: set_values is tried again, with the `now` it has read. *)
FailRetried(w) ==
  /\ Fails(w)
  /\ req' = [req EXCEPT ![w] = [Idle EXCEPT !.pc = "started", !.now = req[w].now,
                                            !.batch = req[w].batch]]
  /\ UNCHANGED <<clock, rows>>

Fail(w) ==
  /\ Fails(w)
  /\ req' = [req EXCEPT ![w] = Idle]
  /\ UNCHANGED <<clock, rows>>

(* A crash of the worker, a lost connection or a deadlock victim: rolled back. *)
Abort(w) ==
  /\ req[w].pc # "idle"
  /\ req' = [req EXCEPT ![w] = Idle]
  /\ UNCHANGED <<clock, rows>>

(* Fault: an old version is overwritten in place. *)
ClosedInPlace(w) ==
  {IF Key(r) \in req[w].targets THEN [r EXCEPT !.val = req[w].batch[r.geo]] ELSE r
     : r \in rows}

AsClosed(w, r) == IF Key(r) \in req[w].targets THEN [r EXCEPT !.to = req[w].now] ELSE r
Closed(w) == {AsClosed(w, r) : r \in rows}

(* Fault: a row is stored without its valid_from. *)
NewRowsUndated(w) == {[geo |-> g, val |-> req[w].batch[g], from |-> Null, to |-> Null]
                        : g \in req[w].write}

(* Fault: the new versions start at the commit, the old ones end at `now`. *)
NewRowsLate(w) == {[geo |-> g, val |-> req[w].batch[g], from |-> clock, to |-> Null]
                     : g \in req[w].write}

NewRows(w) == {[geo |-> g, val |-> req[w].batch[g], from |-> req[w].now, to |-> Null]
                : g \in req[w].write}

(* `db.commit()` at the end of get_db. *)
Commit(w) ==
  /\ req[w].pc = "inserted" /\ req[w].at = Null
  /\ rows' = Closed(w) \cup NewRows(w)
  /\ req' = [req EXCEPT ![w] = Idle]
  /\ UNCHANGED clock

Step(w) == Diff(w) \/ ReadTargets(w) \/ InsertRow(w) \/ CloseRow(w) \/ Fail(w) \/ Commit(w)

Next ==
  \/ Tick
  \/ \E w \in Workers : \/ \E b \in Batches : Start(w, b)
                        \/ Diff(w)
                        \/ ReadTargets(w)
                        \/ InsertRow(w)
                        \/ CloseRow(w)
                        \/ Fail(w)
                        \/ Abort(w)
                        \/ Commit(w)

Spec == Init /\ [][Next]_vars

(* A worker that can run its next statement does.  PostgreSQL queues the     *)
(* waiters of a lock, so no row is taken by others for ever while one waits; *)
(* a statement that has waited for deadlock_timeout is aborted if it is on a *)
(* cycle of waits.                                                           *)
Fairness == \A w \in Workers : /\ WF_vars(Step(w))
                               /\ SF_vars(InsertRow(w) \/ Fail(w))
                               /\ SF_vars(CloseRow(w))
                               /\ WF_vars(Deadlocked(w) /\ Abort(w))
FairSpec == Spec /\ Fairness

-----------------------------------------------------------------------------
(* A geography that was given a value always has a current one: no step of  *)
(* any interleaving of set_values, a failure included, closes the last open *)
(* version without adding one.                                              *)
NoValueLost == \A r \in rows : \E s \in rows : s.geo = r.geo /\ s.to = Null

Effective(r, t) == r.from <= t /\ (r.to = Null \/ t < r.to)

(* From its first value on a geography has one at every instant: `now` is    *)
(* read before the old rows are, and the UPDATE does not look at valid_to    *)
(* again, so that a version can be closed twice, or before it starts; yet    *)
(* each instant it no longer covers is that of another version.             *)
NeverBlank ==
  \A r \in rows : \A t \in Times :
    r.from <= t => \E s \in rows : s.geo = r.geo /\ Effective(s, t)

(* A version never disappears and its value is never altered; valid_to only *)
(* changes to the instant at which a version added by the same commit       *)
(* starts, so a version is never closed without a successor.                *)
HistoryKept ==
  [][\A r \in rows : \E s \in rows' :
       /\ Key(s) = Key(r) /\ s.val = r.val
       /\ s.to # r.to => \E n \in rows' \ rows : Key(n) = <<r.geo, s.to>>]_rows

(* Every request ends, although each one holds the rows it has taken while   *)
(* it waits for others: the INSERTs of two requests, or their UPDATEs, may   *)
(* take two rows in opposite orders, which the deadlock detector ends.  No   *)
(* other wait lasts: a failed INSERT gives up its keys, and the request ends. *)
RequestsFinish == \A w \in Workers : req[w].pc # "idle" ~> req[w].pc = "idle"

-----------------------------------------------------------------------------
(* What holds when requests on the column do not overlap (MaxInFlight = 1).  *)

(* The versions of a geography follow one another without a gap or an       *)
(* overlap, and each one differs from its successor: an unchanged value is  *)
(* not stored again.                                                        *)
Tiled ==
  \A r \in rows :
    /\ r.to # Null => \E s \in rows : Key(s) = <<r.geo, r.to>> /\ s.val # r.val
    /\ \A s \in rows : s # r /\ s.geo = r.geo =>
         \A t \in Times : ~ (Effective(r, t) /\ Effective(s, t))

(* A request that succeeds leaves its values as the current ones, those it   *)
(* skipped as unchanged included.                                           *)
BatchStored ==
  [][\A w \in Workers : Commit(w) =>
       \A g \in DOMAIN req[w].batch : \E r \in rows' :
          r.geo = g /\ r.to = Null /\ r.val = req[w].batch[g]]_vars

AsOf(g, t) == LET S == {r \in rows : r.geo = g /\ Effective(r, t)}
              IN IF S = {} THEN Absent ELSE (CHOOSE r \in S : TRUE).val

AsOfTable == [g \in Geos |-> [t \in Times |-> AsOf(g, t)]]

Table == INSTANCE TemporalTable WITH Keys <- Geos, asOf <- AsOfTable

(* set_values implements the versioned table: each commit is one write, at   *)
(* its `now`, of what changes of its batch, and the past of that instant is  *)
(* stable.                                                                  *)
ImplementsTable == Table!Spec

(* The assertion of set_values, where a request is about to evaluate it: a   *)
(* batch of well-typed values is not refused for what is stored already.     *)
AssertionHolds == \A w \in Workers : req[w].pc = "started" => OldRowsMatch(w)
=============================================================================
