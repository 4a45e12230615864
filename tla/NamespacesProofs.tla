--------------------------- MODULE NamespacesProofs ---------------------------
(***************************************************************************)
(* Proofs about Namespaces for every set of workers, users, groups and     *)
(* paths, every limit and every set of grants.                             *)
(*                                                                         *)
(* The counter of a user is written back from what the transaction read,   *)
(* so that CountNotAhead and LimitExact need to know that what was read is *)
(* not ahead of, and for a user whose requests do not overlap is exactly,  *)
(* the number of namespaces (CountsBehind, CountsExact); that a flushed    *)
(* namespace has its path to itself (PathsReserved) makes each commit add  *)
(* one.  CreatorCanRead needs that who could read when the request started *)
(* still can when it commits (ReadsHeld), and PrivateIsExplicit where the  *)
(* scopes come from that no administrator has granted: those of a user     *)
(* from being the first one or from creating namespaces (ScopesOwn), those *)
(* of a group from its creation (GroupScopesOwn), and again the paths.     *)
(***************************************************************************)
EXTENDS Namespaces, FiniteSetTheorems, TLAPS

USE NullAssumption, LimitsAssumption

Busy(w) == req[w].pc # "idle"
HasLimit(w) == req[w].pc \in {"limited", "flushed"}
Flushed(w) == req[w].pc = "flushed"

(* Who creates a namespace exists, and a checked limit is one. *)
WellFormed ==
  /\ IsFiniteSet(namespaces)
  /\ \A n \in namespaces : groups[n.creator] # {}
  /\ \A w \in Workers : /\ Busy(w) => req[w].ns \in Namespace /\ groups[User(w)] # {}
                        /\ HasLimit(w) => req[w].limit \in Limit

(* The unique index on the path. *)
PathsReserved ==
  /\ \A m, n \in namespaces : m.path = n.path => m = n
  /\ \A w \in Workers : Flushed(w) => \A n \in namespaces : n.path # req[w].ns.path
  /\ \A v, w \in Workers :
       Flushed(v) /\ Flushed(w) /\ req[v].ns.path = req[w].ns.path => v = w

(* Who could read what a request creates when it started still can. *)
ReadsHeld == \A w \in Workers : Busy(w) /\ req[w].reads => CanRead(User(w), req[w].ns)

(* Without a grant, the scopes of a user are those of the first one or on     *)
(* what the user created, and those of a group that has not all of them are  *)
(* on the public namespaces or on none.                                      *)
ScopesOwn ==
  \A u \in Users : \A s \in userScopes[u] :
    \/ s.granted
    \/ s.scope = "all" /\ s.on = "all"
    \/ \E n \in namespaces : n.creator = u /\ s.on = n.path
GroupScopesOwn ==
  \A g \in Groups : \A s \in groupScopes[g] :
    s.granted \/ g = "admin" \/ s.on \in {"public", "global"}

(* A count that was read is not ahead of the namespaces. *)
CountsBehind ==
  \A w \in Workers : HasLimit(w) => req[w].limit.count <= Created(User(w))

Serial(u) == MaxPerUser[u] <= 1

Alone ==
  \A v, w \in Workers :
    Busy(v) /\ Busy(w) /\ User(v) = User(w) /\ Serial(User(w)) => v = w

(* Of a user whose requests do not overlap, it is the number of namespaces. *)
CountsExact ==
  \A w \in Workers : HasLimit(w) /\ Serial(User(w)) =>
    /\ req[w].limit.count = Created(User(w))
    /\ Flushed(w) => Allowed(w)

Inv == /\ TypeOK /\ WellFormed /\ PathsReserved
       /\ CreatorCanRead /\ ReadsHeld /\ ScopesOwn /\ GroupScopesOwn
       /\ CountNotAhead /\ CountsBehind
       /\ Alone /\ CountsExact /\ LimitExact

LEMMA IdleType == Idle \in Transaction
  BY DEF Idle, Transaction

-----------------------------------------------------------------------------
(* What a worker's step does to its own transaction. *)
LEMMA StartStep ==
  ASSUME TypeOK, NEW w \in Workers, NEW n \in Namespace, Start(w, n)
  PROVE  /\ ~ Busy(w) /\ req' \in [Workers -> Transaction]
         /\ req'[w].pc = "started" /\ req'[w].ns = n
         /\ req'[w].reads = CanRead(n.creator, n)
         /\ \A v \in Workers \ {w} : req'[v] = req[v]
         /\ groups[n.creator] # {} /\ Unwritten
<1> DEFINE reads == CanRead(n.creator, n)
           t == [Idle EXCEPT !.pc = "started", !.ns = n, !.reads = reads]
<1>1. reads \in BOOLEAN
  BY DEF CanRead, HasNamespaceScope, Has
<1>2. req' = [req EXCEPT ![w] = t] /\ groups[n.creator] # {} /\ Unwritten /\ ~ Busy(w)
  BY DEF Start, Busy
<1> HIDE DEF reads
<1>3. t \in Transaction /\ t.pc = "started" /\ t.ns = n /\ t.reads = reads
  BY <1>1 DEF Idle, Transaction
<1> HIDE DEF t
<1>4. req' \in [Workers -> Transaction] /\ req'[w] = t
      /\ \A v \in Workers \ {w} : req'[v] = req[v]
  BY <1>2, <1>3 DEF TypeOK
<1> QED
  BY <1>2, <1>3, <1>4 DEF reads

LEMMA ReadLimitStep ==
  ASSUME TypeOK, WellFormed, NEW w \in Workers, ReadLimit(w)
  PROVE  /\ Busy(w) /\ User(w) \in Users /\ req' \in [Workers -> Transaction]
         /\ req'[w].ns = req[w].ns /\ req'[w].limit = limits[User(w)]
         /\ req'[w].reads = req[w].reads
         /\ req'[w].pc = IF limits[User(w)] = Null THEN "unlimited" ELSE "limited"
         /\ \A v \in Workers \ {w} : req'[v] = req[v]
         /\ Unwritten
<1>1. Busy(w) /\ User(w) \in Users
  BY DEF ReadLimit, WellFormed, Busy, User, Namespace
<1>2. limits[User(w)] \in Limit \cup {Null}
  BY <1>1 DEF TypeOK
<1> DEFINE l == limits[User(w)]
           t == [req[w] EXCEPT !.pc = IF l = Null THEN "unlimited" ELSE "limited", !.limit = l]
<1>3. t \in Transaction /\ t.ns = req[w].ns /\ t.limit = l /\ t.reads = req[w].reads
      /\ t.pc = IF l = Null THEN "unlimited" ELSE "limited"
  BY <1>2 DEF Transaction, TypeOK
<1>4. req' = [req EXCEPT ![w] = t] /\ Unwritten
  BY DEF ReadLimit
<1> HIDE DEF t
<1> QED
  BY <1>1, <1>3, <1>4 DEF TypeOK

LEMMA InsertLimitStep ==
  ASSUME TypeOK, WellFormed, NEW w \in Workers, InsertLimit(w)
  PROVE  /\ Busy(w) /\ User(w) \in Users /\ req' \in [Workers -> Transaction]
         /\ req'[w].ns = req[w].ns /\ req'[w].limit \in Limit /\ req'[w].limit.count = 0
         /\ req'[w].pc = "limited" /\ req'[w].reads = req[w].reads
         /\ \A v \in Workers \ {w} : req'[v] = req[v]
         /\ Unwritten /\ limits[User(w)] = Null
<1>1. Busy(w) /\ User(w) \in Users
  BY DEF InsertLimit, WellFormed, Busy, User, Namespace
<1> DEFINE l == [max |-> IF CheckAdmin(User(w)) THEN Null ELSE MaxCreate, count |-> 0]
           t == [req[w] EXCEPT !.pc = "limited", !.isNew = TRUE, !.limit = l]
<1>2. l \in Limit /\ l.count = 0
  BY DEF Limit
<1>3. req' = [req EXCEPT ![w] = t] /\ Unwritten /\ limits[User(w)] = Null
  BY DEF InsertLimit
<1> HIDE DEF l
<1>4. t \in Transaction /\ t.ns = req[w].ns /\ t.limit = l /\ t.pc = "limited"
      /\ t.reads = req[w].reads
  BY <1>2 DEF Transaction, TypeOK
<1> HIDE DEF t
<1> QED
  BY <1>1, <1>2, <1>3, <1>4 DEF TypeOK

LEMMA FlushStep ==
  ASSUME TypeOK, NEW w \in Workers, Flush(w)
  PROVE  /\ Busy(w) /\ HasLimit(w) /\ Allowed(w) /\ ~ PathTaken(w) /\ ~ PathExists(w)
         /\ req' \in [Workers -> Transaction]
         /\ req'[w].ns = req[w].ns /\ req'[w].limit = req[w].limit
         /\ req'[w].pc = "flushed" /\ req'[w].reads = req[w].reads
         /\ \A v \in Workers \ {w} : req'[v] = req[v]
         /\ Unwritten
<1> DEFINE t == [req[w] EXCEPT !.pc = "flushed"]
<1>1. t \in Transaction /\ t.ns = req[w].ns /\ t.limit = req[w].limit /\ t.pc = "flushed"
      /\ t.reads = req[w].reads
  BY DEF Transaction, TypeOK
<1>2. req' = [req EXCEPT ![w] = t] /\ Unwritten /\ Busy(w) /\ HasLimit(w)
  BY DEF Flush, Busy, HasLimit
<1>3. Allowed(w) /\ ~ PathTaken(w) /\ ~ PathExists(w)
  BY DEF Flush
<1> HIDE DEF t
<1> QED
  BY <1>1, <1>2, <1>3 DEF TypeOK

LEMMA EndStep ==
  ASSUME TypeOK, NEW w \in Workers, req' = [req EXCEPT ![w] = Idle]
  PROVE  /\ req' \in [Workers -> Transaction] /\ req'[w].pc = "idle"
         /\ \A v \in Workers \ {w} : req'[v] = req[v]
  BY IdleType DEF TypeOK, Idle

(* A commit adds one namespace to those of its user, and counts it. *)
LEMMA CommitStep ==
  ASSUME TypeOK, WellFormed, PathsReserved, NEW w \in Workers, Commit(w)
  PROVE  /\ User(w) \in Users /\ req[w].ns \in Namespace /\ req[w].ns \notin namespaces
         /\ HasLimit(w) /\ req[w].limit \in Limit
         /\ UNCHANGED <<groups, userGroups, groupScopes>>
         /\ namespaces' = namespaces \cup {req[w].ns}
         /\ limits'[User(w)] \in Limit
         /\ limits'[User(w)].count = req[w].limit.count + 1
         /\ limits'[User(w)].max = req[w].limit.max
         /\ \A u \in Users \ {User(w)} :
              limits'[u] = limits[u] /\ userScopes'[u] = userScopes[u]
         /\ userScopes'[User(w)] = userScopes[User(w)] \cup Granted(w)
         /\ limits' \in [Users -> Limit \cup {Null}]
<1>1. req[w].ns \in Namespace /\ User(w) \in Users /\ HasLimit(w) /\ req[w].limit \in Limit
  BY DEF Commit, WellFormed, Busy, HasLimit, User, Namespace
<1>2. req[w].ns \notin namespaces
  BY DEF Commit, PathsReserved, Flushed
<1> DEFINE l == [req[w].limit EXCEPT !.count = @ + 1]
<1>3. l \in Limit /\ l.count = req[w].limit.count + 1 /\ l.max = req[w].limit.max
  BY <1>1 DEF Limit
<1>4. limits' = [limits EXCEPT ![User(w)] = l]
      /\ userScopes' = [userScopes EXCEPT ![User(w)] = @ \cup Granted(w)]
      /\ namespaces' = namespaces \cup {req[w].ns}
      /\ UNCHANGED <<groups, userGroups, groupScopes>>
  BY DEF Commit
<1> HIDE DEF l
<1> QED
  BY <1>1, <1>2, <1>3, <1>4 DEF TypeOK

LEMMA CreatedType == ASSUME WellFormed, NEW u PROVE Created(u) \in Nat
<1>1. IsFiniteSet({n \in namespaces : n.creator = u})
  BY FS_Subset DEF WellFormed
<1> QED
  BY <1>1, FS_CardinalityType DEF Created

LEMMA CommitCreated ==
  ASSUME TypeOK, WellFormed, PathsReserved, NEW w \in Workers, Commit(w), NEW u \in Users
  PROVE  Created(u)' = IF u = User(w) THEN Created(u) + 1 ELSE Created(u)
<1> DEFINE own == {n \in namespaces : n.creator = u}
<1>1. IsFiniteSet(own)
  BY FS_Subset DEF WellFormed
<1>2. req[w].ns \notin own /\ namespaces' = namespaces \cup {req[w].ns}
  BY CommitStep
<1>3. {n \in namespaces' : n.creator = u} = IF u = User(w) THEN own \cup {req[w].ns} ELSE own
  BY <1>2 DEF User
<1>4. Cardinality(own \cup {req[w].ns}) = Cardinality(own) + 1
  BY <1>1, <1>2, FS_AddElement
<1> QED
  BY <1>3, <1>4 DEF Created

(* What the administrators do. *)
Administer ==
  \/ \E u \in Users : CreateFirstUser(u) \/ \E g \in GroupPermissions : CreateUser(u, g)
  \/ \E g \in Groups : CreateGroup(g) \/ \E u \in Users : AddToGroup(u, g)
  \/ \E r \in Grantable : \/ \E u \in Users : GrantUser(u, r.perms, r.on)
                         \/ \E g \in Groups : GrantGroup(g, r.perms, r.on)

LEMMA GrantType ==
  ASSUME NEW r \in Grantable
  PROVE  \E rows \in SUBSET Scope :
           /\ \A old : Grant(old, r.perms, r.on) = old \cup rows
           /\ \A s \in rows : s.granted
<1>1. r.perms \subseteq Permissions /\ r.on \in Targets
  BY GrantsAssumption DEF Targets
<1> DEFINE rows == [scope : r.perms, on : {r.on}, granted : {TRUE}]
<1>2. rows \in SUBSET Scope /\ \A s \in rows : s.granted
  BY <1>1 DEF Scope
<1>3. \A old : Grant(old, r.perms, r.on) = old \cup rows
  BY DEF Grant
<1> QED
  BY <1>2, <1>3

LEMMA GroupScopesType ==
  ASSUME NEW g \in GroupPermissions
  PROVE  /\ GroupScopes(g) \in SUBSET Scope
         /\ g # "admin" => \A s \in GroupScopes(g) : s.on \in {"public", "global"}
  BY DEF GroupPermissions, GroupScopes, Given, Scope, Permissions, Targets, NamespaceGroups

(* An administrator takes nothing from the users and groups there are, and    *)
(* what is new of a group is granted, or given at its creation.              *)
Added ==
  /\ groups' \in [Users -> SUBSET Groups] /\ userGroups' \subseteq Groups
  /\ userScopes' \in [Users -> SUBSET Scope] /\ groupScopes' \in [Groups -> SUBSET Scope]
  /\ UNCHANGED <<namespaces, limits, req>>
  /\ \A u \in Users : groups[u] \subseteq groups'[u] /\ userScopes[u] \subseteq userScopes'[u]
  /\ \A g \in Groups : groupScopes[g] \subseteq groupScopes'[g]
  /\ \A u \in Users : \A s \in userScopes'[u] :
       s \in userScopes[u] \/ s.granted \/ (s.scope = "all" /\ s.on = "all")
  /\ \A g \in Groups : \A s \in groupScopes'[g] :
       s \in groupScopes[g] \/ s.granted \/ g = "admin" \/ s.on \in {"public", "global"}

(* The rows of one holder grow by rows that Added allows. *)
LEMMA RowsAdded ==
  ASSUME NEW Holders, NEW f \in [Holders -> SUBSET Scope], NEW f1,
         NEW h \in Holders, NEW rows \in SUBSET Scope, f1 = [f EXCEPT ![h] = f[h] \cup rows]
  PROVE  /\ f1 \in [Holders -> SUBSET Scope]
         /\ \A x \in Holders : f[x] \subseteq f1[x]
         /\ \A x \in Holders : \A s \in f1[x] : s \in f[x] \/ (x = h /\ s \in rows)
<1>1. f[h] \cup rows \in SUBSET Scope
  OBVIOUS
<1>2. \A x \in Holders : f1[x] = IF x = h THEN f[h] \cup rows ELSE f[x]
  OBVIOUS
<1>3. f1 \in [Holders -> SUBSET Scope]
  BY <1>1
<1> QED
  BY <1>2, <1>3

LEMMA AdminStep == ASSUME TypeOK, Administer PROVE Added
<1> USE DEF TypeOK
<1>1. ASSUME NEW u \in Users, CreateFirstUser(u)
      PROVE  Added
  <2>1. PICK own : own = Given({"all"}, "all")
    OBVIOUS
  <2>2. own \in SUBSET Scope /\ \A s \in own : s.scope = "all" /\ s.on = "all"
    BY <2>1 DEF Given, Scope, Permissions, Targets, NamespaceGroups
  <2>3. PICK rows : rows = GroupScopes("admin")
    OBVIOUS
  <2>4. "admin" \in Groups /\ rows \in SUBSET Scope
    BY <2>3, GroupScopesType DEF Groups, GroupPermissions
  <2>5. userScopes' = [userScopes EXCEPT ![u] = userScopes[u] \cup own]
        /\ groupScopes' = [groupScopes EXCEPT !["admin"] = groupScopes["admin"] \cup rows]
        /\ groups' = [groups EXCEPT ![u] = {"admin"}] /\ groups[u] = {}
        /\ userGroups' = {"admin"} /\ UNCHANGED <<namespaces, limits, req>>
    BY <1>1, <2>1, <2>3 DEF CreateFirstUser
  <2>6. groups' \in [Users -> SUBSET Groups] /\ userGroups' \subseteq Groups
        /\ \A v \in Users : groups[v] \subseteq groups'[v]
    BY <2>4, <2>5
  <2>7. /\ userScopes' \in [Users -> SUBSET Scope]
        /\ \A v \in Users : userScopes[v] \subseteq userScopes'[v]
        /\ \A v \in Users : \A s \in userScopes'[v] : s \in userScopes[v] \/ s \in own
    BY <2>2, <2>5, RowsAdded
  <2>8. /\ groupScopes' \in [Groups -> SUBSET Scope]
        /\ \A g \in Groups : groupScopes[g] \subseteq groupScopes'[g]
        /\ \A g \in Groups : \A s \in groupScopes'[g] : s \in groupScopes[g] \/ g = "admin"
    BY <2>4, <2>5, RowsAdded
  <2> QED
    BY <2>2, <2>5, <2>6, <2>7, <2>8 DEF Added
<1>2. ASSUME NEW u \in Users, NEW g \in GroupPermissions, CreateUser(u, g)
      PROVE  Added
  <2>1. PICK rows : rows = GroupScopes(g)
    OBVIOUS
  <2>2. g \in Groups /\ rows \in SUBSET Scope
        /\ (g # "admin" => \A s \in rows : s.on \in {"public", "global"})
    BY <2>1, GroupScopesType DEF Groups
  <2>3. /\ \/ groupScopes' = groupScopes
           \/ groupScopes' = [groupScopes EXCEPT ![g] = groupScopes[g] \cup rows]
        /\ groups' = [groups EXCEPT ![u] = {g}] /\ groups[u] = {}
        /\ userGroups' = userGroups \cup {g}
        /\ UNCHANGED <<userScopes, namespaces, limits, req>>
    BY <1>2, <2>1 DEF CreateUser
  <2>4. groups' \in [Users -> SUBSET Groups] /\ userGroups' \subseteq Groups
        /\ \A v \in Users : groups[v] \subseteq groups'[v]
    BY <2>2, <2>3
  <2>5. /\ groupScopes' \in [Groups -> SUBSET Scope]
        /\ \A h \in Groups : groupScopes[h] \subseteq groupScopes'[h]
        /\ \A h \in Groups : \A s \in groupScopes'[h] :
             s \in groupScopes[h] \/ (h = g /\ s \in rows)
    <3>1. CASE groupScopes' = groupScopes
      BY <3>1
    <3>2. CASE groupScopes' = [groupScopes EXCEPT ![g] = groupScopes[g] \cup rows]
      BY <2>2, <3>2, RowsAdded
    <3> QED
      BY <2>3, <3>1, <3>2
  <2> QED
    BY <2>2, <2>3, <2>4, <2>5 DEF Added
<1>3. ASSUME NEW g \in Groups, CreateGroup(g)
      PROVE  Added
  BY <1>3 DEF CreateGroup, Added
<1>4. ASSUME NEW g \in Groups, NEW u \in Users, AddToGroup(u, g)
      PROVE  Added
  <2>1. groups' = [groups EXCEPT ![u] = groups[u] \cup {g}]
        /\ UNCHANGED <<userGroups, userScopes, groupScopes, namespaces, limits, req>>
    BY <1>4 DEF AddToGroup
  <2>2. groups' \in [Users -> SUBSET Groups]
        /\ \A v \in Users : groups[v] \subseteq groups'[v]
    BY <2>1
  <2> QED
    BY <2>1, <2>2 DEF Added
<1>5. ASSUME NEW r \in Grantable, NEW u \in Users, GrantUser(u, r.perms, r.on)
      PROVE  Added
  <2>1. PICK rows \in SUBSET Scope :
          Grant(userScopes[u], r.perms, r.on) = userScopes[u] \cup rows
          /\ \A s \in rows : s.granted
    BY GrantType
  <2>2. userScopes' = [userScopes EXCEPT ![u] = userScopes[u] \cup rows]
        /\ UNCHANGED <<groups, userGroups, groupScopes, namespaces, limits, req>>
    BY <1>5, <2>1 DEF GrantUser
  <2>3. /\ userScopes' \in [Users -> SUBSET Scope]
        /\ \A v \in Users : userScopes[v] \subseteq userScopes'[v]
        /\ \A v \in Users : \A s \in userScopes'[v] : s \in userScopes[v] \/ s \in rows
    BY <2>2, RowsAdded
  <2> QED
    BY <2>1, <2>2, <2>3 DEF Added
<1>6. ASSUME NEW r \in Grantable, NEW g \in Groups, GrantGroup(g, r.perms, r.on)
      PROVE  Added
  <2>1. PICK rows \in SUBSET Scope :
          Grant(groupScopes[g], r.perms, r.on) = groupScopes[g] \cup rows
          /\ \A s \in rows : s.granted
    BY GrantType
  <2>2. groupScopes' = [groupScopes EXCEPT ![g] = groupScopes[g] \cup rows]
        /\ UNCHANGED <<groups, userGroups, userScopes, namespaces, limits, req>>
    BY <1>6, <2>1 DEF GrantGroup
  <2>3. /\ groupScopes' \in [Groups -> SUBSET Scope]
        /\ \A h \in Groups : groupScopes[h] \subseteq groupScopes'[h]
        /\ \A h \in Groups : \A s \in groupScopes'[h] : s \in groupScopes[h] \/ s \in rows
    BY <2>2, RowsAdded
  <2> QED
    BY <2>1, <2>2, <2>3 DEF Added
<1> QED
  BY <1>1, <1>2, <1>3, <1>4, <1>5, <1>6 DEF Administer

(* Every other step leaves what is committed alone. *)
LEMMA WhatWrites ==
  ASSUME [Next]_vars
  PROVE  Unwritten \/ Administer \/ \E w \in Workers : Commit(w)
  BY DEF Next, vars, Administer, Unwritten, Start, ReadLimit, InsertLimit, Flush, Fail, Abort

(* Which steps a proof about transactions has to consider. *)
LEMMA WhatRuns ==
  ASSUME TypeOK, [Next]_vars
  PROVE  \/ UNCHANGED req
         \/ \E w \in Workers :
              \/ \E n \in Namespace : Start(w, n)
              \/ ReadLimit(w) \/ InsertLimit(w) \/ Flush(w)
              \/ req' = [req EXCEPT ![w] = Idle] /\ (Unwritten \/ Commit(w))
<1>1. Administer => UNCHANGED req
  BY AdminStep DEF Added
<1>2. \/ UNCHANGED vars \/ Administer
      \/ \E w \in Workers : \/ \E n \in Namespace : Start(w, n)
                            \/ ReadLimit(w) \/ InsertLimit(w) \/ Flush(w)
                            \/ Fail(w) \/ Abort(w) \/ Commit(w)
  BY DEF Next, Administer
<1>3. ASSUME NEW w \in Workers, Fail(w) \/ Abort(w) \/ Commit(w)
      PROVE  req' = [req EXCEPT ![w] = Idle] /\ (Unwritten \/ Commit(w))
  BY <1>3 DEF Fail, Abort, Commit
<1> QED
  BY <1>1, <1>2, <1>3 DEF vars

(* Nothing that a user may do is taken away. *)
LEMMA ScopesGrow ==
  ASSUME TypeOK, WellFormed, PathsReserved, [Next]_vars, NEW u \in Users
  PROVE  /\ groups[u] \subseteq groups'[u]
         /\ \A n : CanRead(u, n) => CanRead(u, n)'
<1>1. ASSUME NEW w \in Workers, Commit(w)
      PROVE  /\ UNCHANGED <<groups, groupScopes>>
             /\ userScopes[u] \subseteq userScopes'[u]
  BY <1>1, CommitStep
<1>2. /\ groups[u] \subseteq groups'[u] /\ userScopes[u] \subseteq userScopes'[u]
      /\ \A g \in Groups : groupScopes[g] \subseteq groupScopes'[g]
  BY <1>1, WhatWrites, AdminStep DEF Added, Unwritten
<1>3. groups[u] \subseteq Groups
  BY DEF TypeOK
<1>4. Scopes(u) \subseteq Scopes(u)'
  BY <1>2, <1>3 DEF Scopes
<1> QED
  BY <1>2, <1>4 DEF CanRead, HasNamespaceScope, Has

-----------------------------------------------------------------------------
LEMMA TypeStep == TypeOK /\ WellFormed /\ PathsReserved /\ [Next]_vars => TypeOK'
<1> SUFFICES ASSUME TypeOK, WellFormed, PathsReserved, [Next]_vars
             PROVE  TypeOK'
  OBVIOUS
<1>1. req' \in [Workers -> Transaction]
  <2>1. CASE UNCHANGED req
    BY <2>1 DEF TypeOK
  <2> QED
    BY <2>1, WhatRuns, StartStep, ReadLimitStep, InsertLimitStep, FlushStep, EndStep
<1>2. CASE Unwritten
  BY <1>1, <1>2 DEF TypeOK, Unwritten
<1>3. CASE Administer
  BY <1>1, <1>3, AdminStep DEF TypeOK, Added
<1>4. ASSUME NEW w \in Workers, Commit(w)
      PROVE  TypeOK'
  <2>1. User(w) \in Users /\ Granted(w) \subseteq Scope
    BY <1>4, CommitStep DEF Granted, Given, Scope, Permissions, Targets, Namespace
  <2>2. userScopes' = [userScopes EXCEPT ![User(w)] = @ \cup Granted(w)]
    BY <1>4 DEF Commit
  <2>3. userScopes' \in [Users -> SUBSET Scope]
    BY <2>1, <2>2 DEF TypeOK
  <2> QED
    BY <1>1, <1>4, <2>3, CommitStep DEF TypeOK
<1> QED
  BY <1>2, <1>3, <1>4, WhatWrites

LEMMA WellFormedStep == TypeOK /\ WellFormed /\ PathsReserved /\ [Next]_vars => WellFormed'
<1> SUFFICES ASSUME TypeOK, WellFormed, PathsReserved, [Next]_vars
             PROVE  WellFormed'
  OBVIOUS
<1>1. \A u \in Users : groups[u] # {} => groups'[u] # {}
  BY ScopesGrow
<1>2. IsFiniteSet(namespaces') /\ \A n \in namespaces' : groups'[n.creator] # {}
  <2>1. CASE namespaces' = namespaces
    BY <1>1, <2>1 DEF WellFormed, TypeOK, Namespace
  <2>2. ASSUME NEW w \in Workers, Commit(w)
        PROVE  IsFiniteSet(namespaces') /\ \A n \in namespaces' : groups'[n.creator] # {}
    <3>1. namespaces' = namespaces \cup {req[w].ns} /\ groups' = groups
      BY <2>2, CommitStep
    <3>2. groups[req[w].ns.creator] # {}
      BY <2>2 DEF Commit, WellFormed, Busy, User
    <3> QED
      BY <3>1, <3>2, FS_AddElement DEF WellFormed
  <2> QED
    BY <2>1, <2>2, WhatWrites, AdminStep DEF Unwritten, Added
<1> DEFINE Fine(v) == /\ Busy(v) => req[v].ns \in Namespace /\ groups[User(v)] # {}
                      /\ HasLimit(v) => req[v].limit \in Limit
<1>3. ASSUME NEW v \in Workers, req'[v] = req[v]
      PROVE  Fine(v)'
  BY <1>1, <1>3 DEF WellFormed, Busy, HasLimit, User, Namespace
<1>4. ASSUME NEW w \in Workers, \A v \in Workers \ {w} : req'[v] = req[v], Fine(w)'
      PROVE  \A v \in Workers : Fine(v)'
  BY <1>3, <1>4
<1>5. ASSUME NEW w \in Workers, NEW n \in Namespace, Start(w, n)
      PROVE  \A v \in Workers : Fine(v)'
  <2>1. /\ req'[w].pc = "started" /\ req'[w].ns = n /\ groups'[n.creator] # {}
        /\ \A v \in Workers \ {w} : req'[v] = req[v]
    BY <1>5, StartStep DEF Unwritten
  <2> QED
    BY <1>4, <2>1 DEF Busy, HasLimit, User
<1>6. ASSUME NEW w \in Workers, ReadLimit(w)
      PROVE  \A v \in Workers : Fine(v)'
  <2>1. /\ req'[w].pc = "limited" => req'[w].limit \in Limit
        /\ req'[w].pc # "flushed" /\ req'[w].ns = req[w].ns
        /\ \A v \in Workers \ {w} : req'[v] = req[v]
    BY <1>6, ReadLimitStep DEF TypeOK
  <2>2. req[w].ns \in Namespace /\ groups'[User(w)] # {}
    BY <1>1, <1>6, ReadLimitStep DEF WellFormed
  <2> QED
    BY <1>4, <2>1, <2>2 DEF Busy, HasLimit, User
<1>7. ASSUME NEW w \in Workers, InsertLimit(w) \/ Flush(w)
      PROVE  \A v \in Workers : Fine(v)'
  <2>1. /\ req'[w].limit \in Limit /\ req'[w].ns = req[w].ns
        /\ \A v \in Workers \ {w} : req'[v] = req[v]
    BY <1>7, InsertLimitStep, FlushStep DEF WellFormed
  <2>2. req[w].ns \in Namespace /\ groups'[User(w)] # {}
    BY <1>1, <1>7, InsertLimitStep, FlushStep DEF WellFormed, Namespace, User
  <2> QED
    BY <1>4, <2>1, <2>2 DEF User
<1>8. ASSUME NEW w \in Workers, req' = [req EXCEPT ![w] = Idle]
      PROVE  \A v \in Workers : Fine(v)'
  <2>1. req'[w].pc = "idle" /\ \A v \in Workers \ {w} : req'[v] = req[v]
    BY <1>8, EndStep
  <2> QED
    BY <1>4, <2>1 DEF Busy, HasLimit
<1>9. \A v \in Workers : Fine(v)'
  BY <1>3, <1>5, <1>6, <1>7, <1>8, WhatRuns
<1> QED
  BY <1>2, <1>9 DEF WellFormed

(* A flush finds its path free, and no other one takes it before the commit. *)
LEMMA PathsReservedStep == TypeOK /\ WellFormed /\ PathsReserved /\ [Next]_vars => PathsReserved'
<1> SUFFICES ASSUME TypeOK, WellFormed, PathsReserved, [Next]_vars
             PROVE  PathsReserved'
  OBVIOUS
<1>1. ASSUME NEW w \in Workers, Flush(w)
      PROVE  PathsReserved'
  <2>1. /\ req'[w].ns = req[w].ns /\ namespaces' = namespaces
        /\ \A v \in Workers \ {w} : req'[v] = req[v]
        /\ ~ PathTaken(w) /\ ~ PathExists(w)
    BY <1>1, FlushStep DEF Unwritten
  <2>2. \A v \in Workers \ {w} : Flushed(v) => req[v].ns.path # req[w].ns.path
    BY <2>1 DEF PathTaken, Others, Flushed
  <2> QED
    BY <2>1, <2>2 DEF PathsReserved, PathExists, Flushed
<1>2. ASSUME NEW w \in Workers, Commit(w)
      PROVE  PathsReserved'
  <2>1. /\ namespaces' = namespaces \cup {req[w].ns}
        /\ req'[w].pc = "idle" /\ \A v \in Workers \ {w} : req'[v] = req[v]
    BY <1>2, CommitStep, EndStep DEF Commit
  <2>2. Flushed(w)
    BY <1>2 DEF Commit, Flushed
  <2> QED
    BY <2>1, <2>2 DEF PathsReserved, Flushed
<1>3. ASSUME \A v \in Workers : Flushed(v)' => Flushed(v) /\ req'[v].ns = req[v].ns,
             namespaces' = namespaces
      PROVE  PathsReserved'
  BY <1>3 DEF PathsReserved
<1>4. ASSUME NEW w \in Workers, req'[w].pc # "flushed",
             \A v \in Workers \ {w} : req'[v] = req[v], namespaces' = namespaces
      PROVE  PathsReserved'
  BY <1>3, <1>4 DEF Flushed
<1>5. CASE UNCHANGED req
  <2>1. CASE namespaces' = namespaces
    BY <1>3, <1>5, <2>1 DEF Flushed
  <2>2. ASSUME NEW w \in Workers
        PROVE  ~ Commit(w)
    BY <1>5, EndStep DEF Commit
  <2> QED
    BY <2>1, <2>2, WhatWrites, AdminStep DEF Unwritten, Added
<1>6. ASSUME NEW w \in Workers, NEW n \in Namespace, Start(w, n)
      PROVE  PathsReserved'
  BY <1>4, <1>6, StartStep DEF Unwritten
<1>7. ASSUME NEW w \in Workers, ReadLimit(w)
      PROVE  PathsReserved'
  BY <1>4, <1>7, ReadLimitStep DEF Unwritten
<1>8. ASSUME NEW w \in Workers, InsertLimit(w)
      PROVE  PathsReserved'
  BY <1>4, <1>8, InsertLimitStep DEF Unwritten
<1>9. ASSUME NEW w \in Workers, req' = [req EXCEPT ![w] = Idle], Unwritten
      PROVE  PathsReserved'
  BY <1>4, <1>9, EndStep DEF Unwritten
<1> QED
  BY <1>1, <1>2, <1>5, <1>6, <1>7, <1>8, <1>9, WhatRuns

-----------------------------------------------------------------------------
LEMMA ReadsHeldStep ==
  ASSUME TypeOK, WellFormed, PathsReserved, ReadsHeld, [Next]_vars
  PROVE  ReadsHeld'
<1> DEFINE Held(v) == Busy(v) /\ req[v].reads => CanRead(User(v), req[v].ns)
<1>1. ASSUME NEW v \in Workers, Busy(v)' => Busy(v),
             req'[v].ns = req[v].ns, req'[v].reads = req[v].reads
      PROVE  Held(v)'
  <2> SUFFICES ASSUME Busy(v), req[v].reads
               PROVE  CanRead(User(v), req[v].ns)'
    BY <1>1
  <2>1. PICK n \in Namespace : n = req[v].ns
    BY DEF WellFormed
  <2>2. PICK u \in Users : u = n.creator
    BY DEF Namespace
  <2>3. CanRead(u, n)'
    BY <2>1, <2>2, ScopesGrow DEF ReadsHeld, User
  <2>4. User(v)' = u /\ req'[v].ns = n
    BY <1>1, <2>1, <2>2 DEF User
  <2> QED
    BY <2>3, <2>4 DEF CanRead, HasNamespaceScope, Has, Scopes
<1>2. ASSUME NEW w \in Workers, \A v \in Workers \ {w} : req'[v] = req[v], Held(w)'
      PROVE  ReadsHeld'
  <2>1. \A v \in Workers \ {w} : Held(v)'
    BY <1>1, <1>2 DEF Busy
  <2> QED
    BY <1>2, <2>1 DEF ReadsHeld
<1>3. ASSUME NEW w \in Workers, NEW n \in Namespace, Start(w, n)
      PROVE  ReadsHeld'
  <2>1. /\ req'[w].ns = n /\ req'[w].reads = CanRead(n.creator, n)
        /\ \A v \in Workers \ {w} : req'[v] = req[v]
    BY <1>3, StartStep
  <2>2. PICK u \in Users : u = n.creator
    BY DEF Namespace
  <2>3. req'[w].reads => CanRead(u, n)'
    BY <2>1, <2>2, ScopesGrow
  <2>4. User(w)' = u
    BY <2>1, <2>2 DEF User
  <2>5. Held(w)'
    BY <2>1, <2>3, <2>4 DEF CanRead, HasNamespaceScope, Has, Scopes
  <2> QED
    BY <1>2, <2>1, <2>5
<1>4. ASSUME NEW w \in Workers, ReadLimit(w) \/ InsertLimit(w) \/ Flush(w)
      PROVE  ReadsHeld'
  <2>1. /\ Busy(w) /\ req'[w].ns = req[w].ns /\ req'[w].reads = req[w].reads
        /\ \A v \in Workers \ {w} : req'[v] = req[v]
    BY <1>4, ReadLimitStep, InsertLimitStep, FlushStep
  <2> QED
    BY <1>1, <1>2, <2>1
<1>5. ASSUME NEW w \in Workers, req' = [req EXCEPT ![w] = Idle]
      PROVE  ReadsHeld'
  BY <1>2, <1>5, EndStep DEF Busy
<1>6. CASE UNCHANGED req
  <2>1. \A v \in Workers : Held(v)'
    BY <1>1, <1>6 DEF Busy
  <2> QED
    BY <2>1 DEF ReadsHeld
<1> QED
  BY <1>3, <1>4, <1>5, <1>6, WhatRuns

(* A creator keeps the scopes there are, or is granted those that miss. *)
LEMMA CreatorCanReadStep ==
  ASSUME TypeOK, WellFormed, PathsReserved, ReadsHeld, CreatorCanRead, [Next]_vars
  PROVE  CreatorCanRead'
<1>1. \A n \in namespaces : CanRead(n.creator, n)'
  BY ScopesGrow DEF CreatorCanRead, TypeOK, Namespace
<1>2. CASE namespaces' = namespaces
  BY <1>1, <1>2 DEF CreatorCanRead
<1>3. ASSUME NEW w \in Workers, Commit(w)
      PROVE  CreatorCanRead'
  <2>1. PICK n \in Namespace : n = req[w].ns
    BY <1>3, CommitStep
  <2>2. PICK u \in Users : u = n.creator /\ u = User(w)
    BY <2>1 DEF Namespace, User
  <2>3. ASSUME req[w].reads
        PROVE  CanRead(u, n)'
    <3>1. CanRead(u, n)
      BY <1>3, <2>1, <2>2, <2>3 DEF ReadsHeld, Commit, Busy
    <3> QED
      BY <2>1, <2>2, <3>1, ScopesGrow
  <2>4. ASSUME ~ req[w].reads
        PROVE  CanRead(u, n)'
    <3>1. [scope |-> "read", on |-> n.path, granted |-> FALSE] \in Granted(w)
      BY <2>1, <2>4 DEF Granted, Given
    <3>2. [scope |-> "read", on |-> n.path, granted |-> FALSE] \in Scopes(u)'
      BY <1>3, <2>2, <3>1, CommitStep DEF Scopes
    <3> QED
      BY <3>2 DEF CanRead, HasNamespaceScope, Has
  <2>5. CanRead(u, n)'
    BY <2>3, <2>4
  <2>6. namespaces' = namespaces \cup {n}
    BY <1>3, <2>1, CommitStep
  <2> QED
    BY <1>1, <2>2, <2>5, <2>6 DEF CreatorCanRead
<1> QED
  BY <1>2, <1>3, WhatWrites, AdminStep DEF Unwritten, Added

LEMMA ScopesOwnStep ==
  ASSUME TypeOK, WellFormed, PathsReserved, ScopesOwn, GroupScopesOwn, [Next]_vars
  PROVE  ScopesOwn' /\ GroupScopesOwn'
<1>1. CASE Unwritten
  BY <1>1 DEF ScopesOwn, GroupScopesOwn, Unwritten
<1>2. CASE Administer
  BY <1>2, AdminStep DEF ScopesOwn, GroupScopesOwn, Added
<1>3. ASSUME NEW w \in Workers, Commit(w)
      PROVE  ScopesOwn' /\ GroupScopesOwn'
  <2>1. /\ namespaces' = namespaces \cup {req[w].ns} /\ groupScopes' = groupScopes
        /\ \A u \in Users \ {User(w)} : userScopes'[u] = userScopes[u]
        /\ userScopes'[User(w)] = userScopes[User(w)] \cup Granted(w)
    BY <1>3, CommitStep
  <2>2. \A s \in Granted(w) : s.on = req[w].ns.path
    BY DEF Granted, Given
  <2> QED
    BY <2>1, <2>2 DEF ScopesOwn, GroupScopesOwn, User
<1> QED
  BY <1>1, <1>2, <1>3, WhatWrites

(* Scopes on what a user created are not on another user's namespace, and    *)
(* those of the groups by themselves are on no private one.                  *)
LEMMA OnlyGranted ==
  ASSUME TypeOK, PathsReserved, ScopesOwn, GroupScopesOwn
  PROVE  PrivateIsExplicit
<1> SUFFICES ASSUME NEW n \in namespaces, NEW u \in Users,
                    NEW p \in {"read", "write", "derived"},
                    ~ n.public, HasNamespaceScope(u, p, n),
                    u # n.creator, ~ CheckAdmin(u)
             PROVE  \E s \in Scopes(u) : s.granted /\ s.scope \in {p, "all"}
                                          /\ s.on \in {n.path, "private", "all"}
  BY DEF PrivateIsExplicit
<1>1. n.path \in Paths /\ n.path \notin {"global", "public", "private", "all"}
  BY PathsAssumption DEF TypeOK, Namespace
<1>2. PICK s \in Scopes(u) : s.scope \in {p, "all"} /\ s.on \in {n.path, "private", "all"}
  BY DEF HasNamespaceScope, Has
<1>3. ASSUME s \in userScopes[u]
      PROVE  s.granted
  <2>1. ~ (s.scope = "all" /\ s.on = "all")
    BY <1>3 DEF CheckAdmin
  <2>2. ASSUME NEW m \in namespaces, m.creator = u, s.on = m.path
        PROVE  FALSE
    <3>1. m.path # n.path /\ m.path \in Paths
      BY <2>2 DEF PathsReserved, TypeOK, Namespace
    <3> QED
      BY <1>2, <2>2, <3>1, PathsAssumption
  <2> QED
    BY <1>3, <2>1, <2>2 DEF ScopesOwn
<1>4. ASSUME NEW g \in groups[u], s \in groupScopes[g]
      PROVE  s.granted
  <2>1. g # "admin" /\ g \in Groups
    BY DEF CheckAdmin, TypeOK
  <2>2. s.on \notin {"public", "global"}
    BY <1>1, <1>2
  <2> QED
    BY <1>4, <2>1, <2>2 DEF GroupScopesOwn
<1>5. s.granted
  BY <1>3, <1>4 DEF Scopes
<1> QED
  BY <1>2, <1>5

-----------------------------------------------------------------------------
(* Namespaces are only added. *)
LEMMA CreatedGrows ==
  ASSUME TypeOK, WellFormed, PathsReserved, [Next]_vars, NEW u \in Users
  PROVE  /\ Created(u) \in Nat /\ Created(u)' \in Nat
         /\ Created(u)' >= Created(u)
         /\ Unwritten => Created(u)' = Created(u)
<1>1. Created(u) \in Nat
  BY CreatedType
<1>2. CASE namespaces' = namespaces
  BY <1>1, <1>2 DEF Created
<1>3. ASSUME NEW w \in Workers, Commit(w)
      PROVE  Created(u)' \in Nat /\ Created(u)' >= Created(u)
  BY <1>1, <1>3, CommitCreated
<1> QED
  BY <1>1, <1>2, <1>3, WhatWrites, AdminStep DEF Unwritten, Added

LEMMA CountNotAheadStep ==
  ASSUME TypeOK, WellFormed, PathsReserved, CountsBehind, CountNotAhead, [Next]_vars
  PROVE  CountNotAhead'
<1>1. ASSUME limits' = limits
      PROVE  CountNotAhead'
  <2>1. \A u \in Users : Count(u)' = Count(u) /\ Count(u) \in Nat
    BY <1>1 DEF Count, TypeOK, Limit
  <2> QED
    BY <2>1, CreatedGrows DEF CountNotAhead
<1>2. ASSUME NEW w \in Workers, Commit(w), NEW u \in Users
      PROVE  Count(u)' <= Created(u)'
  <2>1. CASE u = User(w)
    <3>1. /\ Count(u)' = req[w].limit.count + 1
          /\ req[w].limit.count \in Nat /\ req[w].limit.count <= Created(u)
      <4>1. limits'[u] \in Limit /\ limits'[u].count = req[w].limit.count + 1
        BY <1>2, <2>1, CommitStep
      <4>2. limits'[u] # Null
        BY <4>1 DEF Limit
      <4>3. req[w].limit.count \in Nat /\ req[w].limit.count <= Created(u)
        BY <1>2, <2>1, CommitStep DEF Limit, CountsBehind
      <4> QED
        BY <4>1, <4>2, <4>3 DEF Count
    <3> QED
      BY <1>2, <2>1, <3>1, CommitCreated, CreatedType
  <2>2. CASE u # User(w)
    <3>1. Count(u)' = Count(u) /\ Created(u)' = Created(u)
      BY <1>2, <2>2, CommitStep, CommitCreated DEF Count
    <3> QED
      BY <3>1 DEF CountNotAhead
  <2> QED
    BY <2>1, <2>2
<1> QED
  BY <1>1, <1>2, WhatWrites, AdminStep DEF Unwritten, Added, CountNotAhead

(* What a transaction read stays behind, as namespaces are only added. *)
LEMMA CountsBehindStep ==
  ASSUME TypeOK, WellFormed, PathsReserved, CountsBehind, CountNotAhead, [Next]_vars
  PROVE  CountsBehind'
<1> DEFINE Behind(v) == HasLimit(v) => req[v].limit.count <= Created(User(v))
<1>1. ASSUME NEW v \in Workers, HasLimit(v) => HasLimit(v)', HasLimit(v)' => HasLimit(v),
             req'[v].ns = req[v].ns, req'[v].limit = req[v].limit
      PROVE  Behind(v)'
  <2> SUFFICES ASSUME HasLimit(v)
               PROVE  req'[v].limit.count <= Created(User(v))'
    BY <1>1
  <2>1. PICK u \in Users : u = User(v) /\ req[v].limit.count \in Nat
    BY DEF WellFormed, HasLimit, Busy, User, Namespace, Limit
  <2>2. req[v].limit.count <= Created(u)
    BY <2>1 DEF CountsBehind
  <2>3. User(v)' = u
    BY <1>1, <2>1 DEF User
  <2>4. req[v].limit.count <= Created(u)'
    BY <2>1, <2>2, CreatedGrows
  <2> QED
    BY <1>1, <2>3, <2>4 DEF Created
<1>2. ASSUME NEW v \in Workers, req'[v] = req[v]
      PROVE  Behind(v)'
  BY <1>1, <1>2 DEF HasLimit
<1>3. ASSUME NEW w \in Workers, \A v \in Workers \ {w} : req'[v] = req[v], Behind(w)'
      PROVE  CountsBehind'
  BY <1>2, <1>3 DEF CountsBehind
<1>4. ASSUME NEW w \in Workers, NEW n \in Namespace, Start(w, n)
      PROVE  CountsBehind'
  BY <1>3, <1>4, StartStep DEF HasLimit
<1>5. ASSUME NEW w \in Workers, ReadLimit(w)
      PROVE  CountsBehind'
  <2>1. PICK u \in Users : u = User(w)
    BY <1>5, ReadLimitStep
  <2>2. /\ req'[w].ns = req[w].ns /\ req'[w].limit = limits[u] /\ Created(u)' = Created(u)
        /\ req'[w].pc = IF limits[u] = Null THEN "unlimited" ELSE "limited"
        /\ \A v \in Workers \ {w} : req'[v] = req[v]
    BY <1>5, <2>1, ReadLimitStep, CreatedGrows
  <2>3. HasLimit(w)' => limits[u] # Null
    BY <2>2 DEF HasLimit
  <2>4. limits[u] # Null => limits[u].count <= Created(u)'
    BY <2>2 DEF CountNotAhead, Count
  <2>5. User(w)' = u
    BY <2>1, <2>2 DEF User
  <2>6. Behind(w)'
    BY <2>2, <2>3, <2>4, <2>5 DEF Created
  <2> QED
    BY <1>3, <2>2, <2>6
<1>6. ASSUME NEW w \in Workers, InsertLimit(w)
      PROVE  CountsBehind'
  <2>1. PICK u \in Users : u = User(w)
    BY <1>6, InsertLimitStep
  <2>2. /\ req'[w].ns = req[w].ns /\ req'[w].limit.count = 0 /\ Created(u)' \in Nat
        /\ \A v \in Workers \ {w} : req'[v] = req[v]
    BY <1>6, InsertLimitStep, CreatedGrows
  <2>3. User(w)' = u
    BY <2>1, <2>2 DEF User
  <2>4. Behind(w)'
    BY <2>2, <2>3 DEF Created
  <2> QED
    BY <1>3, <2>2, <2>4
<1>7. ASSUME NEW w \in Workers, Flush(w)
      PROVE  CountsBehind'
  BY <1>1, <1>3, <1>7, FlushStep DEF HasLimit
<1>8. ASSUME NEW w \in Workers, req' = [req EXCEPT ![w] = Idle]
      PROVE  CountsBehind'
  BY <1>3, <1>8, EndStep DEF HasLimit
<1>9. CASE UNCHANGED req
  BY <1>2, <1>9 DEF CountsBehind
<1> QED
  BY <1>4, <1>5, <1>6, <1>7, <1>8, <1>9, WhatRuns

-----------------------------------------------------------------------------
(* A user limited to one request at a time sends the next one after it. *)
LEMMA AloneStep ==
  TypeOK /\ WellFormed /\ Alone /\ [Next]_vars => Alone'
<1> SUFFICES ASSUME TypeOK, WellFormed, Alone, [Next]_vars
             PROVE  Alone'
  OBVIOUS
<1>1. ASSUME \A v \in Workers : Busy(v)' => Busy(v) /\ req'[v].ns = req[v].ns
      PROVE  Alone'
  BY <1>1 DEF Alone, User
<1>2. ASSUME NEW w \in Workers, NEW n \in Namespace, Start(w, n)
      PROVE  Alone'
  <2>1. /\ ~ Busy(w) /\ req'[w].ns = n /\ \A v \in Workers \ {w} : req'[v] = req[v]
    BY <1>2, StartStep
  <2>2. ASSUME Serial(n.creator)
        PROVE  \A v \in Workers \ {w} : ~ (Busy(v) /\ User(v) = n.creator)
    <3> DEFINE same == {v \in Others(w) : User(v) = n.creator}
    <3>1. IsFiniteSet(same)
      BY WorkersAssumption, FS_Subset DEF Others
    <3>2. Cardinality(same) < MaxPerUser[n.creator] /\ n.creator \in Users
      BY <1>2 DEF Start, Namespace
    <3>3. Cardinality(same) = 0
      BY <2>2, <3>1, <3>2, FS_CardinalityType DEF Serial
    <3>4. same = {}
      BY <3>1, <3>3, FS_EmptySet
    <3> QED
      BY <3>4 DEF Others, Busy
  <2>3. /\ User(w)' = n.creator
        /\ \A v \in Workers \ {w} : User(v)' = User(v) /\ (Busy(v)' <=> Busy(v))
    BY <2>1 DEF User, Busy
  <2> QED
    BY <2>2, <2>3 DEF Alone, Serial
<1>3. ASSUME NEW w \in Workers, ReadLimit(w) \/ InsertLimit(w) \/ Flush(w)
      PROVE  Alone'
  BY <1>1, <1>3, ReadLimitStep, InsertLimitStep, FlushStep DEF Busy
<1>4. ASSUME NEW w \in Workers, req' = [req EXCEPT ![w] = Idle]
      PROVE  Alone'
  BY <1>1, <1>4, EndStep DEF Busy
<1>5. CASE UNCHANGED req
  BY <1>1, <1>5 DEF Busy
<1> QED
  BY <1>2, <1>3, <1>4, <1>5, WhatRuns

(* Nobody else creates a namespace of a user whose request is in flight. *)
LEMMA CountsExactStep ==
  ASSUME TypeOK, WellFormed, PathsReserved, Alone, CountsExact, LimitExact, [Next]_vars
  PROVE  CountsExact'
<1> DEFINE Exact(v) == HasLimit(v) /\ Serial(User(v)) =>
                         /\ req[v].limit.count = Created(User(v))
                         /\ Flushed(v) => Allowed(v)
<1>1. ASSUME NEW v \in Workers, NEW u \in Users, u = User(v), Serial(u), HasLimit(v),
             req'[v] = req[v]
      PROVE  Created(u)' = Created(u)
  <2>1. ASSUME NEW w \in Workers, Commit(w)
        PROVE  User(w) # u
    <3>1. w # v
      BY <1>1, <2>1, EndStep DEF Commit, HasLimit
    <3> QED
      BY <1>1, <2>1, <3>1 DEF Alone, Commit, Busy, HasLimit
  <2> QED
    BY <2>1, CommitCreated, WhatWrites, AdminStep DEF Unwritten, Added, Created
<1>2. ASSUME NEW v \in Workers, req'[v] = req[v]
      PROVE  Exact(v)'
  <2> SUFFICES ASSUME HasLimit(v), Serial(User(v))
               PROVE  /\ req[v].limit.count = Created(User(v))'
                      /\ Flushed(v) => Allowed(v)
    BY <1>2 DEF HasLimit, User, Flushed, Allowed, Serial
  <2>1. PICK u \in Users : u = User(v)
    BY DEF WellFormed, HasLimit, Busy, User, Namespace
  <2>2. User(v)' = u /\ Created(u)' = Created(u)
    BY <1>1, <1>2, <2>1 DEF User
  <2>3. Created(User(v))' = Created(u)'
    BY <2>2 DEF Created
  <2> QED
    BY <2>1, <2>2, <2>3 DEF CountsExact
<1>3. ASSUME NEW w \in Workers, \A v \in Workers \ {w} : req'[v] = req[v], Exact(w)'
      PROVE  CountsExact'
  BY <1>2, <1>3 DEF CountsExact
<1>4. ASSUME NEW w \in Workers, NEW n \in Namespace, Start(w, n)
      PROVE  CountsExact'
  BY <1>3, <1>4, StartStep DEF HasLimit
<1>5. ASSUME NEW w \in Workers, ReadLimit(w)
      PROVE  CountsExact'
  <2>1. PICK u \in Users : u = User(w)
    BY <1>5, ReadLimitStep
  <2>2. /\ req'[w].ns = req[w].ns /\ req'[w].limit = limits[u] /\ Created(u)' = Created(u)
        /\ req'[w].pc = IF limits[u] = Null THEN "unlimited" ELSE "limited"
        /\ \A v \in Workers \ {w} : req'[v] = req[v]
    BY <1>5, <2>1, ReadLimitStep, CreatedGrows
  <2>3. HasLimit(w)' => limits[u] # Null
    BY <2>2 DEF HasLimit
  <2>4. limits[u] # Null /\ Serial(u) => limits[u].count = Created(u)'
    BY <2>2 DEF LimitExact, Count, Serial
  <2>5. User(w)' = u /\ ~ Flushed(w)'
    BY <2>1, <2>2 DEF User, Flushed
  <2>6. Exact(w)'
    BY <2>2, <2>3, <2>4, <2>5 DEF Created, Serial
  <2> QED
    BY <1>3, <2>2, <2>6
<1>6. ASSUME NEW w \in Workers, InsertLimit(w)
      PROVE  CountsExact'
  <2>1. PICK u \in Users : u = User(w)
    BY <1>6, InsertLimitStep
  <2>2. /\ req'[w].ns = req[w].ns /\ req'[w].limit.count = 0 /\ req'[w].pc = "limited"
        /\ Created(u)' = Created(u) /\ limits[u] = Null
        /\ \A v \in Workers \ {w} : req'[v] = req[v]
    BY <1>6, <2>1, InsertLimitStep, CreatedGrows
  <2>3. Serial(u) => Created(u) = 0
    BY <2>2 DEF LimitExact, Count, Serial
  <2>4. User(w)' = u /\ ~ Flushed(w)'
    BY <2>1, <2>2 DEF User, Flushed
  <2>5. Exact(w)'
    BY <2>2, <2>3, <2>4 DEF Created, Serial
  <2> QED
    BY <1>3, <2>2, <2>5
<1>7. ASSUME NEW w \in Workers, Flush(w)
      PROVE  CountsExact'
  <2>1. PICK u \in Users : u = User(w)
    BY <1>7, FlushStep DEF WellFormed, User, Namespace
  <2>2. /\ req'[w].ns = req[w].ns /\ req'[w].limit = req[w].limit /\ Created(u)' = Created(u)
        /\ HasLimit(w) /\ Allowed(w)
        /\ \A v \in Workers \ {w} : req'[v] = req[v]
    BY <1>7, <2>1, FlushStep, CreatedGrows
  <2>3. User(w)' = u /\ Allowed(w)'
    BY <2>1, <2>2 DEF User, Allowed
  <2>4. Serial(u) => req[w].limit.count = Created(u)'
    BY <2>1, <2>2 DEF CountsExact
  <2>5. Exact(w)'
    BY <2>2, <2>3, <2>4 DEF Created, Serial
  <2> QED
    BY <1>3, <2>2, <2>5
<1>8. ASSUME NEW w \in Workers, req' = [req EXCEPT ![w] = Idle]
      PROVE  CountsExact'
  BY <1>3, <1>8, EndStep DEF HasLimit
<1>9. CASE UNCHANGED req
  BY <1>2, <1>9 DEF CountsExact
<1> QED
  BY <1>4, <1>5, <1>6, <1>7, <1>8, <1>9, WhatRuns

(* A commit writes back the exact count, plus one, which was allowed. *)
LEMMA LimitExactStep ==
  ASSUME TypeOK, WellFormed, PathsReserved, CountsExact, LimitExact, [Next]_vars
  PROVE  LimitExact'
<1>1. CASE limits' = limits /\ namespaces' = namespaces
  BY <1>1 DEF LimitExact, Count, Created
<1>2. ASSUME NEW w \in Workers, Commit(w), NEW u \in Users, Serial(u)
      PROVE  /\ Count(u)' = Created(u)'
             /\ limits'[u] # Null /\ limits'[u].max # Null => Created(u)' <= limits'[u].max
  <2>1. CASE u = User(w)
    <3>1. /\ limits'[u].count = req[w].limit.count + 1 /\ limits'[u] # Null
          /\ limits'[u].max = req[w].limit.max
          /\ HasLimit(w) /\ Flushed(w)
      <4>1. limits'[u] \in Limit
        BY <1>2, <2>1, CommitStep
      <4>2. limits'[u] # Null
        BY <4>1 DEF Limit
      <4> QED
        BY <1>2, <2>1, <4>2, CommitStep DEF Commit, Flushed
    <3>2. req[w].limit.count = Created(u) /\ Allowed(w)
      BY <1>2, <2>1, <3>1 DEF CountsExact
    <3>3. Created(u)' = Created(u) + 1
      BY <1>2, <2>1, CommitCreated
    <3> QED
      BY <3>1, <3>2, <3>3 DEF Count, Allowed
  <2>2. CASE u # User(w)
    <3>1. limits'[u] = limits[u] /\ Created(u)' = Created(u)
      BY <1>2, <2>2, CommitStep, CommitCreated
    <3> QED
      BY <1>2, <3>1 DEF LimitExact, Count, Serial
  <2> QED
    BY <2>1, <2>2
<1> QED
  BY <1>1, <1>2, WhatWrites, AdminStep DEF Unwritten, Added, LimitExact, Serial

-----------------------------------------------------------------------------
(* The strengthened invariant holds of every reachable state. *)
THEOREM Invariance == Spec => []Inv
<1>1. Init => Inv
  <2> SUFFICES ASSUME Init
               PROVE  Inv
    OBVIOUS
  <2>1. /\ namespaces = {} /\ \A u \in Users : limits[u] = Null /\ userScopes[u] = {}
        /\ \A w \in Workers : req[w].pc = "idle"
    BY DEF Init, Idle
  <2>2. TypeOK
    BY IdleType DEF Init, TypeOK
  <2>3. WellFormed /\ PathsReserved /\ CreatorCanRead /\ ReadsHeld /\ Alone
    BY <2>1, FS_EmptySet DEF WellFormed, PathsReserved, CreatorCanRead, ReadsHeld, Alone, Busy,
                             HasLimit, Flushed
  <2>6. ScopesOwn /\ GroupScopesOwn
    BY DEF Init, ScopesOwn, GroupScopesOwn
  <2>4. \A u \in Users : Count(u) = 0 /\ Created(u) = 0
    BY <2>1, FS_EmptySet DEF Count, Created
  <2>5. CountNotAhead /\ CountsBehind /\ CountsExact /\ LimitExact
    BY <2>1, <2>4 DEF CountNotAhead, CountsBehind, CountsExact, LimitExact, HasLimit
  <2> QED
    BY <2>2, <2>3, <2>5, <2>6 DEF Inv
<1>2. Inv /\ [Next]_vars => Inv'
  BY TypeStep, WellFormedStep, PathsReservedStep, ReadsHeldStep, CreatorCanReadStep, ScopesOwnStep,
     CountNotAheadStep, CountsBehindStep, AloneStep, CountsExactStep, LimitExactStep DEF Inv
<1> QED
  BY <1>1, <1>2, PTL DEF Spec

(* The variables keep their types. *)
THEOREM TypeCorrect == Spec => []TypeOK
<1>1. Inv => TypeOK
  BY DEF Inv
<1> QED
  BY <1>1, Invariance, PTL

(* Whatever fails or overlaps, the counter of a user does not run ahead of   *)
(* the namespaces the user has created.                                     *)
THEOREM NeverAhead == Spec => []CountNotAhead
<1>1. Inv => CountNotAhead
  BY DEF Inv
<1> QED
  BY <1>1, Invariance, PTL

(* The limit of a user whose requests do not overlap is exact, whatever the  *)
(* requests of the others do at the same time.                              *)
THEOREM LimitKept == Spec => []LimitExact
<1>1. Inv => LimitExact
  BY DEF Inv
<1> QED
  BY <1>1, Invariance, PTL

(* Who creates a namespace can read it. *)
THEOREM CreatorReads == Spec => []CreatorCanRead
<1>1. Inv => CreatorCanRead
  BY DEF Inv
<1> QED
  BY <1>1, Invariance, PTL

(* Who may do something in a private namespace is its creator, an admin, or  *)
(* one to whom an administrator has granted it.                             *)
THEOREM PrivateExplicit == Spec => []PrivateIsExplicit
<1>1. Inv => PrivateIsExplicit
  BY OnlyGranted DEF Inv
<1> QED
  BY <1>1, Invariance, PTL
===============================================================================
