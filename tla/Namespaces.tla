----------------------------- MODULE Namespaces -----------------------------
(***************************************************************************)
(* The users, their groups and their permissions (admin.py, scopes.py), and *)
(* the creation of namespaces by concurrent requests (crud/namespace.py)    *)
(* under READ COMMITTED: a limit per user that is read, checked and written *)
(* back, and the scopes that the creator is granted on what was created.    *)
(*                                                                         *)
(* A scope is on a namespace, on the public or the private ones, on all of  *)
(* them, or on none: "global".  Users, groups, memberships, scopes and       *)
(* namespaces are never removed, so what a command of an administrator      *)
(* checks still holds when it commits, and a command is one step.           *)
(***************************************************************************)
EXTENDS Naturals, FiniteSets

CONSTANTS Workers,
          Users,
          Teams,      \* the groups that are not of GroupPermissions
          Paths,      \* paths of namespaces
          Null,       \* no row, or SQL NULL in max_ns_creation
          MaxCreate,  \* max_ns_creation of a user who is not an admin
          MaxPerUser, \* how many requests of a user overlap at most
          Grantable,  \* the grants an administrator may make
          MaxGrants   \* bound on the granted scopes and added memberships

Permissions == {"read", "write", "derived", "create", "all"}
NamespaceGroups == {"public", "private", "all"}
Limit == [max : Nat \cup {Null}, count : Nat]

ASSUME NullAssumption == Null \notin Nat \cup Limit
(* A scope names a namespace by its id, and a group of namespaces or none in *)
(* another column.                                                          *)
ASSUME PathsAssumption == Paths \cap {"global", "public", "private", "all"} = {}
ASSUME WorkersAssumption == IsFiniteSet(Workers)
ASSUME LimitsAssumption == MaxCreate \in Nat /\ MaxPerUser \in [Users -> Nat]
ASSUME GrantsAssumption ==
  /\ Grantable \subseteq [perms : SUBSET Permissions, on : NamespaceGroups \cup Paths]
  /\ MaxGrants \in Nat

VARIABLES groups,      \* the groups of each user, {} before the user exists
          userGroups,  \* rows of user_group
          userScopes,  \* rows of user_scope of each user
          groupScopes, \* rows of user_group_scope of each group
          namespaces,  \* committed rows of namespace
          limits,      \* committed row of namespace_limit of each user
          req          \* what each worker's transaction has done so far

vars == <<groups, userGroups, userScopes, groupScopes, namespaces, limits, req>>

GroupPermissions == {"admin", "contributor", "public"}
Groups == GroupPermissions \cup Teams
Targets == {"global"} \cup NamespaceGroups \cup Paths
(* granted: by one of the commands that grant scopes, as the notes of the    *)
(* metadata of the row say.                                                 *)
Scope == [scope : Permissions, on : Targets, granted : BOOLEAN]
Namespace == [path : Paths, public : BOOLEAN, creator : Users]
Transaction == [pc : {"idle", "started", "unlimited", "limited", "flushed"},
                ns : Namespace \cup {Null}, limit : Limit \cup {Null}, isNew : BOOLEAN,
                reads : BOOLEAN]
Idle == [pc |-> "idle", ns |-> Null, limit |-> Null, isNew |-> FALSE, reads |-> FALSE]

TypeOK ==
  /\ groups \in [Users -> SUBSET Groups]
  /\ userGroups \subseteq Groups
  /\ userScopes \in [Users -> SUBSET Scope]
  /\ groupScopes \in [Groups -> SUBSET Scope]
  /\ namespaces \subseteq Namespace
  /\ limits \in [Users -> Limit \cup {Null}]
  /\ req \in [Workers -> Transaction]

Init ==
  /\ groups = [u \in Users |-> {}]
  /\ userGroups = {}
  /\ userScopes = [u \in Users |-> {}]
  /\ groupScopes = [g \in Groups |-> {}]
  /\ namespaces = {}
  /\ limits = [u \in Users |-> Null]
  /\ req = [w \in Workers |-> Idle]

-----------------------------------------------------------------------------
Given(perms, on) == [scope : perms, on : {on}, granted : {FALSE}]

(* Fault: the scopes of contributors apply to every namespace. *)
GroupScopesWide(g) ==
  CASE g = "admin" -> Given({"all"}, "all")
    [] g = "contributor" -> Given({"read", "derived"}, "all") \cup Given({"create"}, "global")
    [] g = "public" -> Given({"read", "derived"}, "public")

(* The scopes of a group of GroupPermissions that its first member creates. *)
GroupScopes(g) ==
  CASE g = "admin" -> Given({"all"}, "all")
    [] g = "contributor" -> Given({"read", "derived"}, "public") \cup Given({"create"}, "global")
    [] g = "public" -> Given({"read", "derived"}, "public")

Scopes(u) == userScopes[u] \cup UNION {groupScopes[g] : g \in groups[u]}
Has(u, p, targets) == \E s \in Scopes(u) : s.scope \in {p, "all"} /\ s.on \in targets
HasGlobalScope(u, p) == Has(u, p, {"global", "all"})
HasNamespaceScope(u, p, n) ==
  Has(u, p, {n.path, "all", IF n.public THEN "public" ELSE "private"})
CanRead(u, n) == HasNamespaceScope(u, "read", n)
CheckAdmin(u) ==
  "admin" \in groups[u] \/ \E s \in userScopes[u] : s.scope = "all" /\ s.on = "all"

-----------------------------------------------------------------------------
(* initial_user_create *)
CreateFirstUser(u) ==
  /\ \A v \in Users : groups[v] = {}
  /\ userGroups = {}
  /\ groups' = [groups EXCEPT ![u] = {"admin"}]
  /\ userGroups' = {"admin"}
  /\ userScopes' = [userScopes EXCEPT ![u] = @ \cup Given({"all"}, "all")]
  /\ groupScopes' = [groupScopes EXCEPT !["admin"] = @ \cup GroupScopes("admin")]
  /\ UNCHANGED <<namespaces, limits, req>>

(* The commands of an administrator. *)
ValidateAdmin == \E c \in Users : CheckAdmin(c)

(* user_create: a group that is there is taken as it is. *)
CreateUser(u, g) ==
  /\ ValidateAdmin
  /\ groups[u] = {}
  /\ groups' = [groups EXCEPT ![u] = {g}]
  /\ userGroups' = userGroups \cup {g}
  /\ groupScopes' = IF g \in userGroups THEN groupScopes
                    ELSE [groupScopes EXCEPT ![g] = @ \cup GroupScopes(g)]
  /\ UNCHANGED <<userScopes, namespaces, limits, req>>

(* usergroup:create *)
CreateGroup(g) ==
  /\ ValidateAdmin
  /\ g \notin userGroups
  /\ userGroups' = userGroups \cup {g}
  /\ UNCHANGED <<groups, userScopes, groupScopes, namespaces, limits, req>>

(* Bound on what administrators have granted and on the groups they have     *)
(* added users to, past the first one.                                       *)
GrantedOf(holder, rows) == {<<holder, s>> : s \in {r \in rows : r.granted}}
GrantedRows == UNION {GrantedOf(u, userScopes[u]) : u \in Users} \cup
               UNION {GrantedOf(g, groupScopes[g]) : g \in Groups}
Members == {m \in Users \X Groups : m[2] \in groups[m[1]]}
MayAdd(k) ==
  Cardinality(GrantedRows) + Cardinality(Members) + k
    <= MaxGrants + Cardinality({m[1] : m \in Members})

(* user:add:group *)
AddToGroup(u, g) ==
  /\ ValidateAdmin
  /\ groups[u] # {} /\ g \in userGroups \ groups[u]
  /\ MayAdd(1)
  /\ groups' = [groups EXCEPT ![u] = @ \cup {g}]
  /\ UNCHANGED <<userGroups, userScopes, groupScopes, namespaces, limits, req>>

(* What user:grant and usergroup:grant add to the rows of a user or a group:  *)
(* scopes on a group of namespaces or on one that exists, of which each can  *)
(* be granted once; on a group of namespaces, NULLs never conflict.          *)
Grant(rows, perms, on) == rows \cup [scope : perms, on : {on}, granted : {TRUE}]
MayGrant(rows, perms, on) ==
  /\ ValidateAdmin
  /\ on \in NamespaceGroups \cup {n.path : n \in namespaces}
  /\ on \in Paths => ~ \E s \in rows : s.scope \in perms /\ s.on = on
  /\ MayAdd(Cardinality(perms))

GrantUser(u, perms, on) ==
  /\ groups[u] # {}
  /\ MayGrant(userScopes[u], perms, on)
  /\ userScopes' = [userScopes EXCEPT ![u] = Grant(@, perms, on)]
  /\ UNCHANGED <<groups, userGroups, groupScopes, namespaces, limits, req>>

GrantGroup(g, perms, on) ==
  /\ g \in userGroups
  /\ MayGrant(groupScopes[g], perms, on)
  /\ groupScopes' = [groupScopes EXCEPT ![g] = Grant(@, perms, on)]
  /\ UNCHANGED <<groups, userGroups, userScopes, namespaces, limits, req>>

-----------------------------------------------------------------------------
User(w) == req[w].ns.creator
Others(w) == {v \in Workers \ {w} : req[v].pc # "idle"}
LimitInserted(w) == \E v \in Others(w) : req[v].isNew /\ User(v) = User(w)
LimitLocked(w) == \E v \in Others(w) : req[v].pc = "flushed" /\ User(v) = User(w)
PathTaken(w) == \E v \in Others(w) : req[v].pc = "flushed" /\ req[v].ns.path = req[w].ns.path
PathExists(w) == \E n \in namespaces : n.path = req[w].ns.path

Unwritten == UNCHANGED <<groups, userGroups, userScopes, groupScopes, namespaces, limits>>

(* get_user reads the scopes of the user, for the whole request. *)
Start(w, n) ==
  /\ req[w].pc = "idle"
  /\ groups[n.creator] # {}
  /\ HasGlobalScope(n.creator, "create")
  /\ Cardinality({v \in Others(w) : User(v) = n.creator}) < MaxPerUser[n.creator]
  /\ req' = [req EXCEPT ![w] = [Idle EXCEPT !.pc = "started", !.ns = n,
                                              !.reads = CanRead(n.creator, n)]]
  /\ Unwritten

ReadLimit(w) ==
  /\ req[w].pc = "started"
  /\ req' = [req EXCEPT ![w].pc = IF limits[User(w)] = Null THEN "unlimited" ELSE "limited",
                        ![w].limit = limits[User(w)]]
  /\ Unwritten

(* user_id is the primary key of namespace_limit. *)
InsertLimit(w) ==
  /\ req[w].pc = "unlimited"
  /\ ~ LimitInserted(w)
  /\ limits[User(w)] = Null
  /\ req' = [req EXCEPT ![w].pc = "limited", ![w].isNew = TRUE,
               ![w].limit = [max |-> IF CheckAdmin(User(w)) THEN Null ELSE MaxCreate,
                             count |-> 0]]
  /\ Unwritten

(* Fault: the limit is compared with the count before the creation. *)
AllowedOneMore(w) == req[w].limit.max # Null => req[w].limit.count <= req[w].limit.max

Allowed(w) == req[w].limit.max # Null => req[w].limit.count + 1 <= req[w].limit.max

(* The flush: INSERT of the namespace, whose path is unique, and UPDATE of   *)
(* the limit to the value that was read, plus one.                           *)
Flush(w) ==
  /\ req[w].pc = "limited"
  /\ Allowed(w)
  /\ ~ PathTaken(w) /\ ~ PathExists(w)
  /\ ~ LimitLocked(w)
  /\ req' = [req EXCEPT ![w].pc = "flushed"]
  /\ Unwritten

(* Fault: the count is written although the namespace is refused. *)
FailCounted(w) ==
  /\ req[w].pc = "limited" /\ PathExists(w)
  /\ limits' = [limits EXCEPT ![User(w)] = [req[w].limit EXCEPT !.count = @ + 1]]
  /\ req' = [req EXCEPT ![w] = Idle]
  /\ UNCHANGED <<groups, userGroups, userScopes, groupScopes, namespaces>>

Fail(w) ==
  /\ \/ req[w].pc = "unlimited" /\ ~ LimitInserted(w) /\ limits[User(w)] # Null
     \/ req[w].pc = "limited" /\ ~ Allowed(w)
     \/ req[w].pc = "limited" /\ PathExists(w)
  /\ req' = [req EXCEPT ![w] = Idle]
  /\ Unwritten

(* A crash, a lost connection or a deadlock victim. *)
Abort(w) ==
  /\ req[w].pc # "idle"
  /\ req' = [req EXCEPT ![w] = Idle]
  /\ Unwritten

(* Fault: no scope is granted. *)
GrantedNever(w) == {}

(* Fault: the scopes are granted before the namespace has an id. *)
GrantedUnflushed(w) == IF req[w].reads THEN {} ELSE Given({"read", "write", "derived"}, Null)

(* The scopes of a creator who, when the request started, could not have     *)
(* read what was created.                                                   *)
Granted(w) ==
  IF req[w].reads THEN {} ELSE Given({"read", "write", "derived"}, req[w].ns.path)

Commit(w) ==
  /\ req[w].pc = "flushed"
  /\ namespaces' = namespaces \cup {req[w].ns}
  /\ limits' = [limits EXCEPT ![User(w)] = [req[w].limit EXCEPT !.count = @ + 1]]
  /\ userScopes' = [userScopes EXCEPT ![User(w)] = @ \cup Granted(w)]
  /\ req' = [req EXCEPT ![w] = Idle]
  /\ UNCHANGED <<groups, userGroups, groupScopes>>

Next ==
  \/ \E u \in Users : CreateFirstUser(u) \/ \E g \in GroupPermissions : CreateUser(u, g)
  \/ \E g \in Groups : CreateGroup(g) \/ \E u \in Users : AddToGroup(u, g)
  \/ \E r \in Grantable : \/ \E u \in Users : GrantUser(u, r.perms, r.on)
                         \/ \E g \in Groups : GrantGroup(g, r.perms, r.on)
  \/ \E w \in Workers : \/ \E n \in Namespace : Start(w, n)
                        \/ ReadLimit(w)
                        \/ InsertLimit(w)
                        \/ Flush(w)
                        \/ Fail(w)
                        \/ Abort(w)
                        \/ Commit(w)

Spec == Init /\ [][Next]_vars

-----------------------------------------------------------------------------
Created(u) == Cardinality({n \in namespaces : n.creator = u})
Count(u) == IF limits[u] = Null THEN 0 ELSE limits[u].count

(* The counter of a user never runs ahead of what the user has created,      *)
(* whatever fails or overlaps: an update may be lost, but none is invented.  *)
CountNotAhead == \A u \in Users : Count(u) <= Created(u)

(* A user whose requests do not overlap never exceeds the limit, and each    *)
(* creation is counted, although other users' requests run at the same time  *)
(* and compete for the same paths.                                           *)
LimitExact ==
  \A u \in Users : MaxPerUser[u] <= 1 =>
    /\ Count(u) = Created(u)
    /\ limits[u] # Null /\ limits[u].max # Null => Created(u) <= limits[u].max

(* The creator of a namespace can read it: the one who could not is granted  *)
(* scopes by the transaction that creates it.                                *)
CreatorCanRead == \A n \in namespaces : CanRead(n.creator, n)

(* What a user may do in a private namespace, the creator and the admins     *)
(* apart, has been granted by an administrator: that permission, on that     *)
(* namespace, the private ones or all, to the user or to a group of the user *)
(* (NamespaceGroup: "visible only to users with explicit permissions").      *)
PrivateIsExplicit ==
  \A n \in namespaces, u \in Users, p \in {"read", "write", "derived"} :
    ~ n.public /\ HasNamespaceScope(u, p, n) =>
      \/ u = n.creator \/ CheckAdmin(u)
      \/ \E s \in Scopes(u) : s.granted /\ s.scope \in {p, "all"}
                               /\ s.on \in {n.path, "private", "all"}
=============================================================================
