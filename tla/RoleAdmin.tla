------------------------------ MODULE RoleAdmin -------------------------------
(***************************************************************************)
(* Users, roles and policies (internal/api/handler/rbac.go) and the Casbin *)
(* enforcer that one server loads from them when it starts                 *)
(* (internal/rbac/loader.go, internal/server/rbac.go) and consults for     *)
(* every request (internal/server/middleware/rbac.go, roles.OfUser).       *)
(*                                                                         *)
(* The enforcer knows roles by name, the tables by id: a role that is      *)
(* deleted and created again has a new id and the old name.  A policy's    *)
(* path and method are one permission.  The tables have foreign keys with  *)
(* ON DELETE CASCADE.  The built-in admin policies and the audit entries,  *)
(* whose errors are ignored, are left out.                                 *)
(***************************************************************************)
EXTENDS Naturals

CONSTANTS Users, Tenants, TenantOf, \* accounts and their tenant
          Names, Perms,
          Callers,                  \* admin requests in flight, on any server
          MaxRoleId                 \* bound: roles created

ASSUME RoleAssumption == MaxRoleId \in Nat

RoleIds == 1..MaxRoleId
NoRole == 0

VARIABLES users,     \* accounts that exist
          roleId,    \* name -> id in the roles table, or NoRole
          nextRole,  \* auto-increment
          members,   \* user_roles: user, role id
          policies,  \* role_policies: role id, permission
          call,      \* caller -> where its request is
          enf,       \* the enforcer: policies p and groupings g, by name
          server,    \* "policies" or "groups" (loading), or "running"
          since,     \* history: caller -> rows of its role changed since it read them
          changedP, changedG   \* history: what changed since the load read it

tables == <<users, roleId, nextRole, members, policies>>
vars == <<tables, call, enf, server, since, changedP, changedG>>

Idle == [pc |-> "idle"]
NameOf(id) == {n \in Names : roleId[n] = id}
Exists(id) == NameOf(id) # {}

\* The joins with the roles table that the loader and OfUser select.
NamePolicies == {np \in Names \X Perms : <<roleId[np[1]], np[2]>> \in policies}
NameMembers == {un \in Users \X Names : <<un[1], roleId[un[2]]>> \in members}

Diff(a, b) == (a \ b) \cup (b \ a)

Init ==
    /\ users = {} /\ nextRole = 1
    /\ roleId = [n \in Names |-> NoRole]
    /\ members = {} /\ policies = {}
    /\ call = [c \in Callers |-> Idle]
    /\ enf = [p |-> {}, g |-> {}] /\ server = "policies"
    /\ since = [c \in Callers |-> {}]
    /\ changedP = {} /\ changedG = {}

\* The history of a change of the tables; the last conjunct of every statement.
Track(c) ==
    /\ changedP' = IF server = "policies" THEN {}
                   ELSE changedP \cup Diff(NamePolicies, NamePolicies')
    /\ changedG' = IF server # "running" THEN {}
                   ELSE changedG \cup Diff(NameMembers, NameMembers')
    /\ since' = [d \in Callers |->
                   IF d = c \/ call[d].pc \in {"idle", "createUser"} THEN {}
                   ELSE since[d]
                        \cup {<<m, "member">> : m \in {x \in Diff(members, members') : x[2] = call[d].id}}
                        \cup {<<p, "policy">> : p \in {x \in Diff(policies, policies') :
                                                         x[1] = call[d].id /\ call[d].pc = "deleteRole"}}]
    /\ UNCHANGED <<enf, server>>

Return(c) == call' = [call EXCEPT ![c] = Idle]

\* A step that only reads; kept are the changes it has not seen.
Reads(c, next, kept) ==
    /\ call' = [call EXCEPT ![c] = next]
    /\ since' = [since EXCEPT ![c] = kept]
    /\ UNCHANGED <<tables, enf, server, changedP, changedG>>

-----------------------------------------------------------------------------
\* createUser resolves the role names first; a name that is missing ends it.
CreateUserRoles(c, u, names) ==
    /\ call[c] = Idle
    /\ \A n \in names : roleId[n] # NoRole
    /\ Reads(c, [pc |-> "createUser", user |-> u, ids |-> {roleId[n] : n \in names}], {})

\* Then one transaction inserts the user and the memberships.  A user that
\* exists, or a role deleted in the meantime, rolls it back.
CreateUserTx(c) ==
    /\ call[c].pc = "createUser"
    /\ IF call[c].user \notin users /\ \A id \in call[c].ids : Exists(id)
       THEN /\ users' = users \cup {call[c].user}
            /\ members' = members \cup ({call[c].user} \X call[c].ids)
       ELSE UNCHANGED <<users, members>>
    /\ Return(c)
    /\ UNCHANGED <<roleId, nextRole, policies>>
    /\ Track(c)

\* createRole; a name that exists is a conflict.
CreateRole(c, n) ==
    /\ call[c] = Idle
    /\ roleId[n] = NoRole
    /\ nextRole <= MaxRoleId
    /\ roleId' = [roleId EXCEPT ![n] = nextRole]
    /\ nextRole' = nextRole + 1
    /\ UNCHANGED <<users, members, policies, call>>
    /\ Track(c)

\* deleteRole counts the members, ...
DeleteRole(c, id) ==
    /\ call[c] = Idle
    /\ \A u \in Users : <<u, id>> \notin members
    /\ Reads(c, [pc |-> "countPolicies", id |-> id], {})

\* Mutant: deleteRole does not look at the policies.
DeleteRolePolicies_Unchecked(c) ==
    /\ call[c].pc = "countPolicies"
    /\ Reads(c, [pc |-> "deleteRole", id |-> call[c].id], since[c])

\* ... then the policies, ...
DeleteRolePolicies(c) ==
    /\ call[c].pc = "countPolicies"
    /\ IF \A p \in Perms : <<call[c].id, p>> \notin policies
       THEN Reads(c, [pc |-> "deleteRole", id |-> call[c].id], since[c])
       ELSE Reads(c, Idle, {})

\* Mutant: memberships survive their role.
DeleteRoleRow_KeepsMembers(c) ==
    /\ call[c].pc = "deleteRole"
    /\ roleId' = [n \in Names |-> IF roleId[n] = call[c].id THEN NoRole ELSE roleId[n]]
    /\ policies' = {p \in policies : p[1] # call[c].id}
    /\ Return(c)
    /\ UNCHANGED <<users, nextRole, members>>
    /\ Track(c)

\* ... and deletes the role, with whatever refers to it by then.
DeleteRoleRow(c) ==
    /\ call[c].pc = "deleteRole"
    /\ roleId' = [n \in Names |-> IF roleId[n] = call[c].id THEN NoRole ELSE roleId[n]]
    /\ members' = {m \in members : m[2] # call[c].id}
    /\ policies' = {p \in policies : p[1] # call[c].id}
    /\ Return(c)
    /\ UNCHANGED <<users, nextRole>>
    /\ Track(c)

\* putRoleMembers reads the members of the caller's tenant, ...
InTenant(t) == {u \in users : TenantOf[u] = t}

PutMembersRead(c, t, id, wanted) ==
    /\ call[c] = Idle
    /\ Reads(c, [pc |-> "putMembers", tenant |-> t, id |-> id, wanted |-> wanted,
                 existing |-> {u \in InTenant(t) : <<u, id>> \in members}], {})

\* Mutant: all members that are not wanted are deleted, of whatever tenant.
unwanted_AnyTenant(q) == Users \ q.wanted

\* Members that were read and are not wanted any more.
unwanted(q) == q.existing \ q.wanted

\* ... deletes those not wanted and inserts the others, in one transaction.  A
\* user of another tenant is an error and rolls back; so is a deleted role,
\* which MySQL's INSERT IGNORE skips instead, with the same result.
PutMembersTx(c) ==
    /\ call[c].pc = "putMembers"
    /\ LET q == call[c]
           added == q.wanted \ q.existing
       IN  IF added \subseteq InTenant(q.tenant) /\ (added # {} => Exists(q.id))
           THEN members' = (members \ (unwanted(q) \X {q.id})) \cup (added \X {q.id})
           ELSE UNCHANGED members
    /\ Return(c)
    /\ UNCHANGED <<users, roleId, nextRole, policies>>
    /\ Track(c)

\* addRolePolicy and deleteRolePolicy are one statement each.
AddRolePolicy(c, id, p) ==
    /\ call[c] = Idle
    /\ Exists(id) /\ <<id, p>> \notin policies
    /\ policies' = policies \cup {<<id, p>>}
    /\ UNCHANGED <<users, roleId, nextRole, members, call>>
    /\ Track(c)

DeleteRolePolicy(c, id, p) ==
    /\ call[c] = Idle
    /\ <<id, p>> \in policies
    /\ policies' = policies \ {<<id, p>>}
    /\ UNCHANGED <<users, roleId, nextRole, members, call>>
    /\ Track(c)

-----------------------------------------------------------------------------
\* initEnforcer and rbac.Load: two queries.  After an error the server runs with
\* what it has; policies that were not read count as changed.  ReloadEnforcer,
\* which every handler above schedules, is empty.
LoadPolicies ==
    /\ server = "policies" /\ server' = "groups"
    /\ enf' = [enf EXCEPT !.p = NamePolicies]
    /\ UNCHANGED <<tables, call, since, changedP, changedG>>

LoadGroups ==
    /\ server = "groups" /\ server' = "running"
    /\ enf' = [enf EXCEPT !.g = NameMembers]
    /\ UNCHANGED <<tables, call, since, changedP, changedG>>

LoadFails ==
    /\ server # "running" /\ server' = "running"
    /\ changedP' = IF server = "policies" THEN Names \X Perms ELSE changedP
    /\ UNCHANGED <<tables, call, enf, since, changedG>>

Restart ==
    /\ server = "running" /\ server' = "policies"
    /\ enf' = [p |-> {}, g |-> {}]
    /\ changedP' = {} /\ changedG' = {}
    /\ UNCHANGED <<tables, call, since>>

\* Mutant: the roles as they were when the server started.
OfUser_Loaded(u) == {n \in Names : <<u, n>> \in enf.g}

\* The middleware: the user, and the roles that OfUser finds now, unless its
\* query fails or is made for another tenant.
OfUser(u) == {n \in Names : <<u, n>> \in NameMembers}

Granted(u, p, resolved) ==
    \E n \in Names : /\ <<n, p>> \in enf.p
                     /\ <<u, n>> \in enf.g \/ (resolved /\ n \in OfUser(u))

CallStep(c) ==
    \/ \E u \in Users, names \in SUBSET Names : CreateUserRoles(c, u, names)
    \/ CreateUserTx(c)
    \/ \E n \in Names : CreateRole(c, n)
    \/ \E id \in 1..nextRole - 1 : DeleteRole(c, id)
    \/ DeleteRolePolicies(c) \/ DeleteRoleRow(c)
    \/ \E t \in Tenants, id \in 1..nextRole - 1, wanted \in SUBSET Users : PutMembersRead(c, t, id, wanted)
    \/ PutMembersTx(c)
    \/ \E id \in 1..nextRole - 1, p \in Perms : AddRolePolicy(c, id, p) \/ DeleteRolePolicy(c, id, p)

Next ==
    \/ \E c \in Callers : CallStep(c)
    \/ LoadPolicies \/ LoadGroups \/ LoadFails \/ Restart

Spec == Init /\ [][Next]_vars

-----------------------------------------------------------------------------
\* Every membership and policy refers to a user and a role that exist, and no two
\* roles share an id, whatever requests overlap.
Integrity ==
    /\ users \subseteq Users /\ nextRole \in 1..MaxRoleId + 1
    /\ roleId \in [Names -> 0..nextRole - 1]
    /\ \A m, n \in Names : roleId[m] = roleId[n] => m = n \/ roleId[m] = NoRole
    /\ \A m \in members : m[1] \in users /\ Exists(m[2])
    /\ \A p \in policies : Exists(p[1]) /\ p[2] \in Perms

\* deleteRole refuses a role with users or policies.  What it deletes along with
\* the role was added after it had counted.
DeleteLosesOnlyLate ==
    [][\A c \in Callers : DeleteRoleRow(c) =>
         /\ (members \ members') \X {"member"} \subseteq since[c]
         /\ (policies \ policies') \X {"policy"} \subseteq since[c]]_vars

\* putRoleMembers leaves the role with exactly the wanted users of the tenant,
\* or as it was, unless another request changed the role's members since it
\* read them; the members of other tenants stay.
PutIsExact ==
    [][\A c \in Callers : PutMembersTx(c) /\ members' # members =>
         LET q == call[c]
             others == {m \in members : m[2] # q.id \/ TenantOf[m[1]] # q.tenant}
         IN  /\ others \subseteq members'
             /\ \/ members' = others \cup (q.wanted \X {q.id})
                \/ \E f \in since[c] : f[2] = "member"]_vars

Entitled(u, p) == \E n \in Names : <<u, n>> \in NameMembers /\ <<n, p>> \in NamePolicies

\* What the running server grants differs from the tables only where they have
\* changed since it loaded them.  A right it grants in excess was taken away
\* from the user or from a role since; a right it withholds was added to a role
\* since, or the policies could not be read: a new member of a role is let in at
\* once, even when the groupings could not be read.
StaleRightsExplained ==
    server = "running" => \A u \in Users, p \in Perms :
        /\ (\E resolved \in BOOLEAN : Granted(u, p, resolved)) /\ ~Entitled(u, p) =>
               \E n \in Names : <<n, p>> \in changedP \/ <<u, n>> \in changedG
        /\ Entitled(u, p) /\ ~Granted(u, p, TRUE) =>
               \E n \in Names : <<n, p>> \in changedP
=============================================================================
