---------------------------- MODULE ServerProofs ----------------------------
(***************************************************************************)
(* Proofs about overlapping requests to the API server: on users, roles    *)
(* and policies, with the enforcer a server has loaded from them, on the   *)
(* targets and for the list of widgets, and about what is delivered of the *)
(* events; for every set of accounts, roles and permissions, of targets,   *)
(* callers, widgets, events and sinks.                                     *)
(***************************************************************************)
EXTENDS RoleAdmin, TargetAdmin, EventDispatch, WidgetCache, TLAPS

-----------------------------------------------------------------------------
(***************************************************************************)
(* Users, roles and policies.                                              *)
(***************************************************************************)
RoleCalls ==
    {Idle}
    \cup [pc : {"createUser"}, user : Users, ids : SUBSET RoleIds]
    \cup [pc : {"countPolicies", "deleteRole"}, id : RoleIds]
    \cup [pc : {"putMembers"}, tenant : Tenants, id : RoleIds,
          wanted : SUBSET Users, existing : SUBSET Users]

Typed ==
    /\ members \subseteq Users \X RoleIds
    /\ policies \subseteq RoleIds \X Perms
    /\ call \in [Callers -> RoleCalls]
    /\ since = [c \in Callers |-> since[c]]
    /\ enf \in [p : SUBSET (Names \X Perms), g : SUBSET (Users \X Names)]
    /\ server \in {"policies", "groups", "running"}

\* A request that has counted no members of its role, or no policies, has been
\* told of those the role has now.
Counted ==
    \A c \in Callers :
        /\ call[c].pc \in {"countPolicies", "deleteRole"} =>
              \A m \in members : m[2] = call[c].id => <<m, "member">> \in since[c]
        /\ call[c].pc = "deleteRole" =>
              \A p \in policies : p[1] = call[c].id => <<p, "policy">> \in since[c]

\* The members that putRoleMembers has read are those of its tenant, but for
\* the changes since.
Remembered ==
    \A c \in Callers : call[c].pc = "putMembers" =>
        /\ \A u \in call[c].existing : TenantOf[u] = call[c].tenant
        /\ \A u \in Users :
              \/ TenantOf[u] # call[c].tenant
              \/ u \in call[c].existing <=> <<u, call[c].id>> \in members
              \/ <<<<u, call[c].id>>, "member">> \in since[c]

\* What the enforcer holds is what the tables hold, but for the changes since it
\* read them; groupings may be missing.
Loaded ==
    /\ server = "policies" => enf.p = {}
    /\ server # "running" => enf.g = {}
    /\ server # "policies" => Diff(NamePolicies, enf.p) \subseteq changedP
    /\ server = "running" => enf.g \ NameMembers \subseteq changedG

RoleInv == Typed /\ Integrity /\ Counted /\ Remembered /\ Loaded

-----------------------------------------------------------------------------
LEMMA InitRoles == Init => RoleInv
  <1> SUFFICES ASSUME Init PROVE RoleInv
    OBVIOUS
  <1>1. Typed
    BY Zenon DEF Init, Typed, RoleCalls, Idle
  <1>2. Integrity
    BY RoleAssumption DEF Init, Integrity, NoRole
  <1>3. Counted /\ Remembered
    BY Zenon DEF Init, Counted, Remembered, Idle
  <1>4. Loaded
    BY Zenon DEF Init, Loaded
  <1> QED
    BY <1>1, <1>2, <1>3, <1>4 DEF RoleInv

\* A statement of one request tells the other requests, and the server's
\* history, what it changed.
LEMMA TrackedStep ==
  ASSUME RoleInv, NEW c \in Callers, Track(c),
         members' \subseteq Users \X RoleIds, policies' \subseteq RoleIds \X Perms,
         call' = [call EXCEPT ![c] = Idle]
  PROVE  Typed' /\ Counted' /\ Remembered' /\ Loaded'
  <1>1. Typed'
    BY Zenon DEF RoleInv, Typed, Track, RoleCalls
  <1>2. \A d \in Callers : d # c => call'[d] = call[d]
    BY Zenon DEF RoleInv, Typed
  <1>3. call'[c].pc = "idle"
    BY Zenon DEF RoleInv, Typed, Idle
  <1>4. ASSUME NEW d \in Callers, d # c, call[d].pc \notin {"idle", "createUser"}
        PROVE  /\ since[d] \subseteq since'[d]
               /\ \A m \in Diff(members, members') :
                     m[2] = call[d].id => <<m, "member">> \in since'[d]
               /\ \A p \in Diff(policies, policies') :
                     p[1] = call[d].id /\ call[d].pc = "deleteRole" => <<p, "policy">> \in since'[d]
    BY <1>4, Zenon DEF Track
  <1>5. Counted'
    <2> SUFFICES ASSUME NEW d \in Callers, d # c, call[d].pc \in {"countPolicies", "deleteRole"}
                 PROVE  /\ \A m \in members' : m[2] = call[d].id => <<m, "member">> \in since'[d]
                        /\ call[d].pc = "deleteRole" =>
                              \A p \in policies' : p[1] = call[d].id => <<p, "policy">> \in since'[d]
      BY <1>2, <1>3 DEF Counted
    <2> QED
      BY <1>4, Zenon DEF RoleInv, Counted, Diff
  <1>6. Remembered'
    <2> SUFFICES ASSUME NEW d \in Callers, d # c, call[d].pc = "putMembers"
                 PROVE  /\ \A u \in call[d].existing : TenantOf[u] = call[d].tenant
                        /\ \A u \in Users :
                              \/ TenantOf[u] # call[d].tenant
                              \/ u \in call[d].existing <=> <<u, call[d].id>> \in members'
                              \/ <<<<u, call[d].id>>, "member">> \in since'[d]
      BY <1>2, <1>3 DEF Remembered
    <2>1. \A u \in Users : <<u, call[d].id>> \in Diff(members, members')
                              => <<<<u, call[d].id>>, "member">> \in since'[d]
      BY <1>4, Zenon
    <2> QED
      BY <2>1, <1>4, Zenon DEF RoleInv, Remembered, Diff
  <1>7. Loaded'
    <2>1. server' = server /\ enf' = enf
      BY Zenon DEF Track
    <2>2. server # "policies" => changedP' = changedP \cup Diff(NamePolicies, NamePolicies')
      BY Zenon DEF Track
    <2>3. server = "running" => changedG' = changedG \cup Diff(NameMembers, NameMembers')
      BY Zenon DEF Track
    <2> QED
      BY <2>1, <2>2, <2>3, Zenon DEF RoleInv, Loaded, Diff
  <1> QED
    BY <1>1, <1>5, <1>6, <1>7

\* A step that only reads disturbs nobody else.
LEMMA ReadingStep ==
  ASSUME RoleInv, NEW c \in Callers, NEW next \in RoleCalls, NEW kept, Reads(c, next, kept),
         next.pc \in {"countPolicies", "deleteRole"} =>
            \A m \in members : m[2] = next.id => <<m, "member">> \in kept,
         next.pc = "deleteRole" =>
            \A p \in policies : p[1] = next.id => <<p, "policy">> \in kept,
         next.pc = "putMembers" =>
            /\ \A u \in next.existing : TenantOf[u] = next.tenant
            /\ \A u \in Users : \/ TenantOf[u] # next.tenant
                                \/ u \in next.existing <=> <<u, next.id>> \in members
  PROVE  RoleInv'
  <1>1. Typed'
    BY SMTT(30), Zenon DEF RoleInv, Typed, Reads, tables
  <1>2. call'[c] = next /\ since'[c] = kept
    BY Zenon DEF RoleInv, Typed, Reads
  <1>3. \A d \in Callers : d # c => call'[d] = call[d] /\ since'[d] = since[d]
    BY Zenon DEF RoleInv, Typed, Reads
  <1>4. members' = members /\ policies' = policies
    BY Zenon DEF Reads, tables
  <1>5. Integrity'
    BY DEF RoleInv, Integrity, Exists, NameOf, Reads, tables
  <1>6. Counted'
    BY <1>2, <1>3, <1>4 DEF RoleInv, Counted
  <1>7. Remembered'
    BY <1>2, <1>3, <1>4 DEF RoleInv, Remembered
  <1>8. Loaded'
    BY Zenon DEF RoleInv, Loaded, NamePolicies, NameMembers, Reads, tables
  <1> QED
    BY <1>1, <1>5, <1>6, <1>7, <1>8, Zenon DEF RoleInv

-----------------------------------------------------------------------------
\* What a role's id and a row say of each other.
LEMMA Rows ==
  ASSUME RoleInv
  PROVE  /\ \A n \in 1..nextRole - 1 : n \in RoleIds
         /\ \A m \in members : m = <<m[1], m[2]>> /\ m[1] \in users /\ m[2] \in RoleIds
         /\ \A p \in policies : p = <<p[1], p[2]>> /\ p[1] \in RoleIds /\ p[2] \in Perms
         /\ NoRole \notin RoleIds
         /\ \A n \in Names : roleId[n] # NoRole => roleId[n] \in RoleIds
         /\ nextRole \in Nat
  BY RoleAssumption DEF RoleInv, Typed, Integrity, RoleIds, NoRole

LEMMA CreateUserStep ==
  ASSUME RoleInv, NEW c \in Callers,
         \/ \E u \in Users, names \in SUBSET Names : CreateUserRoles(c, u, names)
         \/ CreateUserTx(c)
  PROVE  RoleInv'
  <1>1. ASSUME NEW u \in Users, NEW names \in SUBSET Names, CreateUserRoles(c, u, names)
        PROVE  RoleInv'
    <2> DEFINE next == [pc |-> "createUser", user |-> u, ids |-> {roleId[n] : n \in names}]
    <2>1. next \in RoleCalls
      BY <1>1, Rows, Zenon DEF CreateUserRoles, RoleCalls
    <2>2. next.pc = "createUser" /\ Reads(c, next, {})
      BY <1>1, Zenon DEF CreateUserRoles
    <2> HIDE DEF next
    <2> QED
      BY <2>1, <2>2, ReadingStep, Zenon
  <1>2. CASE CreateUserTx(c)
    <2>1. call[c].user \in Users /\ call[c].ids \subseteq RoleIds
      BY <1>2 DEF CreateUserTx, RoleInv, Typed, RoleCalls, Idle
    <2>2. members' \subseteq Users \X RoleIds /\ policies' \subseteq RoleIds \X Perms
      BY <1>2, <2>1 DEF CreateUserTx, RoleInv, Typed
    <2>3. Typed' /\ Counted' /\ Remembered' /\ Loaded'
      BY <1>2, <2>2, TrackedStep, Zenon DEF CreateUserTx, Return
    <2>4. \A id : Exists(id)' <=> Exists(id)
      BY <1>2, Zenon DEF CreateUserTx, Exists, NameOf
    <2>5. users' \subseteq Users /\ \A m \in members' : m[1] \in users' /\ Exists(m[2])
      BY <1>2, <2>1 DEF CreateUserTx, RoleInv, Integrity
    <2>6. Integrity'
      BY <1>2, <2>4, <2>5, Zenon DEF CreateUserTx, RoleInv, Integrity
    <2> QED
      BY <2>3, <2>6, Zenon DEF RoleInv
  <1> QED
    BY <1>1, <1>2

LEMMA CreateRoleStep ==
  ASSUME RoleInv, NEW c \in Callers, NEW n \in Names, CreateRole(c, n)
  PROVE  RoleInv'
  <1>1. call' = [call EXCEPT ![c] = Idle]
    BY Zenon DEF CreateRole, RoleInv, Typed
  <1>2. Typed' /\ Counted' /\ Remembered' /\ Loaded'
    BY <1>1, TrackedStep, Zenon DEF CreateRole, RoleInv, Typed
  <1>3. \A id \in RoleIds : Exists(id) => Exists(id)'
    BY Rows, Zenon DEF CreateRole, Exists, NameOf, RoleInv, Integrity
  <1>4. /\ nextRole' \in 1..MaxRoleId + 1 /\ roleId' \in [Names -> 0..nextRole' - 1]
        /\ \A a, b \in Names : roleId'[a] = roleId'[b] => a = b \/ roleId'[a] = NoRole
    BY RoleAssumption DEF CreateRole, RoleInv, Integrity, NoRole
  <1>5. Integrity'
    BY <1>3, <1>4, Rows, Zenon DEF CreateRole, RoleInv, Integrity
  <1> QED
    BY <1>2, <1>5 DEF RoleInv

LEMMA DeleteRoleStep ==
  ASSUME RoleInv, NEW c \in Callers,
         \/ \E id \in 1..nextRole - 1 : DeleteRole(c, id)
         \/ DeleteRolePolicies(c) \/ DeleteRoleRow(c)
  PROVE  RoleInv'
  <1>1. ASSUME NEW id \in 1..nextRole - 1, DeleteRole(c, id)
        PROVE  RoleInv'
    <2> DEFINE next == [pc |-> "countPolicies", id |-> id]
    <2>1. next \in RoleCalls /\ next.pc = "countPolicies" /\ next.id = id
      BY Rows, Zenon DEF RoleCalls
    <2>2. Reads(c, next, {})
      BY <1>1, Zenon DEF DeleteRole
    <2>3. \A m \in members : m[2] # id
      BY <1>1, Rows DEF DeleteRole, RoleInv, Integrity
    <2> HIDE DEF next
    <2> QED
      BY <2>1, <2>2, <2>3, ReadingStep, Zenon
  <1>2. CASE DeleteRolePolicies(c)
    <2>1. call[c].id \in RoleIds
      BY <1>2 DEF DeleteRolePolicies, RoleInv, Typed, RoleCalls, Idle
    <2>2. CASE Reads(c, Idle, {})
      BY <2>2, ReadingStep, Zenon DEF Idle, RoleCalls
    <2> DEFINE next == [pc |-> "deleteRole", id |-> call[c].id]
               kept == since[c]
    <2>3. ASSUME \A p \in Perms : <<call[c].id, p>> \notin policies, Reads(c, next, kept)
          PROVE  RoleInv'
      <3>1. next \in RoleCalls /\ next.pc = "deleteRole" /\ next.id = call[c].id
        BY <2>1, Zenon DEF RoleCalls
      <3>2. \A m \in members : m[2] = call[c].id => <<m, "member">> \in kept
        BY <1>2, Zenon DEF DeleteRolePolicies, RoleInv, Counted
      <3>3. \A p \in policies : p[1] # call[c].id
        BY <2>3, Rows
      <3> HIDE DEF next, kept
      <3> QED
        BY <3>1, <3>2, <3>3, <2>3, ReadingStep, Zenon
    <2> QED
      BY <1>2, <2>2, <2>3, Zenon DEF DeleteRolePolicies
  <1>3. CASE DeleteRoleRow(c)
    <2>1. Typed' /\ Counted' /\ Remembered' /\ Loaded'
      BY <1>3, TrackedStep, Zenon DEF DeleteRoleRow, Return, RoleInv, Typed
    <2>2. call[c].id \in RoleIds
      BY <1>3 DEF DeleteRoleRow, RoleInv, Typed, RoleCalls, Idle
    <2>3. \A id : id # call[c].id /\ Exists(id) => Exists(id)'
      BY <1>3, Zenon DEF DeleteRoleRow, Exists, NameOf, RoleInv, Integrity
    <2>4. /\ roleId' \in [Names -> 0..nextRole - 1]
          /\ \A a, b \in Names : roleId'[a] = roleId'[b] => a = b \/ roleId'[a] = NoRole
      BY <1>3, Rows DEF DeleteRoleRow, RoleInv, Integrity, NoRole
    <2>5. Integrity'
      BY <1>3, <2>3, <2>4, Zenon DEF DeleteRoleRow, RoleInv, Integrity
    <2> QED
      BY <2>1, <2>5, Zenon DEF RoleInv
  <1> QED
    BY <1>1, <1>2, <1>3

LEMMA PutMembersStep ==
  ASSUME RoleInv, NEW c \in Callers,
         \/ \E t \in Tenants, id \in 1..nextRole - 1, wanted \in SUBSET Users :
               PutMembersRead(c, t, id, wanted)
         \/ PutMembersTx(c)
  PROVE  RoleInv'
  <1>1. ASSUME NEW t \in Tenants, NEW id \in 1..nextRole - 1, NEW wanted \in SUBSET Users,
               PutMembersRead(c, t, id, wanted)
        PROVE  RoleInv'
    <2> DEFINE existing == {u \in InTenant(t) : <<u, id>> \in members}
               next == [pc |-> "putMembers", tenant |-> t, id |-> id,
                        wanted |-> wanted, existing |-> existing]
    <2>1. existing \subseteq Users
      BY Zenon DEF InTenant, RoleInv, Integrity
    <2>2. next \in RoleCalls
      BY <2>1, Rows, Zenon DEF RoleCalls
    <2>3. /\ next.pc = "putMembers" /\ next.tenant = t /\ next.id = id
          /\ next.existing = existing
      BY Zenon
    <2>4. Reads(c, next, {})
      BY <1>1, Zenon DEF PutMembersRead
    <2>5. /\ \A u \in existing : TenantOf[u] = t
          /\ \A u \in Users : TenantOf[u] # t \/ (u \in existing <=> <<u, id>> \in members)
      BY Zenon DEF InTenant, RoleInv, Integrity
    <2> HIDE DEF next, existing
    <2> QED
      BY <2>2, <2>3, <2>4, <2>5, ReadingStep, Zenon
  <1>2. CASE PutMembersTx(c)
    <2> DEFINE q == call[c]
               added == q.wanted \ q.existing
    <2>1. q.id \in RoleIds /\ q.wanted \subseteq Users /\ q.existing \subseteq Users
      BY <1>2 DEF PutMembersTx, RoleInv, Typed, RoleCalls, Idle
    <2>2. \A m \in members' : m \in members \/ (/\ m \in added \X {q.id} /\ m[1] \in users
                                                /\ Exists(q.id) /\ m[2] = q.id)
      BY <1>2 DEF PutMembersTx, InTenant
    <2>3. members' \subseteq Users \X RoleIds /\ policies' \subseteq RoleIds \X Perms
      BY <1>2, <2>1, <2>2, Zenon DEF PutMembersTx, RoleInv, Typed
    <2>4. Typed' /\ Counted' /\ Remembered' /\ Loaded'
      BY <1>2, <2>3, TrackedStep, Zenon DEF PutMembersTx, Return
    <2>5. \A id : Exists(id)' <=> Exists(id)
      BY <1>2, SMTT(30) DEF PutMembersTx, Exists, NameOf
    <2>6. Integrity'
      BY <1>2, <2>2, <2>5, Zenon DEF PutMembersTx, RoleInv, Integrity
    <2> QED
      BY <2>4, <2>6, Zenon DEF RoleInv
  <1> QED
    BY <1>1, <1>2, Zenon

LEMMA PolicyStep ==
  ASSUME RoleInv, NEW c \in Callers, NEW id \in 1..nextRole - 1, NEW p \in Perms,
         AddRolePolicy(c, id, p) \/ DeleteRolePolicy(c, id, p)
  PROVE  RoleInv'
  <1>1. call' = [call EXCEPT ![c] = Idle]
    BY Zenon DEF AddRolePolicy, DeleteRolePolicy, RoleInv, Typed
  <1>2. policies' \subseteq RoleIds \X Perms /\ members' \subseteq Users \X RoleIds
    BY Rows DEF AddRolePolicy, DeleteRolePolicy, RoleInv, Typed
  <1>3. Typed' /\ Counted' /\ Remembered' /\ Loaded'
    BY <1>1, <1>2, TrackedStep, Zenon DEF AddRolePolicy, DeleteRolePolicy
  <1>4. \A i : Exists(i)' <=> Exists(i)
    BY Zenon DEF AddRolePolicy, DeleteRolePolicy, Exists, NameOf
  <1>5. Integrity'
    BY <1>4 DEF AddRolePolicy, DeleteRolePolicy, RoleInv, Integrity
  <1> QED
    BY <1>3, <1>5 DEF RoleInv

\* Starting a server and reading its rights touch no table.
LEMMA ServerStep ==
  ASSUME RoleInv, LoadPolicies \/ LoadGroups \/ LoadFails \/ Restart
  PROVE  RoleInv'
  <1>1. UNCHANGED <<users, roleId, nextRole, members, policies, call, since>>
    BY Zenon DEF LoadPolicies, LoadGroups, LoadFails, Restart, tables
  <1>2. Integrity' /\ Counted' /\ Remembered'
    BY <1>1 DEF RoleInv, Integrity, Exists, NameOf, Counted, Remembered
  <1>3. /\ NamePolicies' = NamePolicies /\ NamePolicies \subseteq Names \X Perms
        /\ NameMembers' = NameMembers /\ NameMembers \subseteq Users \X Names
    BY <1>1, Zenon DEF NamePolicies, NameMembers
  <1>4. Typed'
    BY <1>1, <1>3 DEF LoadPolicies, LoadGroups, LoadFails, Restart, RoleInv, Typed
  <1>5. Loaded'
    BY <1>3 DEF LoadPolicies, LoadGroups, LoadFails, Restart, RoleInv, Typed, Loaded, Diff
  <1> QED
    BY <1>2, <1>4, <1>5 DEF RoleInv

LEMMA NextRoles == RoleInv /\ [Next]_vars => RoleInv'
  <1> SUFFICES ASSUME RoleInv, [Next]_vars
               PROVE  RoleInv'
    OBVIOUS
  <1>1. CASE UNCHANGED vars
    <2>1. Typed' /\ Integrity'
      BY <1>1 DEF vars, tables, RoleInv, Typed, Integrity, Exists, NameOf
    <2>2. Counted' /\ Remembered'
      BY <1>1, Zenon DEF vars, tables, RoleInv, Counted, Remembered
    <2>3. Loaded'
      BY <1>1, Zenon DEF vars, tables, RoleInv, Loaded, NamePolicies, NameMembers
    <2> QED
      BY <2>1, <2>2, <2>3 DEF RoleInv
  <1>2. ASSUME NEW c \in Callers, CallStep(c) PROVE RoleInv'
    BY <1>2, CreateUserStep, CreateRoleStep, DeleteRoleStep, PutMembersStep, PolicyStep, Zenon
       DEF CallStep
  <1>3. CASE LoadPolicies \/ LoadGroups \/ LoadFails \/ Restart
    BY <1>3, ServerStep
  <1> QED
    BY <1>1, <1>2, <1>3 DEF Next

-----------------------------------------------------------------------------
\* Integrity for every set of users, roles and permissions and every
\* interleaving of createUser, deleteRole and putRoleMembers: the rows refer to
\* what exists.
THEOREM RowsBacked == Spec => []Integrity
  <1>1. RoleInv => Integrity
    BY DEF RoleInv
  <1> QED
    BY InitRoles, NextRoles, <1>1, PTL DEF Spec

\* StaleRightsExplained for every interleaving: what the enforcer grants in
\* excess, or withholds, was changed since rbac.Load read it.
THEOREM RolesSafe == Spec => []StaleRightsExplained
  <1>1. RoleInv => StaleRightsExplained
    BY Zenon DEF RoleInv, Loaded, StaleRightsExplained, Granted, Entitled, OfUser, Diff
  <1> QED
    BY InitRoles, NextRoles, <1>1, PTL DEF Spec

\* DeleteLosesOnlyLate for every interleaving: deleteRole's two counts and its
\* DELETE are not one transaction, but only rows added in between are lost.
THEOREM DeleteSafe == Spec => DeleteLosesOnlyLate
  <1>1. RoleInv /\ [Next]_vars =>
          [\A c \in Callers : DeleteRoleRow(c) =>
             /\ (members \ members') \X {"member"} \subseteq since[c]
             /\ (policies \ policies') \X {"policy"} \subseteq since[c]]_vars
    <2> SUFFICES ASSUME RoleInv, NEW c \in Callers, DeleteRoleRow(c)
                 PROVE  /\ (members \ members') \X {"member"} \subseteq since[c]
                        /\ (policies \ policies') \X {"policy"} \subseteq since[c]
      BY Zenon
    <2> QED
      BY DEF DeleteRoleRow, RoleInv, Counted
  <1> QED
    BY InitRoles, NextRoles, <1>1, PTL DEF Spec, DeleteLosesOnlyLate

\* PutIsExact for every interleaving: putRoleMembers, whose read is outside its
\* transaction, misses its goal only after a concurrent change of the role, and
\* never touches another tenant's members.
THEOREM PutSafe == Spec => PutIsExact
  <1>1. RoleInv /\ [Next]_vars =>
          [\A c \in Callers : PutMembersTx(c) /\ members' # members =>
             LET q == call[c]
                 others == {m \in members : m[2] # q.id \/ TenantOf[m[1]] # q.tenant}
             IN  /\ others \subseteq members'
                 /\ \/ members' = others \cup (q.wanted \X {q.id})
                    \/ \E f \in since[c] : f[2] = "member"]_vars
    <2> SUFFICES ASSUME RoleInv, NEW c \in Callers, PutMembersTx(c), members' # members
                 PROVE  LET q == call[c]
                            others == {m \in members : m[2] # q.id \/ TenantOf[m[1]] # q.tenant}
                        IN  /\ others \subseteq members'
                            /\ \/ members' = others \cup (q.wanted \X {q.id})
                               \/ \E f \in since[c] : f[2] = "member"
      BY Zenon
    <2> DEFINE q == call[c]
               others == {m \in members : m[2] # q.id \/ TenantOf[m[1]] # q.tenant}
               added == q.wanted \ q.existing
    <2>1. members' = (members \ ((q.existing \ q.wanted) \X {q.id})) \cup (added \X {q.id})
      BY Zenon DEF PutMembersTx, unwanted
    <2>2. \A u \in q.existing : TenantOf[u] = q.tenant
      BY Zenon DEF PutMembersTx, RoleInv, Remembered
    <2>3. others \subseteq members'
      BY <2>1, <2>2, Zenon
    <2>4. ASSUME ~ \E f \in since[c] : f[2] = "member"
          PROVE  members' = others \cup (q.wanted \X {q.id})
      <3>1. \A u \in Users : TenantOf[u] = q.tenant => (u \in q.existing <=> <<u, q.id>> \in members)
        BY <2>4, ZenonT(30) DEF PutMembersTx, RoleInv, Remembered
      <3>2. q.existing \subseteq Users
        BY DEF PutMembersTx, RoleInv, Typed, RoleCalls, Idle
      <3>3. \A m \in members : m \in others \/ m \in q.existing \X {q.id}
        BY <3>1, Rows DEF RoleInv, Integrity
      <3>4. \A m \in others : m \notin q.existing \X {q.id}
        BY <2>2, Zenon
      <3>5. q.existing \X {q.id} \subseteq members
        BY <2>2, <3>1, <3>2
      <3> HIDE DEF q, others
      <3> QED
        BY <2>1, <3>3, <3>4, <3>5, <2>3
    <2> QED
      BY <2>3, <2>4, Zenon
  <1> QED
    BY InitRoles, NextRoles, <1>1, PTL DEF Spec, PutIsExact

-----------------------------------------------------------------------------
(***************************************************************************)
(* The admin API of the targets.                                           *)
(***************************************************************************)
LEMMA RowFacts ==
  ASSUME NEW row \in Row
  PROVE  /\ row # NoRow /\ row.dsn \in Dsns /\ row.labels \in LabelSets /\ row.isDefault \in BOOLEAN
         /\ \A d \in BOOLEAN : [row EXCEPT !.isDefault = d] \in Row /\ [row EXCEPT !.isDefault = d].isDefault = d
         /\ ~row.isDefault => [row EXCEPT !.isDefault = FALSE] = row
  BY StoreAssumption DEF Row

LEMMA UpsertFacts ==
  ASSUME NEW rs \in Tables, NEW k \in Keys, NEW row \in Row \cup {NoRow}
  PROVE  /\ UpsertTarget(rs, k, row) \in Tables /\ UpsertTarget(rs, k, row)[k] = row
         /\ \A j \in Keys \ {k} : UpsertTarget(rs, k, row)[j] = rs[j]
  BY DEF UpsertTarget, Tables

LEMMA SetDefaultFacts ==
  ASSUME NEW rs \in Tables, NEW k \in Keys
  PROVE  LET rs1 == SetDefaultTarget(rs, k)
         IN  /\ rs1 \in Tables /\ OneDefault(rs1)
             /\ rs[k] # NoRow => k \in Defaults(rs1)
             /\ \A j \in Keys : j # k /\ j \notin Defaults(rs) => rs1[j] = rs[j]
             /\ k \in Defaults(rs) => rs1[k] = rs[k]
  <1> DEFINE rs1 == SetDefaultTarget(rs, k)
  <1>1. \A j \in Keys : rs[j] \in Row \cup {NoRow}
    BY DEF Tables
  <1>2. \A j \in Keys : rs1[j] = IF rs[j] = NoRow THEN NoRow ELSE [rs[j] EXCEPT !.isDefault = (j = k)]
    BY DEF SetDefaultTarget
  <1>3. ASSUME NEW j \in Keys
        PROVE  /\ rs1[j] \in Row \cup {NoRow}
               /\ rs1[j] # NoRow <=> rs[j] # NoRow
               /\ rs[j] # NoRow => (rs1[j].isDefault <=> j = k)
               /\ j # k /\ j \notin Defaults(rs) => rs1[j] = rs[j]
    <2> DEFINE d == (j = k)
    <2>1. CASE rs[j] = NoRow
      BY <1>2, <2>1, Zenon
    <2>2. CASE rs[j] # NoRow
      <3>1. rs[j] \in Row /\ d \in BOOLEAN /\ rs1[j] = [rs[j] EXCEPT !.isDefault = d]
        BY <1>1, <1>2, <2>2
      <3>2. d <=> j = k
        OBVIOUS
      <3> HIDE DEF d, rs1
      <3>3. rs1[j] \in Row /\ rs1[j].isDefault = d /\ rs1[j] # NoRow
        BY <3>1, RowFacts
      <3>4. ~d /\ ~rs[j].isDefault => rs1[j] = rs[j]
        BY <3>1, RowFacts
      <3> QED
        BY <2>2, <3>2, <3>3, <3>4, Zenon DEF Defaults
    <2> QED
      BY <2>1, <2>2, Zenon
  <1>4. rs1 \in Tables
    BY <1>3, Zenon DEF SetDefaultTarget, Tables
  <1>5. \A j \in Keys : j # k /\ j \notin Defaults(rs) => rs1[j] = rs[j]
    BY <1>3, Zenon
  <1>6. k \in Defaults(rs) => rs1[k] = rs[k]
    <2> SUFFICES ASSUME k \in Defaults(rs) PROVE rs1[k] = rs[k]
      BY Zenon
    <2>1. rs[k] \in Row /\ rs[k].isDefault = TRUE
      BY <1>1, RowFacts DEF Defaults
    <2>2. rs1[k] = [rs[k] EXCEPT !.isDefault = TRUE]
      BY <1>2, <2>1, RowFacts, Zenon
    <2> QED
      BY <2>1, <2>2, Zenon DEF Row
  <1>7. OneDefault(rs1) /\ (rs[k] # NoRow => k \in Defaults(rs1))
    BY <1>3, Zenon DEF OneDefault, Defaults
  <1> QED
    BY <1>4, <1>5, <1>6, <1>7, Zenon

LEMMA DeleteFacts ==
  ASSUME NEW rs \in Tables, NEW k \in Keys, OneDefault(rs)
  PROVE  DeleteTarget(rs, k) \in Tables /\ OneDefault(DeleteTarget(rs, k))
  BY DEF DeleteTarget, Tables, OneDefault, Defaults

LEMMA RequestFacts ==
  ASSUME NEW r \in Requests
  PROVE  /\ r.key \in Keys \cup {NoKey} /\ (r.kind # "bump" => r.key \in Keys)
         /\ r.kind \in {"create", "put"} => /\ r.body \in Keys /\ r.dsn \in Dsns
                                            /\ r.labels \in LabelSets /\ r.isDefault \in BOOLEAN
         /\ r.kind = "patch" => r.dsn \in Dsns \cup {Keep} /\ r.labels \in LabelSets \cup {Keep}
  BY Zenon DEF Requests

\* What a request that has read its row knows: with an If-Match header of the
\* version in force, that the row is still there; once its checks are passed,
\* that there was one.
Pending(p) ==
    /\ req[p].r \in Requests
    /\ req[p].ifMatch # NoMatch => req[p].ifMatch \in Nat /\ req[p].ifMatch <= version
    /\ req[p].ifMatch = version /\ req[p].r.key # NoKey => StillThere(p)
    /\ stage[p] = "tx" /\ req[p].r.kind \in {"patch", "del", "setDefault"} => view[p] # NoRow

AdminInv ==
    /\ rows \in Tables /\ OneDefault(rows) /\ version \in Nat
    /\ stage \in [Procs -> {"idle", "version", "tx"}] /\ view \in [Procs -> Row \cup {NoRow}]
    /\ DOMAIN req = Procs /\ req = [p \in Procs |-> req[p]]
    /\ \A p \in Procs : stage[p] # "idle" => Pending(p)

LEMMA InitAdmin == AdminInit => AdminInv
  BY DEF AdminInit, StoreInit, AdminInv

LEMMA AnswerFacts ==
  ASSUME AdminInv, NEW p \in Procs, Answer(p)
  PROVE  /\ stage' \in [Procs -> {"idle", "version", "tx"}] /\ view' \in [Procs -> Row \cup {NoRow}]
         /\ DOMAIN req' = Procs /\ req' = [q \in Procs |-> req'[q]] /\ stage'[p] = "idle"
         /\ \A q \in Procs \ {p} : stage'[q] = stage[q] /\ view'[q] = view[q] /\ req'[q] = req[q]
  BY Zenon DEF AdminInv, Answer

LEMMA AnswerOnly ==
  ASSUME AdminInv, NEW p \in Procs, Answer(p), UNCHANGED <<rows, version>>
  PROVE  AdminInv'
  <1>1. \A q \in Procs : stage'[q] # "idle" => Pending(q)'
    BY AnswerFacts DEF AdminInv, Pending, StillThere
  <1> QED
    BY <1>1, AnswerFacts, SMTT(30) DEF AdminInv

\* A transaction that commits makes every If-Match header in flight stale.
LEMMA CommitStep ==
  ASSUME AdminInv, NEW p \in Procs, NEW rs \in Tables, OneDefault(rs), CommitTx(p, rs)
  PROVE  AdminInv'
  <1>1. rows' = rs /\ version' = version + 1 /\ Answer(p) /\ version' \in Nat /\ version \in Nat
    BY SMTT(30) DEF CommitTx, BumpTargetsVersion, AdminInv
  <1>2. ASSUME NEW q \in Procs, stage'[q] # "idle" PROVE Pending(q)'
    <2>1. q # p /\ stage[q] # "idle" /\ stage'[q] = stage[q] /\ view'[q] = view[q] /\ req'[q] = req[q]
      BY <1>1, <1>2, AnswerFacts, Zenon
    <2>2. Pending(q)
      BY <2>1, SMTT(30) DEF AdminInv
    <2> QED
      BY <1>1, <2>1, <2>2, AdminAssumption, SMTT(30) DEF Pending
  <1> QED
    BY <1>1, <1>2, AnswerFacts, Zenon DEF AdminInv

\* What POST and PUT write: one row, which is the default only if no other is.
LEMMA CreateFacts ==
  ASSUME AdminInv, NEW p \in Procs, createOrUpsert(p)
  PROVE  LET r == req[p].r
             row == [dsn |-> r.dsn, labels |-> r.labels, isDefault |-> isDefaultOf(p)]
         IN  /\ stage[p] = "tx" /\ r.kind \in {"create", "put"} /\ r.body \in Keys /\ row \in Row
             /\ CommitTx(p, rows') /\ rows' \in Tables /\ OneDefault(rows')
             /\ rows'[r.body] = row /\ \A j \in Keys : j # r.body => rows'[j] = rows[j]
  <1> DEFINE r == req[p].r
             row == [dsn |-> r.dsn, labels |-> r.labels, isDefault |-> isDefaultOf(p)]
             upserted == UpsertTarget(rows, r.body, row)
  <1>1. /\ stage[p] = "tx" /\ r.kind \in {"create", "put"} /\ OneDefault(upserted)
        /\ CommitTx(p, IF row.isDefault THEN SetDefaultTarget(upserted, r.body) ELSE upserted)
    BY Zenon DEF createOrUpsert
  <1>2. rows \in Tables /\ view[p] \in Row \cup {NoRow} /\ r \in Requests
    BY <1>1, Zenon DEF AdminInv, Pending
  <1>3. r.body \in Keys /\ r.dsn \in Dsns /\ r.labels \in LabelSets /\ isDefaultOf(p) \in BOOLEAN
    BY <1>1, <1>2, RequestFacts, RowFacts, Zenon DEF isDefaultOf
  <1>4. row \in Row
    BY <1>3, SMTT(30) DEF Row
  <1> HIDE DEF r, row
  <1>5. /\ upserted \in Tables /\ upserted[r.body] = row
        /\ \A j \in Keys : j # r.body => upserted[j] = rows[j]
    BY <1>2, <1>3, <1>4, UpsertFacts
  <1> HIDE DEF upserted
  <1>6. CASE row.isDefault
    <2>1. rows' = SetDefaultTarget(upserted, r.body)
      BY <1>1, <1>6 DEF CommitTx
    <2>2. r.body \in Defaults(upserted) /\ \A j \in Keys : j # r.body => j \notin Defaults(upserted)
      BY <1>1, <1>3, <1>4, <1>5, <1>6, RowFacts, SMTT(30) DEF Defaults, OneDefault
    <2>3. /\ rows' \in Tables /\ OneDefault(rows') /\ rows'[r.body] = row
          /\ \A j \in Keys : j # r.body => rows'[j] = rows[j]
      BY <1>3, <1>5, <2>1, <2>2, SetDefaultFacts, SMTT(30)
    <2> QED
      BY <1>1, <1>3, <1>4, <1>6, <2>1, <2>3, Zenon DEF r, row
  <1>7. CASE ~row.isDefault
    <2>1. rows' = upserted /\ CommitTx(p, upserted)
      BY <1>1, <1>7 DEF CommitTx
    <2> QED
      BY <1>1, <1>3, <1>4, <1>5, <2>1, Zenon DEF r, row
  <1> QED
    BY <1>6, <1>7, Zenon

LEMMA PatchFacts ==
  ASSUME AdminInv, NEW p \in Procs, patch(p)
  PROVE  LET r == req[p].r
         IN  /\ stage[p] = "tx" /\ r.kind = "patch" /\ r.key \in Keys /\ view[p] \in Row
             /\ CommitTx(p, rows') /\ rows' \in Tables /\ OneDefault(rows')
             /\ rows'[r.key] = patched(r, view[p])
             /\ rows'[r.key] \in Row /\ rows'[r.key].isDefault = view[p].isDefault
             /\ r.dsn = Keep => rows'[r.key].dsn = view[p].dsn
             /\ r.labels = Keep => rows'[r.key].labels = view[p].labels
             /\ \A j \in Keys : j # r.key => rows'[j] = rows[j]
  <1> DEFINE r == req[p].r
             upserted == UpsertTarget(rows, r.key, patched(r, view[p]))
  <1>1. stage[p] = "tx" /\ r.kind = "patch" /\ OneDefault(upserted) /\ CommitTx(p, upserted)
    BY Zenon DEF patch
  <1>2. rows \in Tables /\ view[p] \in Row /\ r \in Requests
    BY <1>1, SMTT(30) DEF AdminInv, Pending
  <1>3. r.key \in Keys /\ r.dsn \in Dsns \cup {Keep} /\ r.labels \in LabelSets \cup {Keep}
    BY <1>1, <1>2, RequestFacts, Zenon
  <1> HIDE DEF r
  <1>4. /\ patched(r, view[p]) \in Row /\ patched(r, view[p]).isDefault = view[p].isDefault
        /\ r.dsn = Keep => patched(r, view[p]).dsn = view[p].dsn
        /\ r.labels = Keep => patched(r, view[p]).labels = view[p].labels
    BY <1>2, <1>3, ZenonT(30) DEF patched, Row
  <1>5. /\ upserted \in Tables /\ upserted[r.key] = patched(r, view[p])
        /\ \A j \in Keys : j # r.key => upserted[j] = rows[j]
    BY <1>2, <1>3, <1>4, UpsertFacts, SMTT(30)
  <1>6. rows' = upserted
    BY <1>1, ZenonT(30) DEF CommitTx
  <1> HIDE DEF upserted
  <1> QED
    BY <1>1, <1>2, <1>3, <1>4, <1>5, <1>6, Zenon DEF r

LEMMA OtherWrites ==
  ASSUME AdminInv, NEW p \in Procs, del(p) \/ setDefault(p) \/ bumpVersion(p)
  PROVE  /\ stage[p] = "tx" /\ CommitTx(p, rows') /\ rows' \in Tables /\ OneDefault(rows')
         /\ bumpVersion(p) => rows' = rows
         /\ setDefault(p) => /\ req[p].r.kind = "setDefault" /\ req[p].r.key \in Keys /\ view[p] # NoRow
                             /\ rows[req[p].r.key] # NoRow => req[p].r.key \in Defaults(rows')
  <1> DEFINE r == req[p].r
  <1>1. stage[p] = "tx" /\ CommitTx(p, rows') /\ rows \in Tables /\ OneDefault(rows) /\ r \in Requests
    BY SMTT(30), Zenon DEF del, setDefault, bumpVersion, CommitTx, AdminInv, Pending
  <1>2. r.kind # "bump" => r.key \in Keys
    BY <1>1, RequestFacts, SMTT(30)
  <1>3. CASE bumpVersion(p)
    <2>1. rows' = rows /\ r.kind = "bump"
      BY <1>3, SMTT(30) DEF bumpVersion, CommitTx
    <2> QED
      BY <1>1, <2>1, Zenon DEF setDefault
  <1>4. CASE del(p)
    <2>1. rows' = DeleteTarget(rows, r.key) /\ r.kind = "del"
      BY <1>4, ZenonT(30) DEF del, CommitTx
    <2> QED
      BY <1>1, <1>2, <2>1, DeleteFacts, SMTT(30) DEF setDefault, bumpVersion
  <1>5. CASE setDefault(p)
    <2>1. rows' = SetDefaultTarget(rows, r.key) /\ r.kind = "setDefault" /\ view[p] # NoRow
      BY <1>1, <1>5, SMTT(30) DEF setDefault, CommitTx, AdminInv, Pending
    <2>2. rows' \in Tables /\ OneDefault(rows') /\ (rows[r.key] # NoRow => r.key \in Defaults(rows'))
      BY <1>1, <1>2, <2>1, SetDefaultFacts, ZenonT(30)
    <2> QED
      BY <1>1, <1>2, <2>1, <2>2, SMTT(30) DEF bumpVersion
  <1> QED
    BY <1>3, <1>4, <1>5, Zenon

LEMMA WriteStep ==
  ASSUME AdminInv, NEW p \in Procs, Writes(p)
  PROVE  AdminInv'
  <1>1. CommitTx(p, rows') /\ rows' \in Tables /\ OneDefault(rows')
    <2>1. CASE createOrUpsert(p)
      BY <2>1, CreateFacts, Zenon
    <2>2. CASE patch(p)
      BY <2>2, PatchFacts, Zenon
    <2>3. CASE del(p) \/ setDefault(p) \/ bumpVersion(p)
      BY <2>3, OtherWrites, ZenonT(30)
    <2> QED
      BY <2>1, <2>2, <2>3 DEF Writes
  <1> QED
    BY <1>1, CommitStep

LEMMA ReadRowsStep ==
  ASSUME AdminInv, NEW p \in Procs, NEW r \in Requests, NEW m \in {NoMatch, version}, ReadRows(p, r, m)
  PROVE  AdminInv'
  <1>1. /\ stage[p] = "idle" /\ rows' = rows /\ version' = version /\ version \in Nat
        /\ req' = [req EXCEPT ![p] = [r |-> r, ifMatch |-> m]]
        /\ view' = [view EXCEPT ![p] = IF r.key = NoKey THEN NoRow ELSE rows[r.key]]
        /\ stage' = [stage EXCEPT ![p] = "version"]
    BY Zenon DEF ReadRows, AdminInv
  <1>2. r.key \in Keys \cup {NoKey} /\ (r.key # NoKey => rows[r.key] \in Row \cup {NoRow})
    BY RequestFacts, SMTT(30) DEF AdminInv, Tables
  <1>3. /\ stage' \in [Procs -> {"idle", "version", "tx"}] /\ view' \in [Procs -> Row \cup {NoRow}]
        /\ DOMAIN req' = Procs /\ req' = [q \in Procs |-> req'[q]]
        /\ stage'[p] = "version" /\ req'[p].r = r /\ req'[p].ifMatch = m
        /\ r.key # NoKey => view'[p] = rows[r.key]
        /\ \A q \in Procs \ {p} : stage'[q] = stage[q] /\ view'[q] = view[q] /\ req'[q] = req[q]
    BY <1>1, <1>2, SMTT(30) DEF AdminInv
  <1>4. Pending(p)'
    BY <1>1, <1>3, AdminAssumption, SMTT(30) DEF Pending, StillThere
  <1>5. \A q \in Procs \ {p} : stage'[q] # "idle" => Pending(q)'
    BY <1>1, <1>3 DEF AdminInv, Pending, StillThere
  <1> QED
    BY <1>1, <1>3, <1>4, <1>5, Zenon DEF AdminInv

LEMMA ReadVersionStep ==
  ASSUME AdminInv, NEW p \in Procs, ReadVersion(p)
  PROVE  AdminInv'
  <1>1. stage[p] = "version" /\ UNCHANGED <<rows, version>>
    BY Zenon DEF ReadVersion
  <1>2. CASE Answer(p)
    BY <1>1, <1>2, AnswerOnly
  <1>3. CASE ~NotFound(p) /\ stage' = [stage EXCEPT ![p] = "tx"] /\ UNCHANGED <<req, view>>
    <2>1. /\ stage' \in [Procs -> {"idle", "version", "tx"}] /\ stage'[p] = "tx"
          /\ \A q \in Procs \ {p} : stage'[q] = stage[q]
      BY <1>3, SMTT(30) DEF AdminInv
    <2>2. Pending(p)'
      BY <1>1, <1>3, SMTT(30) DEF AdminInv, Pending, StillThere, NotFound
    <2>3. \A q \in Procs \ {p} : stage'[q] # "idle" => Pending(q)'
      BY <1>1, <1>3, <2>1 DEF AdminInv, Pending, StillThere
    <2> QED
      BY <1>1, <1>3, <2>1, <2>2, <2>3 DEF AdminInv
  <1> QED
    BY <1>2, <1>3 DEF ReadVersion

LEMMA NextAdmin == AdminInv /\ [AdminNext]_adminVars => AdminInv'
  <1> SUFFICES ASSUME AdminInv, [AdminNext]_adminVars PROVE AdminInv'
    OBVIOUS
  <1>1. CASE UNCHANGED adminVars
    BY <1>1, Zenon DEF adminVars, AdminInv, Pending, StillThere
  <1>2. ASSUME NEW p \in Procs, Abort(p) PROVE AdminInv'
    BY <1>2, AnswerOnly DEF Abort
  <1> QED
    BY <1>1, <1>2, WriteStep, ReadRowsStep, ReadVersionStep, SMTT(30) DEF AdminNext, Writes

-----------------------------------------------------------------------------
\* IfMatchProtects for every set of targets and requests: no commit falls
\* unnoticed between the row a handler reads and a write on the version its
\* If-Match header names.
THEOREM IfMatchSafe == AdminSpec => IfMatchProtects
  <1>1. AdminInv /\ [AdminNext]_adminVars =>
          [\A p \in Procs : req[p].ifMatch = version /\ req[p].r.key # NoKey /\ Writes(p)
                               => StillThere(p)]_adminVars
    <2> SUFFICES ASSUME AdminInv, NEW p \in Procs, req[p].ifMatch = version, req[p].r.key # NoKey,
                        Writes(p)
                 PROVE  StillThere(p)
      BY Zenon
    <2>1. stage[p] = "tx"
      BY Zenon DEF Writes, createOrUpsert, patch, del, setDefault, bumpVersion, CommitTx
    <2> QED
      BY <2>1, Zenon DEF AdminInv, Pending
  <1> QED
    BY InitAdmin, NextAdmin, <1>1, PTL DEF AdminSpec, IfMatchProtects

\* FreshWriteKeepsRest for every set of targets and requests: a PUT or PATCH that
\* nobody overtook keeps the default flag, what a PATCH leaves out, and every
\* other row.
THEOREM FreshWriteSafe == AdminSpec => FreshWriteKeepsRest
  <1> DEFINE KeepsRest(p) ==
        LET r == req[p].r IN
        r.kind \in {"put", "patch"} /\ view[p] # NoRow /\ StillThere(p) /\ Writes(p) =>
           /\ r.kind = "patch" \/ r.body = r.key =>
                 /\ rows'[r.key].isDefault = rows[r.key].isDefault
                 /\ r.dsn = Keep => rows'[r.key].dsn = rows[r.key].dsn
                 /\ r.labels = Keep => rows'[r.key].labels = rows[r.key].labels
           /\ \A k \in Keys :
                 k \notin {r.key, IF r.kind = "put" THEN r.body ELSE r.key}
                 => rows'[k] = rows[k]
  <1>1. ASSUME AdminInv, NEW p \in Procs PROVE KeepsRest(p)
    <2> DEFINE r == req[p].r
    <2> SUFFICES ASSUME r.kind \in {"put", "patch"}, view[p] # NoRow, view[p] = rows[r.key], Writes(p)
                 PROVE  /\ r.kind = "patch" \/ r.body = r.key =>
                             /\ rows'[r.key].isDefault = rows[r.key].isDefault
                             /\ r.dsn = Keep => rows'[r.key].dsn = rows[r.key].dsn
                             /\ r.labels = Keep => rows'[r.key].labels = rows[r.key].labels
                        /\ \A k \in Keys :
                             k \notin {r.key, IF r.kind = "put" THEN r.body ELSE r.key}
                             => rows'[k] = rows[k]
      BY ZenonT(30) DEF StillThere
    <2>1. CASE patch(p)
      <3>1. /\ r.kind = "patch" /\ rows'[r.key].isDefault = view[p].isDefault
            /\ r.dsn = Keep => rows'[r.key].dsn = view[p].dsn
            /\ r.labels = Keep => rows'[r.key].labels = view[p].labels
            /\ \A j \in Keys : j # r.key => rows'[j] = rows[j]
        BY <1>1, <2>1, PatchFacts, ZenonT(30)
      <3> QED
        BY <3>1, Zenon
    <2>2. CASE createOrUpsert(p)
      <3> DEFINE row == [dsn |-> r.dsn, labels |-> r.labels, isDefault |-> isDefaultOf(p)]
      <3>1. /\ row \in Row /\ rows'[r.body] = row
            /\ \A j \in Keys : j # r.body => rows'[j] = rows[j]
            /\ r.kind \in {"create", "put"}
        BY <1>1, <2>2, CreateFacts, ZenonT(30)
      <3>2. r.kind = "put" /\ row.isDefault = view[p].isDefault
        BY <3>1, ZenonT(30) DEF isDefaultOf
      <3>3. r.dsn # Keep /\ r.labels # Keep
        BY <3>1, AdminAssumption, ZenonT(30) DEF Row
      <3> HIDE DEF r, row
      <3> QED
        BY <3>1, <3>2, <3>3, Zenon
    <2> QED
      BY <2>1, <2>2, ZenonT(30) DEF Writes, del, setDefault, bumpVersion
  <1>2. AdminInv /\ [AdminNext]_adminVars => [\A p \in Procs : KeepsRest(p)]_adminVars
    BY <1>1, Zenon
  <1> QED
    BY InitAdmin, NextAdmin, <1>2, PTL DEF AdminSpec, FreshWriteKeepsRest

\* DefaultLossExplained for every set of targets and requests: there is at most
\* one default, and it is lost only to the listed requests.
THEOREM DefaultSafe == AdminSpec => DefaultLossExplained
  <1> DEFINE Explained ==
        /\ OneDefault(rows')
        /\ DefaultLost =>
              \E p \in Procs :
                 /\ Writes(p)
                 /\ \/ req[p].r.kind \in {"del", "create"}
                    \/ req[p].r.kind = "put" /\ req[p].r.body # req[p].r.key
                    \/ ~StillThere(p)
  <1>1. ASSUME AdminInv, AdminNext, DefaultLost,
               \A p \in Procs : Writes(p) => /\ req[p].r.kind \notin {"del", "create"}
                                             /\ req[p].r.kind = "put" => req[p].r.body = req[p].r.key
                                             /\ StillThere(p)
        PROVE  FALSE
    <2>0. PICK d \in Keys : rows[d] # NoRow /\ rows[d].isDefault
      BY <1>1, ZenonT(30) DEF DefaultLost, Defaults
    <2>1. \A j \in Keys : rows'[j] # NoRow => ~rows'[j].isDefault
      BY <1>1, Zenon DEF DefaultLost, Defaults
    <2>2. PICK p \in Procs : Writes(p)
      BY <1>1, <2>0, <2>1, ZenonT(30) DEF AdminNext, Writes, ReadRows, ReadVersion, Abort
    <2> DEFINE r == req[p].r
    <2>3. r.kind \notin {"del", "create"} /\ (r.kind = "put" => r.body = r.key) /\ view[p] = rows[r.key]
      BY <1>1, <2>2, SMTT(30) DEF StillThere
    <2>4. CASE createOrUpsert(p)
      <3> DEFINE row == [dsn |-> r.dsn, labels |-> r.labels, isDefault |-> isDefaultOf(p)]
      <3>1. /\ row \in Row /\ rows'[r.body] = row /\ r.body \in Keys
            /\ \A j \in Keys : j # r.body => rows'[j] = rows[j]
            /\ r.kind \in {"create", "put"}
        BY <1>1, <2>4, CreateFacts, Zenon
      <3>2. r.kind = "put" /\ r.body = r.key /\ (view[p] # NoRow => row.isDefault = view[p].isDefault)
        BY <2>3, <3>1, Zenon DEF isDefaultOf
      <3>3. row # NoRow
        BY <3>1, RowFacts, SMTT(30)
      <3> HIDE DEF r, row
      <3> QED
        BY <2>0, <2>1, <2>3, <3>1, <3>2, <3>3
    <2>5. CASE patch(p)
      <3>1. /\ rows'[r.key] \in Row /\ rows'[r.key].isDefault = view[p].isDefault /\ r.key \in Keys
            /\ \A j \in Keys : j # r.key => rows'[j] = rows[j]
        BY <1>1, <2>5, PatchFacts, Zenon
      <3>2. rows'[r.key] # NoRow
        BY <3>1, RowFacts, SMTT(30)
      <3> HIDE DEF r
      <3> QED
        BY <2>0, <2>1, <2>3, <3>1, <3>2
    <2>6. CASE setDefault(p)
      <3>1. r.key \in Keys /\ view[p] # NoRow /\ (rows[r.key] # NoRow => r.key \in Defaults(rows'))
        BY <1>1, <2>6, OtherWrites, Zenon
      <3> QED
        BY <2>1, <2>3, <3>1, Zenon DEF Defaults
    <2>7. CASE bumpVersion(p)
      <3>1. rows' = rows
        BY <1>1, <2>7, OtherWrites, ZenonT(30)
      <3> QED
        BY <2>0, <2>1, <3>1
    <2> QED
      BY <2>2, <2>3, <2>4, <2>5, <2>6, <2>7, ZenonT(30) DEF Writes, del
  <1>2. AdminInv /\ AdminInv' /\ [AdminNext]_adminVars => [Explained]_adminVars
    <2> SUFFICES ASSUME AdminInv, AdminInv', AdminNext PROVE Explained
      BY Zenon
    <2>1. OneDefault(rows')
      BY Zenon DEF AdminInv
    <2> QED
      BY <1>1, <2>1, SMTT(30)
  <1> QED
    BY InitAdmin, NextAdmin, <1>2, PTL DEF AdminSpec, DefaultLossExplained

-----------------------------------------------------------------------------
(***************************************************************************)
(* Delivery of events.                                                     *)
(***************************************************************************)
Job == [pc : {"none", "send", "dlq", "done"}, failed : Nat]

\* LossExplained with what it needs of the earlier steps: a goroutine has an
\* event only after Dispatch, whose context then never is "none" again.
DispatchInv ==
    /\ job \in [Jobs -> Job] /\ ctx \in [Events -> {"none", "live", "cancelled"}]
    /\ \A j \in Jobs : job[j].pc # "none" => ctx[j[1]] # "none"
    /\ LossExplained

LEMMA InitDispatch == DispatchInit => DispatchInv
  BY DEF DispatchInit, DispatchInv, Job, LossExplained, Done

LEMMA JobFacts ==
  ASSUME NEW j \in Jobs PROVE j[1] \in Events /\ j[2] \in Sinks
  BY DEF Jobs

\* A goroutine's step: its own event is accounted for, and the histories and
\* the sinks only grow.
LEMMA JobStep ==
  ASSUME DispatchInv, NEW j \in Jobs, job[j].pc \in {"send", "dlq"}, NEW new \in Job,
         job' = [job EXCEPT ![j] = new], new.pc # "none", UNCHANGED ctx,
         \A k \in Jobs : Kept(k) => Kept(k)', refused \subseteq refused',
         new.pc = "done" /\ j[2] \in Direct => Kept(j)' \/ ctx[j[1]] = "cancelled" \/ j \in refused'
  PROVE  DispatchInv'
  <1>1. /\ job' \in [Jobs -> Job] /\ job'[j] = new
        /\ \A k \in Jobs : k # j => job'[k] = job[k]
    BY DEF DispatchInv
  <1>2. ctx' \in [Events -> {"none", "live", "cancelled"}]
    BY DEF DispatchInv
  <1>3. \A k \in Jobs : job'[k].pc # "none" => ctx'[k[1]] # "none"
    BY <1>1 DEF DispatchInv
  <1>4. ASSUME NEW k \in Jobs, k[2] \in Direct, Done(k)', ~Kept(k)'
        PROVE  ctx'[k[1]] = "cancelled" \/ k \in refused'
    <2>1. CASE k = j
      BY <1>1, <1>4, <2>1 DEF Done
    <2>2. CASE k # j
      BY <1>1, <1>4, <2>2 DEF Done, DispatchInv, LossExplained
    <2> QED
      BY <2>1, <2>2
  <1>5. LossExplained'
    BY <1>4 DEF LossExplained
  <1> QED
    BY <1>1, <1>2, <1>3, <1>5 DEF DispatchInv

\* A step that starts or moves no goroutine.
LEMMA OutsideStep ==
  ASSUME DispatchInv, UNCHANGED job, UNCHANGED refused,
         ctx' \in [Events -> {"none", "live", "cancelled"}],
         \A e \in Events : ctx'[e] = ctx[e] \/ ctx'[e] = "cancelled",
         \A k \in Jobs : Kept(k) => Kept(k)'
  PROVE  DispatchInv'
  <1>1. \A k \in Jobs : job'[k].pc # "none" => ctx'[k[1]] # "none"
    BY JobFacts DEF DispatchInv
  <1>2. LossExplained'
    BY JobFacts DEF DispatchInv, LossExplained, Done
  <1> QED
    BY <1>1, <1>2 DEF DispatchInv

LEMMA NextDispatch == DispatchInv /\ [DispatchNext]_dispatchVars => DispatchInv'
  <1> SUFFICES ASSUME DispatchInv, [DispatchNext]_dispatchVars PROVE DispatchInv'
    OBVIOUS
  <1> USE DispatchAssumption
  <1>0. ASSUME UNCHANGED dispatchVars PROVE DispatchInv'
    <2>1. /\ UNCHANGED <<job, refused, ctx, received, dlq, resent>>
          /\ ctx \in [Events -> {"none", "live", "cancelled"}]
      BY <1>0 DEF dispatchVars, DispatchInv
    <2> QED
      BY <2>1, OutsideStep DEF Kept
  <1>1. ASSUME NEW e \in Events, Dispatch(e) PROVE DispatchInv'
    <2>1. /\ ctx[e] = "none" /\ ctx' = [ctx EXCEPT ![e] = "live"]
          /\ job' = [j \in Jobs |-> IF j[1] = e THEN [pc |-> "send", failed |-> 0] ELSE job[j]]
          /\ UNCHANGED <<received, dlq, refused, resent>>
      BY <1>1 DEF Dispatch
    <2>2. job' \in [Jobs -> Job] /\ ctx' \in [Events -> {"none", "live", "cancelled"}]
      BY <2>1 DEF DispatchInv, Job
    <2>3. ctx'[e] = "live" /\ \A k \in Jobs : k[1] # e => ctx'[k[1]] = ctx[k[1]] /\ job'[k] = job[k]
      BY <2>1, JobFacts DEF DispatchInv
    <2>4. \A k \in Jobs : k[1] = e => job'[k].pc = "send"
      BY <2>1
    <2>5. \A k \in Jobs : job'[k].pc # "none" => ctx'[k[1]] # "none"
      BY <2>3, <2>4 DEF DispatchInv
    <2>6. LossExplained'
      BY <2>1, <2>3, <2>4 DEF DispatchInv, LossExplained, Done, Kept
    <2> QED
      BY <2>2, <2>5, <2>6 DEF DispatchInv
  <1>2. ASSUME NEW e \in Events, Respond(e) PROVE DispatchInv'
    <2>1. /\ ctx' = [ctx EXCEPT ![e] = "cancelled"]
          /\ UNCHANGED <<job, received, dlq, refused, resent>>
      BY <1>2 DEF Respond
    <2>2. /\ ctx' \in [Events -> {"none", "live", "cancelled"}]
          /\ \A d \in Events : ctx'[d] = ctx[d] \/ ctx'[d] = "cancelled"
      BY <2>1 DEF DispatchInv
    <2> QED
      BY <2>1, <2>2, OutsideStep DEF Kept
  <1>3. ASSUME NEW j \in Jobs, job[j].pc \in {"send", "dlq"}, Sent(j), UNCHANGED ctx,
               \A k \in Jobs : Kept(k) => Kept(k)', refused \subseteq refused',
               j[2] \in Direct => Kept(j)' \/ ctx[j[1]] = "cancelled" \/ j \in refused'
        PROVE  DispatchInv'
    <2> DEFINE new == [job[j] EXCEPT !.pc = "done"]
    <2>1. job' = [job EXCEPT ![j] = new] /\ new \in Job /\ new.pc = "done"
      BY <1>3 DEF Sent, DispatchInv, Job
    <2> HIDE DEF new
    <2> QED
      BY <1>3, <2>1, JobStep, ZenonT(30)
  <1>4. ASSUME NEW j \in Jobs, Sending(j), Failed(j), UNCHANGED <<ctx, dlq, refused, resent>>,
               received \subseteq received'
        PROVE  DispatchInv'
    <2> DEFINE n == job[j].failed + 1
               new == [pc |-> IF n >= MaxAttempts THEN "dlq" ELSE "send", failed |-> n]
    <2>1. job' = [job EXCEPT ![j] = new] /\ new \in Job /\ new.pc \in {"dlq", "send"}
      BY <1>4 DEF Failed, DispatchInv, Job
    <2>2. job[j].pc \in {"send", "dlq"} /\ \A k \in Jobs : Kept(k) => Kept(k)'
      BY <1>4 DEF Sending, Kept
    <2> HIDE DEF new
    <2> QED
      BY <1>4, <2>1, <2>2, JobStep, ZenonT(30)
  <1>5. ASSUME NEW j \in Jobs, DirectOK(j) PROVE DispatchInv'
    BY <1>3, <1>5, SMTT(30) DEF DirectOK, Sending, Kept
  <1>6. ASSUME NEW j \in Jobs, NEW arrived \in BOOLEAN, DirectFails(j, arrived) PROVE DispatchInv'
    BY <1>4, <1>6 DEF DirectFails
  <1>7. ASSUME NEW j \in Jobs, KafkaInput(j) PROVE DispatchInv'
    BY <1>3, <1>7 DEF KafkaInput, Sending, Kept
  <1>8. ASSUME NEW j \in Jobs, KafkaCancelled(j) PROVE DispatchInv'
    BY <1>4, <1>8 DEF KafkaCancelled
  <1>9. ASSUME NEW j \in Jobs, NEW e \in Events, KafkaError(j, e) PROVE DispatchInv'
    BY <1>4, <1>9 DEF KafkaError
  <1>10. ASSUME NEW j \in Jobs, Store(j) PROVE DispatchInv'
    BY <1>3, <1>10 DEF Store, Kept
  <1>11. ASSUME NEW j \in Jobs, StoreFails(j) PROVE DispatchInv'
    <2>1. ctx[j[1]] \in {"live", "cancelled"}
      BY <1>11, JobFacts DEF StoreFails, DispatchInv
    <2> QED
      BY <1>3, <1>11, <2>1 DEF StoreFails, Kept
  <1>12. ASSUME NEW j \in Jobs, NEW deleted \in BOOLEAN, Retry(j, deleted) PROVE DispatchInv'
    <2>1. /\ UNCHANGED <<ctx, job, refused>> /\ received \subseteq received'
          /\ dlq \cup resent \subseteq dlq' \cup resent'
      BY <1>12 DEF Retry
    <2>2. ctx' \in [Events -> {"none", "live", "cancelled"}]
      BY <2>1 DEF DispatchInv
    <2> QED
      BY <2>1, <2>2, OutsideStep DEF Kept
  <1>13. ASSUME NEW k \in Kafka, NEW e \in Events, NEW ok \in BOOLEAN, Produce(k, e, ok)
         PROVE  DispatchInv'
    <2>1. UNCHANGED <<ctx, job, dlq, refused, resent>> /\ received \subseteq received'
      BY <1>13 DEF Produce
    <2>2. ctx' \in [Events -> {"none", "live", "cancelled"}]
      BY <2>1 DEF DispatchInv
    <2> QED
      BY <2>1, <2>2, OutsideStep DEF Kept
  <1> QED
    BY <1>0, <1>1, <1>2, <1>5, <1>6, <1>7, <1>8, <1>9, <1>10, <1>11, <1>12, <1>13
       DEF DispatchNext, Deliver

\* For every set of events and sinks, every number of attempts and every
\* interleaving of retrySend with the handlers, the producers and "events
\* retry": an event a direct sink never received, and that is not in the DLQ,
\* was lost to its cancelled context or to a failed insert.
THEOREM NoSilentLoss == DispatchSpec => []LossExplained
  <1>1. DispatchInv => LossExplained
    BY DEF DispatchInv
  <1> QED
    BY InitDispatch, NextDispatch, <1>1, PTL DEF DispatchSpec

-----------------------------------------------------------------------------
(***************************************************************************)
(* The cached list of widgets.                                             *)
(***************************************************************************)
Lists == UNION {[S -> Contents] : S \in SUBSET Widgets}
Reading == [etag : SUBSET (Widgets \X Times), last : Nat, since : BOOLEAN, items : Lists]
CopyOf(B) == [items : Lists, etag : SUBSET (Widgets \X Times), last : Nat,
              since : B, torn : B, gone : B, late : B, fresh : B]
Copy == CopyOf(BOOLEAN)

\* No row of the tag is later than the date, and every listed widget has one.
Dated(g) ==
    /\ \A w \in Widgets, t \in Times : <<w, t>> \in g.etag => t <= g.last
    /\ \A w \in DOMAIN g.items : \E t \in Times : <<w, t>> \in g.etag

\* The copy is right about w.
Right(w) == IF w \in Visible THEN w \in DOMAIN cache.items /\ cache.items[w] = widgets[w].content
            ELSE w \notin DOMAIN cache.items

\* What a copy read in one state tells of the rows: unless one has gone it lists
\* none too many, and unless one is late it is right about the rows that are not
\* later than its date.
CopyInv ==
    cache # NoAnswer /\ ~cache.torn =>
        /\ Dated(cache)
        /\ cache.gone \/ DOMAIN cache.items \subseteq Visible
        /\ cache.late \/ \A w \in Hashed : widgets[w].at > cache.last \/ Right(w)

CacheInv ==
    /\ source \in {"postgres", "mysql", "registry"}
    /\ widgets \in [Widgets -> WidgetRow \cup {NoWidget}]
    /\ get # NoAnswer => get \in Reading /\ Dated(get)
    /\ cache # NoAnswer => cache \in Copy
    /\ CopyInv /\ NotModifiedExplained

\* Stated for any set B: with BOOLEAN in its place the provers do not find it.
LEMMA CopyUpdates ==
  ASSUME NEW B, NEW c \in CopyOf(B), NEW a \in B, NEW b \in B, NEW t \in B
  PROVE  /\ [c EXCEPT !.fresh = a, !.since = b] \in CopyOf(B)
         /\ [c EXCEPT !.gone = a, !.late = b, !.fresh = t] \in CopyOf(B)
         /\ [c EXCEPT !.gone = a, !.fresh = t] \in CopyOf(B)
  BY Zenon DEF CopyOf

\* The date is that of the last of the rows.
LEMMA WidgetRowFacts ==
  ASSUME CacheInv
  PROVE  /\ Visible \subseteq Hashed /\ Hashed \subseteq Widgets /\ Items \in Lists
         /\ \A w \in Hashed : widgets[w] \in WidgetRow /\ widgets[w].at \in Times
         /\ LastMod \in Nat /\ \A w \in Hashed : widgets[w].at <= LastMod
         /\ ETag \subseteq Widgets \X Times
         /\ \A w \in Hashed : <<w, widgets[w].at>> \in ETag
         /\ \A w \in Widgets, t \in Times : <<w, t>> \in ETag => w \in Hashed /\ widgets[w].at = t
  <1>1. /\ Visible \subseteq Hashed /\ Hashed \subseteq Widgets
        /\ \A w \in Hashed : widgets[w] \in WidgetRow
    BY DEF CacheInv, Visible, Hashed
  <1>2. \A w \in Hashed : widgets[w].at \in Times /\ widgets[w].content \in Contents
    BY <1>1 DEF WidgetRow
  <1>3. Items \in Lists
    <2>1. Items \in [Visible -> Contents] /\ Visible \in SUBSET Widgets
      BY <1>1, <1>2 DEF Items
    <2> QED
      BY <2>1, Zenon DEF Lists
  <1>4. LastMod \in Nat /\ \A w \in Hashed : widgets[w].at <= LastMod
    <2>1. CASE Hashed = {}
      BY <2>1 DEF LastMod
    <2>2. CASE Hashed # {}
      <3> DEFINE S == {widgets[w].at : w \in Hashed}
      <3>1. S \in (SUBSET Times) \ {{}}
        BY <1>2, <2>2
      <3>2. LastMod \in S /\ \A u \in S : LastMod >= u
        <4>1. \E t \in S : \A u \in S : t >= u
          BY <3>1, CacheAssumption, Zenon
        <4>2. LastMod = CHOOSE t \in S : \A u \in S : t >= u
          BY <3>1, Zenon DEF LastMod
        <4> QED
          BY <4>1, <4>2, Zenon
      <3>3. \A w \in Hashed : widgets[w].at \in S
        OBVIOUS
      <3>4. S \subseteq Nat
        BY <3>1, CacheAssumption, Zenon
      <3> HIDE DEF S
      <3> QED
        BY <3>2, <3>3, <3>4, Zenon
    <2> QED
      BY <2>1, <2>2, Zenon
  <1>5. /\ ETag \subseteq Widgets \X Times
        /\ \A w \in Hashed : <<w, widgets[w].at>> \in ETag
    BY <1>1, <1>2 DEF ETag
  <1>6. \A w \in Widgets, t \in Times : <<w, t>> \in ETag => w \in Hashed /\ widgets[w].at = t
    BY Zenon DEF ETag
  <1> QED
    BY <1>1, <1>2, <1>3, <1>4, <1>5, <1>6, Zenon

LEMMA HTTPDateFacts == \A t \in Nat : HTTPDate(t) \in Nat /\ HTTPDate(t) <= t
  BY DEF HTTPDate

\* What GetETagAndLastMod and List read in one state.
LEMMA ReadingDated ==
  ASSUME CacheInv, NEW sinceSent \in BOOLEAN
  PROVE  LET g == [etag |-> ETag, last |-> LastMod, since |-> sinceSent, items |-> Items]
         IN  g \in Reading /\ Dated(g)
  <1> DEFINE g == [etag |-> ETag, last |-> LastMod, since |-> sinceSent, items |-> Items]
  <1>1. g \in Reading
    BY WidgetRowFacts, Zenon DEF Reading
  <1>2. \A w \in Widgets, t \in Times : <<w, t>> \in ETag => t <= LastMod
    BY WidgetRowFacts
  <1>3. \A w \in DOMAIN Items : \E t \in Times : <<w, t>> \in ETag
    BY WidgetRowFacts, Zenon DEF Items
  <1> QED
    BY <1>1, <1>2, <1>3, Zenon DEF Dated

\* The answer of List with the headers of g.
LEMMA AnswerStep ==
  ASSUME CacheInv, NEW g \in Reading, Dated(g), cache' = Answered(g),
         UNCHANGED <<source, widgets>>
  PROVE  /\ cache' # NoAnswer => cache' \in Copy
         /\ CopyInv' /\ NotModifiedExplained'
  <1>1. /\ cache'.items = Items /\ cache'.etag = g.etag /\ cache'.last = g.last
        /\ cache'.torn <=> g.items # Items
        /\ cache'.fresh
    BY Zenon DEF Answered
  <1>2. cache' \in Copy
    BY WidgetRowFacts, Zenon DEF Answered, Copy, CopyOf, Reading
  <1>3. Visible' = Visible /\ Hashed' = Hashed
    BY Zenon DEF Visible, Hashed, applyFilters
  <1>4. ~cache'.torn => Dated(cache)'
    BY <1>1, Zenon DEF Dated
  <1>5. \A w \in Hashed : Right(w)'
    BY <1>1, <1>3 DEF Right, Items
  <1>6. DOMAIN cache'.items \subseteq Visible'
    BY <1>1, <1>3, Zenon DEF Items
  <1> QED
    BY <1>1, <1>2, <1>3, <1>4, <1>5, <1>6, Zenon DEF CopyInv, NotModifiedExplained

\* A copy that is right about every row and lists no other is what List returns.
LEMMA SameList ==
  ASSUME CacheInv, cache # NoAnswer, \A w \in Hashed : Right(w), DOMAIN cache.items \subseteq Visible
  PROVE  cache.items = Items
  <1>1. cache.items \in Lists
    BY Zenon DEF CacheInv, Copy, CopyOf
  <1>2. PICK S \in SUBSET Widgets : cache.items \in [S -> Contents]
    BY <1>1, Zenon DEF Lists
  <1>3. Visible \subseteq Hashed
    BY WidgetRowFacts, Zenon
  <1>4. DOMAIN cache.items = Visible /\ \A w \in Visible : cache.items[w] = widgets[w].content
    BY <1>3, Zenon DEF Right
  <1> QED
    BY <1>2, <1>4 DEF Items

\* "304 Not Modified": the same tag means the same list, and an older date means
\* it unless a row has gone.
LEMMA NotModifiedStep ==
  ASSUME CacheInv, cache # NoAnswer, ~cache.torn, ~cache.late,
         NEW noneMatch \in BOOLEAN, NEW sinceSent \in BOOLEAN,
         notModified(noneMatch, sinceSent, ETag, LastMod)
  PROVE  cache.items = Items \/ (sinceSent /\ cache.gone)
  <1>0. cache \in Copy /\ cache.last \in Nat
    BY DEF CacheInv, Copy, CopyOf
  <1>1. /\ Dated(cache) /\ (cache.gone \/ DOMAIN cache.items \subseteq Visible)
        /\ \A w \in Hashed : widgets[w].at > cache.last \/ Right(w)
    BY Zenon DEF CacheInv, CopyInv
  <1>2. CASE cache.etag = ETag
    <2>1. \A w \in Hashed : widgets[w].at <= cache.last
      BY <1>1, <1>2, WidgetRowFacts, Zenon DEF Dated
    <2>2. \A w \in Hashed : Right(w)
      <3>1. \A w \in Hashed : widgets[w].at \in Nat
        BY WidgetRowFacts, CacheAssumption, Zenon
      <3> QED
        BY <1>0, <1>1, <2>1, <3>1
    <2>3. DOMAIN cache.items \subseteq Hashed
      BY <1>1, <1>2, WidgetRowFacts, Zenon DEF Dated
    <2>4. DOMAIN cache.items \subseteq Visible
      BY <2>2, <2>3, Zenon DEF Right
    <2> QED
      BY <2>2, <2>4, SameList, Zenon
  <1>3. CASE sinceSent /\ LastMod <= HTTPDate(cache.last)
    <2>1. HTTPDate(cache.last) <= cache.last /\ HTTPDate(cache.last) \in Nat
      BY <1>0, HTTPDateFacts
    <2>2. LastMod \in Nat /\ \A w \in Hashed : widgets[w].at \in Nat /\ widgets[w].at <= LastMod
      BY WidgetRowFacts, CacheAssumption, Zenon
    <2>3. \A w \in Hashed : Right(w)
      BY <1>0, <1>1, <1>3, <2>1, <2>2
    <2> QED
      BY <1>1, <1>3, <2>3, SameList, Zenon
  <1> QED
    BY <1>2, <1>3, Zenon DEF notModified

LEMMA GetStep ==
  ASSUME CacheInv, NEW noneMatch \in BOOLEAN, NEW sinceSent \in BOOLEAN,
         GetETagAndLastMod(noneMatch, sinceSent)
  PROVE  CacheInv'
  <1> DEFINE g == [etag |-> ETag, last |-> LastMod, since |-> sinceSent, items |-> Items]
  <1>1. UNCHANGED <<source, widgets>>
    BY Zenon DEF GetETagAndLastMod
  <1>2. g \in Reading /\ Dated(g)
    BY ReadingDated, Zenon
  <1>3. CASE /\ cache # NoAnswer /\ notModified(noneMatch, sinceSent, ETag, LastMod)
             /\ cache' = [cache EXCEPT !.fresh = cache.items = Items, !.since = sinceSent]
             /\ UNCHANGED get
    <2>1. cache \in Copy
      BY <1>3, Zenon DEF CacheInv
    <2>2. /\ cache' \in Copy /\ cache'.items = cache.items /\ cache'.etag = cache.etag
          /\ cache'.last = cache.last /\ (cache'.torn <=> cache.torn)
          /\ (cache'.gone <=> cache.gone) /\ (cache'.late <=> cache.late)
          /\ (cache'.since <=> sinceSent) /\ (cache'.fresh <=> cache.items = Items)
      <3>1. \A x \in BOOLEAN : [cache EXCEPT !.fresh = x, !.since = sinceSent] \in Copy
        BY <2>1, CopyUpdates, Zenon DEF Copy
      <3>2. (cache.items = Items) \in BOOLEAN
        BY Zenon
      <3>3. cache' \in Copy
        BY <1>3, <3>1, <3>2, Zenon
      <3>4. /\ cache'.items = cache.items /\ cache'.etag = cache.etag /\ cache'.last = cache.last
            /\ cache'.torn = cache.torn /\ cache'.gone = cache.gone /\ cache'.late = cache.late
        BY <1>3, <2>1, SMT DEF Copy, CopyOf
      <3>5. (cache'.fresh <=> cache.items = Items)
        BY <1>3, <2>1, Zenon DEF Copy, CopyOf
      <3>6. (cache'.since <=> sinceSent)
        BY <1>3, <2>1, Zenon DEF Copy, CopyOf
      <3> QED
        BY <3>3, <3>4, <3>5, <3>6, Zenon
    <2>3. Visible' = Visible /\ Hashed' = Hashed
      BY <1>1, Zenon DEF Visible, Hashed, applyFilters
    <2>4. CopyInv'
      <3>1. Dated(cache)' <=> Dated(cache)
        BY <2>2, Zenon DEF Dated
      <3>2. \A w \in Hashed : Right(w)' <=> Right(w)
        BY <1>1, <2>2, <2>3, Zenon DEF Right
      <3> QED
        BY <1>1, <1>3, <2>2, <2>3, <3>1, <3>2, Zenon DEF CacheInv, CopyInv
    <2>5. NotModifiedExplained'
      BY <1>3, <2>2, NotModifiedStep, Zenon DEF NotModifiedExplained
    <2> QED
      BY <1>1, <1>3, <2>2, <2>4, <2>5, Zenon DEF CacheInv, Dated
  <1>4. CASE cache' = Answered(g) /\ UNCHANGED get
    BY <1>1, <1>2, <1>4, AnswerStep, Zenon DEF CacheInv, Dated
  <1>5. CASE get' = g /\ UNCHANGED cache
    <2>1. Dated(get)' /\ get' \in Reading
      BY <1>2, <1>5, Zenon DEF Dated
    <2>2. CopyInv' /\ NotModifiedExplained'
      <3>1. Visible' = Visible /\ Hashed' = Hashed
        BY <1>1, Zenon DEF Visible, Hashed, applyFilters
      <3>2. \A w \in Hashed : Right(w)' <=> Right(w)
        BY <1>1, <1>5, <3>1, Zenon DEF Right
      <3> QED
        BY <1>1, <1>5, <3>1, <3>2, Zenon DEF CacheInv, CopyInv, NotModifiedExplained, Dated
    <2> QED
      BY <1>1, <1>5, <2>1, <2>2, Zenon DEF CacheInv
  <1> QED
    BY <1>3, <1>4, <1>5, Zenon DEF GetETagAndLastMod

\* A row is written or removed: unless it is late it is later than the copy.
LEMMA WidgetWriteStep ==
  ASSUME CacheInv, NEW w \in Widgets, NEW row \in WidgetRow \cup {NoWidget},
         widgets' = [widgets EXCEPT ![w] = row], UNCHANGED <<source, get>>,
         cache = NoAnswer => cache' = cache,
         cache # NoAnswer =>
            /\ cache' \in Copy /\ cache'.fresh
            /\ cache'.items = cache.items /\ cache'.etag = cache.etag /\ cache'.last = cache.last
            /\ cache'.torn <=> cache.torn
            /\ cache.gone => cache'.gone
            /\ cache.late => cache'.late
            /\ w \in Visible \ Visible' => cache'.gone
            /\ w \in Hashed' /\ row.at <= cache.last => cache'.late
  PROVE  CacheInv'
  <1>1. /\ widgets' \in [Widgets -> WidgetRow \cup {NoWidget}] /\ widgets'[w] = row
        /\ \A v \in Widgets \ {w} : widgets'[v] = widgets[v]
    BY Zenon DEF CacheInv
  <1>2. \A v \in Widgets \ {w} : (v \in Visible' <=> v \in Visible) /\ (v \in Hashed' <=> v \in Hashed)
    BY <1>1, Zenon DEF Visible, Hashed, applyFilters
  <1>3. CASE cache = NoAnswer
    BY <1>1, <1>3, Zenon DEF CacheInv, CopyInv, NotModifiedExplained, Dated
  <1>4. CASE cache # NoAnswer
    <2>1. NotModifiedExplained'
      BY <1>4, Zenon DEF NotModifiedExplained
    <2>2. Dated(cache) => Dated(cache)'
      BY <1>4, Zenon DEF Dated
    <2>3. cache'.gone \/ (DOMAIN cache.items \subseteq Visible => DOMAIN cache'.items \subseteq Visible')
      BY <1>2, <1>4, Zenon DEF Visible
    <2>4. ASSUME ~cache'.late, \A v \in Hashed : widgets[v].at > cache.last \/ Right(v)
          PROVE  \A v \in Hashed' : widgets'[v].at > cache'.last \/ Right(v)'
      <3> SUFFICES ASSUME NEW v \in Hashed' PROVE widgets'[v].at > cache'.last \/ Right(v)'
        BY Zenon
      <3>0. v \in Widgets
        BY Zenon DEF Hashed, Visible
      <3>1. CASE v = w
        <4>1. row.at > cache.last
          <5>1. ~(row.at <= cache.last) /\ row \in WidgetRow /\ cache.last \in Nat
            BY <1>1, <1>4, <2>4, <3>1, Zenon DEF Hashed, Visible, CacheInv, Copy, CopyOf
          <5>2. row.at \in Nat
            BY <5>1, CacheAssumption, Zenon DEF WidgetRow
          <5> QED
            BY <5>1, <5>2
        <4> QED
          BY <1>1, <1>4, <3>1, <4>1, Zenon
      <3>2. CASE v # w
        <4>1. v \in Hashed /\ widgets'[v] = widgets[v]
          BY <1>1, <1>2, <3>0, <3>2, Zenon
        <4>2. Right(v) => Right(v)'
          BY <1>2, <1>4, <3>0, <3>2, <4>1, Zenon DEF Right
        <4> QED
          BY <1>4, <2>4, <4>1, <4>2, Zenon
      <3> QED
        BY <3>1, <3>2, Zenon
    <2>5. CopyInv'
      BY <1>4, <2>2, <2>3, <2>4, Zenon DEF CacheInv, CopyInv
    <2> QED
      BY <1>1, <1>4, <2>1, <2>5, Zenon DEF CacheInv, Dated
  <1> QED
    BY <1>3, <1>4, Zenon

LEMMA UpsertStep ==
  ASSUME CacheInv, NEW w \in Widgets, NEW row \in WidgetRow, UpsertWidget(w, row)
  PROVE  CacheInv'
  <1> DEFINE goes == w \in Visible /\ ~applyFilters(row.kind)
             late == (applyFilters(row.kind) \/ source = "registry") /\ row.at <= cache.last
  <1>1. /\ widgets' = [widgets EXCEPT ![w] = row] /\ UNCHANGED <<source, get>>
        /\ cache = NoAnswer => cache' = cache
        /\ cache # NoAnswer =>
              cache' = [cache EXCEPT !.gone = cache.gone \/ goes, !.late = cache.late \/ late, !.fresh = TRUE]
    BY Zenon DEF UpsertWidget
  <1>2. ASSUME cache # NoAnswer
        PROVE  /\ cache' \in Copy /\ cache'.fresh
               /\ cache'.items = cache.items /\ cache'.etag = cache.etag /\ cache'.last = cache.last
               /\ cache'.torn <=> cache.torn
               /\ cache'.gone <=> cache.gone \/ goes
               /\ cache'.late <=> cache.late \/ late
    <2>1. cache \in Copy
      BY <1>2, Zenon DEF CacheInv
    <2>2. \A x, y \in BOOLEAN : [cache EXCEPT !.gone = x, !.late = y, !.fresh = TRUE] \in Copy
      BY <2>1, CopyUpdates, Zenon DEF Copy
    <2>3. (cache.gone \/ goes) \in BOOLEAN /\ (cache.late \/ late) \in BOOLEAN
      BY Zenon
    <2> HIDE DEF goes, late
    <2>4. cache' \in Copy
      BY <1>1, <1>2, <2>2, <2>3, Zenon
    <2>5. /\ cache'.items = cache.items /\ cache'.etag = cache.etag /\ cache'.last = cache.last
          /\ cache'.torn = cache.torn
      BY <1>1, <1>2, <2>1, Zenon DEF Copy, CopyOf
    <2>6. (cache'.gone <=> cache.gone \/ goes) /\ cache'.fresh
      BY <1>1, <1>2, <2>1, Zenon DEF Copy, CopyOf
    <2>7. cache'.late <=> cache.late \/ late
      BY <1>1, <1>2, <2>1, Zenon DEF Copy, CopyOf
    <2> QED
      BY <2>4, <2>5, <2>6, <2>7, Zenon
  <1>3. w \in Visible \ Visible' => goes
    <2>1. widgets'[w] = row /\ row # NoWidget
      BY <1>1, CacheAssumption DEF CacheInv
    <2> QED
      BY <1>1, <2>1, Zenon DEF Visible, applyFilters
  <1>4. w \in Hashed' /\ row.at <= cache.last => late
    BY <1>1 DEF Hashed, Visible, applyFilters, CacheInv
  <1> QED
    BY <1>1, <1>2, <1>3, <1>4, WidgetWriteStep, Zenon

LEMMA RemoveStep ==
  ASSUME CacheInv, NEW w \in Widgets, RemoveWidget(w)
  PROVE  CacheInv'
  <1>1. /\ widgets' = [widgets EXCEPT ![w] = NoWidget] /\ UNCHANGED <<source, get>>
        /\ cache = NoAnswer => cache' = cache
        /\ cache # NoAnswer =>
              cache' = [cache EXCEPT !.gone = cache.gone \/ w \in Visible, !.fresh = TRUE]
    BY Zenon DEF RemoveWidget
  <1>2. ASSUME cache # NoAnswer
        PROVE  /\ cache' \in Copy /\ cache'.fresh
               /\ cache'.items = cache.items /\ cache'.etag = cache.etag /\ cache'.last = cache.last
               /\ cache'.torn <=> cache.torn
               /\ cache'.gone <=> cache.gone \/ w \in Visible
               /\ cache'.late <=> cache.late
    <2>1. cache \in Copy
      BY <1>2, Zenon DEF CacheInv
    <2>2. \A x \in BOOLEAN : [cache EXCEPT !.gone = x, !.fresh = TRUE] \in Copy
      BY <2>1, CopyUpdates, Zenon DEF Copy
    <2>3. (cache.gone \/ w \in Visible) \in BOOLEAN
      BY Zenon
    <2>4. cache' \in Copy
      BY <1>1, <1>2, <2>2, <2>3, Zenon
    <2>5. /\ cache'.items = cache.items /\ cache'.etag = cache.etag /\ cache'.last = cache.last
          /\ cache'.torn = cache.torn /\ cache'.late = cache.late
      BY <1>1, <1>2, <2>1, Zenon DEF Copy, CopyOf
    <2>6. (cache'.gone <=> cache.gone \/ w \in Visible) /\ cache'.fresh
      BY <1>1, <1>2, <2>1, Zenon DEF Copy, CopyOf
    <2> QED
      BY <2>4, <2>5, <2>6, Zenon
  <1>3. w \notin Hashed'
    BY <1>1, Zenon DEF Hashed, Visible, CacheInv
  <1> QED
    BY <1>1, <1>2, <1>3, WidgetWriteStep, Zenon

LEMMA InitCache == CacheInit => CacheInv
  BY Zenon DEF CacheInit, CacheInv, CopyInv, NotModifiedExplained

LEMMA NextCache == CacheInv /\ [CacheNext]_cacheVars => CacheInv'
  <1> SUFFICES ASSUME CacheInv, [CacheNext]_cacheVars PROVE CacheInv'
    BY Zenon
  <1>1. CASE ListWidgets
    <2>1. get \in Reading /\ Dated(get) /\ cache' = Answered(get) /\ UNCHANGED <<source, widgets>>
          /\ get' = NoAnswer
      BY <1>1, Zenon DEF ListWidgets, CacheInv
    <2> QED
      BY <2>1, AnswerStep, Zenon DEF CacheInv
  <1>2. CASE UNCHANGED cacheVars
    <2>1. UNCHANGED <<source, widgets, get, cache>>
      BY <1>2, Zenon DEF cacheVars
    <2>2. Visible' = Visible /\ Hashed' = Hashed
      BY <2>1, Zenon DEF Visible, Hashed, applyFilters
    <2>3. \A w \in Hashed : Right(w)' <=> Right(w)
      BY <2>1, <2>2, Zenon DEF Right
    <2> QED
      BY <2>1, <2>2, <2>3, Zenon DEF CacheInv, CopyInv, NotModifiedExplained, Dated
  <1> QED
    BY <1>1, <1>2, GetStep, UpsertStep, RemoveStep, Zenon DEF CacheNext

\* For every set of widgets, every filter and source of the list and every
\* interleaving of the writes with the two queries of a GET: "304 Not Modified" is
\* answered to a client whose copy is out of date only when the copy was torn, a
\* row was written late, or a row has gone and the client sent a date.
THEOREM StaleExplained == CacheSpec => []NotModifiedExplained
  <1>1. CacheInv => NotModifiedExplained
    BY Zenon DEF CacheInv
  <1> QED
    BY InitCache, NextCache, <1>1, PTL DEF CacheSpec
=============================================================================
