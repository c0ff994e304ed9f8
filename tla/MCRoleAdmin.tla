---------------------------- MODULE MCRoleAdmin ------------------------------
(***************************************************************************)
(* Small instances of RoleAdmin: two tenants with one user each.           *)
(***************************************************************************)
EXTENDS RoleAdmin, TLC

CONSTANTS u1, u2, t1, t2
TwoTenants == (u1 :> t1) @@ (u2 :> t2)

\* Exchanging the users together with their tenants changes nothing.
Symmetry == Permutations(Callers) \cup {(u1 :> u2) @@ (u2 :> u1) @@ (t1 :> t2) @@ (t2 :> t1)}
=============================================================================
