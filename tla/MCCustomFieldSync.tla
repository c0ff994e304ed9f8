-------------------------- MODULE MCCustomFieldSync --------------------------
(***************************************************************************)
(* An instance of CustomFieldSync: two callers of one field with two types *)
(* over two targets, or one caller of two tables with one type on one      *)
(* target whose writes are retried.                                        *)
(***************************************************************************)
EXTENDS CustomFieldSync, TLC

OneField(table) ==
    [tables |-> {table}, types |-> Types, targets |-> Targets, callers |-> Callers,
     AllowWriteRetry |-> FALSE]
TwoTables(t, p, d) ==
    [tables |-> Tables, types |-> {d}, targets |-> {t}, callers |-> {p},
     AllowWriteRetry |-> TRUE]
SomeDeployments ==
    {OneField(CHOOSE table \in Tables : TRUE)}
    \cup {TwoTables(t, p, d) : t \in Targets, p \in Callers, d \in Types}

SyncSymmetry == Permutations(Types) \cup Permutations(Targets) \cup Permutations(Callers)
=============================================================================
