----------------------------- MODULE TargetStore -----------------------------
(***************************************************************************)
(* The target tables of the meta database and the statements the meta      *)
(* store runs on them (meta/sqlmetastore/store.go).                        *)
(*                                                                         *)
(* A row is its connection settings (dsn stands for driver, DSN, schema    *)
(* and pool limits), its label set and its default flag; labels live in a  *)
(* second table, but every reader joins the two and every writer replaces  *)
(* them together.  The version is a fresh UUID per bump, here a counter.   *)
(* A transaction that writes ends by bumping the version and becomes       *)
(* visible at once when it commits; row locks order transactions that meet *)
(* and a failing statement rolls everything back.                          *)
(***************************************************************************)
EXTENDS Naturals

CONSTANTS Keys, Dsns, LabelSets,
          NoRow,       \* no row has this key
          NoKey,       \* the empty key ""
          MaxVersion   \* bound: version bumps in a behaviour

Row == [dsn : Dsns, labels : LabelSets, isDefault : BOOLEAN]

ASSUME StoreAssumption ==
    /\ NoRow \notin Row
    /\ NoKey \notin Keys
    /\ MaxVersion \in Nat

VARIABLES rows,    \* key -> row
          version  \* version of the configuration

Tables == [Keys -> Row \cup {NoRow}]

Defaults(rs) == {k \in Keys : rs[k] # NoRow /\ rs[k].isDefault}

\* The unique index on is_default: a statement that breaks it fails.
OneDefault(rs) == \A j, k \in Defaults(rs) : j = k

UpsertTarget(rs, k, row) == [rs EXCEPT ![k] = row]

DeleteTarget(rs, k) == [rs EXCEPT ![k] = NoRow]

\* Clear every default, then mark k: if k is gone there is none.
SetDefaultTarget(rs, k) ==
    [j \in Keys |-> IF rs[j] = NoRow THEN NoRow
                    ELSE [rs[j] EXCEPT !.isDefault = (j = k)]]

\* The third query of ListTargets.
DefaultKey(rs) ==
    IF Defaults(rs) = {} THEN NoKey ELSE CHOOSE k \in Defaults(rs) : TRUE

\* Mutant: the version stays.
BumpTargetsVersion_Skipped == version < MaxVersion /\ UNCHANGED version

BumpTargetsVersion ==
    /\ version < MaxVersion
    /\ version' = version + 1

StoreInit ==
    /\ rows \in {rs \in Tables : OneDefault(rs)}
    /\ version = 0
=============================================================================
