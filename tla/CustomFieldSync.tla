--------------------------- MODULE CustomFieldSync ---------------------------
(***************************************************************************)
(* Custom field CRUD of the SDK and its reconciliation                     *)
(* (sdk/customfield.go, sdk/service_admin.go).                             *)
(*                                                                         *)
(* A field lives in three places that no transaction spans: the physical   *)
(* column of a target database, the definition in the meta database, and   *)
(* the copy of the definition in the target.  Create, update and delete    *)
(* write them in this order; any write may fail, with or without effect,   *)
(* and ends the call where it is.  Each write to a target goes through its *)
(* own RunWithTarget (module Failover), so it may land on another target   *)
(* than the one before, and with AllowWriteRetry on several.  A column     *)
(* check and the ALTER after it are one step: either the check decides, or *)
(* the ALTER takes effect, or the database refuses it.                     *)
(*                                                                         *)
(* A definition is its data type; every call here works on the default     *)
(* tenant and database.                                                    *)
(***************************************************************************)
EXTENDS FiniteSets

CONSTANTS Tables, Columns, Types,
          Targets,          \* candidate targets of a call
          Callers,          \* goroutines in create, update or delete
          Reconcilers,      \* goroutines in ReconcileCustomFields
          Deployments,      \* the tables, types, targets and callers of a system,
                            \* and its FailoverPolicy's AllowWriteRetry
          None, NoTable

ASSUME SyncAssumption ==
    /\ None \notin Types
    /\ NoTable \notin Tables
    /\ Callers \cap Reconcilers = {}
    /\ Deployments \subseteq [tables : SUBSET Tables, types : SUBSET Types,
                              targets : SUBSET Targets, callers : SUBSET Callers,
                              AllowWriteRetry : BOOLEAN]

VARIABLES dep,     \* the deployment; it never changes
          col,     \* target -> field -> type of the column
          stored,  \* target -> field -> definition in its custom_fields table
          meta,    \* field -> definition in the meta database
          call,    \* what each caller is doing
          rec,     \* what each reconciler is doing
          broken,  \* history: fields whose last call is running, failed, overlapped
                   \* with another, or adopted a column of another type
          used     \* history: field -> targets that were written for it

vars == <<dep, col, stored, meta, call, rec, broken, used>>

Fields == Tables \X Columns
NoDefs == [f \in Fields |-> None]

\* tried: targets that failed in the running RunWithTarget; clean (history): no
\* other call touched the field and no attempt failed.
Idle == [pc |-> "idle", kind |-> "none", field |-> None, type |-> None,
         tried |-> {}, clean |-> FALSE]

\* meta, table: what was read; missing, todo: the fields to repair on target on,
\* all and those left; from (history): the target that was read, if it could be;
\* alone (history): nobody wrote in between.
NoReport == [pc |-> "idle", meta |-> NoDefs, table |-> NoTable, missing |-> {}, todo |-> {},
             on |-> None, tried |-> {}, from |-> None, alone |-> FALSE]

Init ==
    /\ dep \in Deployments
    /\ col = [t \in Targets |-> NoDefs]
    /\ stored = [t \in Targets |-> NoDefs]
    /\ meta = NoDefs
    /\ call = [p \in Callers |-> Idle]
    /\ rec = [r \in Reconcilers |-> NoReport]
    /\ broken = {}
    /\ used = [f \in Fields |-> {}]

\* The calls, with those on field f marked as touched by another one.
Touched(f) == [p \in Callers |-> [call[p] EXCEPT !.clean = @ /\ call[p].field # f]]
Busy(f) == {p \in Callers : call[p].field = f}

\* A write: no reconciler has the data to itself any more.
Disturb == rec' = [r \in Reconcilers |-> [rec[r] EXCEPT !.alone = FALSE]]

-----------------------------------------------------------------------------
\* CreateCustomField, UpdateCustomField, DeleteCustomField up to the first write.
Start(p, kind, f, d) ==
    /\ call[p].pc = "idle"
    /\ call' = [Touched(f) EXCEPT ![p] =
                  [pc |-> "column", kind |-> kind, field |-> f, type |-> d,
                   tried |-> {}, clean |-> Busy(f) = {}]]
    /\ broken' = broken \cup {f}
    /\ UNCHANGED <<col, stored, meta, rec, used>>

\* Mutant: an update keeps a column that is there already, as create does.
columnAfter_Kept(kind, old, d) ==
    IF kind = "delete" THEN None ELSE IF old = None THEN d ELSE old

\* addColumn keeps a column that exists; upsertColumn modifies or adds it;
\* dropColumn drops it if it exists.
columnAfter(kind, old, d) ==
    CASE kind = "create" -> IF old = None THEN d ELSE old
      [] kind = "update" -> d
      [] kind = "delete" -> None

\* The write of one attempt of RunWithTarget on target t: the column, or the
\* target's copy of the definition (UpsertFieldDefByDB, DeleteFieldDefByDB).
WriteTarget(p, t) ==
    LET c == call[p]
        f == c.field
    IN  /\ IF c.pc = "column"
           THEN /\ col' = [col EXCEPT ![t][f] = columnAfter(c.kind, @, c.type)]
                /\ UNCHANGED stored
           ELSE /\ stored' = [stored EXCEPT ![t][f] = c.type]
                /\ UNCHANGED col
        /\ used' = [used EXCEPT ![f] = @ \cup {t}]
        /\ Disturb

Adopts(p, t) ==
    /\ call[p].kind = "create"
    /\ col[t][call[p].field] \notin {None, call[p].type}

Attempt(p, t) ==
    /\ call[p].pc \in {"column", "stored"}
    /\ t \in dep.targets \ call[p].tried
    /\ WriteTarget(p, t)
    /\ IF call[p].pc = "column"
       THEN /\ call' = [call EXCEPT ![p] = [call[p] EXCEPT
                          !.pc = "meta", !.tried = {}, !.clean = call[p].clean /\ ~Adopts(p, t)]]
            /\ UNCHANGED broken
       ELSE /\ call' = [call EXCEPT ![p] = Idle]
            /\ broken' = IF call[p].clean THEN broken \ {call[p].field} ELSE broken
    /\ UNCHANGED meta

\* The attempt fails; a lost answer hides that it took effect.  The next
\* candidate is tried if the policy allows it, else the call returns the error.
AttemptFails(p, t, applied, retried) ==
    /\ call[p].pc \in {"column", "stored"}
    /\ t \in dep.targets \ call[p].tried
    /\ IF applied THEN WriteTarget(p, t) ELSE UNCHANGED <<col, stored, rec, used>>
    /\ retried => dep.AllowWriteRetry
    /\ call' = [call EXCEPT ![p] =
                  IF retried THEN [call[p] EXCEPT !.tried = call[p].tried \cup {t}, !.clean = FALSE]
                  ELSE Idle]
    /\ UNCHANGED <<meta, broken>>

\* No candidate is left, or none is available: "all candidates failed".
NoCandidate(p) ==
    /\ call[p].pc \in {"column", "stored"}
    /\ call' = [call EXCEPT ![p] = Idle]
    /\ UNCHANGED <<col, stored, meta, rec, broken, used>>

\* UpsertFieldDefs, or DeleteFieldDefs (None), in a transaction of its own.
metaAfter(p) == call[p].type

WriteMeta(p) ==
    /\ call[p].pc = "meta"
    /\ meta' = [meta EXCEPT ![call[p].field] = metaAfter(p)]
    /\ call' = [call EXCEPT ![p].pc = "stored"]
    /\ Disturb
    /\ UNCHANGED <<col, stored, broken, used>>

WriteMetaFails(p) ==
    /\ call[p].pc = "meta"
    /\ call' = [call EXCEPT ![p] = Idle]
    /\ UNCHANGED <<col, stored, meta, rec, broken, used>>

-----------------------------------------------------------------------------
\* Mutant: the rows of every table are compared.
InTable_Any(f, table) == TRUE

InTable(f, table) == table \in {NoTable, f[1]}

\* ReconcileCustomFields with repair, of one table or of all (NoTable):
\* listFromMeta, ...
ReadMeta(r, table) ==
    /\ rec[r].pc \in {"idle", "done"}
    /\ rec' = [rec EXCEPT ![r] =
                 [NoReport EXCEPT
                    !.pc = "read", !.table = table,
                    !.meta = [f \in Fields |-> IF InTable(f, table) THEN meta[f] ELSE None],
                    !.alone = \A p \in Callers : call[p].pc = "idle"]]
    /\ UNCHANGED <<col, stored, meta, call, broken, used>>

\* Mutant: a target row of another type counts as missing.
MissingInTarget_Mismatched(m, tgt) == {f \in Fields : m[f] # None /\ tgt[f] # m[f]}

\* diffFields looks the target's rows up by column name alone.
MissingInTarget(m, tgt) ==
    {f \in Fields : m[f] # None /\ \A g \in Fields : g[2] = f[2] => tgt[g] = None}

Finished(r) == [rec[r] EXCEPT !.pc = "done", !.meta = NoDefs, !.missing = {}, !.todo = {},
                            !.on = None, !.tried = {}]

\* ... listFromTarget, where a failed read is logged and counts as an empty
\* target, and diffFields.
ReadTarget(r, t, ok) ==
    LET tgt == [f \in Fields |->
                  IF ok /\ InTable(f, rec[r].table) THEN stored[t][f] ELSE None]
        missing == MissingInTarget(rec[r].meta, tgt)
    IN  /\ rec[r].pc = "read"
        /\ rec' = [rec EXCEPT ![r] =
                     [IF missing = {} THEN Finished(r)
                      ELSE [rec[r] EXCEPT !.pc = "repair", !.missing = missing, !.todo = missing]
                      EXCEPT !.from = IF ok THEN t ELSE None]]
        /\ UNCHANGED <<col, stored, meta, call, broken, used>>

\* repairMissingInTarget picks a target and upserts the missing fields, each in
\* a transaction of its own.
PickTarget(r, t) ==
    /\ rec[r].pc = "repair" /\ rec[r].on = None
    /\ t \in dep.targets \ rec[r].tried
    /\ rec' = [rec EXCEPT ![r].on = t]
    /\ UNCHANGED <<col, stored, meta, call, broken, used>>

Repair(r, f) ==
    LET t == rec[r].on
        rest == rec[r].todo \ {f}
    IN  /\ rec[r].pc = "repair" /\ t # None
        /\ f \in rec[r].todo
        /\ stored' = [stored EXCEPT ![t][f] = rec[r].meta[f]]
        /\ used' = [used EXCEPT ![f] = @ \cup {t}]
        /\ broken' = IF rec[r].alone THEN broken ELSE broken \cup {f}
        /\ call' = Touched(f)
        /\ rec' = [q \in Reconcilers |->
                     IF q # r THEN [rec[q] EXCEPT !.alone = FALSE]
                     ELSE IF rest = {} THEN Finished(r) ELSE [rec[r] EXCEPT !.todo = rest]]
        /\ UNCHANGED <<col, meta>>

\* An upsert fails: on to the next candidate, with all fields, or give up.
RepairFails(r, retried) ==
    /\ rec[r].pc = "repair"
    /\ retried => dep.AllowWriteRetry /\ rec[r].on # None
    /\ rec' = [rec EXCEPT ![r] =
                 IF retried
                 THEN [rec[r] EXCEPT !.tried = rec[r].tried \cup {rec[r].on}, !.on = None,
                                     !.todo = rec[r].missing]
                 ELSE NoReport]
    /\ UNCHANGED <<col, stored, meta, call, broken, used>>

Step ==
    \/ \E p \in dep.callers :
         \/ \E f \in dep.tables \X Columns :
              \/ \E d \in dep.types, kind \in {"create", "update"} : Start(p, kind, f, d)
              \/ Start(p, "delete", f, None)
         \/ \E t \in dep.targets :
              \/ Attempt(p, t)
              \/ \E applied, retried \in BOOLEAN : AttemptFails(p, t, applied, retried)
         \/ NoCandidate(p)
         \/ WriteMeta(p) \/ WriteMetaFails(p)
    \/ \E r \in Reconcilers :
         \/ \E table \in dep.tables \cup {NoTable} : ReadMeta(r, table)
         \/ \E t \in dep.targets :
              \/ \E ok \in BOOLEAN : ReadTarget(r, t, ok)
              \/ PickTarget(r, t)
         \/ \E f \in Fields : Repair(r, f)
         \/ \E retried \in BOOLEAN : RepairFails(r, retried)

Next == Step /\ UNCHANGED dep

Spec == Init /\ [][Next]_vars

-----------------------------------------------------------------------------
\* A field whose last call succeeded on its own, on the one target ever used
\* for it, is the same in all three places, whatever failed or overlapped
\* before: repeating a failed create, update or delete heals it.
AgreeOrBroken ==
    \A f \in Fields \ broken, t \in Targets :
        used[f] \subseteq {t} => meta[f] = stored[t][f] /\ meta[f] = col[t][f]

\* A repair that succeeded, read its target and had the data to itself leaves no
\* definition of its table missing ("fields missing in the target are inserted",
\* service_admin.go:30).  For a whole database the promise is weaker: diffFields
\* is satisfied by a column of the same name in any table.
RepairComplete ==
    \A r \in Reconcilers :
        rec[r].pc = "done" /\ rec[r].alone /\ rec[r].from # None =>
            \A f \in Fields : rec[r].table \in {NoTable, f[1]} /\ meta[f] # None =>
                \E t \in Targets, table \in Tables :
                    /\ rec[r].table \in {NoTable, table}
                    /\ stored[t][<<table, f[2]>>] # None

Overwrites(r, f) ==
    /\ Repair(r, f)
    /\ stored[rec[r].on][f] \notin {None, rec[r].meta[f]}

\* A repair (repairMissingInTarget) overwrites a definition the target has only
\* when it could not read that target or a call wrote after it did.
OverwriteExplained ==
    [][\A r \in Reconcilers, f \in Fields :
         Overwrites(r, f) => rec[r].from # rec[r].on \/ ~rec[r].alone]_vars
=============================================================================
