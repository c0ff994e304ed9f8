----------------------------- MODULE RegistryOps ------------------------------
(***************************************************************************)
(* Operations on the registry as a whole: Apply of a YAML document         *)
(* (sdk/apply.go), snapshots and their application                         *)
(* (internal/api/handler/snapshot.go, pkg/snapshot, sdk/client,            *)
(* fieldctl revert), composed with the migrations of the tables they work  *)
(* on.                                                                     *)
(*                                                                         *)
(* One monitored database; a definition is its type.  Audit entries and    *)
(* the change notification, whose errors are ignored, are left out.        *)
(***************************************************************************)
EXTENDS SchemaMigration

CONSTANTS Tenants, DefaultTenant,  \* the tenant_id column's default
          Cols, Types,
          Bumps, Chosen,           \* automatic and explicit snapshot versions
          Documents,               \* YAML files that users apply
          MaxOps                   \* bound: calls and changes by others

VARIABLES fields,   \* custom_fields: tenant, column -> type
          columns,  \* the monitored schema: column -> type
          snaps,    \* registry_snapshots in the order of their ids; regular is history:
                    \* its version follows the one before
          ops,      \* calls and changes so far
          late      \* history: process -> what others changed since it looked

NoField == "none"
Snapshots == "snapshots"  \* stands for a tenant's snapshots in late
Yaml == [Cols -> Types \cup {NoField}]
NoYaml == [c \in Cols |-> NoField]

data == <<fields, columns, snaps, ops>>
vars == <<driver, db, call, torn, data, late>>

Init ==
    /\ MigrationInit
    /\ fields = [tc \in Tenants \X Cols |-> NoField]
    /\ columns = NoYaml
    /\ snaps = << >>
    /\ ops = 0
    /\ late = [p \in Procs |-> {}]

\* The bound on what is started.
Counted(starts) ==
    /\ starts => ops < MaxOps
    /\ ops' = IF starts THEN ops + 1 ELSE ops

HasTables == "base" \in db.parts
\* The statements that read or write whole definitions name these columns.
HasTypes == {"base", "widgetConfig", "types"} \subseteq db.parts

\* What p changes is late for everybody else who is at work.
Late(p, cells) ==
    late' = [q \in Procs |-> IF q = p \/ call[q].pc \notin {"insert", "delete", "upsert"} THEN {}
                             ELSE late[q] \cup cells]

Writes(p, after) ==
    /\ fields' = after
    /\ Late(p, {tc \in Tenants \X Cols : after[tc] # fields[tc]})

Goes(p, next) ==
    /\ call' = [call EXCEPT ![p] = next]
    /\ UNCHANGED <<driver, torn>>

Reads(p, next) ==
    /\ Goes(p, next)
    /\ Counted(call[p] = Idle)
    /\ UNCHANGED <<db, fields, columns, snaps, late>>

-----------------------------------------------------------------------------
\* Migrations take the rows with the tables.
Migrate(p) ==
    /\ MigrationStep(p)
    /\ UNCHANGED columns
    /\ Counted(call[p] = Idle)
    /\ IF "base" \in db'.parts THEN UNCHANGED <<fields, snaps, late>>
       ELSE /\ fields' = [tc \in Tenants \X Cols |-> NoField]
            /\ snaps' = << >>
            /\ Late(p, Tenants \X (Cols \cup {Snapshots}))

\* The field handlers write definitions, and clients change the schema.
EditField(tc, t) ==
    /\ HasTypes /\ Counted(TRUE)
    /\ fields[tc] # t
    /\ fields' = [fields EXCEPT ![tc] = t]
    /\ Late("edit", {tc})
    /\ UNCHANGED <<driver, db, call, torn, columns, snaps>>

EditColumn(c, t) ==
    /\ Counted(TRUE)
    /\ columns[c] # t
    /\ columns' = [columns EXCEPT ![c] = t]
    /\ UNCHANGED <<driver, db, call, torn, fields, snaps, late>>

-----------------------------------------------------------------------------
\* A definition has a type and a kind.  Scan always guesses a kind, YAML has none.
Scanned == [c \in Cols |-> IF columns[c] = NoField THEN NoField ELSE <<columns[c], "guessed">>]
EncodeYAML(metas) == [c \in Cols |-> IF metas[c] = NoField THEN NoField ELSE metas[c][1]]
DecodeYAML(yaml) == [c \in Cols |-> IF yaml[c] = NoField THEN NoField ELSE <<yaml[c], "">>]

\* The HTTP handler exports the tenant's definitions; an empty registry is
\* refused.  The local client exports the schema of the database instead.
ExportRegistry(t) == [c \in Cols |-> fields[<<t, c>>]]

CreateHTTP(p, t) ==
    /\ call[p] = Idle
    /\ HasTables /\ ExportRegistry(t) # NoYaml
    /\ Reads(p, [pc |-> "latest", tenant |-> t, yaml |-> ExportRegistry(t)])

CreateLocal(p, t) ==
    /\ call[p] = Idle
    /\ Reads(p, [pc |-> "latest", tenant |-> t, yaml |-> EncodeYAML(Scanned)])

OfTenant(t) == SelectSeq(snaps, LAMBDA s : s.tenant = t)

\* Mutant: the first snapshot's version instead of the last one's.
LatestSemver_Oldest(t) ==
    IF OfTenant(t) = << >> THEN <<0, 0, 0>> ELSE Head(OfTenant(t)).semver

LatestSemver(t) ==
    IF OfTenant(t) = << >> THEN <<0, 0, 0>> ELSE Last(OfTenant(t)).semver

NextSemver(v, bump) ==
    CASE bump = "major" -> <<v[1] + 1, 0, 0>>
      [] bump = "minor" -> <<v[1], v[2] + 1, 0>>
      [] bump = "patch" -> <<v[1], v[2], v[3] + 1>>

\* The version: the one the request names, or the next.
Version(p) ==
    /\ call[p].pc = "latest"
    /\ LET q == call[p]
           next(v, own) == [pc |-> "insert", tenant |-> q.tenant, yaml |-> q.yaml, semver |-> v, own |-> own]
       IN  IF ~HasTables THEN Reads(p, Idle)
           ELSE \/ \E bump \in Bumps : Reads(p, next(NextSemver(LatestSemver(q.tenant), bump), FALSE))
                \/ \E v \in Chosen : Reads(p, next(v, TRUE))

\* UNIQUE (tenant_id, semver).
Taken(t, v) == \E i \in DOMAIN snaps : snaps[i].tenant = t /\ snaps[i].semver = v

Insert(p) ==
    /\ call[p].pc = "insert"
    /\ HasTables /\ ~Taken(call[p].tenant, call[p].semver)
    /\ snaps' = Append(snaps, [tenant |-> call[p].tenant, semver |-> call[p].semver,
                               yaml |-> call[p].yaml,
                               regular |-> ~call[p].own /\ late[p] = {}])
    /\ Goes(p, Idle)
    /\ Late(p, {<<call[p].tenant, Snapshots>>})
    /\ UNCHANGED <<db, fields, columns, ops>>

InsertFails(p) ==
    /\ call[p].pc = "insert"
    /\ Reads(p, Idle)

Duplicate(p) == InsertFails(p) /\ Taken(call[p].tenant, call[p].semver)

-----------------------------------------------------------------------------
\* Apply of a file, or of a snapshot: Get and Decode.  Documents written by this
\* version carry the header 0.3, which is schema version 1.  A header of 0 is none.
SnapshotHeader == 1

ApplyFile(p, doc, dryRun) ==
    /\ call[p] = Idle
    /\ Reads(p, [pc |-> "version", yaml |-> doc.yaml, header |-> doc.header, dryRun |-> dryRun])

\* fieldctl revert and the local client.
Revert(p, s) ==
    /\ call[p] = Idle
    /\ Reads(p, [pc |-> "version", yaml |-> s.yaml, header |-> SnapshotHeader, dryRun |-> FALSE])

\* The HTTP handler loads the current definitions first, to report the difference.
ApplySnapshot(p, s) ==
    /\ HasTypes
    /\ Revert(p, s)

\* A document with a newer header than the schema's version is refused.
CheckVersion(p) ==
    /\ call[p].pc = "version" /\ Unlocked(p)
    /\ IF call[p].header = 0
       THEN /\ Goes(p, [call[p] EXCEPT !.pc = "scan"])
            /\ UNCHANGED db
       ELSE /\ db' = ensureVersionTable(db)
            /\ Goes(p, IF Current < call[p].header THEN Idle ELSE [call[p] EXCEPT !.pc = "scan"])
    /\ UNCHANGED <<data, late>>

\* registry.Diff.  reflect.DeepEqual tells scanned and decoded definitions apart,
\* even when their types agree.
DiffType(a, b, c) ==
    CASE a[c] = NoField /\ b[c] = NoField -> "absent"
      [] a[c] = NoField -> "added"
      [] b[c] = NoField -> "deleted"
      [] a[c] = b[c] -> "unchanged"
      [] OTHER -> "updated"

\* Mutant: only new definitions are written.
upserts_AddedOnly(a, b) == {c \in Cols : DiffType(a, b, c) = "added"}

upserts(a, b) == {c \in Cols : DiffType(a, b, c) \in {"added", "updated"}}
dels(a, b) == {c \in Cols : DiffType(a, b, c) = "deleted"}

\* Scan reads the database's schema, not the registry.
ScanAndDiff(p) ==
    /\ call[p].pc = "scan"
    /\ LET a == Scanned
           b == DecodeYAML(call[p].yaml)
       IN  Goes(p, IF call[p].dryRun THEN Idle
                   ELSE [pc |-> "delete", yaml |-> call[p].yaml, scan |-> columns,
                         ups |-> upserts(a, b), dels |-> dels(a, b)])
    /\ late' = [late EXCEPT ![p] = {}]
    /\ UNCHANGED <<db, data>>

\* ensureMonitoredDBsExist and DeleteSQL: whichever tenant's row it is.
Delete(p) ==
    /\ call[p].pc = "delete" /\ HasTables
    /\ Writes(p, [tc \in Tenants \X Cols |-> IF tc[2] \in call[p].dels THEN NoField ELSE fields[tc]])
    /\ Goes(p, [call[p] EXCEPT !.pc = "upsert"])
    /\ UNCHANGED <<db, columns, snaps, ops>>

\* UpsertSQL names no tenant: the rows are the default tenant's.
Upsert(p) ==
    /\ call[p].pc = "upsert"
    /\ HasTypes \/ call[p].ups = {}
    /\ Writes(p, [tc \in Tenants \X Cols |->
                    IF tc[1] = DefaultTenant /\ tc[2] \in call[p].ups THEN call[p].yaml[tc[2]]
                    ELSE fields[tc]])
    /\ Goes(p, Idle)
    /\ UNCHANGED <<db, columns, snaps, ops>>

\* Any step may fail, for want of a table or column or otherwise.
ApplyFails(p) ==
    /\ call[p].pc \in {"version", "scan", "delete", "upsert"}
    /\ Reads(p, Idle)

Next ==
    \/ \E p \in Procs :
        \/ Migrate(p)
        \/ \E t \in Tenants : CreateHTTP(p, t) \/ CreateLocal(p, t)
        \/ Version(p) \/ Insert(p) \/ InsertFails(p)
        \/ \E doc \in Documents, dryRun \in BOOLEAN : ApplyFile(p, doc, dryRun)
        \/ \E i \in DOMAIN snaps : ApplySnapshot(p, snaps[i]) \/ Revert(p, snaps[i])
        \/ CheckVersion(p) \/ ScanAndDiff(p) \/ Delete(p) \/ Upsert(p) \/ ApplyFails(p)
    \/ \E tc \in Tenants \X Cols, t \in Types \cup {NoField} : EditField(tc, t)
    \/ \E c \in Cols, t \in Types \cup {NoField} : EditColumn(c, t)

Spec == Init /\ [][Next]_vars

-----------------------------------------------------------------------------
\* Creating a snapshot without naming its version fails on a duplicate only if
\* the tenant's snapshots changed since the latest version was read, or if one of
\* them was created that way or under a version its creator named: such a snapshot
\* is the latest by its id and not by its version.
DuplicateExplained ==
    [][\A p \in Procs : Duplicate(p) /\ ~call[p].own =>
         \/ <<call[p].tenant, Snapshots>> \in late[p]
         \/ \E i \in DOMAIN snaps : snaps[i].tenant = call[p].tenant /\ ~snaps[i].regular]_vars

\* An Apply that succeeds leaves the default tenant with the document's
\* definitions.  It has others as well only where the scan saw no such column in
\* the database, or if they were written between its two transactions.
ApplyLeaves ==
    [][\A p \in Procs : Upsert(p) =>
         \A c \in Cols : fields'[<<DefaultTenant, c>>] # call[p].yaml[c] =>
             /\ call[p].yaml[c] = NoField
             /\ call[p].scan[c] = NoField \/ <<DefaultTenant, c>> \in late[p]]_vars
=============================================================================
