----------------------------- MODULE FieldAdmin -----------------------------
(***************************************************************************)
(* The REST side of custom fields: the handlers that create, update and    *)
(* delete a field of a monitored database (internal/api/handler/           *)
(* custom_field.go), the handlers that administer the monitored databases  *)
(* (internal/api/handler/database.go, internal/monitordb/repo.go) and the  *)
(* scan that registers the columns it finds (internal/monitordb/scan.go).  *)
(*                                                                         *)
(* A handler is a sequence of SQL statements on two databases with no      *)
(* transaction around them; each statement is one action, so the calls of  *)
(* several callers interleave between any two of them.  The fields of one  *)
(* table are modelled; a row keeps the data type and the validator, which  *)
(* stands for everything a rescan must keep.                               *)
(***************************************************************************)
EXTENDS FiniteSets

CONSTANTS Ids,           \* ids of monitored databases
          Servers,       \* the databases a DSN can lead to
          MongoServers,  \* the ones of them that are MongoDB databases
          Tenants,
          ColumnNames,   \* the columns of one table
          DataTypes,
          Validators,    \* validator names a field may carry
          Registered,    \* the ones customfield.GetValidator knows
          Clients,       \* concurrent API requests
          DefaultDB,     \* pkg/monitordb.DefaultDBID
          DefaultTenant, \* the DEFAULT of custom_fields.tenant_id
          Sites,         \* deployments: their tenants, servers, validators and callers
          Nil

ASSUME FieldAdminAssumption ==
    /\ MongoServers \subseteq Servers
    /\ Registered \subseteq Validators
    /\ DefaultDB \in Ids
    /\ DefaultTenant \in Tenants
    /\ Sites \subseteq [tenants : SUBSET Tenants, servers : SUBSET Servers,
                        validators : SUBSET Validators, callers : SUBSET Clients]
    /\ Nil \notin Ids \cup Servers \cup Tenants \cup ColumnNames \cup DataTypes \cup Validators

VARIABLES site,      \* the deployment; it never changes
          mon,       \* gcfm_monitored_databases: id -> row
          spent,     \* the ids the auto-increment has handed out
          field,     \* gcfm_custom_fields: (db_id, tenant_id, column) -> row
          phys,      \* column types (SQL) or validator properties (mongo) of a server
          req,       \* the request each caller is executing
          audit,     \* the last audit entry about each column
          dirty,     \* history: the rows written since a create or scan last read them
          unaudited  \* history: columns whose last change has no entry in order

fieldVars == <<site, mon, spent, field, phys, req, audit, dirty, unaudited>>

Keys == Ids \X Tenants \X ColumnNames
\* A definition as a request gives it.
Rows(validators) == [type : DataTypes, validator : validators \cup {Nil}]
NoSchema == [k \in ColumnNames |-> Nil]
NoRows == [k \in ColumnNames |-> Nil]
NoEntry == [id |-> Nil, after |-> Nil]

NoRequest == [pc |-> "idle", op |-> Nil, tenant |-> Nil, id |-> Nil, col |-> Nil,
              row |-> Nil, dsn |-> Nil, seen |-> NoSchema, old |-> NoRows]

FieldInit ==
    /\ site \in Sites
    /\ mon = [i \in Ids |-> Nil]
    /\ spent = {}
    /\ field = [k \in Keys |-> Nil]
    /\ phys \in [Servers -> {NoSchema}]
    /\ req = [c \in Clients |-> NoRequest]
    /\ audit = [k \in ColumnNames |-> NoEntry]
    /\ dirty = [c \in Clients |-> {}]
    /\ unaudited = {}

\* Rows of custom_fields were written or removed: the earlier read of them by
\* a create or scan still in progress is out of date.
RowsWritten(keys) ==
    dirty' = [c \in Clients |-> IF req'[c].op \in {"create", "scan"} THEN dirty[c] \cup keys ELSE {}]

-----------------------------------------------------------------------------
(* Monitored databases: DatabaseHandler.create, update, delete, and the     *)
(* placeholder EnsureExists inserts when a registry file names an id.       *)

\* Repo.Create, Repo.Update and Repo.Get; Update writes dsn_enc and leaves dsn as
\* it was.
RepoCreate(t, s) == [tenant |-> t, dsn |-> s, enc |-> s]
RepoUpdate(row, s) == [row EXCEPT !.enc = s]
RepoGet(t, i) == IF mon[i] = Nil THEN Nil ELSE IF mon[i].tenant = t THEN mon[i] ELSE Nil

CreateDatabase(t, i, s) ==
    /\ i \notin spent
    /\ mon[i] = Nil
    /\ mon' = [mon EXCEPT ![i] = RepoCreate(t, s)]
    /\ spent' = spent \cup {i}
    /\ UNCHANGED <<field, phys, req, audit, dirty, unaudited>>

UpdateDatabase(t, i, s) ==
    /\ RepoGet(t, i) # Nil
    /\ mon' = [mon EXCEPT ![i] = RepoUpdate(@, s)]
    /\ UNCHANGED <<spent, field, phys, req, audit, dirty, unaudited>>

\* The foreign key of custom_fields deletes the database's rows with it.
DeleteDatabase(t, i) ==
    LET gone == {k \in Keys : k[1] = i /\ field[k] # Nil} IN
    /\ RepoGet(t, i) # Nil
    /\ mon' = [mon EXCEPT ![i] = Nil]
    /\ field' = [k \in Keys |-> IF k \in gone THEN Nil ELSE field[k]]
    /\ UNCHANGED <<spent, phys, req, audit>>
    /\ RowsWritten(gone)
    /\ unaudited' = unaudited \cup {k[3] : k \in gone}

\* An empty DSN, encrypted: neither dsn nor dsn_enc leads anywhere.
EnsureExists(t, i) ==
    /\ mon[i] = Nil
    /\ mon' = [mon EXCEPT ![i] = [tenant |-> t, dsn |-> Nil, enc |-> Nil]]
    /\ UNCHANGED <<spent, field, phys, req, audit, dirty, unaudited>>

\* Someone outside gcfm changes the schema of a SQL database.
ForeignDDL(s, k, ty) ==
    /\ s \notin MongoServers
    /\ phys[s][k] = Nil
    /\ phys' = [phys EXCEPT ![s][k] = ty]
    /\ UNCHANGED <<mon, spent, field, req, audit, dirty, unaudited>>

-----------------------------------------------------------------------------
(* What the handlers resolve a database id to.                              *)

\* The plain dsn when there is one, else the decrypted dsn_enc; None stands
\* for "not found" and for "empty DSN".
GetByID(t, i) ==
    IF mon[i] = Nil THEN Nil
    ELSE IF mon[i].tenant # t THEN Nil
    ELSE IF mon[i].dsn # Nil THEN mon[i].dsn ELSE mon[i].enc

\* Repo.Get and crypto.Decrypt: the scan always takes dsn_enc.
ScanDSN(t, i) == IF RepoGet(t, i) = Nil THEN Nil ELSE mon[i].enc

\* What getField selects of a row: the type, not the validator or the display.
Partial(row) == [type |-> row.type, validator |-> Nil]

-----------------------------------------------------------------------------
(* A request.                                                               *)

First(op) == [create |-> "lookup", update |-> "resolve", delete |-> "old", scan |-> "resolve"][op]

StartRequest(c) ==
    /\ req[c] = NoRequest
    /\ \E op \in {"create", "update", "delete", "scan"}, t \in site.tenants, i \in Ids, k \in ColumnNames,
          r \in Rows(site.validators) :
          req' = [req EXCEPT ![c] =
                     [NoRequest EXCEPT !.pc = First(op), !.op = op, !.tenant = t,
                                  !.id = IF op = "delete" THEN Nil ELSE i,
                                  !.col = IF op = "scan" THEN Nil ELSE k,
                                  !.row = IF op \in {"create", "update"} THEN r ELSE Nil]]
    /\ dirty' = [dirty EXCEPT ![c] = {}]
    /\ UNCHANGED <<mon, spent, field, phys, audit, unaudited>>

Goto(c, rec) == req' = [req EXCEPT ![c] = rec]
At(c, pc) == req[c].pc = pc
Fail(c) ==
    /\ Goto(c, NoRequest)
    /\ RowsWritten({})
    /\ UNCHANGED <<mon, spent, field, phys, audit, unaudited>>

\* existsField: the rows of the caller's tenant only.
existsField_Never(t, i, k) == FALSE  \* mutant: no check

existsField(t, i, k) == field[<<i, t, k>>] # Nil

Lookup(c) ==
    LET q == req[c] IN
    /\ At(c, "lookup")
    /\ Goto(c, IF existsField(q.tenant, q.id, q.col) THEN NoRequest ELSE [q EXCEPT !.pc = "resolve"])
    /\ dirty' = [dirty EXCEPT ![c] = {}]
    /\ UNCHANGED <<mon, spent, field, phys, audit, unaudited>>

AfterResolve(op, s) ==
    IF op = "update" THEN "old"
    ELSE IF s \in MongoServers THEN "save"
    ELSE IF op = "delete" THEN "alter" ELSE "probe"

\* GetByID (the field handlers) or Repo.Get (the scan); a scan of a MongoDB
\* database samples documents and is left out.
Resolve(c) ==
    LET q == req[c]
        s == IF q.op = "scan" THEN ScanDSN(q.tenant, q.id) ELSE GetByID(q.tenant, q.id) IN
    /\ At(c, "resolve")
    /\ IF s = Nil \/ (q.op = "scan" /\ s \in MongoServers)
       THEN Goto(c, NoRequest)
       ELSE Goto(c, [q EXCEPT !.pc = AfterResolve(q.op, s), !.dsn = s])
    /\ RowsWritten({})
    /\ UNCHANGED <<mon, spent, field, phys, audit, unaudited>>

\* getField(&dbID): the first row for this database and column, whatever its tenant.
UpdateOld(c) ==
    LET q == req[c]
        found == {t \in Tenants : field[<<q.id, t, q.col>>] # Nil} IN
    /\ At(c, "old") /\ q.op = "update"
    /\ \E t \in IF found = {} THEN {Nil} ELSE found :
          Goto(c, [q EXCEPT !.pc = IF q.dsn \in MongoServers THEN "save" ELSE "probe",
                            !.old = IF t = Nil THEN NoRows
                                    ELSE [NoRows EXCEPT ![q.col] = Partial(field[<<q.id, t, q.col>>])]])
    /\ dirty' = [dirty EXCEPT ![c] = {}]
    /\ UNCHANGED <<mon, spent, field, phys, audit, unaudited>>

\* getField(nil): the first row of any database and tenant; none: the default database.
DeleteOld(c) ==
    LET q == req[c]
        found == {k \in Keys : k[3] = q.col /\ field[k] # Nil} IN
    /\ At(c, "old") /\ q.op = "delete"
    /\ \/ /\ found = {}
          /\ Goto(c, [q EXCEPT !.pc = "resolve", !.id = DefaultDB])
       \/ \E k \in found :
             Goto(c, [q EXCEPT !.pc = "resolve", !.id = k[1],
                               !.old = [NoRows EXCEPT ![q.col] = Partial(field[k])]])
    /\ dirty' = [dirty EXCEPT ![c] = {}]
    /\ UNCHANGED <<mon, spent, field, phys, audit, unaudited>>

\* ColumnExists, or the scan of the whole schema.
Probe(c) ==
    LET q == req[c] IN
    /\ At(c, "probe")
    /\ Goto(c, [q EXCEPT !.pc = IF q.op = "scan" THEN "old" ELSE "alter", !.seen = phys[q.dsn]])
    /\ UNCHANGED <<mon, spent, field, phys, audit, dirty, unaudited>>

\* AddColumnSQL fails on a column that has appeared since, ModifyColumnSQL on
\* one that has gone; DropColumnSQL accepts both.
Alter(c) ==
    LET q == req[c]
        has == q.seen[q.col] # Nil
        now == phys[q.dsn][q.col] # Nil
        col == IF q.op = "delete" THEN Nil
               ELSE IF q.op = "create" /\ has THEN phys[q.dsn][q.col] ELSE q.row.type IN
    /\ At(c, "alter")
    /\ q.op = "delete" \/ (q.op = "create" /\ has) \/ has = now
    /\ phys' = [phys EXCEPT ![q.dsn][q.col] = col]
    /\ Goto(c, [q EXCEPT !.pc = "save", !.seen = NoSchema])
    /\ UNCHANGED <<mon, spent, field, audit, dirty, unaudited>>

-----------------------------------------------------------------------------
(* The registry write.                                                      *)

\* UpsertSQL names no tenant, so the row goes to the column's default;
\* DeleteSQL names no tenant, so the rows of every tenant go.
SaveKeys(q) ==
    IF q.op = "delete" THEN {q.id} \X Tenants \X {q.col} ELSE {<<q.id, DefaultTenant, q.col>>}

\* Another request has saved this column and not recorded it yet.
Unrecorded(c, k) == \E d \in Clients \ {c} : req[d].col = k /\ req[d].pc \in {"load", "apply", "record"}

Save(c) ==
    LET q == req[c]
        keys == SaveKeys(q)
        value == IF q.op = "delete" THEN Nil ELSE q.row
        hidden == q.op = "delete" /\ q.old[q.col] = Nil /\ \E k \in keys : field[k] # Nil IN
    /\ At(c, "save") /\ q.op # "scan"
    /\ q.op = "delete" \/ mon[q.id] # Nil
    /\ field' = [k \in Keys |-> IF k \in keys THEN value ELSE field[k]]
    /\ Goto(c, [q EXCEPT !.pc = IF q.dsn \in MongoServers THEN "load" ELSE "record"])
    /\ RowsWritten(keys)
    /\ unaudited' = unaudited \cup IF Unrecorded(c, q.col) \/ hidden THEN {q.col} ELSE {}
    /\ UNCHANGED <<mon, spent, phys, audit>>

\* Recorder.Write: an entry about the column, unless there is neither an old
\* nor a new definition (then it carries no table and column).
Record_SkipsDeletes(c) ==  \* mutant: deletes leave no entry
    LET q == req[c] IN
    /\ At(c, "record")
    /\ audit' = IF q.op = "delete" THEN audit
                ELSE [audit EXCEPT ![q.col] = [id |-> q.id, after |-> q.row]]
    /\ Goto(c, NoRequest)
    /\ RowsWritten({})
    /\ UNCHANGED <<mon, spent, field, phys, unaudited>>

Record(c) ==
    LET q == req[c] IN
    /\ At(c, "record")
    /\ audit' = IF q.op = "delete" /\ q.old[q.col] = Nil THEN audit
                ELSE [audit EXCEPT ![q.col] = [id |-> q.id, after |-> q.row]]
    /\ Goto(c, NoRequest)
    /\ RowsWritten({})
    /\ UNCHANGED <<mon, spent, field, phys, unaudited>>

\* The audit insert fails: the caller sees an error, the change stays.
RecordFails(c) ==
    /\ At(c, "record")
    /\ Goto(c, NoRequest)
    /\ RowsWritten({})
    /\ unaudited' = unaudited \cup {req[c].col}
    /\ UNCHANGED <<mon, spent, field, phys, audit>>

-----------------------------------------------------------------------------
(* syncMongoCollection: load the tenant's rows, then apply them.            *)

Load(c) ==
    LET q == req[c]
        type(k) == IF field[<<q.id, q.tenant, k>>] = Nil THEN Nil ELSE field[<<q.id, q.tenant, k>>].type IN
    /\ At(c, "load")
    /\ Goto(c, [q EXCEPT !.pc = "apply", !.seen = [k \in ColumnNames |-> type(k)]])
    /\ UNCHANGED <<mon, spent, field, phys, audit, dirty, unaudited>>

Apply(c) ==
    LET q == req[c] IN
    /\ At(c, "apply")
    /\ phys' = [phys EXCEPT ![q.dsn] = q.seen]
    /\ Goto(c, [q EXCEPT !.pc = "record", !.seen = NoSchema])
    /\ UNCHANGED <<mon, spent, field, audit, dirty, unaudited>>

\* The rows a rollback writes: create deletes what it saved, update and delete
\* put the old definition back when there was one.
RollbackRow(q) == IF q.op = "create" THEN Nil ELSE q.old[q.col]

\* Load or apply failed; the collection may or may not have been changed.  The
\* rollback itself may fail, its error is discarded.
Rollback(c) ==
    LET q == req[c]
        keys == IF q.op = "create" THEN {q.id} \X Tenants \X {q.col} ELSE {<<q.id, DefaultTenant, q.col>>}
        noop == \/ q.op # "create" /\ q.old[q.col] = Nil
                \/ q.op # "create" /\ mon[q.id] = Nil IN
    /\ q.pc \in {"load", "apply"}
    /\ phys' \in {phys} \cup IF q.pc = "apply" THEN {[phys EXCEPT ![q.dsn] = q.seen]} ELSE {}
    /\ Goto(c, NoRequest)
    /\ \/ UNCHANGED field /\ RowsWritten({})
       \/ /\ ~noop
          /\ field' = [k \in Keys |-> IF k \in keys THEN RollbackRow(q) ELSE field[k]]
          /\ RowsWritten(keys)
    /\ unaudited' = unaudited \cup {q.col}
    /\ UNCHANGED <<mon, spent, audit>>

-----------------------------------------------------------------------------
(* The scan, after its read of the schema.                                  *)

ScanLoad(c) ==
    LET q == req[c] IN
    /\ At(c, "old") /\ q.op = "scan"
    /\ Goto(c, [q EXCEPT !.pc = "save", !.old = [k \in ColumnNames |-> field[<<q.id, q.tenant, k>>]]])
    /\ dirty' = [dirty EXCEPT ![c] = {}]
    /\ UNCHANGED <<mon, spent, field, phys, audit, unaudited>>

\* mergeValidators: the scanned columns carry no validator of their own.
mergeValidators_Drops(old, k) == Nil  \* mutant: a rescan clears them

mergeValidators(old, k) == IF old[k] = Nil THEN Nil ELSE old[k].validator

\* Columns with a validator nobody registered are skipped; the others replace
\* the stored rows, display settings included.
ScanSave(c) ==
    LET q == req[c]
        kept == {k \in ColumnNames : /\ q.seen[k] # Nil
                                 /\ mergeValidators(q.old, k) \in Registered \cup {Nil}}
        keys == {q.id} \X {q.tenant} \X kept
        row(k) == [type |-> q.seen[k], validator |-> mergeValidators(q.old, k)] IN
    /\ At(c, "save") /\ q.op = "scan"
    /\ mon[q.id] # Nil
    /\ field' = [k \in Keys |-> IF k \in keys THEN row(k[3]) ELSE field[k]]
    /\ Goto(c, NoRequest)
    /\ RowsWritten(keys)
    /\ unaudited' = unaudited \cup kept
    /\ UNCHANGED <<mon, spent, phys, audit>>

\* A statement fails, the connection is lost or the client goes away: the
\* handler returns the error and undoes nothing.
Abandon(c) ==
    /\ req[c].pc \in {"resolve", "old", "probe", "alter", "save"}
    /\ Fail(c)

FieldStep ==
    \/ \E t \in site.tenants, i \in Ids :
          \/ \E s \in site.servers : CreateDatabase(t, i, s) \/ UpdateDatabase(t, i, s)
          \/ DeleteDatabase(t, i) \/ EnsureExists(t, i)
    \/ \E s \in site.servers, k \in ColumnNames, ty \in DataTypes : ForeignDDL(s, k, ty)
    \/ \E c \in site.callers :
          \/ StartRequest(c) \/ Lookup(c) \/ Resolve(c) \/ UpdateOld(c) \/ DeleteOld(c)
          \/ Probe(c) \/ Alter(c) \/ Save(c) \/ Record(c) \/ RecordFails(c)
          \/ Load(c) \/ Apply(c) \/ Rollback(c)
          \/ ScanLoad(c) \/ ScanSave(c) \/ Abandon(c)

FieldNext == FieldStep /\ UNCHANGED site

FieldSpec == FieldInit /\ [][FieldNext]_fieldVars

-----------------------------------------------------------------------------
(* Properties.                                                              *)

\* The audit log tells what the registry holds: once no request on a column is
\* between its registry write and its audit insert, the last entry's "after"
\* is the stored definition, unless a write is known to be unaudited (failed
\* insert, rolled back or overlapping request, scan, deleted database).
AuditMatches ==
    \A k \in ColumnNames \ unaudited :
        \/ audit[k] = NoEntry
        \/ \E c \in Clients : req[c].col = k /\ req[c].pc \in {"load", "apply", "record"}
        \/ field[<<audit[k].id, DefaultTenant, k>>] = audit[k].after

Cleared(k) == field[k] # Nil /\ field'[k] # Nil
              /\ field[k].validator # Nil /\ field'[k].validator # field[k].validator

\* "This prevents rescan operations from clearing validators" (scan.go:93): a
\* scan changes the validator of a row only when the row was written after the
\* scan loaded the existing definitions.
ScanKeepsLoaded ==
    [][\A c \in Clients : ScanSave(c) => \A k \in Keys : Cleared(k) => k \in dirty[c]]_fieldVars

CreateSaves(c, k) == req[c].op = "create" /\ Save(c) /\ field[k] # Nil /\ field'[k] # field[k]

\* create refuses a field that "already exists for this db/table/column": in
\* the default tenant it replaces a row only when the row was written after
\* create looked for it (existsField finds no row of another tenant).
CreateOverwriteExplained ==
    [][\A c \in Clients, k \in Keys :
          CreateSaves(c, k) /\ req[c].tenant = DefaultTenant => k \in dirty[c]]_fieldVars
=============================================================================
