--------------------------- MODULE SchemaMigration ----------------------------
(***************************************************************************)
(* The registry's schema migrations: pkg/migrator, driven by               *)
(* sdk.MigrateRegistry or directly.                                        *)
(*                                                                         *)
(* The scripts are embedded SQL; a statement is what it creates or drops,  *)
(* what it needs to be there and whether it fails when its object exists   *)
(* already (no IF NOT EXISTS).  Consecutive statements that behave alike   *)
(* are one.  Objects:                                                      *)
(*   "base"          the tables of 0001 other than widgets                 *)
(*   "auditIndex"    idx_gcfm_audit_tenant_time, and in MySQL the unique   *)
(*                   index on the default target                           *)
(*   "versionTable"  gcfm_registry_schema_version                          *)
(*   "widgets", "widgetIndexes"                                            *)
(*   "widgetConfig"  the column 0001 adds to custom_fields                 *)
(*   "types"         the columns 0002 adds to custom_fields                *)
(*                                                                         *)
(* PostgreSQL runs a script in one transaction; its locks make overlapping *)
(* scripts wait for each other.  MySQL commits before and after every DDL  *)
(* statement, so that only an INSERT is ever rolled back.                  *)
(***************************************************************************)
EXTENDS Integers, FiniteSets, SequencesExt

CONSTANTS Procs,     \* processes that call the SDK or fieldctl
          Drivers    \* subset of {"postgres", "mysql"}

VARIABLES driver,    \* of the registry's database
          db,        \* objects and version rows
          call,      \* process -> where its call is
          torn       \* history: in MySQL, a script was abandoned half-way or
                     \* mixed with another

Latest == 2
Idle == [pc |-> "idle"]

Create(parts, on, strict) == [do |-> "create", parts |-> parts, on |-> on, strict |-> strict]
Drop(parts, on) == [do |-> "drop", parts |-> parts, on |-> on, strict |-> FALSE]
InsertVersion(v) == [do |-> "insert", parts |-> {}, on |-> {"versionTable"}, strict |-> FALSE, version |-> v]

UpSQL(v) ==
    IF v = 1
    THEN << Create({"base", "versionTable"}, {}, FALSE),
            Create({"auditIndex"}, {"base"}, TRUE),
            InsertVersion(1),
            Create({"widgets"}, {}, FALSE),
            Create({"widgetIndexes"}, {"widgets"}, driver = "mysql"),
            Create({"widgetConfig"}, {"base"}, TRUE) >>
    ELSE << Create({"types"}, {"base"}, FALSE) >>

\* Mutant: the version rows outlive the schema.
DownSQL_KeepsVersion(v) ==
    IF v = 1
    THEN << Drop({"base", "auditIndex", "widgetConfig", "types"}, {}),
            Drop({"widgets", "widgetIndexes"}, {}) >>
    ELSE << Drop({"types"}, {"base"}) >>

DownSQL(v) ==
    IF v = 1
    THEN << Drop({"base", "auditIndex", "widgetConfig", "types"}, {}),
            Drop({"versionTable"}, {}),
            Drop({"widgets", "widgetIndexes"}, {}) >>
    ELSE << Drop({"types"}, {"base"}) >>

PartsOf(v) == UNION {UNION {s.parts : s \in ToSet(UpSQL(w))} : w \in 1..v}

Refused(d, s) ==
    \/ ~(s.on \subseteq d.parts)
    \/ s.strict /\ s.parts \cap d.parts # {}
    \/ s.do = "insert" /\ s.version \in d.versions

After(d, s) ==
    CASE s.do = "create" -> [d EXCEPT !.parts = @ \cup s.parts]
      [] s.do = "insert" -> [d EXCEPT !.versions = @ \cup {s.version}]
      [] s.do = "drop" -> [parts |-> d.parts \ s.parts,
                           versions |-> IF "versionTable" \in s.parts THEN {} ELSE d.versions]

Failed == [parts |-> {"failed"}, versions |-> {}]

\* execAll in a transaction: the database after it, or Failed.
execAll(d, script) ==
    FoldLeft(LAMBDA e, s : IF e = Failed \/ Refused(e, s) THEN Failed ELSE After(e, s), d, script)

\* ensureVersionTable, the first thing Current does.
ensureVersionTable(d) == [parts |-> d.parts \cup {"versionTable"}, versions |-> d.versions \cup {0}]

MaxVersion(d) == CHOOSE v \in d.versions : \A w \in d.versions : w <= v
Current == MaxVersion(ensureVersionTable(db))

Empty == [parts |-> {}, versions |-> {}]
Migrated == [parts |-> PartsOf(Latest), versions |-> {0, 1}]

MigrationInit ==
    /\ driver \in Drivers
    /\ db \in {Empty, Migrated}
    /\ call = [p \in Procs |-> Idle]
    /\ torn = FALSE

Return(p) == call' = [call EXCEPT ![p] = Idle]
Running(q) == call[q].pc = "run"

\* MySQL: an inserted version row that is not committed locks the version table.
Unlocked(p) == \A q \in Procs \ {p} : Running(q) => call[q].pend = {}

-----------------------------------------------------------------------------
\* MigrateRegistry reads the version and decides.  Target 0 is the latest.
TargetOf(target) == IF target = 0 THEN Latest ELSE target

MigrateRegistry(p, target) ==
    /\ call[p] = Idle /\ Unlocked(p)
    /\ db' = ensureVersionTable(db)
    /\ call' = [call EXCEPT ![p] = [target |-> TargetOf(target),
                                   pc |-> CASE TargetOf(target) > Current -> "up"
                                            [] TargetOf(target) < Current -> "down"
                                            [] OTHER -> "upToDate"]]
    /\ UNCHANGED <<driver, torn>>

UpToDate(p) ==
    /\ call[p].pc = "upToDate"
    /\ Return(p)
    /\ UNCHANGED <<driver, db, torn>>

\* Migrator.Down called directly; MigrateRegistry cannot ask for version 0.
CallDown(p, target) ==
    /\ call[p] = Idle
    /\ call' = [call EXCEPT ![p] = [pc |-> "down", target |-> target]]
    /\ UNCHANGED <<driver, db, torn>>

\* Mutant: all migrations up to the target.
upScript_FromStart(cur, target) == FlattenSeq([i \in 1..target |-> UpSQL(i)])

upScript(cur, target) == FlattenSeq([i \in 1..target - cur |-> UpSQL(cur + i)])
downScript(cur, target) == FlattenSeq([i \in 1..cur - target |-> DownSQL(cur + 1 - i)])

\* Up and Down read the version again and begin their transaction.
Begin(p) ==
    /\ call[p].pc \in {"up", "down"} /\ Unlocked(p)
    /\ db' = ensureVersionTable(db)
    /\ LET t == call[p].target
           up == call[p].pc = "up"
       IN  IF (up /\ Current >= t) \/ (~up /\ t >= Current)
           THEN Return(p)
           ELSE call' = [call EXCEPT ![p] =
                    [pc |-> "run", target |-> t, pend |-> {}, dirty |-> FALSE, base |-> db',
                     todo |-> IF up THEN upScript(Current, t) ELSE downScript(Current, t)]]
    /\ UNCHANGED <<driver, torn>>

\* PostgreSQL: all statements or none.
CommitTx(p) ==
    /\ driver = "postgres" /\ Running(p)
    /\ execAll(db, call[p].todo) # Failed
    /\ db' = execAll(db, call[p].todo)
    /\ Return(p)
    /\ UNCHANGED <<driver, torn>>

\* MySQL: one statement.  DDL commits a version row inserted before it.
RunStmt(p) ==
    /\ driver = "mysql" /\ Running(p)
    /\ LET s == Head(call[p].todo)
           rest == Tail(call[p].todo)
       IN  /\ ~Refused(db, s)
           /\ s.do = "insert" \/ "versionTable" \in s.parts => Unlocked(p)
           /\ db' = IF s.do = "insert" THEN db
                    ELSE After([db EXCEPT !.versions = @ \cup call[p].pend], s)
           /\ call' = [call EXCEPT ![p] =
                  IF rest = << >> THEN Idle
                  ELSE [@ EXCEPT !.todo = rest, !.base = db', !.dirty = @ \/ db' # db,
                                 !.pend = IF s.do = "insert" THEN {s.version} ELSE {}]]
    /\ torn' = (torn \/ db # call[p].base)
    /\ UNCHANGED driver

\* A statement is refused, ...
RefusedNow(p) ==
    IF driver = "postgres" THEN execAll(db, call[p].todo) = Failed
    ELSE Refused(db, Head(call[p].todo))

Refuse(p) ==
    /\ Running(p) /\ RefusedNow(p)
    /\ Return(p)
    /\ torn' = (torn \/ call[p].dirty)
    /\ UNCHANGED <<driver, db>>

\* ... or fails for another reason, or the process dies.
Abort(p) ==
    /\ Running(p)
    /\ Return(p)
    /\ torn' = (torn \/ call[p].dirty)
    /\ UNCHANGED <<driver, db>>

MigrationStep(p) ==
    \/ \E t \in 0..Latest : MigrateRegistry(p, t)
    \/ UpToDate(p)
    \/ \E t \in 0..1 : CallDown(p, t)
    \/ Begin(p) \/ CommitTx(p) \/ RunStmt(p) \/ Refuse(p) \/ Abort(p)

-----------------------------------------------------------------------------
\* A version row stands for a complete schema: whoever reads version 1 finds
\* everything 0001 creates.  In MySQL it may not, once a script was torn or while
\* one is under way.
VersionBacked ==
    1 \in db.versions /\ ~torn /\ (\A p \in Procs : Running(p) => ~call[p].dirty) =>
        PartsOf(1) \subseteq db.parts

\* A script is refused only because of another one: it ran since this one read
\* the version, is under way, or was torn.  A migrator that runs alone, whatever
\* was migrated before, is never refused.
RefusalExplained ==
    [][\A p \in Procs : Refuse(p) =>
         \/ torn \/ db # call[p].base
         \/ \E q \in Procs \ {p} : Running(q) /\ call[q].dirty]_<<driver, db, call, torn>>

\* sdk/migrate.go: "MigrateRegistry upgrades or downgrades the registry schema to
\* the target version."  The call has succeeded: the schema is that version's.
MigrateReachesTarget ==
    [][\A p \in Procs : UpToDate(p) \/ CommitTx(p) =>
         db'.parts \ {"versionTable"} = PartsOf(call[p].target) \ {"versionTable"}]_<<driver, db, call, torn>>
=============================================================================
