----------------------------- MODULE TargetAdmin -----------------------------
(***************************************************************************)
(* The admin API for targets (internal/adminapi/targets/routes.go) on the  *)
(* meta store.                                                             *)
(*                                                                         *)
(* Every handler first calls ListTargets, whose queries run one after the  *)
(* other outside any transaction: the rows, then the version (the default  *)
(* key, read last, is used by no handler modelled here).  It answers 404   *)
(* or 412 from what it read and otherwise writes in a transaction of its   *)
(* own.  Other requests run between any two of these steps.  Requests that *)
(* fail validation (400) and reads (list, get, version) change nothing and *)
(* are left out; what a read can return is the subject of TargetWatcher.   *)
(***************************************************************************)
EXTENDS TargetStore

CONSTANTS Procs,    \* requests in flight
          Keep,     \* a field a PATCH does not mention
          NoMatch   \* no If-Match header

ASSUME AdminAssumption ==
    /\ Keep \notin Dsns \cup LabelSets
    /\ NoMatch \notin Nat

VARIABLES req,   \* the request of each process
          stage, \* "idle", "version" (rows read) or "tx" (checks passed)
          view   \* the row its handler found

adminVars == <<rows, version, req, stage, view>>

\* key is the key in the path; body the one in the body of a PUT.
Requests ==
    [kind : {"del", "setDefault"}, key : Keys]
    \cup [kind : {"bump"}, key : {NoKey}]
    \cup [kind : {"patch"}, key : Keys, dsn : Dsns \cup {Keep}, labels : LabelSets \cup {Keep}]
    \cup [kind : {"create", "put"}, key : Keys, body : Keys, dsn : Dsns,
          labels : LabelSets, isDefault : BOOLEAN]

NoRequest == [kind |-> "none", key |-> NoKey]

AdminInit ==
    /\ StoreInit
    /\ req = [p \in Procs |-> [r |-> NoRequest, ifMatch |-> NoMatch]]
    /\ stage = [p \in Procs |-> "idle"]
    /\ view = [p \in Procs |-> NoRow]

Answer(p) ==
    /\ stage' = [stage EXCEPT ![p] = "idle"]
    /\ req' = [req EXCEPT ![p] = [r |-> NoRequest, ifMatch |-> NoMatch]]
    /\ view' = [view EXCEPT ![p] = NoRow]

\* A request arrives and the first query of ListTargets runs: find keeps the
\* row of the key in the path.  (A request that comes after the last version of
\* the bound could not commit.)
ReadRows(p, r, ifMatch) ==
    /\ stage[p] = "idle" /\ version < MaxVersion
    /\ r.kind = "create" => r.body = r.key
    /\ req' = [req EXCEPT ![p] = [r |-> r, ifMatch |-> ifMatch]]
    /\ view' = [view EXCEPT ![p] = IF r.key = NoKey THEN NoRow ELSE rows[r.key]]
    /\ stage' = [stage EXCEPT ![p] = "version"]
    /\ UNCHANGED <<rows, version>>

\* checkIfMatch: an absent header matches everything.
checkIfMatch(ifMatch, current) == ifMatch \in {NoMatch, current}

NotFound(p) ==
    /\ req[p].r.kind \in {"patch", "del", "setDefault"}
    /\ view[p] = NoRow

\* The second query, and the handler's checks of what both returned.
ReadVersion(p) ==
    /\ stage[p] = "version"
    /\ IF NotFound(p)
       THEN Answer(p)
       ELSE IF checkIfMatch(req[p].ifMatch, version)
       THEN stage' = [stage EXCEPT ![p] = "tx"] /\ UNCHANGED <<req, view>>
       ELSE Answer(p)
    /\ UNCHANGED <<rows, version>>

\* A transaction fails and is rolled back: 409 when the unique index refused a
\* statement, 500 when the database failed or the request was cancelled.
Abort(p) ==
    /\ stage[p] = "tx"
    /\ Answer(p)
    /\ UNCHANGED <<rows, version>>

\* A transaction turns the rows into rs, bumps the version and commits.
CommitTx(p, rs) ==
    /\ stage[p] = "tx"
    /\ rows' = rs
    /\ BumpTargetsVersion
    /\ Answer(p)

\* Mutant: the default flag of the body is used even for an existing row.
isDefaultOf_Body(p) == req[p].r.isDefault

\* PUT keeps the default flag of the row it found; POST takes it from the body.
isDefaultOf(p) ==
    IF req[p].r.kind = "put" /\ view[p] # NoRow
    THEN view[p].isDefault ELSE req[p].r.isDefault

\* createOrUpsert of POST and PUT: the row is written, flag included, before
\* the other defaults are cleared.
createOrUpsert(p) ==
    LET r == req[p].r
        row == [dsn |-> r.dsn, labels |-> r.labels, isDefault |-> isDefaultOf(p)]
        upserted == UpsertTarget(rows, r.body, row)
    IN  /\ stage[p] = "tx" /\ r.kind \in {"create", "put"}
        /\ OneDefault(upserted)
        /\ CommitTx(p, IF row.isDefault THEN SetDefaultTarget(upserted, r.body) ELSE upserted)

\* Mutant: a PATCH that does not mention the labels clears them.
patched_NoLabels(r, row) ==
    [row EXCEPT !.dsn = IF r.dsn = Keep THEN @ ELSE r.dsn,
                !.labels = IF r.labels = Keep THEN CHOOSE s \in LabelSets : TRUE ELSE r.labels]

patched(r, row) ==
    [row EXCEPT !.dsn = IF r.dsn = Keep THEN @ ELSE r.dsn,
                !.labels = IF r.labels = Keep THEN @ ELSE r.labels]

patch(p) ==
    LET r == req[p].r
        upserted == UpsertTarget(rows, r.key, patched(r, view[p]))
    IN  /\ stage[p] = "tx" /\ r.kind = "patch"
        /\ OneDefault(upserted)
        /\ CommitTx(p, upserted)

del(p) == req[p].r.kind = "del" /\ CommitTx(p, DeleteTarget(rows, req[p].r.key))

setDefault(p) ==
    req[p].r.kind = "setDefault" /\ CommitTx(p, SetDefaultTarget(rows, req[p].r.key))

bumpVersion(p) == req[p].r.kind = "bump" /\ CommitTx(p, rows)

AdminNext ==
    \E p \in Procs :
        \/ \E r \in Requests, ifMatch \in {NoMatch, version} : ReadRows(p, r, ifMatch)
        \/ ReadVersion(p)
        \/ createOrUpsert(p) \/ patch(p) \/ del(p) \/ setDefault(p) \/ bumpVersion(p)
        \/ Abort(p)

AdminSpec == AdminInit /\ [][AdminNext]_adminVars

-----------------------------------------------------------------------------
\* The row a handler works from is still the one in the table.
StillThere(p) == view[p] = rows[req[p].r.key]
Writes(p) == createOrUpsert(p) \/ patch(p) \/ del(p) \/ setDefault(p) \/ bumpVersion(p)

\* A PUT or PATCH that nobody overtook changes nothing it does not name: the
\* default flag (in.Body.IsDefault = existing.IsDefault), the fields a PATCH
\* leaves out, every other row.
FreshWriteKeepsRest ==
    [][\A p \in Procs :
         LET r == req[p].r IN
         r.kind \in {"put", "patch"} /\ view[p] # NoRow /\ StillThere(p) /\ Writes(p) =>
            /\ r.kind = "patch" \/ r.body = r.key =>
                  /\ rows'[r.key].isDefault = rows[r.key].isDefault
                  /\ r.dsn = Keep => rows'[r.key].dsn = rows[r.key].dsn
                  /\ r.labels = Keep => rows'[r.key].labels = rows[r.key].labels
            /\ \A k \in Keys :
                  k \notin {r.key, IF r.kind = "put" THEN r.body ELSE r.key}
                  => rows'[k] = rows[k]]_adminVars

\* The table never holds two defaults, and a step that leaves it without the
\* default it had is a DELETE, a POST or PUT that wrote another row's flag, or
\* a request that was overtaken since it read its row (setDefault of a deleted
\* target, a PATCH that writes back a flag another request moved).
DefaultLost == Defaults(rows) # {} /\ Defaults(rows') = {}
DefaultLossExplained ==
    [][/\ OneDefault(rows')
       /\ DefaultLost =>
             \E p \in Procs :
                /\ Writes(p)
                /\ \/ req[p].r.kind \in {"del", "create"}
                   \/ req[p].r.kind = "put" /\ req[p].r.body # req[p].r.key
                   \/ ~StillThere(p)]_adminVars

\* A write whose If-Match header names the version in force replaces the row its
\* handler has read: a request that came between the two queries of ListTargets,
\* or that only touched the row, shows in the version.  checkIfMatch promises no
\* more: it runs before the transaction, and a write that another one overtook
\* after the check commits on a version its header does not name.
IfMatchProtects ==
    [][\A p \in Procs :
         req[p].ifMatch = version /\ req[p].r.key # NoKey /\ Writes(p) => StillThere(p)]_adminVars
=============================================================================
