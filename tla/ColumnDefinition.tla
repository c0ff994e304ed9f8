-------------------------- MODULE ColumnDefinition --------------------------
(***************************************************************************)
(* One column of a monitored SQL database and its row in the registry:     *)
(* what create, update and delete of internal/api/handler/custom_field.go  *)
(* make of the requested type, default, nullability and uniqueness, and    *)
(* the statements pkg/registry/schema.go builds for it.  Concurrent calls  *)
(* are FieldAdmin's subject; here they come one after the other.           *)
(*                                                                         *)
(* A default is none, an expression (by name) or a literal: what of a date *)
(* and time it says, and how often it is quoted.                           *)
(***************************************************************************)
EXTENDS Naturals, FiniteSets, FiniteSetsExt

CONSTANTS Bodies,     \* requested definitions
          NotGiven,   \* a part a body leaves out
          MaxQuotes, MaxUniques  \* bounds: of a literal, of a column's constraints

VARIABLES sqlDriver,
          column,    \* the column of the monitored database
          meta,      \* the row of custom_fields
          adopted,   \* history: the row was created for a column that was there
          stopped,   \* history: the last call failed between two statements
          resaved    \* history: a default was sent back as it had been read

columnVars == <<sqlDriver, column, meta, adopted, stopped, resaved>>

Moments == {"CURRENT_TIMESTAMP", "NOW()"}
SQLExpressions == Moments \cup {"CURRENT_DATE", "CURRENT_TIME", "CURDATE()"}
Literal(date, time) == [expr |-> "", date |-> date, time |-> time, quotes |-> 0]
Expr(e) == [Literal(FALSE, FALSE) EXCEPT !.expr = e]
Blank == Expr("blank")
NoDefault == [mode |-> "none", raw |-> Blank, on |-> FALSE]

-----------------------------------------------------------------------------
\* Of the three ways to give a default the first one counts.
unifyDefault(b) ==
    IF b.nested # NotGiven THEN b.nested
    ELSE IF b.flat # NotGiven
    THEN [b.flat EXCEPT !.mode = IF @ = NotGiven THEN "none" ELSE @]
    ELSE IF b.value # NotGiven
    THEN [mode |-> IF b.value.expr \in SQLExpressions THEN "expression" ELSE "literal",
          raw |-> b.value, on |-> FALSE]
    ELSE NoDefault

isDateTimeLike(type) == type \in {"timestamp", "date", "time"}
isMySQLDefaultForbidden(type) == type = "text"

upper(raw) == IF raw.expr = "CURDATE()" THEN "CURRENT_DATE" ELSE raw.expr

isAllowedMySQLExpr(expr, type) ==
    /\ isDateTimeLike(type) \/ expr \in {"CURRENT_DATE", "CURRENT_TIME"}
    /\ expr \in SQLExpressions \ {"CURDATE()"}
isAllowedPGExpr(expr) == expr \in SQLExpressions \ {"CURDATE()"}

\* The default of a date or time column is reduced to what the column holds, or
\* dropped.
normalizeExpr(type, d) ==
    LET expr == upper(d.raw)
        only(e) == IF expr \in Moments \cup {e} THEN [d EXCEPT !.raw = Expr(e), !.on = FALSE]
                   ELSE NoDefault
    IN  CASE type = "timestamp" ->
                IF sqlDriver = "mysql" /\ ~isAllowedMySQLExpr(expr, type) THEN NoDefault ELSE d
          [] type = "date" -> only("CURRENT_DATE")
          [] type = "time" -> only("CURRENT_TIME")
          [] OTHER -> IF sqlDriver = "mysql" THEN NoDefault ELSE d

parseAsDateTime(raw) == raw.quotes = 0 /\ (raw.date \/ raw.time)

normalizeLiteral(type, d) ==
    IF d.raw = Blank \/ type \notin {"date", "time"} THEN d
    ELSE IF ~parseAsDateTime(d.raw) THEN d
    ELSE [d EXCEPT !.raw = Literal(type = "date", type = "time"), !.on = FALSE]

NormalizeDefaultForType(type, d) ==
    LET n == IF d.mode = "expression" THEN normalizeExpr(type, d)
             ELSE IF d.mode = "literal" THEN normalizeLiteral(type, d) ELSE d
    IN  IF sqlDriver = "mysql" /\ type # "timestamp" THEN [n EXCEPT !.on = FALSE] ELSE n

\* The clause to execute, which is also the value to store.
Refused == [ok |-> FALSE, has |-> FALSE, norm |-> Blank, on |-> FALSE]
NoClause == [Refused EXCEPT !.ok = TRUE]
Clause(norm, on) == [ok |-> TRUE, has |-> TRUE, norm |-> norm, on |-> on]

BuildDefaultClauses(type, d) ==
    LET quoted == [d.raw EXCEPT !.quotes = @ + 1]
    IN  IF d.mode = "none" \/ d.raw = Blank THEN NoClause
        ELSE IF sqlDriver = "mysql"
        THEN IF isMySQLDefaultForbidden(type) THEN Refused
             ELSE IF d.mode = "literal" THEN Clause(quoted, FALSE)
             ELSE IF ~isAllowedMySQLExpr(upper(d.raw), type) THEN Refused
             ELSE Clause(Expr(upper(d.raw)), d.on /\ type = "timestamp")
        ELSE IF d.mode = "literal" THEN Clause(quoted, FALSE)
             ELSE IF isAllowedPGExpr(d.raw.expr) THEN Clause(d.raw, FALSE) ELSE Refused

-----------------------------------------------------------------------------
Given(b) == {p \in {"nullable", "unique"} : b[p] # NotGiven}

\* Mutant: the row says what was asked for.
metaOf_AsGiven(b) ==
    LET d == unifyDefault(b)
    IN  [type |-> b.type, has |-> d.mode # "none", default |-> d.raw,
         nullable |-> b.nullable = TRUE, unique |-> b.unique = TRUE,
         given |-> Given(b)]

\* The row create and update write; given (history) is what the body said.
metaOf(b) ==
    LET c == BuildDefaultClauses(b.type, NormalizeDefaultForType(b.type, unifyDefault(b)))
    IN  [type |-> b.type, has |-> c.has,
         default |-> IF c.has THEN c.norm ELSE unifyDefault(b).raw,
         nullable |-> b.nullable = TRUE, unique |-> b.unique = TRUE,
         given |-> Given(b)]

\* AddColumnSQL and ModifyColumnSQL normalise once more what create and update
\* have normalised.
clauseOf(b) ==
    LET d == NormalizeDefaultForType(b.type, unifyDefault(b))
    IN  BuildDefaultClauses(b.type, NormalizeDefaultForType(b.type, d))

Accepted(b) ==
    BuildDefaultClauses(b.type, NormalizeDefaultForType(b.type, unifyDefault(b))).ok

NoColumn == [exists |-> FALSE]

\* AddColumnSQL; uniques are the numbers of the constraints <table>_<column>_key.
AddColumn(b) ==
    [exists |-> TRUE, type |-> b.type, has |-> clauseOf(b).has, default |-> clauseOf(b).norm,
     on |-> clauseOf(b).on, nullable |-> b.nullable # FALSE, uniques |-> {}]

\* MODIFY states the column anew; ALTER COLUMN sets what is given.
ModifyColumn(b) ==
    IF sqlDriver = "mysql" THEN [AddColumn(b) EXCEPT !.uniques = column.uniques]
    ELSE [column EXCEPT !.type = b.type,
                        !.nullable = IF b.nullable = NotGiven THEN @ ELSE b.nullable,
                        !.has = @ \/ clauseOf(b).has,
                        !.default = IF clauseOf(b).has THEN clauseOf(b).norm ELSE @]

\* PostgreSQL names a second constraint _key1 and so on; MySQL refuses a second
\* index of the name.
SetUnique(c, unique) ==
    IF unique = TRUE
    THEN IF sqlDriver = "mysql" THEN [c EXCEPT !.uniques = {0}]
         ELSE [c EXCEPT !.uniques = @ \cup {Min((0..MaxUniques) \ @)}]
    ELSE IF unique = FALSE /\ column.exists THEN [c EXCEPT !.uniques = @ \ {0}]
    ELSE c

\* In MySQL the constraint is a statement of its own.
UniqueFails(b) == b.unique = TRUE /\ sqlDriver = "mysql" /\ column.exists /\ 0 \in column.uniques

\* AddColumnSQL or ModifyColumnSQL, then UpsertSQL; a call may stop after the
\* first statement.
Store(b, adopt) ==
    LET altered == IF adopt THEN column ELSE IF column.exists THEN ModifyColumn(b) ELSE AddColumn(b)
        done == IF adopt THEN column ELSE SetUnique(altered, b.unique)
    IN  /\ Accepted(b)
        /\ b.unique = TRUE /\ column.exists => column.uniques # 0..MaxUniques
        /\ \/ /\ ~UniqueFails(b) \/ adopt
              /\ column' = done /\ meta' = metaOf(b)
              /\ adopted' = adopt /\ stopped' = FALSE
           \/ /\ ~adopt /\ UNCHANGED <<meta, adopted>> /\ stopped' = TRUE
              /\ \/ sqlDriver = "mysql" /\ b.unique # NotGiven /\ column' = altered
                 \/ ~UniqueFails(b) /\ column' = done
        /\ UNCHANGED sqlDriver

NoMeta == [exists |-> FALSE]

\* create refuses a field that has a row; it leaves a column that exists alone.
CreateColumn(b) ==
    meta = NoMeta /\ Store(b, column.exists) /\ UNCHANGED resaved

\* update does not ask for a row.
UpdateColumn(b) ==
    Store(b, FALSE) /\ UNCHANGED resaved

\* A client changes nothing, and sends back what it has read.
ReadBack ==
    [type |-> meta.type, nested |-> NotGiven, flat |-> NotGiven,
     value |-> IF meta.has THEN meta.default ELSE NotGiven,
     nullable |-> meta.nullable, unique |-> meta.unique]

Resave ==
    /\ meta # NoMeta
    /\ meta.has /\ meta.default.expr = "" => meta.default.quotes < MaxQuotes
    /\ Store(ReadBack, FALSE)
    /\ resaved' = TRUE

\* DropColumnSQL and DeleteSQL.
DeleteColumn ==
    /\ meta # NoMeta \/ column.exists
    /\ column' = NoColumn
    /\ \/ meta' = NoMeta /\ adopted' = FALSE /\ stopped' = FALSE
       \/ UNCHANGED <<meta, adopted>> /\ stopped' = TRUE
    /\ UNCHANGED <<sqlDriver, resaved>>

ColumnInit ==
    /\ sqlDriver \in {"mysql", "postgres"}
    /\ column \in {NoColumn} \cup {AddColumn(b) : b \in {b \in Bodies : Accepted(b)}}
    /\ meta = NoMeta
    /\ adopted = FALSE /\ stopped = FALSE /\ resaved = FALSE

ColumnNext ==
    \/ \E b \in Bodies : CreateColumn(b) \/ UpdateColumn(b)
    \/ Resave \/ DeleteColumn

-----------------------------------------------------------------------------
\* The registry and the database differ on a column only if the row was created
\* for a column that was there, or the last call failed between its statements,
\* or: on the default, ALTER COLUMN was to take it away; on nullability or
\* uniqueness, the body did not say; on uniqueness, PostgreSQL has a constraint
\* with another name.  What the registry stores as the default is the clause
\* that was executed, though both are computed separately; it is quoted more than
\* once only if a client sent back what it had read (custom_field.go:674,
\* schema.go:112, 352).
DefinitionAgrees ==
    meta # NoMeta /\ ~adopted /\ ~stopped =>
        /\ column.exists /\ column.type = meta.type
        /\ IF meta.has THEN column.has /\ column.default = meta.default
           ELSE column.has => sqlDriver = "postgres"
        /\ "nullable" \in meta.given => column.nullable = meta.nullable
        /\ "unique" \in meta.given =>
              \/ (column.uniques # {}) = meta.unique
              \/ sqlDriver = "postgres" /\ column.uniques \ {0} # {}
        /\ meta.has /\ meta.default.expr = "" /\ ~resaved => meta.default.quotes = 1
=============================================================================
