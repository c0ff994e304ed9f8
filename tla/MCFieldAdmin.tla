---------------------------- MODULE MCFieldAdmin ----------------------------
(***************************************************************************)
(* Instances of FieldAdmin and ColumnDefinition for TLC: two callers of    *)
(* one tenant with a SQL server, or one caller of either of two tenants    *)
(* with a SQL and a MongoDB server and no validators, or the definitions   *)
(* of one column.                                                          *)
(***************************************************************************)
EXTENDS FieldAdmin, ColumnDefinition, TLC

OneTenant == [tenants |-> {DefaultTenant}, servers |-> Servers \ MongoServers,
              validators |-> Validators, callers |-> Clients]
OneCaller(c) == [tenants |-> Tenants, servers |-> Servers, validators |-> {}, callers |-> {c}]
NoCallers == [tenants |-> {}, servers |-> {}, validators |-> {}, callers |-> {}]
SomeSites == {OneTenant, NoCallers} \cup {OneCaller(c) : c \in Clients}

Plain(t) == [type |-> t, nested |-> NotGiven, flat |-> NotGiven, value |-> NotGiven,
             nullable |-> NotGiven, unique |-> NotGiven]
Expression(e) == [mode |-> "expression", raw |-> Expr(e), on |-> TRUE]
DateLiteral == [mode |-> "literal", raw |-> Literal(TRUE, FALSE), on |-> FALSE]
FlatDefault(mode) == [mode |-> mode, raw |-> Literal(TRUE, TRUE), on |-> TRUE]
Flags == {<<NotGiven, NotGiven>>, <<NotGiven, TRUE>>, <<TRUE, FALSE>>, <<FALSE, TRUE>>}

SomeBodies ==
    {[Plain(t) EXCEPT !.nested = Expression("CURRENT_TIMESTAMP")] :
        t \in {"timestamp", "date", "time", "text"}}
    \cup {[Plain("date") EXCEPT !.nested = Expression("CURRENT_DATE")],
          [Plain("time") EXCEPT !.nested = Expression("CURRENT_TIME")]}
    \cup {[Plain(t) EXCEPT !.nested = DateLiteral] : t \in {"date", "time", "text"}}
    \cup {[Plain("varchar") EXCEPT !.nullable = f[1], !.unique = f[2]] : f \in Flags}
    \cup {[Plain("timestamp") EXCEPT !.value = v] : v \in {Expr("NOW()"), Literal(TRUE, TRUE), Blank}}
    \cup {[Plain("timestamp") EXCEPT !.flat = FlatDefault(m), !.unique = TRUE] :
             m \in {"literal", NotGiven}}

MCInit == FieldInit /\ ColumnInit /\ (site # NoCallers => sqlDriver = "mysql" /\ column = NoColumn)
MCNext == \/ FieldNext /\ UNCHANGED columnVars
          \/ site = NoCallers /\ ColumnNext /\ UNCHANGED fieldVars
MCSpec == MCInit /\ [][MCNext]_<<fieldVars, columnVars>>

CallerSymmetry == Permutations(Clients)
=============================================================================
