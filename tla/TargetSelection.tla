--------------------------- MODULE TargetSelection ---------------------------
(***************************************************************************)
(* How a call of the SDK comes to its target (sdk/service.go, sdk/labels.go*)
(* and the branch of RunWithTarget in sdk/failover.go for a service        *)
(* without failover), while the watcher replaces the registry under it.    *)
(*                                                                         *)
(* Each lookup (Get, FindByQuery, FindByLabel, Default, DefaultKey) loads  *)
(* the published snapshot anew, so that one call may see several           *)
(* configurations.  live, of TargetWatcher, is that snapshot.  Calls only  *)
(* read, so that one of them stands for all.  A label is <<name>> or       *)
(* <<name, value>>; keys are numbers, so that they can be sorted.          *)
(***************************************************************************)
EXTENDS TargetWatcher, LabelQuery, FiniteSets

CONSTANTS Labels, NoQuery, NoLabel, NoDecision, Blank,
          StratDefault, StratPrefer,  \* the service's DefaultStrategy and label
          Calls  \* kind of call, decision of the V2 and key of the V1 resolver

\* What a resolver may decide: a key, a query over the labels, a hint.
Exprs == [kind : {"has", "in", "not"}, of : SUBSET Labels]
Queries == [AND : SUBSET Exprs, OR : Seq(SUBSET Exprs)]
Strategies == {"first", "prefer", "hash"}
Hints == [strategy : Strategies, prefer : Labels \cup {NoLabel}, hash : Nat]
Decisions == [key : Keys \cup {NoKey}, query : Queries \cup {NoQuery}, hint : Hints]

ASSUME SelectionAssumption ==
    /\ Keys \subseteq Nat /\ IsFiniteSet(Keys)
    /\ LabelSets \subseteq SUBSET Labels
    /\ StratDefault \in Strategies /\ StratPrefer \in Labels \cup {NoLabel}
    /\ \A c \in Calls : /\ c.kind \in {"pick", "run"} /\ c.key1 \in Keys \cup {NoKey}
                        /\ c.dec \in Decisions \cup {NoDecision}

VARIABLE task  \* the call

(***************************************************************************)
(* AutoLabelResolver, a V2 resolver.  Its rules map a header, a metadata   *)
(* key, a claim or a context key to a label name, and fix some labels.     *)
(***************************************************************************)
\* labelKV: a value of which nothing is left (Blank) gives no label.
labelKV(name, value) == IF value = Blank THEN {} ELSE {<<name, value>>, <<name>>}

Labelled(names, value) == UNION {labelKV(names[s], value[s]) : s \in DOMAIN names \cap DOMAIN value}

LabelsFromHTTP(header, rules) == Labelled(rules.map, header) \cup Labelled(rules.fixed, rules.value)

\* A metadata key has a list of values; the first counts.
LabelsFromGRPC(md, rules) ==
    LET given == {m \in DOMAIN md : md[m] # <<>>}
    IN  Labelled(rules.map, [m \in given |-> Head(md[m])]) \cup Labelled(rules.fixed, rules.value)

\* Claims and context values that are not strings are ignored.
LabelsFromJWT(claims, rules) ==
    LET strings == {c \in DOMAIN claims : claims[c].isString}
    IN  Labelled(rules.map, [c \in strings |-> claims[c].value]) \cup Labelled(rules.fixed, rules.value)

LabelsFromContext(values, rules) ==
    LET strings == {c \in DOMAIN values : values[c].isString}
    IN  Labelled(rules.map, [c \in strings |-> values[c].value]) \cup Labelled(rules.fixed, rules.value)

\* The labels of all sources must hold; without any the resolver declines.
AutoLabelResolver(in, rules, hint) ==
    LET labels == LabelsFromHTTP(in.header, rules) \cup LabelsFromGRPC(in.md, rules)
                  \cup LabelsFromJWT(in.claims, rules) \cup LabelsFromContext(in.values, rules)
    IN  IF labels = {} THEN NoDecision
        ELSE [key |-> NoKey, query |-> QueryFromLabels(labels), hint |-> hint]

-----------------------------------------------------------------------------
(***************************************************************************)
(* The snapshot: keys, labels and index of what ReplaceAll was given.      *)
(***************************************************************************)
toSet(labels) == labels \cup {<<l[1]>> : l \in labels}
Has(k) == k \in Keys /\ live.targets[k] # NoRow
Present == {k \in Keys : Has(k)}
Index == [l \in Labels |-> {k \in Present : l \in toSet(live.targets[k].labels)}]

\* The hint's strategy and label, where it gives them, else the service's.
strategy(hint) == IF hint.strategy = "first" THEN StratDefault ELSE hint.strategy
prefer(hint) == IF hint.prefer = NoLabel THEN StratPrefer ELSE hint.prefer

\* In the order of the keys: the element with i - 1 smaller ones comes i-th.
sorted(S) == [i \in 1..Cardinality(S) |-> CHOOSE k \in S : Cardinality({j \in S : j < k}) = i - 1]

rotate(s, n) == SubSeq(s, n + 1, Len(s)) \o SubSeq(s, 1, n)

\* Mutant: only the preferred keys are offered.
chooseOrder_OnlyPreferred(keys, hint) ==
    IF strategy(hint) = "prefer" /\ prefer(hint) # NoLabel
    THEN sorted(keys \cap Index[prefer(hint)]) ELSE sorted(keys)

\* The candidates in order: those with the preferred label first, or rotated by
\* a hash (a number here; of the first key when no source is given).  A
\* preferred label that no target of the registry carries leaves no candidate.
chooseOrder(keys, hint) ==
    LET ks == sorted(keys)
        hash == IF hint.hash = 0 THEN Head(ks) ELSE hint.hash
        preferred == Index[prefer(hint)]
    IN  IF strategy(hint) = "prefer" /\ prefer(hint) # NoLabel
        THEN IF preferred = {} THEN <<>>
             ELSE sorted(keys \cap preferred) \o sorted(keys \ preferred)
        ELSE IF strategy(hint) = "hash" THEN rotate(ks, hash % Len(ks))
        ELSE ks

-----------------------------------------------------------------------------
NoHint == [strategy |-> "first", prefer |-> NoLabel, hash |-> 0]
ByKey(k) == [key |-> k, query |-> NoQuery, hint |-> NoHint]
Empty == ByKey(NoKey)

\* found, preferred and cand are what the query, the preference and the choice
\* gave; moved (history) the keys whose target changed between these lookups.
Fresh(kind, d, key1) ==
    [pc |-> "idle", kind |-> kind, dec |-> d, key1 |-> key1,
     found |-> {}, preferred |-> {}, unanswered |-> FALSE, cand |-> NoKey,
     moved |-> {}, by |-> "none", row |-> NoRow]
Idle == Fresh("none", Empty, NoKey)

SelectionInit == Init /\ task = Idle

\* The stages of pickTarget: the decided key, the query, the V1 resolver, the
\* default.  RunWithTarget tries only one: the key if there is one, else the
\* query if there is one, else the default.
AfterQuery(t) ==
    IF t.kind = "run" THEN "done" ELSE IF t.key1 # NoKey THEN "v1" ELSE "default"
AfterKey(t) ==
    IF t.kind = "pick" /\ t.dec.query # NoQuery THEN "find" ELSE AfterQuery(t)
First(t) ==
    IF t.dec.key # NoKey THEN "key"
    ELSE IF t.dec.query # NoQuery THEN "find"
    ELSE IF t.kind = "run" THEN "default" ELSE AfterQuery(t)

Enter(t) == task' = [t EXCEPT !.pc = First(t)]
Reach(pc1) == [task EXCEPT !.pc = pc1]
Found(k, by) == [task EXCEPT !.pc = "done", !.by = by, !.cand = k, !.row = live.targets[k]]

pickTarget(d, key1) ==
    /\ task.pc = "idle"
    /\ Enter(Fresh("pick", IF d = NoDecision THEN Empty ELSE d, key1))

\* The V2 resolver, else the V1 resolver, else the default key of the moment;
\* without any of them the call ends at once.
resolveDecision(d, key1) ==
    /\ task.pc = "idle"
    /\ IF d # NoDecision THEN Enter(Fresh("run", d, NoKey))
       ELSE IF key1 # NoKey THEN Enter(Fresh("run", ByKey(key1), NoKey))
       ELSE live.def # NoKey /\ Enter(Fresh("run", ByKey(live.def), NoKey))

GetKey ==
    /\ task.pc = "key"
    /\ task' = IF Has(task.dec.key) THEN Found(task.dec.key, "key") ELSE Reach(AfterKey(task))

FindByQuery ==
    LET keys == filter(Index, Present, task.dec.query)
    IN  /\ task.pc = "find"
        /\ task' = IF keys = {} THEN Reach(AfterQuery(task))
                   ELSE [task EXCEPT !.pc = "choose", !.found = keys]

\* chooseOne; FindByLabel loads the snapshot again.
chooseOne ==
    LET order == chooseOrder(task.found, task.dec.hint)
        label == prefer(task.dec.hint)
    IN  /\ task.pc = "choose"
        /\ task' = IF order = <<>> THEN [Reach(AfterQuery(task)) EXCEPT !.unanswered = Index[label] = {}]
                   ELSE [task EXCEPT
                           !.pc = "get", !.cand = Head(order),
                           !.preferred = IF strategy(task.dec.hint) = "prefer" /\ label # NoLabel
                                         THEN task.found \cap Index[label] ELSE {}]

GetChosen ==
    /\ task.pc = "get"
    /\ task' = IF Has(task.cand) THEN Found(task.cand, "query") ELSE Reach(AfterQuery(task))

GetV1 ==
    /\ task.pc = "v1"
    /\ task' = IF Has(task.key1) THEN [Found(task.key1, "v1") EXCEPT !.cand = task.cand]
               ELSE Reach("default")

Default ==
    /\ task.pc = "default"
    /\ task' = IF Has(live.def) THEN [Found(live.def, "default") EXCEPT !.cand = task.cand]
               ELSE Reach("done")

Return == task.pc = "done" /\ task' = Idle

\* Bound: calls start before the last commit.  One that starts after it meets
\* the same replacements as one that starts just before it.
Call ==
    \/ \E c \in Calls : /\ version < MaxVersion
                        /\ \/ c.kind = "pick" /\ pickTarget(c.dec, c.key1)
                           \/ c.kind = "run" /\ resolveDecision(c.dec, c.key1)
    \/ GetKey \/ FindByQuery \/ chooseOne \/ GetChosen \/ GetV1 \/ Default \/ Return

\* A call returns right after its last lookup: what happens in between, it does
\* not see.
SelectionNext ==
    \/ Call /\ UNCHANGED vars
    \/ /\ task.pc # "done" /\ Next
       /\ task' = IF task.pc \notin {"choose", "get"} THEN task
                  ELSE [task EXCEPT !.moved = @ \cup
                          {k \in Keys : live'.targets[k] # live.targets[k]}]

SelectionFairness == Fairness /\ WF_task(Return)

SelectionSpec == SelectionInit /\ [][SelectionNext]_<<vars, task>> /\ SelectionFairness

-----------------------------------------------------------------------------
Satisfies(q, labels) ==
    IF q.OR # <<>> THEN \E i \in DOMAIN q.OR : \A e \in q.OR[i] : Eval(e, labels)
    ELSE \A e \in q.AND : Eval(e, labels)

\* A call whose query matched some target is sent elsewhere (to the V1 resolver's
\* key, the default, or nowhere) only because no target at all carried the
\* preferred label, or because the target it chose was replaced meanwhile.  One
\* that is sent to a match is sent to a target that satisfies the query and has
\* the preferred label if some match has it, unless that target was replaced
\* between the lookups (pickTarget, chooseOrder, service.go:201).
SelectionExplained ==
    task.pc = "done" /\ task.found # {} =>
        IF task.by = "query"
        THEN /\ task.cand \in task.moved
                \/ Satisfies(task.dec.query, toSet(task.row.labels))
             /\ task.preferred # {} => task.cand \in task.preferred
        ELSE task.unanswered \/ task.cand \in task.moved
=============================================================================
