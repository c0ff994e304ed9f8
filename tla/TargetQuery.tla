---------------------------- MODULE TargetQuery ----------------------------
(***************************************************************************)
(* The registry's label lookups (FindByLabel, FindAllByLabels,             *)
(* FindAnyByLabels and FindByQuery in sdk/targets.go) on the snapshot the  *)
(* writers of TargetRegistry publish.                                      *)
(***************************************************************************)
EXTENDS TargetRegistry, LabelQuery

CONSTANT Texts  \* query strings

ASSUME QueryAssumption == Texts \subseteq Seq(SUBSET Tokens(Labels)) \ {<<>>}

FindByQuery(q) == filter(snap.labelIndex, snap.keys, q)

Targets == {k \in Keys : snap.byKey[k] # NoConn}
LabelsOf(k) == conn[snap.byKey[k]].labels

\* What a query string asks of a target: some part of it of which every token
\* that is not blank holds.
Meant(text, k) ==
    \E i \in DOMAIN text :
        \A t \in text[i] : t.form # "blank" => Eval(parseExpr(t), LabelsOf(k))

\* The lookups answer from the inverted index, which the writers maintain
\* piecemeal, with set operations, but they return exactly the targets whose own
\* labels satisfy the expressions' Eval: negations alone start from every key,
\* an empty part of "a|" matches everything, "k in ()" nothing, and a label no
\* target carries is no special case (evalAnd, filter, targets.go:669).
QueryMatchesEval ==
    /\ \A text \in Texts :
         FindByQuery(ParseQuery(text)) = {k \in Targets : Meant(text, k)}
    /\ \A labels \in SUBSET Labels :
         /\ labels # {} =>
              /\ FindAllByLabels(snap.labelIndex, labels)
                   = {k \in Targets : labels \subseteq LabelsOf(k)}
              /\ FindAllByLabels(snap.labelIndex, labels)
                   = FindByQuery(QueryFromLabels(labels))
         /\ FindAnyByLabels(snap.labelIndex, labels)
              = {k \in Targets : labels \cap LabelsOf(k) # {}}
=============================================================================
