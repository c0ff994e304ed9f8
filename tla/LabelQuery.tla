----------------------------- MODULE LabelQuery -----------------------------
(***************************************************************************)
(* Label queries of the SDK: their parser (sdk/label_query.go) and their   *)
(* evaluation on the inverted label index of a registry snapshot           *)
(* (sdk/targets.go).                                                       *)
(*                                                                         *)
(* A label is the name "k" or the pair "k=v"; a target that carries the    *)
(* pair carries the name too (toSet).  EqExpr and HasExpr both ask for one *)
(* label and are one kind here.  A query string is the sequence of its     *)
(* parts between "|", and a part the set of its comma separated tokens: a  *)
(* token is the form parseExpr recognises it by and the labels it asks     *)
(* for.  A nil set of keys and an empty one are the same.                  *)
(***************************************************************************)
EXTENDS Naturals, Sequences

Forms == {"blank", "bang", "in", "equals", "plain"}
Tokens(Labels) == [form : Forms, of : SUBSET Labels]

\* "!k" negates, "k in (v, w)" offers alternatives (none if all are blank),
\* "k=v" and "k" ask for one label.
parseExpr(t) ==
    [kind |-> IF t.form = "bang" THEN "not" ELSE IF t.form = "in" THEN "in" ELSE "has",
     of   |-> t.of]

\* Blank tokens ("a,,b") are dropped.
parseAND(part) == {parseExpr(t) : t \in {u \in part : u.form # "blank"}}

\* A string without "|" is one conjunction, else there is one for each part.
ParseQuery(text) ==
    IF Len(text) > 1
    THEN [AND |-> {}, OR |-> [i \in DOMAIN text |-> parseAND(text[i])]]
    ELSE [AND |-> parseAND(text[1]), OR |-> <<>>]

\* A target must carry every label.
QueryFromLabels(labels) ==
    [AND |-> {[kind |-> "has", of |-> {l}] : l \in labels}, OR |-> <<>>]

\* The meaning of one expression for a target with these labels.
Eval(e, labels) ==
    IF e.kind = "not" THEN e.of \cap labels = {} ELSE e.of \cap labels # {}

-----------------------------------------------------------------------------
unionMany(sets) == UNION sets

intersectMany(sets) == {k \in UNION sets : \A s \in sets : k \in s}

diffSet(all, exclude) == all \ exclude

\* The keys the index holds for an expression, its negation apart.
lookup(idx, e) == unionMany({idx[l] : l \in e.of})

\* Mutant: a conjunction of negations matches nothing.
evalAnd_NeedsPositive(idx, keys, exprs) ==
    LET positives == {e \in exprs : e.kind # "not"}
        negatives == exprs \ positives
    IN  diffSet(intersectMany({lookup(idx, e) : e \in positives}),
                unionMany({lookup(idx, e) : e \in negatives}))

\* One conjunction: the keys all positive expressions hold, or every key when
\* there is none, without those a negation holds.
evalAnd(idx, keys, exprs) ==
    LET positives == {e \in exprs : e.kind # "not"}
        negatives == exprs \ positives
        res == IF positives = {} THEN keys
               ELSE intersectMany({lookup(idx, e) : e \in positives})
    IN  diffSet(res, unionMany({lookup(idx, e) : e \in negatives}))

filter(idx, keys, q) ==
    IF Len(q.OR) > 0
    THEN unionMany({evalAnd(idx, keys, q.OR[i]) : i \in DOMAIN q.OR})
    ELSE evalAnd(idx, keys, q.AND)

\* No label at all finds nothing, unlike an empty query.
FindAllByLabels(idx, labels) ==
    IF labels = {} THEN {} ELSE intersectMany({idx[l] : l \in labels})

FindAnyByLabels(idx, labels) == unionMany({idx[l] : l \in labels})
=============================================================================
