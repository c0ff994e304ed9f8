-------------------------- MODULE MCTargetSelection --------------------------
(***************************************************************************)
(* A small instance of TargetSelection, and with it of TargetWatcher.      *)
(***************************************************************************)
EXTENDS TargetSelection

Region == <<"region">>
Eu == <<"region", "eu">>
AllLabels == {Region, Eu}
SomeLabelSets == {{}, {Eu}}

\* The region of a request is in a header; the other sources name it too.
Rules == [map |-> [x \in {"X-Region"} |-> "region"],
          fixed |-> <<>>, value |-> <<>>]
FromHeader(v) ==
    [header |-> [x \in {"X-Region"} |-> v], md |-> [x \in {"X-Region"} |-> <<>>],
     claims |-> [x \in {"X-Region"} |-> [isString |-> FALSE, value |-> v]],
     values |-> [x \in {"X-Region"} |-> [isString |-> FALSE, value |-> v]]]

Prefer == [strategy |-> "prefer", prefer |-> Region, hash |-> 0]
Hash == [strategy |-> "hash", prefer |-> NoLabel, hash |-> 0]
All == [AND |-> {}, OR |-> <<>>]

Auto(v) == AutoLabelResolver(FromHeader(v), Rules, NoHint)
Preferring == [key |-> NoKey, query |-> All, hint |-> Prefer]
KeyOrHash == [key |-> 1, query |-> All, hint |-> Hash]

SomeCalls ==
    {[kind |-> "pick", dec |-> Preferring, key1 |-> 2],
     [kind |-> "pick", dec |-> KeyOrHash, key1 |-> NoKey],
     [kind |-> "run", dec |-> Auto("eu"), key1 |-> NoKey],
     [kind |-> "run", dec |-> Auto(Blank), key1 |-> NoKey]}

\* Bound: the store starts with both targets; commits remove and add them.
MCInit == SelectionInit /\ \A k \in Keys : rows[k] # NoRow
MCSpec == MCInit /\ [][SelectionNext]_<<vars, task>> /\ SelectionFairness
=============================================================================
