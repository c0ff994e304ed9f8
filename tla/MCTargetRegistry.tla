-------------------------- MODULE MCTargetRegistry --------------------------
(***************************************************************************)
(* Small instances of TargetRegistry and its label lookups.                *)
(***************************************************************************)
EXTENDS TargetQuery, TLC

Plain == [form |-> "plain", of |-> Labels]
Bang == [form |-> "bang", of |-> Labels]
InNothing == [form |-> "in", of |-> {}]
Blank == [form |-> "blank", of |-> {}]

\* Every way to combine a positive, a negated, an impossible and a blank token in
\* one part or two.
Parts == {{}, {Plain}, {Bang}, {InNothing}, {Plain, Bang}, {Bang, Blank}}
SomeTexts == {<<part>> : part \in Parts} \cup {<<p1, p2>> : p1, p2 \in Parts}
=============================================================================
