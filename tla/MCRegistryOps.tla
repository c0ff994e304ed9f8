---------------------------- MODULE MCRegistryOps -----------------------------
(***************************************************************************)
(* Small instances of RegistryOps.                                         *)
(***************************************************************************)
EXTENDS RegistryOps

\* With and without the definitions; a schema version of its own, or newer.
Files == {[yaml |-> [c \in Cols |-> "int"], header |-> 1], [yaml |-> NoYaml, header |-> 0],
          [yaml |-> NoYaml, header |-> 2]}

Named == {<<0, 0, 0>>}
Symmetry == Permutations(Procs)
=============================================================================
