---------------------------- MODULE MCWidgetSync -----------------------------
(***************************************************************************)
(* Small instances of WidgetSync.                                          *)
(***************************************************************************)
EXTENDS WidgetSync, TLC

Symmetry == Permutations(Names)
            \cup Permutations(Callers) \cup Permutations(Paths)
=============================================================================
