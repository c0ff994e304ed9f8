---------------------------- MODULE MCTargetAdmin ----------------------------
(***************************************************************************)
(* Small instances of TargetAdmin.                                         *)
(***************************************************************************)
EXTENDS TargetAdmin, TLC

\* Keys, settings, labels and requests are interchangeable.
AdminSymmetry ==
    Permutations(Keys) \cup Permutations(Dsns) \cup Permutations(LabelSets)
    \cup Permutations(Procs)
=============================================================================
