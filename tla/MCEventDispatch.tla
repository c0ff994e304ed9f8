--------------------------- MODULE MCEventDispatch ---------------------------
(***************************************************************************)
(* Small instances of EventDispatch.                                       *)
(***************************************************************************)
EXTENDS EventDispatch, TLC

EventSymmetry == Permutations(Events)
=============================================================================
