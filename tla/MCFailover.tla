----------------------------- MODULE MCFailover -----------------------------
(***************************************************************************)
(* Small instances of Failover.                                            *)
(***************************************************************************)
EXTENDS Failover, TLC

ProcSymmetry == Permutations(Procs)

\* What DefaultErrorClassifier returns.
DefaultOutcomes == {<<TRUE, TRUE>>, <<FALSE, FALSE>>}

\* The watcher drops the target 2 whenever a direct call has added it.
OneOfTwo == {{1}}
=============================================================================
