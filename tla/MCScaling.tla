----------------------------- MODULE MCScaling -----------------------------
(* Small instances of RunnerSetScaling.                                     *)
EXTENDS RunnerSetScaling, TLC

\* No action and no property tells one runner from another.
RunnerSymmetry == Permutations(Runners)
=============================================================================
