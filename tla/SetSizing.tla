----------------------------- MODULE SetSizing -----------------------------
(* How large the listener makes one set (cmd/listener/demand.go), given the *)
(* jobs waiting in its org and the runners of it that cannot take one.      *)
EXTENDS Naturals

CONSTANTS
    MinRunners,     \* GiteaRunnerSet.spec.minRunners
    MaxRunners      \* GiteaRunnerSet.spec.maxRunners

ASSUME SizingAssumption == MinRunners \in Nat /\ MaxRunners \in Nat

SmallerOf(a, b) == IF a <= b THEN a ELSE b
LargerOf(a, b)  == IF a >= b THEN a ELSE b

\* assignQueuedJobs: with one set, as many waiting jobs as there is room for.
Assigned(waiting, occupied) ==
    IF occupied >= MaxRunners THEN 0 ELSE SmallerOf(waiting, MaxRunners - occupied)

\* (Mutant: maxRunners caps the jobs only.)
DesiredUncapped(waiting, occupied) ==
    occupied + LargerOf(Assigned(waiting, occupied), MinRunners)

\* desiredRunners.
Desired(waiting, occupied) ==
    SmallerOf(occupied + LargerOf(Assigned(waiting, occupied), MinRunners), MaxRunners)
=============================================================================
