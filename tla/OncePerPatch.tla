---------------------------- MODULE OncePerPatch ----------------------------
(***************************************************************************)
(* What the listener and the EphemeralRunnerSet controller promise each    *)
(* other through spec.patchID and status.lastReconcilePatchID (ADR 0007    *)
(* Decision 4; the comments at ephemeralrunnerset_controller.go:129-131    *)
(* and :157-158), with no caches, no resource versions and no loops:       *)
(*                                                                         *)
(*  - patches are published in increasing order, each with a target size;  *)
(*  - the controller settles patches in increasing order, and a patch that *)
(*    is settled is never acted on again;                                  *)
(*  - runners are created only under the patch that was the published one  *)
(*    when it was claimed, and never more of them than its target size.    *)
(***************************************************************************)
EXTENDS Naturals

VARIABLES
    published,   \* the latest PatchID the listener wrote, 0 before the first
    target,      \* the replicas written with it
    settled,     \* the latest PatchID the controller has acted on
    budget       \* runners it may still create for that PatchID

vars == <<published, target, settled, budget>>

\* A set that exists before any patch has some replicas and nothing settled.
Init ==
    /\ published = 0
    /\ target \in Nat
    /\ settled = 0
    /\ budget = 0

\* The listener sizes the set under a new, larger PatchID.
Publish ==
    /\ published' \in Nat /\ published' > published
    /\ target' \in Nat
    /\ UNCHANGED <<settled, budget>>

\* The controller takes the published patch to scale up under it: once, and
\* for at most as many runners as the patch asks for.
Claim ==
    /\ settled < published
    /\ settled' = published
    /\ budget' \in 0 .. target
    /\ UNCHANGED <<published, target>>

\* A reconcile that creates nothing records the patch it worked from, which
\* may no longer be the published one.
Settle ==
    /\ budget = 0
    /\ settled' \in settled + 1 .. published
    /\ UNCHANGED <<published, target, budget>>

\* One runner is created, or the rest of the claim is abandoned.
Spend ==
    /\ budget > 0
    /\ budget' \in {budget - 1, 0}
    /\ UNCHANGED <<published, target, settled>>

Next == Publish \/ Claim \/ Settle \/ Spend

Spec == Init /\ [][Next]_vars
=============================================================================
