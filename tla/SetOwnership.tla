---------------------------- MODULE SetOwnership ----------------------------
(***************************************************************************)
(* Who an EphemeralRunnerSet belongs to.  A GiteaRunnerSet and the set the *)
(* listener makes for it share a name and nothing else is matched by it:   *)
(* the owner reference holds a UID, and so do the runners' references to   *)
(* the set.  Here a user deletes a GiteaRunnerSet and creates it again     *)
(* while the listener stamps references (cmd/listener/main.go), the        *)
(* controller deletes sets without a parent                                *)
(* (ephemeralrunnerset_controller.go, handleMissingParent) and Kubernetes  *)
(* collects what has lost its owner.                                       *)
(*                                                                         *)
(* Both processes read caches that lag; a write decided on a cached copy   *)
(* is one step with the read, since the copy may be as old as it likes.    *)
(***************************************************************************)
EXTENDS Naturals, FiniteSets

CONSTANTS
    Runners,      \* names for EphemeralRunners; one is used again once gone
    MaxParents,   \* bound: how often the GiteaRunnerSet is created
    SetUIDs,      \* UIDs of EphemeralRunnerSets; one is used again once forgotten
    MaxFaults     \* bound: reconciles that fail, or end with their process

ASSUME OwnershipAssumption ==
    /\ MaxParents \in Nat \ {0} /\ MaxFaults \in Nat
    /\ SetUIDs \subseteq Nat \ {0} /\ 1 \in SetUIDs

VARIABLES
    grs,      \* the UID of the GiteaRunnerSet, 0 while there is none
    ers,      \* the EphemeralRunnerSet: its UID, 0 if none, and its owner's
    runner,   \* the UID of the set each EphemeralRunner belongs to, 0 if none
    cached,   \* both objects in each process's informer cache
    rec,      \* the controller's reconcile
    parents,  \* how many GiteaRunnerSets there have been: the last one's UID
    faults

kube == <<grs, ers, runner, parents>>
vars == <<kube, cached, rec, faults>>

Processes == {"listener", "manager"}

\* A set made before the listener stamped references has no owner.
Set   == [uid : {0} \cup SetUIDs, owner : 0 .. MaxParents]
NoSet == [uid |-> 0, owner |-> 0]

Cache == [grs : 0 .. MaxParents, ers : Set]

\* A reconcile: its next call, the set it read, and (for the properties only) the
\* GiteaRunnerSet there was when it began.
Steps     == {"none", "claim", "create", "confirm", "delete"}
Reconcile == [pc : Steps, copy : Set, parent : 0 .. MaxParents]
IdleRec   == [pc |-> "none", copy |-> NoSet, parent |-> 0]

TypeOK ==
    /\ grs \in 0 .. parents /\ parents \in 0 .. MaxParents
    /\ ers \in Set
    /\ runner \in [Runners -> {0} \cup SetUIDs]
    /\ cached \in [Processes -> Cache]
    /\ rec \in Reconcile
    /\ faults \in 0 .. MaxFaults

\* A GiteaRunnerSet that is new, or has a set from before there were references.
Init ==
    /\ grs = 1 /\ parents = 1
    /\ ers \in {NoSet, [uid |-> 1, owner |-> 0]}
    /\ runner \in [Runners -> {0, ers.uid}]
    /\ cached = [p \in Processes |-> [grs |-> grs, ers |-> ers]]
    /\ rec = IdleRec /\ faults = 0

-----------------------------------------------------------------------------
(* The informers, one per kind and process.                                 *)

SyncParent(p) ==
    /\ cached[p].grs # grs /\ cached' = [cached EXCEPT ![p].grs = grs]
    /\ UNCHANGED <<kube, rec, faults>>

SyncSet(p) ==
    /\ cached[p].ers # ers /\ cached' = [cached EXCEPT ![p].ers = ers]
    /\ UNCHANGED <<kube, rec, faults>>

-----------------------------------------------------------------------------
(* The listener, for each GiteaRunnerSet its cache lists.                   *)

\* No UID is used twice, so neither is one of these while anyone remembers it.
Forgotten ==
    {u \in SetUIDs : /\ u \notin {ers.uid, rec.copy.uid}
                     /\ \A p \in Processes : u # cached[p].ers.uid
                     /\ \A r \in Runners : u # runner[r]}

\* The set is created with a reference to the parent the cache shows, if none exists.
CreateSet ==
    /\ cached["listener"].grs # 0 /\ cached["listener"].ers = NoSet
    /\ ers = NoSet /\ Forgotten # {}
    /\ ers' = [uid |-> CHOOSE u \in Forgotten : TRUE, owner |-> cached["listener"].grs]
    /\ UNCHANGED <<grs, runner, parents, cached, rec, faults>>

\* (Mutant: a set that exists is only resized.)
AdoptNone == FALSE

\* ensureOwnedBy adds a missing reference, in an update that a stale copy cannot make.
\* Onto a reference of another UID it adds a second controller, which the API server
\* refuses: such a set is not sized until it is collected.
AdoptSet ==
    /\ cached["listener"].grs # 0 /\ cached["listener"].ers = ers
    /\ ers # NoSet /\ ers.owner = 0
    /\ ers' = [ers EXCEPT !.owner = cached["listener"].grs]
    /\ UNCHANGED <<grs, runner, parents, cached, rec, faults>>

-----------------------------------------------------------------------------
(* The EphemeralRunnerSet controller.                                       *)

StartReconcile ==
    /\ rec.pc = "none" /\ cached["manager"].ers # NoSet
    /\ rec' = [pc |-> IF cached["manager"].grs = 0 THEN "confirm" ELSE "claim",
               copy |-> cached["manager"].ers, parent |-> grs]
    /\ UNCHANGED <<kube, cached, faults>>

\* (Mutants: absence is confirmed in the cache it was noticed in; it is always taken for
\* a cache that is behind.)
ConfirmFromCache ==
    /\ rec.pc = "confirm"
    /\ rec' = IF cached["manager"].grs = 0 THEN [rec EXCEPT !.pc = "delete"] ELSE IdleRec
    /\ UNCHANGED <<kube, cached, faults>>

ConfirmNever ==
    /\ rec.pc = "confirm" /\ rec' = IdleRec
    /\ UNCHANGED <<kube, cached, faults>>

\* handleMissingParent asks the API server: a parent that exists is not in the cache
\* yet, and the set is looked at again later.
ConfirmAbsence ==
    /\ rec.pc = "confirm"
    /\ rec' = IF grs = 0 THEN [rec EXCEPT !.pc = "delete"] ELSE IdleRec
    /\ UNCHANGED <<kube, cached, faults>>

\* The delete names the set and no UID: it takes what has the name by then.
DeleteSet ==
    /\ rec.pc = "delete"
    /\ ers' = NoSet /\ rec' = IdleRec
    /\ UNCHANGED <<grs, runner, parents, cached, faults>>

\* With the parent in the cache the set is scaled.  The claim fails unless the copy is
\* current; runners are created without looking again, for the set the copy names.
ClaimPatch ==
    /\ rec.pc = "claim" /\ rec.copy = ers
    /\ rec' = [rec EXCEPT !.pc = "create"]
    /\ UNCHANGED <<kube, cached, faults>>

CreateRunner(r) ==
    /\ rec.pc = "create" /\ runner[r] = 0
    /\ runner' = [runner EXCEPT ![r] = rec.copy.uid]
    /\ UNCHANGED <<grs, ers, parents, cached, rec, faults>>

\* Enough runners, or the claim was refused.
EndReconcile ==
    /\ rec.pc = "create" \/ (rec.pc = "claim" /\ rec.copy # ers)
    /\ rec' = IdleRec
    /\ UNCHANGED <<kube, cached, faults>>

\* A call fails, or the manager's process ends.
ReconcileFails ==
    /\ rec.pc # "none" /\ faults < MaxFaults
    /\ rec' = IdleRec /\ faults' = faults + 1
    /\ UNCHANGED <<kube, cached>>

-----------------------------------------------------------------------------
(* The user, the garbage collector and the runners' own controller.         *)

CreateParent ==
    /\ grs = 0 /\ parents < MaxParents
    /\ parents' = parents + 1 /\ grs' = parents'
    /\ UNCHANGED <<ers, runner, cached, rec, faults>>

DeleteParent ==
    /\ grs # 0 /\ grs' = 0
    /\ UNCHANGED <<ers, runner, parents, cached, rec, faults>>

CollectSet ==
    /\ ers.owner \notin {0, grs} /\ ers' = NoSet
    /\ UNCHANGED <<grs, runner, parents, cached, rec, faults>>

\* Collected and torn down, or finished.
RunnerGone(r) ==
    /\ runner[r] # 0 /\ runner' = [runner EXCEPT ![r] = 0]
    /\ UNCHANGED <<grs, ers, parents, cached, rec, faults>>

CollectRunner(r) == runner[r] # ers.uid /\ RunnerGone(r)

-----------------------------------------------------------------------------
Listener   == CreateSet \/ AdoptSet
Reconciles == StartReconcile \/ ConfirmAbsence \/ DeleteSet \/ ClaimPatch \/ EndReconcile
Syncs      == \E p \in Processes : SyncParent(p) \/ SyncSet(p)
User       == CreateParent \/ DeleteParent

Next ==
    \/ Listener \/ Reconciles \/ Syncs \/ User \/ CollectSet \/ ReconcileFails
    \/ \E r \in Runners : CreateRunner(r) \/ RunnerGone(r)

Spec == Init /\ [][Next]_vars

\* Polls, requeues (2 s, 10 s), informers and the collector go on.  A write that needs
\* a current copy gets one now and then.
Fairness ==
    /\ WF_vars(CreateSet) /\ WF_vars(AdoptSet)
    /\ WF_vars(Reconciles) /\ WF_vars(CollectSet)
    /\ \A p \in Processes : WF_vars(SyncParent(p)) /\ WF_vars(SyncSet(p))
    /\ \A r \in Runners : WF_vars(CollectRunner(r))

FairSpec == Spec /\ Fairness

-----------------------------------------------------------------------------
(* Properties.                                                              *)

\* When the GiteaRunnerSet is gone for good, its set "must go too or it keeps its runners
\* forever" (ephemeralrunnerset_controller.go:482-483), with or without a reference, and
\* so must the runners.
OrphansGone ==
    <>[](grs = 0) => <>[](ers = NoSet /\ \A r \in Runners : runner[r] = 0)

\* A GiteaRunnerSet that stays gets a set of its own, also when it was created again
\* while the set of its predecessor, which it can neither adopt nor resize, was there.
ParentServed ==
    <>[](grs # 0) => <>[](ers.uid # 0 /\ ers.owner = grs)

\* "a transient miss requeues" (line 486): a set whose parent has been there since the
\* reconcile began is not deleted, however far behind the caches are.
LiveParentKept ==
    [][DeleteSet => rec.parent = 0 \/ grs # rec.parent]_vars

\* "a confirmed absence deletes the set" (lines 486-487), and the absence of a parent is
\* what it is confirmed for.  A parent created in between loses its set: README,
\* section 6.
ConfirmedStillAbsent ==
    [][DeleteSet => grs = 0 \/ ers = NoSet]_vars

\* Why the live read is enough: a UID that was absent does not come back.
OwnershipInv ==
    /\ TypeOK
    /\ rec.parent <= parents
    /\ rec.pc = "delete" => rec.parent = 0 \/ grs # rec.parent
=============================================================================
