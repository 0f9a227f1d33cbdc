-------------------------- MODULE OwnershipProofs --------------------------
(***************************************************************************)
(* Proofs about SetOwnership: the live read protects a parent that exists, *)
(* however often it is created again and however far behind caches are.    *)
(***************************************************************************)
EXTENDS SetOwnership, TLAPS

USE OwnershipAssumption

\* The invariant holds at the start.
LEMMA InitOwnership == Init => OwnershipInv
  BY DEF Init, OwnershipInv, TypeOK, Set, NoSet, Cache, Reconcile, IdleRec, Steps, Processes

\* What the listener writes, if anything, is a set with a known UID.
LEMMA ListenerStep ==
    ASSUME OwnershipInv, Listener
    PROVE  OwnershipInv'
<1> USE DEF OwnershipInv, TypeOK
<1>1. cached["listener"].grs \in 0 .. MaxParents
  BY DEF Cache, Processes
<1>2. CASE CreateSet
  <2>1. (CHOOSE u \in Forgotten : TRUE) \in SetUIDs
    BY <1>2 DEF CreateSet, Forgotten
  <2> QED
    BY <1>1, <1>2, <2>1 DEF CreateSet, Set
<1>3. CASE AdoptSet
  BY <1>1, <1>3 DEF AdoptSet, Set
<1> QED
  BY <1>2, <1>3 DEF Listener

\* The reconcile goes on to the delete only when there is no parent.
LEMMA ControllerStep ==
    ASSUME OwnershipInv, Reconciles \/ ReconcileFails
    PROVE  OwnershipInv'
<1> USE DEF OwnershipInv, TypeOK, Reconcile, IdleRec, Steps, kube
<1>1. cached["manager"] \in Cache /\ NoSet \in Set
  BY DEF Processes, NoSet, Set
<1>2. CASE StartReconcile
  BY <1>1, <1>2 DEF StartReconcile, Cache
<1>3. CASE ConfirmAbsence
  BY <1>1, <1>3 DEF ConfirmAbsence
<1>4. CASE DeleteSet
  BY <1>1, <1>4 DEF DeleteSet
<1>5. CASE ClaimPatch
  BY <1>5 DEF ClaimPatch
<1>6. CASE EndReconcile
  BY <1>1, <1>6 DEF EndReconcile
<1>7. CASE ReconcileFails
  BY <1>1, <1>7 DEF ReconcileFails
<1> QED
  BY <1>2, <1>3, <1>4, <1>5, <1>6, <1>7 DEF Reconciles

\* A parent created again is not the one that was confirmed to be absent.
LEMMA UserStep ==
    ASSUME OwnershipInv, User
    PROVE  OwnershipInv'
<1> USE DEF OwnershipInv, TypeOK, Reconcile, kube
<1>1. CASE CreateParent
  BY <1>1 DEF CreateParent
<1>2. CASE DeleteParent
  BY <1>2 DEF DeleteParent
<1> QED
  BY <1>1, <1>2 DEF User

\* The caches, the collector and the runners leave parents and the reconcile alone.
LEMMA OtherSteps ==
    ASSUME OwnershipInv,
           \/ Syncs \/ CollectSet \/ UNCHANGED vars
           \/ \E r \in Runners : CreateRunner(r) \/ RunnerGone(r)
    PROVE  OwnershipInv'
<1> USE DEF OwnershipInv, TypeOK
<1>1. ASSUME NEW p \in Processes, SyncParent(p) \/ SyncSet(p)
      PROVE  OwnershipInv'
  BY <1>1 DEF SyncParent, SyncSet, Cache, kube
<1>2. CASE CollectSet
  BY <1>2 DEF CollectSet, NoSet, Set
<1>3. ASSUME NEW r \in Runners, CreateRunner(r) \/ RunnerGone(r)
      PROVE  OwnershipInv'
  BY <1>3 DEF CreateRunner, RunnerGone, Reconcile, Set
<1>4. CASE UNCHANGED vars
  BY <1>4 DEF vars, kube
<1> QED
  BY <1>1, <1>2, <1>3, <1>4 DEF Syncs

\* A reconcile about to delete its set has seen that the parent of its beginning, if any,
\* is gone, and no later one has that UID.
THEOREM OwnershipCorrect == Spec => []OwnershipInv
<1>1. OwnershipInv /\ [Next]_vars => OwnershipInv'
  BY ListenerStep, ControllerStep, UserStep, OtherSteps DEF Next
<1> QED
  BY InitOwnership, <1>1, PTL DEF Spec

\* handleMissingParent (ephemeralrunnerset_controller.go:488-512) never deletes a set
\* whose parent has existed since the reconcile began.
THEOREM LiveParentSpared == Spec => LiveParentKept
<1>1. OwnershipInv /\ [Next]_vars => [DeleteSet => rec.parent = 0 \/ grs # rec.parent]_vars
  BY DEF OwnershipInv, DeleteSet
<1> QED
  BY OwnershipCorrect, <1>1, PTL DEF Spec, LiveParentKept
=============================================================================
