--------------------------- MODULE ScalingProofs ---------------------------
(***************************************************************************)
(* Proofs about RunnerSetScaling: types, with any number of managers; with *)
(* one manager process that may crash and restart, that the loop           *)
(* implements OncePerPatch and never claims a PatchID twice; and that      *)
(* MaxRunners bounds the runners a reconcile knew of and those it creates, *)
(* whatever the managers, caches, conflicts, failed calls and failovers.   *)
(***************************************************************************)
EXTENDS RunnerSetScaling, FiniteSetTheorems, TLAPS

\* Any set of listed runners is finite, so it has a size.
LEMMA ListedSize ==
    ASSUME TypeOK, NEW S \in SUBSET Created
    PROVE  Cardinality(S) \in Nat
<1>1. IsFiniteSet(S)
  BY ScalingAssumption, FS_Subset, Created \subseteq Runners DEF Created
<1> QED BY <1>1, FS_CardinalityType

\* The sizes the listener computes are numbers.
LEMMA DesiredType ==
    ASSUME NEW w \in Nat, NEW o \in Nat
    PROVE  Desired(w, o) \in Nat
BY SizingAssumption DEF Desired, Assigned, SmallerOf, LargerOf

\* What a reconcile plans is a reconcile record.
LEMMA PlanType ==
    ASSUME NEW copy \in Version, NEW owned, NEW count \in Nat, NEW safe \in SUBSET Runners
    PROVE  Plan(copy, owned, count, safe) \in Reconcile
<1>1. copy.replicas \in Nat
  BY DEF Version
<1>2. (count < copy.replicas => copy.replicas - count \in Nat)
      /\ (count > copy.replicas => count - copy.replicas \in Nat)
  BY <1>1
<1>3. Owned \ owned \in SUBSET Runners
  BY DEF Owned, Created
<1> QED BY <1>2, <1>3 DEF Plan, Reconcile

\* A stored object is a version of the set, and so are all in the history.
LEMMA StoreType ==
    ASSUME TypeOK, NEW new \in Version, Store(new)
    PROVE  ers' \in Version /\ versions' \subseteq Version
BY DEF Store, TypeOK, Version

\* Every variable keeps its type: Spec => []TypeOK.
THEOREM TypeCorrect == Spec => []TypeOK
<1>1. Init => TypeOK
  <2> SUFFICES ASSUME Init PROVE TypeOK
    OBVIOUS
  <2>1. ers \in Version
    <3>1. NoSet \in Version
      BY DEF NoSet, Version
    <3>2. LegacySet \in Version
      BY <3>1, SizingAssumption DEF LegacySet, Version
    <3> QED BY <3>1, <3>2 DEF Init
  <2>2. Absent \in Runner
    BY DEF Absent, Runner, Stages
  <2>3. rec \in Reconcile
    BY DEF Init, IdleRec, NoSet, Version, Reconcile
  <2>4. poll \in Pass
    BY DEF Init, IdlePoll, Pass
  <2> QED BY <2>1, <2>2, <2>3, <2>4, ScalingAssumption, SizingAssumption DEF Init, TypeOK
<1>2. TypeOK /\ [Next]_vars => TypeOK'
  <2> SUFFICES ASSUME TypeOK, [Next]_vars PROVE TypeOK'
    OBVIOUS
  <2> USE DEF TypeOK
  <2>1. CASE SizeSet
    <3>1. PICK waiting \in 0 .. MaxQueue, listed \in SUBSET Created, copy \in versions :
          \E occupied \in SUBSET {r \in listed : runner[r].deleting \/ runner[r].at # "pending"} :
             poll' = Sizing(waiting, listed, occupied, copy)
      BY <2>1 DEF SizeSet
    <3>2. PICK occupied \in SUBSET listed : poll' = Sizing(waiting, listed, occupied, copy)
      BY <3>1
    <3>3. Cardinality(occupied) \in Nat /\ waiting \in Nat
      BY ListedSize, ScalingAssumption
    <3>4. Desired(waiting, Cardinality(occupied)) \in Nat
      BY <3>3, DesiredType
    <3>5. copy.rv \in Nat /\ clock + 1 \in 0 .. MaxPolls /\ clock' = clock + 1
      BY <2>1, ScalingAssumption DEF SizeSet, Version
    <3> QED BY <2>1, <3>2, <3>4, <3>5 DEF SizeSet, Sizing, Pass, kube, manager
  <2>2. CASE CreateSet
    <3>1. [NoSet EXCEPT !.owner = TRUE, !.replicas = poll.replicas, !.patchID = poll.patchID] \in Version
      BY DEF NoSet, Version, Pass
    <3>2. ers' \in Version /\ versions' \subseteq Version
      BY <2>2, <3>1, StoreType DEF CreateSet
    <3> QED BY <2>2, <3>2 DEF CreateSet, manager, IdlePoll, Pass, Version
  <2>3. CASE UpdateSet
    <3>1. [ers EXCEPT !.owner = TRUE, !.replicas = poll.replicas, !.patchID = poll.patchID] \in Version
      BY DEF Version, Pass
    <3>2. ers' \in Version /\ versions' \subseteq Version
      BY <2>3, <3>1, StoreType DEF UpdateSet
    <3> QED BY <2>3, <3>2 DEF UpdateSet, manager, IdlePoll, Pass, Version
  <2>4. CASE WriteTargetSize
    BY <2>4 DEF WriteTargetSize, manager, IdlePoll, Pass, Version
  <2>5. CASE PollFails
    BY <2>5 DEF PollFails, manager, kube, IdlePoll, Pass
  <2>6. CASE StartReconcile
    <3>1. PICK owned \in Listable : \E safe \in SUBSET owned :
            rec' = Plan(ersCache[leader], owned, Cardinality(owned), safe)
      BY <2>6 DEF StartReconcile
    <3>2. owned \subseteq Created
      BY DEF Listable, Owned
    <3>3. PICK safe \in SUBSET Runners : rec' = Plan(ersCache[leader], owned, Cardinality(owned), safe)
      BY <3>1, <3>2 DEF Created
    <3>4. Cardinality(owned) \in Nat
      BY <3>2, ListedSize
    <3>5. rec' \in Reconcile
      BY <3>3, <3>4, PlanType
    <3> QED BY <2>6, <3>5 DEF StartReconcile, kube, listener
  <2>7. CASE ClaimPatch
    <3>1. [ers EXCEPT !.lastID = rec.copy.patchID] \in Version
      BY DEF Version, Reconcile
    <3>2. ers' \in Version /\ versions' \subseteq Version
      BY <2>7, <3>1, StoreType DEF ClaimPatch
    <3> QED BY <2>7, <3>2 DEF ClaimPatch, listener, Reconcile
  <2>8. CASE WriteStatus
    <3>1. [ers EXCEPT !.lastID = rec.copy.patchID] \in Version
      BY DEF Version, Reconcile
    <3>2. ers' \in Version /\ versions' \subseteq Version
      BY <2>8, <3>1, StoreType DEF WriteStatus
    <3> QED BY <2>8, <3>2 DEF WriteStatus, listener, IdleRec, NoSet, Version, Reconcile
  <2>9. CASE TrimDone \/ ReconcileFails
    <3>1. CASE TrimDone
      <4>1. rec' \in Reconcile
        BY <3>1 DEF TrimDone, Reconcile
      <4> QED BY <3>1, <4>1 DEF TrimDone, kube, listener
    <3>2. CASE ReconcileFails
      <4>1. IdleRec \in Reconcile
        BY DEF IdleRec, NoSet, Version, Reconcile
      <4> QED BY <3>2, <4>1 DEF ReconcileFails, kube, listener
    <3> QED BY <2>9, <3>1, <3>2
  <2>10. ASSUME NEW r \in Runners, CreateRunner(r) PROVE TypeOK'
    <3>1. runner' \in [Runners -> Runner]
      <4>1. [runner[r] EXCEPT !.at = "pending"] \in Runner
        BY DEF Runner, Stages
      <4> QED BY <2>10, <4>1 DEF CreateRunner
    <3>2. rec.left - 1 \in Nat
      BY <2>10 DEF CreateRunner, Reconcile
    <3>3. rec' \in Reconcile
      BY <2>10, <3>2 DEF CreateRunner, Reconcile
    <3> QED BY <2>10, <3>1, <3>3 DEF CreateRunner, kube, listener
  <2>11. ASSUME NEW r \in Runners, TrimRunner(r) PROVE TypeOK'
    <3>1. runner' \in [Runners -> Runner]
      <4>1. [runner[r] EXCEPT !.deleting = TRUE] \in Runner
        BY DEF Runner
      <4> QED BY <2>11, <4>1 DEF TrimRunner
    <3>2. rec.left - 1 \in Nat
      BY <2>11 DEF TrimRunner, Reconcile
    <3>3. rec' \in Reconcile
      BY <2>11, <3>2 DEF TrimRunner, Reconcile
    <3> QED BY <2>11, <3>1, <3>3 DEF TrimRunner, kube, listener
  <2>12. ASSUME NEW m \in Managers, Failover(m) PROVE TypeOK'
    BY <2>12, ScalingAssumption DEF Failover, kube, listener, IdleRec, NoSet, Version, Reconcile
  <2>13. ASSUME NEW m \in Managers, SyncSet(m) PROVE TypeOK'
    BY <2>13 DEF SyncSet, kube, listener
  <2>14. ASSUME NEW r \in Runners, RunnerStarts(r) \/ RunnerDeleted(r) \/ RunnerGone(r)
         PROVE  TypeOK'
    <3>1. /\ [runner[r] EXCEPT !.at = "started"] \in Runner
          /\ [runner[r] EXCEPT !.at = "gone"] \in Runner
          /\ [runner[r] EXCEPT !.deleting = TRUE] \in Runner
      BY DEF Runner, Stages
    <3>2. runner' \in [Runners -> Runner]
      BY <2>14, <3>1 DEF RunnerStarts, RunnerDeleted, RunnerGone
    <3> QED BY <2>14, <3>2 DEF RunnerStarts, RunnerDeleted, RunnerGone, kube, manager, listener
  <2>15. CASE UNCHANGED vars
    BY <2>15 DEF vars, kube, manager, listener
  <2> QED BY <2>1, <2>2, <2>3, <2>4, <2>5, <2>6, <2>7, <2>8, <2>9, <2>10, <2>11, <2>12,
             <2>13, <2>14, <2>15 DEF Next, Listener, Controller, Environment
<1> QED BY <1>1, <1>2, PTL DEF Spec

-----------------------------------------------------------------------------
(* One manager process.                                                     *)

\* A version that only moves PatchIDs forward extends the history.
LEMMA HistoryGrows ==
    ASSUME TypeOK, HistoryInv, ers' \in Version, versions' = versions \cup {ers'},
           ers'.rv = ers.rv + 1,
           ers'.patchID >= ers.patchID, ers'.lastID >= ers.lastID,
           ers'.lastID <= ers'.patchID
    PROVE  HistoryInv'
<1> USE DEF TypeOK, HistoryInv, Version
<1>1. ers' \in versions'
  OBVIOUS
<1>2. \A v \in versions' : v.rv <= ers'.rv /\ v.lastID <= v.patchID
  OBVIOUS
<1>3. \A v \in versions : v.rv < ers'.rv /\ v.patchID <= ers'.patchID /\ v.lastID <= ers'.lastID
  OBVIOUS
<1>4. \A v, w \in versions' : v.rv = w.rv => v = w
  BY <1>3
<1>5. \A v, w \in versions' : v.rv <= w.rv => v.patchID <= w.patchID /\ v.lastID <= w.lastID
  BY <1>3
<1>6. ers'.rv # 0
  OBVIOUS
<1> QED BY <1>1, <1>2, <1>4, <1>5, <1>6

\* What Store does to the history: nothing, or one version more.
LEMMA StoreGrows ==
    ASSUME TypeOK, HistoryInv, NEW new \in Version, Store(new), new.rv = ers.rv,
           new.patchID >= ers.patchID, new.lastID >= ers.lastID, new.lastID <= new.patchID
    PROVE  HistoryInv' /\ versions \subseteq versions'
           /\ ers'.patchID = new.patchID /\ ers'.lastID = new.lastID
           /\ ers'.rv >= ers.rv
<1>1. CASE new = ers
  <2>1. ers' = ers /\ versions' = versions
    BY <1>1 DEF Store, HistoryInv
  <2> QED BY <2>1, <1>1 DEF HistoryInv, TypeOK, Version
<1>2. CASE new # ers
  <2>1. ers' = [new EXCEPT !.rv = ers.rv + 1] /\ versions' = versions \cup {ers'}
    BY <1>2 DEF Store
  <2>2. ers' \in Version /\ ers'.rv = ers.rv + 1
        /\ ers'.patchID = new.patchID /\ ers'.lastID = new.lastID
    BY <2>1 DEF Version, TypeOK
  <2>3. HistoryInv'
    BY <2>1, <2>2, HistoryGrows
  <2> QED BY <2>1, <2>2, <2>3 DEF Version, TypeOK
<1> QED BY <1>1, <1>2

\* A cached or in-flight version stays good when the history only grows.
LEMMA ReconcileKept ==
    ASSUME TypeOK, ReconcileInv, versions \subseteq versions', ers'.lastID = ers.lastID,
           UNCHANGED manager
    PROVE  ReconcileInv'
BY DEF ReconcileInv, manager

\* The invariant is inductive when there is only one manager.
LEMMA InvInductive ==
    ASSUME \A m, n \in Managers : m = n, ScalingInv, TypeOK', [Next]_vars
    PROVE  ScalingInv'
<1> USE DEF ScalingInv
<1>0. clock \in Nat /\ ers \in Version /\ leader \in Managers /\ rec \in Reconcile /\ poll \in Pass
      /\ ersCache \in [Managers -> Version]
  BY ScalingAssumption DEF TypeOK
<1>1. CASE SizeSet
  <2>1. UNCHANGED <<kube, runner, manager>> /\ clock' = clock + 1
    BY <1>1 DEF SizeSet
  <2>2. poll'.patchID = clock + 1
    BY <1>1 DEF SizeSet, Sizing
  <2>3. PatchInv'
    BY <1>0, <2>1, <2>2 DEF PatchInv, kube, Version
  <2>4. HistoryInv' /\ ReconcileInv'
    BY <2>1 DEF HistoryInv, ReconcileInv, kube, manager
  <2> QED BY <2>3, <2>4
<1>2. CASE CreateSet
  <2> DEFINE new == [NoSet EXCEPT !.owner = TRUE, !.replicas = poll.replicas, !.patchID = poll.patchID]
  <2>1. ers = NoSet /\ new \in Version /\ Store(new)
    BY <1>0, <1>2 DEF CreateSet, HistoryInv, NoSet, Version, Pass
  <2>2. new.rv = ers.rv /\ new.patchID = poll.patchID /\ new.lastID = ers.lastID
        /\ ers.patchID = 0 /\ ers.lastID = 0
    BY <2>1 DEF NoSet
  <2>3. poll.patchID = clock /\ ers.patchID < clock
    BY <1>2 DEF CreateSet, PatchInv
  <2> HIDE DEF new
  <2>4. HistoryInv' /\ versions \subseteq versions'
        /\ ers'.patchID = new.patchID /\ ers'.lastID = new.lastID
    BY <1>0, <2>1, <2>2, <2>3, StoreGrows
  <2>5. ReconcileInv'
    BY <1>2, <2>2, <2>4, ReconcileKept DEF CreateSet
  <2>6. PatchInv'
    BY <1>0, <1>2, <2>2, <2>3, <2>4 DEF CreateSet, PatchInv, IdlePoll
  <2> QED BY <2>4, <2>5, <2>6
<1>3. CASE UpdateSet
  <2> DEFINE new == [ers EXCEPT !.owner = TRUE, !.replicas = poll.replicas, !.patchID = poll.patchID]
  <2>1. new \in Version /\ Store(new)
    BY <1>0, <1>3 DEF UpdateSet, Version, Pass
  <2>2. new.rv = ers.rv /\ new.patchID = poll.patchID /\ new.lastID = ers.lastID
    BY <1>0 DEF Version
  <2>3. poll.patchID = clock /\ ers.patchID < clock /\ ers.lastID <= ers.patchID
    BY <1>3 DEF UpdateSet, PatchInv, HistoryInv
  <2> HIDE DEF new
  <2>4. HistoryInv' /\ versions \subseteq versions'
        /\ ers'.patchID = new.patchID /\ ers'.lastID = new.lastID
    <3>1. new.patchID >= ers.patchID /\ new.lastID >= ers.lastID /\ new.lastID <= new.patchID
      BY <1>0, <2>2, <2>3 DEF Version
    <3> QED BY <2>1, <2>2, <3>1, StoreGrows
  <2>5. ReconcileInv'
    BY <1>3, <2>2, <2>4, ReconcileKept DEF UpdateSet
  <2>6. PatchInv'
    BY <1>0, <1>3, <2>2, <2>3, <2>4 DEF UpdateSet, PatchInv, IdlePoll
  <2> QED BY <2>4, <2>5, <2>6
<1>4. CASE WriteTargetSize
  <2>1. ers'.rv = ers.rv + 1 /\ ers'.patchID = ers.patchID /\ ers'.lastID = ers.lastID
    BY <1>0, <1>4 DEF WriteTargetSize, Version
  <2>2. ers.lastID <= ers.patchID
    BY DEF HistoryInv
  <2>3. HistoryInv' /\ versions \subseteq versions'
    BY <1>0, <1>4, <2>1, <2>2, HistoryGrows DEF WriteTargetSize, TypeOK, Version
  <2>4. ReconcileInv'
    BY <1>4, <2>1, <2>3, ReconcileKept DEF WriteTargetSize
  <2>5. PatchInv'
    BY <1>4, <2>1 DEF WriteTargetSize, PatchInv, IdlePoll
  <2> QED BY <2>3, <2>4, <2>5
<1>5. CASE PollFails
  BY <1>5 DEF PollFails, kube, manager, HistoryInv, PatchInv, ReconcileInv, IdlePoll
<1>6. CASE StartReconcile
  <2>1. PICK owned \in SUBSET Created, count \in Nat, safe \in SUBSET Runners :
          rec' = Plan(ersCache[leader], owned, count, safe)
    <3>1. PICK owned \in SUBSET Created : \E safe \in SUBSET owned :
            rec' = Plan(ersCache[leader], owned, Cardinality(owned), safe)
      BY <1>6 DEF StartReconcile, Listable, Owned
    <3>2. Cardinality(owned) \in Nat
      BY <3>1, ListedSize
    <3>3. PICK safe \in SUBSET Runners : rec' = Plan(ersCache[leader], owned, Cardinality(owned), safe)
      BY <3>1 DEF Created
    <3> QED BY <3>2, <3>3
  <2>2. UNCHANGED <<kube, runner, leader, ersCache, failovers, listener>>
    BY <1>6 DEF StartReconcile
  <2>3. rec'.copy = ersCache[leader]
    BY <2>1 DEF Plan
  <2>4. rec'.pc = "claim" =>
          rec'.left = rec'.copy.replicas - count /\ count < rec'.copy.replicas
          /\ rec'.copy.patchID # rec'.copy.lastID
    BY <2>1 DEF Plan
  <2>5. rec'.pc # "create"
    BY <2>1 DEF Plan
  <2>6. rec'.copy.replicas \in Nat /\ ersCache[leader].rv \in Nat
    BY <1>0, <2>3 DEF Version
  <2>7. rec'.pc = "claim" => rec'.left > 0 /\ rec'.left <= rec'.copy.replicas
    BY <2>4, <2>6
  <2>8. ReconcileInv'
    BY <1>0, <2>2, <2>3, <2>4, <2>5, <2>6, <2>7 DEF ReconcileInv, kube
  <2> QED BY <2>2, <2>8 DEF HistoryInv, PatchInv, kube, listener
<1>7. CASE ClaimPatch \/ WriteStatus
  <2> DEFINE new == [ers EXCEPT !.lastID = rec.copy.patchID]
  <2>1. new \in Version /\ Store(new)
    BY <1>0, <1>7 DEF ClaimPatch, WriteStatus, Version, Reconcile
  <2>2. new.rv = ers.rv /\ new.patchID = ers.patchID /\ new.lastID = rec.copy.patchID
    BY <1>0 DEF Version
  <2>3. /\ rec.copy \in versions /\ rec.copy.rv <= ersCache[leader].rv
        /\ ers.lastID <= rec.copy.patchID
        /\ ersCache[leader] \in versions
    BY <1>0, <1>7 DEF ReconcileInv, ClaimPatch, WriteStatus
  <2>4. rec.copy.patchID <= ers.patchID /\ rec.copy.patchID <= ersCache[leader].patchID
    BY <2>3 DEF HistoryInv
  <2> HIDE DEF new
  <2>5. HistoryInv' /\ versions \subseteq versions'
        /\ ers'.patchID = new.patchID /\ ers'.lastID = new.lastID
    <3>1. new.patchID >= ers.patchID /\ new.lastID >= ers.lastID /\ new.lastID <= new.patchID
      BY <1>0, <2>2, <2>3, <2>4 DEF Version, Reconcile
    <3> QED BY <2>1, <2>2, <3>1, StoreGrows
  <2>6. UNCHANGED <<leader, ersCache, listener>>
    BY <1>7 DEF ClaimPatch, WriteStatus
  <2>7. PatchInv'
    BY <2>2, <2>5, <2>6 DEF PatchInv, listener
  <2>8. \A m \in Managers : ersCache[m] = ersCache[leader]
    BY <1>0
  <2>9. \/ rec'.pc = "create" /\ rec'.copy = rec.copy /\ rec'.left = rec.left /\ rec.left > 0
        \/ rec'.pc = "none"
    BY <1>0, <1>7 DEF ClaimPatch, WriteStatus, IdleRec, ReconcileInv, Reconcile
  <2>10. rec.copy.patchID \in Nat
    BY <1>0 DEF Reconcile, Version
  <2>11. ReconcileInv'
    BY <2>2, <2>3, <2>4, <2>5, <2>6, <2>8, <2>9, <2>10 DEF ReconcileInv
  <2> QED BY <2>5, <2>7, <2>11
<1>8. CASE TrimDone \/ ReconcileFails
  BY <1>0, <1>8 DEF TrimDone, ReconcileFails, kube, listener, IdleRec, Reconcile,
     HistoryInv, PatchInv, ReconcileInv
<1>9. ASSUME NEW r \in Runners, CreateRunner(r) \/ TrimRunner(r) PROVE ScalingInv'
  <2>1. UNCHANGED <<kube, leader, ersCache, listener>> /\ rec'.copy = rec.copy
    BY <1>0, <1>9 DEF CreateRunner, TrimRunner, Reconcile
  <2>2. rec.pc # "none" /\ rec'.pc # "claim" /\ (rec'.pc = "create" => rec'.left > 0)
    <3>1. CASE CreateRunner(r)
      <4>1. rec'.pc = (IF rec.left = 1 THEN "status" ELSE "create")
            /\ rec'.left = rec.left - 1 /\ rec.left > 0 /\ rec.left \in Nat
        BY <1>0, <3>1 DEF CreateRunner, Reconcile
      <4> QED BY <4>1, <3>1 DEF CreateRunner
    <3>2. CASE TrimRunner(r)
      <4>1. rec'.pc = "trim"
        BY <1>0, <3>2 DEF TrimRunner, Reconcile
      <4> QED BY <4>1, <3>2 DEF TrimRunner
    <3> QED BY <1>9, <3>1, <3>2
  <2> QED BY <2>1, <2>2 DEF kube, listener, HistoryInv, PatchInv, ReconcileInv
<1>10. ASSUME NEW m \in Managers, Failover(m) PROVE ScalingInv'
  <2>1. UNCHANGED <<kube, listener>> /\ rec' = IdleRec /\ leader' = leader
        /\ \A n \in Managers : ersCache'[n] = ers
    BY <1>0, <1>10 DEF Failover
  <2>2. ers.lastID <= ers.patchID /\ ers \in versions
    BY DEF HistoryInv
  <2> QED BY <2>1, <2>2 DEF kube, listener, IdleRec, HistoryInv, PatchInv, ReconcileInv
<1>11. ASSUME NEW m \in Managers, SyncSet(m) PROVE ScalingInv'
  <2>1. PICK v \in versions : v.rv > ersCache[m].rv /\ ersCache' = [ersCache EXCEPT ![m] = v]
    BY <1>11 DEF SyncSet
  <2>2. UNCHANGED <<kube, leader, rec, listener>>
    BY <1>11 DEF SyncSet
  <2>3. \A n \in Managers : n = leader /\ ersCache'[n] = v
    BY <1>0, <2>1
  <2>4. m = leader /\ ersCache[leader] \in versions /\ ers.lastID <= ersCache[leader].patchID
    BY <1>0 DEF ReconcileInv
  <2>5. v \in Version /\ ersCache[leader] \in Version
    BY <1>0, <2>1 DEF TypeOK
  <2>6. ersCache[leader].patchID <= v.patchID
    BY <2>1, <2>4, <2>5 DEF HistoryInv, Version
  <2>7. ers.lastID <= v.patchID
    BY <1>0, <2>4, <2>5, <2>6 DEF Version
  <2>8. rec.pc # "none" => rec.copy.rv <= v.rv
    BY <1>0, <2>1, <2>4, <2>5 DEF ReconcileInv, Version, Reconcile
  <2>9. ReconcileInv'
    BY <2>1, <2>2, <2>3, <2>7, <2>8 DEF ReconcileInv, kube
  <2> QED BY <2>2, <2>9 DEF kube, listener, HistoryInv, PatchInv
<1>12. ASSUME NEW r \in Runners, RunnerStarts(r) \/ RunnerDeleted(r) \/ RunnerGone(r)
       PROVE  ScalingInv'
  BY <1>12 DEF RunnerStarts, RunnerDeleted, RunnerGone, kube, manager, listener,
     HistoryInv, PatchInv, ReconcileInv
<1>13. CASE UNCHANGED vars
  BY <1>13 DEF vars, kube, manager, listener, HistoryInv, PatchInv, ReconcileInv
<1> QED BY <1>1, <1>2, <1>3, <1>4, <1>5, <1>6, <1>7, <1>8, <1>9, <1>10, <1>11, <1>12, <1>13
        DEF Next, Listener, Controller, Environment

\* Before the first poll the set, if there is one, has no PatchID and none settled.
LEMMA StartsUnpatched ==
    Init => /\ ers \in Version /\ ers.patchID = 0 /\ ers.lastID = 0
            /\ ers.rv = 0 => ers = NoSet
<1> SUFFICES ASSUME Init
             PROVE  /\ ers \in Version /\ ers.patchID = 0 /\ ers.lastID = 0
                    /\ ers.rv = 0 => ers = NoSet
  OBVIOUS
<1>1. CASE ers = NoSet
  BY <1>1 DEF NoSet, Version
<1>2. CASE ers = LegacySet
  <2>1. NoSet \in Version /\ NoSet.patchID = 0 /\ NoSet.lastID = 0
    BY DEF NoSet, Version
  <2>2. MinRunners \in Nat
    BY SizingAssumption
  <2>3. ers \in Version
    BY <1>2, <2>1, <2>2 DEF LegacySet, Version
  <2>4. ers.rv = 1 /\ ers.patchID = 0 /\ ers.lastID = 0
    BY <1>2, <2>1 DEF LegacySet, Version
  <2> QED BY <2>3, <2>4
<1> QED BY <1>1, <1>2 DEF Init

\* With one manager, every version of the set belongs to one history in which
\* published and settled PatchIDs only grow, whatever the caches show.
THEOREM OneLeaderInv ==
    ASSUME \A m, n \in Managers : m = n
    PROVE  Spec => []ScalingInv
<1>1. Init /\ TypeOK => ScalingInv
  <2> SUFFICES ASSUME Init, TypeOK PROVE ScalingInv
    OBVIOUS
  <2>1. ers \in Version /\ ers.patchID = 0 /\ ers.lastID = 0 /\ (ers.rv = 0 => ers = NoSet)
    BY StartsUnpatched
  <2>2. rec.pc = "none" /\ poll.pc = "none" /\ clock = 0
    BY DEF Init, IdleRec, IdlePoll
  <2>3. versions = {ers} /\ \A m \in Managers : ersCache[m] = ers
    BY DEF Init
  <2>4. HistoryInv
    BY <2>1, <2>3 DEF HistoryInv, Version
  <2>5. PatchInv
    BY <2>1, <2>2 DEF PatchInv
  <2>6. ReconcileInv
    BY <2>1, <2>2, <2>3 DEF ReconcileInv
  <2> QED BY <2>4, <2>5, <2>6 DEF ScalingInv
<1>2. ScalingInv /\ TypeOK' /\ [Next]_vars => ScalingInv'
  BY InvInductive
<1> QED BY <1>1, <1>2, TypeCorrect, PTL DEF Spec

\* With one manager, a PatchID recorded as reconciled is never claimed for
\* creating runners again (ephemeralrunnerset_controller.go:129).
THEOREM OneLeaderClaimsOnce ==
    ASSUME \A m, n \in Managers : m = n
    PROVE  Spec => ClaimedOnce
<1>1. ScalingInv /\ [Next]_vars =>
        [ClaimPatch => \A v \in versions : v.lastID # rec.copy.patchID]_vars
  <2> SUFFICES ASSUME ScalingInv, ClaimPatch, NEW v \in versions
               PROVE  v.lastID # rec.copy.patchID
    OBVIOUS
  <2>1. rec.copy = ers
    BY DEF ScalingInv, ClaimPatch, HistoryInv, ReconcileInv
  <2>2. ers.patchID # ers.lastID /\ ers.lastID <= ers.patchID /\ v.lastID <= ers.lastID
    BY <2>1 DEF ScalingInv, ClaimPatch, HistoryInv, ReconcileInv
  <2>3. ers \in Version /\ v \in Version
    BY DEF ScalingInv, TypeOK
  <2> QED BY <2>1, <2>2, <2>3 DEF Version
<1> QED BY <1>1, OneLeaderInv, PTL DEF Spec, ClaimedOnce

\* With one manager, the listener and the controller implement the patch
\* protocol of OncePerPatch.
THEOREM OneLeaderImplements ==
    ASSUME \A m, n \in Managers : m = n
    PROVE  Spec => ImplementsOncePerPatch
<1>1. Init => Implements!Init
  <2> SUFFICES ASSUME Init PROVE Implements!Init
    OBVIOUS
  <2>1. ers \in Version /\ ers.patchID = 0 /\ ers.lastID = 0
    BY StartsUnpatched
  <2>2. rec.pc = "none"
    BY DEF Init, IdleRec
  <2> QED BY <2>1, <2>2 DEF Implements!Init, Version
<1>2. ScalingInv /\ ScalingInv' /\ [Next]_vars => [Implements!Next]_(Implements!vars)
  <2> SUFFICES ASSUME ScalingInv, ScalingInv', [Next]_vars
               PROVE  [Implements!Next]_(Implements!vars)
    OBVIOUS
  <2> DEFINE budget == IF rec.pc = "create" THEN rec.left ELSE 0
  <2>0. /\ ers \in Version /\ ers' \in Version /\ rec \in Reconcile /\ poll \in Pass
        /\ clock \in Nat /\ budget \in Nat
    BY ScalingAssumption DEF ScalingInv, TypeOK, Reconcile
  <2>1. CASE CreateSet \/ UpdateSet
    <3>1. /\ poll.patchID = clock /\ ers.patchID < clock /\ poll.patchID \in Nat
          /\ poll.replicas \in Nat
      BY <2>0, <2>1 DEF CreateSet, UpdateSet, ScalingInv, PatchInv, Pass
    <3>2. ers'.patchID = poll.patchID /\ ers'.replicas = poll.replicas /\ ers'.lastID = ers.lastID
      <4>1. CASE CreateSet
        <5>1. ers = NoSet
          BY <4>1 DEF CreateSet, ScalingInv, HistoryInv
        <5> QED BY <4>1, <5>1 DEF CreateSet, Store, NoSet
      <4>2. CASE UpdateSet
        BY <2>0, <4>2 DEF UpdateSet, Store, Version
      <4> QED BY <2>1, <4>1, <4>2
    <3>3. UNCHANGED rec
      BY <2>1 DEF CreateSet, UpdateSet, manager
    <3>4. Implements!Publish
      BY <2>0, <3>1, <3>2, <3>3 DEF Implements!Publish, Version
    <3> QED BY <3>4 DEF Implements!Next
  <2>2. CASE ClaimPatch
    <3>1. rec.copy = ers /\ ers.patchID # ers.lastID /\ ers.lastID <= ers.patchID
          /\ rec.left <= ers.replicas /\ rec.left > 0
      BY <2>2 DEF ClaimPatch, ScalingInv, HistoryInv, ReconcileInv
    <3>2. ers'.patchID = ers.patchID /\ ers'.replicas = ers.replicas /\ ers'.lastID = ers.patchID
      BY <2>0, <2>2, <3>1 DEF ClaimPatch, Store, Version
    <3>3. rec'.pc = "create" /\ rec'.left = rec.left
      BY <2>0, <2>2 DEF ClaimPatch, Reconcile
    <3>4. Implements!Claim
      BY <2>0, <3>1, <3>2, <3>3 DEF Implements!Claim, Version, Reconcile
    <3> QED BY <3>4 DEF Implements!Next
  <2>3. CASE WriteStatus
    <3>1. /\ ers'.patchID = ers.patchID /\ ers'.replicas = ers.replicas
          /\ ers'.lastID = rec.copy.patchID
      BY <2>0, <2>3 DEF WriteStatus, Store, Version
    <3>2. ers.lastID <= rec.copy.patchID /\ rec.copy.patchID <= ers.patchID
          /\ rec.copy \in Version
      BY <2>0, <2>3 DEF WriteStatus, ScalingInv, HistoryInv, ReconcileInv, Reconcile
    <3>3. rec.pc = "status" /\ rec'.pc = "none"
      BY <2>3 DEF WriteStatus, IdleRec
    <3>4. CASE ers.lastID = rec.copy.patchID
      BY <3>1, <3>3, <3>4 DEF Implements!vars
    <3>5. CASE ers.lastID # rec.copy.patchID
      <4>1. Implements!Settle
        BY <2>0, <3>1, <3>2, <3>3, <3>5 DEF Implements!Settle, Version
      <4> QED BY <4>1 DEF Implements!Next
    <3> QED BY <3>4, <3>5
  <2>4. ASSUME NEW r \in Runners, CreateRunner(r) PROVE [Implements!Next]_(Implements!vars)
    <3>1. UNCHANGED ers /\ rec.pc = "create" /\ rec.left > 0 /\ rec'.left = rec.left - 1
          /\ rec'.pc = (IF rec.left = 1 THEN "status" ELSE "create")
      BY <2>0, <2>4 DEF CreateRunner, kube, Reconcile
    <3>2. Implements!Spend
      BY <2>0, <3>1 DEF Implements!Spend
    <3> QED BY <3>2 DEF Implements!Next
  <2>5. CASE ReconcileFails \/ \E m \in Managers : Failover(m)
    <3>1. UNCHANGED ers /\ rec'.pc = "none"
      BY <2>5 DEF ReconcileFails, Failover, kube, IdleRec
    <3>2. CASE budget = 0
      BY <3>1, <3>2 DEF Implements!vars
    <3>3. CASE budget # 0
      <4>1. Implements!Spend
        BY <2>0, <3>1, <3>3 DEF Implements!Spend
      <4> QED BY <4>1 DEF Implements!Next
    <3> QED BY <3>2, <3>3
  <2>6. CASE WriteTargetSize
    BY <2>0, <2>6 DEF WriteTargetSize, Implements!vars, manager, Version
  <2>7. CASE SizeSet \/ PollFails \/ \E m \in Managers : SyncSet(m)
    BY <2>7 DEF SizeSet, PollFails, SyncSet, Implements!vars, kube, manager
  <2>8. CASE StartReconcile \/ TrimDone
    <3>1. UNCHANGED ers /\ rec.pc # "create" /\ rec'.pc # "create"
      BY <2>0, <2>8 DEF StartReconcile, Plan, TrimDone, kube, Reconcile
    <3> QED BY <3>1 DEF Implements!vars
  <2>9. ASSUME NEW r \in Runners, TrimRunner(r) PROVE [Implements!Next]_(Implements!vars)
    <3>1. UNCHANGED ers /\ rec.pc = "trim" /\ rec'.pc = "trim"
      BY <2>0, <2>9 DEF TrimRunner, kube, Reconcile
    <3> QED BY <3>1 DEF Implements!vars
  <2>10. ASSUME NEW r \in Runners, RunnerStarts(r) \/ RunnerDeleted(r) \/ RunnerGone(r)
         PROVE  [Implements!Next]_(Implements!vars)
    BY <2>10 DEF RunnerStarts, RunnerDeleted, RunnerGone, kube, manager, Implements!vars
  <2>11. CASE UNCHANGED vars
    BY <2>11 DEF vars, kube, manager, Implements!vars
  <2> QED BY <2>1, <2>2, <2>3, <2>4, <2>5, <2>6, <2>7, <2>8, <2>9, <2>10, <2>11
          DEF Next, Listener, Controller, Environment
<1> QED BY <1>1, <1>2, OneLeaderInv, PTL DEF Spec, ImplementsOncePerPatch, Implements!Spec

-----------------------------------------------------------------------------
(* The ceiling.                                                             *)

\* The listener never asks for more than MaxRunners.
LEMMA DesiredCapped ==
    ASSUME NEW w \in Nat, NEW o \in Nat
    PROVE  Desired(w, o) <= MaxRunners
BY SizingAssumption DEF Desired, Assigned, SmallerOf, LargerOf

\* A version that is sized, or that has nothing to settle like all before it, may
\* be stored.
LEMMA StoreSized ==
    ASSUME TypeOK, SizedInv, NEW new \in Version, Store(new),
           IF new.patchID = 0 THEN new.lastID = 0 ELSE new.replicas <= MaxRunners,
           new.patchID = 0 => ers.patchID = 0
    PROVE  /\ ers' \in versions' /\ versions \subseteq versions'
           /\ \A v \in versions' : IF v.patchID = 0 THEN v.lastID = 0 ELSE v.replicas <= MaxRunners
           /\ ers'.patchID = 0 => \A v \in versions' : v.patchID = 0
<1>1. versions' = versions \cup {ers'}
  BY DEF Store
<1>2. ers'.patchID = new.patchID /\ ers'.lastID = new.lastID /\ ers'.replicas = new.replicas
  BY DEF Store, Version
<1> QED BY <1>1, <1>2 DEF SizedInv

\* Versions, sizes and plans stay sized, whatever step is taken.
LEMMA SizedKept ==
    ASSUME TypeOK, SizedInv, [Next]_vars
    PROVE  SizedInv'
<1>0. /\ ers \in Version /\ leader \in Managers /\ rec \in Reconcile /\ poll \in Pass
      /\ ersCache \in [Managers -> Version] /\ clock \in Nat
  BY ScalingAssumption DEF TypeOK
<1>1. CASE SizeSet
  <2>1. PICK waiting \in Nat, listed \in SUBSET Created, copy \in versions, o \in SUBSET Created :
          poll' = Sizing(waiting, listed, o, copy)
    BY <1>1, ScalingAssumption DEF SizeSet
  <2>2. Cardinality(o) \in Nat
    BY ListedSize
  <2>3. poll'.replicas <= MaxRunners /\ poll'.patchID > 0
    BY <1>0, <2>1, <2>2, DesiredCapped DEF Sizing
  <2> QED BY <1>1, <2>3 DEF SizeSet, SizedInv, kube, manager
<1>2. CASE CreateSet
  <2> DEFINE new == [NoSet EXCEPT !.owner = TRUE, !.replicas = poll.replicas, !.patchID = poll.patchID]
  <2>1. new \in Version /\ Store(new) /\ new.patchID > 0 /\ new.replicas <= MaxRunners
    BY <1>0, <1>2 DEF CreateSet, NoSet, Version, Pass, SizedInv
  <2> HIDE DEF new
  <2> QED BY <1>2, <2>1, StoreSized DEF CreateSet, manager, IdlePoll, SizedInv
<1>3. CASE UpdateSet
  <2> DEFINE new == [ers EXCEPT !.owner = TRUE, !.replicas = poll.replicas, !.patchID = poll.patchID]
  <2>1. new \in Version /\ Store(new) /\ new.patchID > 0 /\ new.replicas <= MaxRunners
    BY <1>0, <1>3 DEF UpdateSet, Version, Pass, SizedInv
  <2> HIDE DEF new
  <2> QED BY <1>3, <2>1, StoreSized DEF UpdateSet, manager, IdlePoll, SizedInv
<1>4. CASE WriteTargetSize
  <2>1. ers'.patchID = ers.patchID /\ ers'.lastID = ers.lastID /\ ers'.replicas = ers.replicas
    BY <1>0, <1>4 DEF WriteTargetSize, Version
  <2> QED BY <1>4, <2>1 DEF WriteTargetSize, manager, IdlePoll, SizedInv
<1>5. CASE PollFails
  BY <1>5 DEF PollFails, kube, manager, IdlePoll, SizedInv
<1>6. CASE StartReconcile
  <2>1. rec'.copy = ersCache[leader]
    BY <1>6 DEF StartReconcile, Plan
  <2> QED BY <1>0, <1>6, <2>1 DEF StartReconcile, kube, listener, SizedInv
<1>7. CASE ClaimPatch \/ WriteStatus
  <2> DEFINE new == [ers EXCEPT !.lastID = rec.copy.patchID]
  <2>1. new \in Version /\ Store(new)
    BY <1>0, <1>7 DEF ClaimPatch, WriteStatus, Version, Reconcile
  <2>2. rec.copy \in versions /\ new.patchID = ers.patchID /\ new.replicas = ers.replicas
        /\ new.lastID = rec.copy.patchID
    BY <1>0, <1>7 DEF ClaimPatch, WriteStatus, Version, SizedInv
  <2>3. IF new.patchID = 0 THEN new.lastID = 0 ELSE new.replicas <= MaxRunners
    BY <2>2 DEF SizedInv
  <2> HIDE DEF new
  <2>4. /\ ers' \in versions' /\ versions \subseteq versions'
        /\ \A v \in versions' : IF v.patchID = 0 THEN v.lastID = 0 ELSE v.replicas <= MaxRunners
        /\ ers'.patchID = 0 => \A v \in versions' : v.patchID = 0
    BY <2>1, <2>2, <2>3, StoreSized
  <2>5. UNCHANGED <<ersCache, listener>> /\ (rec'.pc # "none" => rec'.copy = rec.copy)
    BY <1>0, <1>7 DEF ClaimPatch, WriteStatus, IdleRec, Reconcile
  <2> QED BY <2>2, <2>4, <2>5 DEF SizedInv, listener
<1>8. CASE TrimDone \/ ReconcileFails
  BY <1>0, <1>8 DEF TrimDone, ReconcileFails, kube, listener, IdleRec, Reconcile, SizedInv
<1>9. ASSUME NEW r \in Runners, CreateRunner(r) \/ TrimRunner(r) PROVE SizedInv'
  <2>1. UNCHANGED <<kube, ersCache, listener>> /\ rec'.copy = rec.copy /\ rec.pc # "none"
    BY <1>0, <1>9 DEF CreateRunner, TrimRunner, Reconcile
  <2> QED BY <2>1 DEF SizedInv, kube, listener
<1>10. ASSUME NEW m \in Managers, Failover(m) PROVE SizedInv'
  BY <1>0, <1>10 DEF Failover, kube, listener, IdleRec, SizedInv
<1>11. ASSUME NEW m \in Managers, SyncSet(m) PROVE SizedInv'
  BY <1>0, <1>11 DEF SyncSet, kube, listener, SizedInv
<1>12. CASE \E r \in Runners : RunnerStarts(r) \/ RunnerDeleted(r) \/ RunnerGone(r)
  BY <1>12 DEF RunnerStarts, RunnerDeleted, RunnerGone, kube, manager, listener, SizedInv
<1>13. CASE UNCHANGED vars
  BY <1>13 DEF vars, kube, manager, listener, SizedInv
<1> QED BY <1>1, <1>2, <1>3, <1>4, <1>5, <1>6, <1>7, <1>8, <1>9, <1>10, <1>11, <1>12, <1>13
        DEF Next, Listener, Controller, Environment

\* Sets of runners are finite, and a subset of one is no larger.
LEMMA FewerRunners ==
    ASSUME NEW S \in SUBSET Runners, NEW T \in SUBSET S
    PROVE  Cardinality(T) <= Cardinality(S) /\ Cardinality(T) \in Nat /\ Cardinality(S) \in Nat
<1>1. IsFiniteSet(S)
  BY ScalingAssumption, FS_Subset
<1> QED BY <1>1, FS_Subset, FS_CardinalityType

\* Runners that a reconcile knew of or created, and those it still means to create, stay
\* within MaxRunners together.
LEMMA CeilingKept ==
    ASSUME TypeOK, CeilingInv, [Next]_vars
    PROVE  rec'.pc \in {"claim", "create"} =>
               Cardinality(Owned' \ rec'.missed) + rec'.left <= MaxRunners
<1> SUFFICES ASSUME rec'.pc \in {"claim", "create"}
             PROVE  Cardinality(Owned' \ rec'.missed) + rec'.left <= MaxRunners
  OBVIOUS
<1>0. /\ rec \in Reconcile /\ runner \in [Runners -> Runner]
      /\ MaxRunners \in Nat /\ leader \in Managers /\ ersCache \in [Managers -> Version]
      /\ versions \subseteq Version /\ Owned \in SUBSET Runners
  BY SizingAssumption DEF TypeOK, Owned, Created
<1>1. ASSUME Owned' \subseteq Owned, rec.pc \in {"claim", "create"},
             rec'.missed = rec.missed, rec'.left = rec.left
      PROVE  Cardinality(Owned' \ rec'.missed) + rec'.left <= MaxRunners
  <2>1. Cardinality(Owned \ rec.missed) + rec.left <= MaxRunners /\ rec.left \in Nat
    BY <1>0, <1>1 DEF CeilingInv, Reconcile
  <2>2. Owned \ rec.missed \in SUBSET Runners /\ Owned' \ rec.missed \in SUBSET (Owned \ rec.missed)
    BY <1>0, <1>1
  <2> QED BY <1>0, <1>1, <2>1, <2>2, FewerRunners
<1>2. CASE StartReconcile
  <2>1. PICK owned \in SUBSET Created : \E safe \in SUBSET owned :
          rec' = Plan(ersCache[leader], owned, Cardinality(owned), safe)
    BY <1>2 DEF StartReconcile, Listable, Owned
  <2> DEFINE copy == ersCache[leader]
  <2>2. copy \in versions /\ copy \in Version
    BY <1>0 DEF CeilingInv, SizedInv
  <2>3. copy.replicas \in Nat /\ copy.patchID \in Nat /\ copy.lastID \in Nat
    BY <2>2 DEF Version
  <2>4. /\ Cardinality(owned) < copy.replicas /\ copy.patchID # copy.lastID
        /\ rec'.left = copy.replicas - Cardinality(owned)
        /\ rec'.missed = Owned \ owned
    BY <2>1 DEF Plan
  <2>5. copy.replicas <= MaxRunners
    BY <2>2, <2>4 DEF CeilingInv, SizedInv
  <2>6. owned \in SUBSET Runners /\ Owned \ (Owned \ owned) \in SUBSET owned
    BY DEF Created
  <2>7. /\ Cardinality(Owned \ (Owned \ owned)) <= Cardinality(owned)
        /\ Cardinality(Owned \ (Owned \ owned)) \in Nat /\ Cardinality(owned) \in Nat
    BY <2>6, FewerRunners
  <2>8. Owned' = Owned
    BY <1>2 DEF StartReconcile, Owned, Created
  <2> HIDE DEF copy
  <2> QED BY <1>0, <2>3, <2>4, <2>5, <2>7, <2>8
<1>3. ASSUME NEW r \in Runners, CreateRunner(r)
      PROVE  Cardinality(Owned' \ rec'.missed) + rec'.left <= MaxRunners
  <2>1. /\ rec.pc = "create" /\ rec.left > 0 /\ rec'.left = rec.left - 1
        /\ rec'.missed = rec.missed
    BY <1>0, <1>3 DEF CreateRunner, Reconcile
  <2>2. Owned' = Owned \cup {r}
    BY <1>0, <1>3 DEF CreateRunner, Owned, Created, Absent
  <2>3. Cardinality(Owned \ rec.missed) + rec.left <= MaxRunners /\ rec.left \in Nat
    BY <1>0, <2>1 DEF CeilingInv, Reconcile
  <2>4. IsFiniteSet(Owned \ rec.missed)
    BY <1>0, ScalingAssumption, FS_Subset
  <2>5. r \notin Owned
    BY <1>0, <1>3 DEF CreateRunner, Owned, Created, Absent
  <2>6. \/ Owned' \ rec.missed = Owned \ rec.missed
        \/ Owned' \ rec.missed = (Owned \ rec.missed) \cup {r}
    BY <2>2
  <2>7. Cardinality(Owned' \ rec.missed) <= Cardinality(Owned \ rec.missed) + 1
        /\ Cardinality(Owned \ rec.missed) \in Nat /\ Cardinality(Owned' \ rec.missed) \in Nat
    <3>1. Cardinality(Owned \ rec.missed) \in Nat
      BY <2>4, FS_CardinalityType
    <3>2. r \notin Owned \ rec.missed
      BY <2>5
    <3>3. Cardinality((Owned \ rec.missed) \cup {r}) = Cardinality(Owned \ rec.missed) + 1
      BY <2>4, <3>2, FS_AddElement
    <3> DEFINE before == Owned \ rec.missed
               after  == Owned' \ rec.missed
    <3>4. after = before \/ after = before \cup {r}
      BY <2>6
    <3>5. Cardinality(before) \in Nat /\ Cardinality(before \cup {r}) = Cardinality(before) + 1
      BY <3>1, <3>3
    <3> HIDE DEF before, after
    <3>6. /\ Cardinality(after) <= Cardinality(before) + 1
          /\ Cardinality(before) \in Nat /\ Cardinality(after) \in Nat
      <4>1. CASE after = before
        BY <3>5, <4>1
      <4>2. CASE after = before \cup {r}
        <5>1. Cardinality(after) = Cardinality(before) + 1
          BY <3>5, <4>2
        <5> QED BY <3>5, <5>1
      <4> QED BY <3>4, <4>1, <4>2
    <3> QED BY <3>6 DEF before, after
  <2> QED BY <1>0, <2>1, <2>3, <2>7
<1>4. CASE ClaimPatch
  <2>1. UNCHANGED runner /\ rec.pc = "claim" /\ rec'.missed = rec.missed /\ rec'.left = rec.left
    BY <1>0, <1>4 DEF ClaimPatch, Reconcile
  <2> QED BY <1>1, <2>1 DEF Owned, Created
<1>5. CASE WriteStatus \/ TrimDone \/ ReconcileFails
           \/ (\E r \in Runners : TrimRunner(r)) \/ \E m \in Managers : Failover(m)
  <2>1. rec' = IdleRec \/ rec'.pc \in {"trim", "status"}
    <3>1. CASE TrimDone
      BY <1>0, <3>1 DEF TrimDone, Reconcile
    <3>2. ASSUME NEW r \in Runners, TrimRunner(r) PROVE rec'.pc = "trim"
      BY <1>0, <3>2 DEF TrimRunner, Reconcile
    <3> QED BY <1>5, <3>1, <3>2 DEF WriteStatus, ReconcileFails, Failover
  <2> QED BY <2>1 DEF IdleRec
<1>6. CASE SizeSet \/ CreateSet \/ UpdateSet \/ WriteTargetSize \/ PollFails
           \/ \E m \in Managers : SyncSet(m)
  <2>1. UNCHANGED <<runner, rec>>
    BY <1>6 DEF SizeSet, CreateSet, UpdateSet, WriteTargetSize, PollFails, SyncSet, manager
  <2> QED BY <1>1, <2>1 DEF Owned, Created
<1>7. ASSUME NEW r \in Runners, RunnerStarts(r) \/ RunnerDeleted(r) \/ RunnerGone(r)
      PROVE  Cardinality(Owned' \ rec'.missed) + rec'.left <= MaxRunners
  <2>1. Owned' \subseteq Owned
    BY <1>0, <1>7 DEF RunnerStarts, RunnerDeleted, RunnerGone, Owned, Created, Kept
  <2>2. UNCHANGED rec
    BY <1>7 DEF RunnerStarts, RunnerDeleted, RunnerGone, manager
  <2> QED BY <1>1, <2>1, <2>2
<1>8. CASE UNCHANGED vars
  BY <1>1, <1>8 DEF vars, manager, Owned, Created
<1> QED BY <1>2, <1>3, <1>4, <1>5, <1>6, <1>7, <1>8
        DEF Next, Listener, Controller, Environment

\* Whenever a runner is created there are no more than MaxRunners, the ceiling its type
\* promises (api/v1alpha1/ephemeralrunnerset_types.go:34), beside those that the cached list
\* missed: however old the caches are, however many managers take over from one another and
\* whichever calls fail.
THEOREM CeilingHolds == Spec => CeilingOfListed
<1>1. Init /\ TypeOK => CeilingInv
  <2> SUFFICES ASSUME Init, TypeOK PROVE CeilingInv
    OBVIOUS
  <2>1. ers.patchID = 0 /\ ers.lastID = 0 /\ versions = {ers}
        /\ \A m \in Managers : ersCache[m] = ers
    BY StartsUnpatched DEF Init
  <2>2. rec.pc = "none" /\ poll.pc = "none"
    BY DEF Init, IdleRec, IdlePoll
  <2> QED BY <2>1, <2>2, SizingAssumption DEF CeilingInv, SizedInv
<1>2. TypeOK /\ CeilingInv /\ [Next]_vars => CeilingInv'
  BY SizedKept, CeilingKept DEF CeilingInv
<1>3. TypeOK /\ CeilingInv /\ [Next]_vars =>
         [\A r \in Runners : CreateRunner(r) => Cardinality(Owned' \ rec.missed) <= MaxRunners]_vars
  <2> SUFFICES ASSUME TypeOK, CeilingInv, NEW r \in Runners, CreateRunner(r)
               PROVE  Cardinality(Owned' \ rec.missed) <= MaxRunners
    OBVIOUS
  <2>1. /\ runner \in [Runners -> Runner] /\ rec \in Reconcile /\ MaxRunners \in Nat
        /\ Owned \in SUBSET Runners
    BY SizingAssumption DEF TypeOK, Owned, Created
  <2>2. rec.pc = "create" /\ rec.left > 0 /\ rec.left \in Nat
    BY <2>1 DEF CreateRunner, Reconcile
  <2>3. Owned' \ rec.missed \subseteq (Owned \ rec.missed) \cup {r}
    BY <2>1 DEF CreateRunner, Owned, Created, Absent
  <2>4. Cardinality(Owned \ rec.missed) + rec.left <= MaxRunners
    BY <2>2 DEF CeilingInv
  <2>5. IsFiniteSet(Owned \ rec.missed) /\ Cardinality(Owned \ rec.missed) \in Nat
    BY <2>1, ScalingAssumption, FS_Subset, FS_CardinalityType
  <2>6. /\ Cardinality((Owned \ rec.missed) \cup {r}) \in Nat
        /\ Cardinality((Owned \ rec.missed) \cup {r}) <= Cardinality(Owned \ rec.missed) + 1
    BY <2>5, FS_AddElement
  <2>7. /\ Cardinality(Owned' \ rec.missed) \in Nat
        /\ Cardinality(Owned' \ rec.missed) <= Cardinality((Owned \ rec.missed) \cup {r})
    BY <2>1, <2>3, FewerRunners
  <2> QED BY <2>1, <2>2, <2>4, <2>5, <2>6, <2>7
<1> QED BY <1>1, <1>2, <1>3, TypeCorrect, PTL DEF Spec, CeilingOfListed
=============================================================================
