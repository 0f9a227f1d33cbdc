-------------------------- MODULE RunnerSetScaling --------------------------
(***************************************************************************)
(* The scaling loop of one org-scoped GiteaRunnerSet: the listener polls   *)
(* Gitea and sizes the EphemeralRunnerSet (cmd/listener/main.go), and the  *)
(* leader's EphemeralRunnerSet controller creates and deletes              *)
(* EphemeralRunners to match (ephemeralrunnerset_controller.go).           *)
(*                                                                         *)
(* Both sides read the API server through informer caches that lag, and    *)
(* write with optimistic concurrency: an update carries the                *)
(* resourceVersion it was read at and is refused unless that is still the  *)
(* current one.  Every call that writes shared state is a step of its own, *)
(* so the two processes, the caches, the runners and a change of leader    *)
(* interleave freely.                                                      *)
(*                                                                         *)
(* A cached runner is any version the runner has been through, so a list   *)
(* of them may miss a runner already created, show one already gone, or    *)
(* show a started one as pending.  What a runner does once created is the  *)
(* environment here; counting demand, scaleDownSafe's evidence and the     *)
(* runner's own lifecycle have modules of their own.                       *)
(***************************************************************************)
EXTENDS SetSizing, FiniteSets

CONSTANTS
    Runners,        \* names of all EphemeralRunners ever created (never reused)
    Managers,       \* controller-manager replicas
    MaxQueue,       \* bound: waiting jobs a poll may find
    MaxPolls,       \* bound: polls, hence PatchIDs
    MaxFailovers,   \* bound: leader changes and manager restarts
    RunnerLag,      \* FALSE: the leader's list of runners is up to date
    Turnover        \* FALSE: no runner finishes or times out, only scale-down deletes

ASSUME ScalingAssumption ==
    /\ MaxQueue \in Nat /\ MaxPolls \in Nat /\ MaxFailovers \in Nat
    /\ RunnerLag \in BOOLEAN /\ Turnover \in BOOLEAN
    /\ IsFiniteSet(Runners)

VARIABLES
    ers,         \* the EphemeralRunnerSet as stored, rv = 0 while absent
    versions,    \* every version of it the API server has sent to watchers
    runner,      \* each EphemeralRunner as stored, with what its pod is doing
    leader,      \* the manager holding the lease
    ersCache,    \* each manager's cached EphemeralRunnerSet
    rec,         \* the leader's reconcile of this set
    poll,        \* the listener's pass over the set
    clock,       \* the last PatchID drawn from the wall clock
    failovers    \* leader changes so far

kube    == <<ers, versions>>
manager == <<leader, ersCache, rec, failovers>>
listener == <<poll, clock>>
vars    == <<kube, runner, manager, listener>>

\* A runner: not created yet, created with act_runner not started, started (and
\* perhaps finished), gone; and whether its deletion has been requested, its
\* finalizer keeping it (and its pod) until teardown is done.
Stages == {"absent", "pending", "started", "gone"}
Runner == [at : Stages, deleting : BOOLEAN]
Absent == [at |-> "absent", deleting |-> FALSE]

Created == {r \in Runners : runner[r].at # "absent"}
Owned   == {r \in Created : runner[r].at # "gone"}
Kept    == {r \in Owned : ~runner[r].deleting}

\* The status counts are left out: nothing reads them back, and a write that
\* changes only them can at most make another write conflict, which any write may.
Version == [rv : Nat, owner : BOOLEAN, replicas : Nat, patchID : Nat, lastID : Nat]

NoSet == [rv |-> 0, owner |-> FALSE, replicas |-> 0, patchID |-> 0, lastID |-> 0]

\* A set made before the listener stamped owner references and PatchIDs.
LegacySet == [NoSet EXCEPT !.rv = 1, !.replicas = MinRunners]

\* A reconcile: its next call, the set it read, the runners still to create or
\* delete, those it may delete, and (history) those that its list of runners missed.  A
\* listener's pass: its next call, the resource version it read, and what it writes.
Reconcile == [pc : {"none", "claim", "create", "trim", "status"}, copy : Version,
              left : Nat, safe : SUBSET Runners, missed : SUBSET Runners]
Pass      == [pc : {"none", "create", "update", "status"}, rv : Nat,
              replicas : Nat, patchID : Nat]

IdleRec  == [pc |-> "none", copy |-> NoSet, left |-> 0, safe |-> {}, missed |-> {}]
IdlePoll == [pc |-> "none", rv |-> 0, replicas |-> 0, patchID |-> 0]

TypeOK ==
    /\ ers \in Version
    /\ versions \subseteq Version
    /\ runner \in [Runners -> Runner]
    /\ leader \in Managers
    /\ ersCache \in [Managers -> Version]
    /\ rec \in Reconcile
    /\ poll \in Pass
    /\ clock \in 0 .. MaxPolls
    /\ failovers \in 0 .. MaxFailovers

Init ==
    /\ ers \in {NoSet, LegacySet}
    /\ versions = {ers}
    /\ runner = [r \in Runners |-> Absent]
    /\ leader \in Managers
    /\ ersCache = [m \in Managers |-> ers]
    /\ rec = IdleRec
    /\ poll = IdlePoll
    /\ clock = 0
    /\ failovers = 0

-----------------------------------------------------------------------------
(* The API server: a write stores the object under the next resource       *)
(* version, and one that changes nothing leaves it alone.  Watchers see     *)
(* the versions in order, each cache at its own pace.                       *)

Store(new) ==
    LET stored == IF new = ers THEN ers ELSE [new EXCEPT !.rv = ers.rv + 1]
    IN  /\ ers' = stored
        /\ versions' = versions \cup {stored}

SyncSet(m) ==
    /\ \E v \in versions : v.rv > ersCache[m].rv /\ ersCache' = [ersCache EXCEPT ![m] = v]
    /\ UNCHANGED <<kube, runner, leader, rec, failovers, listener>>

-----------------------------------------------------------------------------
(* The listener, every poll interval.                                       *)

\* (Mutant: the wall clock has not moved since the last PatchID.)
SizingOnStoppedClock(waiting, listed, occupied, copy) ==
    LET desired == Desired(waiting, Cardinality(occupied))
    IN [pc |-> IF copy.rv = 0 THEN "create" ELSE IF copy.replicas # desired THEN "update" ELSE "status",
        rv |-> copy.rv, replicas |-> desired, patchID |-> clock]

\* The call a poll decides on, and what it writes.
Sizing(waiting, listed, occupied, copy) ==
    LET desired == Desired(waiting, Cardinality(occupied))
        resize  == \/ copy.replicas # desired
                   \/ copy.patchID = 0
                   \/ ~copy.owner
                   \/ desired > Cardinality(listed)
    IN [pc |-> IF copy.rv = 0 THEN "create" ELSE IF resize THEN "update" ELSE "status",
        rv |-> copy.rv, replicas |-> desired, patchID |-> clock + 1]

\* One poll: the jobs, the runners and the set are read and the set is sized.
\* Jobs come, are cancelled and are claimed at any time, so any queue may be
\* found; of the runners listed, those already started or being deleted may count
\* as occupied.
SizeSet ==
    /\ poll.pc = "none" /\ clock < MaxPolls
    /\ clock' = clock + 1
    /\ \E waiting \in 0 .. MaxQueue, listed \in SUBSET Created, copy \in versions :
       \E occupied \in SUBSET {r \in listed : runner[r].deleting \/ runner[r].at # "pending"} :
          poll' = Sizing(waiting, listed, occupied, copy)
    /\ UNCHANGED <<kube, runner, manager>>

\* The set is created with its owner reference and replicas, unless it exists.
CreateSet ==
    /\ poll.pc = "create" /\ ers.rv = 0
    /\ Store([NoSet EXCEPT !.owner = TRUE, !.replicas = poll.replicas, !.patchID = poll.patchID])
    /\ poll' = [IdlePoll EXCEPT !.pc = "status", !.rv = ers'.rv]
    /\ UNCHANGED <<runner, manager, clock>>

\* Replicas, PatchID and a missing owner reference go in one update.
UpdateSet ==
    /\ poll.pc = "update" /\ poll.rv = ers.rv
    /\ Store([ers EXCEPT !.owner = TRUE, !.replicas = poll.replicas, !.patchID = poll.patchID])
    /\ poll' = [IdlePoll EXCEPT !.pc = "status", !.rv = ers'.rv]
    /\ UNCHANGED <<runner, manager, clock>>

\* targetSize comes with a new timestamp, so this write always makes a version;
\* the rest of the status is written back as it was read.
WriteTargetSize ==
    /\ poll.pc = "status" /\ poll.rv = ers.rv
    /\ ers' = [ers EXCEPT !.rv = @ + 1]
    /\ versions' = versions \cup {ers'}
    /\ poll' = IdlePoll
    /\ UNCHANGED <<runner, manager, clock>>

\* A conflict, an unreachable server, or the listener's process restarting.
PollFails ==
    /\ poll.pc # "none"
    /\ poll' = IdlePoll
    /\ UNCHANGED <<kube, runner, manager, clock>>

Listener == SizeSet \/ CreateSet \/ UpdateSet \/ WriteTargetSize \/ PollFails

-----------------------------------------------------------------------------
(* The EphemeralRunnerSet controller.  One key is reconciled by one worker  *)
(* at a time, and only on the leader.                                       *)

\* Which runners the cached list may hold, and which of them may look pending.
Listable == IF RunnerLag THEN SUBSET Created ELSE {Owned}
LooksPending(r) == RunnerLag \/ runner[r].at = "pending"

\* (Mutant: every reconcile fills the set up, whatever PatchID it has settled.)
PlanUngated(copy, owned, count, safe) ==
    LET grow == count < copy.replicas /\ copy.patchID # 0
        trim == count > copy.replicas /\ copy.patchID # 0
    IN [pc   |-> IF grow THEN "claim" ELSE IF trim THEN "trim" ELSE "status",
        copy |-> copy,
        left |-> IF grow THEN copy.replicas - count
                 ELSE IF trim THEN count - copy.replicas ELSE 0,
        safe |-> IF trim THEN safe ELSE {},
        missed |-> IF grow THEN Owned \ owned ELSE {}]

\* The branch taken, and how many runners to create or delete.
Plan(copy, owned, count, safe) ==
    LET grow == count < copy.replicas /\ copy.patchID # copy.lastID
        trim == count > copy.replicas /\ copy.patchID # 0
    IN [pc   |-> IF grow THEN "claim" ELSE IF trim THEN "trim" ELSE "status",
        copy |-> copy,
        left |-> IF grow THEN copy.replicas - count
                 ELSE IF trim THEN count - copy.replicas ELSE 0,
        safe |-> IF trim THEN safe ELSE {},
        missed |-> IF grow THEN Owned \ owned ELSE {}]

\* (Mutant: runners being deleted are not counted.)
StartReconcileOnKept ==
    /\ rec.pc = "none" /\ ersCache[leader].rv > 0
    /\ \E owned \in Listable : \E safe \in SUBSET {r \in owned : LooksPending(r)} :
          rec' = Plan(ersCache[leader], owned, Cardinality(owned \cap Kept), safe)
    /\ UNCHANGED <<kube, runner, leader, ersCache, failovers, listener>>

\* The set and its runners are read from the cache and the branch is chosen.
\* scaleDownSafe spares any runner whose age or pod says act_runner may have
\* started; it does not look at the deletion timestamp.
StartReconcile ==
    /\ rec.pc = "none" /\ ersCache[leader].rv > 0
    /\ \E owned \in Listable : \E safe \in SUBSET {r \in owned : LooksPending(r)} :
          rec' = Plan(ersCache[leader], owned, Cardinality(owned), safe)
    /\ UNCHANGED <<kube, runner, leader, ersCache, failovers, listener>>

\* (Mutant: the claim is written whatever version it was decided on.)
ClaimPatchBlindly ==
    /\ rec.pc = "claim"
    /\ Store([ers EXCEPT !.lastID = rec.copy.patchID])
    /\ rec' = [rec EXCEPT !.pc = "create"]
    /\ UNCHANGED <<runner, leader, ersCache, failovers, listener>>

\* Once the template and the credential are known to be good, the PatchID is
\* claimed with a write that a stale copy cannot make.
ClaimPatch ==
    /\ rec.pc = "claim" /\ rec.copy.rv = ers.rv
    /\ Store([ers EXCEPT !.lastID = rec.copy.patchID])
    /\ rec' = [rec EXCEPT !.pc = "create"]
    /\ UNCHANGED <<runner, leader, ersCache, failovers, listener>>

\* One turn of the creation loop: a registration token, then the runner.
CreateRunner(r) ==
    /\ rec.pc = "create" /\ rec.left > 0 /\ runner[r] = Absent
    /\ runner' = [runner EXCEPT ![r].at = "pending"]
    /\ rec' = [rec EXCEPT !.left = @ - 1, !.pc = IF rec.left = 1 THEN "status" ELSE "create"]
    /\ UNCHANGED <<kube, leader, ersCache, failovers, listener>>

\* One turn of the deletion loop; a runner that is already gone counts too.
TrimRunner(r) ==
    /\ rec.pc = "trim" /\ rec.left > 0 /\ r \in rec.safe
    /\ runner' = [runner EXCEPT ![r].deleting = TRUE]
    /\ rec' = [rec EXCEPT !.left = @ - 1, !.safe = @ \ {r}]
    /\ UNCHANGED <<kube, leader, ersCache, failovers, listener>>

TrimDone ==
    /\ rec.pc = "trim" /\ (rec.left = 0 \/ rec.safe = {})
    /\ rec' = [rec EXCEPT !.pc = "status"]
    /\ UNCHANGED <<kube, runner, leader, ersCache, failovers, listener>>

\* The final status write re-reads the cache on every conflict and puts this
\* reconcile's PatchID on whatever version it finds.
WriteStatus ==
    /\ rec.pc = "status" /\ ersCache[leader].rv = ers.rv
    /\ Store([ers EXCEPT !.lastID = rec.copy.patchID])
    /\ rec' = IdleRec
    /\ UNCHANGED <<runner, leader, ersCache, failovers, listener>>

\* Bad template or credential, a conflict on the claim, no registration token,
\* a failed create or delete, retries used up: the reconcile is requeued.
ReconcileFails ==
    /\ rec.pc # "none"
    /\ rec' = IdleRec
    /\ UNCHANGED <<kube, runner, leader, ersCache, failovers, listener>>

\* The leader's process ends wherever it was and a manager takes the lease: a
\* standby goes on with the cache it has, the old process restarts with a new one.
Failover(m) ==
    /\ failovers < MaxFailovers
    /\ failovers' = failovers + 1
    /\ leader' = m
    /\ ersCache' = [ersCache EXCEPT ![leader] = ers]
    /\ rec' = IdleRec
    /\ UNCHANGED <<kube, runner, listener>>

Controller ==
    \/ StartReconcile \/ ClaimPatch \/ TrimDone \/ WriteStatus \/ ReconcileFails
    \/ \E r \in Runners : CreateRunner(r) \/ TrimRunner(r)
    \/ \E m \in Managers : Failover(m)

-----------------------------------------------------------------------------
(* The runners, as their pods and the EphemeralRunner controller move them. *)

\* A runner whose deletion is pending still has its pod, and may still start.
RunnerStarts(r) ==
    /\ runner[r].at = "pending"
    /\ runner' = [runner EXCEPT ![r].at = "started"]
    /\ UNCHANGED <<kube, manager, listener>>

\* Teardown of a finished runner, or a timeout of the runner controller.
RunnerDeleted(r) ==
    /\ Turnover /\ r \in Kept
    /\ runner' = [runner EXCEPT ![r].deleting = TRUE]
    /\ UNCHANGED <<kube, manager, listener>>

RunnerGone(r) ==
    /\ r \in Owned \ Kept
    /\ runner' = [runner EXCEPT ![r].at = "gone"]
    /\ UNCHANGED <<kube, manager, listener>>

Environment ==
    \/ \E m \in Managers : SyncSet(m)
    \/ \E r \in Runners : RunnerStarts(r) \/ RunnerDeleted(r) \/ RunnerGone(r)

Next == Listener \/ Controller \/ Environment

Spec == Init /\ [][Next]_vars

-----------------------------------------------------------------------------
(* Properties.                                                              *)

Implements == INSTANCE OncePerPatch WITH
    published <- ers.patchID,
    target    <- ers.replicas,
    settled   <- ers.lastID,
    budget    <- IF rec.pc = "create" THEN rec.left ELSE 0

\* The loop with all its caches and conflicts is an implementation of the
\* patch protocol: patches are settled in increasing order, claimed while they
\* are the published one, and spent on no more runners than they ask for.
ImplementsOncePerPatch == Implements!Spec

\* "Scale up: create missing EphemeralRunners, once per listener PatchID"
\* (ephemeralrunnerset_controller.go:129): a PatchID that any version of the set
\* has recorded as reconciled is not claimed for creating runners again.
ClaimedOnce ==
    [][ClaimPatch => \A v \in versions : v.lastID # rec.copy.patchID]_vars

(* Why they hold with one manager: the parts of an inductive invariant.     *)

\* The versions are one history, in which PatchIDs and settled PatchIDs only grow.
HistoryInv ==
    /\ ers \in versions
    /\ \A v \in versions : v.rv <= ers.rv /\ v.lastID <= v.patchID
    /\ \A v, w \in versions : v.rv = w.rv => v = w
    /\ \A v, w \in versions : v.rv <= w.rv => v.patchID <= w.patchID /\ v.lastID <= w.lastID
    /\ ers.rv = 0 => ers = NoSet

\* A PatchID on its way to the API server is newer than any that got there.
PatchInv ==
    /\ ers.patchID <= clock
    /\ poll.pc \in {"create", "update"} => ers.patchID < clock /\ poll.patchID = clock

\* A reconcile works from a version its cache has been through, and what is
\* settled was settled from one too.
ReconcileInv ==
    /\ \A m \in Managers : ersCache[m] \in versions /\ ers.lastID <= ersCache[m].patchID
    /\ rec.pc # "none" =>
          /\ rec.copy \in versions
          /\ rec.copy.rv <= ersCache[leader].rv
          /\ ers.lastID <= rec.copy.patchID
    /\ rec.pc = "claim" => rec.copy.patchID # rec.copy.lastID /\ rec.left <= rec.copy.replicas
    /\ rec.pc \in {"claim", "create"} => rec.left > 0

ScalingInv == TypeOK /\ HistoryInv /\ PatchInv /\ ReconcileInv

\* "MaxRunners is the maximum number of runners (hard ceiling)"
\* (api/v1alpha1/ephemeralrunnerset_types.go:34), as far as it goes: whenever the controller
\* creates a runner, there are no more than MaxRunners (each counted until it is gone, as
\* the controller counts) beside those that its cached list missed.
CeilingOfListed ==
    [][\A r \in Runners : CreateRunner(r) => Cardinality(Owned' \ rec.missed) <= MaxRunners]_vars

\* Said of this code and not so: the ceiling, and "a reconcile that has not yet seen the
\* runners just created cannot add more" (ephemeralrunnerset_controller.go:158-159).  It can
\* for the next PatchID.
WithinMaxRunners == Cardinality(Owned) <= MaxRunners

\* Why the former holds, with any number of managers and failovers: a set the listener has
\* sized asks for no more, one it has not sized has no PatchID to spend, and a reconcile adds
\* what was missing from its list to runners that only became fewer since.
SizedInv ==
    /\ ers \in versions /\ \A m \in Managers : ersCache[m] \in versions
    /\ rec.pc # "none" => rec.copy \in versions
    /\ \A v \in versions : IF v.patchID = 0 THEN v.lastID = 0 ELSE v.replicas <= MaxRunners
    /\ ers.patchID = 0 => \A v \in versions : v.patchID = 0
    /\ poll.pc \in {"create", "update"} => poll.replicas <= MaxRunners /\ poll.patchID > 0

CeilingInv ==
    /\ SizedInv
    /\ rec.pc \in {"claim", "create"} => Cardinality(Owned \ rec.missed) + rec.left <= MaxRunners

\* "the controller only honors a scale-down for the patchID it is currently
\* reconciling, so a stale decision cannot delete a runner that a newer decision
\* wants to keep" (docs/adr/0003:122-124).
NoStaleTrim ==
    [][\A r \in Runners : TrimRunner(r) => ers.patchID = rec.copy.patchID]_vars

\* "Scale down: delete excess EphemeralRunners"
\* (ephemeralrunnerset_controller.go:201): a scale-down pass that asks for a
\* runner's deletion leaves the replicas it read, not counting runners that were
\* being deleted before.  It does not: README, section 6.
TrimsOnlyExcess ==
    [][\A r \in Kept : TrimRunner(r) => Cardinality(Kept) > rec.copy.replicas]_vars
=============================================================================
