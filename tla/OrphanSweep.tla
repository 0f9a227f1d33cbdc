----------------------------- MODULE OrphanSweep -----------------------------
(***************************************************************************)
(* The periodic sweep of one org's Gitea runners                           *)
(* (internal/controller/sweep_controller.go): a pass lists the registered  *)
(* runners, asks the informer caches which EphemeralRunners still have a   *)
(* pod, and deregisters every row whose name none of those claims.         *)
(*                                                                         *)
(* Around it run the things it races with: EphemeralRunners being created, *)
(* finalized or force-deleted, their pods being created and lost, pods     *)
(* registering, and the two caches lagging behind.                         *)
(***************************************************************************)
EXTENDS Integers, FiniteSets

CONSTANTS
    Names,      \* EphemeralRunner names: a pod and its rows carry the same name
    MaxPods,    \* bound: pods one EphemeralRunner is given
    PageSize,   \* rows Gitea returns for a request that names no page
    MaxFaults   \* bound: failed calls and restarts of the manager

ASSUME SweepAssumption ==
    /\ IsFiniteSet(Names)
    /\ MaxPods \in Nat \ {0} /\ PageSize \in Nat \ {0} /\ MaxFaults \in Nat

VARIABLES
    cr,        \* each EphemeralRunner: not created, without or with status.podName, gone
    pod,       \* its latest pod, by number, and whether that object exists
    reg,       \* each pod's row in Gitea: a pod registers once
    set,       \* whether a GiteaRunnerSet for the org exists
    seenCr,    \* the manager's cached EphemeralRunners: showing a podName, gone, or neither
    seenPod,   \* and its cached pods
    pc,        \* where the pass is
    rows,      \* the rows listed and not yet handled
    recorded,  \* the listed EphemeralRunners whose pod is yet to be looked up
    claimed,   \* claimedRunnerNames
    due,       \* history: the orphans there were when this pass began
    known,     \* history: of rows, those live and shown by the caches when they were listed
    faults

world == <<cr, pod, reg, set>>
cache == <<seenCr, seenPod>>
local == <<pc, rows, recorded, claimed, due, known>>
vars  == <<world, cache, local, faults>>

Pods    == 1 .. MaxPods
CrState == {"absent", "new", "recorded", "gone"}
PodObj  == [n : 0 .. MaxPods, exists : BOOLEAN]
Rows    == Names \X Pods

TypeOK ==
    /\ cr \in [Names -> CrState] /\ seenCr \in [Names -> {"unnamed", "recorded", "gone"}]
    /\ pod \in [Names -> PodObj] /\ seenPod \in [Names -> PodObj]
    /\ reg \in [Rows -> {"none", "registered", "removed"}] /\ set \in BOOLEAN
    /\ pc \in {"idle", "runners", "names"}
    /\ rows \subseteq Rows /\ due \subseteq Rows /\ known \subseteq rows
    /\ recorded \subseteq Names /\ claimed \subseteq Names
    /\ faults \in 0 .. MaxFaults

Registered  == {r \in Rows : reg[r] = "registered"}
Without(gone) == [r \in Rows |-> IF r \in gone /\ reg[r] = "registered" THEN "removed" ELSE reg[r]]

Exists(n)   == cr[n] \in {"new", "recorded"}
Orphan(n)   == cr[n] = "gone" /\ ~pod[n].exists
CrNow(n)    == IF cr[n] \in {"recorded", "gone"} THEN cr[n] ELSE "unnamed"
SeenDead(n) == Orphan(n) /\ (seenCr[n] = "gone" \/ seenPod[n] = pod[n])
Live(r)     == Exists(r[1]) /\ pod[r[1]] = [n |-> r[2], exists |-> TRUE]
SeenLive(r) == Live(r) /\ seenCr[r[1]] = "recorded" /\ seenPod[r[1]] = pod[r[1]]

\* Every pod that is to be looked up has been: the rows are next.
Claimed == pc = "names" /\ recorded = {}

Init ==
    /\ cr = [n \in Names |-> "absent"] /\ seenCr = [n \in Names |-> "unnamed"]
    /\ pod = [n \in Names |-> [n |-> 0, exists |-> FALSE]] /\ seenPod = pod
    /\ reg = [r \in Rows |-> "none"] /\ set = TRUE
    /\ pc = "idle" /\ rows = {} /\ recorded = {} /\ claimed = {}
    /\ due = {} /\ known = {} /\ faults = 0

-----------------------------------------------------------------------------
(* The pass.                                                                *)

\* (Mutant: the orgs to sweep are taken from the EphemeralRunners there are.)
ListRowsOfRunners ==
    /\ pc = "idle" /\ set /\ \E n \in Names : Exists(n)
    /\ pc' = "runners" /\ due' = {r \in Registered : SeenDead(r[1])}
    /\ rows' = Registered /\ known' = {r \in Registered : SeenLive(r)}
    /\ UNCHANGED <<world, cache, recorded, claimed, faults>>

\* The credential is read and a set of the org found in the cache; ListOrgRunners asks for
\* no page and gets the server's first one.
ListOrgRunners ==
    /\ pc = "idle" /\ set
    /\ pc' = "runners" /\ due' = {r \in Registered : SeenDead(r[1])}
    /\ \E page \in SUBSET Registered :
        /\ Cardinality(page) <= PageSize
        /\ page = Registered \/ Cardinality(page) = PageSize
        /\ rows' = page /\ known' = {r \in page : SeenLive(r)}
    /\ UNCHANGED <<world, cache, recorded, claimed, faults>>

ListEphemeralRunners ==
    /\ pc = "runners"
    /\ recorded' = {n \in Names : seenCr[n] = "recorded"}
    /\ pc' = "names"
    /\ UNCHANGED <<world, cache, rows, claimed, due, known, faults>>

\* (Mutant: the map of claims is made anew for each runner.)
GetPodForgetting(n) ==
    /\ pc = "names" /\ n \in recorded
    /\ recorded' = recorded \ {n}
    /\ claimed' = IF seenPod[n].exists THEN {n} ELSE {}
    /\ UNCHANGED <<world, cache, pc, rows, due, known, faults>>

\* The pod is looked up in the cache too: a pod of any number claims the name.
GetPod(n) ==
    /\ pc = "names" /\ n \in recorded
    /\ recorded' = recorded \ {n}
    /\ claimed' = IF seenPod[n].exists THEN claimed \union {n} ELSE claimed
    /\ UNCHANGED <<world, cache, pc, rows, due, known, faults>>

SkipClaimed(r) ==
    /\ Claimed /\ r \in rows /\ r[1] \in claimed
    /\ rows' = rows \ {r} /\ known' = known \ {r}
    /\ UNCHANGED <<world, cache, pc, recorded, claimed, due, faults>>

\* A row that is already gone counts as deregistered.
DeregisterOrgRunner(r) ==
    /\ Claimed /\ r \in rows /\ r[1] \notin claimed
    /\ rows' = rows \ {r} /\ known' = known \ {r}
    /\ reg' = Without({r})
    /\ UNCHANGED <<cr, pod, set, cache, pc, recorded, claimed, due, faults>>

\* A failed call leaves the row to the next pass and the loop goes on.
DeregisterFails(r) ==
    /\ faults < MaxFaults
    /\ Claimed /\ r \in rows /\ r[1] \notin claimed
    /\ rows' = rows \ {r} /\ known' = known \ {r} /\ due' = due \ {r} /\ faults' = faults + 1
    /\ UNCHANGED <<world, cache, pc, recorded, claimed>>

\* (Mutant: the claims are kept for the next pass.)
EndSweepKeepingClaims ==
    /\ Claimed /\ rows = {}
    /\ pc' = "idle" /\ due' = {}
    /\ UNCHANGED <<world, cache, rows, recorded, claimed, known, faults>>

\* The map of claims is made anew by each pass.
EndSweep ==
    /\ Claimed /\ rows = {}
    /\ pc' = "idle" /\ claimed' = {} /\ due' = {}
    /\ UNCHANGED <<world, cache, rows, recorded, known, faults>>

\* A list fails, or the manager stops: the next pass starts over.
AbandonSweep ==
    /\ faults < MaxFaults /\ pc # "idle"
    /\ pc' = "idle" /\ rows' = {} /\ recorded' = {} /\ claimed' = {}
    /\ due' = {} /\ known' = {} /\ faults' = faults + 1
    /\ UNCHANGED <<world, cache>>

-----------------------------------------------------------------------------
(* What the sweep races with.                                               *)

SyncCr(n) ==
    /\ seenCr[n] # CrNow(n) /\ seenCr' = [seenCr EXCEPT ![n] = CrNow(n)]
    /\ UNCHANGED <<world, seenPod, local, faults>>

SyncPod(n) ==
    /\ seenPod[n] # pod[n] /\ seenPod' = [seenPod EXCEPT ![n] = pod[n]]
    /\ UNCHANGED <<world, seenCr, local, faults>>

CreateRunner(n) ==
    /\ set /\ cr[n] = "absent"
    /\ cr' = [cr EXCEPT ![n] = "new"]
    /\ UNCHANGED <<pod, reg, set, cache, local, faults>>

\* The EphemeralRunner controller creates the pod, again when it is lost, ...
CreatePod(n) ==
    /\ Exists(n) /\ ~pod[n].exists /\ pod[n].n < MaxPods
    /\ pod' = [pod EXCEPT ![n] = [n |-> @.n + 1, exists |-> TRUE]]
    /\ UNCHANGED <<cr, reg, set, cache, local, faults>>

\* ... and writes its name to the status in a later call of the same reconcile.  No other
\* one does, so when that call fails, or comes too late, the name stays unrecorded.
RecordPod(n) ==
    /\ cr[n] = "new" /\ pod[n].n > 0
    /\ cr' = [cr EXCEPT ![n] = "recorded"]
    /\ UNCHANGED <<pod, reg, set, cache, local, faults>>

PodLost(n) ==
    /\ pod[n].exists
    /\ pod' = [pod EXCEPT ![n] = [n |-> @.n, exists |-> FALSE]]
    /\ UNCHANGED <<cr, reg, set, cache, local, faults>>

\* act_runner registers as soon as it runs, whatever is recorded or cached by then.
PodRegisters(n) ==
    /\ pod[n].exists /\ reg[<<n, pod[n].n>>] = "none"
    /\ reg' = [reg EXCEPT ![<<n, pod[n].n>>] = "registered"]
    /\ UNCHANGED <<cr, pod, set, cache, local, faults>>

\* Gitea drops an ephemeral runner's row after its job.
JobEnds(r) ==
    /\ r \in Registered /\ reg' = Without({r})
    /\ UNCHANGED <<cr, pod, set, cache, local, faults>>

\* The EphemeralRunner goes, deregistered by the finalizer, in part (the finalizer lists
\* one page too) or, removed by force, not at all.
RemoveRunner(n) ==
    /\ Exists(n)
    /\ cr' = [cr EXCEPT ![n] = "gone"]
    /\ \E gone \in SUBSET ({n} \X Pods) : reg' = Without(gone)
    /\ UNCHANGED <<pod, set, cache, local, faults>>

\* A pod is deleted with its owner: the garbage collector's part of PodLost.
GarbageCollect(n) == cr[n] = "gone" /\ PodLost(n)

RemoveSet ==
    /\ set /\ set' = FALSE
    /\ UNCHANGED <<cr, pod, reg, cache, local, faults>>

-----------------------------------------------------------------------------
Sweep ==
    \/ ListOrgRunners \/ ListEphemeralRunners \/ EndSweep
    \/ \E n \in Names : GetPod(n)
    \/ \E r \in Rows : SkipClaimed(r) \/ DeregisterOrgRunner(r)

Fault == AbandonSweep \/ \E r \in Rows : DeregisterFails(r)

Environment ==
    \/ RemoveSet
    \/ \E r \in Rows : JobEnds(r)
    \/ \E n \in Names :
        \/ SyncCr(n) \/ SyncPod(n) \/ CreateRunner(n) \/ CreatePod(n) \/ RecordPod(n)
        \/ PodLost(n) \/ PodRegisters(n) \/ RemoveRunner(n)

Next == Sweep \/ Fault \/ Environment

Spec == Init /\ [][Next]_vars

\* The ticker starts pass after pass and the loop runs on; caches catch up; the
\* garbage collector works.  Nothing else is promised.
Fairness ==
    /\ WF_vars(Sweep)
    /\ \A n \in Names : WF_vars(SyncCr(n)) /\ WF_vars(SyncPod(n)) /\ WF_vars(GarbageCollect(n))

FairSpec == Spec /\ Fairness

-----------------------------------------------------------------------------
(* Properties.                                                              *)

\* A row is safe from a pass that finds its runner and pod in the caches when it lists the
\* row: as long as that pod lives, whatever changes before the row's turn, the row is not
\* deregistered (sweepOrgRunners: "claimed by a live CR").
KnownRowKept == [][\A r \in known : Live(r) => ~DeregisterOrgRunner(r)]_vars

\* Said of this code and not so: the sweep never deregisters the row of a pod that exists
\* under an EphemeralRunner that exists.  "A newly-registered runner will be matched by a
\* live CR (whose pod is running), so it won't be deregistered even if status updates
\* haven't fully propagated" (internal/controller/sweep_controller.go:157-159).
LiveRowKept == [][\A r \in Registered : Live(r) => ~DeregisterOrgRunner(r)]_vars

\* Why a known row is kept: the caches go on showing its runner, recorded, and its pod, for
\* as long as both are there, and rows are listed before the claims are collected.
KnownSeen == \A r \in known : Live(r) => SeenLive(r)

KnownClaimed ==
    pc = "names" => \A r \in known : Live(r) => r[1] \in recorded \union claimed

\* What is listed or cached has happened.
PastInv ==
    /\ \A n \in Names :
          /\ cr[n] = "absent" => pod[n].n = 0
          /\ seenCr[n] = "recorded" => cr[n] \in {"recorded", "gone"}
    /\ \A r \in Rows : reg[r] # "none" => r[2] <= pod[r[1]].n
    /\ \A r \in rows : reg[r] # "none"

SweepInv ==
    /\ TypeOK
    /\ PastInv
    /\ KnownSeen /\ KnownClaimed

\* A pass that runs to its end without a failed call leaves none of the orphans that
\* it could see when it began.
PassClearsOrphans == Claimed /\ rows = {} => due \intersect Registered = {}

\* The rows of a runner that is gone with its pod are gone eventually, by whatever
\* failures and restarts, as long as the org has a set (sweep_controller.go:124-126).
OrphanSwept == \A n \in Names : Orphan(n) ~> Registered \intersect ({n} \X Pods) = {} \/ ~set
=============================================================================
