# Formal models of the Gitea Actions controller

TLA+ models, TLC runs and TLAPS proofs for the controller in `src/`: a listener
that sizes sets of CI runners from Gitea's job queue, and a Kubernetes controller
manager that creates, watches and tears down one ephemeral runner per job.

Paths below are relative to `src/`; `ERS` stands for
`internal/controller/ephemeralrunnerset_controller.go` and `ER` for
`internal/controller/ephemeralrunner_controller.go`.

## 1. Inventory

### The parts and how they interact

```
                 jobs                      PatchID, replicas
   Gitea ------------------> Listener ----------------------> EphemeralRunnerSet
     ^ rows, jobs                                                   |  ^
     |                                                 claim, create|  |lastReconcilePatchID
     |   deregister            manager (leader)                     v  |
     +<----------------- sweep, ER controller, ERS controller --------+
     |                          |        |
     |  register, claim         v        v
     +<----- act_runner in a Pod      EphemeralRunner (finalizer, status)
```

All state shared between the processes is in Kubernetes objects and in Gitea.
Every process reads Kubernetes through informer caches and writes with optimistic
concurrency; Gitea is read and written by HTTP calls without versions.

| Part | State it keeps | Operations | What is hard | What makes it correct |
|---|---|---|---|---|
| Listener (`cmd/listener/main.go`, `demand.go`) | none between polls; writes `spec.replicas`, `spec.patchID`, `status.targetSize` | poll: list jobs and runners, assign jobs to sets, size each set (create, update, status) | lagging caches, conflicts with the controller, several sets sharing an org | each job counted once, sizes between occupied and ceiling, PatchIDs only grow |
| EphemeralRunnerSet controller (`ERS`) | `status.lastReconcilePatchID`; otherwise none | reconcile: claim a PatchID and create, or pick safe runners and delete, then write status; delete a set without parent | stale lists, claim vs. final status write, failover between two writes | a patch is spent once; no more runners than the ceiling; no busy or wanted runner deleted |
| EphemeralRunner controller (`ER`) | status: phase, its start, job, last progress; finalizer | reconcile: finalizer, Secret, pod, phase, progress, timeouts, teardown; finalizer: deregister | status events filtered out, re-reads from a cache, replaced pods, clocks, ten workers | every runner ends; finished or hung pods are torn down; finalizer before pod; counters match |
| Sweep (`sweep_controller.go`) | none | ticker: list rows, collect claims, deregister the rest | rows and claims read at different times from different places | never a live row; every orphan in the end |
| Gitea client (`internal/gitea/client.go`) | none | list runners, list jobs by page, deregister, log size, token | paging, absent rows, errors | complete lists, idempotent deletes |
| Metrics (`internal/metrics/metrics.go`) | counters and gauges | incremented at decision points | retries after counting | one start and one completion per runner |
| Manager (`cmd/manager/main.go`) | the lease | leader election | a leader that stops anywhere | one leader acts |
| Teardown credential, watched namespaces, API types | configuration | read at start or per call | | |

Manifests (`config/`, `charts/`), the runner image (`runner/`) and the scripts
(`dev/`, `hack/`) deploy or exercise the system and keep no state of it.
`PROJECT.json` lists every part with its status, and under `hazards` every place
in this code where an order of events, a failure or a stale copy can go wrong.

### Where the hazards are

The four that shape the models:

* **A decision is made on one copy and carried out on another.** Reconciles read a
  cache, and their deletes carry no version (`ERS:219`, `ER:289`), their final
  status write takes whatever version it finds (`ERS:287`), and the re-fetch before
  the timeout check reads the cache again (`ER:239`).
* **The PatchID is claimed before it is spent** (`ERS:157-166`), so a crash between
  the two loses the creation and a stale copy must not repeat it.
* **Status changes raise no events** (`ER:1043`): only requeues notice that a pod
  ran, finished or hung, so liveness rests on every return path's requeue.
* **Kubernetes and Gitea disagree for a while** about who exists and who is busy:
  registrations during teardown, claims during the idle check, rows during a sweep.

## 2. Plan

| Order | Module | What | State |
|---|---|---|---|
| 1 | `RunnerSetScaling` + `OncePerPatch` (sizes: `SetSizing`) | the scaling loop and the protocol it implements | modelled, checked; proved for one manager, the ceiling for any number |
| 2 | `EphemeralRunner` | the life of a runner, its finalizer and counters | modelled, checked; finalizer, teardown and the order of phases proved |
| 3 | `Demand` | counting jobs toward sets, sizing | modelled, checked, proved |
| 4 | `OrphanSweep` | the sweep against everything it races with | modelled, checked, safety proved |
| 5 | `IdleBaseline` | which idle runners are reaped | modelled, checked, safety proved |
| 6 | `DemandServed` | listener, scaling and runner composed: a queued job gets a runner | modelled, checked, safety proved |
| 7 | `ScaleDownSafe` | the evidence of `ERS:314-379` with pods and a clock; the order of candidates | modelled, checked, safety proved |
| 8 | `SetOwnership` | `handleMissingParent`, owner references, a re-created GiteaRunnerSet | modelled, checked, safety proved |
| 9 | `JobListing` | the paging of `ListOrgJobs` while jobs move | later |
| 10 | proofs | the order of phases, what `DemandServed` and `IdleBaseline` keep | done (section 7) |

`RunnerSetScaling` and `EphemeralRunner` abstract each other: to the first a runner
only starts, is deleted and goes; to the second its set only asks for its deletion.
`Demand` is the part of the poll that `RunnerSetScaling` shows for one set
(`Assigned`, `Desired`, kept in `SetSizing`, which `DemandServed` shares). `IdleBaseline`
is the branch that `EphemeralRunner` leaves open in `KeepRunner` (an idle runner past
its timeout may be kept).

Three modules open what `RunnerSetScaling` leaves to choice. `DemandServed` closes the
loop around the queue: its runners claim the jobs that its listener counts, so that
liveness can be asked. `ScaleDownSafe` replaces "may look pending" in
`StartReconcile` by what a pod of a known age shows. `SetOwnership` looks at one
thing the other two take for granted, that the set has a parent.

## 3. Modules and the code

### `RunnerSetScaling` (listener and ERS controller, one org-scoped set)

| State | Code |
|---|---|
| `ers`, `versions` | the EphemeralRunnerSet at the API server and every version watchers were sent |
| `ersCache`, `leader` | each manager's informer copy; the holder of the lease |
| `rec` | the local variables of `Reconcile`: the copy read, the turns left of a loop, the candidates; and, as history, the runners missed by the list it read |
| `poll` | the local variables of `syncDemand`: version read, replicas and PatchID to write |
| `runner` | per EphemeralRunner: not created, pending, started or gone, and its deletion timestamp |
| `clock` | the last PatchID (`generatePatchIDInt`), assumed to advance |

`SizeSet`, `CreateSet`, `UpdateSet`, `WriteTargetSize` are the calls of one poll;
`StartReconcile`, `ClaimPatch`, `CreateRunner`, `TrimRunner`, `TrimDone` and
`WriteStatus` those of one reconcile; `PollFails` and `ReconcileFails` every error
return; `Failover` a lease change or a restart. Each API call is one step, so
caches (`SyncSet`), runners and the other process come between any two.
With `RunnerLag` the cached list of runners may be any set of runners ever created,
which is more than an informer can show; the properties that hold, hold even so.
The status counts and `targetSize` are left out: nothing decides on them.

`OncePerPatch` is the abstract protocol: patches published in order, each claimed
at most once, while published, for at most its replicas. The refinement maps
`published`, `target` and `settled` to the stored set's `patchID`, `replicas` and
`lastReconcilePatchID`, and `budget` to the turns left in the creation loop.

### `DemandServed` (listener, ERS controller, runners and Gitea's queue)

| State | Code |
|---|---|
| `ers` | replicas, and whether `lastReconcilePatchID` is the published `patchID` |
| `cached`, `listed` | the set and the runners in the informers of the listener and of the manager |
| `left` | the turns left in the creation loop |
| `runner` | per EphemeralRunner: absent, pending, ready (act_runner polls), busy, ended |
| `arrived`, `queued` | the org's jobs |

PatchIDs and resource versions are only ever compared for equality with the stored
ones, so a copy carries the outcomes instead: `current` (an update made from it will not
conflict) and `fresh` (it has the published PatchID). That keeps the behaviours
infinite and the states finite, which a liveness property needs. `UpdateSet` is a poll
that writes, `ClaimPatch` and `CreateRunner` the scale-up, `Trim` the scale-down,
`NothingToDo` a reconcile that only writes its status; `RecordPatch` is the final
status write in both: it stamps the PatchID of the copy the reconcile began with, so it
settles the published size if that copy has it, and would open it again if not. Read and
write are one step, because a cached copy may be arbitrarily old at the read already;
`RunnerSetScaling` has them apart. Each mishap (a creation loop cut short, a runner timed
out or lost before it has a job) counts against `MaxMishaps`; conflicts and stale copies
do not. `Trim` deletes any number of the surplus, none included: which runners are safe is
left to `ScaleDownSafe`, and what this module says holds however many the code spares.
Left out: the listener's own status write, which decides nothing and conflicts with the
controller's as its update does.

### `ScaleDownSafe` (`scaleDownSafe`, the deletion loop)

The code infers from two ages and a cached pod that a runner "has certainly not claimed
a job" (`ERS:314-315`). Everything here has an age in ticks (`age` of the runner,
`pod[r].bound`, `begun`); `made`, `running` and `recorded` (the phase in its status) only
hold or not. A copy that is `d` ticks old is what was true then: `past` keeps what each
runner and its pod looked like 1 to `Lag` ticks ago, so a pod that was lost, or a phase
that went back to Pending, is still shown by the older copies. `Safe` is `scaleDownSafe`
and `Rank` `scaleDownRank` on such copies, a different `d` for each pod; `Trim` and
`TrimFails` are the deletion loop. The rest is environment: the pod is bound, its
container starts, its phase leaves Pending (later, if another container is still being
created), the job is claimed, the pod is lost and replaced. `Lag` covers the time between
reading the evidence and the delete as well.

How fast all this goes is not in the code, so it is in constants: no claim sooner than
`MinClaim` after the container starts; a pod is bound within `MaxWait` of its runner's
creation and started within `MaxPull` of that, or never. `Timely` names the two ways in
which that is enough, and is the hypothesis of the theorem. Ages stop at `Horizon`;
`MaxWait` or `MaxPull` equal to it is no limit.

### `SetOwnership` (`ensureOwnedBy`, `handleMissingParent`)

`grs` is the UID of the GiteaRunnerSet with the name in question (0: none), `ers` the
UID and owner of the EphemeralRunnerSet with the same name, `runner` the UID of the set
each EphemeralRunner refers to. `CreateSet` and `AdoptSet` are the listener's poll;
`StartReconcile`, `ConfirmAbsence` (the read past the cache) and `DeleteSet` the
branch without a parent; `ClaimPatch`, `CreateRunner` and `EndReconcile` the branch
with one, as far as it makes runners that refer to a set; `CollectSet` and
`CollectRunner` the garbage collector. A second controller reference is refused by the
API server, so `AdoptSet` needs a set without one. Left out: foreground
deletion, in which a set being deleted lingers (`ERS:490`).

### `EphemeralRunner` (one runner)

`er`, `pod`, `secret` are the stored objects; `reg` and `jobs` what Gitea holds for
each pod; `cache` each manager's copies; `queued` the work queue; `rec` the
reconcile, whose `pc` names its next call; `started` and `completed` the counters.
The calls of `Reconcile` appear in its order: finalizer, Secret, pod (`CreatePod`,
`RecordCreation`, `CreateRejected`, `RecordRejection`), phase (`ObservePod`,
`WritePhase`), the re-fetch and Gitea's answer (`ReadProgress`, `Heartbeat`),
timeouts (`KeepRunner`, `TimeOutRunner`, `DeleteRunner`) and the finalizer's work
(`ListRegistrations`, `Deregister`, `RemoveFinalizer`). Every return that asks for a
requeue sets `queued`; `SyncRunner` and `SyncPod` do so only for the changes that
`GenerationChangedPredicate` lets through.

`ListRegistrations` gets one page, as `ListOrgRunners` names none
(`internal/gitea/client.go:97-98`): all the rows under the runner's name, or as many as
fit in `PageSize` beside up to `OtherRows` rows of others. `rec.missed` is history: what
the page left out.

Timestamps are ages that stop at the longest timeout. A write conflicts when the
copy it was made from differs from what is stored; versions that differ only in
fields left out are equal to every step. Left out: reasons, labels of the counters,
log sizes (growth is a choice while the job may grow), the Unknown pod phase,
instance-scoped runners and unset timeouts.

### `Demand` (`cmd/listener/demand.go`)

`assignQueuedJobs` as a loop of one job per step (`CountToward`, `LeaveWaiting`) over
any sets, runners and queue, and `desiredRunners` as an operator on its result.
Repeated labels in one set are left out.

### `OrphanSweep` (`sweep_controller.go`)

One pass over one org: list the rows (`ListOrgRunners`, one page), list the
EphemeralRunners (`ListEphemeralRunners`), look each one's pod up (`GetPod`), then
skip or deregister each row. Around it pods register as soon as they exist: whether the
manager has recorded or cached anything of them by then is left open. `RecordPod` is the
one write of `status.podName` (`ER:194`, `ER:212`); nothing repeats it, so it may never
happen. Two history variables: `due`, the orphans the pass could have seen at its start,
and `known`, the rows listed whose runner and pod the caches showed at that moment.

### `IdleBaseline` (`checkTimeout`, `withinBaseline`)

One set's idle runners, a worker per runner up to `Workers`
(`MaxConcurrentReconciles`), the jobs Gitea shows running and the cached objects.
`ListOrgJobs` and `WithinBaseline` are the two reads of `withinBaseline`, and
`DeleteRunner` its consequence. The branch for an outdated spec is left out: like
`overage`, it deletes without counting.

### Mutants

Operators marked `(Mutant: ...)` are wrong on purpose: variants of a neighbouring
definition with a plausible bug. No specification uses them. Each property of a
passing run is violated when the variant named in `PROJECT.json` takes the place of
its original, so the property can tell this code from a broken one.

## 4. Runs

`tlc -workers 2 -config X.cfg MCmodule`, from this directory.

| Run | Instance | Shows |
|---|---|---|
| `scaling_one_leader` | 3 runners, 1 manager, maxRunners 2, 2 polls, 1 restart, lagging lists; 353,698 states | `ScalingInv`, `CeilingOfListed`, `ClaimedOnce`, `ImplementsOncePerPatch` hold |
| `runner_finalizer` | 2 pods, a page of 2 rows and 1 row of another runner, 1 restart, timeouts 0; 4,205,403 states | `LifecycleInv`, `StartedOncePerPod`, `OnlyLateRegistration` hold |
| `runner_progress` | 1 pod, timeouts 1, 1 fault, fair; 353,647 states | `PhaseForward`, `PendingResolves`, `FinishedTornDown`, `HungTornDown` hold |
| `runner_started_once` | 2 pods | `StartedOnce` fails |
| `demand_two_sets` | 2 sets, 2 labels, 2 runners, 2 jobs; 525,312 states | `CountedTowardOne`, `PassedOverOnlyFull`, `SizedForItsJobs` hold |
| `demand_served` | 2 jobs in all, 2 runner names, minRunners 0, maxRunners 1, 1 mishap, fair; 144,536 states | `SettledWhenMet`, `RestsWhenServed`, `JobsServed`, `TypeOK` hold |
| `scale_down` | 2 runners, 1 or 2 wanted, grace 2, lag 1, waits and pulls 1, fair; 449,320 states | `BusyNeverKilled`, `PullingSpared`, `StuckTrimmed` hold |
| `set_ownership` | 2 parents, 3 set UIDs, 2 runners, 1 failure, fair; 458,865 states | `OrphansGone`, `ParentServed`, `LiveParentKept` hold |
| `sweep` | 2 names, 1 pod each, all rows on the page, 1 fault, fair; 623,644 states | `SweepInv`, `PassClearsOrphans`, `KnownRowKept`, `OrphanSwept` hold |
| `sweep_unrecorded` | 1 name, no fault | `LiveRowKept` fails |
| `baseline_idle` | 2 runners, 1 worker, minRunners 1, fair; 5,765 states | `TypeOK`, `NoneIdlesForever`, `RecordedClaimKept` hold |
| `baseline_busy` | 3 runners, 1 worker | `ListedBusyKept` fails |

**Bounds and why they are enough.** Two polls give an old and a new PatchID, which is
what a stale copy confuses; a third lets a set grow and then shrink. Three runners
are one more than `maxRunners`, so the ceiling can be broken, and two let a creation loop be
cut short in the middle. One failover puts a restart between
any two calls. Two pods are a pod and its replacement: a third repeats the second.
A timeout of 1 has a before and an after, and 0 a timeout that has always passed,
which can only delete more (`runner_finalizer` needs no more, its properties not
being about time). One failed call falls at every place in turn. Two sets with two
labels order by label count and by name, overlap, contain each other or are
disjoint. Two names let one row be claimed while the other is an orphan.
`MaxStarts` and `MaxCompletions` 0 stop a counter in the runs that do not read it; 3 starts
are one more than two pods may have. In `sweep`
all rows fit one page (section 6 has the other case); in `runner_finalizer` two rows and
another's do not, so the page may leave one out. In `demand_served` jobs exceed
the ceiling, so one has to wait for a runner to finish, and the mishap falls on any
creation or any runner; its creation loop is one runner long, and a loop that fails half
way is in `scaling_one_leader`. In `scale_down` the grace is the lag plus a wait of one: the
least for which there is a pod that starts late and is spared all the same; two
runners are a victim and the one it should have been. Two parents are one and its
successor; three set UIDs are a set, one that somebody still remembers and a new one.

**Deadlock** is not checked: polls, pods and faults are bounded, so each system stops
when the bounds are used up; where it must not stop, a liveness property says so.

**Symmetry** is used for runner names in `scaling_one_leader`, which checks safety
only; no action or property there names or orders them.

## 5. Fairness

* `EphemeralRunner!Fairness`: weak fairness of the reconcile (the work queue hands out
  a queued key, and a call returns), of each cache (informers deliver), and of the
  clock. Nothing of pods, Gitea or users is fair. A call fails at most `MaxFaults`
  times beside conflicts: an error that lasts for ever would block teardown for ever,
  as it does in the code.
* `OrphanSweep!Fairness`: weak fairness of the pass (the ticker), of each cache and of
  the garbage collector's removal of a pod whose owner is gone.
* `DemandServed!Fairness`: weak fairness of the informers, of reconciles (10 s requeue)
  and of jobs being taken, done and their runners torn down. Strong fairness of the
  two optimistic writes and of the start of a pod, where with weak fairness TLC finds two
  ways of going on for ever. The listener can publish a new PatchID at every poll
  while the manager's copy is behind at every claim: polls are seconds apart and
  informers are not. And scale-down can delete one pending runner after another before
  any starts, as a runner being deleted still counts as present (`ERS:220`): the 15
  seconds of grace give a pod time to start.
* `ScaleDownSafe!FairSpec`: weak fairness of `Trim` (a delete does not fail every time), of
  time and of teardown. Pods are not fair: one may never be bound or start.
* `SetOwnership!Fairness`: weak fairness of the polls' writes, of reconciles, informers
  and the garbage collector; users are not fair.
* `IdleBaseline!FairSpec`: weak fairness of each cache and of the passing of time;
  strong fairness of each worker's steps, since each runner is requeued again and
  again (`ER:260-267`, `ER:296`), workers are shared, and an error in one read does
  not recur for ever.

## 6. Disagreements between the code and what is said of it

Three are runs, and `findings` in `PROJECT.json` quotes both sides: `runner_started_once`,
`baseline_busy` and `sweep_unrecorded`.

TLC also finds the following definitions violated. They are no runs, to keep
the list to one question each. The last column has the constants that differ from
the module's other runs.

| Property | What happens | Constants |
|---|---|---|
| `RunnerSetScaling!ClaimedOnce` | a standby with an old cached set takes over, its final status write, which compares nothing, puts an old PatchID over a newer one (`ERS:287`), and the newer one is claimed a second time, against "once per listener PatchID" (`ERS:129-131`) | 2 runners, 2 managers |
| `RunnerSetScaling!NoStaleTrim` | a scale-down decided on an old cached set is carried out after a newer PatchID is published (`ERS:219`); `docs/adr/0003`:122-124: "a stale decision cannot delete a runner that a newer decision wants to keep" | 2 runners, 3 polls |
| `RunnerSetScaling!WithinMaxRunners` | a cached list that misses runners just created makes the next PatchID exceed the "hard ceiling" of `api/v1alpha1/ephemeralrunnerset_types.go:34`: the claim refuses a stale copy of the set, but a current set may go with an old list, against "a reconcile that has not yet seen the runners just created cannot add more" (`ERS:158-159`) | as in the run |
| `RunnerSetScaling!TrimsOnlyExcess` | runners being deleted count as present and remain candidates (`ERS:220`, `ERS:331`), so a pass deletes one still asked for | 3 runners, 3 polls, `RunnerLag` and `Turnover` FALSE |
| `EphemeralRunner!CompletedOnce` | the completion is counted, the delete fails, the retry counts again; so does a reconcile whose cached copy does not show the deletion yet (`ER:280`, `ER:289`; `docs/adr/0010`:99-100) | `MaxCompletions` 2, `MaxFaults` 1 (0 for the second) |
| `EphemeralRunner!PhaseForward` | a manager that takes over has the runner in its cache as stored but its pod as it was, and writes Pending over Running, which lines 195-199 mean to avoid (`ER:948`) | 2 managers, `MaxFailovers` 1, timeouts 0 |
| `EphemeralRunner!PendingNeverRan` | the re-fetch shows the phase just overwritten (`ER:239`; lines 285-286) | `MaxStarts` 1 |
| `EphemeralRunner!RejectedNeverRan` | a started runner's replacement pod is rejected until the pending timeout (`ER:349`; `docs/adr/0010`:107-110) | `MaxPods` 2, `MaxStarts` 1 |
| `EphemeralRunner!IdleIsNotBusy` | a job is claimed between the listing and the delete (`ER:289`; `docs/adr/0008`:33-34) | 1 pod, timeouts 1 |
| `EphemeralRunner!OutcomeStands` | a finished runner is classified again from an older copy (`ER:958-961`) | 1 fault, 1 restart |
| `EphemeralRunner!NoneRegisteredWhenGone` | a pod registers after the finalizer's listing (`ER:531-533`) | 1 pod |
| `EphemeralRunner!EveryRegistrationRemoved` | the finalizer lists the server's first page and drops the finalizer with a row of its own beyond it; "removes every Gitea registration belonging to the runner" (`ER:555-558`; `internal/gitea/client.go:97-98`) | `PageSize` 1, `OtherRows` 1 |
| `ScaleDownSafe!BusyNeverKilled` | a pod bound or started later than the grace less the lag claims a job before the caches show its container started, and goes with the job, which it has "certainly not claimed" (`ERS:314-315`) | `MaxPull` 2, or `MaxWait` 2 |
| `ScaleDownSafe!PullingSparedAtOnce` | a sibling's bound pod is lost, older copies still show it bound (or its phase Running), so the sibling is ranked last or spared, and "a pod mid-image-pull" goes "while an unschedulable sibling survives" (`ERS:224-227`) | as in the run |
| `SetOwnership!ConfirmedStillAbsent` | the GiteaRunnerSet is created again between the live read and the delete, which names no UID or version, and its set goes: not "a confirmed absence" any more (`ERS:486-487`, `ERS:507`) | as in the run |
| `OrphanSweep!PassClearsOrphans` | the runner list is the first page only (`internal/gitea/client.go:96-98`) | 2 names, `PageSize` 1 |
| `IdleBaseline!KeepsBaseline` | two workers each count the other's runner and both delete (`ER:811-812`, `ER:862`); one worker alone does the same on a cache that still shows a sibling it has deleted | 2 workers, or 1 and 3 runners; `Jobs` FALSE |

## 7. Proofs

TLAPS checks every leaf; the theorems hold for all values of the constants that
satisfy the named assumptions (`ScalingAssumption`, `RunnerAssumption`,
`DemandAssumption`, `SweepAssumption`, `SizingAssumption`, `AgeAssumption`,
`OwnershipAssumption`, `ServedAssumption`, `BaselineAssumption`: bounds are naturals, sets of
runners and of names finite). What a theorem assumes beside them is said with it.

**`ScalingProofs`.** `TypeCorrect` needs nothing more. `OneLeaderInv`,
`OneLeaderClaimsOnce` and `OneLeaderImplements` assume a single manager; the first row
of the table in section 6 shows that two are too many. (The chart runs one manager by
default, `charts/gitea-actions-controller/values.yaml:36`; `config/manager/manager.yaml:93`
runs two with leader election.) The invariant `ScalingInv` has
three parts beside the types. *HistoryInv*: the versions of the set are one history
in which `patchID` and `lastReconcilePatchID` never fall. *PatchInv*: a PatchID on
its way is newer than any stored. *ReconcileInv*: what a reconcile copied is one of
those versions, no newer than the cache, and nothing newer than the copy is settled.
The last is the point of the proof: the final status write (`ERS:287`) compares
nothing, and is harmless only because one manager's cache never goes back, so the
PatchID it writes is at least the settled one. `ClaimedOnce` follows at
`ClaimPatch`, whose version check makes the copy the current version. For the
refinement every step is mapped to a step of `OncePerPatch` or to a stutter:
`UpdateSet` and `CreateSet` to `Publish`, `ClaimPatch` to `Claim`, `WriteStatus` to
`Settle` or a stutter, `CreateRunner` and a failure in the loop to `Spend`.

The ceiling is the last part of the module. `CeilingHolds` (`CeilingOfListed`): whenever the
controller creates a runner, there are at most `MaxRunners` beside those that its cached
list missed, for any age of that list and of the set, any number of managers and failovers.
The unqualified ceiling, `WithinMaxRunners`, is false (section 6); this says that a stale
list is all that can break it, and by how much. `CeilingOfListed` alone is not inductive: a
creation loop has runners yet to create, so `CeilingInv` bounds the sum of both. What
lets a loop begin is in `SizedInv`: a version with a PatchID was sized by the
listener, hence within the ceiling, and one without (a set from before PatchIDs, which
may ask for anything) has nothing to settle, so `patchID # lastReconcilePatchID` keeps
it from growing. The claim adds nothing to the argument; what a loop plans stays within
the ceiling because the runners that were listed only become fewer until the loop creates
some itself.

**`RunnerProofs`.** `TypeCorrect`, `LifecycleCorrect` (`[]LifecycleInv`),
`FinalizerCorrect` (a pod implies the finalizer) and `RegistrationsRemoved` (what is
left registered when the finalizer goes is at most what Gitea's page left out and the last
pod's row), for any number of managers, pods, faults and failovers and any page.
`FinalizerBeforePod` alone is not inductive: `LifecycleInv` adds that a finalizer any copy
shows is stored, that only a copy showing it gets to create a Secret or a pod, and that
while registrations are being removed only the last pod can add one.
`RegistrationsFitting` is the corollary for an org whose rows fit the page
(`MaxPods + OtherRows <= PageSize`): then the page leaves nothing out, and the last pod's row
is all there can be.

`PhasesForward` (`PhaseForward`) is about a runner with one pod (`MaxPods = 1`) whose
manager may restart but is not relieved by another (`NoTakeover`), for any timeouts and
any number of failed calls. Both restrictions are needed: `runner_started_once` shows
what a second pod does, and section 6 what a manager with an older cache does. The
invariant, `PhaseInv` (`PhaseCorrect`), is a chain: the stored phase says no more than the
cached pod, and the cached pod no more than the pod; a phase decided on says no more than
the cached pod either, and is never behind the stored one. So neither a conflict, a lost
write, a restart nor any delay of the cache takes the phase back.

`StartsPerPod` (`[]StartedOncePerPod`) says what is left of "incremented once" when pods
are replaced: for any number of pods, with `NoTakeover`, there are never more starts
counted than pods. Neither side of that relation says why, so the invariant, `StartsInv`
(`StartsCorrect`), follows the count through the cache: the cache shows the pods in their
order; the pod it shows as Pending is not counted yet, and one it shows as Running is
counted only if the runner is recorded as Running, which is what keeps it from being
counted again; and a write decided on is for the pod that exists. `StartCountedOnce`
(`[]StartedOnce`) is its corollary for one pod.

**`SweepProofs`.** `SweepCorrect` (`[]SweepInv`) and `KnownRowsKept` need nothing more, and
`PassClears` that all rows fit in one page. A row is safe if the caches showed its runner,
with `podName`, and its pod when the row was listed. `KnownSeen` says that they go on
showing both for as long as both live: `podName` is never taken back and the pod's name is
the runner's. `KnownClaimed` carries this through the pass: the EphemeralRunners are listed
after the rows, so a runner shown by then is among those looked up, its pod is found and the
claim stays to the end of the pass. `sweep_unrecorded` shows the row of a runner that was
not shown. `PassClears` needs no timing: a runner
the caches show gone with its pod stays that way, since its name is not used again, so
no claim is made for it however the caches change during the pass, none is left from the
pass before, and the rows listed are all there are only because of the assumption on
`PageSize` (section 6).

**`DemandProofs`.** `CountsOnce`, `PassesOverFull` and `SizesSuffice`, for any number of
sets, labels, runners and jobs, from `DemandCorrect` (`[]DemandInv`). The order in which
sets are passed over is inductive because room only shrinks during a poll: a set that
was full for one job is full for the next. For the size, `RoomInv`: a set that starts
within its ceiling is never overdrawn, as a job is counted only toward a set that has
room, so the cap in `desiredRunners` never takes a runner from a counted job.

**`ScaleDownProofs`.** `EvidenceCorrect` (`[]EvidenceInv`) bounds each age of a pod by the one
before (`AgesInv`): begun at most `MaxPull` after bound, bound at most `MaxWait` after the
runner's creation, a claim at least `MinClaim` after begun; and says what the copies are
worth (`PastInv`): what has happened to the pod for longer than a copy is old, the copy
shows. From it, `BusyKept`: under `Timely`
no runner with a job is deleted. Suppose one is; `Safe` saw no container started, so
the start is younger than the copy, that is than `Lag`; claimed, it is at least
`MinClaim` old, which contradicts the first way of `Timely`. By the second, the pod was
bound, and so was seen bound or not: if seen, for at least `Grace`, and so for no less than
`MaxPull` plus the lag; if not, its runner is at least `Grace` old, no less than
`MaxWait` plus the lag. Both contradict the invariant. `PullingKept` needs no timing: every
copy shows the victim bound, since it has been for `Lag`, and the sibling, by hypothesis,
without a node and old enough to be safe, so whichever copies were read the sibling ranks
before the victim.

**`OwnershipProofs`.** `OwnershipCorrect` (`[]OwnershipInv`) and `LiveParentSpared`. The live
read says that there is no parent at that moment; the set is deleted later. What
carries over is that UIDs are not used again: a parent of when the reconcile began that
was absent once stays absent.

**`ServedProofs`.** For any number of jobs, runners and mishaps and any bounds of the size.
`TypeCorrect` includes that a creation loop never has more than `MaxRunners` left.
`SizeSettledWhenMet` (`SettledWhenMet`) rests on `CopiesInv` (`CopiesHonest`), which says what
the outcomes in a copy are worth: a current copy has the stored size; the controller's
copy with the published PatchID has the published size, and shows it settled only if it is;
and a settled size is one that the controller's copy has. From the last, the final status
write never opens a size again; from the others, a claim or a status write settles a size
only when the runners were counted against that size. `ListenerRestsWhenServed`
(`[]RestsWhenServed`) is the arithmetic under `JobsServed`: the runners listed are those
that may take a job and those occupied, so a list no shorter than `Desired` has one for
every waiting job below the ceiling. It is why the poll asks again by the number of
runners and not by the size alone.

**`BaselineProofs`.** `TypeCorrect`: no more runners are being reaped at once than there are
workers. `RecordedClaimsKept` (`RecordedClaimKept`): a runner with a claim on record is not
deleted as idle while its job runs, for any number of workers and however old the cache.
`ClaimInv` (`ClaimsCorrect`) says that such a runner runs its job and no worker means to
reap it: reaping starts only when Gitea, asked again, shows no job, and a claim is
recorded by the runner's own reconcile, never beside it. A claim that is not on record yet
has no such protection (`baseline_busy`, and `IdleIsNotBusy` in section 6).

**Only model-checked.** All liveness (fairness and ENABLED are beyond the prover): `JobsServed`,
`PendingResolves`, `FinishedTornDown`, `HungTornDown`, `StuckTrimmed`, `OrphansGone`,
`ParentServed`, `OrphanSwept` and `NoneIdlesForever`. Every other property of a passing run
has a theorem.

## 8. Not modelled

* The paging of `ListOrgJobs`: planned (section 2). A listing is one read here, so a
  job is never missed by a poll or by the baseline check.
* Which set's credential reads an org's queue (`orgJobs`): an org that cannot be read
  is left alone for that poll.
* Building pods and Secrets from templates, gauges, events, flags, RBAC, the parser
  of watched namespaces: no protocol among several parties.
* More than one listener: it runs as one replica, and a listener restart is `PollFails`.
* A wall clock that goes back, or is behind after a restart (`cmd/listener/main.go:320`):
  `clock` advances.
* act_runner, kubelet, Gitea and the garbage collector are environment: they do what
  the code under `src/` relies on, at any time.
