--------------------------- MODULE EphemeralRunner ---------------------------
(***************************************************************************)
(* The life of one EphemeralRunner: the reconcile of                       *)
(* ephemeralrunner_controller.go from the runner's creation by the         *)
(* EphemeralRunnerSet controller to the removal of its finalizer, with its *)
(* pod, its registrations and jobs in Gitea, and the job counters.         *)
(*                                                                         *)
(* The leader reads the runner and the pod through informer caches; each   *)
(* write goes to the API server and is refused when the runner has changed *)
(* since the copy was read.  Every call is a step of its own, so the pod,  *)
(* Gitea, the clock, a deletion or a change of leader may come between any *)
(* two of them.  Versions that differ only in fields left out here are     *)
(* the same to every step, so a copy is current when it equals what is     *)
(* stored.                                                                 *)
(*                                                                         *)
(* A timestamp is kept as its age, which stops at the longest timeout:     *)
(* nothing looks further back.  The runner is org-scoped, both timeouts    *)
(* are set, and the reasons, the recorded log size, the labels of the      *)
(* counters and the events raised are left out, as is the pod phase        *)
(* Unknown, which kubelets do not report.                                  *)
(***************************************************************************)
EXTENDS Integers, FiniteSets

CONSTANTS
    Managers,        \* controller-manager replicas
    MaxPods,         \* bound: pods made for the runner, the first and its replacements
    PageSize,        \* rows Gitea returns for a request that names no page
    OtherRows,       \* bound: rows of other runners in the same org
    PendingTimeout,  \* spec.pendingTimeout
    StallWindow,     \* spec.stallWindow
    MaxStarts,       \* bound: how far started_total is followed
    MaxCompletions,  \* bound: how far job_completed_total is followed
    MaxFaults,       \* bound: calls that fail for another reason than a conflict
    MaxFailovers     \* bound: leader changes and manager restarts

ASSUME RunnerAssumption ==
    /\ MaxPods \in Nat \ {0} /\ PageSize \in Nat \ {0} /\ OtherRows \in Nat
    /\ PendingTimeout \in Nat /\ StallWindow \in Nat
    /\ MaxStarts \in Nat /\ MaxCompletions \in Nat /\ MaxFaults \in Nat /\ MaxFailovers \in Nat

VARIABLES
    er,         \* the EphemeralRunner as stored
    pod,        \* the pod of its name as stored
    secret,     \* whether its token Secret is stored
    reg,        \* each pod's registration in Gitea
    jobs,       \* the job each pod's act_runner has claimed
    cache,      \* each manager's cached runner and pod
    leader,     \* the manager holding the lease
    queued,     \* the runner's key is in the leader's work queue
    rec,        \* the reconcile under way
    started,    \* increments of job_started_total for this runner
    completed,  \* increments of job_completed_total for this runner
    faults,     \* failed calls so far
    failovers   \* leader changes so far

kube    == <<er, pod, secret>>
gitea   == <<reg, jobs>>
manager == <<cache, leader, failovers>>
counts  == <<started, completed>>
vars    == <<kube, gitea, manager, queued, rec, counts, faults>>

Pods     == 1 .. MaxPods
Finished == {"Succeeded", "Failed"}
Phases   == {"", "Pending", "Running"} \cup Finished

\* An age, or none for a timestamp that is not set.
Unset  == -1
Oldest == IF PendingTimeout >= StallWindow THEN PendingTimeout ELSE StallWindow
Ages   == Unset .. Oldest
Older(age) == IF age \in 0 .. Oldest - 1 THEN age + 1 ELSE age

\* age is that of PhaseStartTime and quiet that of LastProgressTime; jobRef is the
\* job of that pod, 0 when no claim has been seen.
Runner == [exists : BOOLEAN, deleting : BOOLEAN, finalizer : BOOLEAN, podName : BOOLEAN,
           phase : Phases, age : Ages, jobRef : 0 .. MaxPods, quiet : Ages]
Pod    == [n : 0 .. MaxPods, phase : {"none", "Pending", "Running"} \cup Finished,
           disrupted : BOOLEAN]
View   == [er : Runner, pod : Pod]

NoRunner == [exists |-> FALSE, deleting |-> FALSE, finalizer |-> FALSE, podName |-> FALSE,
             phase |-> "", age |-> Unset, jobRef |-> 0, quiet |-> Unset]
NoPod    == [n |-> 0, phase |-> "none", disrupted |-> FALSE]

\* The reconcile: its next call, its copy of the runner, the pod it read, the phase
\* it writes, the job it saw, and the registrations it still has to remove.  missed is
\* history: those that Gitea's page left out.
Calls == {"none", "finalizer", "secret", "pod", "rejected", "record", "write",
          "progress", "heartbeat", "timeout", "delete", "list", "deregister"}
Reconcile == [pc : Calls, copy : Runner, seen : Pod, next : Phases, job : 0 .. MaxPods,
              ids : SUBSET Pods, missed : SUBSET Pods]
IdleRec   == [pc |-> "none", copy |-> NoRunner, seen |-> NoPod, next |-> "", job |-> 0,
              ids |-> {}, missed |-> {}]

InProgress == {"running", "hung"}

TypeOK ==
    /\ er \in Runner
    /\ pod \in Pod
    /\ secret \in BOOLEAN
    /\ reg \in [Pods -> {"no", "yes", "removed"}]
    /\ jobs \in [Pods -> {"none", "success", "failure"} \cup InProgress]
    /\ cache \in [Managers -> View]
    /\ leader \in Managers
    /\ queued \in BOOLEAN
    /\ rec \in Reconcile
    /\ started \in 0 .. MaxStarts /\ completed \in 0 .. MaxCompletions
    /\ faults \in 0 .. MaxFaults
    /\ failovers \in 0 .. MaxFailovers

\* The EphemeralRunnerSet controller has created the runner; no cache shows it yet.
Init ==
    /\ er = [NoRunner EXCEPT !.exists = TRUE]
    /\ pod = NoPod
    /\ secret = FALSE
    /\ reg = [k \in Pods |-> "no"]
    /\ jobs = [k \in Pods |-> "none"]
    /\ cache = [m \in Managers |-> [er |-> NoRunner, pod |-> NoPod]]
    /\ leader \in Managers
    /\ queued = FALSE
    /\ rec = IdleRec
    /\ started = 0 /\ completed = 0
    /\ faults = 0 /\ failovers = 0

view     == cache[leader]
Count(c, max) == IF c < max THEN c + 1 ELSE c
Goto(pc) == rec' = [IdleRec EXCEPT !.pc = pc, !.copy = rec.copy]
Requeue  == rec' = IdleRec /\ queued' = TRUE
Done     == rec' = IdleRec /\ UNCHANGED queued

-----------------------------------------------------------------------------
(* The reconcile, call by call.                                             *)

\* (Mutant: the finalizer is left for later.)
StartReconcileUnguarded ==
    /\ rec.pc = "none" /\ queued
    /\ queued' = FALSE
    /\ rec' = IF view.er.exists
              THEN [IdleRec EXCEPT !.copy = view.er, !.pc = IF view.er.deleting THEN "list" ELSE "secret"]
              ELSE IdleRec
    /\ UNCHANGED <<kube, gitea, manager, counts, faults>>

StartReconcile ==
    /\ rec.pc = "none" /\ queued
    /\ queued' = FALSE
    /\ rec' = IF view.er.exists
              THEN [IdleRec EXCEPT !.copy = view.er,
                                   !.pc = IF view.er.deleting THEN "list"
                                          ELSE IF view.er.finalizer THEN "secret"
                                          ELSE "finalizer"]
              ELSE IdleRec
    /\ UNCHANGED <<kube, gitea, manager, counts, faults>>

AddFinalizer ==
    /\ rec.pc = "finalizer" /\ rec.copy = er
    /\ er' = [er EXCEPT !.finalizer = TRUE]
    /\ rec' = [rec EXCEPT !.pc = "secret", !.copy = er']
    /\ UNCHANGED <<pod, secret, gitea, manager, queued, counts, faults>>

\* The token Secret is found or created; its creation event queues the runner.
EnsureSecret ==
    /\ rec.pc = "secret"
    /\ secret' = TRUE
    /\ queued' = (queued \/ ~secret)
    /\ Goto("pod")
    /\ UNCHANGED <<er, pod, gitea, manager, counts, faults>>

CreatePod ==
    /\ rec.pc = "pod" /\ view.pod.phase = "none" /\ pod.phase = "none" /\ pod.n < MaxPods
    /\ pod' = [n |-> pod.n + 1, phase |-> "Pending", disrupted |-> FALSE]
    /\ Goto("record")
    /\ UNCHANGED <<er, secret, gitea, manager, queued, counts, faults>>

\* The Secret or the pod is rejected (admission, validation, quota, bad template).
CreateRejected ==
    /\ \/ rec.pc = "secret" /\ ~secret
       \/ rec.pc = "pod" /\ view.pod.phase = "none"
    /\ Goto("rejected")
    /\ UNCHANGED <<kube, gitea, manager, queued, counts, faults>>

\* (Mutant: the write names the pod and starts no clock.)
RecordCreationWithoutClock ==
    /\ rec.pc = "record" /\ rec.copy = er
    /\ er' = [er EXCEPT !.podName = TRUE, !.phase = IF @ \in {"", "Pending"} THEN "Pending" ELSE @]
    /\ Requeue
    /\ UNCHANGED <<pod, secret, gitea, manager, counts, faults>>

\* The status write after creating the pod starts the Pending clock.
RecordCreation ==
    /\ rec.pc = "record" /\ rec.copy = er
    /\ er' = [er EXCEPT !.podName = TRUE, !.age = 0,
                        !.phase = IF @ \in {"", "Pending"} THEN "Pending" ELSE @]
    /\ Requeue
    /\ UNCHANGED <<pod, secret, gitea, manager, counts, faults>>

\* (Mutant: an evicted runner is made to wait for another pod.)
ClassifyEvictedAsPending(runner, p) == IF p.disrupted THEN {"Pending"} ELSE {p.phase}

\* classifyFinishedPod: a disruption or a hard-cap kill is a failure; otherwise the
\* conclusion of the claimed job decides, or the pod's phase when there is no claim
\* or Gitea cannot be read.
ClassifyFinishedPod(runner, p) ==
    IF p.disrupted THEN {"Failed"}
    ELSE {p.phase} \cup (IF runner.jobRef = 0 THEN {}
                         ELSE IF jobs[runner.jobRef] = "success" THEN {"Succeeded"}
                         ELSE {"Failed"})

NextPhases(runner, p) ==
    IF p.phase \notin Finished THEN {p.phase}
    ELSE IF runner.phase \in Finished THEN {runner.phase}
    ELSE ClassifyFinishedPod(runner, p)

\* Once the status is up to date, a runner whose pod has finished is torn down.
AfterStatus(p) == IF p.phase \in Finished THEN "delete" ELSE "progress"

ObservePod ==
    /\ rec.pc = "pod" /\ view.pod.phase # "none"
    /\ \E phase \in NextPhases(rec.copy, view.pod) :
          IF phase = rec.copy.phase
          THEN Goto(AfterStatus(view.pod))
          ELSE rec' = [rec EXCEPT !.pc = "write", !.seen = view.pod, !.next = phase]
    /\ UNCHANGED <<kube, gitea, manager, queued, counts, faults>>

\* (Mutant: a Running pod is counted whenever it is written.)
WritePhaseCountingAgain ==
    /\ rec.pc = "write" /\ view.er = er /\ er.exists
    /\ er' = [er EXCEPT !.phase = rec.next,
                        !.age = IF er.phase # rec.next \/ @ = Unset THEN 0 ELSE @]
    /\ started' = IF rec.next = "Running" THEN Count(started, MaxStarts) ELSE started
    /\ completed' = IF er.phase # rec.next /\ rec.next \in Finished THEN Count(completed, MaxCompletions)
                    ELSE completed
    /\ Goto(AfterStatus(rec.seen))
    /\ UNCHANGED <<pod, secret, gitea, manager, queued, faults>>

\* The phase goes on the cached runner, with its counter.
WritePhase ==
    /\ rec.pc = "write" /\ view.er = er /\ er.exists
    /\ er' = [er EXCEPT !.phase = rec.next,
                        !.age = IF er.phase # rec.next \/ @ = Unset THEN 0 ELSE @]
    /\ started' = IF er.phase # rec.next /\ rec.next = "Running" THEN Count(started, MaxStarts) ELSE started
    /\ completed' = IF er.phase # rec.next /\ rec.next \in Finished THEN Count(completed, MaxCompletions)
                    ELSE completed
    /\ Goto(AfterStatus(rec.seen))
    /\ UNCHANGED <<pod, secret, gitea, manager, queued, faults>>

\* A write is refused when the runner has moved on from the copy it was made with, a
\* creation when the object exists though the cache does not show it yet; and any
\* call may fail for a reason of its own, as when a Secret just created is not yet seen.
Conflict ==
    \/ rec.pc \in {"finalizer", "record", "deregister"} /\ rec.ids = {} /\ er # rec.copy
    \/ rec.pc \in {"write", "heartbeat", "rejected"} /\ er # view.er
    \/ rec.pc = "pod" /\ view.pod.phase = "none" /\ pod.phase # "none"

CallFails ==
    \/ Conflict /\ UNCHANGED faults
    \/ faults < MaxFaults /\ faults' = faults + 1

\* A phase that could not be written is only logged.
WritePhaseFails ==
    /\ rec.pc = "write" /\ CallFails
    /\ Goto(AfterStatus(rec.seen))
    /\ UNCHANGED <<kube, gitea, manager, queued, counts>>

\* The job this runner is found under, 0 for none: of several, the one started last.
Claimed == {k \in Pods : jobs[k] \in InProgress}
LatestJob(job) ==
    IF Claimed = {} THEN job = 0 ELSE job \in Claimed /\ \A k \in Claimed : k <= job

\* Only a live job's log grows, and only while its own pod runs it.
MayGrow(k) == jobs[k] = "running" /\ pod.n = k /\ pod.phase = "Running"

\* (Mutant: only log growth counts as a heartbeat, not the claim itself.)
ReadProgressOfLogOnly ==
    /\ rec.pc = "progress"
    /\ IF ~view.er.exists
       THEN Done
       ELSE /\ \E job \in 0 .. MaxPods, heard \in BOOLEAN :
                 /\ LatestJob(job)
                 /\ heard => view.er.phase = "Running" /\ job # 0 /\ MayGrow(job)
                 /\ rec' = [IdleRec EXCEPT !.copy = view.er,
                                           !.pc = IF heard THEN "heartbeat" ELSE "timeout",
                                           !.job = IF heard THEN job ELSE 0]
            /\ UNCHANGED queued
    /\ UNCHANGED <<kube, gitea, manager, counts, faults>>

\* The runner is fetched again, from the cache, and if it is Running its job and the
\* growth of the job's log are looked up.
ReadProgress ==
    /\ rec.pc = "progress"
    /\ IF ~view.er.exists
       THEN Done
       ELSE /\ \E job \in 0 .. MaxPods, heard \in BOOLEAN :
                 /\ LatestJob(job)
                 /\ heard => view.er.phase = "Running" /\ job # 0
                 /\ heard /\ job = view.er.jobRef => MayGrow(job)
                 /\ ~heard => view.er.phase # "Running" \/ job \in {0, view.er.jobRef}
                 /\ rec' = [IdleRec EXCEPT !.copy = view.er,
                                           !.pc = IF heard THEN "heartbeat" ELSE "timeout",
                                           !.job = IF heard THEN job ELSE 0]
            /\ UNCHANGED queued
    /\ UNCHANGED <<kube, gitea, manager, counts, faults>>

\* A claim or log growth restarts the stall clock.
Heartbeat ==
    /\ rec.pc = "heartbeat" /\ view.er = er /\ er.exists
    /\ er' = [er EXCEPT !.jobRef = rec.job, !.quiet = 0]
    /\ rec' = [IdleRec EXCEPT !.pc = "timeout",
                              !.copy = [rec.copy EXCEPT !.jobRef = rec.job, !.quiet = 0]]
    /\ UNCHANGED <<pod, secret, gitea, manager, queued, counts, faults>>

TimedOut(runner) ==
    \/ /\ runner.phase = "Pending" \/ (runner.phase = "Running" /\ runner.jobRef = 0)
       /\ runner.age # Unset /\ runner.age >= PendingTimeout
    \/ /\ runner.phase = "Running" /\ runner.jobRef # 0
       /\ runner.quiet # Unset /\ runner.quiet >= StallWindow

Idle(runner) == runner.phase = "Running" /\ runner.jobRef = 0

\* (Mutant: the runner is left to the next event.)
KeepRunnerUntilEvent ==
    /\ rec.pc = "timeout" /\ (TimedOut(rec.copy) => Idle(rec.copy))
    /\ Done
    /\ UNCHANGED <<kube, gitea, manager, counts, faults>>

\* A runner within its timeouts, or an idle one minRunners keeps, is looked at again.
KeepRunner ==
    /\ rec.pc = "timeout" /\ (TimedOut(rec.copy) => Idle(rec.copy))
    /\ Requeue
    /\ UNCHANGED <<kube, gitea, manager, counts, faults>>

\* One past its timeout is counted and deleted; a Running one counts as completed.
TimeOutRunner ==
    /\ rec.pc = "timeout" /\ TimedOut(rec.copy)
    /\ completed' = IF rec.copy.phase = "Running" THEN Count(completed, MaxCompletions) ELSE completed
    /\ Goto("delete")
    /\ UNCHANGED <<kube, gitea, manager, queued, started, faults>>

\* Deletion goes by name; without a finalizer the object is gone at once.
Deleted(runner) == IF runner.finalizer THEN [runner EXCEPT !.deleting = TRUE] ELSE NoRunner

DeleteRunner ==
    /\ rec.pc = "delete"
    /\ er' = IF er.exists THEN Deleted(er) ELSE er
    /\ Done
    /\ UNCHANGED <<pod, secret, gitea, manager, counts, faults>>

\* createFailed: the runner is marked Pending, its clock is started once, and it is
\* retried until it times out.
RecordRejection ==
    /\ rec.pc = "rejected" /\ (er.exists => view.er = er)
    /\ IF ~er.exists
       THEN Done /\ UNCHANGED er
       ELSE /\ er' = [er EXCEPT !.phase = IF @ = "" THEN "Pending" ELSE @,
                                !.age = IF @ = Unset THEN 0 ELSE @]
            /\ IF TimedOut(er') THEN Goto("delete") /\ UNCHANGED queued ELSE Requeue
    /\ UNCHANGED <<pod, secret, gitea, manager, counts, faults>>

\* ListOrgRunners asks for no page and gets the server's first one: every row of the
\* runner's name, or as many as fit among the rows of others.
Registered == {k \in Pods : reg[k] = "yes"}
FirstPage(page) ==
    /\ page \subseteq Registered /\ Cardinality(page) <= PageSize
    /\ page = Registered \/ Cardinality(page) + OtherRows >= PageSize

\* (Mutant: only the row of the pod there is now is looked for.)
ListNewestRegistration ==
    /\ rec.pc = "list"
    /\ \E page \in SUBSET Pods :
          /\ FirstPage(page)
          /\ rec' = [rec EXCEPT !.pc = "deregister", !.ids = {k \in page : k = pod.n},
                                !.missed = Registered \ page]
    /\ UNCHANGED <<kube, gitea, manager, queued, counts, faults>>

\* handleDeletion: every registration listed under the runner's name is removed from
\* Gitea, and only then is the finalizer.
ListRegistrations ==
    /\ rec.pc = "list"
    /\ \E page \in SUBSET Pods :
          /\ FirstPage(page)
          /\ rec' = [rec EXCEPT !.pc = "deregister", !.ids = page, !.missed = Registered \ page]
    /\ UNCHANGED <<kube, gitea, manager, queued, counts, faults>>

Deregister(k) ==
    /\ rec.pc = "deregister" /\ k \in rec.ids
    /\ reg' = [reg EXCEPT ![k] = "removed"]
    /\ rec' = [rec EXCEPT !.ids = @ \ {k}]
    /\ UNCHANGED <<kube, jobs, manager, queued, counts, faults>>

RemoveFinalizer ==
    /\ rec.pc = "deregister" /\ rec.ids = {} /\ rec.copy = er
    /\ er' = NoRunner
    /\ Done
    /\ UNCHANGED <<pod, secret, gitea, manager, counts, faults>>

\* A conflict, an object that exists or is gone though the cache says otherwise, an
\* unreachable API server or Gitea: the key is queued again.
ReconcileFails ==
    /\ rec.pc # "none" /\ CallFails
    /\ Requeue
    /\ UNCHANGED <<kube, gitea, manager, counts>>

Reconciling ==
    \/ StartReconcile \/ AddFinalizer \/ EnsureSecret \/ CreatePod \/ CreateRejected
    \/ RecordCreation \/ ObservePod \/ WritePhase \/ WritePhaseFails \/ ReadProgress
    \/ Heartbeat \/ KeepRunner \/ TimeOutRunner \/ DeleteRunner \/ RecordRejection
    \/ ListRegistrations \/ RemoveFinalizer \/ ReconcileFails
    \/ \E k \in Pods : Deregister(k)

-----------------------------------------------------------------------------
(* The managers: caches catch up, and a leader's process may end anywhere.  *)

\* Watch events queue the key only when an object comes, goes or begins to be
\* deleted: GenerationChangedPredicate drops every status change.
SyncRunner(m) ==
    /\ cache[m].er # er
    /\ cache' = [cache EXCEPT ![m].er = er]
    /\ queued' = \/ queued
                 \/ /\ m = leader
                    /\ \/ cache[m].er.exists # er.exists
                       \/ cache[m].er.deleting # er.deleting
    /\ UNCHANGED <<kube, gitea, leader, failovers, rec, counts, faults>>

SyncPod(m) ==
    /\ cache[m].pod # pod
    /\ cache' = [cache EXCEPT ![m].pod = pod]
    /\ queued' = \/ queued
                 \/ /\ m = leader
                    /\ \/ cache[m].pod.n # pod.n
                       \/ (cache[m].pod.phase = "none") # (pod.phase = "none")
    /\ UNCHANGED <<kube, gitea, leader, failovers, rec, counts, faults>>

\* The new leader starts from its whole cache; the old process restarts with a new one.
Failover(m) ==
    /\ failovers < MaxFailovers
    /\ failovers' = failovers + 1
    /\ leader' = m
    /\ cache' = [cache EXCEPT ![leader] = [er |-> er, pod |-> pod]]
    /\ rec' = IdleRec
    /\ queued' = TRUE
    /\ UNCHANGED <<kube, gitea, counts, faults>>

Managing == \E m \in Managers : SyncRunner(m) \/ SyncPod(m) \/ Failover(m)

-----------------------------------------------------------------------------
(* Time, the cluster, act_runner and Gitea.                                 *)

Aged(runner) == [runner EXCEPT !.age = Older(@), !.quiet = Older(@)]

Tick ==
    /\ er' = Aged(er)
    /\ cache' = [m \in Managers |-> [cache[m] EXCEPT !.er = Aged(@)]]
    /\ rec' = [rec EXCEPT !.copy = Aged(@)]
    /\ UNCHANGED <<pod, secret, gitea, leader, failovers, queued, counts, faults>>

outside == <<secret, manager, queued, rec, counts, faults>>

PodRuns ==
    /\ pod.phase = "Pending"
    /\ pod' = [pod EXCEPT !.phase = "Running"]
    /\ UNCHANGED <<er, gitea, outside>>

\* act_runner exits, or the pod is evicted, preempted or killed by its deadline.
PodEnds ==
    /\ pod.phase \in {"Pending", "Running"}
    /\ \E phase \in Finished, disrupted \in BOOLEAN :
          /\ phase = "Succeeded" => pod.phase = "Running"
          /\ pod' = [pod EXCEPT !.phase = phase, !.disrupted = disrupted]
    /\ UNCHANGED <<er, gitea, outside>>

\* The pod object is removed under the runner: a node drained, a manual delete.
PodVanishes ==
    /\ pod.phase # "none" /\ pod.n < MaxPods
    /\ pod' = [NoPod EXCEPT !.n = pod.n]
    /\ UNCHANGED <<er, gitea, outside>>

\* The owner is gone, so its pod and Secret follow.
GarbageCollect ==
    /\ ~er.exists /\ (pod.phase # "none" \/ secret)
    /\ pod' = [NoPod EXCEPT !.n = pod.n]
    /\ secret' = FALSE
    /\ UNCHANGED <<er, gitea, manager, queued, rec, counts, faults>>

\* Scale-down, a deleted runner set, or kubectl.
DeletionRequested ==
    /\ er.exists /\ ~er.deleting
    /\ er' = Deleted(er)
    /\ UNCHANGED <<pod, gitea, outside>>

Runs(k) == pod.n = k /\ pod.phase = "Running"

\* act_runner registers once, takes one job, and leaves when the job is over; Gitea
\* removes the row of an ephemeral runner that has had its job.
PodRegisters(k) ==
    /\ Runs(k) /\ reg[k] = "no"
    /\ reg' = [reg EXCEPT ![k] = "yes"]
    /\ UNCHANGED <<kube, jobs, manager, queued, rec, counts, faults>>

JobClaimed(k) ==
    /\ Runs(k) /\ reg[k] = "yes" /\ jobs[k] = "none"
    /\ jobs' = [jobs EXCEPT ![k] = "running"]
    /\ UNCHANGED <<kube, reg, manager, queued, rec, counts, faults>>

JobHangs(k) ==
    /\ jobs[k] = "running"
    /\ jobs' = [jobs EXCEPT ![k] = "hung"]
    /\ UNCHANGED <<kube, reg, manager, queued, rec, counts, faults>>

JobEnds(k) ==
    /\ Runs(k) /\ jobs[k] = "running"
    /\ \E outcome \in {"success", "failure"} : jobs' = [jobs EXCEPT ![k] = outcome]
    /\ reg' = [reg EXCEPT ![k] = "removed"]
    /\ UNCHANGED <<kube, manager, queued, rec, counts, faults>>

\* Gitea's zombie reaper fails a job whose runner is silent.
JobReaped(k) ==
    /\ ~Runs(k) /\ jobs[k] \in InProgress
    /\ jobs' = [jobs EXCEPT ![k] = "failure"]
    /\ UNCHANGED <<kube, reg, manager, queued, rec, counts, faults>>

World ==
    \/ Tick \/ PodRuns \/ PodEnds \/ PodVanishes \/ GarbageCollect \/ DeletionRequested
    \/ \E k \in Pods : PodRegisters(k) \/ JobClaimed(k) \/ JobHangs(k) \/ JobEnds(k)
                       \/ JobReaped(k)

Next == Reconciling \/ Managing \/ World

Spec == Init /\ [][Next]_vars

\* The worker goes on with a key that is queued, the caches catch up, time passes.
Fairness ==
    /\ WF_vars(Reconciling)
    /\ WF_vars(Tick)
    /\ \A m \in Managers : WF_vars(SyncRunner(m)) /\ WF_vars(SyncPod(m))

FairSpec == Spec /\ Fairness

-----------------------------------------------------------------------------
(* Properties.                                                              *)

\* "Finalizer ... runs before the pod disappears" (docs/adr/0003:22-24): a runner
\* that has a pod keeps its finalizer, whatever the caches showed.
FinalizerBeforePod ==
    pod.phase # "none" /\ er.exists => er.finalizer

\* Why: a finalizer that any copy shows is there for as long as the runner is, and
\* nothing is created but for a copy that shows it; and while registrations are being
\* removed, what is neither removed nor about to be was left out of Gitea's page or is
\* the last pod's.
LifecycleInv ==
    /\ TypeOK
    /\ FinalizerBeforePod
    /\ \A m \in Managers : er.exists /\ cache[m].er.finalizer => er.finalizer
    /\ er.exists /\ rec.copy.finalizer => er.finalizer
    /\ rec.pc \in {"secret", "pod"} => rec.copy.finalizer
    /\ rec.pc = "deregister" =>
          Registered \subseteq rec.ids \union rec.missed \union {pod.n}

\* The teardown is done once the finalizer goes (ephemeralrunner_controller.go:531-536,
\* 594-604): what is still registered then is at most what Gitea's page left out, and the
\* runner's last pod, which registered meanwhile.
OnlyLateRegistration ==
    [][RemoveFinalizer => Registered \subseteq rec.missed \union {pod.n}]_vars

\* With one pod the phase only moves forward, however late the caches are
\* (updateRunnerStatusFromPod).
Rank(phase) == CASE phase = "" -> 0 [] phase = "Pending" -> 1 [] phase = "Running" -> 2
                 [] OTHER -> 3
PhaseForward ==
    [][er.exists /\ er'.exists => Rank(er'.phase) >= Rank(er.phase)]_vars

\* A runner whose pod has finished goes, though no event announces a pod's status
\* (the auto-teardown and the requeues of Reconcile).
FinishedTornDown ==
    (er.exists /\ pod.phase \in Finished) ~> (~er.exists \/ pod.phase \notin Finished)

\* A runner does not stay without a running pod for ever: the Pending clock always
\* gets started (ephemeralrunner_controller.go:206-209).
PendingResolves ==
    (er.exists /\ er.phase \in {"", "Pending"}) ~> ~(er.exists /\ er.phase \in {"", "Pending"})

\* A job that stops making progress is torn down: the claim is noticed and the stall
\* clock starts whatever the log's size (ephemeralrunner_controller.go:464-466).
HungTornDown ==
    \A k \in Pods : (er.exists /\ Runs(k) /\ jobs[k] = "hung") ~> (~er.exists \/ ~Runs(k))

\* "incremented once when an EphemeralRunner transitions into Running"
\* (docs/adr/0010:96-98): a replaced pod is not a second job start.
StartedOnce == started <= 1

\* What holds of it: no pod is counted as started twice, however often a call is
\* repeated and however late the caches are.
StartedOncePerPod == started <= pod.n

(* Said of this code and not so: each has a short counterexample (README,   *)
(* section 6).                                                              *)

\* "incremented once per runner that reaches a terminal outcome" (docs/adr/0010:99-100).
CompletedOnce == completed <= 1

\* "Classified once" (ephemeralrunner_controller.go:958): an outcome is not revised.
OutcomeStands ==
    [][er.phase \in Finished /\ er'.exists => er'.phase = er.phase]_vars

\* "A Pending runner never reached Running, so it was never counted as started"
\* (ephemeralrunner_controller.go:285-286).
PendingNeverRan ==
    [][TimeOutRunner /\ rec.copy.phase = "Pending" => started = 0]_vars

\* "A pending-timeout deletion is deliberately not counted here -- it never reached
\* Running, so it was never counted as started" (docs/adr/0010:107-110).
RejectedNeverRan ==
    [][RecordRejection /\ rec'.pc = "delete" => started = 0]_vars

\* "busy runners are never killed except for a reason the operator has actively
\* decided" (docs/adr/0008:33-34): the idle timeout does not delete a busy runner.
IdleIsNotBusy ==
    [][DeleteRunner /\ Idle(rec.copy) /\ pod.phase = "Running" => jobs[pod.n] \notin InProgress]_vars

\* deregisterFromGitea "removes every Gitea registration belonging to the runner"
\* (ephemeralrunner_controller.go:555-558).  So it is when a page has room for them all.
EveryRegistrationRemoved ==
    [][RemoveFinalizer => Registered \subseteq {pod.n}]_vars

\* "the finalizer must do it rather than leave it to the sweep"
\* (ephemeralrunner_controller.go:531-533): no registration outlives the runner.
NoneRegisteredWhenGone ==
    ~er.exists => Registered = {}
=============================================================================
