---------------------------- MODULE IdleBaseline ----------------------------
(***************************************************************************)
(* Which idle runners of one set are reaped                                *)
(* (internal/controller/ephemeralrunner_controller.go, checkTimeout and    *)
(* withinBaseline): a worker that finds its runner idle past the timeout   *)
(* lists the busy runners from Gitea, then counts the idle ones in the     *)
(* informer cache, and deletes the runner if there are more than the set   *)
(* keeps.  Several workers do so at once, each for a runner of its own,    *)
(* while Gitea hands out jobs and the listener creates new runners.        *)
(***************************************************************************)
EXTENDS Integers, FiniteSets

CONSTANTS
    Runners,      \* EphemeralRunners the set may have over time
    Workers,      \* MaxConcurrentReconciles
    MinRunners,   \* the set's spec.minRunners
    Jobs          \* whether Gitea has jobs to hand out

ASSUME BaselineAssumption ==
    /\ IsFiniteSet(Runners) /\ Workers \in Nat \ {0} /\ MinRunners \in Nat
    /\ Jobs \in BOOLEAN

VARIABLES
    runner,    \* the EphemeralRunner objects
    age,       \* an idle runner's age: below or past pendingTimeout, or past baselineMaxIdle
    running,   \* the runners Gitea shows running a job
    cached,    \* the manager's informer cache
    at,        \* where the worker of each runner is, "" when none is on it
    active     \* the busy runners that worker has listed

vars == <<runner, age, running, cached, at, active>>

\* A runner's object: none, without or with status.jobRef, finished or being deleted.
Object == {"none", "idle", "claimed", "finished", "deleting"}
Ages   == {"young", "timedOut", "overage"}
Step   == {"", "jobs", "runners", "delete"}

TypeOK ==
    /\ runner \in [Runners -> Object] /\ cached \in [Runners -> Object]
    /\ age \in [Runners -> Ages] /\ running \subseteq Runners
    /\ at \in [Runners -> Step] /\ active \in [Runners -> SUBSET Runners]
    /\ Cardinality({r \in Runners : at[r] # ""}) <= Workers

\* The runners that are truly idle, and those the worker of r counts as idle.
IdleNow     == {r \in Runners : runner[r] = "idle"} \ running
IdleSeen(r) == {q \in Runners : cached[q] = "idle"} \ active[r]

Init ==
    /\ runner = [r \in Runners |-> "none"] /\ cached = runner
    /\ age = [r \in Runners |-> "young"] /\ running = {}
    /\ at = [r \in Runners |-> ""] /\ active = [r \in Runners |-> {}]

-----------------------------------------------------------------------------
(* One worker.                                                              *)

\* (Mutants: no limit on the workers; the cached status alone shows the job; no bound on
\* how long the baseline idles.)
StartReapUnlimited(r) ==
    /\ at[r] = "" /\ cached[r] = "idle" /\ r \notin running /\ age[r] # "young"
    /\ at' = [at EXCEPT ![r] = IF age[r] = "overage" \/ MinRunners = 0 THEN "delete" ELSE "jobs"]
    /\ UNCHANGED <<runner, age, running, cached, active>>

StartReapFromCache(r) ==
    /\ at[r] = "" /\ Cardinality({q \in Runners : at[q] # ""}) < Workers
    /\ cached[r] = "idle" /\ age[r] # "young"
    /\ at' = [at EXCEPT ![r] = IF age[r] = "overage" \/ MinRunners = 0 THEN "delete" ELSE "jobs"]
    /\ UNCHANGED <<runner, age, running, cached, active>>

StartReapAgeless(r) ==
    /\ at[r] = "" /\ Cardinality({q \in Runners : at[q] # ""}) < Workers
    /\ cached[r] = "idle" /\ r \notin running /\ age[r] # "young"
    /\ at' = [at EXCEPT ![r] = "jobs"]
    /\ UNCHANGED <<runner, age, running, cached, active>>

\* The reconcile of a Running runner whose idle timeout has passed; jobRef is read
\* again from Gitea at the start of it.  One past the longer bound is not kept.
StartReap(r) ==
    /\ at[r] = "" /\ Cardinality({q \in Runners : at[q] # ""}) < Workers
    /\ cached[r] = "idle" /\ r \notin running /\ age[r] # "young"
    /\ at' = [at EXCEPT ![r] = IF age[r] = "overage" \/ MinRunners = 0 THEN "delete" ELSE "jobs"]
    /\ UNCHANGED <<runner, age, running, cached, active>>

ListOrgJobs(r) ==
    /\ at[r] = "jobs"
    /\ active' = [active EXCEPT ![r] = running] /\ at' = [at EXCEPT ![r] = "runners"]
    /\ UNCHANGED <<runner, age, running, cached>>

\* withinBaseline: idle <= minRunners keeps the runner for another round.
WithinBaseline(r) ==
    /\ at[r] = "runners"
    /\ at' = [at EXCEPT ![r] = IF Cardinality(IdleSeen(r)) <= MinRunners THEN "" ELSE "delete"]
    /\ active' = [active EXCEPT ![r] = {}]
    /\ UNCHANGED <<runner, age, running, cached>>

\* The delete names no version: it holds for whatever the runner is by then.
DeleteRunner(r) ==
    /\ at[r] = "delete"
    /\ runner' = [runner EXCEPT ![r] = "deleting"] /\ at' = [at EXCEPT ![r] = ""]
    /\ UNCHANGED <<age, running, cached, active>>

\* A read or the delete fails and the reconcile is retried.
ReapFails(r) ==
    /\ at[r] # ""
    /\ at' = [at EXCEPT ![r] = ""] /\ active' = [active EXCEPT ![r] = {}]
    /\ UNCHANGED <<runner, age, running, cached>>

-----------------------------------------------------------------------------
(* What the workers race with.                                              *)

CreateRunner(r) ==
    /\ runner[r] = "none"
    /\ runner' = [runner EXCEPT ![r] = "idle"]
    /\ UNCHANGED <<age, running, cached, at, active>>

Sync(r) ==
    /\ cached[r] # runner[r] /\ cached' = [cached EXCEPT ![r] = runner[r]]
    /\ UNCHANGED <<runner, age, running, at, active>>

Wait(r) ==
    /\ runner[r] = "idle" /\ age[r] # "overage"
    /\ age' = [age EXCEPT ![r] = IF @ = "young" THEN "timedOut" ELSE "overage"]
    /\ UNCHANGED <<runner, running, cached, at, active>>

\* Gitea gives the runner a job ...
JobClaimed(r) ==
    /\ Jobs /\ r \in IdleNow
    /\ running' = running \union {r}
    /\ UNCHANGED <<runner, age, cached, at, active>>

\* ... which its reconcile writes to the status ...
RecordClaim(r) ==
    /\ at[r] = "" /\ r \in running /\ runner[r] = "idle"
    /\ runner' = [runner EXCEPT ![r] = "claimed"]
    /\ UNCHANGED <<age, running, cached, at, active>>

\* ... and an ephemeral runner is done after it.
JobEnds(r) ==
    /\ r \in running
    /\ running' = running \ {r}
    /\ runner' = [runner EXCEPT ![r] = IF @ = "deleting" THEN @ ELSE "finished"]
    /\ UNCHANGED <<age, cached, at, active>>

-----------------------------------------------------------------------------
Reap(r) == StartReap(r) \/ ListOrgJobs(r) \/ WithinBaseline(r) \/ DeleteRunner(r)

Environment(r) ==
    \/ CreateRunner(r) \/ Sync(r) \/ Wait(r) \/ JobClaimed(r) \/ RecordClaim(r) \/ JobEnds(r)

Next == \E r \in Runners : Reap(r) \/ ReapFails(r) \/ Environment(r)

Spec == Init /\ [][Next]_vars

\* Requeues start every worker again and again, and a reconcile does not fail forever.
FairSpec ==
    /\ Spec
    /\ \A r \in Runners :
        /\ WF_vars(Sync(r)) /\ WF_vars(Wait(r))
        /\ SF_vars(StartReap(r)) /\ SF_vars(ListOrgJobs(r)) /\ SF_vars(WithinBaseline(r))
        /\ SF_vars(DeleteRunner(r))

-----------------------------------------------------------------------------
(* Properties.                                                              *)

\* A runner that is not overage is reaped only while the set has more idle runners
\* than minRunners; otherwise it "is the baseline the set asked for and is kept rather
\* than recycled" (ephemeralrunner_controller.go:811-812).  Two workers break it:
\* README, section 6.
KeepsBaseline ==
    [][\A r \in IdleNow : DeleteRunner(r) /\ age[r] # "overage" =>
            Cardinality(IdleNow) > MinRunners]_vars

\* A runner that the listing of jobs shows busy is not reaped on that listing: "busy
\* runners are never killed except for a reason the operator has actively decided"
\* (docs/adr/0008:33-34).
ListedBusyKept ==
    [][\A r \in Runners : WithinBaseline(r) /\ r \in active[r] => at'[r] # "delete"]_vars

\* A runner whose claim is on record is not reaped as idle while its job runs, though
\* the cache may not show the record and the delete names no version: the job is looked
\* for again first, without an answer nothing is deleted, and none but its own reconcile
\* records a claim (ephemeralrunner_controller.go:246-255).
RecordedClaimKept ==
    [][\A r \in Runners : DeleteRunner(r) => runner[r] # "claimed"]_vars

\* No runner idles forever, baseline or not: it gets a job or is replaced, "so one
\* that can no longer claim a job ... is eventually replaced" (lines 805-807).
NoneIdlesForever == \A r \in Runners : r \in IdleNow ~> r \notin IdleNow
=============================================================================
