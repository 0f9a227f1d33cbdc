---------------------------- MODULE DemandServed ----------------------------
(***************************************************************************)
(* Does a waiting job get a runner?  The listener (cmd/listener/main.go),  *)
(* the EphemeralRunnerSet controller (ephemeralrunnerset_controller.go) and *)
(* the runners composed around Gitea's queue, for one GiteaRunnerSet.      *)
(*                                                                         *)
(* Nothing in the code hands a job to a runner: the listener writes a size *)
(* and a PatchID from what it saw, the controller spends each PatchID      *)
(* once, and what was lost on the way (a stale list, a conflict, a create  *)
(* that failed after the claim) has to be noticed at a later poll.         *)
(*                                                                         *)
(* A read from an informer cache and the write decided on it are one step  *)
(* here: a cached copy may be as old as it likes when it is read, so a     *)
(* delay between the two shows nothing that an older copy does not.  What  *)
(* Gitea answers is as of that step too: an older answer can only make one *)
(* more poll necessary.  RunnerSetScaling has the calls one by one.        *)
(***************************************************************************)
EXTENDS SetSizing, FiniteSets

CONSTANTS
    Jobs,           \* bound: jobs ever queued in the org
    Runners,        \* names for EphemeralRunners; one is used again once forgotten
    MaxMishaps      \* bound: failed calls, restarts and runners lost or timed out

ASSUME ServedAssumption ==
    /\ Jobs \in Nat /\ MaxMishaps \in Nat /\ IsFiniteSet(Runners)

VARIABLES
    arrived,    \* how many jobs were queued so far
    queued,     \* how many of them wait in Gitea
    runner,     \* each EphemeralRunner with its pod
    ers,        \* the EphemeralRunnerSet as stored
    cached,     \* the set as each process's informer shows it
    listed,     \* the runners as each process's informer shows them
    left,       \* how many runners the controller's reconcile has yet to create
    mishaps

vars == <<arrived, queued, runner, ers, cached, listed, left, mishaps>>

Processes == {"listener", "manager"}

\* PatchIDs and versions only matter by comparison, so the outcomes are kept: a set is
\* settled if lastReconcilePatchID is its patchID, and a cached copy is current if it is
\* the stored version, and fresh if it has the patchID that is published.  The listener
\* looks at the replicas only.
Set  == [replicas : 0 .. MaxRunners, settled : BOOLEAN]
Copy == [replicas : 0 .. MaxRunners, settled : BOOLEAN, current : BOOLEAN, fresh : BOOLEAN]
CurrentCopy(p) ==
    [replicas |-> ers.replicas, settled |-> p = "manager" /\ ers.settled,
     current |-> TRUE, fresh |-> p = "manager"]

\* A runner is pending until act_runner polls for a job (ready), busy with its one job,
\* and ended from its exit or deletion until its finalizer is removed.  A cache does
\* not show whether it has a job, Gitea does; the controller counts runners and no more.
Stages == {"absent", "pending", "ready", "busy", "ended"}
Views  == {"absent", "present", "ended"}
View(p, r) == IF runner[r] = "absent" \/ (p = "listener" /\ runner[r] = "ended")
              THEN runner[r] ELSE "present"

Busy == {r \in Runners : runner[r] = "busy"}

TypeOK ==
    /\ arrived \in 0 .. Jobs /\ queued \in 0 .. arrived
    /\ runner \in [Runners -> Stages]
    /\ ers \in Set
    /\ cached \in [Processes -> Copy]
    /\ listed \in [Processes -> [Runners -> Views]]
    /\ left \in 0 .. MaxRunners
    /\ mishaps \in 0 .. MaxMishaps

\* The listener's first poll has created the set.
Init ==
    /\ arrived = 0 /\ queued = 0
    /\ runner = [r \in Runners |-> "absent"]
    /\ ers = [replicas |-> SmallerOf(MinRunners, MaxRunners), settled |-> FALSE]
    /\ cached = [p \in Processes |-> CurrentCopy(p)]
    /\ listed = [p \in Processes |-> runner]
    /\ left = 0
    /\ mishaps = 0

\* An error return, a process restarting, or a runner that comes to nothing.
Mishap == mishaps < MaxMishaps /\ mishaps' = mishaps + 1

-----------------------------------------------------------------------------
(* The informers.                                                           *)

SyncSet(p) ==
    /\ ~cached[p].current
    /\ cached' = [cached EXCEPT ![p] = CurrentCopy(p)]
    /\ UNCHANGED <<arrived, queued, runner, ers, listed, left, mishaps>>

\* Events of one kind arrive in order, so a list is the runners at some moment.
SyncRunners(p) ==
    /\ \E r \in Runners : listed[p][r] # View(p, r)
    /\ listed' = [listed EXCEPT ![p] = [r \in Runners |-> View(p, r)]]
    /\ UNCHANGED <<arrived, queued, runner, ers, cached, left, mishaps>>

\* The runners a process lists, busy, ended and all.
Listed(p) == {r \in Runners : listed[p][r] # "absent"}

\* A write that makes a new version leaves every copy behind.
Outdated(c)    == [c EXCEPT !.current = FALSE]
Republished(c) == [c EXCEPT !.current = FALSE, !.fresh = FALSE]

-----------------------------------------------------------------------------
(* The listener, every poll interval.                                       *)

\* A listed runner with a job in Gitea, finished or being deleted takes no other job.
Occupied == {r \in Listed("listener") :
                r \in Busy \/ listed["listener"][r] = "ended"}

desired == Desired(queued, Cardinality(Occupied))

\* (Mutant: a set whose replicas are right is left alone.)
ResizeOnNewSize == cached["listener"].replicas # desired

Resize ==
    \/ cached["listener"].replicas # desired
    \/ desired > Cardinality(Listed("listener"))

\* One poll that writes replicas and a new PatchID; the update is refused unless it was
\* made from the stored version.  A poll that fails or finds nothing to change does
\* nothing here.
UpdateSet ==
    /\ Resize /\ cached["listener"].current
    /\ ers' = [replicas |-> desired, settled |-> FALSE]
    /\ cached' = [p \in Processes |-> Republished(cached[p])]
    /\ UNCHANGED <<arrived, queued, runner, listed, left, mishaps>>

-----------------------------------------------------------------------------
(* The EphemeralRunnerSet controller.                                       *)

\* What the reconcile finds in its cache.
copy  == cached["manager"]
count == Cardinality(Listed("manager"))

Missing == IF count < copy.replicas /\ ~copy.settled THEN copy.replicas - count ELSE 0
Excess  == IF count > copy.replicas THEN count - copy.replicas ELSE 0

\* The PatchID is claimed, by a write a stale copy cannot make, before it is spent.
ClaimPatch ==
    /\ left = 0 /\ Missing > 0 /\ copy.current
    /\ ers' = [ers EXCEPT !.settled = TRUE]
    /\ cached' = [p \in Processes |-> Outdated(cached[p])]
    /\ left' = Missing
    /\ UNCHANGED <<arrived, queued, runner, listed, mishaps>>

\* A name is never used twice while anyone remembers its last bearer.  The status
\* write after the last one finds the PatchID recorded by the claim.
Forgotten == {r \in Runners : runner[r] = "absent" /\ \A p \in Processes : r \notin Listed(p)}

CreateRunner ==
    /\ left > 0 /\ Forgotten # {}
    /\ runner' = [runner EXCEPT ![CHOOSE r \in Forgotten : TRUE] = "pending"]
    /\ left' = left - 1
    /\ UNCHANGED <<arrived, queued, ers, cached, listed, mishaps>>

\* The rest of the loop is lost: no token, a failed create, a restart.
ReconcileFails ==
    /\ left > 0 /\ Mishap
    /\ left' = 0
    /\ UNCHANGED <<arrived, queued, runner, ers, cached, listed>>

\* (Mutant: the PatchID of the version it is written to.)
RecordLatestPatch ==
    IF ers.settled
    THEN UNCHANGED <<ers, cached>>
    ELSE /\ ers' = [ers EXCEPT !.settled = TRUE]
         /\ cached' = [p \in Processes |-> Outdated(cached[p])]

\* The final status write is retried on whatever version is stored, and stamps the
\* PatchID of the copy the reconcile began with: the published one is settled by it
\* if that copy has it, and is no longer if it has not.
RecordPatch ==
    IF ers.settled = copy.fresh
    THEN UNCHANGED <<ers, cached>>
    ELSE /\ ers' = [ers EXCEPT !.settled = copy.fresh]
         /\ cached' = [p \in Processes |-> Outdated(cached[p])]

\* scaleDownSafe spares every runner whose age or pod says it may have started, and a
\* pending one that is young or has its node as well; one already gone or on its way may
\* be chosen, and counts as deleted.
Trim ==
    /\ left = 0 /\ Excess > 0
    /\ LET safe == {r \in Listed("manager") : runner[r] \notin {"ready", "busy"}}
       IN  \E victims \in SUBSET safe :
              /\ Cardinality(victims) <= Excess
              /\ runner' = [r \in Runners |-> IF r \in victims /\ runner[r] = "pending"
                                              THEN "ended" ELSE runner[r]]
    /\ RecordPatch
    /\ UNCHANGED <<arrived, queued, listed, left, mishaps>>

NothingToDo ==
    /\ left = 0 /\ Missing = 0 /\ Excess = 0
    /\ RecordPatch
    /\ UNCHANGED <<arrived, queued, runner, listed, left, mishaps>>

-----------------------------------------------------------------------------
(* Gitea, the pods and the EphemeralRunner controller.                      *)

JobQueued ==
    /\ arrived < Jobs
    /\ arrived' = arrived + 1 /\ queued' = queued + 1
    /\ UNCHANGED <<runner, ers, cached, listed, left, mishaps>>

RunnerStarts(r) ==
    /\ runner[r] = "pending"
    /\ runner' = [runner EXCEPT ![r] = "ready"]
    /\ UNCHANGED <<arrived, queued, ers, cached, listed, left, mishaps>>

JobClaimed(r) ==
    /\ runner[r] = "ready" /\ queued > 0
    /\ queued' = queued - 1
    /\ runner' = [runner EXCEPT ![r] = "busy"]
    /\ UNCHANGED <<arrived, ers, cached, listed, left, mishaps>>

\* One job, and the runner exits.
JobEnds(r) ==
    /\ runner[r] = "busy"
    /\ runner' = [runner EXCEPT ![r] = "ended"]
    /\ UNCHANGED <<arrived, queued, ers, cached, listed, left, mishaps>>

\* A timeout, a lost node or a user ends a runner that has no job.
RunnerLost(r) ==
    /\ runner[r] \in {"pending", "ready"} /\ Mishap
    /\ runner' = [runner EXCEPT ![r] = "ended"]
    /\ UNCHANGED <<arrived, queued, ers, cached, listed, left>>

\* Teardown is complete: the finalizer is removed.
RunnerGone(r) ==
    /\ runner[r] = "ended"
    /\ runner' = [runner EXCEPT ![r] = "absent"]
    /\ UNCHANGED <<arrived, queued, ers, cached, listed, left, mishaps>>

-----------------------------------------------------------------------------
Starts == \E r \in Runners : RunnerStarts(r)
Claims == \E r \in Runners : JobClaimed(r)
Ends   == \E r \in Runners : JobEnds(r)
Goes   == \E r \in Runners : RunnerGone(r)

Reconciles == CreateRunner \/ Trim \/ NothingToDo
Informers  == \E p \in Processes : SyncSet(p) \/ SyncRunners(p)

Next ==
    \/ UpdateSet \/ ClaimPatch \/ Reconciles \/ ReconcileFails \/ Informers
    \/ JobQueued \/ Starts \/ Claims \/ Ends \/ Goes \/ \E r \in Runners : RunnerLost(r)

Spec == Init /\ [][Next]_vars

\* Polls, requeues and informers go on.  The two optimistic writes need strong
\* fairness: a write that conflicts is retried with what the cache shows by then, and
\* the cache is not behind every time.  So does the start of a pod: scale-down may
\* delete one after another before any has started, but not for ever.
Fairness ==
    /\ SF_vars(UpdateSet) /\ SF_vars(ClaimPatch) /\ SF_vars(Starts)
    /\ WF_vars(Reconciles) /\ WF_vars(Claims) /\ WF_vars(Ends) /\ WF_vars(Goes)
    /\ \A p \in Processes : WF_vars(SyncSet(p)) /\ WF_vars(SyncRunners(p))

FairSpec == Spec /\ Fairness

-----------------------------------------------------------------------------
(* Properties.                                                              *)

\* A size is settled only by a reconcile that lists as many runners or sets out to
\* create the rest, though the last status write goes to whatever version is stored by
\* then (ephemeralrunnerset_controller.go:280-292); and a settled size is opened again
\* only by the listener.
SettledWhenMet ==
    [][/\ ~ers.settled /\ ers'.settled => count + left' >= ers.replicas
       /\ ers.settled /\ ~ers'.settled => UpdateSet]_vars

\* The runners that may still take a job.
Coming == {r \in Runners : runner[r] \in {"pending", "ready"}}

\* Once the listener sees the runners as they are and asks for no more, each waiting
\* job has a runner on its way or the set is full: what finished since the last poll
\* has been replaced (cmd/listener/main.go:240-244).
RestsWhenServed ==
    (\A r \in Runners : listed["listener"][r] = View("listener", r)) /\ ~Resize =>
        Cardinality(Coming) >= queued \/ Cardinality(Coming \cup Occupied) >= MaxRunners

\* Every queued job gets a runner, whatever was lost on the way to it.  The listener
\* asks again whenever the runners are fewer than the jobs need, "so a runner that
\* finished after the last poll is not replaced until demand is read again"
\* (cmd/listener/main.go:241-242) and then is.
JobsServed == queued > 0 ~> queued = 0
=============================================================================
