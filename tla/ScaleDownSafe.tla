--------------------------- MODULE ScaleDownSafe ---------------------------
(***************************************************************************)
(* Which runners a scale-down may delete                                   *)
(* (internal/controller/ephemeralrunnerset_controller.go, the deletion     *)
(* loop of Reconcile and scaleDownSafe): those that have "certainly not    *)
(* claimed a job", cheapest first.                                         *)
(*                                                                         *)
(* Nothing the controller can read says so directly.  It concludes it from *)
(* two ages and from informer copies of the EphemeralRunner and its pod,   *)
(* so the conclusion is about time: everything here has an age in ticks,   *)
(* and a copy d ticks old is what there was d ticks ago, lost since or     *)
(* not.  Lag bounds d and covers the rest of the pass too, between reading *)
(* the evidence and deleting on it.  How many runners go is the question   *)
(* of RunnerSetScaling: the list of them and replicas are current here.    *)
(***************************************************************************)
EXTENDS Integers, FiniteSets

CONSTANTS
    Runners,      \* names for EphemeralRunners; one is used again once gone
    MinReplicas,  \* bounds: what the listener may ask for as the set's replicas
    MaxReplicas,
    Grace,        \* registrationGracePeriod
    Lag,          \* how old a cached copy may be when a deletion is based on it
    MinClaim,     \* act_runner claims no job sooner than this after it starts
    MaxWait,      \* a pod is bound within this of its runner's creation, or never is
    MaxPull,      \* its runner container starts within this of that, or never does
    Horizon       \* bound: ages stop here; a MaxWait or MaxPull this large is no limit

ASSUME AgeAssumption ==
    /\ MinReplicas \in Nat /\ MaxReplicas \in Nat /\ Grace \in Nat /\ Lag \in Nat /\ MinClaim \in Nat
    /\ MaxWait \in Nat /\ MaxPull \in Nat /\ Horizon \in Nat
    /\ Grace <= Horizon /\ Lag <= Horizon /\ MinClaim <= Horizon
    /\ IsFiniteSet(Runners)

\* What the two grace periods rest on: jobs are claimed only once the caches show the
\* container started, or pods are bound and started well within the grace periods.
Timely ==
    \/ Lag <= MinClaim
    \/ MaxWait + Lag <= Grace /\ MaxPull + Lag <= Grace

VARIABLES
    desired,    \* the set's replicas
    present,    \* its EphemeralRunners, those being deleted included
    deleting,   \* those whose deletion was requested
    age,        \* how long ago each was created
    recorded,   \* whether its recorded phase is past Pending
    pod,        \* what happened to its pod, and how long ago
    claimed,    \* those that have claimed their job, and are not done with it
    past        \* history: what a copy 1 .. Lag ticks old shows of each

status == <<recorded, pod>>
vars   == <<desired, present, deleting, age, status, claimed, past>>

Never == -1
Age   == {Never} \cup 0 .. Horizon

\* A pod is made, bound to a node (PodScheduled), has its runner container begun, and
\* leaves phase Pending when its last container is created, which may be much later.
Pod   == [made : BOOLEAN, bound : Age, begun : Age, running : BOOLEAN]
NoPod == [made |-> FALSE, bound |-> Never, begun |-> Never, running |-> FALSE]

\* What is read of a runner and its pod: when the pod was bound is a timestamp on it.
Copy   == [recorded : BOOLEAN, made : BOOLEAN, bound : Age, begun : BOOLEAN, running : BOOLEAN]
NoCopy == [recorded |-> FALSE, made |-> FALSE, bound |-> Never, begun |-> FALSE, running |-> FALSE]

TypeOK ==
    /\ desired \in MinReplicas .. MaxReplicas
    /\ present \subseteq Runners /\ deleting \subseteq present /\ claimed \subseteq present
    /\ age \in [Runners -> 0 .. Horizon]
    /\ recorded \in [Runners -> BOOLEAN]
    /\ pod \in [Runners -> Pod]
    /\ past \in [Runners -> [1 .. Lag -> Copy]]

Init ==
    /\ desired \in MinReplicas .. MaxReplicas
    /\ present = {} /\ deleting = {} /\ claimed = {}
    /\ age = [r \in Runners |-> 0]
    /\ recorded = [r \in Runners |-> FALSE]
    /\ pod = [r \in Runners |-> NoPod]
    /\ past = [r \in Runners |-> [d \in 1 .. Lag |-> NoCopy]]

-----------------------------------------------------------------------------
(* The evidence.                                                            *)

Current(r) == [recorded |-> recorded[r], made |-> pod[r].made, bound |-> pod[r].bound,
               begun |-> pod[r].begun # Never, running |-> pod[r].running]

\* A copy that is d ticks old.
Shown(r, d) == IF d = 0 THEN Current(r) ELSE past[r][d]

\* (Mutants: a pod in phase Pending has started nothing; one that is not bound is spared.)
SafeByPhase(r, d, e) ==
    /\ age[r] >= Grace
    /\ ~Shown(r, e).recorded
    /\ ~Shown(r, d).running
    /\ Shown(r, d).bound # Never => Shown(r, d).bound >= Grace

SafeIfBound(r, d, e) ==
    /\ age[r] >= Grace
    /\ ~Shown(r, e).recorded
    /\ ~Shown(r, d).running /\ ~Shown(r, d).begun
    /\ Shown(r, d).made => Shown(r, d).bound >= Grace

\* scaleDownSafe, with a pod d ticks and an EphemeralRunner e ticks old.
Safe(r, d, e) ==
    /\ age[r] >= Grace
    /\ ~Shown(r, e).recorded
    /\ ~Shown(r, d).running /\ ~Shown(r, d).begun
    /\ Shown(r, d).bound # Never => Shown(r, d).bound >= Grace

\* (Mutant: candidates are deleted in the order the cache lists them.)
RankAlike(r, d) == 0

\* rankNoPod, rankUnscheduled, rankScheduledPulling.
Rank(r, d) ==
    IF ~Shown(r, d).made THEN 0 ELSE IF Shown(r, d).bound = Never THEN 1 ELSE 2

-----------------------------------------------------------------------------
(* The EphemeralRunnerSet controller.                                       *)

Excess == Cardinality(present) - desired

Least(m, n) == IF m <= n THEN m ELSE n

Candidates(d, e) == {r \in present : Safe(r, d[r], e)}

\* Every candidate is looked at before the first delete; they go by rank, in any order
\* within one.
CheapestFirst(victims, candidates, d) ==
    \A v \in victims, s \in candidates \ victims : Rank(v, d[v]) <= Rank(s, d[s])

\* The deletion loop over copies of any age, done or cut short by a delete that fails; a
\* candidate that is being deleted, or gone, counts as deleted.
DeletionLoop(fails) ==
    /\ Excess > 0
    /\ \E d \in [Runners -> 0 .. Lag], e \in 0 .. Lag :
          LET candidates == Candidates(d, e)
              wanted     == Least(Excess, Cardinality(candidates))
          IN  \E victims \in SUBSET candidates :
                /\ IF fails THEN Cardinality(victims) < wanted ELSE Cardinality(victims) = wanted
                /\ CheapestFirst(victims, candidates, d)
                /\ deleting' = deleting \cup victims
    /\ UNCHANGED <<desired, present, age, status, claimed, past>>

Trim      == DeletionLoop(FALSE)
TrimFails == DeletionLoop(TRUE)

CreateRunner(r) ==
    /\ r \notin present /\ Excess < 0
    /\ present' = present \cup {r}
    /\ UNCHANGED <<desired, deleting, age, status, claimed, past>>

-----------------------------------------------------------------------------
(* The runners: what the EphemeralRunner controller, the cluster and Gitea do. *)

CreatePod(r) ==
    /\ r \in present \ deleting /\ ~pod[r].made
    /\ pod' = [pod EXCEPT ![r].made = TRUE]
    /\ UNCHANGED <<desired, present, deleting, age, recorded, claimed, past>>

PodBound(r) ==
    /\ pod[r].made /\ pod[r].bound = Never /\ age[r] <= MaxWait
    /\ pod' = [pod EXCEPT ![r].bound = 0]
    /\ UNCHANGED <<desired, present, deleting, age, recorded, claimed, past>>

ContainerStarts(r) ==
    /\ pod[r].bound # Never /\ pod[r].begun = Never /\ pod[r].bound <= MaxPull
    /\ pod' = [pod EXCEPT ![r].begun = 0]
    /\ UNCHANGED <<desired, present, deleting, age, recorded, claimed, past>>

PodRuns(r) ==
    /\ pod[r].begun # Never /\ ~pod[r].running
    /\ pod' = [pod EXCEPT ![r].running = TRUE]
    /\ UNCHANGED <<desired, present, deleting, age, recorded, claimed, past>>

JobClaimed(r) ==
    /\ r \in present \ (deleting \cup claimed)
    /\ pod[r].begun # Never /\ pod[r].begun >= MinClaim
    /\ claimed' = claimed \cup {r}
    /\ UNCHANGED <<desired, present, deleting, age, status, past>>

\* The runner exits and its finished EphemeralRunner is torn down.
JobEnds(r) ==
    /\ r \in claimed
    /\ claimed' = claimed \ {r} /\ deleting' = deleting \cup {r}
    /\ UNCHANGED <<desired, present, age, status, past>>

\* A node drains or a user deletes the pod, and a job with it; CreatePod replaces it.
PodLost(r) ==
    /\ r \in present \ deleting /\ pod[r].made
    /\ pod' = [pod EXCEPT ![r] = NoPod] /\ claimed' = claimed \ {r}
    /\ UNCHANGED <<desired, present, deleting, age, recorded, past>>

\* The phase follows the pod's, back to Pending too when the pod is a replacement.
RecordPhase(r) ==
    /\ pod[r].made /\ recorded[r] # pod[r].running
    /\ recorded' = [recorded EXCEPT ![r] = pod[r].running]
    /\ UNCHANGED <<desired, present, deleting, age, pod, claimed, past>>

\* Teardown is complete and nothing is left; the next of the name starts afresh.
RunnerGone(r) ==
    /\ r \in deleting
    /\ present' = present \ {r} /\ deleting' = deleting \ {r} /\ claimed' = claimed \ {r}
    /\ age' = [age EXCEPT ![r] = 0]
    /\ recorded' = [recorded EXCEPT ![r] = FALSE]
    /\ pod' = [pod EXCEPT ![r] = NoPod]
    /\ past' = [past EXCEPT ![r] = [d \in 1 .. Lag |-> NoCopy]]
    /\ UNCHANGED desired

\* The listener.
Resize ==
    /\ desired' \in MinReplicas .. MaxReplicas
    /\ UNCHANGED <<present, deleting, age, status, claimed, past>>

Older(a) == IF a \in {Never, Horizon} THEN a ELSE a + 1

Tick ==
    /\ age' = [r \in Runners |-> IF r \in present THEN Older(age[r]) ELSE age[r]]
    /\ pod' = [r \in Runners |-> [pod[r] EXCEPT !.bound = Older(@), !.begun = Older(@)]]
    /\ past' = [r \in Runners |-> [d \in 1 .. Lag |->
                  [Shown(r, d - 1) EXCEPT !.bound = Older(@)]]]
    /\ UNCHANGED <<desired, present, deleting, recorded, claimed>>

-----------------------------------------------------------------------------
Environment(r) ==
    \/ CreateRunner(r) \/ CreatePod(r) \/ PodBound(r) \/ ContainerStarts(r) \/ PodRuns(r)
    \/ JobClaimed(r) \/ JobEnds(r) \/ PodLost(r) \/ RecordPhase(r) \/ RunnerGone(r)

Next == Trim \/ TrimFails \/ Resize \/ Tick \/ \E r \in Runners : Environment(r)

Spec == Init /\ [][Next]_vars

\* The set is reconciled every 10 s, and a delete does not fail every time; a deleted
\* runner is torn down; time passes.
FairSpec ==
    Spec /\ WF_vars(Trim) /\ WF_vars(Tick) /\ \A r \in Runners : WF_vars(RunnerGone(r))

-----------------------------------------------------------------------------
(* Properties.                                                              *)

\* "it has certainly not claimed a job" (ephemeralrunnerset_controller.go:314-315):
\* nothing but its own end asks for the deletion of a runner that has a job.
BusyNeverKilled ==
    [][\A r \in claimed \cap claimed' : r \in deleting' => r \in deleting]_vars

\* No copy that may be read shows anything but an old runner whose pod is not bound.
Unscheduled(r) ==
    /\ age[r] >= Grace
    /\ \A d \in 0 .. Lag : ~Shown(r, d).recorded /\ Shown(r, d).bound = Never

\* The sort keeps a scale-down from picking "a pod mid-image-pull while an
\* unschedulable sibling survives" (lines 224-227), once both have been so for as long
\* as the caches may be late.
PullingSpared ==
    [][\A v \in (deleting' \ deleting) \ claimed, s \in present \ deleting' :
          ~(pod[v].bound >= Lag /\ Unscheduled(s))]_vars

\* An unwanted runner that never starts is deleted: no check spares it for ever.
StuckTrimmed ==
    \A r \in Runners :
        []<>~(r \in present \ deleting /\ ~recorded[r] /\ pod[r].begun = Never /\ Excess > 0)

(* Why no runner with a job is deleted.                                     *)

AgesInv ==
    \A r \in Runners :
        /\ r \in claimed => pod[r].begun >= MinClaim
        /\ pod[r].begun # Never => pod[r].bound # Never /\ pod[r].bound <= pod[r].begun + MaxPull
        /\ pod[r].bound # Never => age[r] <= pod[r].bound + MaxWait
        /\ pod[r].running => pod[r].begun # Never
        /\ pod[r].bound # Never => pod[r].made

\* A copy shows what had happened by its time to the pod there is now; of whichever pod
\* it shows, nothing started that was not bound, or bound that was not made.
PastInv ==
    \A r \in Runners, d \in 0 .. Lag :
        /\ pod[r].bound >= d => Shown(r, d).bound = pod[r].bound
        /\ pod[r].begun >= d => Shown(r, d).begun
        /\ Shown(r, d).running => Shown(r, d).begun
        /\ Shown(r, d).begun => Shown(r, d).bound # Never
        /\ Shown(r, d).bound # Never => Shown(r, d).made

EvidenceInv == TypeOK /\ AgesInv /\ PastInv

(* Said of this code and not so (README, section 6).                        *)

\* The same at once: a sibling whose pod was lost is shown bound or running for a while.
PullingSparedAtOnce ==
    [][\A v \in (deleting' \ deleting) \ claimed, s \in present \ deleting' :
          ~ /\ pod[v].bound >= Lag
            /\ age[s] >= Grace /\ ~recorded[s] /\ pod[s].bound = Never]_vars
=============================================================================
