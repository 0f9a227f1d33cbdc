------------------------------- MODULE Demand -------------------------------
(***************************************************************************)
(* How the listener turns one org's queue into set sizes                   *)
(* (cmd/listener/demand.go): the runners of each set are counted, each     *)
(* waiting job is counted toward at most one set, and each set is sized.   *)
(*                                                                         *)
(* The loop of assignQueuedJobs runs one job per step.  A set is its place *)
(* in the order of namespace and name, and its labels are a set: repeated  *)
(* labels, which the code would count twice when ordering, are left out.   *)
(***************************************************************************)
EXTENDS Integers, FiniteSets, Sequences

CONSTANTS
    Labels,      \* runs-on labels
    Size,        \* number of runner sets polling the org
    Limits,      \* values maxRunners may have
    Runners,     \* EphemeralRunners in the cluster
    MaxJobs      \* bound: waiting jobs

ASSUME DemandAssumption ==
    /\ Size \in Nat /\ MaxJobs \in Nat /\ Limits \subseteq Nat /\ IsFiniteSet(Runners)

VARIABLES
    labels,      \* each set's labels
    maxRunners,  \* each set's spec.maxRunners
    runner,      \* each runner's set, and what it is doing
    waiting,     \* the queued jobs, each by its labels
    room,        \* how many more jobs each set has room for
    queued,      \* the jobs counted toward each set
    toward       \* the set each job so far was counted toward, 0 for none

input == <<labels, maxRunners, runner, waiting>>
vars  == <<input, room, queued, toward>>

Sets == 1 .. Size

\* A runner may belong to a set that is not polled, here 0.
Uses   == {"idle", "busy", "finished", "deleting"}
Runner == [set : 0 .. Size, use : Uses]

TypeOK ==
    /\ labels \in [Sets -> SUBSET Labels]
    /\ maxRunners \in [Sets -> Nat]
    /\ runner \in [Runners -> Runner]
    /\ waiting \in Seq(SUBSET Labels)
    /\ room \in [Sets -> Int]
    /\ queued \in [Sets -> Nat]
    /\ toward \in Seq(0 .. Size) /\ Len(toward) <= Len(waiting)

\* countRunners: a runner running a job in Gitea, finished or being deleted cannot
\* take a queued job.
Total(s)    == Cardinality({r \in Runners : runner[r].set = s})
Occupied(s) == Cardinality({r \in Runners : runner[r].set = s /\ runner[r].use # "idle"})

\* Any runners, sets and queue may be found by a poll.
Init ==
    /\ labels \in [Sets -> SUBSET Labels]
    /\ maxRunners \in [Sets -> Limits]
    /\ runner \in [Runners -> Runner]
    /\ waiting \in UNION {[1 .. n -> SUBSET Labels] : n \in 0 .. MaxJobs}
    /\ room = [s \in Sets |-> maxRunners[s] - Occupied(s)]
    /\ queued = [s \in Sets |-> 0]
    /\ toward = <<>>

\* A job without labels cannot be scheduled.
JobMatchesSet(job, s) == job # {} /\ job \subseteq labels[s]

Before(s, t) ==
    \/ Cardinality(labels[s]) < Cardinality(labels[t])
    \/ Cardinality(labels[s]) = Cardinality(labels[t]) /\ s < t

\* The sets that could be given a job; the first of them in the order gets it.
HasRoom(s) == room[s] > 0
Fits(job) == {s \in Sets : HasRoom(s) /\ JobMatchesSet(job, s)}
FirstByName(sets, s) == s \in sets /\ \A t \in sets : s <= t   \* (Mutant: name order.)
First(sets, s) == s \in sets /\ \A t \in sets : t = s \/ Before(s, t)

job == waiting[Len(toward) + 1]

\* (Mutant: the job takes no room.)
CountWithoutRoom(s) ==
    /\ Len(toward) < Len(waiting) /\ First(Fits(job), s)
    /\ queued' = [queued EXCEPT ![s] = @ + 1]
    /\ toward' = Append(toward, s)
    /\ UNCHANGED <<input, room>>

CountToward(s) ==
    /\ Len(toward) < Len(waiting) /\ First(Fits(job), s)
    /\ queued' = [queued EXCEPT ![s] = @ + 1]
    /\ room' = [room EXCEPT ![s] = @ - 1]
    /\ toward' = Append(toward, s)
    /\ UNCHANGED input

LeaveWaiting ==
    /\ Len(toward) < Len(waiting) /\ Fits(job) = {}
    /\ toward' = Append(toward, 0)
    /\ UNCHANGED <<input, room, queued>>

Next == LeaveWaiting \/ \E s \in Sets : CountToward(s)

Spec == Init /\ [][Next]_vars

Done == Len(toward) = Len(waiting)

\* (Mutant: min counts occupied runners too.)
DesiredAtLeastMin(s, min) ==
    LET busy == Occupied(s) + queued[s]
        want == IF busy >= min THEN busy ELSE min
    IN  IF want <= maxRunners[s] THEN want ELSE maxRunners[s]

\* desiredRunners: the size of a set whose spec.minRunners is min.
DesiredRunners(s, min) ==
    LET idle == IF queued[s] >= min THEN queued[s] ELSE min
        want == Occupied(s) + idle
    IN  IF want <= maxRunners[s] THEN want ELSE maxRunners[s]

-----------------------------------------------------------------------------
(* Properties.                                                              *)

\* Each job is counted toward exactly one matching set or stays uncounted, and both
\* the counts and the room left are those of the jobs so far ("counts each queued job
\* toward exactly one set", cmd/listener/demand.go:16).
CountedTowardOne ==
    /\ TypeOK
    /\ \A s \in Sets :
          /\ queued[s] = Cardinality({k \in DOMAIN toward : toward[k] = s})
          /\ room[s] = maxRunners[s] - Occupied(s) - queued[s]
    /\ \A k \in DOMAIN toward : toward[k] # 0 => JobMatchesSet(waiting[k], toward[k])

\* A job is left uncounted only when every set that could serve it is full, and goes
\* past a set with fewer labels only when that one is ("the matching set with the
\* fewest labels that still has room", cmd/listener/demand.go:16-17).
PassedOverOnlyFull ==
    \A k \in DOMAIN toward, s \in Sets :
        JobMatchesSet(waiting[k], s) /\ toward[k] # s /\ HasRoom(s) =>
            toward[k] # 0 /\ Before(toward[k], s)

\* A sized set has a runner for every job counted toward it, keeps every occupied one
\* and its idle floor, and never exceeds its ceiling ("every occupied runner stays,
\* each queued job gets its own runner", cmd/listener/demand.go:86-87).
SizedForItsJobs ==
    Done => \A s \in Sets, min \in Limits :
        LET desired == DesiredRunners(s, min)
        IN  /\ desired <= maxRunners[s]
            /\ Occupied(s) <= maxRunners[s] => desired >= Occupied(s) + queued[s]
            /\ desired < maxRunners[s] => desired - Occupied(s) >= min
=============================================================================
