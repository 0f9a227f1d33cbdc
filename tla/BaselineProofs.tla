--------------------------- MODULE BaselineProofs ---------------------------
(***************************************************************************)
(* Proofs about IdleBaseline, for any number of runners: the types, and    *)
(* with them that the workers are never more than MaxConcurrentReconciles; *)
(* and that no runner with a recorded claim is reaped as idle.             *)
(***************************************************************************)
EXTENDS IdleBaseline, FiniteSetTheorems, TLAPS

\* The runners that have a worker on them; nobody is at work on the others.
Reaping == {r \in Runners : at[r] # ""}
Nowhere == ""

LEMMA StepTypes == Nowhere \in Step /\ {"jobs", "runners", "delete"} \subseteq Step
BY Zenon DEF Nowhere, Step

\* A step that puts no worker on a runner keeps their number.
LEMMA NoMoreWorkers ==
    ASSUME TypeOK, Reaping' \subseteq Reaping
    PROVE  Cardinality(Reaping') <= Workers
<1>1. IsFiniteSet(Reaping) /\ Reaping' \subseteq Reaping
  BY BaselineAssumption, FS_Subset, Reaping \subseteq Runners DEF Reaping
<1>2. Cardinality(Reaping') <= Cardinality(Reaping)
      /\ Cardinality(Reaping') \in Nat /\ Cardinality(Reaping) \in Nat
  BY <1>1, FS_Subset, FS_CardinalityType
<1>3. Cardinality(Reaping) <= Workers
  BY Zenon DEF TypeOK, Reaping
<1> QED BY <1>2, <1>3, BaselineAssumption

\* Where a worker goes on a runner that has one, or when it leaves it.
LEMMA WorkerMoves ==
    ASSUME TypeOK, NEW r \in Runners, NEW step \in Step,
           r \in Reaping \/ step = Nowhere, at' = [at EXCEPT ![r] = step]
    PROVE  at' \in [Runners -> Step] /\ Cardinality(Reaping') <= Workers
<1>1. at \in [Runners -> Step]
  BY Zenon DEF TypeOK
<1>2. at' \in [Runners -> Step]
  BY <1>1
<1>3. \A q \in Runners : at'[q] = IF q = r THEN step ELSE at[q]
  BY <1>1
<1>4. Reaping' \subseteq Reaping
  BY <1>3, Zenon DEF Reaping, Nowhere
<1> QED BY <1>2, <1>4, NoMoreWorkers

\* Every step keeps the types.
LEMMA TypeKept ==
    ASSUME TypeOK, [Next]_vars
    PROVE  TypeOK'
<1>0. /\ runner \in [Runners -> Object] /\ cached \in [Runners -> Object]
      /\ age \in [Runners -> Ages] /\ running \in SUBSET Runners
      /\ at \in [Runners -> Step] /\ active \in [Runners -> SUBSET Runners]
  BY Zenon DEF TypeOK
<1>1. ASSUME /\ runner' \in [Runners -> Object] /\ cached' \in [Runners -> Object]
             /\ age' \in [Runners -> Ages] /\ running' \in SUBSET Runners
             /\ at' \in [Runners -> Step] /\ active' \in [Runners -> SUBSET Runners]
             /\ Cardinality(Reaping') <= Workers
      PROVE  TypeOK'
  BY <1>1, Zenon DEF TypeOK, Reaping
<1>2. ASSUME UNCHANGED at
      PROVE  at' \in [Runners -> Step] /\ Cardinality(Reaping') <= Workers
  <2>1. Reaping' \subseteq Reaping
    BY <1>2, Zenon DEF Reaping
  <2> QED BY <1>0, <1>2, <2>1, NoMoreWorkers
<1>3. ASSUME NEW r \in Runners, StartReap(r)
      PROVE  TypeOK'
  <2>1. PICK step \in {"delete", "jobs"} : at' = [at EXCEPT ![r] = step]
    BY <1>3, Zenon DEF StartReap
  <2>2. step # Nowhere
    BY <2>1, Zenon DEF Nowhere
  <2>3. at' \in [Runners -> Step]
        /\ \A q \in Runners : at'[q] = IF q = r THEN step ELSE at[q]
    BY <1>0, <2>1, StepTypes
  <2>4. r \notin Reaping /\ Reaping' = Reaping \cup {r}
    <3>1. r \notin Reaping
      BY <1>3, Zenon DEF StartReap, Reaping
    <3>2. \A q \in Runners : q \in Reaping' <=> q \in Reaping \cup {r}
      BY <2>2, <2>3, Zenon DEF Reaping, Nowhere
    <3>3. Reaping' \subseteq Runners /\ Reaping \subseteq Runners
      BY Zenon DEF Reaping
    <3> QED BY <3>1, <3>2, <3>3
  <2>5. Cardinality(Reaping) < Workers
    BY <1>3, Zenon DEF StartReap, Reaping
  <2>6. IsFiniteSet(Reaping)
    BY BaselineAssumption, FS_Subset, Reaping \subseteq Runners DEF Reaping
  <2>7. Cardinality(Reaping') = Cardinality(Reaping) + 1 /\ Cardinality(Reaping) \in Nat
    BY <2>4, <2>6, FS_AddElement, FS_CardinalityType
  <2>8. Cardinality(Reaping') <= Workers
    BY <2>5, <2>7, BaselineAssumption
  <2>9. UNCHANGED <<runner, age, running, cached, active>>
    BY <1>3, Zenon DEF StartReap
  <2> QED BY <1>0, <1>1, <2>3, <2>8, <2>9
<1>4. ASSUME NEW r \in Runners,
             ListOrgJobs(r) \/ WithinBaseline(r) \/ DeleteRunner(r) \/ ReapFails(r)
      PROVE  TypeOK'
  <2>1. r \in Reaping
    BY <1>4, Zenon DEF ListOrgJobs, WithinBaseline, DeleteRunner, ReapFails, Reaping
  <2>2. PICK step \in {Nowhere, "runners", "delete"} : at' = [at EXCEPT ![r] = step]
    BY <1>4, Zenon DEF ListOrgJobs, WithinBaseline, DeleteRunner, ReapFails, Nowhere
  <2>3. at' \in [Runners -> Step] /\ Cardinality(Reaping') <= Workers
    BY <2>1, <2>2, StepTypes, WorkerMoves
  <2>4. /\ runner' \in {runner, [runner EXCEPT ![r] = "deleting"]}
        /\ active' \in {active, [active EXCEPT ![r] = running], [active EXCEPT ![r] = {}]}
        /\ UNCHANGED <<age, running, cached>>
    BY <1>4, Zenon DEF ListOrgJobs, WithinBaseline, DeleteRunner, ReapFails
  <2>5. runner' \in [Runners -> Object] /\ active' \in [Runners -> SUBSET Runners]
    BY <1>0, <2>4 DEF Object
  <2> QED BY <1>0, <1>1, <2>3, <2>4, <2>5
<1>5. ASSUME NEW r \in Runners, Environment(r)
      PROVE  TypeOK'
  <2>1. UNCHANGED <<at, active>>
    BY <1>5, Zenon DEF Environment, CreateRunner, Sync, Wait, JobClaimed, RecordClaim, JobEnds
  <2>2. /\ runner' \in {runner, [runner EXCEPT ![r] = "idle"], [runner EXCEPT ![r] = "claimed"],
                        [runner EXCEPT ![r] = IF @ = "deleting" THEN @ ELSE "finished"]}
        /\ cached' \in {cached, [cached EXCEPT ![r] = runner[r]]}
        /\ age' \in {age, [age EXCEPT ![r] = IF @ = "young" THEN "timedOut" ELSE "overage"]}
        /\ running' \in {running, running \cup {r}, running \ {r}}
    BY <1>5, Zenon DEF Environment, CreateRunner, Sync, Wait, JobClaimed, RecordClaim, JobEnds
  <2>3. /\ runner' \in [Runners -> Object] /\ cached' \in [Runners -> Object]
        /\ age' \in [Runners -> Ages] /\ running' \in SUBSET Runners
    BY <1>0, <2>2 DEF Object, Ages
  <2> QED BY <1>0, <1>1, <1>2, <2>1, <2>3
<1>6. CASE UNCHANGED vars
  <2>1. UNCHANGED <<runner, age, running, cached, at, active>>
    BY <1>6, Zenon DEF vars
  <2> QED BY <1>0, <1>1, <1>2, <2>1
<1> QED
  BY <1>3, <1>4, <1>5, <1>6 DEF Next, Reap

\* Types, and no more workers at once than MaxConcurrentReconciles
\* (SetupWithManager, ephemeralrunner_controller.go:1034-1045).
THEOREM TypeCorrect == Spec => []TypeOK
<1>1. Init => TypeOK
  <2> SUFFICES ASSUME Init PROVE TypeOK
    OBVIOUS
  <2>1. at = [r \in Runners |-> Nowhere]
    BY Zenon DEF Init, Nowhere
  <2>2. at \in [Runners -> Step] /\ \A r \in Runners : at[r] = Nowhere
    BY <2>1, StepTypes
  <2>3. Reaping = {}
    BY <2>2, Zenon DEF Reaping, Nowhere
  <2>4. Cardinality(Reaping) <= Workers
    BY <2>3, FS_EmptySet, BaselineAssumption
  <2>5. /\ runner = [r \in Runners |-> "none"] /\ cached = runner
        /\ age = [r \in Runners |-> "young"] /\ running = {}
        /\ active = [r \in Runners |-> {}]
    BY Zenon DEF Init
  <2>6. /\ runner \in [Runners -> Object] /\ cached \in [Runners -> Object]
        /\ age \in [Runners -> Ages] /\ running \in SUBSET Runners
        /\ active \in [Runners -> SUBSET Runners]
    BY <2>5 DEF Object, Ages
  <2> QED BY <2>2, <2>4, <2>6, Zenon DEF TypeOK, Reaping
<1> QED BY <1>1, TypeKept, PTL DEF Spec

-----------------------------------------------------------------------------
(* Recorded claims.                                                         *)

\* A runner with a claim on record runs that job, and no worker means to reap it.
ClaimInv == \A r \in Runners : runner[r] = "claimed" => r \in running /\ r \notin Reaping

\* Reaping begins only after Gitea shows no job, and the record of a claim waits for it
\* to end.
LEMMA ClaimKept ==
    ASSUME TypeOK, ClaimInv, [Next]_vars
    PROVE  ClaimInv'
<1>0. /\ runner \in [Runners -> Object] /\ at \in [Runners -> Step]
      /\ Reaping \subseteq Runners /\ Reaping' \subseteq Runners
  BY Zenon DEF TypeOK, Reaping
<1>1. ASSUME NEW r \in Runners, StartReap(r)
      PROVE  ClaimInv'
  <2>1. runner[r] # "claimed" /\ UNCHANGED <<runner, running>>
    BY <1>1, Zenon DEF StartReap, ClaimInv
  <2>2. PICK step : at' = [at EXCEPT ![r] = step]
    BY <1>1, Zenon DEF StartReap
  <2>3. \A q \in Runners : q # r => at'[q] = at[q]
    BY <1>0, <2>2
  <2>4. \A q \in Runners : q # r /\ q \in Reaping' => q \in Reaping
    BY <2>3, Zenon DEF Reaping
  <2> QED BY <2>1, <2>4 DEF ClaimInv
<1>2. ASSUME NEW r \in Runners,
             ListOrgJobs(r) \/ WithinBaseline(r) \/ DeleteRunner(r) \/ ReapFails(r)
      PROVE  ClaimInv'
  <2>1. r \in Reaping
    BY <1>2, Zenon DEF ListOrgJobs, WithinBaseline, DeleteRunner, ReapFails, Reaping
  <2>2. PICK step : at' = [at EXCEPT ![r] = step]
    BY <1>2, Zenon DEF ListOrgJobs, WithinBaseline, DeleteRunner, ReapFails
  <2>3. \A q \in Runners : q # r => at'[q] = at[q]
    BY <1>0, <2>2
  <2>4. Reaping' \subseteq Reaping
    BY <1>0, <2>1, <2>3, Zenon DEF Reaping
  <2>5. running' = running /\ runner' \in {runner, [runner EXCEPT ![r] = "deleting"]}
    BY <1>2, Zenon DEF ListOrgJobs, WithinBaseline, DeleteRunner, ReapFails
  <2>6. \A q \in Runners : runner'[q] = "claimed" => runner[q] = "claimed"
    BY <1>0, <2>5
  <2> QED BY <2>4, <2>5, <2>6 DEF ClaimInv
<1>3. ASSUME NEW r \in Runners, RecordClaim(r)
      PROVE  ClaimInv'
  <2>1. r \in running /\ r \notin Reaping /\ UNCHANGED running
    BY <1>3, Zenon DEF RecordClaim, Reaping
  <2>2. runner' = [runner EXCEPT ![r] = "claimed"] /\ UNCHANGED at
    BY <1>3, Zenon DEF RecordClaim
  <2>3. Reaping' = Reaping
    BY <2>2, Zenon DEF Reaping
  <2> QED BY <1>0, <2>1, <2>2, <2>3 DEF ClaimInv
<1>4. ASSUME NEW r \in Runners,
             CreateRunner(r) \/ Sync(r) \/ Wait(r) \/ JobClaimed(r) \/ JobEnds(r)
      PROVE  ClaimInv'
  <2>1. Reaping' = Reaping
    BY <1>4, Zenon DEF CreateRunner, Sync, Wait, JobClaimed, JobEnds, Reaping
  <2>2. CASE JobEnds(r)
    <3>1. /\ runner' = [runner EXCEPT ![r] = IF @ = "deleting" THEN @ ELSE "finished"]
          /\ running' = running \ {r}
      BY <2>2, Zenon DEF JobEnds
    <3> QED BY <1>0, <2>1, <3>1 DEF ClaimInv
  <2>3. CASE CreateRunner(r) \/ Sync(r) \/ Wait(r) \/ JobClaimed(r)
    <3>1. /\ runner' \in {runner, [runner EXCEPT ![r] = "idle"]}
          /\ running \subseteq running'
      BY <2>3, Zenon DEF CreateRunner, Sync, Wait, JobClaimed
    <3> QED BY <1>0, <2>1, <3>1 DEF ClaimInv
  <2> QED BY <1>4, <2>2, <2>3
<1>5. CASE UNCHANGED vars
  <2>1. Reaping' = Reaping /\ UNCHANGED <<runner, running>>
    BY <1>5, Zenon DEF vars, Reaping
  <2> QED BY <2>1 DEF ClaimInv
<1> QED
  BY <1>1, <1>2, <1>3, <1>4, <1>5 DEF Next, Reap, Environment

\* A claim on record is of a job that runs, and is not reaped.
THEOREM ClaimsCorrect == Spec => []ClaimInv
<1>1. Init => ClaimInv
  BY Zenon DEF Init, ClaimInv
<1> QED BY <1>1, TypeCorrect, ClaimKept, PTL DEF Spec

\* A runner whose claim is on record is not deleted as idle, for any number of runners
\* and workers and however old the cache is (ephemeralrunner_controller.go:246-255).
THEOREM RecordedClaimsKept == Spec => RecordedClaimKept
<1>1. ClaimInv /\ [Next]_vars =>
        [\A r \in Runners : DeleteRunner(r) => runner[r] # "claimed"]_vars
  BY Zenon DEF ClaimInv, DeleteRunner, Reaping
<1> QED BY <1>1, ClaimsCorrect, PTL DEF Spec, RecordedClaimKept

=============================================================================
