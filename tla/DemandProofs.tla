---------------------------- MODULE DemandProofs ----------------------------
(***************************************************************************)
(* Proofs about Demand, for any number of sets, labels, runners and queued *)
(* jobs: each job is counted toward one set, the first that has room, and  *)
(* the sets are sized for their jobs.                                      *)
(***************************************************************************)
EXTENDS Demand, FiniteSetTheorems, TLAPS

\* The runners counted as occupied are a number.
LEMMA OccupiedType ==
    ASSUME NEW s \in Sets
    PROVE  Occupied(s) \in Nat
<1>1. IsFiniteSet({r \in Runners : runner[r].set = s /\ runner[r].use # "idle"})
  BY DemandAssumption, FS_Subset
<1> QED
  BY <1>1, FS_CardinalityType DEF Occupied

\* How many of the first jobs were counted toward a set.
Assigned(s) == {k \in DOMAIN toward : toward[k] = s}

\* They can be counted.
LEMMA AssignedFinite ==
    ASSUME TypeOK, NEW s
    PROVE  IsFiniteSet(Assigned(s)) /\ Cardinality(Assigned(s)) \in Nat
<1>1. DOMAIN toward = 1 .. Len(toward) /\ Len(toward) \in Nat
  BY DEF TypeOK
<1>2. IsFiniteSet(1 .. Len(toward))
  BY <1>1, FS_Interval
<1>3. IsFiniteSet(Assigned(s))
  BY <1>1, <1>2, FS_Subset, Assigned(s) \subseteq 1 .. Len(toward) DEF Assigned
<1> QED
  BY <1>3, FS_CardinalityType

\* One more job counted toward t is one more for t and none for the others.
LEMMA AssignedGrows ==
    ASSUME TypeOK, NEW t \in 0 .. Size, toward' = Append(toward, t), NEW s \in Sets
    PROVE  Cardinality(Assigned(s)') =
             IF s = t THEN Cardinality(Assigned(s)) + 1 ELSE Cardinality(Assigned(s))
<1> DEFINE n == Len(toward)
<1>1. /\ n \in Nat /\ DOMAIN toward = 1 .. n /\ DOMAIN toward' = 1 .. n + 1
      /\ toward'[n + 1] = t /\ \A k \in 1 .. n : toward'[k] = toward[k]
  BY DEF TypeOK
<1> HIDE DEF n
<1>2. CASE s = t
  <2>1. Assigned(s)' = Assigned(s) \cup {n + 1} /\ n + 1 \notin Assigned(s)
    BY <1>1, <1>2 DEF Assigned
  <2> QED
    BY <1>2, <2>1, AssignedFinite, FS_AddElement
<1>3. CASE s # t
  <2>1. Assigned(s)' = Assigned(s)
    BY <1>1, <1>3 DEF Assigned
  <2> QED
    BY <1>3, <2>1
<1> QED
  BY <1>2, <1>3

\* What a poll found does not change while it is worked on.
LEMMA InputKept ==
    ASSUME UNCHANGED input, NEW s \in Sets
    PROVE  /\ Occupied(s)' = Occupied(s)
           /\ \A j : JobMatchesSet(j, s)' <=> JobMatchesSet(j, s)
           /\ \A t : Before(s, t)' <=> Before(s, t)
BY DEF input, Occupied, JobMatchesSet, Before

\* Room is not overdrawn: a set that starts with room ends with none or some.
RoomInv == \A s \in Sets : Occupied(s) <= maxRunners[s] => room[s] >= 0

DemandInv == CountedTowardOne /\ PassedOverOnlyFull /\ RoomInv

\* Before the first job nothing is counted and all room is there.
LEMMA InitDemand == Init => DemandInv
<1> SUFFICES ASSUME Init PROVE DemandInv
  OBVIOUS
<1>1. \A s \in Sets : Occupied(s) \in Nat /\ maxRunners[s] \in Nat
  BY OccupiedType, DemandAssumption DEF Init
<1>2. waiting \in Seq(SUBSET Labels)
  BY DemandAssumption DEF Init
<1>3. TypeOK
  BY <1>1, <1>2, DemandAssumption DEF Init, TypeOK
<1>4. DOMAIN toward = {}
  BY DEF Init
<1>5. \A s \in Sets : Cardinality({k \in DOMAIN toward : toward[k] = s}) = 0
  BY <1>4, FS_EmptySet
<1>6. CountedTowardOne
  BY <1>1, <1>3, <1>4, <1>5 DEF Init, CountedTowardOne
<1>7. PassedOverOnlyFull /\ RoomInv
  BY <1>1, <1>4 DEF Init, PassedOverOnlyFull, RoomInv
<1> QED
  BY <1>6, <1>7 DEF DemandInv

\* A job that is counted takes one place in the first set with room for it.
LEMMA CountStep ==
    ASSUME DemandInv, NEW t \in Sets, CountToward(t)
    PROVE  DemandInv'
<1> DEFINE n == Len(toward)
<1>0. TypeOK
  BY DEF DemandInv, CountedTowardOne
<1>1. /\ n \in Nat /\ n < Len(waiting) /\ DOMAIN toward = 1 .. n
      /\ toward' = Append(toward, t) /\ DOMAIN toward' = 1 .. n + 1
      /\ toward'[n + 1] = t /\ \A k \in 1 .. n : toward'[k] = toward[k]
      /\ toward' \in Seq(0 .. Size) /\ Len(toward') = n + 1
  BY <1>0 DEF TypeOK, CountToward, Sets
<1>2. /\ UNCHANGED input /\ UNCHANGED waiting /\ UNCHANGED maxRunners
      /\ queued' = [queued EXCEPT ![t] = @ + 1] /\ room' = [room EXCEPT ![t] = @ - 1]
  BY DEF CountToward, input
<1>3. /\ room[t] > 0 /\ JobMatchesSet(waiting[n + 1], t)
      /\ \A s \in Sets : HasRoom(s) /\ JobMatchesSet(waiting[n + 1], s) => s = t \/ Before(t, s)
  BY DEF CountToward, First, Fits, HasRoom, job
<1> HIDE DEF n
<1>4. TypeOK'
  BY <1>0, <1>1, <1>2 DEF TypeOK, input
<1>5. ASSUME NEW s \in Sets
      PROVE  /\ queued'[s] = Cardinality({k \in DOMAIN toward' : toward'[k] = s})
             /\ room'[s] = maxRunners[s] - Occupied(s) - queued'[s]
             /\ Occupied(s) <= maxRunners[s] => room'[s] >= 0
  <2>1. /\ queued[s] = Cardinality(Assigned(s)) /\ queued[s] \in Nat
        /\ room[s] = maxRunners[s] - Occupied(s) - queued[s] /\ room[s] \in Int
        /\ maxRunners[s] \in Nat /\ Occupied(s) \in Nat
        /\ Occupied(s) <= maxRunners[s] => room[s] >= 0
    BY <1>0, OccupiedType DEF DemandInv, CountedTowardOne, RoomInv, Assigned, TypeOK
  <2>2. Cardinality(Assigned(s)') =
          IF s = t THEN Cardinality(Assigned(s)) + 1 ELSE Cardinality(Assigned(s))
    BY <1>0, <1>1, AssignedGrows DEF Sets
  <2>3. /\ queued'[s] = IF s = t THEN queued[s] + 1 ELSE queued[s]
        /\ room'[s] = IF s = t THEN room[s] - 1 ELSE room[s]
    BY <1>0, <1>2 DEF TypeOK
  <2>4. queued'[s] = Cardinality(Assigned(s)')
    BY <2>1, <2>2, <2>3
  <2> QED
    BY <1>3, <2>1, <2>3, <2>4 DEF Assigned
<1>6. \A k \in DOMAIN toward' : toward'[k] # 0 => JobMatchesSet(waiting[k], toward'[k])
  <2>1. \A k \in 1 .. n : toward[k] # 0 => JobMatchesSet(waiting[k], toward[k])
    BY <1>1 DEF DemandInv, CountedTowardOne
  <2> QED
    BY <1>1, <1>3, <2>1
<1>7. ASSUME NEW k \in DOMAIN toward', NEW s \in Sets,
             JobMatchesSet(waiting[k], s), toward'[k] # s, room'[s] > 0
      PROVE  toward'[k] # 0 /\ Before(toward'[k], s)
  <2>1. room[s] > 0
    BY <1>0, <1>2, <1>7 DEF TypeOK
  <2>2. CASE k = n + 1
    BY <1>1, <1>3, <1>7, <2>1, <2>2 DEF HasRoom, Sets
  <2>3. CASE k \in 1 .. n
    BY <1>1, <1>7, <2>1, <2>3 DEF DemandInv, PassedOverOnlyFull, HasRoom
  <2> QED
    BY <1>1, <2>2, <2>3
<1>8. CountedTowardOne'
  BY <1>2, <1>4, <1>5, <1>6 DEF CountedTowardOne, input, Occupied, JobMatchesSet
<1>9. PassedOverOnlyFull'
  BY <1>2, <1>7 DEF PassedOverOnlyFull, HasRoom, input, JobMatchesSet, Before
<1>10. RoomInv'
  BY <1>2, <1>5 DEF RoomInv, input, Occupied
<1> QED
  BY <1>8, <1>9, <1>10 DEF DemandInv

\* A job is left waiting when no set that matches it has room.
LEMMA LeaveStep ==
    ASSUME DemandInv, LeaveWaiting
    PROVE  DemandInv'
<1> DEFINE n == Len(toward)
<1>0. TypeOK
  BY DEF DemandInv, CountedTowardOne
<1>1. /\ n \in Nat /\ n < Len(waiting) /\ DOMAIN toward = 1 .. n
      /\ toward' = Append(toward, 0) /\ DOMAIN toward' = 1 .. n + 1
      /\ toward'[n + 1] = 0 /\ \A k \in 1 .. n : toward'[k] = toward[k]
      /\ toward' \in Seq(0 .. Size) /\ Len(toward') = n + 1
  BY <1>0, DemandAssumption DEF TypeOK, LeaveWaiting
<1>2. UNCHANGED <<input, room, queued>>
  BY DEF LeaveWaiting
<1>3. \A s \in Sets : ~(HasRoom(s) /\ JobMatchesSet(waiting[n + 1], s))
  BY DEF LeaveWaiting, Fits, job
<1> HIDE DEF n
<1>4. TypeOK'
  BY <1>0, <1>1, <1>2 DEF TypeOK, input
<1>5. \A s \in Sets : queued[s] = Cardinality({k \in DOMAIN toward' : toward'[k] = s})
  <2> SUFFICES ASSUME NEW s \in Sets
               PROVE  queued[s] = Cardinality({k \in DOMAIN toward' : toward'[k] = s})
    OBVIOUS
  <2>1. 0 \in 0 .. Size /\ s # 0
    BY DemandAssumption DEF Sets
  <2>2. Cardinality(Assigned(s)') = Cardinality(Assigned(s))
    BY <1>0, <1>1, <2>1, AssignedGrows
  <2> QED
    BY <2>2 DEF Assigned, DemandInv, CountedTowardOne
<1>6. \A k \in DOMAIN toward' : toward'[k] # 0 => JobMatchesSet(waiting[k], toward'[k])
  BY <1>1 DEF DemandInv, CountedTowardOne
<1>7. \A k \in DOMAIN toward', s \in Sets :
         JobMatchesSet(waiting[k], s) /\ toward'[k] # s /\ HasRoom(s) =>
            toward'[k] # 0 /\ Before(toward'[k], s)
  BY <1>1, <1>3 DEF DemandInv, PassedOverOnlyFull
<1>8. CountedTowardOne'
  BY <1>2, <1>4, <1>5, <1>6 DEF DemandInv, CountedTowardOne, input, Occupied, JobMatchesSet
<1>9. PassedOverOnlyFull'
  BY <1>2, <1>7 DEF PassedOverOnlyFull, HasRoom, input, JobMatchesSet, Before
<1>10. RoomInv'
  BY <1>2 DEF DemandInv, RoomInv, input, Occupied
<1> QED
  BY <1>8, <1>9, <1>10 DEF DemandInv

\* The loop's invariant: counts, room and order agree with the jobs so far.
THEOREM DemandCorrect == Spec => []DemandInv
<1>1. DemandInv /\ [Next]_vars => DemandInv'
  <2> SUFFICES ASSUME DemandInv, [Next]_vars PROVE DemandInv'
    OBVIOUS
  <2>1. CASE UNCHANGED vars
    BY <2>1 DEF vars, input, DemandInv, CountedTowardOne, PassedOverOnlyFull, RoomInv, TypeOK,
       Occupied, JobMatchesSet, HasRoom, Before
  <2> QED
    BY <2>1, CountStep, LeaveStep DEF Next
<1> QED
  BY InitDemand, <1>1, PTL DEF Spec

\* However many sets share an org, each job is counted toward one matching set or none
\* (assignQueuedJobs, cmd/listener/demand.go:44-53).
THEOREM CountsOnce == Spec => []CountedTowardOne
<1>1. DemandInv => CountedTowardOne
  BY DEF DemandInv
<1> QED
  BY <1>1, DemandCorrect, PTL

\* Only a full set is passed over for one with more labels, and only when all are full
\* does a job stay uncounted.
THEOREM PassesOverFull == Spec => []PassedOverOnlyFull
<1>1. DemandInv => PassedOverOnlyFull
  BY DEF DemandInv
<1> QED
  BY <1>1, DemandCorrect, PTL

\* desiredRunners (cmd/listener/demand.go:88-91) gives every job counted toward a set a
\* runner of its own beside those that are occupied, keeps the floor of idle ones and
\* never exceeds the ceiling.
THEOREM SizesSuffice == Spec => []SizedForItsJobs
<1>1. DemandInv => SizedForItsJobs
  <2> SUFFICES ASSUME DemandInv, NEW s \in Sets, NEW min \in Limits
               PROVE  /\ DesiredRunners(s, min) <= maxRunners[s]
                      /\ Occupied(s) <= maxRunners[s] =>
                            DesiredRunners(s, min) >= Occupied(s) + queued[s]
                      /\ DesiredRunners(s, min) < maxRunners[s] =>
                            DesiredRunners(s, min) - Occupied(s) >= min
    BY DEF SizedForItsJobs
  <2>1. /\ queued[s] \in Nat /\ maxRunners[s] \in Nat /\ Occupied(s) \in Nat /\ min \in Nat
        /\ room[s] = maxRunners[s] - Occupied(s) - queued[s]
        /\ Occupied(s) <= maxRunners[s] => room[s] >= 0
    BY OccupiedType, DemandAssumption DEF DemandInv, CountedTowardOne, RoomInv, TypeOK
  <2> QED
    BY <2>1 DEF DesiredRunners
<1> QED
  BY <1>1, DemandCorrect, PTL
=============================================================================
