----------------------------- MODULE SweepProofs -----------------------------
(***************************************************************************)
(* The sweep spares every live runner that the caches showed when its row  *)
(* was listed, for any number of runners, pods and faults: the invariant   *)
(* SweepInv, and from it KnownRowKept.  A pass that lists every row        *)
(* removes every orphan that was due when it began: PassInv.               *)
(***************************************************************************)
EXTENDS OrphanSweep, FiniteSetTheorems, TLAPS

USE SweepAssumption

\* The invariant holds before the first pass.
LEMMA SweepStarts == Init => SweepInv
  BY DEF Init, SweepInv, PastInv, TypeOK, KnownSeen, KnownClaimed, Rows, Pods, PodObj,
         CrState, Live, Exists, SeenLive

\* A row that has been made stays made, whatever removes it.
LEMMA RowsRemain ==
    ASSUME TypeOK, NEW gone
    PROVE  /\ Without(gone) \in [Rows -> {"none", "registered", "removed"}]
           /\ \A r \in Rows : Without(gone)[r] = "none" <=> reg[r] = "none"
  BY DEF TypeOK, Without

\* Steps of the pass that neither list nor claim anything.
LEMMA PassSteps ==
    ASSUME SweepInv,
           EndSweep \/ AbandonSweep
             \/ \E r \in Rows : SkipClaimed(r) \/ DeregisterOrgRunner(r) \/ DeregisterFails(r)
    PROVE  SweepInv'
<1> USE DEF SweepInv, PastInv, KnownSeen, KnownClaimed, Live, Exists, SeenLive, Claimed, world, cache
<1>3. CASE EndSweep
  BY <1>3 DEF EndSweep, TypeOK
<1>4. CASE AbandonSweep
  BY <1>4 DEF AbandonSweep, TypeOK
<1>5. ASSUME NEW r \in Rows, SkipClaimed(r)
      PROVE  SweepInv'
  BY <1>5 DEF SkipClaimed, TypeOK
<1>6. ASSUME NEW r \in Rows, DeregisterOrgRunner(r)
      PROVE  SweepInv'
  <2>1. TypeOK'
    BY <1>6, RowsRemain DEF DeregisterOrgRunner, TypeOK
  <2>2. \A q \in Rows : reg'[q] = "none" <=> reg[q] = "none"
    BY <1>6, RowsRemain DEF DeregisterOrgRunner
  <2> QED
    BY <1>6, <2>1, <2>2 DEF DeregisterOrgRunner, TypeOK
<1>7. ASSUME NEW r \in Rows, DeregisterFails(r)
      PROVE  SweepInv'
  BY <1>7 DEF DeregisterFails, TypeOK
<1> QED
  BY <1>3, <1>4, <1>5, <1>6, <1>7

\* The rows are listed first, then the runners, then each runner's pod: a live row that
\* is listed belongs to a runner the caches show with its pod.
LEMMA ListingSteps ==
    ASSUME SweepInv,
           ListOrgRunners \/ ListEphemeralRunners \/ \E n \in Names : GetPod(n)
    PROVE  SweepInv'
<1> USE DEF SweepInv, PastInv, KnownSeen, KnownClaimed, Live, Exists, SeenLive, Claimed, world, cache
<1>1. CASE ListOrgRunners
  <2>1. PICK page \in SUBSET Registered : rows' = page /\ known' = {r \in page : SeenLive(r)}
    BY <1>1 DEF ListOrgRunners
  <2> QED
    BY <1>1, <2>1 DEF ListOrgRunners, TypeOK, Registered
<1>2. CASE ListEphemeralRunners
  <2>1. TypeOK'
    BY <1>2 DEF ListEphemeralRunners, TypeOK
  <2>2. \A r \in known' : Live(r)' => r[1] \in recorded'
    BY <1>2 DEF ListEphemeralRunners, TypeOK, Rows
  <2> QED
    BY <1>2, <2>1, <2>2 DEF ListEphemeralRunners, TypeOK
<1>3. ASSUME NEW n \in Names, GetPod(n)
      PROVE  SweepInv'
  <2>1. TypeOK'
    BY <1>3 DEF GetPod, TypeOK
  <2>2. \A r \in known : Live(r) /\ r[1] = n => n \in claimed'
    BY <1>3 DEF GetPod, TypeOK, Rows
  <2> QED
    BY <1>3, <2>1, <2>2 DEF GetPod, TypeOK
<1> QED
  BY <1>1, <1>2, <1>3

\* A known row's runner and pod stay in the caches for as long as both are there: another
\* pod of the runner would have a row of its own, and a recorded name stays recorded.
LEMMA EnvironmentSteps ==
    ASSUME SweepInv, Environment
    PROVE  SweepInv'
<1> USE DEF SweepInv, PastInv, KnownSeen, KnownClaimed, Live, Exists, SeenLive, Claimed, world, cache, local
<1>0. \A r \in Rows : r[1] \in Names /\ r[2] \in Pods
  BY DEF Rows
<1>1. CASE RemoveSet
  BY <1>1 DEF RemoveSet, TypeOK
<1>2. ASSUME NEW r \in Rows, JobEnds(r)
      PROVE  SweepInv'
  <2>1. /\ reg' \in [Rows -> {"none", "registered", "removed"}]
        /\ \A q \in Rows : reg'[q] = "none" <=> reg[q] = "none"
    BY <1>2, RowsRemain DEF JobEnds
  <2> QED
    BY <1>2, <2>1 DEF JobEnds, TypeOK
<1>3. ASSUME NEW n \in Names, SyncCr(n)
      PROVE  SweepInv'
  BY <1>3 DEF SyncCr, CrNow, TypeOK, Rows
<1>4. ASSUME NEW n \in Names, SyncPod(n)
      PROVE  SweepInv'
  BY <1>4 DEF SyncPod, TypeOK, Rows
<1>5. ASSUME NEW n \in Names, CreateRunner(n)
      PROVE  SweepInv'
  <2>1. TypeOK' /\ PastInv'
    BY <1>5 DEF CreateRunner, TypeOK, CrState
  <2>2. \A r \in Rows : Live(r)' => Live(r)
    BY <1>0, <1>5 DEF CreateRunner, TypeOK, PodObj, Pods
  <2> QED
    BY <1>5, <2>1, <2>2 DEF CreateRunner, TypeOK
<1>6. ASSUME NEW n \in Names, CreatePod(n)
      PROVE  SweepInv'
  <2>1. TypeOK'
    BY <1>6 DEF CreatePod, TypeOK, PodObj
  <2>2. PastInv'
    BY <1>0, <1>6 DEF CreatePod, TypeOK, PodObj, Pods
  <2>3. \A r \in Rows : Live(r)' /\ reg[r] # "none" => Live(r) /\ r[1] # n
    BY <1>0, <1>6 DEF CreatePod, TypeOK, PodObj, Pods
  <2> QED
    BY <1>6, <2>1, <2>2, <2>3 DEF CreatePod, TypeOK
<1>7. ASSUME NEW n \in Names, RecordPod(n)
      PROVE  SweepInv'
  <2>1. TypeOK' /\ PastInv'
    BY <1>7 DEF RecordPod, TypeOK, CrState
  <2>2. \A r \in Rows : Live(r)' => Live(r)
    BY <1>0, <1>7 DEF RecordPod, TypeOK
  <2> QED
    BY <1>7, <2>1, <2>2 DEF RecordPod
<1>8. ASSUME NEW n \in Names, PodLost(n)
      PROVE  SweepInv'
  <2>1. TypeOK' /\ \A m \in Names : pod'[m].n = pod[m].n
    BY <1>8 DEF PodLost, TypeOK, PodObj
  <2>2. PastInv'
    BY <1>0, <1>8, <2>1 DEF PodLost, TypeOK
  <2>3. \A r \in Rows : Live(r)' => Live(r) /\ r[1] # n
    BY <1>0, <1>8 DEF PodLost, TypeOK, PodObj
  <2> QED
    BY <1>8, <2>1, <2>2, <2>3 DEF PodLost, TypeOK
<1>9. ASSUME NEW n \in Names, PodRegisters(n)
      PROVE  SweepInv'
  <2>1. TypeOK'
    BY <1>9 DEF PodRegisters, TypeOK
  <2>2. /\ pod[n].n \in 0 .. MaxPods
        /\ \A r \in Rows : reg'[r] = reg[r] \/ (r[1] = n /\ r[2] = pod[n].n)
        /\ \A r \in Rows : reg[r] # "none" => reg'[r] # "none"
    BY <1>9 DEF PodRegisters, TypeOK, PodObj, Rows
  <2>3. PastInv'
    BY <1>0, <1>9, <2>2 DEF PodRegisters, TypeOK, PodObj, Pods
  <2> QED
    BY <1>0, <1>9, <2>1, <2>2, <2>3 DEF PodRegisters, TypeOK
<1>10. ASSUME NEW n \in Names, RemoveRunner(n)
       PROVE  SweepInv'
  <2>1. /\ reg' \in [Rows -> {"none", "registered", "removed"}]
        /\ \A q \in Rows : reg'[q] = "none" <=> reg[q] = "none"
    <3>1. PICK gone \in SUBSET ({n} \X Pods) : reg' = Without(gone)
      BY <1>10 DEF RemoveRunner
    <3>2. TypeOK
      BY DEF SweepInv
    <3> HIDE DEF SweepInv, PastInv, KnownSeen, KnownClaimed
    <3> QED
      BY <3>1, <3>2, RowsRemain
  <2>2. /\ cr' = [cr EXCEPT ![n] = "gone"]
        /\ UNCHANGED <<pod, set, cache, local, faults>>
    BY <1>10 DEF RemoveRunner
  <2>3. TypeOK' /\ PastInv'
    BY <1>0, <2>1, <2>2 DEF TypeOK, CrState
  <2>4. \A r \in Rows : Live(r)' => Live(r)
    BY <1>0, <2>2 DEF TypeOK
  <2> QED
    BY <2>2, <2>3, <2>4 DEF TypeOK
<1> QED
  BY <1>1, <1>2, <1>3, <1>4, <1>5, <1>6, <1>7, <1>8, <1>9, <1>10 DEF Environment

LEMMA SweepSteps == SweepInv /\ [Next]_vars => SweepInv'
<1> SUFFICES ASSUME SweepInv, [Next]_vars
             PROVE  SweepInv'
  OBVIOUS
<1>1. CASE UNCHANGED vars
  BY <1>1 DEF vars, world, cache, local, SweepInv, PastInv, TypeOK, KnownSeen, KnownClaimed,
              Live, Exists, SeenLive
<1> QED
  BY <1>1, PassSteps, ListingSteps, EnvironmentSteps DEF Next, Sweep, Fault

\* The informers, the pass and the runners keep the invariant (SweepReconciler.sweep).
THEOREM SweepCorrect == Spec => []SweepInv
  BY SweepStarts, SweepSteps, PTL DEF Spec

\* A row whose runner and pod the caches show when the row is listed is claimed by the
\* time rows are deregistered, so no pass takes it (sweepOrgRunners).
THEOREM KnownRowsKept == Spec => KnownRowKept
<1>1. SweepInv /\ [Next]_vars =>
         [\A r \in known : Live(r) => ~DeregisterOrgRunner(r)]_vars
  BY DEF SweepInv, KnownClaimed, Claimed, DeregisterOrgRunner
<1> QED
  BY <1>1, SweepCorrect, PTL DEF Spec, KnownRowKept

-----------------------------------------------------------------------------
(* What a pass clears.                                                      *)

\* An orphan due at the start of a pass stays one, is listed, and is claimed by nothing:
\* a name the caches show gone is not looked up, any other has no pod in the cache, and the
\* claims of an earlier pass went with it.
PassInv ==
    /\ \A r \in due : SeenDead(r[1])
    /\ pc # "idle" => due \intersect Registered \subseteq rows
    /\ pc # "names" => claimed = {}
    /\ pc = "names" => \A r \in due :
          r[1] \notin claimed /\ (r[1] \in recorded => ~seenPod[r[1]].exists)

\* If every row fits in one page, all that are registered are listed.
LEMMA PageHoldsAll ==
    ASSUME Cardinality(Rows) <= PageSize, NEW page \in SUBSET Registered,
           page = Registered \/ Cardinality(page) = PageSize
    PROVE  page = Registered
<1>1. IsFiniteSet(Pods)
  BY FS_Interval DEF Pods
<1>2. IsFiniteSet(Rows)
  BY <1>1, FS_Product DEF Rows
<1>3. page \subseteq Rows /\ Registered \subseteq Rows
  BY DEF Registered
<1>4. Cardinality(Rows) \in Nat /\ Cardinality(page) \in Nat /\ Cardinality(page) <= Cardinality(Rows)
  BY <1>2, <1>3, FS_Subset, FS_CardinalityType
<1>5. CASE Cardinality(page) = PageSize
  <2>1. Cardinality(page) = Cardinality(Rows)
    BY <1>4, <1>5
  <2> QED
    BY <1>2, <1>3, <2>1, FS_Subset
<1> QED
  BY <1>5

\* An orphan the caches show as such stays one: a name is given to one EphemeralRunner,
\* and only an EphemeralRunner that exists is given a pod.
LEMMA DeadStays ==
    ASSUME TypeOK, [Next]_vars, NEW n \in Names, SeenDead(n)
    PROVE  /\ SeenDead(n)'
           /\ ~seenPod[n].exists => ~seenPod'[n].exists
           /\ \A r \in Rows : r[1] = n /\ reg'[r] = "registered" => reg[r] = "registered"
<1>0. \A r \in Rows : r[1] \in Names
  BY DEF Rows
<1> USE DEF SeenDead, Orphan, Exists, world, cache, local
<1>1. CASE UNCHANGED vars \/ Sweep \/ Fault
  <2>1. UNCHANGED <<cr, pod, seenCr, seenPod>> /\ (UNCHANGED reg \/ \E r \in Rows : reg' = Without({r}))
    BY <1>1 DEF vars, Sweep, Fault, ListOrgRunners, ListEphemeralRunners,
       EndSweep, GetPod, SkipClaimed, DeregisterOrgRunner, AbandonSweep, DeregisterFails
  <2> QED
    BY <2>1 DEF Without
<1>2. CASE Environment
  <2>1. ASSUME NEW m \in Names, SyncCr(m) \/ SyncPod(m) PROVE SeenDead(n)' /\ UNCHANGED reg
                 /\ (~seenPod[n].exists => ~seenPod'[n].exists)
    BY <2>1 DEF SyncCr, SyncPod, CrNow, TypeOK
  <2>2. ASSUME NEW m \in Names,
               CreateRunner(m) \/ CreatePod(m) \/ RecordPod(m) \/ PodLost(m)
        PROVE  m # n /\ UNCHANGED <<reg, seenCr, seenPod>> /\ cr'[n] = cr[n] /\ pod'[n] = pod[n]
    BY <2>2 DEF CreateRunner, CreatePod, RecordPod, PodLost, TypeOK
  <2>3. ASSUME NEW m \in Names, PodRegisters(m)
        PROVE  /\ UNCHANGED <<cr, pod, seenCr, seenPod>>
               /\ \A r \in Rows : r[1] = n => reg'[r] = reg[r]
    BY <2>3 DEF PodRegisters, TypeOK
  <2>4. ASSUME NEW m \in Names, RemoveRunner(m)
        PROVE  /\ m # n /\ UNCHANGED <<pod, seenCr, seenPod>> /\ cr'[n] = cr[n]
               /\ \A r \in Rows : reg'[r] = "registered" => reg[r] = "registered"
    BY <2>4 DEF RemoveRunner, Without, TypeOK
  <2>5. ASSUME RemoveSet \/ \E r \in Rows : JobEnds(r)
        PROVE  /\ UNCHANGED <<cr, pod, seenCr, seenPod>>
               /\ \A r \in Rows : reg'[r] = "registered" => reg[r] = "registered"
    BY <2>5 DEF RemoveSet, JobEnds, Without
  <2> QED
    BY <1>2, <2>1, <2>2, <2>3, <2>4, <2>5 DEF Environment
<1> QED
  BY <1>1, <1>2 DEF Next

\* Each step of the pass, and every other, keeps what is due listed and unclaimed.
LEMMA PassStep ==
    ASSUME Cardinality(Rows) <= PageSize, SweepInv, PassInv, [Next]_vars
    PROVE  PassInv'
<1> USE DEF PassInv
<1>0. TypeOK /\ \A r \in due : r \in Rows /\ r[1] \in Names
  BY DEF SweepInv, TypeOK, Rows
<1>1. \A r \in due : /\ SeenDead(r[1])'
                     /\ ~seenPod[r[1]].exists => ~seenPod'[r[1]].exists
                     /\ reg'[r] = "registered" => reg[r] = "registered"
  BY <1>0, DeadStays
<1>2. (due \intersect Registered)' \subseteq due' \intersect Registered \/ ListOrgRunners
  <2>1. due' \subseteq due \/ ListOrgRunners
    BY DEF Next, Sweep, Fault, Environment, vars, world, cache, local,
       ListEphemeralRunners, EndSweep, GetPod, SkipClaimed, DeregisterOrgRunner,
       AbandonSweep, DeregisterFails, SyncCr, SyncPod, CreateRunner, CreatePod, RecordPod,
       PodLost, PodRegisters, RemoveRunner, RemoveSet, JobEnds
  <2> QED
    BY <1>0, <1>1, <2>1 DEF Registered
<1>4. CASE ListOrgRunners
  <2>1. rows' = Registered
    BY <1>4, PageHoldsAll DEF ListOrgRunners
  <2> QED
    BY <1>0, <1>4, <2>1 DEF ListOrgRunners, Registered, SeenDead, Orphan, world, cache
<1>5. CASE ListEphemeralRunners
  <2>1. \A r \in due : seenCr[r[1]] = "gone" \/ ~seenPod[r[1]].exists
    BY <1>0 DEF SeenDead, Orphan
  <2>2. \A r \in due : r[1] \in recorded' => ~seenPod[r[1]].exists
    BY <1>0, <1>5, <2>1 DEF ListEphemeralRunners
  <2> QED
    BY <1>1, <1>5, <2>2 DEF ListEphemeralRunners, Registered, world, cache
<1>6. ASSUME NEW n \in Names, GetPod(n)
      PROVE  PassInv'
  BY <1>1, <1>6 DEF GetPod, Registered, world, cache
<1>7. CASE EndSweep \/ AbandonSweep
  BY <1>1, <1>7 DEF EndSweep, AbandonSweep, Registered, world, cache
<1>8. ASSUME NEW r \in Rows, SkipClaimed(r) \/ DeregisterFails(r)
      PROVE  PassInv'
  BY <1>1, <1>8 DEF SkipClaimed, DeregisterFails, Registered, world, cache
<1>9. ASSUME NEW r \in Rows, DeregisterOrgRunner(r)
      PROVE  PassInv'
  <2>1. r \notin Registered'
    BY <1>0, <1>9 DEF DeregisterOrgRunner, Registered, Without
  <2> QED
    BY <1>1, <1>2, <1>9, <2>1 DEF DeregisterOrgRunner, Claimed, ListOrgRunners, cache
<1>10. CASE Environment \/ UNCHANGED vars
  <2>1. UNCHANGED local
    BY <1>10 DEF Environment, vars, SyncCr, SyncPod, CreateRunner, CreatePod, RecordPod,
       PodLost, PodRegisters, RemoveRunner, RemoveSet, JobEnds
  <2>2. (due \intersect Registered)' \subseteq due \intersect Registered
    BY <1>0, <1>1, <2>1 DEF local, Registered
  <2> QED
    BY <1>1, <2>1, <2>2 DEF local
<1> QED
  BY <1>4, <1>5, <1>6, <1>7, <1>8, <1>9, <1>10 DEF Next, Sweep, Fault

\* A pass that ends without a failure has removed every orphan due when it began
\* (sweepOrgRunners), if the server's first page holds all the rows there can be.
THEOREM PassClears ==
    ASSUME Cardinality(Rows) <= PageSize
    PROVE  Spec => []PassClearsOrphans
<1>1. Init => PassInv
  BY DEF Init, PassInv
<1>2. SweepInv /\ PassInv /\ [Next]_vars => PassInv'
  BY PassStep
<1>3. PassInv => PassClearsOrphans
  BY DEF PassInv, PassClearsOrphans, Claimed
<1> QED
  BY <1>1, <1>2, <1>3, SweepCorrect, PTL DEF Spec
=============================================================================
