-------------------------- MODULE ScaleDownProofs --------------------------
(***************************************************************************)
(* Proofs about ScaleDownSafe, for any grace period, lag and horizon: no   *)
(* runner with a job is deleted if the pace of the cluster satisfies       *)
(* Timely, and none that pulls its image before one that has been without  *)
(* a node for as long as the caches may be late.                           *)
(***************************************************************************)
EXTENDS ScaleDownSafe, TLAPS

\* The variables of one runner's evidence, and what TypeOK says of it.
LEMMA AgeFacts ==
    ASSUME TypeOK, NEW r \in Runners
    PROVE  /\ age[r] \in Int /\ 0 <= age[r] /\ age[r] <= Horizon
           /\ recorded[r] \in BOOLEAN
           /\ pod[r] \in Pod
           /\ pod[r].made \in BOOLEAN /\ pod[r].running \in BOOLEAN
           /\ pod[r].bound \in Age /\ pod[r].begun \in Age
<1>1. age[r] \in 0 .. Horizon /\ recorded[r] \in BOOLEAN /\ pod[r] \in Pod
  BY DEF TypeOK
<1>2. Horizon \in Nat
  BY AgeAssumption
<1> QED
  BY <1>1, <1>2 DEF Pod

\* Ages grow by one, up to the horizon.
LEMMA OlderFacts ==
    ASSUME NEW a \in Age
    PROVE  /\ Older(a) \in Age
           /\ Older(a) >= a
           /\ (Older(a) = Never) <=> (a = Never)
           /\ Older(a) <= a + 1
           /\ a # Never => (Older(a) = a + 1 \/ Older(a) = Horizon)
  BY AgeAssumption DEF Age, Never, Older

\* What is shown of a runner is a copy, of any age.
LEMMA ShownFacts ==
    ASSUME TypeOK, NEW r \in Runners, NEW d \in 0 .. Lag
    PROVE  /\ Shown(r, d) \in Copy
           /\ Shown(r, d).recorded \in BOOLEAN /\ Shown(r, d).made \in BOOLEAN
           /\ Shown(r, d).begun \in BOOLEAN /\ Shown(r, d).running \in BOOLEAN
           /\ Shown(r, d).bound \in Age
<1>1. Current(r) \in Copy
  BY AgeFacts DEF Current, Copy
<1>2. CASE d # 0
  <2>1. d \in 1 .. Lag
    BY <1>2, AgeAssumption
  <2> QED
    BY <1>2, <2>1 DEF Shown, TypeOK, Copy
<1> QED
  BY <1>1, <1>2 DEF Shown, Copy

-----------------------------------------------------------------------------

\* PastInv of one runner and one copy of it.
PastOf(r, d) ==
    /\ pod[r].bound >= d => Shown(r, d).bound = pod[r].bound
    /\ pod[r].begun >= d => Shown(r, d).begun
    /\ Shown(r, d).running => Shown(r, d).begun
    /\ Shown(r, d).begun => Shown(r, d).bound # Never
    /\ Shown(r, d).bound # Never => Shown(r, d).made

LEMMA BlankFacts ==
    /\ NoPod \in Pod /\ ~NoPod.made /\ NoPod.bound = Never /\ NoPod.begun = Never
    /\ ~NoPod.running
    /\ NoCopy \in Copy /\ ~NoCopy.made /\ NoCopy.bound = Never /\ ~NoCopy.begun
    /\ ~NoCopy.running /\ 0 \in Age /\ Never \in Age
  BY AgeAssumption DEF NoPod, Pod, NoCopy, Copy, Age

\* Without runners there is nothing to order.
LEMMA InitEvidence == Init => EvidenceInv
<1> SUFFICES ASSUME Init PROVE EvidenceInv
  OBVIOUS
<1>1. TypeOK
  BY BlankFacts, AgeAssumption DEF Init, TypeOK
<1>2. \A r \in Runners : pod[r] = NoPod /\ r \notin claimed
  BY DEF Init
<1>3. AgesInv
  BY <1>2, BlankFacts DEF AgesInv
<1>4. \A r \in Runners, d \in 0 .. Lag : Shown(r, d) \in {Current(r), NoCopy}
  <2> TAKE r \in Runners, d \in 0 .. Lag
  <2>1. d = 0 \/ d \in 1 .. Lag
    BY AgeAssumption
  <2> QED
    BY <2>1 DEF Init, Shown
<1>5. PastInv
  <2> SUFFICES ASSUME NEW r \in Runners, NEW d \in 0 .. Lag
               PROVE  PastOf(r, d)
    BY DEF PastInv, PastOf
  <2>1. ~(Never >= d)
    BY AgeAssumption DEF Never
  <2>2. /\ ~Shown(r, d).running /\ ~Shown(r, d).begun /\ Shown(r, d).bound = Never
    <3>1. CASE Shown(r, d) = NoCopy
      BY <3>1, BlankFacts
    <3>2. CASE Shown(r, d) = Current(r)
      <4>1. /\ Current(r).bound = pod[r].bound /\ (Current(r).begun <=> pod[r].begun # Never)
            /\ Current(r).running = pod[r].running
        BY DEF Current
      <4> QED
        BY <1>2, <3>2, <4>1, BlankFacts
    <3> QED
      BY <1>4, <3>1, <3>2
  <2> QED
    BY <1>2, <2>1, <2>2, BlankFacts DEF PastOf
<1> QED
  BY <1>1, <1>3, <1>5 DEF EvidenceInv

\* The types are kept by every step.
LEMMA TypeStep ==
    ASSUME TypeOK, [Next]_vars
    PROVE  TypeOK'
<1> Horizon \in Nat /\ MinReplicas \in Nat /\ MaxReplicas \in Nat
  BY AgeAssumption
<1> USE DEF TypeOK
<1>1. CASE Trim \/ TrimFails
  BY <1>1 DEF Trim, TrimFails, DeletionLoop, Candidates, status
<1>2. CASE Resize
  BY <1>2 DEF Resize, status
<1>3. CASE Tick
  <2>1. \A r \in Runners : age'[r] \in 0 .. Horizon
    <3> TAKE r \in Runners
    <3>1. age[r] \in 0 .. Horizon
      OBVIOUS
    <3>2. age'[r] = age[r] \/ age'[r] = Older(age[r])
      BY <1>3 DEF Tick
    <3> QED
      BY <3>1, <3>2 DEF Older, Never
  <2>2. age' \in [Runners -> 0 .. Horizon]
    BY <1>3, <2>1 DEF Tick
  <2>3. pod' \in [Runners -> Pod]
    BY <1>3, OlderFacts, AgeFacts DEF Tick, Pod
  <2>4. past' \in [Runners -> [1 .. Lag -> Copy]]
    <3>1. ASSUME NEW r \in Runners, NEW d \in 1 .. Lag
          PROVE  [Shown(r, d - 1) EXCEPT !.bound = Older(@)] \in Copy
      <4>1. d - 1 \in 0 .. Lag
        BY AgeAssumption
      <4> QED
        BY <4>1, ShownFacts, OlderFacts DEF Copy
    <3> QED
      BY <1>3, <3>1 DEF Tick
  <2> QED
    BY <1>3, <2>2, <2>3, <2>4 DEF Tick
<1>4. ASSUME NEW r \in Runners, Environment(r)
      PROVE  TypeOK'
  <2>0. 0 \in Age /\ Never \in Age /\ NoPod \in Pod /\ NoCopy \in Copy
    BY BlankFacts
  <2> USE DEF status
  <2>1. CASE CreateRunner(r)
    BY <2>1 DEF CreateRunner
  <2>2. CASE CreatePod(r)
    BY <2>2, <2>0 DEF CreatePod, Pod
  <2>3. CASE PodBound(r)
    BY <2>3, <2>0 DEF PodBound, Pod
  <2>4. CASE ContainerStarts(r)
    BY <2>4, <2>0 DEF ContainerStarts, Pod
  <2>5. CASE PodRuns(r)
    BY <2>5, <2>0 DEF PodRuns, Pod
  <2>6. CASE JobEnds(r)
    BY <2>6 DEF JobEnds
  <2>7. CASE PodLost(r)
    BY <2>7, <2>0 DEF PodLost
  <2>8. CASE RecordPhase(r)
    <3>1. pod[r].running \in BOOLEAN
      BY AgeFacts
    <3> QED
      BY <2>8, <3>1 DEF RecordPhase
  <2>9. CASE RunnerGone(r)
    BY <2>9, <2>0 DEF RunnerGone
  <2>10. CASE JobClaimed(r)
    BY <2>10 DEF JobClaimed
  <2> QED
    BY <1>4, <2>1, <2>2, <2>3, <2>4, <2>5, <2>6, <2>7, <2>8, <2>9, <2>10 DEF Environment
<1>5. CASE UNCHANGED vars
  BY <1>5 DEF vars, status
<1> QED
  BY <1>1, <1>2, <1>3, <1>4, <1>5 DEF Next

\* The ages of what happened to one runner stay ordered.
AgesOf(r) ==
    /\ r \in claimed => pod[r].begun >= MinClaim
    /\ pod[r].begun # Never => pod[r].bound # Never /\ pod[r].bound <= pod[r].begun + MaxPull
    /\ pod[r].bound # Never => age[r] <= pod[r].bound + MaxWait
    /\ pod[r].running => pod[r].begun # Never
    /\ pod[r].bound # Never => pod[r].made

\* Time keeps the ages ordered, also at the horizon.
LEMMA TickKeepsAges ==
    ASSUME TypeOK, AgesInv, Tick
    PROVE  AgesInv'
<1> SUFFICES ASSUME NEW r \in Runners
             PROVE  AgesOf(r)'
  BY DEF AgesInv, AgesOf
<1>1. AgesOf(r)
  BY DEF AgesInv, AgesOf
<1>2. /\ pod'[r].bound = Older(pod[r].bound) /\ pod'[r].begun = Older(pod[r].begun)
      /\ pod'[r].running = pod[r].running /\ pod'[r].made = pod[r].made
      /\ (age'[r] = age[r] \/ age'[r] = Older(age[r])) /\ claimed' = claimed
  BY AgeFacts DEF Tick, Pod
<1>3. /\ age[r] \in 0 .. Horizon /\ pod[r].bound \in Age /\ pod[r].begun \in Age
      /\ MinClaim \in Nat /\ MaxWait \in Nat /\ MaxPull \in Nat /\ Horizon \in Nat
  BY AgeFacts, AgeAssumption
<1> QED
  BY <1>1, <1>2, <1>3 DEF AgesOf, Older, Age, Never

\* Each step keeps the ages ordered.
LEMMA AgesStep ==
    ASSUME TypeOK, AgesInv, [Next]_vars
    PROVE  AgesInv'
<1> /\ MinClaim \in Nat /\ MaxWait \in Nat /\ MaxPull \in Nat /\ Horizon \in Nat
  BY AgeAssumption
<1>1. CASE Trim \/ TrimFails \/ Resize \/ UNCHANGED vars
  BY <1>1 DEF Trim, TrimFails, DeletionLoop, Resize, vars, status, AgesInv
<1>2. CASE Tick
  BY <1>2, TickKeepsAges
<1>3. ASSUME NEW q \in Runners, Environment(q)
      PROVE  AgesInv'
  <2> SUFFICES ASSUME NEW r \in Runners
               PROVE  AgesOf(r)'
    BY DEF AgesInv, AgesOf
  <2>0. /\ AgesOf(r) /\ AgesOf(q)
        /\ age[r] \in Int /\ 0 <= age[r] /\ pod[r] \in Pod /\ pod[q] \in Pod
        /\ pod[r].bound \in Age /\ pod[r].begun \in Age
    BY AgeFacts DEF AgesInv, AgesOf
  <2> USE DEF status
  <2>1. CASE CreateRunner(q) \/ JobEnds(q) \/ RecordPhase(q)
    BY <2>0, <2>1 DEF CreateRunner, JobEnds, RecordPhase, AgesOf
  <2>2. CASE CreatePod(q) \/ PodRuns(q)
    <3>1. CASE q = r
      <4>1. /\ pod'[r].bound = pod[r].bound /\ pod'[r].begun = pod[r].begun
            /\ pod'[r].running => pod[r].running \/ pod[r].begun # Never
            /\ pod[r].made => pod'[r].made
        <5>1. CASE CreatePod(q)
          <6>1. pod'[r] = [pod[r] EXCEPT !.made = TRUE]
            BY <3>1, <5>1 DEF CreatePod, TypeOK
          <6> QED
            BY <2>0, <6>1 DEF Pod
        <5>2. CASE PodRuns(q)
          <6>1. pod'[r] = [pod[r] EXCEPT !.running = TRUE] /\ pod[r].begun # Never
            BY <3>1, <5>2 DEF PodRuns, TypeOK
          <6> QED
            BY <2>0, <6>1 DEF Pod
        <5> QED
          BY <2>2, <5>1, <5>2
      <4>2. UNCHANGED <<claimed, age>>
        BY <2>2 DEF CreatePod, PodRuns
      <4> QED
        BY <2>0, <4>1, <4>2 DEF AgesOf
    <3>2. CASE q # r
      BY <2>0, <2>2, <3>2 DEF CreatePod, PodRuns, AgesOf, TypeOK
    <3> QED
      BY <3>1, <3>2
  <2>3. CASE PodBound(q)
    <3>1. CASE q = r
      BY <2>0, <2>3, <3>1 DEF PodBound, AgesOf, TypeOK, Pod, Never, Age
    <3>2. CASE q # r
      BY <2>0, <2>3, <3>2 DEF PodBound, AgesOf, TypeOK
    <3> QED
      BY <3>1, <3>2
  <2>4. CASE ContainerStarts(q)
    <3>1. CASE q = r
      BY <2>0, <2>4, <3>1 DEF ContainerStarts, AgesOf, TypeOK, Pod, Never, Age
    <3>2. CASE q # r
      BY <2>0, <2>4, <3>2 DEF ContainerStarts, AgesOf, TypeOK
    <3> QED
      BY <3>1, <3>2
  <2>5. CASE JobClaimed(q)
    BY <2>0, <2>5 DEF JobClaimed, AgesOf, Age, Never
  <2>6. CASE PodLost(q)
    BY <2>0, <2>6 DEF PodLost, AgesOf, TypeOK, NoPod, Never
  <2>7. CASE RunnerGone(q)
    BY <2>0, <2>7 DEF RunnerGone, AgesOf, TypeOK, NoPod, Never
  <2> QED
    BY <1>3, <2>1, <2>2, <2>3, <2>4, <2>5, <2>6, <2>7 DEF Environment
<1> QED
  BY <1>1, <1>2, <1>3 DEF Next

\* A copy grows older with what it shows.
LEMMA TickKeepsPast ==
    ASSUME TypeOK, AgesInv, PastInv, Tick
    PROVE  PastInv'
<1> SUFFICES ASSUME NEW r \in Runners, NEW d \in 0 .. Lag
             PROVE  PastOf(r, d)'
  BY DEF PastInv, PastOf
<1>0. /\ pod[r] \in Pod /\ pod[r].bound \in Age /\ pod[r].begun \in Age
      /\ pod[r].running \in BOOLEAN /\ Horizon \in Nat /\ Lag \in Nat /\ Lag <= Horizon
      /\ d \in Nat /\ d <= Lag
  BY AgeFacts, AgeAssumption
<1>1. /\ pod'[r].bound = Older(pod[r].bound) /\ pod'[r].begun = Older(pod[r].begun)
      /\ pod'[r].running = pod[r].running /\ pod'[r].made = pod[r].made
  BY <1>0 DEF Tick, Pod
<1>2. CASE d = 0
  <2>2. Shown(r, d)' = Current(r)'
    BY <1>2 DEF Shown
  <2>3. Older(pod[r].bound) = Never <=> pod[r].bound = Never
    BY <1>0, OlderFacts
  <2>4. Older(pod[r].begun) = Never <=> pod[r].begun = Never
    BY <1>0, OlderFacts
  <2>5. ~(Never >= d)
    BY <1>2 DEF Never
  <2>6. /\ Current(r)'.bound = pod'[r].bound /\ Current(r)'.made = pod'[r].made
        /\ Current(r)'.begun <=> pod'[r].begun # Never
        /\ Current(r)'.running = pod'[r].running
    BY DEF Current
  <2>7. /\ pod[r].running => pod[r].begun # Never
        /\ pod[r].begun # Never => pod[r].bound # Never
        /\ pod[r].bound # Never => pod[r].made
    BY DEF AgesInv
  <2> QED
    BY <1>1, <1>2, <2>2, <2>3, <2>4, <2>5, <2>6, <2>7 DEF PastOf
<1>3. CASE d # 0
  <2>1. d \in 1 .. Lag /\ d - 1 \in 0 .. Lag
    BY <1>0, <1>3
  <2>2. PastOf(r, d - 1)
    BY <2>1 DEF PastInv, PastOf
  <2>3. Shown(r, d)' = [Shown(r, d - 1) EXCEPT !.bound = Older(@)]
    BY <1>3, <2>1 DEF Tick, Shown
  <2> DEFINE old == Shown(r, d - 1)
  <2>4. old \in Copy /\ old.bound \in Age
    BY <2>1, ShownFacts
  <2>5. /\ Shown(r, d)'.bound = Older(old.bound) /\ Shown(r, d)'.begun = old.begun
        /\ Shown(r, d)'.running = old.running /\ Shown(r, d)'.made = old.made
    BY <2>3, <2>4 DEF Copy
  <2>6. Older(old.bound) = Never <=> old.bound = Never
    BY <2>4, OlderFacts
  <2>7. ASSUME NEW a \in Age, Older(a) >= d
        PROVE  a >= d - 1
    BY <1>0, <1>3, <2>7 DEF Older, Age, Never
  <2> QED
    BY <1>0, <1>1, <2>2, <2>5, <2>6, <2>7 DEF PastOf
<1> QED
  BY <1>2, <1>3

\* Each step keeps what copies show: only time makes one older, and what happens now is
\* in none that is.
LEMMA PastStep ==
    ASSUME TypeOK, AgesInv, AgesInv', PastInv, [Next]_vars
    PROVE  PastInv'
<1>1. CASE UNCHANGED <<status, past>>
  BY <1>1 DEF PastInv, Shown, Current, status
<1>2. CASE Tick
  BY <1>2, TickKeepsPast
<1>3. ASSUME NEW q \in Runners, Environment(q)
      PROVE  PastInv'
  <2> SUFFICES ASSUME NEW r \in Runners, NEW d \in 0 .. Lag
               PROVE  PastOf(r, d)'
    BY DEF PastInv, PastOf
  <2>0. /\ pod[r] \in Pod /\ pod[q] \in Pod /\ d \in Nat /\ d <= Lag /\ Lag \in Nat
        /\ PastOf(r, d) /\ PastOf(r, 0)
    BY AgeFacts, AgeAssumption DEF PastInv, PastOf
  <2>1. CASE pod'[r] = pod[r] /\ past' = past
    <3>1. d = 0 => Shown(r, d)' = Current(r)' /\ Shown(r, d) = Current(r)
      BY DEF Shown
    <3>2. d # 0 => Shown(r, d)' = Shown(r, d)
      BY <2>1 DEF Shown
    <3> QED
      BY <2>0, <2>1, <3>1, <3>2 DEF PastOf, Current
  \* The pod changes, and it is the one runner's.
  <2>2. CASE past' = past /\ q = r /\ pod'[r] # pod[r]
    <3>1. CASE d # 0
      <4>1. Shown(r, d)' = Shown(r, d)
        BY <2>2, <3>1 DEF Shown
      <4>2. /\ pod'[r].bound \in {pod[r].bound, 0, Never}
            /\ pod'[r].begun \in {pod[r].begun, 0, Never}
        BY <1>3, <2>0, <2>2
           DEF Environment, CreateRunner, CreatePod, PodBound, ContainerStarts, PodRuns,
               JobClaimed, JobEnds, PodLost, RecordPhase, RunnerGone, status, TypeOK, Pod, NoPod
      <4>3. ~(0 >= d) /\ ~(Never >= d)
        BY <2>0, <3>1 DEF Never
      <4> QED
        BY <2>0, <4>1, <4>2, <4>3 DEF PastOf
    <3>2. CASE d = 0
      <4>1. Shown(r, d)' = Current(r)'
        BY <3>2 DEF Shown
      <4>2. pod'[r].bound # Never => pod'[r].made
        BY DEF AgesInv
      <4>3. /\ pod'[r].running => pod'[r].begun # Never
            /\ pod'[r].begun # Never => pod'[r].bound # Never
        BY DEF AgesInv
      <4>4. ~(Never >= d)
        BY <3>2 DEF Never
      <4>5. /\ Current(r)'.bound = pod'[r].bound /\ Current(r)'.made = pod'[r].made
            /\ Current(r)'.begun <=> pod'[r].begun # Never
            /\ Current(r)'.running = pod'[r].running
        BY DEF Current
      <4> QED
        BY <4>1, <4>2, <4>3, <4>4, <4>5 DEF PastOf
    <3> QED
      BY <3>1, <3>2
  <2>3. CASE RunnerGone(q) /\ q = r
    <3>1. pod'[r] = NoPod /\ Shown(r, d)' \in {Current(r)', NoCopy}
      <4>1. pod'[r] = NoPod /\ past'[r] = [i \in 1 .. Lag |-> NoCopy]
        BY <2>3 DEF RunnerGone, TypeOK
      <4>2. d = 0 \/ d \in 1 .. Lag
        BY <2>0
      <4> QED
        BY <4>1, <4>2 DEF Shown
    <3>2. ~(Never >= d)
      BY <2>0 DEF Never
    <3>3. /\ Current(r)'.bound = Never /\ ~Current(r)'.begun /\ ~Current(r)'.running
      BY <3>1, BlankFacts DEF Current
    <3>4. /\ Shown(r, d)'.bound = Never /\ ~Shown(r, d)'.begun /\ ~Shown(r, d)'.running
      <4>1. CASE Shown(r, d)' = NoCopy
        BY <4>1, BlankFacts
      <4> QED
        BY <3>1, <3>3, <4>1
    <3> QED
      BY <3>1, <3>2, <3>4, BlankFacts DEF PastOf
  <2>4. CASE RunnerGone(q) /\ q # r
    <3>1. pod'[r] = pod[r] /\ past'[r] = past[r]
      BY <2>4 DEF RunnerGone, TypeOK
    <3>2. d = 0 => Shown(r, d)' = Current(r)' /\ Shown(r, d) = Current(r)
      BY DEF Shown
    <3>3. d # 0 => Shown(r, d)' = Shown(r, d)
      BY <3>1 DEF Shown
    <3> QED
      BY <2>0, <3>1, <3>2, <3>3 DEF PastOf, Current
  <2>5. RunnerGone(q) \/ (past' = past /\ (q # r => pod'[r] = pod[r]))
    BY <1>3
       DEF Environment, CreateRunner, CreatePod, PodBound, ContainerStarts, PodRuns,
           JobClaimed, JobEnds, PodLost, RecordPhase, status, TypeOK
  <2> QED
    BY <2>1, <2>2, <2>3, <2>4, <2>5
<1>4. Trim \/ TrimFails \/ Resize \/ UNCHANGED vars => UNCHANGED <<status, past>>
  BY DEF Trim, TrimFails, DeletionLoop, Resize, vars
<1> QED
  BY <1>1, <1>2, <1>3, <1>4 DEF Next

\* The ages of every runner and its pod are as the pace of the cluster says, and copies
\* show what had happened by their time.
THEOREM EvidenceCorrect == Spec => []EvidenceInv
<1>1. EvidenceInv /\ [Next]_vars => EvidenceInv'
  BY TypeStep, AgesStep, PastStep DEF EvidenceInv
<1> QED
  BY InitEvidence, <1>1, PTL DEF Spec

-----------------------------------------------------------------------------

\* A runner with a job is no candidate, however old the copies it is judged by.
LEMMA BusyIsUnsafe ==
    ASSUME Timely, EvidenceInv,
           NEW r \in claimed, NEW d \in 0 .. Lag, NEW e \in 0 .. Lag
    PROVE  ~Safe(r, d, e)
<1> SUFFICES ASSUME Safe(r, d, e)
             PROVE  FALSE
  OBVIOUS
<1> DEFINE bound == pod[r].bound
           begun == pod[r].begun
<1>1. r \in Runners
  BY DEF EvidenceInv, TypeOK
<1>2. /\ age[r] \in Int /\ bound \in Int /\ begun \in Int /\ d \in Int /\ d <= Lag
      /\ MinClaim \in Nat /\ MaxWait \in Nat /\ MaxPull \in Nat
      /\ Grace \in Nat /\ Lag \in Nat /\ Horizon \in Nat
  BY <1>1, AgeFacts, AgeAssumption DEF EvidenceInv, Age, Never
<1> DEFINE shown == Shown(r, d)
<1>0. /\ bound >= d => shown.bound = bound
      /\ begun >= d => shown.begun
  BY <1>1 DEF EvidenceInv, PastInv
\* It started not later than it must have, and not so long ago that the copy shows it.
<1>3. MinClaim <= begun /\ begun < d
  BY <1>0, <1>1, <1>2 DEF EvidenceInv, AgesInv, Safe
\* So the caches are too slow for its claim, and it is the grace periods that count.
<1>4. MaxWait + Lag <= Grace /\ MaxPull + Lag <= Grace
  BY <1>2, <1>3 DEF Timely
<1>5. bound <= begun + MaxPull /\ age[r] <= bound + MaxWait
  BY <1>1, <1>2, <1>3 DEF EvidenceInv, AgesInv, Never
\* A copy that shows the pod bound shows it bound recently ...
<1>6. CASE bound >= d
  BY <1>0, <1>2, <1>3, <1>4, <1>5, <1>6 DEF Safe, Never
\* ... and if it does not, the runner is young.
<1>7. CASE ~(bound >= d)
  BY <1>2, <1>4, <1>5, <1>7 DEF Safe
<1> QED
  BY <1>6, <1>7

\* Under Timely no step but its own end asks for the deletion of a runner that has a job:
\* the deletion loop of ephemeralrunnerset_controller.go:219-267.
THEOREM BusyKept ==
    ASSUME Timely
    PROVE  Spec => BusyNeverKilled
<1>1. ASSUME EvidenceInv, [Next]_vars, NEW r \in claimed \cap claimed', r \in deleting'
      PROVE  r \in deleting
  <2>1. CASE Trim \/ TrimFails
    <3>1. PICK d \in [Runners -> 0 .. Lag], e \in 0 .. Lag :
            \E victims \in SUBSET Candidates(d, e) : deleting' = deleting \cup victims
      BY <2>1 DEF Trim, TrimFails, DeletionLoop
    <3>2. r \in Runners
      BY <1>1 DEF EvidenceInv, TypeOK
    <3>3. ~Safe(r, d[r], e)
      BY <1>1, <3>2, BusyIsUnsafe
    <3> QED
      BY <1>1, <3>1, <3>3 DEF Candidates
  <2>2. CASE Resize
    BY <1>1, <2>2 DEF Resize
  <2>3. CASE Tick
    BY <1>1, <2>3 DEF Tick
  <2>4. CASE UNCHANGED vars
    BY <1>1, <2>4 DEF vars
  <2>5. ASSUME NEW q \in Runners, Environment(q)
        PROVE  r \in deleting
    <3>1. CASE JobEnds(q)
      BY <1>1, <3>1 DEF JobEnds
    <3>2. CASE CreateRunner(q) \/ CreatePod(q) \/ PodBound(q) \/ ContainerStarts(q) \/ PodRuns(q)
      <4>1. deleting' = deleting
        BY <3>2 DEF CreateRunner, CreatePod, PodBound, ContainerStarts, PodRuns
      <4> QED
        BY <1>1, <4>1
    <3>3. CASE JobClaimed(q) \/ PodLost(q) \/ RecordPhase(q)
      <4>1. deleting' = deleting
        BY <3>3 DEF JobClaimed, PodLost, RecordPhase
      <4> QED
        BY <1>1, <4>1
    <3>4. CASE RunnerGone(q)
      BY <1>1, <3>4 DEF RunnerGone
    <3> QED
      BY <2>5, <3>1, <3>2, <3>3, <3>4 DEF Environment
  <2> QED
    BY <1>1, <2>1, <2>2, <2>3, <2>4, <2>5 DEF Next
<1>2. EvidenceInv /\ [Next]_vars =>
         [\A r \in claimed \cap claimed' : r \in deleting' => r \in deleting]_vars
  BY <1>1
<1> QED
  BY EvidenceCorrect, <1>2, PTL DEF Spec, BusyNeverKilled

-----------------------------------------------------------------------------

\* In every view an unscheduled runner is a candidate, and not of the highest rank; a pod
\* bound for Lag ticks has that rank.
LEMMA UnscheduledRanksLower ==
    ASSUME EvidenceInv, NEW s \in present, NEW v \in present,
           NEW d \in [Runners -> 0 .. Lag], NEW e \in 0 .. Lag,
           Unscheduled(s), pod[v].bound >= Lag
    PROVE  Safe(s, d[s], e) /\ ~(Rank(v, d[v]) <= Rank(s, d[s]))
<1>1. s \in Runners /\ v \in Runners
  BY DEF EvidenceInv, TypeOK
<1>2. d[s] \in 0 .. Lag /\ d[v] \in 0 .. Lag
  BY <1>1
<1>3. /\ ~Shown(s, e).recorded /\ Shown(s, d[s]).bound = Never /\ age[s] >= Grace
  BY <1>2 DEF Unscheduled
<1>4. ~Shown(s, d[s]).running /\ ~Shown(s, d[s]).begun
  BY <1>1, <1>2, <1>3 DEF EvidenceInv, PastInv
<1>5. Safe(s, d[s], e) /\ Rank(s, d[s]) \in {0, 1}
  BY <1>3, <1>4 DEF Safe, Rank
<1>6. pod[v].bound >= d[v] /\ pod[v].bound # Never
  BY <1>1, <1>2, AgeFacts, AgeAssumption DEF EvidenceInv, Age, Never
<1>7. Shown(v, d[v]).bound # Never /\ Shown(v, d[v]).made
  BY <1>1, <1>2, <1>6 DEF EvidenceInv, PastInv
<1>8. Rank(v, d[v]) = 2
  BY <1>7 DEF Rank
<1> QED
  BY <1>5, <1>8

\* A scale-down that deletes a runner whose pod has been bound for as long as the caches
\* may be late leaves no old one behind that was without a node for as long: the sort of
\* candidates in ephemeralrunnerset_controller.go:247.
THEOREM PullingKept == Spec => PullingSpared
<1>1. ASSUME EvidenceInv, [Next]_vars, NEW v \in (deleting' \ deleting) \ claimed,
             NEW s \in present \ deleting', pod[v].bound >= Lag, Unscheduled(s)
      PROVE  FALSE
  <2>1. CASE Trim \/ TrimFails
    <3>1. PICK d \in [Runners -> 0 .. Lag], e \in 0 .. Lag :
            \E victims \in SUBSET Candidates(d, e) :
               /\ CheapestFirst(victims, Candidates(d, e), d)
               /\ deleting' = deleting \cup victims
      BY <2>1 DEF Trim, TrimFails, DeletionLoop
    <3>2. PICK victims \in SUBSET Candidates(d, e) :
               /\ CheapestFirst(victims, Candidates(d, e), d)
               /\ deleting' = deleting \cup victims
      BY <3>1
    <3>3. v \in victims /\ v \in present /\ Safe(v, d[v], e)
      BY <1>1, <3>2 DEF Candidates
    <3>4. Safe(s, d[s], e) /\ ~(Rank(v, d[v]) <= Rank(s, d[s]))
      BY <1>1, <3>3, UnscheduledRanksLower
    <3>5. s \in Candidates(d, e) \ victims
      BY <1>1, <3>2, <3>4 DEF Candidates
    <3> QED
      BY <3>2, <3>3, <3>4, <3>5 DEF CheapestFirst
  <2>2. CASE Resize
    BY <1>1, <2>2 DEF Resize
  <2>3. CASE Tick
    BY <1>1, <2>3 DEF Tick
  <2>4. CASE UNCHANGED vars
    BY <1>1, <2>4 DEF vars
  <2>5. ASSUME NEW q \in Runners, Environment(q)
        PROVE  FALSE
    <3>1. CASE JobEnds(q)
      BY <1>1, <3>1 DEF JobEnds
    <3>2. CASE CreateRunner(q) \/ CreatePod(q) \/ PodBound(q) \/ ContainerStarts(q) \/ PodRuns(q)
      <4>1. deleting' = deleting
        BY <3>2 DEF CreateRunner, CreatePod, PodBound, ContainerStarts, PodRuns
      <4> QED
        BY <1>1, <4>1
    <3>3. CASE JobClaimed(q) \/ PodLost(q) \/ RecordPhase(q)
      <4>1. deleting' = deleting
        BY <3>3 DEF JobClaimed, PodLost, RecordPhase
      <4> QED
        BY <1>1, <4>1
    <3>4. CASE RunnerGone(q)
      BY <1>1, <3>4 DEF RunnerGone
    <3> QED
      BY <2>5, <3>1, <3>2, <3>3, <3>4 DEF Environment
  <2> QED
    BY <1>1, <2>1, <2>2, <2>3, <2>4, <2>5 DEF Next
<1>2. EvidenceInv /\ [Next]_vars =>
        [\A v \in (deleting' \ deleting) \ claimed, s \in present \ deleting' :
           ~(pod[v].bound >= Lag /\ Unscheduled(s))]_vars
  BY <1>1
<1> QED
  BY EvidenceCorrect, <1>2, PTL DEF Spec, PullingSpared
=============================================================================
