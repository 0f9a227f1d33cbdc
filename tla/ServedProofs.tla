---------------------------- MODULE ServedProofs ----------------------------
(***************************************************************************)
(* Proofs about DemandServed, for any number of jobs, runners and mishaps  *)
(* and any size: type correctness, that a size is settled only when it is  *)
(* met, and that the listener rests only when every job has a runner.      *)
(***************************************************************************)
EXTENDS DemandServed, FiniteSetTheorems, TLAPS

\* What a list counts is a number.
LEMMA ListedCounted ==
    ASSUME NEW S \in SUBSET Runners
    PROVE  IsFiniteSet(S) /\ Cardinality(S) \in Nat
BY ServedAssumption, FS_Subset, FS_CardinalityType

\* The listener's size is within its bounds.
LEMMA DesiredType ==
    ASSUME NEW w \in Nat, NEW o \in Nat
    PROVE  Desired(w, o) \in 0 .. MaxRunners
BY SizingAssumption DEF Desired, Assigned, SmallerOf, LargerOf

\* What an informer delivers, and what a write leaves of a copy.
LEMMA CopyType ==
    ASSUME TypeOK, NEW p \in Processes
    PROVE  /\ CurrentCopy(p) \in Copy
           /\ Outdated(cached[p]) \in Copy /\ Republished(cached[p]) \in Copy
           /\ \A r \in Runners : View(p, r) \in Views
<1>1. ers \in Set /\ cached[p] \in Copy
  BY DEF TypeOK
<1>2. (p = "manager" /\ ers.settled) \in BOOLEAN /\ (p = "manager") \in BOOLEAN
  OBVIOUS
<1>3. CurrentCopy(p) \in Copy
  BY <1>1, <1>2 DEF CurrentCopy, Copy, Set
<1>4. Outdated(cached[p]) \in Copy /\ Republished(cached[p]) \in Copy
  BY <1>1 DEF Outdated, Republished, Copy
<1>5. \A r \in Runners : View(p, r) \in Views
  BY DEF TypeOK, Views, View, Stages
<1> QED BY <1>3, <1>4, <1>5

\* The last status write stores a set and leaves the copies behind, or does nothing.
LEMMA RecordType ==
    ASSUME TypeOK, RecordPatch
    PROVE  ers' \in Set /\ cached' \in [Processes -> Copy]
<1>1. copy.fresh \in BOOLEAN /\ ers \in Set
  BY DEF TypeOK, copy, Copy, Processes
<1>2. CASE ers.settled = copy.fresh
  BY <1>2 DEF RecordPatch, TypeOK
<1>3. CASE ers.settled # copy.fresh
  <2>1. ers' = [ers EXCEPT !.settled = copy.fresh]
        /\ cached' = [p \in Processes |-> Outdated(cached[p])]
    BY <1>3 DEF RecordPatch
  <2> QED BY <1>1, <2>1, CopyType DEF Set
<1> QED BY <1>2, <1>3

\* Every step keeps the types.
LEMMA TypeKept ==
    ASSUME TypeOK, [Next]_vars
    PROVE  TypeOK'
<1>0. /\ arrived \in Nat /\ queued \in Nat /\ queued <= arrived /\ arrived <= Jobs
      /\ ers \in Set /\ Jobs \in Nat /\ left \in Nat /\ left <= MaxRunners
      /\ MaxRunners \in Nat /\ mishaps \in Nat /\ mishaps <= MaxMishaps /\ MaxMishaps \in Nat
      /\ runner \in [Runners -> Stages] /\ copy \in Copy
      /\ {"absent", "pending", "ready", "busy", "ended"} = Stages
  BY ServedAssumption, SizingAssumption DEF TypeOK, copy, Processes, Stages
<1>1. CASE UpdateSet
  <2>1. Cardinality(Occupied) \in Nat
    BY ListedCounted, Occupied \subseteq Runners DEF Occupied, Listed
  <2>2. desired \in 0 .. MaxRunners
    BY <1>0, <2>1, DesiredType DEF desired
  <2>3. ers' \in Set /\ cached' \in [Processes -> Copy]
    BY <1>1, <2>2, CopyType DEF UpdateSet, Set
  <2> QED BY <1>1, <2>3 DEF UpdateSet, TypeOK
<1>2. CASE ClaimPatch
  <2>1. Cardinality(Listed("manager")) \in Nat
    BY ListedCounted, Listed("manager") \subseteq Runners DEF Listed
  <2>2. Missing \in 0 .. MaxRunners
    BY <1>0, <2>1 DEF Missing, count, Copy
  <2>3. ers' \in Set /\ cached' \in [Processes -> Copy]
    BY <1>0, <1>2, CopyType DEF ClaimPatch, Set
  <2> QED BY <1>2, <2>2, <2>3 DEF ClaimPatch, TypeOK
<1>3. CASE CreateRunner
  <2>1. runner' \in [Runners -> Stages] /\ left' \in 0 .. MaxRunners
    <3> DEFINE r == CHOOSE r \in Forgotten : TRUE
    <3>1. /\ runner' = [runner EXCEPT ![r] = "pending"]
          /\ left > 0 /\ left' = left - 1
      BY <1>3 DEF CreateRunner
    <3> HIDE DEF r
    <3>2. runner' \in [Runners -> Stages]
      BY <1>0, <3>1
    <3>3. left' \in 0 .. MaxRunners
      BY <1>0, <3>1
    <3> QED BY <3>2, <3>3
  <2> QED BY <1>3, <2>1 DEF CreateRunner, TypeOK
<1>4. CASE Trim
  <2>1. runner' \in [Runners -> Stages]
    BY <1>0, <1>4 DEF Trim
  <2> QED BY <1>4, <2>1, RecordType DEF Trim, TypeOK
<1>5. CASE NothingToDo
  BY <1>5, RecordType DEF NothingToDo, TypeOK
<1>6. CASE ReconcileFails
  <2>1. mishaps' \in 0 .. MaxMishaps /\ left' \in 0 .. MaxRunners
    BY <1>0, <1>6 DEF ReconcileFails, Mishap
  <2> QED BY <1>6, <2>1 DEF ReconcileFails, TypeOK
<1>7. ASSUME NEW p \in Processes, SyncSet(p)
      PROVE  TypeOK'
  BY <1>7, CopyType DEF SyncSet, TypeOK
<1>8. ASSUME NEW p \in Processes, SyncRunners(p)
      PROVE  TypeOK'
  <2>1. listed' \in [Processes -> [Runners -> Views]]
    BY <1>8, CopyType DEF SyncRunners, TypeOK
  <2> QED BY <1>8, <2>1 DEF SyncRunners, TypeOK
<1>9. CASE JobQueued
  <2>1. arrived' \in 0 .. Jobs /\ queued' \in 0 .. arrived'
    BY <1>0, <1>9 DEF JobQueued
  <2> QED BY <1>9, <2>1 DEF JobQueued, TypeOK
<1>10. ASSUME NEW r \in Runners, RunnerStarts(r) \/ JobEnds(r) \/ RunnerGone(r)
       PROVE  TypeOK'
  <2>1. runner' \in [Runners -> Stages]
    BY <1>0, <1>10 DEF RunnerStarts, JobEnds, RunnerGone
  <2> QED BY <1>10, <2>1 DEF RunnerStarts, JobEnds, RunnerGone, TypeOK
<1>11. ASSUME NEW r \in Runners, JobClaimed(r)
       PROVE  TypeOK'
  <2>1. runner' \in [Runners -> Stages] /\ queued' \in 0 .. arrived
    BY <1>0, <1>11 DEF JobClaimed
  <2> QED BY <1>11, <2>1 DEF JobClaimed, TypeOK
<1>12. ASSUME NEW r \in Runners, RunnerLost(r)
       PROVE  TypeOK'
  <2>1. runner' \in [Runners -> Stages] /\ mishaps' \in 0 .. MaxMishaps
    BY <1>0, <1>12 DEF RunnerLost, Mishap
  <2> QED BY <1>12, <2>1 DEF RunnerLost, TypeOK
<1>13. CASE UNCHANGED vars
  BY <1>13 DEF vars, TypeOK
<1> QED
  BY <1>1, <1>2, <1>3, <1>4, <1>5, <1>6, <1>7, <1>8, <1>9, <1>10, <1>11, <1>12, <1>13
     DEF Next, Reconciles, Informers, Starts, Claims, Ends, Goes

\* Types: sizes and creations within maxRunners, no more jobs waiting than arrived.
THEOREM TypeCorrect == Spec => []TypeOK
<1>1. Init => TypeOK
  <2> SUFFICES ASSUME Init PROVE TypeOK
    OBVIOUS
  <2>1. ers \in Set
    BY SizingAssumption DEF Init, Set, SmallerOf
  <2>2. \A p \in Processes : CurrentCopy(p) \in Copy
    <3> TAKE p \in Processes
    <3>1. (p = "manager" /\ ers.settled) \in BOOLEAN /\ (p = "manager") \in BOOLEAN
      OBVIOUS
    <3> QED BY <2>1, <3>1 DEF CurrentCopy, Copy, Set
  <2> QED BY <2>1, <2>2, ServedAssumption, SizingAssumption DEF Init, TypeOK, Stages, Views
<1> QED BY <1>1, TypeKept, PTL DEF Spec

-----------------------------------------------------------------------------
(* When a size is settled.                                                  *)

\* A current copy has the size that is stored; the controller's copy, when it has the
\* published PatchID, has the size published with it, and it shows the size settled
\* only when it is; and a settled size is one the controller's copy has.
CopiesInv ==
    /\ \A p \in Processes : cached[p].current => cached[p].replicas = ers.replicas
    /\ copy.current => copy.fresh
    /\ copy.fresh => copy.replicas = ers.replicas /\ (copy.settled => ers.settled)
    /\ ers.settled => copy.fresh

\* Settling a size whose PatchID the controller has read keeps the copies honest.
LEMMA SettleKept ==
    ASSUME TypeOK, CopiesInv, copy.fresh,
           ers' = [ers EXCEPT !.settled = TRUE],
           cached' = [p \in Processes |-> Outdated(cached[p])]
    PROVE  CopiesInv'
<1>1. ers \in Set /\ cached \in [Processes -> Copy] /\ "manager" \in Processes
  BY DEF TypeOK, Processes
<1>2. ers'.replicas = ers.replicas /\ ers'.settled
  BY <1>1 DEF Set
<1>3. \A p \in Processes : ~cached'[p].current
  BY <1>1 DEF Outdated, Copy
<1>4. copy' = Outdated(copy)
  BY <1>1 DEF copy
<1>5. copy'.fresh /\ copy'.replicas = copy.replicas /\ ~copy'.current
  BY <1>1, <1>4 DEF Outdated, Copy, copy
<1> QED BY <1>2, <1>3, <1>5 DEF CopiesInv

\* The last status write settles a size that the reconcile read, and opens none.
LEMMA RecordKept ==
    ASSUME TypeOK, CopiesInv, RecordPatch
    PROVE  /\ CopiesInv'
           /\ ers'.replicas = ers.replicas
           /\ ~ers.settled /\ ers'.settled => copy.fresh
           /\ ers.settled => ers'.settled
<1>1. ers \in Set /\ cached \in [Processes -> Copy] /\ copy.fresh \in BOOLEAN
  BY DEF TypeOK, Processes, copy, Copy
<1>2. CASE ers.settled = copy.fresh
  BY <1>2 DEF RecordPatch, CopiesInv, copy
<1>3. CASE ers.settled # copy.fresh
  <2>1. copy.fresh
    BY <1>1, <1>3 DEF CopiesInv, Set
  <2>2. ers' = [ers EXCEPT !.settled = TRUE]
        /\ cached' = [p \in Processes |-> Outdated(cached[p])]
    BY <1>1, <1>3, <2>1 DEF RecordPatch
  <2>3. CopiesInv'
    BY <2>1, <2>2, SettleKept
  <2> QED BY <1>1, <2>1, <2>2, <2>3 DEF Set
<1> QED BY <1>2, <1>3

\* A step keeps the copies honest, settles no size that is not met and opens none.
LEMMA CopiesSteps ==
    ASSUME TypeOK, CopiesInv, [Next]_vars
    PROVE  /\ CopiesInv'
           /\ ~ers.settled /\ ers'.settled => count + left' >= ers.replicas
           /\ ers.settled /\ ~ers'.settled => UpdateSet
<1> DEFINE Honest == /\ CopiesInv'
                     /\ ~ers.settled /\ ers'.settled => count + left' >= ers.replicas
                     /\ ers.settled /\ ~ers'.settled => UpdateSet
<1>0. /\ ers \in Set /\ cached \in [Processes -> Copy] /\ copy \in Copy
      /\ "manager" \in Processes /\ MaxRunners \in Nat /\ left \in Nat
      /\ copy.replicas \in Nat /\ ers.replicas \in Nat
  BY SizingAssumption DEF TypeOK, Processes, copy, Set, Copy
<1>00. count \in Nat
  BY ListedCounted, Listed("manager") \subseteq Runners DEF Listed, count
<1>1. CASE UpdateSet
  <2>1. ~ers'.settled
    BY <1>1 DEF UpdateSet
  <2>2. \A p \in Processes : ~cached'[p].current /\ ~cached'[p].fresh
    BY <1>0, <1>1 DEF UpdateSet, Republished, Copy
  <2> QED BY <1>0, <1>1, <2>1, <2>2 DEF CopiesInv, copy
<1>2. CASE ClaimPatch
  <2>1. copy.fresh /\ copy.replicas = ers.replicas
    BY <1>0, <1>2 DEF ClaimPatch, CopiesInv, copy
  <2>2. CopiesInv'
    BY <1>2, <2>1, SettleKept DEF ClaimPatch
  <2>3. left' = ers.replicas - count
    BY <1>0, <1>00, <1>2, <2>1 DEF ClaimPatch, Missing
  <2>4. ers'.settled
    BY <1>0, <1>2 DEF ClaimPatch, Set
  <2> QED BY <1>0, <1>00, <2>2, <2>3, <2>4
<1>3. CASE Trim
  <2>1. RecordPatch /\ left' = left /\ count > copy.replicas
    BY <1>0, <1>00, <1>3 DEF Trim, Excess
  <2> QED BY <1>0, <1>00, <2>1, RecordKept DEF CopiesInv
<1>4. CASE NothingToDo
  <2>1. RecordPatch /\ left' = left /\ (count >= copy.replicas \/ copy.settled)
    BY <1>0, <1>00, <1>4 DEF NothingToDo, Missing
  <2> QED BY <1>0, <1>00, <2>1, RecordKept DEF CopiesInv
<1>5. ASSUME NEW q \in Processes, SyncSet(q)
      PROVE  Honest
  <2>1. cached' = [cached EXCEPT ![q] = CurrentCopy(q)] /\ ers' = ers
    BY <1>5 DEF SyncSet
  <2>2. \A p \in Processes : cached'[p].current => cached'[p].replicas = ers'.replicas
    <3> TAKE p \in Processes
    <3>1. CASE p = q
      BY <1>0, <2>1, <3>1 DEF CurrentCopy
    <3>2. CASE p # q
      BY <1>0, <2>1, <3>2 DEF CopiesInv
    <3> QED BY <3>1, <3>2
  <2>3. CASE q = "manager"
    <3>1. copy' = CurrentCopy("manager")
      BY <1>0, <2>1, <2>3 DEF copy
    <3>2. copy'.fresh /\ copy'.replicas = ers.replicas /\ (copy'.settled => ers.settled)
      BY <3>1 DEF CurrentCopy
    <3> QED BY <2>1, <2>2, <3>2 DEF CopiesInv
  <2>4. CASE q # "manager"
    <3>1. copy' = copy
      BY <1>0, <2>1, <2>4 DEF copy
    <3> QED BY <2>1, <2>2, <3>1 DEF CopiesInv
  <2> QED BY <2>3, <2>4
<1>6. ASSUME UNCHANGED <<ers, cached>>
      PROVE  Honest
  BY <1>6 DEF CopiesInv, copy
<1>7. CASE CreateRunner \/ ReconcileFails \/ JobQueued
  BY <1>6, <1>7 DEF CreateRunner, ReconcileFails, JobQueued
<1>8. ASSUME NEW p \in Processes, SyncRunners(p)
      PROVE  Honest
  BY <1>6, <1>8 DEF SyncRunners
<1>9. ASSUME NEW r \in Runners, RunnerStarts(r) \/ JobClaimed(r) \/ JobEnds(r) \/ RunnerGone(r)
                                \/ RunnerLost(r)
      PROVE  Honest
  BY <1>6, <1>9 DEF RunnerStarts, JobClaimed, JobEnds, RunnerGone, RunnerLost
<1>10. CASE UNCHANGED vars
  BY <1>6, <1>10 DEF vars
<1> QED
  BY <1>1, <1>2, <1>3, <1>4, <1>5, <1>7, <1>8, <1>9, <1>10
     DEF Next, Reconciles, Informers, Starts, Claims, Ends, Goes

\* The copies are honest, however late each of them is.
THEOREM CopiesHonest == Spec => []CopiesInv
<1>1. Init => CopiesInv
  <2> SUFFICES ASSUME Init PROVE CopiesInv
    OBVIOUS
  <2>1. \A p \in Processes : cached[p] = CurrentCopy(p)
    BY DEF Init
  <2>2. ~ers.settled /\ copy = CurrentCopy("manager")
    BY <2>1 DEF Init, copy, Processes
  <2>3. \A p \in Processes : cached[p].replicas = ers.replicas
    <3> TAKE p \in Processes
    <3>1. CurrentCopy(p).replicas = ers.replicas
      BY DEF CurrentCopy
    <3> QED BY <2>1, <3>1
  <2>4. copy.fresh /\ copy.replicas = ers.replicas
    BY <2>2 DEF CurrentCopy
  <2>5. ~copy.settled
    BY <2>2, Zenon DEF CurrentCopy
  <2> QED BY <2>2, <2>3, <2>4, <2>5 DEF CopiesInv
<1> QED BY <1>1, TypeCorrect, CopiesSteps, PTL DEF Spec

\* A size is settled only by a reconcile that lists as many runners or sets out to
\* create the rest, and opened again only by the listener, whatever version the last
\* status write lands on (ephemeralrunnerset_controller.go:280-292).
THEOREM SizeSettledWhenMet == Spec => SettledWhenMet
<1>1. TypeOK /\ CopiesInv /\ [Next]_vars =>
        [/\ ~ers.settled /\ ers'.settled => count + left' >= ers.replicas
         /\ ers.settled /\ ~ers'.settled => UpdateSet]_vars
  BY CopiesSteps
<1> QED BY <1>1, TypeCorrect, CopiesHonest, PTL DEF Spec, SettledWhenMet

-----------------------------------------------------------------------------
(* When the listener rests.                                                 *)

\* A listener that sees every runner as it is and has nothing to write has a runner on
\* its way for every waiting job, or a full set (cmd/listener/main.go:240-244).
LEMMA RestServes ==
    ASSUME TypeOK
    PROVE  RestsWhenServed
<1> SUFFICES ASSUME \A r \in Runners : listed["listener"][r] = View("listener", r), ~Resize
             PROVE  \/ Cardinality(Coming) >= queued
                    \/ Cardinality(Coming \cup Occupied) >= MaxRunners
  BY DEF RestsWhenServed
<1> DEFINE l == Cardinality(Listed("listener"))
           o == Cardinality(Occupied)
           c == Cardinality(Coming)
<1>1. /\ Occupied \in SUBSET Runners /\ Coming \in SUBSET Runners
      /\ Listed("listener") \in SUBSET Runners
  BY DEF Occupied, Coming, Listed
<1>2. l \in Nat /\ o \in Nat /\ c \in Nat /\ queued \in Nat /\ MaxRunners \in Nat
      /\ MinRunners \in Nat /\ IsFiniteSet(Occupied) /\ IsFiniteSet(Coming)
  BY <1>1, ListedCounted, SizingAssumption DEF TypeOK
<1>3. Listed("listener") = Coming \cup Occupied
  <2>1. \A r \in Runners : r \in Listed("listener") <=> runner[r] # "absent"
    BY DEF Listed, View
  <2>2. \A r \in Runners : r \in Occupied <=> runner[r] \in {"busy", "ended"}
    BY <2>1 DEF Occupied, View, Busy
  <2>3. \A r \in Runners : runner[r] \in {"absent", "pending", "ready", "busy", "ended"}
    BY DEF TypeOK, Stages
  <2> QED BY <1>1, <2>1, <2>2, <2>3 DEF Coming
<1>4. Coming \cap Occupied = {}
  BY DEF Coming, Occupied, Busy, View
<1>5. l = c + o
  <2>1. l = c + o - Cardinality(Coming \cap Occupied)
    BY <1>2, <1>3, FS_Union
  <2>2. Cardinality(Coming \cap Occupied) = 0
    BY <1>4, FS_EmptySet
  <2> QED BY <1>2, <2>1, <2>2
<1>6. l >= Desired(queued, o)
  <2>1. Desired(queued, o) \in 0 .. MaxRunners
    BY <1>2, DesiredType
  <2>2. desired = Desired(queued, o)
    BY DEF desired
  <2>3. ~(desired > l)
    BY DEF Resize
  <2> QED BY <1>2, <2>1, <2>2, <2>3
<1> HIDE DEF l, o, c
<1>7. c >= queued \/ l >= MaxRunners
  BY <1>2, <1>5, <1>6 DEF Desired, Assigned, SmallerOf, LargerOf
<1> QED BY <1>3, <1>7 DEF l, c

\* So the listener rests only when the waiting jobs are served, at any size.
THEOREM ListenerRestsWhenServed == Spec => []RestsWhenServed
BY RestServes, TypeCorrect, PTL
=============================================================================
