---------------------------- MODULE RunnerProofs ----------------------------
(* What holds of EphemeralRunner for any number of managers, pods, failures *)
(* and changes of leader, and any timeouts.                                 *)
EXTENDS EphemeralRunner, FiniteSetTheorems, TLAPS

USE DEF Pods, view, Requeue, Done, kube, gitea, manager, counts, outside

LEMMA AgesAreBounded ==
    /\ Oldest \in Nat /\ 0 \in Ages /\ Unset \in Ages
    /\ \A age \in Ages : Older(age) \in Ages
BY RunnerAssumption DEF Oldest, Ages, Unset, Older

\* A copy of a runner stays one when time passes, and keeps all but its ages.
LEMMA AgedRunner ==
    ASSUME NEW runner \in Runner
    PROVE  /\ Aged(runner) \in Runner
           /\ Aged(runner).exists = runner.exists
           /\ Aged(runner).finalizer = runner.finalizer
BY AgesAreBounded DEF Aged, Runner

LEMMA BlankTypes ==
    /\ NoRunner \in Runner /\ ~NoRunner.exists /\ ~NoRunner.finalizer
    /\ NoPod \in Pod /\ NoPod.phase = "none"
    /\ IdleRec \in Reconcile /\ IdleRec.pc = "none" /\ ~IdleRec.copy.finalizer
<1>1. NoRunner \in Runner /\ ~NoRunner.exists /\ ~NoRunner.finalizer
  BY AgesAreBounded, RunnerAssumption DEF NoRunner, Runner, Phases
<1>2. NoPod \in Pod /\ NoPod.phase = "none"
  BY RunnerAssumption DEF NoPod, Pod
<1>3. IdleRec \in Reconcile /\ IdleRec.pc = "none" /\ ~IdleRec.copy.finalizer
  BY <1>1, <1>2, RunnerAssumption DEF IdleRec, Reconcile, Calls, Phases
<1> QED BY <1>1, <1>2, <1>3

\* Going on to another call keeps the copy and nothing else.
LEMMA GotoCall ==
    ASSUME TypeOK, NEW pc \in Calls, Goto(pc)
    PROVE  /\ rec' \in Reconcile /\ rec'.pc = pc /\ rec'.copy = rec.copy
BY BlankTypes DEF Goto, TypeOK, Reconcile

\* Of the registrations there are, a listing keeps the page to remove and the rest.
LEMMA ListedPage ==
    ASSUME TypeOK, ListRegistrations
    PROVE  /\ rec' \in Reconcile /\ rec'.pc = "deregister" /\ rec'.copy = rec.copy
           /\ Registered \subseteq rec'.ids \union rec'.missed
<1>1. PICK page \in SUBSET Pods :
        /\ FirstPage(page)
        /\ rec' = [rec EXCEPT !.pc = "deregister", !.ids = page, !.missed = Registered \ page]
  BY DEF ListRegistrations
<1>2. Registered \in SUBSET Pods /\ rec \in Reconcile
  BY DEF Registered, TypeOK
<1>3. Registered \ page \in SUBSET Pods
  BY <1>2
<1> QED BY <1>1, <1>2, <1>3 DEF Reconcile, Calls

LEMMA DeletedRunner ==
    ASSUME er \in Runner
    PROVE  /\ Deleted(er) \in Runner
           /\ Deleted(er).exists => Deleted(er).finalizer
BY BlankTypes DEF Deleted, Runner

LEMMA PhaseTypes ==
    ASSUME TypeOK, NEW p \in Pod, p.phase # "none", NEW phase \in NextPhases(rec.copy, p)
    PROVE  phase \in Phases
BY DEF NextPhases, ClassifyFinishedPod, Phases, Finished, Pod, TypeOK, Reconcile, Runner

-----------------------------------------------------------------------------
\* The variables always hold values of their types.
THEOREM TypeCorrect == Spec => []TypeOK
<1>1. Init => TypeOK
  <2> SUFFICES ASSUME Init PROVE TypeOK
    OBVIOUS
  <2>1. er \in Runner
    BY BlankTypes DEF Init, Runner
  <2>2. cache \in [Managers -> View]
    BY BlankTypes DEF Init, View
  <2>3. /\ faults \in 0 .. MaxFaults /\ failovers \in 0 .. MaxFailovers
        /\ started \in 0 .. MaxStarts /\ completed \in 0 .. MaxCompletions
    BY RunnerAssumption DEF Init
  <2> QED BY <2>1, <2>2, <2>3, BlankTypes DEF Init, TypeOK
<1>2. TypeOK /\ [Next]_vars => TypeOK'
  <2> SUFFICES ASSUME TypeOK, [Next]_vars PROVE TypeOK'
    OBVIOUS
  <2>0. /\ er \in Runner /\ pod \in Pod /\ rec \in Reconcile /\ rec.copy \in Runner
        /\ leader \in Managers /\ cache[leader].er \in Runner /\ cache[leader].pod \in Pod
        /\ cache[leader] \in View
    BY DEF TypeOK, View, Reconcile
  <2>1. CASE StartReconcile
    <3>1. rec' \in Reconcile
      BY <2>0, <2>1, BlankTypes DEF StartReconcile, Reconcile, Calls
    <3> QED BY <2>1, <3>1 DEF StartReconcile, TypeOK
  <2>2. CASE AddFinalizer
    <3>1. er' \in Runner
      BY <2>0, <2>2 DEF AddFinalizer, Runner
    <3>2. rec' \in Reconcile
      BY <2>0, <2>2, <3>1 DEF AddFinalizer, Reconcile, Calls
    <3> QED BY <2>2, <3>1, <3>2 DEF AddFinalizer, TypeOK
  <2>3. CASE EnsureSecret
    BY <2>3, GotoCall DEF EnsureSecret, TypeOK, Calls
  <2>4. CASE CreatePod
    <3>1. pod' \in Pod
      BY <2>0, <2>4, RunnerAssumption DEF CreatePod, Pod
    <3> QED BY <2>4, <3>1, GotoCall DEF CreatePod, TypeOK, Calls
  <2>5. CASE CreateRejected
    BY <2>5, GotoCall DEF CreateRejected, TypeOK, Calls
  <2>6. CASE RecordCreation
    <3>1. er' \in Runner
      BY <2>0, <2>6, AgesAreBounded DEF RecordCreation, Runner, Phases
    <3> QED BY <2>6, <3>1, BlankTypes DEF RecordCreation, TypeOK
  <2>7. CASE ObservePod
    <3>1. PICK phase \in NextPhases(rec.copy, cache[leader].pod) :
            IF phase = rec.copy.phase
            THEN Goto(AfterStatus(cache[leader].pod))
            ELSE rec' = [rec EXCEPT !.pc = "write", !.seen = cache[leader].pod, !.next = phase]
      BY <2>7 DEF ObservePod
    <3>2. phase \in Phases
      BY <2>0, <2>7, PhaseTypes DEF ObservePod
    <3>3. rec' \in Reconcile
      <4>1. CASE phase = rec.copy.phase
        BY <3>1, <4>1, GotoCall DEF AfterStatus, Calls
      <4>2. CASE phase # rec.copy.phase
        BY <2>0, <3>1, <3>2, <4>2 DEF Reconcile, Calls
      <4> QED BY <4>1, <4>2
    <3> QED BY <2>7, <3>3 DEF ObservePod, TypeOK
  <2>8. CASE WritePhase
    <3>1. er' \in Runner
      BY <2>0, <2>8, AgesAreBounded DEF WritePhase, Runner, Reconcile
    <3>2. started' \in 0 .. MaxStarts /\ completed' \in 0 .. MaxCompletions
      <4>1. /\ started' \in {started, Count(started, MaxStarts)}
            /\ completed' \in {completed, Count(completed, MaxCompletions)}
        BY <2>8 DEF WritePhase
      <4>2. started \in 0 .. MaxStarts /\ completed \in 0 .. MaxCompletions
        BY DEF TypeOK
      <4> QED BY <4>1, <4>2, RunnerAssumption DEF Count
    <3>3. rec' \in Reconcile
      BY <2>8, GotoCall DEF WritePhase, AfterStatus, Calls
    <3> QED BY <2>8, <3>1, <3>2, <3>3 DEF WritePhase, TypeOK
  <2>9. CASE WritePhaseFails
    <3>1. rec' \in Reconcile
      BY <2>9, GotoCall DEF WritePhaseFails, AfterStatus, Calls
    <3>2. faults' \in 0 .. MaxFaults
      BY <2>9, RunnerAssumption DEF WritePhaseFails, CallFails, TypeOK
    <3> QED BY <2>9, <3>1, <3>2 DEF WritePhaseFails, TypeOK
  <2>10. CASE ReadProgress
    <3>1. CASE ~cache[leader].er.exists
      BY <2>10, <3>1, BlankTypes DEF ReadProgress, TypeOK
    <3>2. CASE cache[leader].er.exists
      <4>1. PICK job \in 0 .. MaxPods, heard \in BOOLEAN :
              rec' = [IdleRec EXCEPT !.copy = cache[leader].er,
                                     !.pc = IF heard THEN "heartbeat" ELSE "timeout",
                                     !.job = IF heard THEN job ELSE 0]
        BY <2>10, <3>2 DEF ReadProgress
      <4>2. rec' \in Reconcile
        <5> DEFINE call == IF heard THEN "heartbeat" ELSE "timeout"
                   about == IF heard THEN job ELSE 0
        <5>1. call \in Calls /\ about \in 0 .. MaxPods
          BY RunnerAssumption DEF Calls
        <5>2. rec' = [IdleRec EXCEPT !.copy = cache[leader].er, !.pc = call, !.job = about]
          BY <4>1
        <5> HIDE DEF call, about
        <5> QED BY <2>0, <5>1, <5>2, BlankTypes DEF Reconcile
      <4> QED BY <2>10, <3>2, <4>2 DEF ReadProgress, TypeOK
    <3> QED BY <3>1, <3>2
  <2>11. CASE Heartbeat
    <3>1. er' \in Runner
      BY <2>0, <2>11, AgesAreBounded DEF Heartbeat, Runner, Reconcile
    <3>2. [rec.copy EXCEPT !.jobRef = rec.job, !.quiet = 0] \in Runner
      BY <2>0, AgesAreBounded DEF Runner, Reconcile
    <3>3. rec' \in Reconcile
      BY <2>11, <3>2, BlankTypes DEF Heartbeat, Reconcile, Calls
    <3> QED BY <2>11, <3>1, <3>3 DEF Heartbeat, TypeOK
  <2>12. CASE KeepRunner
    BY <2>12, BlankTypes DEF KeepRunner, TypeOK
  <2>13. CASE TimeOutRunner
    <3>1. completed' \in 0 .. MaxCompletions
      BY <2>13, RunnerAssumption DEF TimeOutRunner, TypeOK, Count
    <3> QED BY <2>13, <3>1, GotoCall DEF TimeOutRunner, TypeOK, Calls
  <2>14. CASE DeleteRunner
    <3>1. er' \in Runner
      BY <2>0, <2>14, DeletedRunner DEF DeleteRunner
    <3> QED BY <2>14, <3>1, BlankTypes DEF DeleteRunner, TypeOK
  <2>15. CASE RecordRejection
    <3>1. er' \in Runner
      BY <2>0, <2>15, AgesAreBounded DEF RecordRejection, Runner, Phases
    <3>2. rec' \in Reconcile /\ queued' \in BOOLEAN
      <4>1. CASE Goto("delete") /\ UNCHANGED queued
        BY <4>1, GotoCall DEF Calls, TypeOK
      <4>2. CASE rec' = IdleRec /\ queued' \in BOOLEAN
        BY <4>2, BlankTypes
      <4> QED BY <2>15, <4>1, <4>2 DEF RecordRejection, TypeOK
    <3> QED BY <2>15, <3>1, <3>2 DEF RecordRejection, TypeOK
  <2>16. CASE ListRegistrations
    BY <2>16, ListedPage DEF ListRegistrations, TypeOK
  <2>17. ASSUME NEW k \in Pods, Deregister(k) PROVE TypeOK'
    <3>1. rec' \in Reconcile
      BY <2>0, <2>17 DEF Deregister, Reconcile
    <3> QED BY <2>17, <3>1 DEF Deregister, TypeOK
  <2>18. CASE RemoveFinalizer
    BY <2>18, BlankTypes DEF RemoveFinalizer, TypeOK
  <2>19. CASE ReconcileFails
    <3>1. faults' \in 0 .. MaxFaults
      BY <2>19, RunnerAssumption DEF ReconcileFails, CallFails, TypeOK
    <3> QED BY <2>19, <3>1, BlankTypes DEF ReconcileFails, TypeOK
  <2>20. ASSUME NEW m \in Managers, SyncRunner(m) PROVE TypeOK'
    <3>1. cache' \in [Managers -> View]
      BY <2>0, <2>20 DEF SyncRunner, TypeOK, View
    <3> QED BY <2>20, <3>1 DEF SyncRunner, TypeOK
  <2>21. ASSUME NEW m \in Managers, SyncPod(m) PROVE TypeOK'
    <3>1. cache' \in [Managers -> View]
      BY <2>0, <2>21 DEF SyncPod, TypeOK, View
    <3> QED BY <2>21, <3>1 DEF SyncPod, TypeOK
  <2>22. ASSUME NEW m \in Managers, Failover(m) PROVE TypeOK'
    <3>1. cache' \in [Managers -> View]
      BY <2>0, <2>22 DEF Failover, TypeOK, View
    <3>2. failovers' \in 0 .. MaxFailovers
      BY <2>22, RunnerAssumption DEF Failover, TypeOK
    <3> QED BY <2>22, <3>1, <3>2, BlankTypes DEF Failover, TypeOK
  <2>23. CASE Tick
    <3>1. er' \in Runner
      BY <2>0, <2>23, AgedRunner DEF Tick
    <3>2. cache' \in [Managers -> View]
      <4> SUFFICES ASSUME NEW m \in Managers
                   PROVE  [cache[m] EXCEPT !.er = Aged(@)] \in View
        BY <2>23 DEF Tick
      <4>1. cache[m] \in View /\ cache[m].er \in Runner
        BY DEF TypeOK, View
      <4>2. Aged(cache[m].er) \in Runner
        BY <4>1, AgedRunner
      <4> QED BY <4>1, <4>2 DEF View
    <3>3. rec' \in Reconcile
      <4>1. Aged(rec.copy) \in Runner
        BY <2>0, AgedRunner
      <4> QED BY <2>0, <2>23, <4>1 DEF Tick, Reconcile
    <3> QED BY <2>23, <3>1, <3>2, <3>3 DEF Tick, TypeOK
  <2>24. CASE PodRuns \/ PodEnds \/ PodVanishes \/ GarbageCollect
    <3>1. pod' \in Pod
      BY <2>0, <2>24, BlankTypes DEF PodRuns, PodEnds, PodVanishes, GarbageCollect, Pod, Finished
    <3> QED BY <2>24, <3>1 DEF PodRuns, PodEnds, PodVanishes, GarbageCollect, TypeOK
  <2>25. CASE DeletionRequested
    <3>1. er' \in Runner
      BY <2>0, <2>25, DeletedRunner DEF DeletionRequested
    <3> QED BY <2>25, <3>1 DEF DeletionRequested, TypeOK
  <2>26. ASSUME NEW k \in Pods,
                PodRegisters(k) \/ JobClaimed(k) \/ JobHangs(k) \/ JobEnds(k) \/ JobReaped(k)
         PROVE  TypeOK'
    BY <2>26 DEF PodRegisters, JobClaimed, JobHangs, JobEnds, JobReaped, TypeOK, InProgress
  <2>27. CASE UNCHANGED vars
    BY <2>27 DEF vars, TypeOK
  <2> QED
    BY <2>1, <2>2, <2>3, <2>4, <2>5, <2>6, <2>7, <2>8, <2>9, <2>10, <2>11, <2>12, <2>13,
       <2>14, <2>15, <2>16, <2>17, <2>18, <2>19, <2>20, <2>21, <2>22, <2>23, <2>24, <2>25,
       <2>26, <2>27 DEF Next, Reconciling, Managing, World
<1> QED BY <1>1, <1>2, PTL DEF Spec

-----------------------------------------------------------------------------
\* The parts of LifecycleInv about the runner's copies, apart from the types.
CopiesInv ==
    /\ FinalizerBeforePod
    /\ \A m \in Managers : er.exists /\ cache[m].er.finalizer => er.finalizer
    /\ er.exists /\ rec.copy.finalizer => er.finalizer
    /\ rec.pc \in {"secret", "pod"} => rec.copy.finalizer

\* A step keeps the parts about copies when it keeps the finalizer of a runner that
\* still exists, shows no finalizer that was not there, and makes no pod.
LEMMA CopiesKept ==
    ASSUME CopiesInv, TypeOK,
           er'.exists => er.exists,
           er'.exists /\ er.finalizer => er'.finalizer,
           \A m \in Managers : cache'[m].er.finalizer => er.finalizer \/ cache[m].er.finalizer,
           rec'.copy.finalizer => \/ rec.copy.finalizer
                                  \/ cache[leader].er.finalizer
                                  \/ er'.finalizer,
           rec'.pc \in {"secret", "pod"} => rec'.copy.finalizer,
           pod'.phase # "none" => pod.phase # "none"
    PROVE  CopiesInv'
BY DEF CopiesInv, FinalizerBeforePod, TypeOK

\* A runner with a pod keeps its finalizer, by way of every copy that is ever made of
\* it; and while registrations are removed only its last pod adds one.
THEOREM LifecycleCorrect == Spec => []LifecycleInv
<1> DEFINE RegInv == rec.pc = "deregister" =>
                        Registered \subseteq rec.ids \union rec.missed \union {pod.n}
<1>1. Init => CopiesInv /\ RegInv
  <2> SUFFICES ASSUME Init PROVE CopiesInv /\ RegInv
    OBVIOUS
  <2>1. pod.phase = "none" /\ rec.pc = "none" /\ ~rec.copy.finalizer
    BY BlankTypes DEF Init
  <2>2. \A m \in Managers : ~cache[m].er.finalizer
    BY BlankTypes DEF Init
  <2> QED BY <2>1, <2>2 DEF CopiesInv, FinalizerBeforePod
<1>2. CopiesInv /\ TypeOK /\ TypeOK' /\ [Next]_vars => CopiesInv'
  <2> SUFFICES ASSUME CopiesInv, TypeOK, TypeOK', [Next]_vars PROVE CopiesInv'
    OBVIOUS
  <2>0. /\ er \in Runner /\ er' \in Runner /\ rec \in Reconcile /\ pod \in Pod
        /\ leader \in Managers /\ cache \in [Managers -> View]
    BY DEF TypeOK
  <2>1. CASE StartReconcile
    BY <2>0, <2>1, CopiesKept, BlankTypes DEF StartReconcile, Reconcile
  <2>2. CASE AddFinalizer
    BY <2>0, <2>2, CopiesKept DEF AddFinalizer, Reconcile, Runner
  <2>3. CASE EnsureSecret
    <3>1. rec'.pc = "pod" /\ rec'.copy = rec.copy
      BY <2>3, GotoCall DEF EnsureSecret, Calls
    <3> QED BY <2>3, <3>1, CopiesKept DEF EnsureSecret, CopiesInv
  <2>4. CASE CreatePod
    <3>1. rec'.pc = "record" /\ rec'.copy = rec.copy
      BY <2>4, GotoCall DEF CreatePod, Calls
    <3>2. UNCHANGED <<er, cache>> /\ (er.exists => er.finalizer)
      BY <2>4 DEF CreatePod, CopiesInv
    <3> QED BY <3>1, <3>2 DEF CopiesInv, FinalizerBeforePod
  <2>5. CASE CreateRejected
    <3>1. rec'.pc = "rejected" /\ rec'.copy = rec.copy
      BY <2>5, GotoCall DEF CreateRejected, Calls
    <3> QED BY <2>5, <3>1, CopiesKept DEF CreateRejected
  <2>6. CASE RecordCreation
    BY <2>0, <2>6, CopiesKept, BlankTypes DEF RecordCreation, Runner
  <2>7. CASE ObservePod
    <3>1. rec'.pc \in {"write", "delete", "progress"} /\ rec'.copy = rec.copy
      <4>1. PICK phase \in NextPhases(rec.copy, cache[leader].pod) :
              IF phase = rec.copy.phase
              THEN Goto(AfterStatus(cache[leader].pod))
              ELSE rec' = [rec EXCEPT !.pc = "write", !.seen = cache[leader].pod,
                                      !.next = phase]
        BY <2>7 DEF ObservePod
      <4>2. CASE phase = rec.copy.phase
        BY <4>1, <4>2, GotoCall DEF AfterStatus, Calls
      <4>3. CASE phase # rec.copy.phase
        BY <2>0, <4>1, <4>3 DEF Reconcile
      <4> QED BY <4>2, <4>3
    <3> QED BY <2>7, <3>1, CopiesKept DEF ObservePod
  <2>8. CASE WritePhase \/ WritePhaseFails
    <3>1. rec'.pc \in {"delete", "progress"} /\ rec'.copy = rec.copy
      BY <2>8, GotoCall DEF WritePhase, WritePhaseFails, AfterStatus, Calls
    <3>2. er'.exists = er.exists /\ er'.finalizer = er.finalizer /\ UNCHANGED <<pod, cache>>
      BY <2>0, <2>8 DEF WritePhase, WritePhaseFails, Runner
    <3> QED BY <3>1, <3>2, CopiesKept
  <2>9. CASE ReadProgress
    <3>1. rec'.copy.finalizer => cache[leader].er.finalizer
      BY <2>0, <2>9, BlankTypes DEF ReadProgress, Reconcile
    <3>2. rec'.pc \in {"none", "heartbeat", "timeout"}
      BY <2>9, BlankTypes DEF ReadProgress, Reconcile
    <3> QED BY <2>9, <3>1, <3>2, CopiesKept DEF ReadProgress
  <2>10. CASE Heartbeat
    <3>1. rec'.pc = "timeout" /\ rec'.copy.finalizer = rec.copy.finalizer
      BY <2>0, <2>10, BlankTypes DEF Heartbeat, Reconcile, Runner
    <3>2. er'.exists = er.exists /\ er'.finalizer = er.finalizer
      BY <2>0, <2>10 DEF Heartbeat, Runner
    <3> QED BY <2>10, <3>1, <3>2, CopiesKept DEF Heartbeat
  <2>11. CASE KeepRunner \/ ReconcileFails
    BY <2>11, CopiesKept, BlankTypes DEF KeepRunner, ReconcileFails
  <2>12. CASE TimeOutRunner
    <3>1. rec'.pc = "delete" /\ rec'.copy = rec.copy
      BY <2>12, GotoCall DEF TimeOutRunner, Calls
    <3> QED BY <2>12, <3>1, CopiesKept DEF TimeOutRunner
  <2>13. CASE DeleteRunner \/ DeletionRequested
    <3>1. (er'.exists => er.exists) /\ (er'.exists /\ er.finalizer => er'.finalizer)
      BY <2>0, <2>13, BlankTypes DEF DeleteRunner, DeletionRequested, Deleted, Runner
    <3>2. UNCHANGED <<pod, cache>> /\ (rec' = IdleRec \/ UNCHANGED rec)
      BY <2>13 DEF DeleteRunner, DeletionRequested
    <3> QED BY <3>1, <3>2, CopiesKept, BlankTypes DEF CopiesInv
  <2>14. CASE RecordRejection
    <3>1. rec'.pc \in {"none", "delete"} /\ (rec'.copy.finalizer => rec.copy.finalizer)
      BY <2>14, BlankTypes, GotoCall DEF RecordRejection, Calls
    <3>2. er'.exists = er.exists /\ er'.finalizer = er.finalizer
      BY <2>0, <2>14 DEF RecordRejection, Runner
    <3> QED BY <2>14, <3>1, <3>2, CopiesKept DEF RecordRejection
  <2>15. CASE ListRegistrations
    BY <2>15, ListedPage, CopiesKept DEF ListRegistrations
  <2>16. ASSUME NEW k \in Pods, Deregister(k) PROVE CopiesInv'
    BY <2>0, <2>16, CopiesKept DEF Deregister, Reconcile
  <2>17. CASE RemoveFinalizer
    BY <2>17, CopiesKept, BlankTypes DEF RemoveFinalizer
  <2>18. ASSUME NEW m \in Managers, SyncRunner(m) PROVE CopiesInv'
    BY <2>0, <2>18, CopiesKept DEF SyncRunner, CopiesInv, View
  <2>19. ASSUME NEW m \in Managers, SyncPod(m) PROVE CopiesInv'
    BY <2>0, <2>19, CopiesKept DEF SyncPod, CopiesInv, View
  <2>20. ASSUME NEW m \in Managers, Failover(m) PROVE CopiesInv'
    BY <2>0, <2>20, CopiesKept, BlankTypes DEF Failover, View
  <2>21. CASE Tick
    <3>1. er'.exists = er.exists /\ er'.finalizer = er.finalizer
      BY <2>0, <2>21, AgedRunner DEF Tick
    <3>2. \A m \in Managers : cache'[m].er.finalizer = cache[m].er.finalizer
      <4> SUFFICES ASSUME NEW m \in Managers
                   PROVE  cache'[m].er.finalizer = cache[m].er.finalizer
        OBVIOUS
      <4>1. cache[m] \in View /\ cache'[m].er = Aged(cache[m].er)
        BY <2>0, <2>21 DEF Tick, View
      <4> QED BY <4>1, AgedRunner DEF View
    <3>3. rec'.pc = rec.pc /\ rec'.copy.finalizer = rec.copy.finalizer
      <4>1. rec.copy \in Runner
        BY <2>0 DEF Reconcile
      <4>2. rec'.pc = rec.pc /\ rec'.copy = Aged(rec.copy)
        BY <2>0, <2>21 DEF Tick, Reconcile
      <4> QED BY <4>1, <4>2, AgedRunner
    <3> QED BY <2>21, <3>1, <3>2, <3>3, CopiesKept DEF Tick, CopiesInv
  <2>22. CASE PodRuns \/ PodEnds \/ PodVanishes \/ GarbageCollect
    <3>1. pod'.phase # "none" => pod.phase # "none"
      BY <2>0, <2>22 DEF PodRuns, PodEnds, PodVanishes, GarbageCollect, NoPod, Pod
    <3>2. UNCHANGED <<er, cache, rec>>
      BY <2>22 DEF PodRuns, PodEnds, PodVanishes, GarbageCollect
    <3> QED BY <3>1, <3>2, CopiesKept DEF CopiesInv
  <2>23. ASSUME NEW k \in Pods,
                PodRegisters(k) \/ JobClaimed(k) \/ JobHangs(k) \/ JobEnds(k) \/ JobReaped(k)
         PROVE  CopiesInv'
    BY <2>23 DEF PodRegisters, JobClaimed, JobHangs, JobEnds, JobReaped, CopiesInv,
       FinalizerBeforePod
  <2>24. CASE UNCHANGED vars
    BY <2>24 DEF vars, CopiesInv, FinalizerBeforePod
  <2> QED
    BY <2>1, <2>2, <2>3, <2>4, <2>5, <2>6, <2>7, <2>8, <2>9, <2>10, <2>11, <2>12, <2>13,
       <2>14, <2>15, <2>16, <2>17, <2>18, <2>19, <2>20, <2>21, <2>22, <2>23, <2>24
       DEF Next, Reconciling, Managing, World
<1>3. RegInv /\ TypeOK /\ TypeOK' /\ [Next]_vars => RegInv'
  <2> SUFFICES ASSUME RegInv, TypeOK, TypeOK', [Next]_vars, rec'.pc = "deregister"
               PROVE  Registered' \subseteq rec'.ids \union rec'.missed \union {pod'.n}
    OBVIOUS
  <2>0. /\ rec \in Reconcile /\ pod \in Pod /\ reg \in [Pods -> {"no", "yes", "removed"}]
    BY DEF TypeOK
  <2>1. CASE ListRegistrations
    BY <2>1, ListedPage DEF ListRegistrations, Registered
  <2>2. ASSUME NEW k \in Pods, Deregister(k)
        PROVE  Registered' \subseteq rec'.ids \union rec'.missed \union {pod'.n}
    BY <2>0, <2>2 DEF Deregister, Reconcile, Registered
  <2>3. CASE Reconciling /\ ~ListRegistrations /\ ~(\E k \in Pods : Deregister(k))
    <3> SUFFICES FALSE
      OBVIOUS
    <3>1. CASE \E pc \in Calls \ {"deregister"} : Goto(pc)
      BY <3>1, GotoCall
    <3>2. CASE rec' = IdleRec
      BY <3>2, BlankTypes
    <3>3. CASE StartReconcile \/ AddFinalizer \/ ReadProgress \/ Heartbeat
      BY <2>0, <3>3, BlankTypes
         DEF StartReconcile, AddFinalizer, ReadProgress, Heartbeat, Reconcile
    <3>4. CASE rec.pc = "pod" /\ rec'.pc = "write"
      BY <3>4
    <3>5. CASE ObservePod
      BY <2>0, <3>1, <3>4, <3>5 DEF ObservePod, AfterStatus, Calls, Reconcile
    <3> QED
      BY <2>3, <3>1, <3>2, <3>3, <3>5
         DEF Reconciling, EnsureSecret, CreatePod, CreateRejected, RecordCreation, WritePhase,
             WritePhaseFails, AfterStatus, KeepRunner, TimeOutRunner, DeleteRunner,
             RecordRejection, RemoveFinalizer, ReconcileFails, Calls
  <2>4. ASSUME NEW m \in Managers, SyncRunner(m) \/ SyncPod(m) \/ Failover(m)
        PROVE  Registered' \subseteq rec'.ids \union rec'.missed \union {pod'.n}
    BY <2>4, BlankTypes DEF SyncRunner, SyncPod, Failover, Registered
  <2>5. CASE Tick
    BY <2>0, <2>5 DEF Tick, Reconcile, Registered
  <2>6. CASE PodRuns \/ PodEnds \/ PodVanishes \/ GarbageCollect \/ DeletionRequested
    <3>1. pod'.n = pod.n
      BY <2>0, <2>6, BlankTypes
         DEF PodRuns, PodEnds, PodVanishes, GarbageCollect, DeletionRequested, Pod
    <3> QED
      BY <2>6, <3>1
         DEF PodRuns, PodEnds, PodVanishes, GarbageCollect, DeletionRequested, Registered
  <2>7. ASSUME NEW k \in Pods,
               PodRegisters(k) \/ JobClaimed(k) \/ JobHangs(k) \/ JobEnds(k) \/ JobReaped(k)
        PROVE  Registered' \subseteq rec'.ids \union rec'.missed \union {pod'.n}
    BY <2>0, <2>7 DEF PodRegisters, JobClaimed, JobHangs, JobEnds, JobReaped, Runs,
       Registered
  <2>8. CASE UNCHANGED vars
    BY <2>8 DEF vars, Registered
  <2> QED
    BY <2>1, <2>2, <2>3, <2>4, <2>5, <2>6, <2>7, <2>8 DEF Next, Managing, World
<1> QED BY <1>1, <1>2, <1>3, TypeCorrect, PTL DEF Spec, LifecycleInv, CopiesInv

\* A pod is never without a finalizer on its runner (docs/adr/0003:22-24).
THEOREM FinalizerCorrect == Spec => []FinalizerBeforePod
<1>1. LifecycleInv => FinalizerBeforePod
  BY DEF LifecycleInv
<1> QED BY <1>1, LifecycleCorrect, PTL

\* The finalizer goes once nothing is registered under the runner's name but what the
\* page left out and what its last pod registered meanwhile
\* (ephemeralrunner_controller.go:531-536, 594-604).
THEOREM RegistrationsRemoved == Spec => OnlyLateRegistration
<1>1. LifecycleInv /\ [Next]_vars =>
        [RemoveFinalizer => Registered \subseteq rec.missed \union {pod.n}]_vars
  BY DEF LifecycleInv, RemoveFinalizer
<1> QED BY <1>1, LifecycleCorrect, PTL DEF Spec, OnlyLateRegistration

\* A page with room for every row there can be leaves none out.
LEMMA PageWithRoom ==
    ASSUME MaxPods + OtherRows <= PageSize, NEW page \in SUBSET Pods, FirstPage(page)
    PROVE  page = Registered
<1>1. IsFiniteSet(Pods) /\ Cardinality(Pods) = MaxPods
  BY RunnerAssumption, FS_Interval
<1>2. Registered \subseteq Pods
  BY DEF Registered
<1>3. page \subseteq Registered
  BY DEF FirstPage
<1>4. IsFiniteSet(Registered) /\ Cardinality(Registered) <= MaxPods
  BY <1>1, <1>2, FS_Subset
<1>5. CASE page # Registered
  <2>1. /\ Cardinality(page) \in Nat /\ Cardinality(Registered) \in Nat
        /\ Cardinality(page) < Cardinality(Registered)
    <3>1. /\ IsFiniteSet(page) /\ Cardinality(page) <= Cardinality(Registered)
          /\ Cardinality(page) # Cardinality(Registered)
      BY <1>3, <1>4, <1>5, FS_Subset
    <3> QED BY <1>4, <3>1, FS_CardinalityType
  <2>2. Cardinality(page) + OtherRows >= PageSize
    BY <1>5 DEF FirstPage
  <2> QED BY <1>4, <2>1, <2>2, RunnerAssumption
<1> QED BY <1>5

\* Only a listing leaves anything out.
LEMMA MissedKept ==
    ASSUME TypeOK, [Next]_vars, ~ListRegistrations
    PROVE  rec'.missed \in {{}, rec.missed}
<1>0. rec \in Reconcile /\ IdleRec \in Reconcile /\ IdleRec.missed = {}
  <2>1. IdleRec.missed = {}
    BY Zenon DEF IdleRec
  <2> QED BY <2>1, BlankTypes DEF TypeOK
<1>1. CASE \E pc \in Calls : Goto(pc)
  BY <1>0, <1>1 DEF Goto, Reconcile
<1>2. CASE rec' = IdleRec \/ UNCHANGED rec
  BY <1>0, <1>2
<1>3. CASE StartReconcile \/ ReadProgress \/ Heartbeat
  BY <1>0, <1>3 DEF StartReconcile, ReadProgress, Heartbeat, Reconcile
<1>4. CASE AddFinalizer \/ Tick \/ \E k \in Pods : Deregister(k)
  BY <1>0, <1>4 DEF AddFinalizer, Tick, Deregister, Reconcile
<1>5. CASE ObservePod
  BY <1>0, <1>1, <1>5 DEF ObservePod, AfterStatus, Calls, Reconcile
<1>6. CASE Reconciling
  BY <1>1, <1>2, <1>3, <1>4, <1>5, <1>6
     DEF Reconciling, EnsureSecret, CreatePod, CreateRejected, RecordCreation, WritePhase,
         WritePhaseFails, AfterStatus, KeepRunner, TimeOutRunner, DeleteRunner,
         RecordRejection, RemoveFinalizer, ReconcileFails, Calls
<1>7. CASE Managing \/ World
  BY <1>2, <1>4, <1>7
     DEF Managing, SyncRunner, SyncPod, Failover, World, PodRuns, PodEnds, PodVanishes,
         GarbageCollect, DeletionRequested, PodRegisters, JobClaimed, JobHangs, JobEnds,
         JobReaped
<1> QED BY <1>2, <1>6, <1>7 DEF Next, vars

\* In an org whose runners fit one page, "every Gitea registration belonging to the
\* runner" is removed (ephemeralrunner_controller.go:555-558), all but what its last pod
\* registers meanwhile.
THEOREM RegistrationsFitting ==
    ASSUME MaxPods + OtherRows <= PageSize
    PROVE  Spec => EveryRegistrationRemoved
<1>1. Init => rec.missed = {}
  <2>1. IdleRec.missed = {}
    BY Zenon DEF IdleRec
  <2> QED BY <2>1 DEF Init
<1>2. rec.missed = {} /\ TypeOK /\ [Next]_vars => (rec.missed = {})'
  <2> SUFFICES ASSUME rec.missed = {}, TypeOK, [Next]_vars PROVE rec'.missed = {}
    OBVIOUS
  <2>1. CASE ListRegistrations
    <3>1. PICK page \in SUBSET Pods :
            /\ FirstPage(page)
            /\ rec' = [rec EXCEPT !.pc = "deregister", !.ids = page, !.missed = Registered \ page]
      BY <2>1 DEF ListRegistrations
    <3>2. page = Registered
      BY <3>1, PageWithRoom
    <3> QED BY <3>1, <3>2 DEF TypeOK, Reconcile
  <2> QED BY <2>1, MissedKept
<1>3. rec.missed = {} /\ [RemoveFinalizer => Registered \subseteq rec.missed \union {pod.n}]_vars
        => [RemoveFinalizer => Registered \subseteq {pod.n}]_vars
  OBVIOUS
<1> QED
  BY <1>1, <1>2, <1>3, RegistrationsRemoved, TypeCorrect, PTL
     DEF Spec, OnlyLateRegistration, EveryRegistrationRemoved

-----------------------------------------------------------------------------
(* The order of phases, for a runner with one pod and one manager at work.  *)

\* No process takes over from another: there is one, which may restart, or its lease
\* never passes on.
NoTakeover == MaxFailovers = 0 \/ \A m, n \in Managers : m = n

\* A phase that says no more than what a pod has been through.
Reached(phase, p) ==
    /\ phase = "Running" => p.phase \in {"Running"} \cup Finished
    /\ phase \in Finished => p.phase \in Finished

\* A phase that does not come before another.
NotBefore(b, a) == Rank(b) >= Rank(a)

\* The runner's phase follows what the manager's cache shows of the pod, and the cache
\* what the pod has been through; so a write that is decided on cannot be behind.
PhaseInv ==
    er.exists =>
        /\ pod.n = 0 <=> pod.phase = "none"
        /\ Reached(cache[leader].pod.phase, pod)
        /\ Reached(er.phase, cache[leader].pod)
        /\ rec.pc = "write" =>
              Reached(rec.next, cache[leader].pod) /\ NotBefore(rec.next, er.phase)

\* The phases in order.
LEMMA RankOrder ==
    ASSUME NEW a \in Phases, NEW b \in Phases
    PROVE  /\ NotBefore(a, a)
           /\ NotBefore(b, a) <=> /\ a = "Pending" => b \in {"Pending", "Running"} \cup Finished
                                  /\ a = "Running" => b \in {"Running"} \cup Finished
                                  /\ a \in Finished => b \in Finished
<1> DEFINE na == Rank(a)
           nb == Rank(b)
<1>1. ASSUME NEW c \in Phases
      PROVE  \/ c \notin {"Pending", "Running"} \cup Finished /\ Rank(c) = 0
             \/ c = "Pending" /\ Rank(c) = 1
             \/ c = "Running" /\ Rank(c) = 2
             \/ c \in Finished /\ Rank(c) = 3
  BY Zenon DEF Phases, Finished, Rank
<1>2. \/ a \notin {"Pending", "Running"} \cup Finished /\ na = 0
      \/ a = "Pending" /\ na = 1
      \/ a = "Running" /\ na = 2
      \/ a \in Finished /\ na = 3
  BY <1>1
<1>3. \/ b \notin {"Pending", "Running"} \cup Finished /\ nb = 0
      \/ b = "Pending" /\ nb = 1
      \/ b = "Running" /\ nb = 2
      \/ b \in Finished /\ nb = 3
  BY <1>1
<1>4. /\ NotBefore(b, a) <=> nb >= na
      /\ NotBefore(a, a) <=> na >= na
  BY DEF NotBefore
<1> HIDE DEF na, nb
<1> QED BY <1>2, <1>3, <1>4 DEF Finished

\* A step keeps the invariant, and the phase, when it leaves alone the phase, the
\* pod and what is seen of it, or removes the runner.
LEMMA PhaseKept ==
    ASSUME TypeOK, PhaseInv,
           er'.exists => /\ er.exists /\ er'.phase = er.phase /\ pod' = pod
                         /\ cache'[leader'].pod = cache[leader].pod,
           rec'.pc = "write" => rec.pc = "write" /\ rec'.next = rec.next
    PROVE  PhaseInv' /\ (er.exists /\ er'.exists => NotBefore(er'.phase, er.phase))
<1>1. er.phase \in Phases /\ NotBefore(er.phase, er.phase)
  BY RankOrder DEF TypeOK, Runner
<1>2. CASE ~er'.exists
  BY <1>2 DEF PhaseInv
<1>3. CASE er'.exists
  BY <1>1, <1>3 DEF PhaseInv, Reached
<1> QED BY <1>2, <1>3

\* The writes after a creation or a rejection only start a phase.
LEMMA RecordedPhase ==
    ASSUME er \in Runner, RecordCreation \/ RecordRejection
    PROVE  /\ er'.exists = er.exists /\ er'.phase \in {er.phase, "Pending"}
           /\ er'.phase # er.phase => er.phase \notin {"Running"} \cup Finished
<1> DEFINE created  == IF er.phase \in {"", "Pending"} THEN "Pending" ELSE er.phase
           rejected == IF er.phase = "" THEN "Pending" ELSE er.phase
<1>1. /\ created \in {er.phase, "Pending"} /\ rejected \in {er.phase, "Pending"}
      /\ created # er.phase => er.phase \notin {"Running"} \cup Finished
      /\ rejected # er.phase => er.phase \notin {"Running"} \cup Finished
  BY Zenon DEF Finished
<1>2. \/ er' = [er EXCEPT !.podName = TRUE, !.age = 0, !.phase = created]
      \/ er' = er
      \/ er' = [er EXCEPT !.phase = rejected, !.age = IF @ = Unset THEN 0 ELSE @]
  BY Zenon DEF RecordCreation, RecordRejection
<1> HIDE DEF created, rejected
<1> QED BY <1>1, <1>2 DEF Runner

\* No step brings a phase that is behind, or makes one so.
LEMMA PhaseSteps ==
    ASSUME MaxPods = 1, NoTakeover, TypeOK, TypeOK', PhaseInv, [Next]_vars
    PROVE  PhaseInv' /\ (er.exists /\ er'.exists => NotBefore(er'.phase, er.phase))
<1> DEFINE Forward == PhaseInv' /\ (er.exists /\ er'.exists => NotBefore(er'.phase, er.phase))
<1>0. /\ er \in Runner /\ er' \in Runner /\ rec \in Reconcile /\ pod \in Pod /\ pod' \in Pod
      /\ leader \in Managers /\ cache \in [Managers -> View] /\ cache[leader] \in View
      /\ cache[leader].pod \in Pod /\ rec.copy \in Runner
  BY RunnerAssumption DEF TypeOK, View, Reconcile
<1> {"Pending", "Running"} \cup Finished \subseteq Phases
  BY Zenon DEF Phases
<1>1. CASE StartReconcile \/ ReadProgress \/ ListRegistrations
  <2>1. rec'.pc # "write"
    <3>1. CASE ListRegistrations
      BY <3>1, ListedPage
    <3> QED BY <1>0, <1>1, <3>1, BlankTypes DEF StartReconcile, ReadProgress, Reconcile
  <2>2. UNCHANGED <<kube, manager>>
    BY <1>1 DEF StartReconcile, ReadProgress, ListRegistrations
  <2> QED BY <2>1, <2>2, PhaseKept
<1>2. CASE AddFinalizer \/ Heartbeat
  <2>1. er'.phase = er.phase /\ er'.exists = er.exists
    BY <1>0, <1>2 DEF AddFinalizer, Heartbeat, Runner
  <2>2. rec'.pc # "write"
    BY <1>0, <1>2, BlankTypes DEF AddFinalizer, Heartbeat, Reconcile
  <2> QED BY <1>2, <2>1, <2>2, PhaseKept DEF AddFinalizer, Heartbeat
<1>3. CASE EnsureSecret \/ CreateRejected \/ TimeOutRunner \/ WritePhaseFails
  <2>1. rec'.pc # "write"
    BY <1>3, GotoCall DEF EnsureSecret, CreateRejected, TimeOutRunner, WritePhaseFails,
       AfterStatus, Calls
  <2> QED
    BY <1>3, <2>1, PhaseKept DEF EnsureSecret, CreateRejected, TimeOutRunner, WritePhaseFails
<1>4. CASE CreatePod
  <2>1. rec'.pc = "record"
    BY <1>4, GotoCall DEF CreatePod, Calls
  <2>2. pod'.n = 1 /\ pod'.phase = "Pending"
    BY <1>0, <1>4 DEF CreatePod, Pod
  <2>3. cache[leader].pod.phase = "none" /\ UNCHANGED <<er, cache, leader>>
    BY <1>4 DEF CreatePod
  <2> QED BY <1>0, <2>1, <2>2, <2>3, RankOrder DEF Runner, PhaseInv, Reached, Finished
<1>5. CASE RecordCreation \/ RecordRejection
  <2>1. rec'.pc # "write"
    BY <1>5, BlankTypes, GotoCall DEF RecordCreation, RecordRejection, Calls
  <2>2. UNCHANGED <<pod, cache, leader>>
    BY <1>5 DEF RecordCreation, RecordRejection
  <2>3. er'.exists = er.exists /\ er'.phase \in {er.phase, "Pending"}
        /\ (er'.phase # er.phase => er.phase \notin {"Running"} \cup Finished)
    BY <1>0, <1>5, RecordedPhase
  <2> QED BY <1>0, <2>1, <2>2, <2>3, RankOrder DEF PhaseInv, Reached, Finished, Runner
<1>6. CASE ObservePod
  <2> DEFINE p == cache[leader].pod
  <2>1. PICK phase \in NextPhases(rec.copy, p) :
          IF phase = rec.copy.phase
          THEN Goto(AfterStatus(p))
          ELSE rec' = [rec EXCEPT !.pc = "write", !.seen = p, !.next = phase]
    BY <1>6 DEF ObservePod
  <2>2. UNCHANGED <<er, pod, cache, leader>> /\ p.phase # "none" /\ p \in Pod
    BY <1>0, <1>6 DEF ObservePod, kube, manager
  <2>0. NotBefore(er.phase, er.phase)
    BY <1>0, RankOrder DEF Runner
  <2>3. CASE phase = rec.copy.phase
    <3>1. rec'.pc # "write"
      BY <2>1, <2>3, GotoCall DEF AfterStatus, Calls
    <3> QED BY <2>2, <3>1, PhaseKept
  <2>4. CASE phase # rec.copy.phase
    <3>1. rec'.next = phase
      BY <1>0, <2>1, <2>4 DEF Reconcile
    <3>2. CASE p.phase \notin Finished
      <4>1. phase = p.phase /\ phase \in {"Pending", "Running"}
        BY <2>2, <3>2 DEF NextPhases, Pod
      <4>2. er.exists => NotBefore(phase, er.phase)
        BY <1>0, <3>2, <4>1, RankOrder DEF PhaseInv, Reached, Runner
      <4> QED BY <1>0, <2>0, <2>2, <3>1, <4>1, <4>2 DEF PhaseInv, Reached, Finished
    <3>3. CASE p.phase \in Finished
      <4>1. phase \in Finished
        BY <3>3 DEF NextPhases, ClassifyFinishedPod, Finished
      <4>2. NotBefore(phase, er.phase)
        BY <1>0, <4>1, RankOrder DEF Runner, Finished
      <4> QED BY <1>0, <2>0, <2>2, <3>1, <3>3, <4>1, <4>2 DEF PhaseInv, Reached, Finished
    <3> QED BY <3>2, <3>3
  <2> QED BY <2>3, <2>4
<1>7. CASE WritePhase
  <2>1. rec'.pc # "write"
    BY <1>7, GotoCall DEF WritePhase, AfterStatus, Calls
  <2>2. er.exists /\ er'.exists /\ er'.phase = rec.next /\ rec.pc = "write"
    BY <1>0, <1>7 DEF WritePhase, Runner
  <2>3. UNCHANGED <<pod, cache, leader>>
    BY <1>7 DEF WritePhase
  <2>4. rec.next \in Phases /\ er.phase \in Phases
    BY <1>0 DEF Reconcile, Runner
  <2>5. NotBefore(rec.next, er.phase)
    BY <2>2 DEF PhaseInv
  <2> QED BY <2>1, <2>2, <2>3, <2>5 DEF PhaseInv, Reached
<1>8. CASE KeepRunner \/ ReconcileFails \/ RemoveFinalizer
  BY <1>8, PhaseKept, BlankTypes DEF KeepRunner, ReconcileFails, RemoveFinalizer
<1>9. CASE DeleteRunner \/ DeletionRequested
  <2>1. er'.exists => er.exists /\ er'.phase = er.phase
    BY <1>0, <1>9, BlankTypes DEF DeleteRunner, DeletionRequested, Deleted, Runner
  <2>2. rec'.pc = "none" \/ UNCHANGED rec
    BY <1>9, BlankTypes DEF DeleteRunner, DeletionRequested
  <2> QED BY <1>9, <2>1, <2>2, PhaseKept DEF DeleteRunner, DeletionRequested
<1>10. ASSUME NEW k \in Pods, Deregister(k) PROVE Forward
  BY <1>0, <1>10, PhaseKept DEF Deregister, Reconcile
<1>11. ASSUME NEW m \in Managers, SyncRunner(m) PROVE Forward
  BY <1>0, <1>11, PhaseKept DEF SyncRunner, View
<1>12. ASSUME NEW m \in Managers, SyncPod(m) PROVE Forward
  <2>1. UNCHANGED <<er, pod, leader, rec>>
    BY <1>12 DEF SyncPod
  <2>2. cache'[leader].pod \in {pod, cache[leader].pod}
    BY <1>0, <1>12 DEF SyncPod, View
  <2> QED BY <1>0, <2>1, <2>2, RankOrder DEF PhaseInv, Reached, Runner, Finished, Pod
<1>13. ASSUME NEW m \in Managers, Failover(m) PROVE Forward
  <2>1. m = leader
    BY <1>0, <1>13, RunnerAssumption DEF NoTakeover, Failover, TypeOK
  <2>2. cache'[leader'].pod = pod /\ rec'.pc = "none" /\ UNCHANGED <<er, pod>>
    BY <1>0, <1>13, <2>1, BlankTypes DEF Failover, View
  <2> QED BY <1>0, <2>2, RankOrder DEF PhaseInv, Reached, Runner, Finished, Pod
<1>14. CASE Tick
  <2>1. er'.exists = er.exists /\ er'.phase = er.phase
    BY <1>0, <1>14 DEF Tick, Aged, Runner
  <2>2. cache'[leader].pod = cache[leader].pod
    BY <1>0, <1>14 DEF Tick, View
  <2>3. rec'.pc = rec.pc /\ rec'.next = rec.next
    BY <1>0, <1>14 DEF Tick, Reconcile
  <2> QED BY <1>14, <2>1, <2>2, <2>3, PhaseKept DEF Tick
<1>15. CASE PodRuns \/ PodEnds
  <2>1. UNCHANGED <<er, cache, leader, rec>> /\ pod'.n = pod.n
    BY <1>0, <1>15 DEF PodRuns, PodEnds, Pod
  <2>2. \/ pod.phase = "Pending" /\ pod'.phase = "Running"
        \/ pod.phase \in {"Pending", "Running"} /\ pod'.phase \in Finished
    BY <1>0, <1>15 DEF PodRuns, PodEnds, Pod
  <2> QED BY <1>0, <2>1, <2>2, RankOrder DEF PhaseInv, Reached, Runner, Finished, Pod
<1>16. CASE PodVanishes \/ GarbageCollect
  <2>1. ~er.exists
    <3>1. CASE GarbageCollect
      BY <3>1 DEF GarbageCollect
    <3>2. CASE PodVanishes
      <4>1. pod.n \in 0 .. MaxPods /\ pod.n < MaxPods /\ pod.phase # "none"
        BY <1>0, <3>2 DEF PodVanishes, Pod
      <4> QED BY <4>1 DEF PhaseInv
    <3> QED BY <1>16, <3>1, <3>2
  <2> QED BY <1>16, <2>1, PhaseKept DEF PodVanishes, GarbageCollect
<1>17. ASSUME NEW k \in Pods,
              PodRegisters(k) \/ JobClaimed(k) \/ JobHangs(k) \/ JobEnds(k) \/ JobReaped(k)
       PROVE  Forward
  BY <1>17, PhaseKept DEF PodRegisters, JobClaimed, JobHangs, JobEnds, JobReaped
<1>18. CASE UNCHANGED vars
  BY <1>18, PhaseKept DEF vars
<1> QED
  BY <1>1, <1>2, <1>3, <1>4, <1>5, <1>6, <1>7, <1>8, <1>9, <1>10, <1>11, <1>12, <1>13,
     <1>14, <1>15, <1>16, <1>17, <1>18 DEF Next, Reconciling, Managing, World

\* A runner's phase keeps to the order of its pod's, unless the pod is replaced or
\* another manager takes over with an older cache.
THEOREM PhaseCorrect ==
    ASSUME MaxPods = 1, NoTakeover
    PROVE  Spec => []PhaseInv
<1>1. Init => PhaseInv
  <2> SUFFICES ASSUME Init PROVE PhaseInv
    OBVIOUS
  <2>1. er.phase \notin {"Running"} \cup Finished /\ rec.pc = "none" /\ pod.n = 0 /\ pod.phase = "none"
    <3>1. NoRunner.phase = "" /\ "" \notin {"Running"} \cup Finished /\ NoPod.n = 0
      BY Zenon DEF NoRunner, NoPod, Finished
    <3>2. er.phase = NoRunner.phase
      BY BlankTypes DEF Init, Runner
    <3> QED BY <3>1, <3>2, BlankTypes DEF Init
  <2>2. cache[leader].pod.phase = "none"
    BY BlankTypes DEF Init
  <2> QED BY <2>1, <2>2 DEF PhaseInv, Reached, Finished
<1>2. TypeOK /\ TypeOK' /\ PhaseInv /\ [Next]_vars => PhaseInv'
  BY PhaseSteps
<1> QED BY <1>1, <1>2, TypeCorrect, PTL DEF Spec

\* The phase moves forward only, however late the cache is
\* (updateRunnerStatusFromPod, ephemeralrunner_controller.go:936-1032).
THEOREM PhasesForward ==
    ASSUME MaxPods = 1, NoTakeover
    PROVE  Spec => PhaseForward
<1>1. TypeOK /\ TypeOK' /\ PhaseInv /\ [Next]_vars =>
         [er.exists /\ er'.exists => Rank(er'.phase) >= Rank(er.phase)]_vars
  BY PhaseSteps DEF NotBefore
<1> QED BY <1>1, PhaseCorrect, TypeCorrect, PTL DEF Spec, PhaseForward

-----------------------------------------------------------------------------
(* The count of starts, for a runner whose pods may be replaced.            *)

\* The leader's cached copy of the pod.
SeenPod == cache[leader].pod

\* The cache shows the pods in their order, each in the order of its phases; a pod it
\* shows Pending is not counted yet, and one it shows Running is counted only if the
\* runner is recorded as Running; and a write that is decided on is for the pod that
\* there is.
StartsInv ==
    /\ SeenPod.n <= pod.n /\ (SeenPod.n < pod.n => SeenPod.phase = "none")
    /\ SeenPod.n = pod.n =>
        /\ pod.phase = "Pending" => SeenPod.phase = "Pending"
        /\ pod.phase = "Running" => SeenPod.phase \in {"Pending", "Running"}
    /\ started <= SeenPod.n
    /\ SeenPod.phase = "Pending" => started < SeenPod.n
    /\ SeenPod.phase = "Running" /\ er.exists => started < SeenPod.n \/ er.phase = "Running"
    /\ rec.pc = "write" =>
        /\ SeenPod.n = pod.n
        /\ rec.next = "Pending" => started < SeenPod.n
        /\ rec.next = "Running" =>
              SeenPod.phase # "Pending" /\ (er.exists => started < SeenPod.n \/ er.phase = "Running")
        /\ rec.next \in Finished => SeenPod.phase \notin {"Pending", "Running"}
        /\ rec.next \in {"Pending", "Running"} \cup Finished

\* A step keeps the invariant when it leaves alone the count, the pod and what is seen
\* of it, and does not take the runner out of Running.
LEMMA StartsKept ==
    ASSUME TypeOK, StartsInv, started' = started, pod' = pod, SeenPod' = SeenPod,
           er'.exists => er.exists /\ (er.phase = "Running" => er'.phase = "Running"),
           rec'.pc = "write" => rec.pc = "write" /\ rec'.next = rec.next
    PROVE  StartsInv'
BY DEF StartsInv

\* So does one that brings the cached pod up to date.
LEMMA StartsSeen ==
    ASSUME TypeOK, StartsInv, SeenPod' = pod, UNCHANGED <<er, pod, started>>,
           rec'.pc = "write" => rec.pc = "write" /\ rec'.next = rec.next
    PROVE  StartsInv'
<1>1. /\ pod.n \in Nat /\ SeenPod.n \in Nat /\ started \in Nat
  BY RunnerAssumption DEF TypeOK, View, Pod, SeenPod
<1> QED BY <1>1 DEF StartsInv

\* No step counts a pod twice.
LEMMA StartsSteps ==
    ASSUME NoTakeover, TypeOK, TypeOK', StartsInv, [Next]_vars
    PROVE  StartsInv'
<1>0. /\ er \in Runner /\ er' \in Runner /\ rec \in Reconcile /\ pod \in Pod /\ pod' \in Pod
      /\ leader \in Managers /\ cache \in [Managers -> View] /\ SeenPod \in Pod
      /\ started \in Nat /\ pod.n \in Nat /\ SeenPod.n \in Nat
  BY RunnerAssumption DEF TypeOK, View, Pod, SeenPod
<1>1. CASE StartReconcile \/ ReadProgress \/ ListRegistrations
  <2>1. rec'.pc # "write"
    <3>1. CASE ListRegistrations
      BY <3>1, ListedPage
    <3> QED BY <1>0, <1>1, <3>1, BlankTypes DEF StartReconcile, ReadProgress, Reconcile
  <2>2. UNCHANGED <<kube, manager, started>>
    BY <1>1 DEF StartReconcile, ReadProgress, ListRegistrations
  <2> QED BY <2>1, <2>2, StartsKept DEF SeenPod
<1>2. CASE AddFinalizer \/ Heartbeat
  <2>1. er'.phase = er.phase /\ er'.exists = er.exists
    BY <1>0, <1>2 DEF AddFinalizer, Heartbeat, Runner
  <2>2. rec'.pc # "write"
    BY <1>0, <1>2, BlankTypes DEF AddFinalizer, Heartbeat, Reconcile
  <2> QED BY <1>2, <2>1, <2>2, StartsKept DEF AddFinalizer, Heartbeat, SeenPod
<1>3. CASE EnsureSecret \/ CreateRejected \/ TimeOutRunner \/ WritePhaseFails
  <2>1. rec'.pc # "write"
    BY <1>3, GotoCall DEF EnsureSecret, CreateRejected, TimeOutRunner, WritePhaseFails,
       AfterStatus, Calls
  <2> QED
    BY <1>3, <2>1, StartsKept DEF EnsureSecret, CreateRejected, TimeOutRunner,
       WritePhaseFails, SeenPod
<1>4. CASE CreatePod
  <2>1. rec'.pc # "write"
    BY <1>4, GotoCall DEF CreatePod, Calls
  <2>2. pod'.n = pod.n + 1 /\ SeenPod.phase = "none"
    BY <1>0, <1>4 DEF CreatePod, SeenPod
  <2>3. SeenPod' = SeenPod /\ UNCHANGED <<er, started>>
    BY <1>4 DEF CreatePod, SeenPod
  <2> QED BY <1>0, <2>1, <2>2, <2>3 DEF StartsInv
<1>5. CASE RecordCreation \/ RecordRejection
  <2>1. rec'.pc # "write"
    BY <1>5, BlankTypes, GotoCall DEF RecordCreation, RecordRejection, Calls
  <2>2. SeenPod' = SeenPod /\ UNCHANGED <<pod, started>>
    BY <1>5 DEF RecordCreation, RecordRejection, SeenPod
  <2>3. er'.exists = er.exists /\ (er.phase = "Running" => er'.phase = "Running")
    BY <1>0, <1>5, RecordedPhase
  <2> QED BY <2>1, <2>2, <2>3, StartsKept
<1>6. CASE ObservePod
  <2>1. PICK phase \in NextPhases(rec.copy, SeenPod) :
          IF phase = rec.copy.phase
          THEN Goto(AfterStatus(SeenPod))
          ELSE rec' = [rec EXCEPT !.pc = "write", !.seen = SeenPod, !.next = phase]
    BY <1>6 DEF ObservePod, SeenPod
  <2>2. UNCHANGED <<er, pod, started>> /\ SeenPod' = SeenPod /\ SeenPod.phase # "none"
    BY <1>6 DEF ObservePod, SeenPod, kube, manager, counts
  <2>3. CASE phase = rec.copy.phase
    <3>1. rec'.pc # "write"
      BY <2>1, <2>3, GotoCall DEF AfterStatus, Calls
    <3> QED BY <2>2, <3>1, StartsKept
  <2>4. CASE phase # rec.copy.phase
    <3>1. rec'.next = phase
      BY <1>0, <2>1, <2>4 DEF Reconcile
    <3>2. CASE SeenPod.phase \notin Finished
      <4>1. phase = SeenPod.phase /\ phase \in {"Pending", "Running"}
        BY <1>0, <2>2, <3>2 DEF NextPhases, Pod
      <4> QED BY <1>0, <2>2, <3>1, <4>1 DEF StartsInv, Finished
    <3>3. CASE SeenPod.phase \in Finished
      <4>1. phase \in Finished
        BY <3>3 DEF NextPhases, ClassifyFinishedPod, Finished
      <4> QED BY <1>0, <2>2, <3>1, <3>3, <4>1 DEF StartsInv, Finished
    <3> QED BY <3>2, <3>3
  <2> QED BY <2>3, <2>4
<1>7. CASE WritePhase
  <2>1. rec'.pc # "write"
    BY <1>7, GotoCall DEF WritePhase, AfterStatus, Calls
  <2>2. er.exists /\ er'.phase = rec.next /\ rec.pc = "write"
    BY <1>0, <1>7 DEF WritePhase, Runner
  <2>3. SeenPod' = SeenPod /\ pod' = pod
    BY <1>7 DEF WritePhase, SeenPod
  <2>4. CASE er.phase # rec.next /\ rec.next = "Running"
    <3>1. started < SeenPod.n /\ SeenPod.phase # "Pending"
      BY <2>2, <2>4 DEF StartsInv
    <3>2. started' \in {started, started + 1}
      BY <1>7, <2>4 DEF WritePhase, Count
    <3> QED BY <1>0, <2>1, <2>2, <2>3, <2>4, <3>1, <3>2 DEF StartsInv
  <2>5. CASE ~(er.phase # rec.next /\ rec.next = "Running")
    <3>1. started' = started
      BY <1>7, <2>5 DEF WritePhase
    <3>2. SeenPod.phase = "Running" => started < SeenPod.n \/ er'.phase = "Running"
      BY <2>2, <2>5 DEF StartsInv
    <3> QED BY <2>1, <2>3, <3>1, <3>2 DEF StartsInv
  <2> QED BY <2>4, <2>5
<1>8. CASE KeepRunner \/ ReconcileFails \/ RemoveFinalizer
  BY <1>8, StartsKept, BlankTypes DEF KeepRunner, ReconcileFails, RemoveFinalizer, SeenPod
<1>9. CASE DeleteRunner \/ DeletionRequested
  <2>1. er'.exists => er.exists /\ er'.phase = er.phase
    BY <1>0, <1>9, BlankTypes DEF DeleteRunner, DeletionRequested, Deleted, Runner
  <2>2. rec'.pc = "none" \/ UNCHANGED rec
    BY <1>9, BlankTypes DEF DeleteRunner, DeletionRequested
  <2> QED BY <1>9, <2>1, <2>2, StartsKept DEF DeleteRunner, DeletionRequested, SeenPod
<1>10. ASSUME NEW k \in Pods, Deregister(k) PROVE StartsInv'
  BY <1>0, <1>10, StartsKept DEF Deregister, Reconcile, SeenPod
<1>11. ASSUME NEW m \in Managers, SyncRunner(m) PROVE StartsInv'
  <2>1. SeenPod' = SeenPod
    BY <1>0, <1>11 DEF SyncRunner, View, SeenPod
  <2> QED BY <1>11, <2>1, StartsKept DEF SyncRunner
<1>12. ASSUME NEW m \in Managers, SyncPod(m) PROVE StartsInv'
  <2>1. UNCHANGED <<er, pod, rec, started>> /\ SeenPod' \in {pod, SeenPod}
    BY <1>0, <1>12 DEF SyncPod, View, SeenPod
  <2> QED BY <2>1, StartsKept, StartsSeen
<1>13. ASSUME NEW m \in Managers, Failover(m) PROVE StartsInv'
  <2>1. m = leader
    BY <1>0, <1>13, RunnerAssumption DEF NoTakeover, Failover, TypeOK
  <2>2. SeenPod' = pod /\ rec'.pc = "none" /\ UNCHANGED <<er, pod, started>>
    BY <1>0, <1>13, <2>1, BlankTypes DEF Failover, View, SeenPod
  <2> QED BY <2>2, StartsSeen
<1>14. CASE Tick
  <2>1. er'.exists = er.exists /\ er'.phase = er.phase
    BY <1>0, <1>14 DEF Tick, Aged, Runner
  <2>2. SeenPod' = SeenPod
    BY <1>0, <1>14 DEF Tick, View, SeenPod
  <2>3. rec'.pc = rec.pc /\ rec'.next = rec.next
    BY <1>0, <1>14 DEF Tick, Reconcile
  <2> QED BY <1>14, <2>1, <2>2, <2>3, StartsKept DEF Tick
<1>15. CASE PodRuns \/ PodEnds \/ PodVanishes \/ GarbageCollect
  <2>1. UNCHANGED <<er, rec, started>> /\ SeenPod' = SeenPod /\ pod'.n = pod.n
    BY <1>0, <1>15, BlankTypes DEF PodRuns, PodEnds, PodVanishes, GarbageCollect, SeenPod, Pod
  <2>2. \/ pod.phase = "Pending" /\ pod'.phase = "Running"
        \/ pod'.phase \in Finished \cup {"none"}
    BY <1>0, <1>15, BlankTypes DEF PodRuns, PodEnds, PodVanishes, GarbageCollect, Pod
  <2> QED BY <1>0, <2>1, <2>2 DEF StartsInv, Finished
<1>16. ASSUME NEW k \in Pods,
              PodRegisters(k) \/ JobClaimed(k) \/ JobHangs(k) \/ JobEnds(k) \/ JobReaped(k)
       PROVE  StartsInv'
  BY <1>16, StartsKept DEF PodRegisters, JobClaimed, JobHangs, JobEnds, JobReaped, SeenPod
<1>17. CASE UNCHANGED vars
  BY <1>17, StartsKept DEF vars, SeenPod
<1> QED
  BY <1>1, <1>2, <1>3, <1>4, <1>5, <1>6, <1>7, <1>8, <1>9, <1>10, <1>11, <1>12, <1>13,
     <1>14, <1>15, <1>16, <1>17 DEF Next, Reconciling, Managing, World

\* Without a takeover the count of starts follows the pods, in the cache's order.
THEOREM StartsCorrect ==
    ASSUME NoTakeover
    PROVE  Spec => []StartsInv
<1>1. Init => StartsInv
  <2> SUFFICES ASSUME Init PROVE StartsInv
    OBVIOUS
  <2>1. started = 0 /\ rec.pc = "none" /\ pod = NoPod /\ SeenPod = NoPod
    BY BlankTypes DEF Init, SeenPod
  <2>2. pod.n = 0 /\ pod.phase = "none"
    BY <2>1 DEF NoPod
  <2> QED BY <2>1, <2>2 DEF StartsInv
<1>2. TypeOK /\ TypeOK' /\ StartsInv /\ [Next]_vars => StartsInv'
  BY StartsSteps
<1> QED BY <1>1, <1>2, TypeCorrect, PTL DEF Spec

\* No pod of a runner is counted as started twice (docs/adr/0010:96-98), whatever
\* conflicts, failed calls, restarts and stale copies there are.
THEOREM StartsPerPod ==
    ASSUME NoTakeover
    PROVE  Spec => []StartedOncePerPod
<1>1. TypeOK /\ StartsInv => StartedOncePerPod
  <2> SUFFICES ASSUME TypeOK, StartsInv PROVE StartedOncePerPod
    OBVIOUS
  <2>1. pod.n \in Nat /\ SeenPod.n \in Nat /\ started \in Nat
    BY RunnerAssumption DEF TypeOK, View, Pod, SeenPod
  <2> QED BY <2>1 DEF StartsInv, StartedOncePerPod
<1> QED BY <1>1, StartsCorrect, TypeCorrect, PTL

\* So the runner itself is counted as started once unless its pod is replaced.
THEOREM StartCountedOnce ==
    ASSUME MaxPods = 1, NoTakeover
    PROVE  Spec => []StartedOnce
<1>1. TypeOK /\ StartedOncePerPod => StartedOnce
  BY RunnerAssumption DEF TypeOK, Pod, StartedOncePerPod, StartedOnce
<1> QED BY <1>1, StartsPerPod, TypeCorrect, PTL
=============================================================================
