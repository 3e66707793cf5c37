------------------------ MODULE WorkflowEngineProofs ------------------------
(***************************************************************************)
(* Proofs, for any finite number of runs, any limit and any time to live,  *)
(* of the safety properties of PipelineExecutor.                           *)
(*                                                                         *)
(* The invariants about the job registry are not inductive alone: a run's  *)
(* entry stays right because of where the run can be in its life, which    *)
(* RunOK says for one run.  PermitsConserved counts the runs that hold a   *)
(* permit; three lemmas say how one step changes that number.              *)
(***************************************************************************)
EXTENDS WorkflowEngine, FiniteSetTheorems, TLAPS

\* What a run's start, its task, its registration, its event and its entry have
\* to do with each other.
RunOK(r) ==
    /\ kind[r] = "none" =>
          task[r] = "idle" /\ emitted[r] = "none" /\ jobs[r].status = "absent"
    /\ task[r] = "idle" => kind[r] = "none"
    /\ kind[r] # "spawn" => register[r] = "none" /\ task[r] # "build"
    /\ kind[r] = "sync" => task[r] \notin {"record", "emit"}
    /\ jobs[r].status # "absent" => jobs[r].created_at = created[r]
    /\ emitted[r] # "none" => task[r] = "done" /\ emitted[r] = StatusOf(outcome[r])

IInv ==
    /\ TypeOK
    /\ PermitsConserved
    /\ JobReflectsRun
    /\ JobKeptForItsTtl
    /\ \A r \in Runs : RunOK(r)

-----------------------------------------------------------------------------
(* Counting the holders of permits *)

\* The runs past `semaphore.acquire()` are finitely many.
LEMMA HoldersFinite == IsFiniteSet(Holders) /\ Cardinality(Holders) \in Nat
<1>1. Holders \in SUBSET Runs
  BY DEF Holders
<1>2. IsFiniteSet(Holders)
  BY <1>1, FS_Subset, ExecutorAssumption
<1> QED
  BY <1>2, FS_CardinalityType

\* A task that gets a permit adds one holder.
LEMMA HolderJoins ==
    ASSUME TypeOK, NEW r \in Runs, NEW s \in PermitStates,
           task[r] \notin PermitStates, task' = [task EXCEPT ![r] = s]
    PROVE  Cardinality(Holders') = Cardinality(Holders) + 1
<1>1. Holders' = Holders \cup {r}
  BY DEF Holders, TypeOK
<1>2. r \notin Holders
  BY DEF Holders
<1> QED
  BY <1>1, <1>2, HoldersFinite, FS_AddElement, ZenonT(60)

\* A task that drops its permit takes one holder away.
LEMMA HolderLeaves ==
    ASSUME TypeOK, NEW r \in Runs, NEW s, s \notin PermitStates,
           task[r] \in PermitStates, task' = [task EXCEPT ![r] = s]
    PROVE  Cardinality(Holders') = Cardinality(Holders) - 1
<1>1. Holders' = Holders \ {r}
  BY DEF Holders, TypeOK
<1>2. r \in Holders
  BY DEF Holders
<1> QED
  BY <1>1, <1>2, HoldersFinite, FS_RemoveElement, ZenonT(60)

\* Any other step of a task leaves the holders as they are.
LEMMA HoldersStay ==
    ASSUME TypeOK, NEW r \in Runs, NEW s, s \in PermitStates <=> task[r] \in PermitStates,
           task' = [task EXCEPT ![r] = s]
    PROVE  Holders' = Holders
BY DEF Holders, TypeOK

-----------------------------------------------------------------------------
(* The initial state and the steps that start a run *)

\* The invariant holds of an executor that has just been built.
LEMMA InitIInv == Init => IInv
<1> SUFFICES ASSUME Init PROVE IInv
  OBVIOUS
<1>1. TypeOK
  BY ExecutorAssumption DEF Init, TypeOK, Kinds, TaskStates, JobEntry, JobStatus, Absent
<1>2. Holders = {}
  BY DEF Init, Holders, PermitStates
<1>3. PermitsConserved
  BY <1>2, FS_EmptySet, ExecutorAssumption DEF Init, PermitsConserved
<1>4. JobReflectsRun /\ JobKeptForItsTtl /\ \A r \in Runs : RunOK(r)
  BY DEF Init, JobReflectsRun, JobKeptForItsTtl, RunOK, Absent, Terminal
<1> QED
  BY <1>1, <1>3, <1>4 DEF IInv

\* execute_sync keeps the invariant.
LEMMA ExecuteSyncKeeps ==
    ASSUME IInv, NEW r \in Runs, ExecuteSync(r)
    PROVE  IInv'
<1> USE DEF ExecuteSync
<1>0. TypeOK /\ RunOK(r)
  BY DEF IInv
<1>1. TypeOK'
  BY <1>0 DEF TypeOK, Kinds, TaskStates
<1>2. PermitsConserved'
  <2>1. task[r] = "idle"
    BY <1>0 DEF RunOK
  <2>2. Holders' = Holders
    BY <1>0, <2>1, HoldersStay, ZenonT(60) DEF PermitStates
  <2> QED
    BY <2>2 DEF IInv, PermitsConserved
<1>3. JobReflectsRun'
  BY <1>0 DEF IInv, JobReflectsRun, RunOK, TypeOK, Terminal
<1>4. JobKeptForItsTtl'
  BY <1>0 DEF IInv, JobKeptForItsTtl, RunOK, TypeOK
<1>5. \A q \in Runs : RunOK(q)'
  BY <1>0 DEF IInv, RunOK, TypeOK
<1> QED
  BY <1>1, <1>2, <1>3, <1>4, <1>5 DEF IInv

\* execute_async keeps the invariant: the entry is there before the task is.
LEMMA ExecuteAsyncKeeps ==
    ASSUME IInv, NEW r \in Runs, ExecuteAsync(r)
    PROVE  IInv'
<1> USE DEF ExecuteAsync, Entry
<1>0. TypeOK /\ RunOK(r)
  BY DEF IInv
<1>1. TypeOK'
  BY <1>0 DEF TypeOK, Kinds, TaskStates, JobEntry, JobStatus
<1>2. PermitsConserved'
  <2>1. task[r] = "idle"
    BY <1>0 DEF RunOK
  <2>2. Holders' = Holders
    BY <1>0, <2>1, HoldersStay, ZenonT(60) DEF PermitStates
  <2> QED
    BY <2>2 DEF IInv, PermitsConserved
<1>3. JobReflectsRun'
  BY <1>0 DEF IInv, JobReflectsRun, RunOK, TypeOK, Terminal
<1>4. JobKeptForItsTtl'
  BY <1>0 DEF IInv, JobKeptForItsTtl, RunOK, TypeOK
<1>5. \A q \in Runs : RunOK(q)'
  BY <1>0 DEF IInv, RunOK, TypeOK
<1> QED
  BY <1>1, <1>2, <1>3, <1>4, <1>5 DEF IInv

\* spawn keeps the invariant.
LEMMA SpawnKeeps ==
    ASSUME IInv, NEW r \in Runs, Spawn(r)
    PROVE  IInv'
<1> USE DEF Spawn
<1>0. TypeOK /\ RunOK(r)
  BY DEF IInv
<1>1. TypeOK'
  BY <1>0 DEF TypeOK, Kinds, TaskStates
<1>2. PermitsConserved'
  <2>1. Holders' = Holders
    BY <1>0, HoldersStay, ZenonT(60) DEF RunOK, PermitStates
  <2> QED
    BY <2>1 DEF IInv, PermitsConserved
<1>3. JobReflectsRun'
  BY <1>0 DEF IInv, JobReflectsRun, RunOK, TypeOK, Terminal
<1>4. JobKeptForItsTtl'
  BY <1>0 DEF IInv, JobKeptForItsTtl, RunOK, TypeOK
<1>5. \A q \in Runs : RunOK(q)'
  BY <1>0 DEF IInv, RunOK, TypeOK
<1> QED
  BY <1>1, <1>2, <1>3, <1>4, <1>5 DEF IInv

\* The registration that spawn starts keeps the invariant.
LEMMA RegisterSpawnedKeeps ==
    ASSUME IInv, NEW r \in Runs, RegisterSpawned(r)
    PROVE  IInv'
<1> USE DEF RegisterSpawned, Entry
<1>0. TypeOK /\ RunOK(r)
  BY DEF IInv
<1>1. TypeOK'
  BY <1>0 DEF TypeOK, JobEntry, JobStatus
<1>2. PermitsConserved'
  BY DEF IInv, PermitsConserved, Holders
<1>3. JobReflectsRun'
  BY <1>0 DEF IInv, JobReflectsRun, RunOK, TypeOK, Terminal
<1>4. JobKeptForItsTtl'
  BY <1>0 DEF IInv, JobKeptForItsTtl, RunOK, TypeOK
<1>5. \A q \in Runs : RunOK(q)'
  BY <1>0 DEF IInv, RunOK, TypeOK
<1> QED
  BY <1>1, <1>2, <1>3, <1>4, <1>5 DEF IInv

-----------------------------------------------------------------------------
(* The steps of a run *)

\* A permit is taken from the semaphore by the task that becomes a holder.
LEMMA AcquirePermitKeeps ==
    ASSUME IInv, NEW r \in Runs, AcquirePermit(r)
    PROVE  IInv'
<1> USE DEF AcquirePermit
<1>0. TypeOK /\ RunOK(r)
  BY DEF IInv
<1>1. TypeOK'
  BY <1>0 DEF TypeOK, TaskStates
<1>2. PermitsConserved'
  <2>1. Cardinality(Holders') = Cardinality(Holders) + 1
    <3> DEFINE s == IF kind[r] = "spawn" THEN "build" ELSE "steps"
    <3>1. s \in PermitStates /\ task[r] \notin PermitStates
      BY DEF PermitStates
    <3>2. task' = [task EXCEPT ![r] = s]
      OBVIOUS
    <3> QED
      BY <1>0, <3>1, <3>2, HolderJoins, ZenonT(60)
  <2> QED
    BY <2>1, HoldersFinite, ExecutorAssumption DEF IInv, PermitsConserved
<1>3. JobReflectsRun'
  BY <1>0 DEF IInv, JobReflectsRun, RunOK, TypeOK, Terminal
<1>4. JobKeptForItsTtl'
  BY <1>0 DEF IInv, JobKeptForItsTtl, RunOK, TypeOK
<1>5. \A q \in Runs : RunOK(q)'
  BY <1>0 DEF IInv, RunOK, TypeOK
<1> QED
  BY <1>1, <1>2, <1>3, <1>4, <1>5 DEF IInv

\* Building the initial message, or failing to, keeps the invariant.
LEMMA BuildInitialMessageKeeps ==
    ASSUME IInv, NEW r \in Runs, BuildInitialMessage(r)
    PROVE  IInv'
<1> USE DEF BuildInitialMessage
<1>0. TypeOK /\ RunOK(r)
  BY DEF IInv
<1>1. TypeOK'
  BY <1>0 DEF TypeOK, TaskStates
<1>2. PermitsConserved'
  <2>1. Holders' = Holders
    <3>1. CASE task' = [task EXCEPT ![r] = "steps"]
      BY <1>0, <3>1, HoldersStay, ZenonT(60) DEF PermitStates
    <3>2. CASE task' = [task EXCEPT ![r] = "record"]
      BY <1>0, <3>2, HoldersStay, ZenonT(60) DEF PermitStates
    <3> QED
      BY <3>1, <3>2
  <2> QED
    BY <2>1 DEF IInv, PermitsConserved
<1>3. JobReflectsRun'
  BY <1>0 DEF IInv, JobReflectsRun, RunOK, TypeOK, Terminal
<1>4. JobKeptForItsTtl'
  BY <1>0 DEF IInv, JobKeptForItsTtl, RunOK, TypeOK
<1>5. \A q \in Runs : RunOK(q)'
  BY <1>0 DEF IInv, RunOK, TypeOK
<1> QED
  BY <1>1, <1>2, <1>3, <1>4, <1>5 DEF IInv

\* The return of run_steps keeps the invariant.
LEMMA FinishStepsKeeps ==
    ASSUME IInv, NEW r \in Runs, NEW result \in {"ok", "err"}, FinishSteps(r, result)
    PROVE  IInv'
<1> USE DEF FinishSteps
<1>0. TypeOK /\ RunOK(r)
  BY DEF IInv
<1>1. TypeOK'
  BY <1>0 DEF TypeOK, TaskStates
<1>2. PermitsConserved'
  <2>1. CASE kind[r] = "sync"
    <3>1. Cardinality(Holders') = Cardinality(Holders) - 1
      BY <1>0, <2>1, HolderLeaves DEF PermitStates
    <3> QED
      BY <2>1, <3>1, HoldersFinite, ExecutorAssumption DEF IInv, PermitsConserved
  <2>2. CASE kind[r] # "sync"
    <3>1. Holders' = Holders
      BY <1>0, <2>2, HoldersStay DEF PermitStates
    <3> QED
      BY <2>2, <3>1 DEF IInv, PermitsConserved
  <2> QED
    BY <2>1, <2>2
<1>3. JobReflectsRun'
  BY <1>0 DEF IInv, JobReflectsRun, RunOK, TypeOK, Terminal
<1>4. JobKeptForItsTtl'
  BY <1>0 DEF IInv, JobKeptForItsTtl, RunOK, TypeOK
<1>5. \A q \in Runs : RunOK(q)'
  BY <1>0 DEF IInv, RunOK, TypeOK
<1> QED
  BY <1>1, <1>2, <1>3, <1>4, <1>5 DEF IInv

\* A panic gives the permit back and leaves the entry as it was.
LEMMA PanicInStepsKeeps ==
    ASSUME IInv, NEW r \in Runs, PanicInSteps(r)
    PROVE  IInv'
<1> USE DEF PanicInSteps
<1>0. TypeOK /\ RunOK(r)
  BY DEF IInv
<1>1. TypeOK'
  BY <1>0 DEF TypeOK, TaskStates
<1>2. PermitsConserved'
  <2>1. Cardinality(Holders') = Cardinality(Holders) - 1
    BY <1>0, HolderLeaves, ZenonT(60) DEF PermitStates
  <2> QED
    BY <2>1, HoldersFinite, ExecutorAssumption DEF IInv, PermitsConserved
<1>3. JobReflectsRun'
  BY <1>0 DEF IInv, JobReflectsRun, RunOK, TypeOK, Terminal
<1>4. JobKeptForItsTtl'
  BY <1>0 DEF IInv, JobKeptForItsTtl, RunOK, TypeOK
<1>5. \A q \in Runs : RunOK(q)'
  BY <1>0 DEF IInv, RunOK, TypeOK
<1> QED
  BY <1>1, <1>2, <1>3, <1>4, <1>5 DEF IInv

\* A synchronous caller that goes away gives back the permit it holds, if any.
LEMMA DropCallerKeeps ==
    ASSUME IInv, NEW r \in Runs, DropCaller(r)
    PROVE  IInv'
<1> USE DEF DropCaller
<1>0. TypeOK /\ RunOK(r)
  BY DEF IInv
<1>1. TypeOK'
  BY <1>0 DEF TypeOK, TaskStates
<1>2. PermitsConserved'
  <2>1. CASE task[r] = "steps"
    <3>1. Cardinality(Holders') = Cardinality(Holders) - 1
      BY <1>0, <2>1, HolderLeaves, ZenonT(60) DEF PermitStates
    <3> QED
      BY <2>1, <3>1, HoldersFinite, ExecutorAssumption DEF IInv, PermitsConserved
  <2>2. CASE task[r] = "acquire"
    <3>1. Holders' = Holders
      BY <1>0, <2>2, HoldersStay, ZenonT(60) DEF PermitStates
    <3> QED
      BY <2>2, <3>1 DEF IInv, PermitsConserved
  <2> QED
    BY <2>1, <2>2
<1>3. JobReflectsRun'
  BY <1>0 DEF IInv, JobReflectsRun, RunOK, TypeOK, Terminal
<1>4. JobKeptForItsTtl'
  BY <1>0 DEF IInv, JobKeptForItsTtl, RunOK, TypeOK
<1>5. \A q \in Runs : RunOK(q)'
  BY <1>0 DEF IInv, RunOK, TypeOK
<1> QED
  BY <1>1, <1>2, <1>3, <1>4, <1>5 DEF IInv

\* Recording the result keeps the invariant.
LEMMA RecordOutcomeKeeps ==
    ASSUME IInv, NEW r \in Runs, RecordOutcome(r)
    PROVE  IInv'
<1> USE DEF RecordOutcome, Entry, StatusOf
<1>0. TypeOK /\ RunOK(r)
  BY DEF IInv
<1>1. TypeOK'
  BY <1>0 DEF TypeOK, JobEntry, JobStatus, TaskStates
<1>2. PermitsConserved'
  <2>1. Holders' = Holders
    BY <1>0, HoldersStay, ZenonT(60) DEF RunOK, PermitStates
  <2> QED
    BY <2>1 DEF IInv, PermitsConserved
<1>3. JobReflectsRun'
  BY <1>0 DEF IInv, JobReflectsRun, RunOK, TypeOK, Terminal
<1>4. JobKeptForItsTtl'
  BY <1>0 DEF IInv, JobKeptForItsTtl, RunOK, TypeOK
<1>5. \A q \in Runs : RunOK(q)'
  BY <1>0 DEF IInv, RunOK, TypeOK
<1> QED
  BY <1>1, <1>2, <1>3, <1>4, <1>5 DEF IInv

\* The event is the recorded result, and the task ends with its permit.
LEMMA EmitOutcomeKeeps ==
    ASSUME IInv, NEW r \in Runs, EmitOutcome(r)
    PROVE  IInv'
<1> USE DEF EmitOutcome, StatusOf
<1>0. TypeOK /\ RunOK(r)
  BY DEF IInv
<1>1. TypeOK'
  BY <1>0 DEF TypeOK, TaskStates, Terminal
<1>2. PermitsConserved'
  <2>1. Cardinality(Holders') = Cardinality(Holders) - 1
    BY <1>0, HolderLeaves, ZenonT(60) DEF PermitStates
  <2> QED
    BY <2>1, HoldersFinite, ExecutorAssumption DEF IInv, PermitsConserved
<1>3. JobReflectsRun'
  BY <1>0 DEF IInv, JobReflectsRun, RunOK, TypeOK, Terminal
<1>4. JobKeptForItsTtl'
  BY <1>0 DEF IInv, JobKeptForItsTtl, RunOK, TypeOK
<1>5. \A q \in Runs : RunOK(q)'
  BY <1>0 DEF IInv, RunOK, TypeOK
<1> QED
  BY <1>1, <1>2, <1>3, <1>4, <1>5 DEF IInv

-----------------------------------------------------------------------------
(* Clean-up, the clock, and the theorems *)

\* Clean-up drops an entry only when its time to live has passed.
LEMMA CleanupExpiredJobsKeeps ==
    ASSUME IInv, CleanupExpiredJobs
    PROVE  IInv'
<1> USE DEF CleanupExpiredJobs, Expired, Absent
<1>0. TypeOK
  BY DEF IInv
<1>1. TypeOK'
  BY <1>0 DEF TypeOK, JobEntry, JobStatus
<1>2. PermitsConserved'
  BY DEF IInv, PermitsConserved, Holders
<1>3. JobReflectsRun'
  BY <1>0 DEF IInv, JobReflectsRun, TypeOK, Terminal
<1>4. JobKeptForItsTtl'
  <2> SUFFICES ASSUME NEW q \in Runs, kind[q] = "async", clock - created[q] < Ttl
               PROVE  jobs'[q].status # "absent"
    BY DEF JobKeptForItsTtl
  <2>1. jobs[q].status # "absent" /\ jobs[q].created_at = created[q]
    BY DEF IInv, JobKeptForItsTtl, RunOK
  <2>2. ~(clock - created[q] >= Ttl)
    BY <1>0, ExecutorAssumption DEF TypeOK
  <2>3. jobs'[q] = jobs[q]
    BY <2>1, <2>2
  <2> QED
    BY <2>1, <2>3
<1>5. \A q \in Runs : RunOK(q)'
  BY <1>0 DEF IInv, RunOK, TypeOK
<1> QED
  BY <1>1, <1>2, <1>3, <1>4, <1>5 DEF IInv

\* Time passing keeps the invariant.
LEMMA TickKeeps ==
    ASSUME IInv, Tick
    PROVE  IInv'
<1> USE DEF Tick
<1>0. TypeOK
  BY DEF IInv
<1>1. TypeOK'
  BY <1>0 DEF TypeOK
<1>2. PermitsConserved' /\ JobReflectsRun' /\ \A q \in Runs : RunOK(q)'
  BY DEF IInv, PermitsConserved, Holders, JobReflectsRun, RunOK
<1>3. JobKeptForItsTtl'
  BY <1>0, ExecutorAssumption DEF IInv, JobKeptForItsTtl, TypeOK
<1> QED
  BY <1>1, <1>2, <1>3 DEF IInv

\* Every step of the executor keeps the invariant.
LEMMA NextIInv == IInv /\ [Next]_vars => IInv'
<1> SUFFICES ASSUME IInv, [Next]_vars PROVE IInv'
  OBVIOUS
<1>1. CASE UNCHANGED vars
  BY <1>1 DEF vars, IInv, TypeOK, PermitsConserved, Holders, JobReflectsRun,
              JobKeptForItsTtl, RunOK
<1>2. ASSUME NEW r \in Runs, RunStep(r) PROVE IInv'
  BY <1>2, AcquirePermitKeeps, BuildInitialMessageKeeps, FinishStepsKeeps,
     PanicInStepsKeeps, RecordOutcomeKeeps, EmitOutcomeKeeps DEF RunStep
<1> QED
  BY <1>1, <1>2, ExecuteSyncKeeps, ExecuteAsyncKeeps, SpawnKeeps, RegisterSpawnedKeeps,
     DropCallerKeeps, CleanupExpiredJobsKeeps, TickKeeps DEF Next

\* The executor never leaves its inductive invariant.
THEOREM ExecutorInvariant == Spec => []IInv
BY InitIInv, NextIInv, PTL DEF Spec

\* Every variable of the executor keeps its type; permits are never overdrawn.
THEOREM ExecutorTypeCorrect == Spec => []TypeOK
<1>1. IInv => TypeOK
  BY DEF IInv
<1> QED
  BY <1>1, ExecutorInvariant, PTL

\* The semaphore neither loses nor invents a permit, for any limit and any set
\* of runs, whether they complete, fail, panic or are dropped.
THEOREM ExecutorConservesPermits == Spec => []PermitsConserved
<1>1. IInv => PermitsConserved
  BY DEF IInv
<1> QED
  BY <1>1, ExecutorInvariant, PTL

\* The registry never shows a result that is not the run's, and an execute_async
\* job is in progress only until its result is recorded.
THEOREM ExecutorReportsTruly == Spec => []JobReflectsRun
<1>1. IInv => JobReflectsRun
  BY DEF IInv
<1> QED
  BY <1>1, ExecutorInvariant, PTL

\* A job id that execute_async returned can be looked up for its time to live.
THEOREM ExecutorKeepsJobs == Spec => []JobKeptForItsTtl
<1>1. IInv => JobKeptForItsTtl
  BY DEF IInv
<1> QED
  BY <1>1, ExecutorInvariant, PTL

\* Whoever reacts to the completion event of an execute_async job finds the same
\* result in the registry, as long as the entry has not expired.
THEOREM ExecutorRecordsBeforeItEmits == Spec => []EventFollowsRegistry
<1>1. IInv => EventFollowsRegistry
  <2> SUFFICES ASSUME IInv, NEW r \in Runs, kind[r] = "async", emitted[r] # "none",
                      clock - created[r] < Ttl
               PROVE  jobs[r].status = emitted[r]
    BY DEF EventFollowsRegistry
  <2>1. task[r] = "done" /\ emitted[r] = StatusOf(outcome[r])
    BY DEF IInv, RunOK
  <2>2. jobs[r].status \in JobStatus \ {"absent", "in_progress"}
    BY <2>1 DEF IInv, TypeOK, JobEntry, JobReflectsRun, JobKeptForItsTtl
  <2> QED
    BY <2>1, <2>2 DEF IInv, JobReflectsRun, JobStatus, Terminal
<1> QED
  BY <1>1, ExecutorInvariant, PTL

\* Once recorded, the result of an execute_async job is never reopened or changed.
THEOREM ExecutorResultsAreFinal == Spec => AsyncResultIsFinal
<1> DEFINE Final == \A r \in Runs :
                       kind[r] = "async" /\ jobs[r].status \in Terminal
                           => jobs'[r] \in {jobs[r], Absent}
<1>1. ASSUME IInv, [Next]_vars PROVE [Final]_vars
  <2> SUFFICES ASSUME Next, NEW r \in Runs, kind[r] = "async",
                      jobs[r].status \in Terminal, jobs'[r] # jobs[r]
               PROVE  jobs'[r] = Absent
    BY <1>1
  <2>0. /\ task[r] \in {"emit", "done"} /\ register[r] = "none"
        /\ jobs \in [Runs -> JobEntry]
    BY <1>1 DEF IInv, JobReflectsRun, RunOK, TypeOK
  <2>1. CASE CleanupExpiredJobs
    BY <2>1 DEF CleanupExpiredJobs
  <2>2. CASE Tick
    BY <2>2 DEF Tick
  <2>3. ASSUME NEW q \in Runs, RunStep(q) PROVE FALSE
    BY <2>0, <2>3 DEF RunStep, AcquirePermit, BuildInitialMessage, FinishSteps,
                      PanicInSteps, RecordOutcome, EmitOutcome
  <2>4. ASSUME NEW q \in Runs,
               ExecuteSync(q) \/ ExecuteAsync(q) \/ Spawn(q) \/ RegisterSpawned(q)
                   \/ DropCaller(q)
        PROVE  FALSE
    BY <2>0, <2>4 DEF ExecuteSync, ExecuteAsync, Spawn, RegisterSpawned, DropCaller
  <2> QED
    BY <2>1, <2>2, <2>3, <2>4 DEF Next
<1> QED
  BY <1>1, ExecutorInvariant, PTL DEF Spec, AsyncResultIsFinal

-----------------------------------------------------------------------------
(***************************************************************************)
(* Proofs, for any workflows, triggers, runs and permits, of the safety    *)
(* properties of WorkflowEngine.                                           *)
(*                                                                         *)
(* Every step of the engine is a step of the executor or leaves it alone,  *)
(* so what is proved of the executor holds inside the engine.  Overlap     *)
(* prevention is not inductive as it stands: the tracker only says that    *)
(* the workflow was claimed.  What makes it work is that a synchronous     *)
(* scheduled run executes only while its own loop awaits that very run     *)
(* (LoopOK), and that a failed one has ended (OutcomeOK).                  *)
(***************************************************************************)

Origins == {"none", "event", "endpoint", "schedule"}

LoopStates == {"sleeping", "awaiting", "returned", "dead", "aborted"}

EngineTypeOK ==
    /\ workflow \in [Runs -> Workflows \cup {NoWorkflow}]
    /\ origin \in [Runs -> Origins]
    /\ chain \in [Runs -> Nat]
    /\ loop \in [Scheduled -> LoopStates]
    /\ awaiting \in [Scheduled -> Runs \cup {NoRun}]
    /\ in_progress \subseteq Scheduled
    /\ reported \subseteq Runs
    /\ stopping \in BOOLEAN

\* A run has a result only after it was started, and a synchronous one only when
\* its task is over.
OutcomeOK(r) ==
    /\ kind[r] = "none" => outcome[r] = "none"
    /\ kind[r] = "sync" /\ outcome[r] # "none" => task[r] = "done"

\* A run no trigger has taken is not started, and a scheduled one was started in
\* the mode of its workflow.
OriginOK(r) ==
    /\ origin[r] = "none" => kind[r] = "none" /\ r \notin reported
    /\ origin[r] = "schedule" => kind[r] = Mode[workflow[r]] /\ workflow[r] \in Scheduled

\* A loop awaits a run exactly while it is "awaiting"; the run is its own, and the
\* only one of its synchronous runs that may be executing.  The tracker follows
\* the loop.
LoopOK(w) ==
    /\ loop[w] = "awaiting" <=> awaiting[w] # NoRun
    /\ loop[w] = "awaiting" => Mode[w] = "sync" /\ awaiting[w] \in ScheduledRuns(w)
    /\ Mode[w] = "sync" => \A r \in ScheduledRuns(w) : Active(r) => awaiting[w] = r
    /\ loop[w] \in {"awaiting", "returned", "dead"} => w \in in_progress
    /\ loop[w] = "sleeping" => w \notin in_progress

EngineInv ==
    /\ EngineTypeOK
    /\ \A r \in Runs : OutcomeOK(r) /\ OriginOK(r)
    /\ \A w \in Scheduled : LoopOK(w)
    /\ FailedTickIsReported

-----------------------------------------------------------------------------
(* The engine's steps are steps of the executor *)

\* Whatever starts, awaits or aborts a run, the executor makes one of its own
\* steps or none.
LEMMA EngineStepIsExecutorStep ==
    ASSUME EngineInv, [EngineNext]_allVars
    PROVE  [Next]_vars
<1>1. ASSUME NEW w, NEW r \in Runs, ExecuteWorkflow(w, r) PROVE Next
  BY <1>1 DEF ExecuteWorkflow, Next
<1>2. ASSUME NEW w \in Scheduled, LoopStep(w) PROVE [Next]_vars
  <2>1. CASE AbortLoop(w)
    <3>1. CASE loop[w] = "awaiting" /\ task[awaiting[w]] \in {"acquire", "steps"}
      <4>1. DropCaller(awaiting[w])
        BY <2>1, <3>1 DEF AbortLoop
      <4>2. awaiting[w] \in Runs
        BY <3>1 DEF EngineInv, LoopOK, ScheduledRuns
      <4> QED
        BY <4>1, <4>2 DEF Next
    <3>2. CASE ~(loop[w] = "awaiting" /\ task[awaiting[w]] \in {"acquire", "steps"})
      BY <2>1, <3>2 DEF AbortLoop
    <3> QED
      BY <3>1, <3>2
  <2> QED
    BY <1>2, <2>1 DEF LoopStep, RunReturns, FinishTick, LoopDies
<1>3. ASSUME NEW w \in Scheduled, NEW r \in Runs, FireTick(w, r) PROVE Next
  BY <1>1, <1>3 DEF FireTick
<1>4. ASSUME NEW w \in Endpoints, NEW r \in Runs, HandleEndpoint(w, r) PROVE Next
  BY <1>1, <1>4 DEF HandleEndpoint
<1>5. ASSUME NEW r \in Runs,
             StartEventTask(r) \/ EngineRunStep(r) \/ DropEndpointCaller(r)
      PROVE  Next
  BY <1>1, <1>5 DEF StartEventTask, EngineRunStep, DropEndpointCaller, Next
<1>6. ASSUME NEW r \in Runs, NEW name \in DOMAIN Listeners, PluginEmits(r, name)
      PROVE  UNCHANGED vars
  BY <1>6 DEF PluginEmits
<1>7. CASE Stop
  BY <1>7 DEF Stop
<1>8. CASE UNCHANGED allVars
  BY <1>8 DEF allVars
<1> QED
  BY <1>2, <1>3, <1>4, <1>5, <1>6, <1>7, <1>8 DEF EngineNext

-----------------------------------------------------------------------------
(* Events *)

\* An event only takes runs no trigger has taken, and makes event runs of them.
LEMMA EmitEventTakesFresh ==
    ASSUME EngineTypeOK, NEW name \in DOMAIN Listeners, NEW length \in Nat,
           EmitEvent(name, length)
    PROVE  /\ workflow' \in [Runs -> Workflows \cup {NoWorkflow}]
           /\ origin' \in [Runs -> Origins]
           /\ chain' \in [Runs -> Nat]
           /\ \A r \in Runs : origin[r] # "none" =>
                 origin'[r] = origin[r] /\ workflow'[r] = workflow[r]
           /\ \A r \in Runs : origin[r] = "none" => origin'[r] \in {"none", "event"}
           /\ \A w \in Scheduled : ScheduledRuns(w)' = ScheduledRuns(w)
<1>1. CASE UNCHANGED <<workflow, origin, chain>>
  BY <1>1 DEF EngineTypeOK, ScheduledRuns
<1>2. CASE ~UNCHANGED <<workflow, origin, chain>>
  <2>1. PICK run \in [Listeners[name] -> Fresh] :
            /\ workflow' = [r \in Runs |->
                  IF \E w \in Listeners[name] : run[w] = r
                  THEN CHOOSE w \in Listeners[name] : run[w] = r
                  ELSE workflow[r]]
            /\ origin' = [r \in Runs |->
                  IF \E w \in Listeners[name] : run[w] = r THEN "event" ELSE origin[r]]
            /\ chain' = [r \in Runs |->
                  IF \E w \in Listeners[name] : run[w] = r THEN length + 1 ELSE chain[r]]
    BY <1>2 DEF EmitEvent
  <2>2. \A w \in Listeners[name] : run[w] \in Runs /\ origin[run[w]] = "none"
    BY <2>1 DEF Fresh
  <2>3. Listeners[name] \subseteq Workflows
    BY EngineAssumption
  <2>4. workflow' \in [Runs -> Workflows \cup {NoWorkflow}]
    <3> SUFFICES ASSUME NEW r \in Runs
                 PROVE  workflow'[r] \in Workflows \cup {NoWorkflow}
      BY <2>1
    <3>1. CASE \E w \in Listeners[name] : run[w] = r
      <4>1. workflow'[r] = CHOOSE w \in Listeners[name] : run[w] = r
        BY <2>1, <3>1
      <4>2. (CHOOSE w \in Listeners[name] : run[w] = r) \in Listeners[name]
        BY <3>1
      <4> QED
        BY <4>1, <4>2, <2>3
    <3>2. CASE ~\E w \in Listeners[name] : run[w] = r
      BY <2>1, <3>2 DEF EngineTypeOK
    <3> QED
      BY <3>1, <3>2
  <2>5. origin' \in [Runs -> Origins] /\ chain' \in [Runs -> Nat]
    BY <2>1 DEF EngineTypeOK, Origins
  <2>6. \A r \in Runs : origin[r] # "none" =>
           origin'[r] = origin[r] /\ workflow'[r] = workflow[r]
    BY <2>1, <2>2
  <2>7. \A r \in Runs : origin[r] = "none" => origin'[r] \in {"none", "event"}
    BY <2>1
  <2>8. \A w \in Scheduled : ScheduledRuns(w)' = ScheduledRuns(w)
    BY <2>6, <2>7 DEF ScheduledRuns
  <2> QED
    BY <2>4, <2>5, <2>6, <2>7, <2>8
<1> QED
  BY <1>1, <1>2

-----------------------------------------------------------------------------
(* The initial state and the steps of runs *)

\* The invariant holds when the engine has loaded its workflows.
LEMMA EngineInitInv == EngineInit => EngineInv
<1> SUFFICES ASSUME EngineInit PROVE EngineInv
  OBVIOUS
<1> USE DEF EngineInit, Init
<1>1. EngineTypeOK
  BY ZenonT(60) DEF EngineTypeOK, Origins, LoopStates
<1>2. \A w \in Scheduled : ScheduledRuns(w) = {}
  BY DEF ScheduledRuns
<1>3. \A r \in Runs : OutcomeOK(r) /\ OriginOK(r)
  BY DEF OutcomeOK, OriginOK
<1>4. \A w \in Scheduled : LoopOK(w)
  BY <1>2 DEF LoopOK
<1>5. FailedTickIsReported
  BY <1>2 DEF FailedTickIsReported
<1> QED
  BY <1>1, <1>3, <1>4, <1>5 DEF EngineInv

\* A step of a run that is already started leaves the triggers alone; a run that
\* ends was active.
LEMMA StartedRunSteps ==
    ASSUME IInv, EngineInv, NEW r \in Runs, RunStep(r) \/ DropCaller(r)
    PROVE  /\ Active(r) /\ kind' = kind
           /\ \A q \in Runs : OutcomeOK(q)'
           /\ \A q \in Runs \ {r} : task'[q] = task[q] /\ outcome'[q] = outcome[q]
<1>0. TypeOK /\ RunOK(r) /\ \A q \in Runs : OutcomeOK(q)
  BY DEF IInv, EngineInv
<1>1. CASE AcquirePermit(r)
  BY <1>0, <1>1 DEF AcquirePermit, Active, TypeOK, OutcomeOK
<1>2. CASE BuildInitialMessage(r)
  BY <1>0, <1>2 DEF BuildInitialMessage, Active, PermitStates, TypeOK, OutcomeOK, RunOK
<1>3. ASSUME NEW result \in {"ok", "err"}, FinishSteps(r, result)
      PROVE  /\ Active(r) /\ kind' = kind
             /\ \A q \in Runs : OutcomeOK(q)'
             /\ \A q \in Runs \ {r} : task'[q] = task[q] /\ outcome'[q] = outcome[q]
  BY <1>0, <1>3 DEF FinishSteps, Active, PermitStates, TypeOK, OutcomeOK, RunOK
<1>4. CASE PanicInSteps(r)
  BY <1>0, <1>4 DEF PanicInSteps, Active, PermitStates, TypeOK, OutcomeOK
<1>5. CASE RecordOutcome(r)
  BY <1>0, <1>5 DEF RecordOutcome, Active, PermitStates, TypeOK, OutcomeOK, RunOK
<1>6. CASE EmitOutcome(r)
  BY <1>0, <1>6 DEF EmitOutcome, Active, PermitStates, TypeOK, OutcomeOK, RunOK
<1>7. CASE DropCaller(r)
  BY <1>0, <1>7 DEF DropCaller, Active, PermitStates, TypeOK, OutcomeOK
<1> QED
  BY <1>1, <1>2, <1>3, <1>4, <1>5, <1>6, <1>7 DEF RunStep

\* A run that goes on, ends or is dropped by an endpoint's client keeps the
\* invariant: a scheduled synchronous run that fails is the one its loop awaits.
LEMMA RunStepKeeps ==
    ASSUME IInv, EngineInv, NEW r \in Runs, RunStep(r) \/ DropCaller(r), UNCHANGED engineVars
    PROVE  EngineInv'
<1> USE DEF engineVars
<1>1. /\ Active(r) /\ kind' = kind
      /\ \A q \in Runs : OutcomeOK(q)'
      /\ \A q \in Runs \ {r} : task'[q] = task[q] /\ outcome'[q] = outcome[q]
  BY StartedRunSteps
<1>2. EngineTypeOK'
  BY DEF EngineInv, EngineTypeOK
<1>3. \A q \in Runs : OriginOK(q)'
  BY <1>1 DEF EngineInv, OriginOK
<1>4. \A w \in Scheduled : ScheduledRuns(w)' = ScheduledRuns(w) /\ ScheduledRuns(w) \subseteq Runs
  BY DEF ScheduledRuns
<1>5. \A w \in Scheduled : LoopOK(w)'
  <2> SUFFICES ASSUME NEW w \in Scheduled PROVE LoopOK(w)'
    OBVIOUS
  <2>1. LoopOK(w)
    BY DEF EngineInv
  <2>2. \A q \in Runs : Active(q)' => Active(q)
    BY <1>1 DEF Active
  <2> QED
    BY <1>4, <2>1, <2>2 DEF LoopOK
<1>6. FailedTickIsReported'
  <2> SUFFICES ASSUME NEW w \in Scheduled, Mode[w] = "sync", NEW q \in ScheduledRuns(w)
               PROVE  /\ q \in reported => outcome'[q] = "err"
                      /\ outcome'[q] = "err" /\ awaiting[w] # q /\ ~stopping => q \in reported
    BY <1>4 DEF FailedTickIsReported
  <2>1. CASE q = r
    <3>1. awaiting[w] = r
      BY <1>1, <2>1 DEF EngineInv, LoopOK
    <3>2. kind[r] = "sync" /\ task[r] # "done"
      BY <1>1, <2>1 DEF EngineInv, OriginOK, ScheduledRuns, Active, PermitStates
    <3>3. r \notin reported
      BY <3>2, <2>1 DEF EngineInv, OutcomeOK, FailedTickIsReported, ScheduledRuns
    <3> QED
      BY <2>1, <3>1, <3>3
  <2>2. CASE q # r
    BY <1>1, <1>4, <2>2, ZenonT(60) DEF EngineInv, FailedTickIsReported
  <2> QED
    BY <2>1, <2>2
<1> QED
  BY <1>1, <1>2, <1>3, <1>5, <1>6, ZenonT(60) DEF EngineInv

\* execute_workflow starts a run that was not started, in its workflow's mode.
LEMMA ExecuteWorkflowStarts ==
    ASSUME IInv, NEW w \in Workflows, NEW r \in Runs, ExecuteWorkflow(w, r)
    PROVE  /\ kind[r] = "none" /\ task[r] = "idle"
           /\ kind' = [kind EXCEPT ![r] = Mode[w]]
           /\ task' = [task EXCEPT ![r] = "acquire"]
           /\ UNCHANGED outcome
BY EngineAssumption, SMTT(60) DEF ExecuteWorkflow, ExecuteSync, ExecuteAsync, IInv, RunOK

\* An event's task that starts its run keeps the invariant.
LEMMA StartEventTaskKeeps ==
    ASSUME IInv, EngineInv, NEW r \in Runs, StartEventTask(r)
    PROVE  EngineInv'
<1> USE DEF engineVars
<1>0. TypeOK /\ origin[r] = "event" /\ UNCHANGED engineVars
  BY DEF StartEventTask, IInv
<1>1. /\ \A q \in Runs \ {r} : kind'[q] = kind[q] /\ task'[q] = task[q]
      /\ UNCHANGED outcome /\ kind[r] = "none" /\ task[r] = "idle"
  BY <1>0, SMTT(30), ZenonT(30)
     DEF StartEventTask, ExecuteWorkflow, ExecuteSync, ExecuteAsync, IInv, RunOK, TypeOK
<1>2. EngineTypeOK'
  BY <1>0 DEF EngineInv, EngineTypeOK
<1>3. \A q \in Runs : OriginOK(q)' /\ OutcomeOK(q)'
  <2>1. OutcomeOK(r)' /\ OriginOK(r)'
    BY <1>0, <1>1 DEF EngineInv, OriginOK, OutcomeOK
  <2> QED
    BY <2>1, <1>0, <1>1 DEF EngineInv, OriginOK, OutcomeOK
<1>4. \A w \in Scheduled : /\ ScheduledRuns(w)' = ScheduledRuns(w)
                           /\ ScheduledRuns(w) \subseteq Runs \ {r}
  BY <1>0 DEF ScheduledRuns
<1>5. \A w \in Scheduled : LoopOK(w)'
  <2>1. \A q \in Runs \ {r} : Active(q)' <=> Active(q)
    BY <1>1 DEF Active
  <2> QED
    BY <1>0, <1>4, <2>1 DEF EngineInv, LoopOK
<1>6. FailedTickIsReported'
  BY <1>0, <1>1, <1>4, ZenonT(60) DEF EngineInv, FailedTickIsReported
<1> QED
  BY <1>2, <1>3, <1>5, <1>6 DEF EngineInv

\* So does a run started by a request to an endpoint.
LEMMA HandleEndpointKeeps ==
    ASSUME IInv, EngineInv, NEW w \in Endpoints, NEW r \in Runs, HandleEndpoint(w, r)
    PROVE  EngineInv'
<1>0. /\ TypeOK /\ EngineTypeOK /\ w \in Workflows
      /\ UNCHANGED <<loop, awaiting, in_progress, reported, stopping>>
      /\ origin[r] = "none"
  BY EngineAssumption DEF HandleEndpoint, IInv, EngineInv, Fresh
<1>1. /\ workflow' = [workflow EXCEPT ![r] = w]
      /\ origin' = [origin EXCEPT ![r] = "endpoint"]
      /\ chain' = [chain EXCEPT ![r] = 0]
  BY DEF HandleEndpoint, Triggered
<1>2. /\ \A q \in Runs \ {r} : kind'[q] = kind[q] /\ task'[q] = task[q]
      /\ UNCHANGED outcome /\ kind[r] = "none" /\ kind'[r] = Mode[w]
  <2>1. ExecuteWorkflow(w, r)
    BY ZenonT(60) DEF HandleEndpoint
  <2>2. /\ kind[r] = "none" /\ UNCHANGED outcome
        /\ kind' = [kind EXCEPT ![r] = Mode[w]] /\ task' = [task EXCEPT ![r] = "acquire"]
    BY <1>0, <2>1, ExecuteWorkflowStarts, ZenonT(60)
  <2> QED
    BY <1>0, <2>2 DEF TypeOK
<1>3. EngineTypeOK'
  BY <1>0, <1>1 DEF EngineTypeOK, Origins
<1>4. \A q \in Runs : OriginOK(q)' /\ OutcomeOK(q)'
  <2>1. OutcomeOK(r)' /\ OriginOK(r)'
    BY <1>0, <1>1, <1>2 DEF EngineInv, OriginOK, OutcomeOK, EngineTypeOK
  <2> QED
    BY <2>1, <1>0, <1>1, <1>2 DEF EngineInv, OriginOK, OutcomeOK, EngineTypeOK
<1>5. \A v \in Scheduled : /\ ScheduledRuns(v)' = ScheduledRuns(v)
                           /\ ScheduledRuns(v) \subseteq Runs \ {r}
  BY <1>0, <1>1 DEF ScheduledRuns, EngineTypeOK
<1>6. \A v \in Scheduled : LoopOK(v)'
  <2>1. \A q \in Runs \ {r} : Active(q)' <=> Active(q)
    BY <1>2 DEF Active
  <2> QED
    BY <1>0, <1>5, <2>1, ZenonT(60) DEF EngineInv, LoopOK
<1>7. FailedTickIsReported'
  BY <1>0, <1>2, <1>5, ZenonT(60) DEF EngineInv, FailedTickIsReported
<1> QED
  BY <1>3, <1>4, <1>6, <1>7 DEF EngineInv

\* An event a plugin emits keeps the invariant.
LEMMA PluginEmitsKeeps ==
    ASSUME EngineInv, NEW r \in Runs, NEW name \in DOMAIN Listeners, PluginEmits(r, name)
    PROVE  EngineInv'
<1>0. /\ EngineTypeOK /\ chain[r] \in Nat
      /\ UNCHANGED <<vars, loop, awaiting, in_progress, reported, stopping>>
  BY DEF PluginEmits, EngineInv, EngineTypeOK
<1>1. /\ workflow' \in [Runs -> Workflows \cup {NoWorkflow}]
      /\ origin' \in [Runs -> Origins]
      /\ chain' \in [Runs -> Nat]
      /\ \A q \in Runs : origin[q] # "none" =>
            origin'[q] = origin[q] /\ workflow'[q] = workflow[q]
      /\ \A q \in Runs : origin[q] = "none" => origin'[q] \in {"none", "event"}
      /\ \A w \in Scheduled : ScheduledRuns(w)' = ScheduledRuns(w)
  BY <1>0, EmitEventTakesFresh DEF PluginEmits
<1>2. EngineTypeOK'
  BY <1>0, <1>1 DEF EngineTypeOK
<1>3. \A q \in Runs : OriginOK(q)' /\ OutcomeOK(q)'
  BY <1>0, <1>1 DEF EngineInv, OriginOK, OutcomeOK, vars
<1>4. \A w \in Scheduled : LoopOK(w)'
  BY <1>0, <1>1 DEF EngineInv, LoopOK, Active, vars
<1>5. FailedTickIsReported'
  BY <1>0, <1>1, ZenonT(60) DEF EngineInv, FailedTickIsReported, vars
<1> QED
  BY <1>2, <1>3, <1>4, <1>5 DEF EngineInv

-----------------------------------------------------------------------------
(* The schedule loops *)

\* A tick that fires keeps the invariant: its loop slept, so none of the
\* workflow's synchronous runs was executing.
LEMMA FireTickKeeps ==
    ASSUME IInv, EngineInv, NEW w \in Scheduled, NEW r \in Runs, FireTick(w, r)
    PROVE  EngineInv'
<1>0. /\ TypeOK /\ EngineTypeOK /\ w \in Workflows /\ LoopOK(w)
      /\ loop[w] = "sleeping" /\ in_progress' = in_progress \cup {w}
      /\ UNCHANGED <<reported, stopping>>
      /\ origin[r] = "none" /\ r \notin reported /\ r # NoRun
  BY EngineAssumption DEF FireTick, IInv, EngineInv, Fresh, OriginOK
<1>1. /\ workflow' = [workflow EXCEPT ![r] = w]
      /\ origin' = [origin EXCEPT ![r] = "schedule"]
      /\ chain' = [chain EXCEPT ![r] = 0]
  BY DEF FireTick, Triggered
<1>2. /\ \A q \in Runs \ {r} : kind'[q] = kind[q] /\ task'[q] = task[q]
      /\ UNCHANGED outcome /\ kind[r] = "none" /\ kind'[r] = Mode[w]
  <2>1. ExecuteWorkflow(w, r)
    BY ZenonT(60) DEF FireTick
  <2>2. /\ kind[r] = "none" /\ UNCHANGED outcome
        /\ kind' = [kind EXCEPT ![r] = Mode[w]] /\ task' = [task EXCEPT ![r] = "acquire"]
    BY <1>0, <2>1, ExecuteWorkflowStarts, ZenonT(60)
  <2> QED
    BY <1>0, <2>2 DEF TypeOK
<1>3. \/ /\ Mode[w] = "sync"
         /\ loop' = [loop EXCEPT ![w] = "awaiting"] /\ awaiting' = [awaiting EXCEPT ![w] = r]
      \/ /\ Mode[w] # "sync"
         /\ loop' = [loop EXCEPT ![w] = "returned"] /\ awaiting' = awaiting
  BY DEF FireTick
<1>4. EngineTypeOK'
  BY <1>0, <1>1, <1>3 DEF EngineTypeOK, Origins, LoopStates
<1>5. \A q \in Runs : OriginOK(q)' /\ OutcomeOK(q)'
  <2>1. OutcomeOK(r)' /\ OriginOK(r)'
    BY <1>0, <1>1, <1>2 DEF EngineInv, OriginOK, OutcomeOK, EngineTypeOK
  <2> QED
    BY <2>1, <1>0, <1>1, <1>2 DEF EngineInv, OriginOK, OutcomeOK, EngineTypeOK
<1>6. \A v \in Scheduled \ {w} : /\ ScheduledRuns(v)' = ScheduledRuns(v)
                                 /\ ScheduledRuns(v) \subseteq Runs \ {r}
  BY <1>0, <1>1 DEF ScheduledRuns, EngineTypeOK
<1>7. ScheduledRuns(w)' = ScheduledRuns(w) \cup {r} /\ ScheduledRuns(w) \subseteq Runs \ {r}
  BY <1>0, <1>1 DEF ScheduledRuns, EngineTypeOK
<1>8. \A q \in Runs \ {r} : Active(q)' <=> Active(q)
  BY <1>2 DEF Active
<1>9. \A v \in Scheduled : LoopOK(v)'
  <2>1. ASSUME NEW v \in Scheduled \ {w} PROVE LoopOK(v)'
    <3>1. loop'[v] = loop[v] /\ awaiting'[v] = awaiting[v] /\ LoopOK(v)
      BY <1>0, <1>3 DEF EngineTypeOK, EngineInv
    <3> QED
      BY <1>0, <1>6, <1>8, <3>1 DEF LoopOK
  <2>2. LoopOK(w)'
    <3>1. awaiting[w] = NoRun /\ (Mode[w] = "sync" => \A q \in ScheduledRuns(w) : ~Active(q))
      BY <1>0, <1>7, EngineAssumption DEF LoopOK
    <3>2. \/ Mode[w] = "sync" /\ loop'[w] = "awaiting" /\ awaiting'[w] = r
          \/ Mode[w] # "sync" /\ loop'[w] = "returned" /\ awaiting'[w] = NoRun
      BY <1>0, <1>3, <3>1 DEF EngineTypeOK
    <3> QED
      BY <1>0, <1>7, <1>8, <3>1, <3>2 DEF LoopOK
  <2> QED
    BY <2>1, <2>2
<1>10. FailedTickIsReported'
  <2> SUFFICES ASSUME NEW v \in Scheduled, Mode[v] = "sync", NEW q \in ScheduledRuns(v)'
               PROVE  /\ q \in reported => outcome[q] = "err"
                      /\ outcome[q] = "err" /\ awaiting'[v] # q /\ ~stopping => q \in reported
    BY <1>0, <1>2 DEF FailedTickIsReported
  <2>1. CASE q = r
    BY <2>1, <1>0, <1>2 DEF EngineInv, OutcomeOK
  <2>2. CASE q # r
    <3>1. q \in ScheduledRuns(v)
      BY <2>2, <1>6, <1>7
    <3>2. awaiting'[v] = awaiting[v] \/ awaiting[v] = NoRun
      BY <1>0, <1>3 DEF EngineTypeOK, LoopOK
    <3>3. q # NoRun
      BY <3>1, EngineAssumption DEF ScheduledRuns
    <3> QED
      BY <3>1, <3>2, <3>3 DEF EngineInv, FailedTickIsReported
  <2> QED
    BY <2>1, <2>2
<1> QED
  BY <1>4, <1>5, <1>9, <1>10 DEF EngineInv

\* A loop whose run has returned keeps the invariant: the run is over, and if it
\* failed it is reported.
LEMMA RunReturnsKeeps ==
    ASSUME IInv, EngineInv, NEW w \in Scheduled, RunReturns(w)
    PROVE  EngineInv'
<1> DEFINE r == awaiting[w]
<1>0. /\ EngineTypeOK /\ LoopOK(w) /\ loop[w] = "awaiting" /\ task[r] = "done"
      /\ r \in ScheduledRuns(w) /\ r \in Runs /\ Mode[w] = "sync"
      /\ loop' = [loop EXCEPT ![w] = "returned"] /\ awaiting' = [awaiting EXCEPT ![w] = NoRun]
      /\ UNCHANGED <<vars, in_progress, stopping>>
  BY DEF RunReturns, EngineInv, LoopOK, ScheduledRuns
<1>1. /\ workflow' \in [Runs -> Workflows \cup {NoWorkflow}]
      /\ origin' \in [Runs -> Origins]
      /\ chain' \in [Runs -> Nat]
      /\ \A q \in Runs : origin[q] # "none" =>
            origin'[q] = origin[q] /\ workflow'[q] = workflow[q]
      /\ \A q \in Runs : origin[q] = "none" => origin'[q] \in {"none", "event"}
      /\ \A v \in Scheduled : ScheduledRuns(v)' = ScheduledRuns(v)
  <2>1. CASE outcome[r] = "err"
    <3>1. chain[r] \in Nat /\ "workflow.schedule.failed" \in DOMAIN Listeners
      BY <1>0, EngineAssumption DEF EngineTypeOK
    <3>2. EmitEvent("workflow.schedule.failed", chain[r])
      BY <2>1 DEF RunReturns
    <3> QED
      BY <1>0, <3>1, <3>2, EmitEventTakesFresh
  <2>2. CASE outcome[r] # "err"
    BY <1>0, <2>2 DEF RunReturns, EngineTypeOK, ScheduledRuns
  <2> QED
    BY <2>1, <2>2
<1>2. reported' = IF outcome[r] = "err" THEN reported \cup {r} ELSE reported
  BY DEF RunReturns
<1>3. EngineTypeOK'
  BY <1>0, <1>1, <1>2 DEF EngineTypeOK, LoopStates
<1>4. \A q \in Runs : OriginOK(q)' /\ OutcomeOK(q)'
  BY <1>0, <1>1, <1>2, ZenonT(60) DEF EngineInv, OriginOK, OutcomeOK, ScheduledRuns, vars
<1>5. \A v \in Scheduled : LoopOK(v)'
  <2>1. ASSUME NEW v \in Scheduled \ {w} PROVE LoopOK(v)'
    <3>1. LoopOK(v)
      BY DEF EngineInv
    <3>2. /\ loop'[v] = loop[v] /\ awaiting'[v] = awaiting[v] /\ in_progress' = in_progress
          /\ ScheduledRuns(v)' = ScheduledRuns(v)
      BY <1>0, <1>1 DEF EngineTypeOK
    <3>3. \A q : Active(q)' <=> Active(q)
      BY <1>0 DEF Active, vars
    <3> QED
      BY <3>1, <3>2, <3>3 DEF LoopOK
  <2>2. LoopOK(w)'
    <3>1. \A q \in ScheduledRuns(w) : ~Active(q)
      BY <1>0, ZenonT(60) DEF LoopOK, Active, PermitStates
    <3> QED
      BY <1>0, <1>1, <3>1, ZenonT(60) DEF LoopOK, Active, EngineTypeOK, vars
  <2> QED
    BY <2>1, <2>2
<1>6. FailedTickIsReported'
  <2> SUFFICES ASSUME NEW v \in Scheduled, Mode[v] = "sync", NEW q \in ScheduledRuns(v)
               PROVE  /\ q \in reported' => outcome[q] = "err"
                      /\ outcome[q] = "err" /\ awaiting'[v] # q /\ ~stopping => q \in reported'
    BY <1>0, <1>1, SMTT(30), ZenonT(30) DEF FailedTickIsReported, vars
  <2>1. /\ q \in reported => outcome[q] = "err"
        /\ outcome[q] = "err" /\ awaiting[v] # q /\ ~stopping => q \in reported
    BY DEF EngineInv, FailedTickIsReported
  <2>2. q # r /\ awaiting'[v] # q => awaiting[v] # q
    BY <1>0 DEF EngineTypeOK
  <2> QED
    BY <1>2, <2>1, <2>2
<1> QED
  BY <1>3, <1>4, <1>5, <1>6 DEF EngineInv

\* The engine's own steps that change a loop and neither a trigger nor a report.
LEMMA LoopOnlyKeeps ==
    ASSUME EngineInv, NEW w \in Scheduled, NEW l \in {"sleeping", "dead", "aborted"},
           loop' = [loop EXCEPT ![w] = l],
           awaiting' = [awaiting EXCEPT ![w] = NoRun],
           in_progress' = IF l = "sleeping" THEN in_progress \ {w} ELSE in_progress,
           l = "dead" => w \in in_progress,
           UNCHANGED <<kind, outcome, workflow, origin, chain, reported, stopping>>,
           \A q \in Runs : OutcomeOK(q)' /\ (Active(q)' => Active(q)),
           Mode[w] = "sync" => \A q \in ScheduledRuns(w) : ~Active(q)',
           awaiting[w] # NoRun => outcome[awaiting[w]] # "err" \/ stopping
    PROVE  EngineInv'
<1>0. EngineTypeOK /\ \A v \in Scheduled : LoopOK(v)
  BY DEF EngineInv
<1>1. EngineTypeOK'
  BY <1>0 DEF EngineTypeOK, LoopStates
<1>2. \A q \in Runs : OriginOK(q)'
  BY DEF EngineInv, OriginOK
<1>3. \A v \in Scheduled : ScheduledRuns(v)' = ScheduledRuns(v) /\ ScheduledRuns(v) \subseteq Runs
  BY DEF ScheduledRuns
<1>4. \A v \in Scheduled : LoopOK(v)'
  <2>1. ASSUME NEW v \in Scheduled \ {w} PROVE LoopOK(v)'
    <3>1. loop'[v] = loop[v] /\ awaiting'[v] = awaiting[v] /\ LoopOK(v)
      BY <1>0 DEF EngineTypeOK
    <3>2. v \in in_progress' <=> v \in in_progress
      OBVIOUS
    <3> QED
      BY <1>3, <3>1, <3>2 DEF LoopOK
  <2>2. LoopOK(w)'
    <3>1. loop'[w] = l /\ awaiting'[w] = NoRun
      BY <1>0 DEF EngineTypeOK
    <3> QED
      BY <1>3, <3>1 DEF LoopOK
  <2> QED
    BY <2>1, <2>2
<1>5. FailedTickIsReported'
  <2> SUFFICES ASSUME NEW v \in Scheduled, Mode[v] = "sync", NEW q \in ScheduledRuns(v)
               PROVE  /\ q \in reported => outcome[q] = "err"
                      /\ outcome[q] = "err" /\ awaiting'[v] # q /\ ~stopping => q \in reported
    BY <1>3 DEF FailedTickIsReported
  <2>1. q \in reported => outcome[q] = "err"
    BY DEF EngineInv, FailedTickIsReported
  <2>2. q # NoRun
    BY EngineAssumption DEF ScheduledRuns
  <2>3. CASE v = w
    BY <2>1, <2>2, <2>3 DEF EngineInv, FailedTickIsReported
  <2>4. CASE v # w
    BY <1>0, <2>1, <2>4 DEF EngineInv, FailedTickIsReported, EngineTypeOK
  <2> QED
    BY <2>3, <2>4
<1> QED
  BY <1>1, <1>2, <1>4, <1>5, ZenonT(60) DEF EngineInv

\* tracker.finish, a loop that dies and a loop that is aborted keep the invariant:
\* the run such a loop awaited is over, or is dropped with it.
LEMMA LoopEndsKeeps ==
    ASSUME IInv, EngineInv, NEW w \in Scheduled,
           FinishTick(w) \/ LoopDies(w) \/ AbortLoop(w)
    PROVE  EngineInv'
<1>0. /\ EngineTypeOK /\ LoopOK(w) /\ \A q \in Runs : OutcomeOK(q) /\ RunOK(q)
      /\ ScheduledRuns(w) \subseteq Runs /\ TypeOK
  BY DEF EngineInv, IInv, ScheduledRuns
<1>1. CASE FinishTick(w)
  <2>1. awaiting[w] = NoRun /\ awaiting' = [awaiting EXCEPT ![w] = NoRun]
    BY <1>0, <1>1 DEF FinishTick, LoopOK, EngineTypeOK
  <2>2. \A q \in Runs : OutcomeOK(q)' /\ (Active(q)' <=> Active(q))
    BY <1>0, <1>1 DEF FinishTick, OutcomeOK, Active, vars
  <2>3. Mode[w] = "sync" => \A q \in ScheduledRuns(w) : ~Active(q)'
    BY <1>0, <2>1, <2>2, EngineAssumption DEF LoopOK
  <2>4. /\ loop' = [loop EXCEPT ![w] = "sleeping"] /\ in_progress' = in_progress \ {w}
        /\ UNCHANGED <<kind, outcome, workflow, origin, chain, reported, stopping>>
    BY <1>1 DEF FinishTick, vars
  <2> QED
    BY <2>1, <2>2, <2>3, <2>4, LoopOnlyKeeps, ZenonT(60)
<1>2. CASE LoopDies(w)
  <2>1. /\ awaiting[w] \in ScheduledRuns(w) /\ awaiting[w] \in Runs /\ Mode[w] = "sync"
        /\ w \in in_progress
    BY <1>0, <1>2 DEF LoopDies, LoopOK
  <2>2. \A q \in Runs : OutcomeOK(q)' /\ (Active(q)' <=> Active(q))
    BY <1>0, <1>2 DEF LoopDies, OutcomeOK, Active, vars
  <2>3. kind[awaiting[w]] = "sync" /\ task[awaiting[w]] = "panicked"
    BY <1>2, <2>1 DEF LoopDies, EngineInv, OriginOK, ScheduledRuns
  <2>4. \A q \in ScheduledRuns(w) : ~Active(q)'
    BY <1>0, <2>1, <2>2, <2>3, ZenonT(60) DEF LoopOK, Active, PermitStates
  <2>5. outcome[awaiting[w]] # "err"
    BY <1>0, <2>1, <2>3 DEF OutcomeOK
  <2>6. /\ loop' = [loop EXCEPT ![w] = "dead"] /\ awaiting' = [awaiting EXCEPT ![w] = NoRun]
        /\ UNCHANGED <<kind, outcome, workflow, origin, chain, in_progress, reported, stopping>>
    BY <1>2 DEF LoopDies, vars
  <2> QED
    BY <2>1, <2>2, <2>4, <2>5, <2>6, LoopOnlyKeeps, ZenonT(60)
<1>3. CASE AbortLoop(w)
  <2>1. /\ loop' = [loop EXCEPT ![w] = "aborted"] /\ awaiting' = [awaiting EXCEPT ![w] = NoRun]
        /\ UNCHANGED <<workflow, origin, chain, in_progress, reported, stopping>> /\ stopping
    BY <1>3 DEF AbortLoop
  <2>2. CASE loop[w] = "awaiting" /\ task[awaiting[w]] \in {"acquire", "steps"}
    <3>1. PICK r \in Runs : r = awaiting[w] /\ DropCaller(r)
      BY <1>0, <1>3, <2>2 DEF AbortLoop, LoopOK
    <3>2. /\ kind' = kind /\ \A q \in Runs : OutcomeOK(q)'
          /\ \A q \in Runs \ {r} : task'[q] = task[q]
      BY <3>1, StartedRunSteps
    <3>3. UNCHANGED outcome /\ task'[r] = "dropped"
      BY <1>0, <3>1 DEF DropCaller, TypeOK
    <3>4. ~Active(r)' /\ \A q \in Runs : Active(q)' => Active(q)
      BY <3>2, <3>3, ZenonT(60) DEF Active, PermitStates
    <3>5. Mode[w] = "sync" => \A q \in ScheduledRuns(w) : ~Active(q)'
      BY <1>0, <3>1, <3>4, ZenonT(60) DEF LoopOK
    <3> QED
      BY <2>1, <3>2, <3>3, <3>4, <3>5, LoopOnlyKeeps, ZenonT(60)
  <2>3. CASE ~(loop[w] = "awaiting" /\ task[awaiting[w]] \in {"acquire", "steps"})
    <3>1. UNCHANGED vars
      BY <1>3, <2>3 DEF AbortLoop
    <3>2. \A q \in Runs : OutcomeOK(q)' /\ (Active(q)' <=> Active(q))
      BY <1>0, <3>1, ZenonT(60) DEF OutcomeOK, Active, vars
    <3>3. Mode[w] = "sync" => \A q \in ScheduledRuns(w) : ~Active(q)
      <4> SUFFICES ASSUME Mode[w] = "sync", NEW q \in ScheduledRuns(w), Active(q) PROVE FALSE
        OBVIOUS
      <4>1. q = awaiting[w] /\ loop[w] = "awaiting"
        BY <1>0, EngineAssumption DEF LoopOK
      <4>2. kind[q] = "sync"
        BY DEF EngineInv, OriginOK, ScheduledRuns
      <4> QED
        BY <1>0, <2>3, <4>1, <4>2, ZenonT(60) DEF RunOK, Active, PermitStates
    <3>4. Mode[w] = "sync" => \A q \in ScheduledRuns(w) : ~Active(q)'
      BY <1>0, <3>2, <3>3
    <3>5. UNCHANGED <<kind, outcome>>
      BY <3>1 DEF vars
    <3> QED
      BY <2>1, <3>2, <3>4, <3>5, LoopOnlyKeeps, ZenonT(60)
  <2> QED
    BY <2>2, <2>3
<1> QED
  BY <1>1, <1>2, <1>3

-----------------------------------------------------------------------------
(* The theorems *)

\* Every step of the engine keeps the invariant.
LEMMA EngineNextInv == IInv /\ EngineInv /\ [EngineNext]_allVars => EngineInv'
<1> SUFFICES ASSUME IInv, EngineInv, [EngineNext]_allVars PROVE EngineInv'
  OBVIOUS
<1>1. ASSUME NEW w \in Scheduled, LoopStep(w) PROVE EngineInv'
  BY <1>1, RunReturnsKeeps, LoopEndsKeeps DEF LoopStep
<1>2. ASSUME NEW r \in Runs, EngineRunStep(r) \/ DropEndpointCaller(r) PROVE EngineInv'
  BY <1>2, RunStepKeeps DEF EngineRunStep, DropEndpointCaller
<1>3. CASE Stop \/ UNCHANGED allVars
  <2>1. /\ UNCHANGED <<vars, workflow, origin, chain, loop, awaiting, in_progress, reported>>
        /\ stopping' \in BOOLEAN /\ (stopping => stopping')
    BY <1>3, ZenonT(60) DEF Stop, allVars, engineVars, EngineInv, EngineTypeOK
  <2>2. \A w \in Scheduled : ScheduledRuns(w)' = ScheduledRuns(w)
    BY <2>1 DEF ScheduledRuns
  <2>3. EngineTypeOK' /\ \A r \in Runs : OutcomeOK(r)' /\ OriginOK(r)'
    BY <2>1 DEF EngineInv, EngineTypeOK, OutcomeOK, OriginOK, vars
  <2>4. \A w \in Scheduled : LoopOK(w)'
    BY <2>1, <2>2 DEF EngineInv, LoopOK, Active, vars
  <2>5. FailedTickIsReported'
    BY <2>1, <2>2, ZenonT(60) DEF EngineInv, FailedTickIsReported, vars
  <2> QED
    BY <2>3, <2>4, <2>5 DEF EngineInv
<1> QED
  BY <1>1, <1>2, <1>3, FireTickKeeps, HandleEndpointKeeps, StartEventTaskKeeps,
     PluginEmitsKeeps DEF EngineNext

\* The engine keeps the executor's inductive invariant and its own.
THEOREM EngineInvariant == EngineSpec => [](IInv /\ EngineInv)
<1>1. EngineInit => IInv /\ EngineInv
  BY InitIInv, EngineInitInv DEF EngineInit
<1>2. IInv /\ EngineInv /\ [EngineNext]_allVars => (IInv /\ EngineInv)'
  BY EngineStepIsExecutorStep, NextIInv, EngineNextInv
<1> QED
  BY <1>1, <1>2, PTL DEF EngineSpec

\* The engine implements the executor: whatever the schedule, the endpoints and
\* the events do, what happens to runs, jobs and permits is a behaviour of
\* PipelineExecutor, so that everything proved of it holds inside the engine.
THEOREM EngineImplementsExecutor == EngineSpec => Init /\ [][Next]_vars
<1>1. EngineInit => Init
  BY DEF EngineInit
<1>2. EngineInv /\ [EngineNext]_allVars => [Next]_vars
  BY EngineStepIsExecutorStep
<1> QED
  BY <1>1, <1>2, EngineInvariant, PTL DEF EngineSpec

\* In the engine too the semaphore neither loses nor invents a permit, also when
\* Scheduler::stop drops the runs its loops await.
THEOREM EngineConservesPermits == EngineSpec => []PermitsConserved
<1>1. IInv => PermitsConserved
  BY DEF IInv
<1> QED
  BY <1>1, EngineInvariant, PTL

\* Two ticks of one synchronous workflow never execute at the same time, and the
\* tracker holds exactly the workflows between try_start and finish.
THEOREM SyncTicksAreExclusive == EngineSpec => []SyncTicksNeverOverlap
<1>1. EngineInv => SyncTicksNeverOverlap
  BY DEF EngineInv, LoopOK, SyncTicksNeverOverlap
<1> QED
  BY <1>1, EngineInvariant, PTL

\* Every synchronous scheduled run that failed and was left behind by its loop
\* has been reported with workflow.schedule.failed, and no other run has.
THEOREM FailedTicksAreReported == EngineSpec => []FailedTickIsReported
<1>1. EngineInv => FailedTickIsReported
  BY DEF EngineInv
<1> QED
  BY <1>1, EngineInvariant, PTL

\* Once Scheduler::stop has ended every loop no synchronous scheduled run is
\* executing or waiting for a permit.
THEOREM StopEndsScheduledRuns == EngineSpec => []NothingOutlivesStop
<1>1. EngineInv => NothingOutlivesStop
  <2> SUFFICES ASSUME EngineInv, NEW w \in Scheduled, loop[w] = "aborted", Mode[w] = "sync",
                      NEW r \in ScheduledRuns(w), Active(r)
               PROVE  FALSE
    BY DEF NothingOutlivesStop
  <2>1. awaiting[w] = NoRun /\ awaiting[w] = r /\ r \in Runs
    BY DEF EngineInv, LoopOK, ScheduledRuns
  <2> QED
    BY <2>1, EngineAssumption
<1> QED
  BY <1>1, EngineInvariant, PTL

-----------------------------------------------------------------------------
(* Runs and loops are never stuck *)

\* How far a task has come.
Progress(state) ==
    CASE state = "idle"    -> 0
      [] state = "acquire" -> 1
      [] state = "build"   -> 2
      [] state = "steps"   -> 3
      [] state = "record"  -> 4
      [] state = "emit"    -> 5
      [] OTHER             -> 6

LEMMA ProgressOrder ==
    /\ Progress("idle") = 0 /\ Progress("acquire") = 1 /\ Progress("build") = 2
    /\ Progress("steps") = 3 /\ Progress("record") = 4 /\ Progress("emit") = 5
    /\ Progress("done") = 6 /\ Progress("dropped") = 6 /\ Progress("panicked") = 6
BY DEF Progress

\* Only run r's task moves, and it moves ahead.
Advances(r) ==
    /\ Progress(task[r]) < Progress(task'[r])
    /\ \A s \in Runs \ {r} : task'[s] = task[s]

\* A step that sets run r's task to a later state.
LEMMA TaskAdvances ==
    ASSUME TypeOK, NEW r \in Runs, NEW to, task' = [task EXCEPT ![r] = to],
           Progress(task[r]) < Progress(to)
    PROVE  Advances(r)
BY DEF TypeOK, Advances

\* Whatever starts, runs, ends or drops a run moves its task ahead.
LEMMA StepsAdvance ==
    ASSUME TypeOK, NEW r \in Runs, \A s \in Runs : RunOK(s)
    PROVE  /\ RunStep(r) => Advances(r)
           /\ ExecuteSync(r) \/ ExecuteAsync(r) \/ Spawn(r) \/ DropCaller(r) => Advances(r)
<1> USE ProgressOrder
<1>1. CASE ExecuteSync(r) \/ ExecuteAsync(r) \/ Spawn(r)
  <2>1. task[r] = "idle" /\ task' = [task EXCEPT ![r] = "acquire"]
    BY <1>1 DEF ExecuteSync, ExecuteAsync, Spawn, RunOK
  <2>2. Progress(task[r]) < Progress("acquire")
    BY <2>1
  <2> QED
    BY <2>1, <2>2, TaskAdvances
<1>2. CASE DropCaller(r)
  <2>1. task[r] \in {"acquire", "steps"}
    BY <1>2 DEF DropCaller
  <2>2. task' = [task EXCEPT ![r] = "dropped"]
    BY <1>2 DEF DropCaller
  <2>3. Progress(task[r]) < Progress("dropped")
    BY <2>1
  <2> QED
    BY <2>2, <2>3, TaskAdvances
<1>3. CASE AcquirePermit(r)
  <2>1. task[r] = "acquire"
    BY <1>3 DEF AcquirePermit
  <2>2. PICK to \in {"build", "steps"} : task' = [task EXCEPT ![r] = to]
    BY <1>3 DEF AcquirePermit
  <2>3. Progress(task[r]) < Progress(to)
    BY <2>1, <2>2
  <2> QED
    BY <2>2, <2>3, TaskAdvances
<1>4. CASE BuildInitialMessage(r)
  <2>1. task[r] = "build"
    BY <1>4 DEF BuildInitialMessage
  <2>2. PICK to \in {"steps", "record"} : task' = [task EXCEPT ![r] = to]
    BY <1>4 DEF BuildInitialMessage
  <2>3. Progress(task[r]) < Progress(to)
    BY <2>1, <2>2
  <2> QED
    BY <2>2, <2>3, TaskAdvances
<1>5. ASSUME NEW result \in {"ok", "err"}, FinishSteps(r, result) PROVE Advances(r)
  <2>1. task[r] = "steps"
    BY <1>5 DEF FinishSteps
  <2>2. PICK to \in {"done", "record"} : task' = [task EXCEPT ![r] = to]
    BY <1>5 DEF FinishSteps
  <2>3. Progress(task[r]) < Progress(to)
    BY <2>1, <2>2
  <2> QED
    BY <2>2, <2>3, TaskAdvances
<1>6. CASE PanicInSteps(r)
  <2>1. task[r] = "steps"
    BY <1>6 DEF PanicInSteps
  <2>2. task' = [task EXCEPT ![r] = "panicked"]
    BY <1>6 DEF PanicInSteps
  <2>3. Progress(task[r]) < Progress("panicked")
    BY <2>1
  <2> QED
    BY <2>2, <2>3, TaskAdvances
<1>7. CASE RecordOutcome(r)
  <2>1. task[r] = "record"
    BY <1>7 DEF RecordOutcome
  <2>2. task' = [task EXCEPT ![r] = "emit"]
    BY <1>7 DEF RecordOutcome
  <2>3. Progress(task[r]) < Progress("emit")
    BY <2>1
  <2> QED
    BY <2>2, <2>3, TaskAdvances
<1>8. CASE EmitOutcome(r)
  <2>1. task[r] = "emit"
    BY <1>8 DEF EmitOutcome
  <2>2. task' = [task EXCEPT ![r] = "done"]
    BY <1>8 DEF EmitOutcome
  <2>3. Progress(task[r]) < Progress("done")
    BY <2>1
  <2> QED
    BY <2>2, <2>3, TaskAdvances
<1> QED
  BY <1>1, <1>2, <1>3, <1>4, <1>5, <1>6, <1>7, <1>8 DEF RunStep

\* A run's task only ever moves ahead, from waiting for a permit over its steps and the
\* recording of its result to its end, one run at a time: it waits for a permit once,
\* gives it back once, and takes at most five steps until it is over, whatever the other
\* runs do and whichever way it was started (execute_sync, execute_async, spawn).
THEOREM RunsOnlyAdvance ==
    Spec => [][/\ \A r \in Runs : task'[r] = task[r] \/ Progress(task[r]) < Progress(task'[r])
               /\ \A r \in Runs : RunStep(r) => Advances(r)]_vars
<1> DEFINE A == /\ \A r \in Runs : task'[r] = task[r] \/ Progress(task[r]) < Progress(task'[r])
                /\ \A r \in Runs : RunStep(r) => Advances(r)
<1>1. ASSUME IInv, Next PROVE A
  <2>1. TypeOK /\ \A r \in Runs : RunOK(r)
    BY <1>1 DEF IInv
  <2>2. \A r \in Runs : RunStep(r) => Advances(r)
    BY <2>1, StepsAdvance
  <2>3. (\E r \in Runs : Advances(r)) \/ task' = task
    BY <1>1, <2>1, StepsAdvance DEF Next, RegisterSpawned, CleanupExpiredJobs, Tick
  <2>4. \A r \in Runs : task'[r] = task[r] \/ Progress(task[r]) < Progress(task'[r])
    BY <2>3 DEF Advances
  <2> QED
    BY <2>2, <2>4
<1>2. IInv /\ [Next]_vars => [A]_vars
  BY <1>1
<1> HIDE DEF A
<1>3. Spec => [][A]_vars
  BY <1>2, ExecutorInvariant, PTL DEF Spec
<1> QED
  BY <1>3 DEF A

\* The conditions under which run r's task has a step to take, without waiting for
\* another run.
CanStep(r) == task[r] \in PermitStates \/ (task[r] = "acquire" /\ permits > 0)

\* With no permit left somebody holds one.
LEMMA SomebodyHolds ==
    ASSUME IInv, permits = 0
    PROVE  \E h \in Runs : task[h] \in PermitStates
<1>1. Cardinality(Holders) \in Nat /\ permits = Limit - Cardinality(Holders)
  BY HoldersFinite DEF IInv, PermitsConserved
<1>2. Cardinality(Holders) # 0
  BY <1>1, ExecutorAssumption
<1>3. Holders # {}
  BY <1>2, FS_EmptySet
<1> QED
  BY <1>3 DEF Holders

\* Runs never all wait on each other: whenever one waits for a permit, a permit is free or
\* a run holds one whose own next step waits for nobody, so a panic, a failure or a caller
\* that went away never leaves the others queueing at the semaphore for ever.
THEOREM WaitingRunsAreServed ==
    Spec => [](\A r \in Runs : task[r] = "acquire" => \E h \in Runs : CanStep(h))
<1>1. IInv => \A r \in Runs : task[r] = "acquire" => \E h \in Runs : CanStep(h)
  <2> SUFFICES ASSUME IInv, NEW r \in Runs, task[r] = "acquire"
               PROVE  \E h \in Runs : CanStep(h)
    OBVIOUS
  <2>1. permits \in Nat
    BY DEF IInv, TypeOK
  <2> QED
    BY <2>1, SomebodyHolds DEF CanStep
<1> QED
  BY <1>1, ExecutorInvariant, PTL

\* The run a loop awaits was not dropped: only an endpoint's caller goes away by itself,
\* and a loop that is aborted awaits nothing any more.
AwaitOK == \A w \in Scheduled : loop[w] = "awaiting" => task[awaiting[w]] # "dropped"

\* Which runs a step of the engine may drop.
Drops(r) ==
    \/ origin[r] = "endpoint"
    \/ \E w \in Scheduled : loop[w] = "awaiting" /\ awaiting[w] = r /\ loop'[w] = "aborted"

\* No step of a run's own drops it, and starting another run leaves it alone.
LEMMA RunStepDropsNone ==
    ASSUME TypeOK, NEW r \in Runs, NEW s \in Runs, task[s] # "dropped",
           RunStep(r) \/ ExecuteSync(r) \/ ExecuteAsync(r)
    PROVE  task'[s] # "dropped"
<1>1. \E to \in TaskStates \ {"dropped"} : task' = [task EXCEPT ![r] = to]
  BY DEF RunStep, ExecuteSync, ExecuteAsync, AcquirePermit, BuildInitialMessage, FinishSteps,
         PanicInSteps, RecordOutcome, EmitOutcome, TaskStates
<1> QED
  BY <1>1 DEF TypeOK

LEMMA OnlyCallersDrop ==
    ASSUME IInv, EngineInv, [EngineNext]_allVars,
           NEW s \in Runs, task[s] # "dropped", task'[s] = "dropped"
    PROVE  Drops(s)
<1> USE DEF IInv
<1>1. CASE task' = task
  BY <1>1
<1>2. ASSUME NEW r \in Runs, RunStep(r) \/ ExecuteSync(r) \/ ExecuteAsync(r) PROVE FALSE
  BY <1>2, RunStepDropsNone
<1>3. ASSUME NEW r \in Runs, DropCaller(r) PROVE r = s
  BY <1>3 DEF DropCaller, TypeOK
<1>4. ASSUME NEW w \in Scheduled, LoopStep(w) PROVE Drops(s)
  <2>1. CASE AbortLoop(w)
    <3>1. loop[w] = "awaiting" /\ DropCaller(awaiting[w])
      BY <1>1, <2>1 DEF AbortLoop, vars
    <3>2. awaiting[w] \in Runs
      BY <3>1 DEF EngineInv, LoopOK, ScheduledRuns
    <3>3. awaiting[w] = s
      BY <1>3, <3>1, <3>2
    <3>4. loop'[w] = "aborted"
      BY <2>1 DEF AbortLoop, EngineInv, EngineTypeOK
    <3> QED
      BY <3>1, <3>3, <3>4 DEF Drops
  <2>2. CASE RunReturns(w) \/ FinishTick(w) \/ LoopDies(w)
    BY <1>1, <2>2 DEF RunReturns, FinishTick, LoopDies, vars
  <2> QED
    BY <1>4, <2>1, <2>2 DEF LoopStep
<1>5. ASSUME NEW r \in Runs, DropEndpointCaller(r) PROVE Drops(s)
  BY <1>3, <1>5 DEF DropEndpointCaller, Drops
<1>6. ASSUME NEW r \in Runs, NEW name \in DOMAIN Listeners, PluginEmits(r, name) PROVE FALSE
  BY <1>1, <1>6 DEF PluginEmits, vars
<1>7. CASE Stop
  BY <1>1, <1>7 DEF Stop, vars
<1>8. CASE UNCHANGED allVars
  BY <1>1, <1>8 DEF allVars, vars
<1> QED
  BY <1>2, <1>4, <1>5, <1>6, <1>7, <1>8
     DEF EngineNext, FireTick, HandleEndpoint, StartEventTask, ExecuteWorkflow, EngineRunStep

\* A loop that awaits after a step awaited the same run before it, or has just started one.
LEMMA AwaitsTheSame ==
    ASSUME EngineInv, [EngineNext]_allVars, NEW w \in Scheduled, loop'[w] = "awaiting"
    PROVE  \/ loop[w] = "awaiting" /\ awaiting'[w] = awaiting[w]
           \/ \E r \in Runs : ExecuteSync(r) /\ awaiting'[w] = r
<1> USE DEF EngineInv, EngineTypeOK
<1>1. CASE UNCHANGED <<loop, awaiting>>
  BY <1>1
<1>2. ASSUME NEW v \in Scheduled, NEW r \in Runs, FireTick(v, r)
      PROVE  \/ loop[w] = "awaiting" /\ awaiting'[w] = awaiting[w]
             \/ \E q \in Runs : ExecuteSync(q) /\ awaiting'[w] = q
  <2>1. CASE v = w
    BY <1>2, <2>1 DEF FireTick, ExecuteWorkflow
  <2>2. CASE v # w
    BY <1>2, <2>2 DEF FireTick
  <2> QED
    BY <2>1, <2>2
<1>3. ASSUME NEW v \in Scheduled, LoopStep(v)
      PROVE  loop[w] = "awaiting" /\ awaiting'[w] = awaiting[w]
  BY <1>3 DEF LoopStep, RunReturns, FinishTick, LoopDies, AbortLoop
<1> QED
  BY <1>1, <1>2, <1>3
     DEF EngineNext, HandleEndpoint, StartEventTask, EngineRunStep, DropEndpointCaller,
         PluginEmits, Stop, allVars, engineVars

LEMMA NextAwaitOK == IInv /\ EngineInv /\ AwaitOK /\ [EngineNext]_allVars => AwaitOK'
<1> SUFFICES ASSUME IInv, EngineInv, AwaitOK, [EngineNext]_allVars,
                    NEW w \in Scheduled, loop'[w] = "awaiting",
                    task'[awaiting'[w]] = "dropped"
             PROVE  FALSE
  BY DEF AwaitOK
<1>1. CASE loop[w] = "awaiting" /\ awaiting'[w] = awaiting[w]
  <2>1. awaiting[w] \in ScheduledRuns(w) /\ task[awaiting[w]] # "dropped"
    BY <1>1 DEF EngineInv, LoopOK, AwaitOK
  <2>2. awaiting[w] \in Runs /\ origin[awaiting[w]] = "schedule" /\ workflow[awaiting[w]] = w
    BY <2>1 DEF ScheduledRuns
  <2>3. Drops(awaiting[w])
    BY <1>1, <2>1, <2>2, OnlyCallersDrop
  <2>4. PICK v \in Scheduled :
           loop[v] = "awaiting" /\ awaiting[v] = awaiting[w] /\ loop'[v] = "aborted"
    BY <2>2, <2>3 DEF Drops
  <2>5. v = w
    BY <2>2, <2>4 DEF EngineInv, LoopOK, ScheduledRuns
  <2> QED
    BY <2>4, <2>5
<1>2. ASSUME NEW r \in Runs, ExecuteSync(r), awaiting'[w] = r PROVE FALSE
  <2>1. task'[r] = "acquire"
    BY <1>2 DEF ExecuteSync, IInv, TypeOK
  <2> QED
    BY <1>2, <2>1
<1> QED
  BY <1>1, <1>2, AwaitsTheSame

\* A schedule loop never waits for something that cannot come: the run it awaits is its
\* own and was not dropped; it has returned or panicked, which ends the wait, or it can
\* take a step, or it queues for a permit while another run can.  The loop goes on as
\* soon as runs do (run_schedule_loop).
THEOREM AwaitedRunIsNeverLost ==
    EngineSpec => [](\A w \in Scheduled : loop[w] = "awaiting" =>
                        /\ awaiting[w] \in ScheduledRuns(w)
                        /\ \/ task[awaiting[w]] \in {"done", "panicked"}
                           \/ CanStep(awaiting[w])
                           \/ task[awaiting[w]] = "acquire" /\ \E h \in Runs : CanStep(h))
<1> DEFINE Found ==
      \A w \in Scheduled : loop[w] = "awaiting" =>
         /\ awaiting[w] \in ScheduledRuns(w)
         /\ \/ task[awaiting[w]] \in {"done", "panicked"}
            \/ CanStep(awaiting[w])
            \/ task[awaiting[w]] = "acquire" /\ \E h \in Runs : CanStep(h)
<1>1. EngineInit => AwaitOK
  BY DEF EngineInit, AwaitOK
<1>2. EngineSpec => []AwaitOK
  BY <1>1, NextAwaitOK, EngineInvariant, PTL DEF EngineSpec
<1>3. IInv /\ EngineInv /\ AwaitOK => Found
  <2> SUFFICES ASSUME IInv, EngineInv, AwaitOK, NEW w \in Scheduled, loop[w] = "awaiting"
               PROVE  /\ awaiting[w] \in ScheduledRuns(w)
                      /\ \/ task[awaiting[w]] \in {"done", "panicked"}
                         \/ CanStep(awaiting[w])
                         \/ task[awaiting[w]] = "acquire" /\ \E h \in Runs : CanStep(h)
    OBVIOUS
  <2>1. /\ awaiting[w] \in ScheduledRuns(w) /\ Mode[w] = "sync"
        /\ task[awaiting[w]] # "dropped"
    BY DEF EngineInv, LoopOK, AwaitOK
  <2>2. awaiting[w] \in Runs /\ kind[awaiting[w]] = "sync"
    BY <2>1 DEF ScheduledRuns, EngineInv, OriginOK
  <2>3. task[awaiting[w]] \in {"acquire", "steps", "done", "panicked"}
    BY <2>1, <2>2 DEF IInv, TypeOK, TaskStates, RunOK
  <2>4. task[awaiting[w]] = "acquire" => \E h \in Runs : CanStep(h)
    <3>1. permits = 0 \/ permits > 0
      BY SMTT(60) DEF IInv, TypeOK
    <3>2. CASE permits = 0
      BY <3>2, SomebodyHolds, ZenonT(60) DEF CanStep
    <3>3. CASE permits > 0
      BY <2>2, <3>3, ZenonT(60) DEF CanStep
    <3> QED
      BY <3>1, <3>2, <3>3, ZenonT(60)
  <2> QED
    BY <2>1, <2>3, <2>4 DEF CanStep, PermitStates
<1> HIDE DEF Found
<1>4. EngineSpec => []Found
  BY <1>2, <1>3, EngineInvariant, PTL
<1> QED
  BY <1>4 DEF Found

-----------------------------------------------------------------------------
(* The registry as a client sees it *)

\* What one step of the executor does to what is seen of one job.
SeenVars == <<[r \in Runs |-> Seen(r)], [r \in Runs |-> Settled(r)]>>

\* Only the kind, the task, the result and the entry of a run matter.
LEMMA SameSeen ==
    ASSUME NEW r \in Runs, kind'[r] = kind[r], jobs'[r] = jobs[r],
           kind[r] = "async" =>
              \/ task'[r] = task[r] /\ outcome'[r] = outcome[r]
              \/ task[r] \notin {"emit", "done"} /\ task'[r] \notin {"emit", "done"}
              \/ {task[r], task'[r]} \subseteq {"emit", "done"} /\ outcome'[r] = outcome[r]
    PROVE  Seen(r)' = Seen(r) /\ Settled(r)' = Settled(r)
<1>1. Seen(r)' = Seen(r)
  BY DEF Seen
<1>2. Settled(r)' = Settled(r)
  <2>1. CASE kind[r] # "async"
    BY <2>1 DEF Settled
  <2>2. CASE kind[r] = "async"
    BY <2>2 DEF Settled, StatusOf
  <2> QED
    BY <2>1, <2>2
<1> QED
  BY <1>1, <1>2

\* A step after which every run is seen as before is a stutter.
LEMMA AllSame ==
    ASSUME \A r \in Runs : Seen(r)' = Seen(r) /\ Settled(r)' = Settled(r)
    PROVE  UNCHANGED SeenVars
BY DEF SeenVars

\* Steps that concern run q only.
LEMMA OthersSame ==
    ASSUME NEW q \in Runs, TypeOK,
           \A r \in Runs \ {q} : /\ kind'[r] = kind[r] /\ jobs'[r] = jobs[r]
                                 /\ task'[r] = task[r] /\ outcome'[r] = outcome[r]
    PROVE  \A r \in Runs \ {q} : Seen(r)' = Seen(r) /\ Settled(r)' = Settled(r)
BY SameSeen

\* A step that starts, runs, ends or registers run q leaves the other runs alone.
LEMMA LeavesOthers ==
    ASSUME TypeOK, NEW q \in Runs,
           \/ ExecuteSync(q) \/ ExecuteAsync(q) \/ Spawn(q) \/ RegisterSpawned(q)
           \/ RunStep(q) \/ DropCaller(q)
    PROVE  \A r \in Runs \ {q} : /\ kind'[r] = kind[r] /\ jobs'[r] = jobs[r]
                                 /\ task'[r] = task[r] /\ outcome'[r] = outcome[r]
<1> USE DEF TypeOK
<1>1. CASE ExecuteSync(q)
  BY <1>1 DEF ExecuteSync
<1>2. CASE ExecuteAsync(q)
  BY <1>2 DEF ExecuteAsync
<1>3. CASE Spawn(q)
  BY <1>3 DEF Spawn
<1>4. CASE RegisterSpawned(q)
  BY <1>4 DEF RegisterSpawned
<1>5. CASE DropCaller(q)
  BY <1>5 DEF DropCaller
<1>6. CASE AcquirePermit(q)
  BY <1>6 DEF AcquirePermit
<1>7. CASE BuildInitialMessage(q)
  BY <1>7 DEF BuildInitialMessage
<1>8. ASSUME NEW result \in {"ok", "err"}, FinishSteps(q, result)
      PROVE  \A r \in Runs \ {q} : /\ kind'[r] = kind[r] /\ jobs'[r] = jobs[r]
                                   /\ task'[r] = task[r] /\ outcome'[r] = outcome[r]
  BY <1>8 DEF FinishSteps
<1>9. CASE PanicInSteps(q)
  BY <1>9 DEF PanicInSteps
<1>10. CASE RecordOutcome(q)
  BY <1>10 DEF RecordOutcome
<1>11. CASE EmitOutcome(q)
  BY <1>11 DEF EmitOutcome
<1> QED
  BY <1>1, <1>2, <1>3, <1>4, <1>5, <1>6, <1>7, <1>8, <1>9, <1>10, <1>11 DEF RunStep

\* Acceptance is execute_async.
LEMMA AsyncAccepts ==
    ASSUME IInv, NEW q \in Runs, ExecuteAsync(q)
    PROVE  Registry!Accept(q)
<1>1. kind[q] = "none" /\ kind'[q] = "async" /\ task'[q] = "acquire"
  BY DEF ExecuteAsync, IInv, TypeOK
<1>2. jobs'[q].status = "in_progress"
  BY DEF ExecuteAsync, IInv, TypeOK, Entry
<1>3. Seen(q) = "unknown" /\ Seen(q)' = "open"
  BY <1>1, <1>2 DEF Seen
<1>4. Settled(q) = "none" /\ Settled(q)' = "none"
  BY <1>1 DEF Settled
<1>5. \A r \in Runs \ {q} : Seen(r)' = Seen(r) /\ Settled(r)' = Settled(r)
  BY LeavesOthers, OthersSame DEF IInv
<1>6. [r \in Runs |-> Seen(r)]' = [[r \in Runs |-> Seen(r)] EXCEPT ![q] = "open"]
  BY <1>3, <1>5
<1>7. [r \in Runs |-> Settled(r)]' = [r \in Runs |-> Settled(r)]
  BY <1>4, <1>5
<1> QED
  BY <1>3, <1>6, <1>7 DEF Registry!Accept

\* A result is what the recording of an asynchronous run's outcome makes it.
LEMMA RecordSettles ==
    ASSUME IInv, NEW q \in Runs, kind[q] = "async", RecordOutcome(q)
    PROVE  \E result \in Registry!Results : Registry!Settle(q, result)
<1> DEFINE new == StatusOf(outcome[q])
<1>1. /\ task[q] = "record" /\ task'[q] = "emit" /\ kind'[q] = "async"
      /\ outcome'[q] = outcome[q]
  BY DEF RecordOutcome, IInv, TypeOK
<1>2. jobs'[q].status = new
  BY DEF RecordOutcome, IInv, TypeOK, Entry
<1>3. new \in {"completed", "failed"}
  BY DEF StatusOf
<1>4. jobs[q].status \in {"absent", "in_progress"}
  BY <1>1 DEF IInv, JobReflectsRun, TypeOK, JobEntry, JobStatus, Terminal
<1>5. Settled(q)' = new
  BY <1>1 DEF Settled, StatusOf
<1> HIDE DEF new
<1>6. Seen(q) \in {"open", "forgotten"} /\ Seen(q)' = new
  BY <1>1, <1>2, <1>3, <1>4 DEF Seen
<1>7. Settled(q) = "none"
  BY <1>1 DEF Settled
<1>8. \A r \in Runs \ {q} : Seen(r)' = Seen(r) /\ Settled(r)' = Settled(r)
  BY LeavesOthers, OthersSame DEF IInv, RunStep
<1>9. [r \in Runs |-> Seen(r)]' = [[r \in Runs |-> Seen(r)] EXCEPT ![q] = new]
  BY <1>6, <1>8
<1>10. [r \in Runs |-> Settled(r)]' = [[r \in Runs |-> Settled(r)] EXCEPT ![q] = new]
  BY <1>5, <1>8
<1>11. Registry!Settle(q, new)
  BY <1>6, <1>7, <1>9, <1>10 DEF Registry!Settle
<1> QED
  BY <1>3, <1>11 DEF Registry!Results

\* The clean-up forgets what has expired.
LEMMA CleanupForgets ==
    ASSUME IInv, CleanupExpiredJobs
    PROVE  \E set \in SUBSET Runs : Registry!Forget(set)
<1> DEFINE gone == {r \in Runs : kind[r] = "async" /\ Expired(jobs[r])}
<1>1. /\ kind' = kind /\ task' = task /\ outcome' = outcome
      /\ \A r \in Runs : jobs'[r] = IF Expired(jobs[r]) THEN Absent ELSE jobs[r]
  BY DEF CleanupExpiredJobs
<1>2. ASSUME NEW r \in Runs PROVE Settled(r)' = Settled(r)
  BY <1>1 DEF Settled
<1>3. ASSUME NEW r \in gone PROVE Seen(r)' = "forgotten" /\ Seen(r) # "unknown"
  <2>1. r \in Runs /\ kind[r] = "async" /\ kind'[r] = "async" /\ jobs'[r].status = "absent"
    BY <1>1 DEF Absent
  <2>2. jobs[r].status \in JobStatus
    BY <2>1 DEF IInv, TypeOK, JobEntry
  <2>3. jobs[r].status # "unknown"
    BY <2>2 DEF JobStatus
  <2> QED
    BY <2>1, <2>3 DEF Seen
<1>4. ASSUME NEW r \in Runs \ gone PROVE Seen(r)' = Seen(r)
  BY <1>1 DEF Seen
<1> HIDE DEF gone
<1>5. gone \in SUBSET Runs
  BY DEF gone
<1>6. [r \in Runs |-> Seen(r)]' =
         [r \in Runs |-> IF r \in gone THEN "forgotten" ELSE [s \in Runs |-> Seen(s)][r]]
  BY <1>3, <1>4, <1>5
<1>7. [r \in Runs |-> Settled(r)]' = [r \in Runs |-> Settled(r)]
  BY <1>2
<1>8. \A r \in gone : [s \in Runs |-> Seen(s)][r] # "unknown"
  BY <1>3, <1>5
<1>9. Registry!Forget(gone)
  BY <1>6, <1>7, <1>8 DEF Registry!Forget
<1> QED
  BY <1>5, <1>9

\* Everything else is not seen.
LEMMA RestIsUnseen ==
    ASSUME IInv, NEW q \in Runs,
           \/ ExecuteSync(q) \/ Spawn(q) \/ RegisterSpawned(q) \/ DropCaller(q)
           \/ RunStep(q) /\ ~(kind[q] = "async" /\ RecordOutcome(q))
    PROVE  UNCHANGED SeenVars
<1>1. \A r \in Runs \ {q} : Seen(r)' = Seen(r) /\ Settled(r)' = Settled(r)
  BY LeavesOthers, OthersSame DEF IInv
<1>2. CASE kind[q] # "async" /\ kind'[q] # "async"
  <2>1. Seen(q)' = Seen(q) /\ Settled(q)' = Settled(q)
    BY <1>2 DEF Seen, Settled
  <2> QED
    BY <1>1, <2>1, AllSame
<1>3. CASE kind[q] = "async"
  <2>1. ~ExecuteSync(q) /\ ~Spawn(q) /\ ~DropCaller(q) /\ ~RegisterSpawned(q)
    BY <1>3 DEF ExecuteSync, Spawn, DropCaller, RegisterSpawned, IInv, RunOK
  <2>2. RunStep(q) /\ ~RecordOutcome(q)
    BY <1>3, <2>1
  <2>3. task[q] # "build" /\ TypeOK
    BY <1>3 DEF IInv, RunOK
  <2>4. kind'[q] = kind[q] /\ jobs'[q] = jobs[q]
    BY <2>2 DEF RunStep, AcquirePermit, BuildInitialMessage, FinishSteps, PanicInSteps, EmitOutcome
  <2>5. \/ task'[q] = task[q] /\ outcome'[q] = outcome[q]
        \/ task[q] \notin {"emit", "done"} /\ task'[q] \notin {"emit", "done"}
        \/ {task[q], task'[q]} \subseteq {"emit", "done"} /\ outcome'[q] = outcome[q]
    BY <1>3, <2>2, <2>3
       DEF RunStep, AcquirePermit, BuildInitialMessage, FinishSteps, PanicInSteps, EmitOutcome, TypeOK
  <2> QED
    BY <1>1, <2>4, <2>5, SameSeen, AllSame
<1>4. kind[q] # "async" => kind'[q] # "async"
  BY DEF ExecuteSync, Spawn, RegisterSpawned, DropCaller, RunStep, AcquirePermit,
         BuildInitialMessage, FinishSteps, PanicInSteps, RecordOutcome, EmitOutcome, IInv, TypeOK
<1> QED
  BY <1>2, <1>3, <1>4

\* Each step of the executor is a step of the abstract registry or is not seen.
LEMMA ExecutorSimulates ==
    ASSUME IInv, [Next]_vars
    PROVE  [Registry!Next]_<<[r \in Runs |-> Seen(r)], [r \in Runs |-> Settled(r)]>>
<1>1. ASSUME NEW q \in Runs, ExecuteAsync(q) PROVE Registry!Next
  BY <1>1, AsyncAccepts DEF Registry!Next
<1>2. ASSUME NEW q \in Runs, kind[q] = "async", RecordOutcome(q) PROVE Registry!Next
  BY <1>2, RecordSettles DEF Registry!Next
<1>3. CASE CleanupExpiredJobs
  BY <1>3, CleanupForgets DEF Registry!Next
<1>4. CASE Tick \/ UNCHANGED vars
  <2>1. kind' = kind /\ jobs' = jobs /\ task' = task /\ outcome' = outcome
    BY <1>4 DEF Tick, vars
  <2>2. UNCHANGED SeenVars
    BY <2>1, SameSeen, AllSame
  <2> QED
    BY <2>2 DEF SeenVars
<1>5. ASSUME NEW q \in Runs,
             \/ ExecuteSync(q) \/ Spawn(q) \/ RegisterSpawned(q) \/ DropCaller(q)
             \/ RunStep(q) /\ ~(kind[q] = "async" /\ RecordOutcome(q))
      PROVE  UNCHANGED SeenVars
  BY <1>5, RestIsUnseen
<1> QED
  BY <1>1, <1>2, <1>3, <1>4, <1>5 DEF Next, SeenVars

\* The executor's registry implements JobRegistry for the jobs of execute_async: a job gets
\* one result, once, is never open again, and comes back after it was forgotten only with
\* its result, for any runs, permits, time to live and clean-ups, and whatever the runs of
\* spawn and execute_sync do beside it.
THEOREM ExecutorImplementsRegistry == Spec => JobsSettleOnce
<1>1. Init => Registry!Init
  <2> SUFFICES ASSUME Init PROVE Registry!Init
    OBVIOUS
  <2>1. \A r \in Runs : Seen(r) = "unknown" /\ Settled(r) = "none"
    BY DEF Init, Seen, Settled
  <2> QED
    BY <2>1 DEF Registry!Init
<1> QED
  BY <1>1, ExecutorSimulates, ExecutorInvariant, PTL DEF Spec, JobsSettleOnce, Registry!Spec
=============================================================================
