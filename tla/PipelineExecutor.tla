--------------------------- MODULE PipelineExecutor ---------------------------
(***************************************************************************)
(* The workflow engine's PipelineExecutor                                  *)
(* (packages/workflow-engine/src/executor.rs): the concurrency semaphore,  *)
(* the job registry shared by all background executions, its time-to-live  *)
(* clean-up, and the three ways in which a workflow is started.            *)
(*                                                                         *)
(*   execute_sync   the caller awaits the steps; no job is registered      *)
(*   execute_async  registers the job, then starts a background task       *)
(*   spawn          starts TWO background tasks: one registers the job,    *)
(*                  the other runs it                                      *)
(*                                                                         *)
(* What run_steps does is the subject of module StepEngine; here it ends   *)
(* with Ok, with Err, or with a panic that kills its task.  The semaphore  *)
(* is never closed, so the "concurrency semaphore closed" branches cannot  *)
(* be taken.                                                               *)
(***************************************************************************)
EXTENDS Integers, FiniteSets

CONSTANTS
    Runs,      \* workflow executions; a run's job id is the run itself
    Limit,     \* permits of the semaphore (DEFAULT_CONCURRENCY_LIMIT)
    Ttl,       \* job_ttl, in clock ticks
    MaxTime    \* bound on the clock

ASSUME ExecutorAssumption ==
    /\ IsFiniteSet(Runs)
    /\ Limit \in Nat \ {0}
    /\ Ttl \in Nat \ {0}
    /\ MaxTime \in Nat

VARIABLES
    kind,      \* how each run was started
    task,      \* where the task (or future) that runs the steps is
    register,  \* spawn's registration task
    outcome,   \* what run_steps (or build_initial_message) returned
    created,   \* created_at, read when the run is started
    jobs,      \* the job registry
    permits,   \* permits left in the semaphore
    emitted,   \* the event handed to the WorkflowEventEmitter
    clock

vars == <<kind, task, register, outcome, created, jobs, permits, emitted, clock>>

-----------------------------------------------------------------------------

Kinds == {"none", "sync", "async", "spawn"}

TaskStates == {"idle", "acquire", "build", "steps", "record", "emit",
               "done", "dropped", "panicked"}

\* The states in which the task owns `_permit`.
PermitStates == {"build", "steps", "record", "emit"}

JobStatus == {"absent", "in_progress", "completed", "failed"}

JobEntry == [status : JobStatus, created_at : Nat]

Absent == [status |-> "absent", created_at |-> 0]

Entry(status, at) == [status |-> status, created_at |-> at]

Holders == {r \in Runs : task[r] \in PermitStates}

Terminal == {"completed", "failed"}

\* The job status that records a result.
StatusOf(result) == IF result = "ok" THEN "completed" ELSE "failed"

TypeOK ==
    /\ kind \in [Runs -> Kinds]
    /\ task \in [Runs -> TaskStates]
    /\ register \in [Runs -> {"none", "pending", "done"}]
    /\ outcome \in [Runs -> {"none", "ok", "err"}]
    /\ created \in [Runs -> Nat]
    /\ jobs \in [Runs -> JobEntry]
    /\ permits \in Nat
    /\ emitted \in [Runs -> {"none"} \cup Terminal]
    /\ clock \in Nat

Init ==
    /\ kind = [r \in Runs |-> "none"]
    /\ task = [r \in Runs |-> "idle"]
    /\ register = [r \in Runs |-> "none"]
    /\ outcome = [r \in Runs |-> "none"]
    /\ created = [r \in Runs |-> 0]
    /\ jobs = [r \in Runs |-> Absent]
    /\ permits = Limit
    /\ emitted = [r \in Runs |-> "none"]
    /\ clock = 0

-----------------------------------------------------------------------------
(* Starting a run *)

ExecuteSync(r) ==
    /\ kind[r] = "none"
    /\ kind' = [kind EXCEPT ![r] = "sync"]
    /\ task' = [task EXCEPT ![r] = "acquire"]
    /\ created' = [created EXCEPT ![r] = clock]
    /\ UNCHANGED <<register, outcome, jobs, permits, emitted, clock>>

\* Mutant: the job is registered by a task of its own, as spawn does it.
ExecuteAsyncRegistersLater(r) ==
    /\ kind[r] = "none"
    /\ kind' = [kind EXCEPT ![r] = "async"]
    /\ task' = [task EXCEPT ![r] = "acquire"]
    /\ register' = [register EXCEPT ![r] = "pending"]
    /\ created' = [created EXCEPT ![r] = clock]
    /\ UNCHANGED <<outcome, jobs, permits, emitted, clock>>

\* The job is in the registry before the background task exists.
ExecuteAsync(r) ==
    /\ kind[r] = "none"
    /\ kind' = [kind EXCEPT ![r] = "async"]
    /\ task' = [task EXCEPT ![r] = "acquire"]
    /\ created' = [created EXCEPT ![r] = clock]
    /\ jobs' = [jobs EXCEPT ![r] = Entry("in_progress", clock)]
    /\ UNCHANGED <<register, outcome, permits, emitted, clock>>

\* spawn is not async: it can only start the task that will register the job.
Spawn(r) ==
    /\ kind[r] = "none"
    /\ kind' = [kind EXCEPT ![r] = "spawn"]
    /\ task' = [task EXCEPT ![r] = "acquire"]
    /\ register' = [register EXCEPT ![r] = "pending"]
    /\ created' = [created EXCEPT ![r] = clock]
    /\ UNCHANGED <<outcome, jobs, permits, emitted, clock>>

RegisterSpawned(r) ==
    /\ register[r] = "pending"
    /\ register' = [register EXCEPT ![r] = "done"]
    /\ jobs' = [jobs EXCEPT ![r] = Entry("in_progress", created[r])]
    /\ UNCHANGED <<kind, task, outcome, created, permits, emitted, clock>>

-----------------------------------------------------------------------------
(* Running it *)

AcquirePermit(r) ==
    /\ task[r] = "acquire"
    /\ permits > 0
    /\ permits' = permits - 1
    /\ task' = [task EXCEPT ![r] = IF kind[r] = "spawn" THEN "build" ELSE "steps"]
    /\ UNCHANGED <<kind, register, outcome, created, jobs, emitted, clock>>

\* Mutant: the error branch returns without recording or emitting anything.
BuildFailureReturnsSilently(r) ==
    /\ task[r] = "build"
    /\ \/ task' = [task EXCEPT ![r] = "steps"] /\ UNCHANGED permits
       \/ task' = [task EXCEPT ![r] = "done"] /\ permits' = permits + 1
    /\ UNCHANGED <<kind, register, outcome, created, jobs, emitted, clock>>

\* Only spawn builds the initial message inside the task; a trigger payload
\* that is not a JSON object makes it fail.
BuildInitialMessage(r) ==
    /\ task[r] = "build"
    /\ \/ /\ task' = [task EXCEPT ![r] = "steps"]
          /\ UNCHANGED outcome
       \/ /\ task' = [task EXCEPT ![r] = "record"]
          /\ outcome' = [outcome EXCEPT ![r] = "err"]
    /\ UNCHANGED <<kind, register, created, jobs, permits, emitted, clock>>

\* Mutant: the result is emitted but never inserted in the registry.
FinishStepsWithoutRecording(r, result) ==
    /\ task[r] = "steps"
    /\ outcome' = [outcome EXCEPT ![r] = result]
    /\ task' = [task EXCEPT ![r] = IF kind[r] = "sync" THEN "done" ELSE "emit"]
    /\ permits' = IF kind[r] = "sync" THEN permits + 1 ELSE permits
    /\ UNCHANGED <<kind, register, created, jobs, emitted, clock>>

\* run_steps returns.  A synchronous caller gets the result and the permit is
\* dropped; a background task still has to record it.
FinishSteps(r, result) ==
    /\ task[r] = "steps"
    /\ outcome' = [outcome EXCEPT ![r] = result]
    /\ IF kind[r] = "sync"
       THEN /\ task' = [task EXCEPT ![r] = "done"]
            /\ permits' = permits + 1
       ELSE /\ task' = [task EXCEPT ![r] = "record"]
            /\ UNCHANGED permits
    /\ UNCHANGED <<kind, register, created, jobs, emitted, clock>>

\* A panic while a step runs unwinds the task: the permit is dropped, nothing
\* is recorded and no event is emitted.
PanicInSteps(r) ==
    /\ task[r] = "steps"
    /\ task' = [task EXCEPT ![r] = "panicked"]
    /\ permits' = permits + 1
    /\ UNCHANGED <<kind, register, outcome, created, jobs, emitted, clock>>

\* Mutant: a dropped future keeps its permit.
DropCallerLeaksPermit(r) ==
    /\ kind[r] = "sync"
    /\ task[r] \in {"acquire", "steps"}
    /\ task' = [task EXCEPT ![r] = "dropped"]
    /\ UNCHANGED <<kind, register, outcome, created, jobs, permits, emitted, clock>>

\* The awaiting caller of execute_sync goes away (a closed connection, an
\* aborted schedule loop) and the future is dropped with its permit.
DropCaller(r) ==
    /\ kind[r] = "sync"
    /\ task[r] \in {"acquire", "steps"}
    /\ task' = [task EXCEPT ![r] = "dropped"]
    /\ permits' = IF task[r] = "steps" THEN permits + 1 ELSE permits
    /\ UNCHANGED <<kind, register, outcome, created, jobs, emitted, clock>>

RecordOutcome(r) ==
    /\ task[r] = "record"
    /\ task' = [task EXCEPT ![r] = "emit"]
    /\ jobs' = [jobs EXCEPT ![r] = Entry(StatusOf(outcome[r]), created[r])]
    /\ UNCHANGED <<kind, register, outcome, created, permits, emitted, clock>>

\* The event is emitted while the permit is still held; then the task ends.
EmitOutcome(r) ==
    /\ task[r] = "emit"
    /\ task' = [task EXCEPT ![r] = "done"]
    /\ emitted' = [emitted EXCEPT ![r] = StatusOf(outcome[r])]
    /\ permits' = permits + 1
    /\ UNCHANGED <<kind, register, outcome, created, jobs, clock>>

-----------------------------------------------------------------------------
(* The registry's clean-up and the clock *)

\* Mutant: an entry is dropped one tick before its time to live has passed.
ExpiredOneTickEarly(entry) == clock - entry.created_at >= Ttl - 1

Expired(entry) == clock - entry.created_at >= Ttl

\* Entries are dropped by age alone, whatever their status.
CleanupExpiredJobs ==
    /\ jobs' = [r \in Runs |-> IF Expired(jobs[r]) THEN Absent ELSE jobs[r]]
    /\ jobs' # jobs
    /\ UNCHANGED <<kind, task, register, outcome, created, permits, emitted, clock>>

Tick ==
    /\ clock < MaxTime
    /\ clock' = clock + 1
    /\ UNCHANGED <<kind, task, register, outcome, created, jobs, permits, emitted>>

RunStep(r) ==
    \/ AcquirePermit(r)
    \/ BuildInitialMessage(r)
    \/ \E result \in {"ok", "err"} : FinishSteps(r, result)
    \/ PanicInSteps(r)
    \/ RecordOutcome(r)
    \/ EmitOutcome(r)

Next ==
    \/ \E r \in Runs :
          \/ ExecuteSync(r)
          \/ ExecuteAsync(r)
          \/ Spawn(r)
          \/ RegisterSpawned(r)
          \/ RunStep(r)
          \/ DropCaller(r)
    \/ CleanupExpiredJobs
    \/ Tick

\* The runtime polls every ready task; a permit that is free goes to some
\* waiting task; plugins return.
Fairness == \A r \in Runs : WF_vars(RunStep(r)) /\ WF_vars(RegisterSpawned(r))

Spec == Init /\ [][Next]_vars /\ Fairness
-----------------------------------------------------------------------------
(* What must hold *)

\* The semaphore neither loses nor invents a permit, whatever ends a run:
\* completion, failure, a panic or a caller that goes away.  So never more than
\* Limit runs are past `semaphore.acquire()`, and none is locked out by a leak.
PermitsConserved == permits = Limit - Cardinality(Holders)

\* A final status in the registry is the real result of a run that has ended,
\* and a job started by execute_async is "in progress" only before its result
\* has been recorded.
JobReflectsRun ==
    \A r \in Runs :
        /\ jobs[r].status \in Terminal =>
              /\ task[r] \in {"emit", "done"}
              /\ jobs[r].status = StatusOf(outcome[r])
        /\ kind[r] = "async" /\ jobs[r].status = "in_progress" =>
              task[r] \in {"acquire", "steps", "record", "panicked"}

\* A client that was given a job id by execute_async finds the job in the
\* registry for the whole of its time to live.
JobKeptForItsTtl ==
    \A r \in Runs :
        kind[r] = "async" /\ clock - created[r] < Ttl => jobs[r].status # "absent"

\* By the time workflow.completed or workflow.failed is emitted, whoever reacts
\* to it and looks the job up sees that very result, unless the entry expired.
EventFollowsRegistry ==
    \A r \in Runs :
        kind[r] = "async" /\ emitted[r] # "none" /\ clock - created[r] < Ttl
            => jobs[r].status = emitted[r]

\* The result of a job started by execute_async is final: a later step may only
\* drop the entry, never reopen or change it.
AsyncResultIsFinal ==
    [][\A r \in Runs :
          kind[r] = "async" /\ jobs[r].status \in Terminal
              => jobs'[r] \in {jobs[r], Absent}]_vars

\* What a client of execute_async sees of its job, and the result the job has for good.
Seen(r) ==
    IF kind[r] # "async" THEN "unknown"
    ELSE CASE jobs[r].status = "absent"      -> "forgotten"
           [] jobs[r].status = "in_progress" -> "open"
           [] OTHER                          -> jobs[r].status

Settled(r) ==
    IF kind[r] = "async" /\ task[r] \in {"emit", "done"} THEN StatusOf(outcome[r]) ELSE "none"

Registry == INSTANCE JobRegistry WITH
    Jobs <- Runs, status <- [r \in Runs |-> Seen(r)], result <- [r \in Runs |-> Settled(r)]

\* The registry implements JobRegistry for the jobs of execute_async, whatever
\* spawn, clean-up, panics and slow runs do: a job gets one result, once; it is
\* never open again, and one that expired while it was open comes back only with
\* its result.
JobsSettleOnce == Registry!Spec

\* Every background execution ends with its event, unless a step panicked.
BackgroundRunSettles ==
    \A r \in Runs :
        kind[r] \in {"async", "spawn"} ~> (emitted[r] # "none" \/ task[r] = "panicked")
=============================================================================
