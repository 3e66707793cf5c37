---------------------------- MODULE WorkflowEngine ----------------------------
(***************************************************************************)
(* The workflow engine (packages/workflow-engine/src): the cron scheduler, *)
(* the event bus and the endpoint entry point, all of which start runs on  *)
(* the one PipelineExecutor that this module extends.                      *)
(*                                                                         *)
(* A workflow has at most one schedule loop, because load_workflows        *)
(* refuses duplicate ids.  A loop sleeps until its next fire time, asks    *)
(* the ScheduleJobTracker for the workflow, runs it and releases it.  An   *)
(* event starts one task per workflow that its name triggers.  spawn and   *)
(* the registry's clean-up take no part here: no trigger of the engine     *)
(* uses spawn, and nothing in it reads the registry.  The executor of      *)
(* WorkflowEngine::new has no event emitter, so the events of finished     *)
(* background runs do not reach the bus.                                   *)
(***************************************************************************)
EXTENDS PipelineExecutor

CONSTANTS
    Workflows,
    Mode,        \* [Workflows -> {"sync", "async"}], WorkflowDef::mode
    Scheduled,   \* the workflows with a schedule trigger
    Endpoints,   \* the workflows with an endpoint trigger
    Listeners,   \* [event names -> SUBSET Workflows], the event triggers
    MaxDepth,    \* EventBus::max_depth
    NoWorkflow,
    NoRun

ASSUME EngineAssumption ==
    /\ Mode \in [Workflows -> {"sync", "async"}]
    /\ Scheduled \subseteq Workflows
    /\ Endpoints \subseteq Workflows
    /\ "workflow.schedule.failed" \in DOMAIN Listeners
    /\ \A name \in DOMAIN Listeners : Listeners[name] \subseteq Workflows
    /\ MaxDepth \in Nat
    /\ NoWorkflow \notin Workflows
    /\ NoRun \notin Runs

VARIABLES
    workflow,     \* the workflow of a run
    origin,       \* what triggered it
    chain,        \* how many events led to it, one after the other
    loop,         \* where each schedule loop is
    awaiting,     \* the synchronous run a loop awaits
    in_progress,  \* ScheduleJobTracker::in_progress
    reported,     \* scheduled runs reported with workflow.schedule.failed
    stopping      \* Scheduler::stop has aborted the loops

engineVars == <<workflow, origin, chain, loop, awaiting, in_progress, reported, stopping>>
allVars == <<vars, engineVars>>

\* Runs no trigger has taken yet.
Fresh == {r \in Runs : origin[r] = "none"}

Active(r) == task[r] \in {"acquire"} \cup PermitStates

EngineInit ==
    /\ Init
    /\ workflow = [r \in Runs |-> NoWorkflow]
    /\ origin = [r \in Runs |-> "none"]
    /\ chain = [r \in Runs |-> 0]
    /\ loop = [w \in Scheduled |-> "sleeping"]
    /\ awaiting = [w \in Scheduled |-> NoRun]
    /\ in_progress = {}
    /\ reported = {}
    /\ stopping = FALSE

-----------------------------------------------------------------------------
(* Executing a workflow and emitting an event *)

ExecuteWorkflow(w, r) ==
    IF Mode[w] = "sync" THEN ExecuteSync(r) ELSE ExecuteAsync(r)

\* A run of workflow w is set up by a trigger.
Triggered(w, r, by, length) ==
    /\ workflow' = [workflow EXCEPT ![r] = w]
    /\ origin' = [origin EXCEPT ![r] = by]
    /\ chain' = [chain EXCEPT ![r] = length]

\* Every event that reaches the bus through WorkflowEventEmitter has depth 0:
\* those of the scheduler, and those of plugins, whose host function puts
\* execution_depth in the payload only.
DepthOf(length) == 0

\* One task per triggered workflow; the runs it will make are taken from Fresh.
\* Runs bounds the instance: with too few of them left, no task is started.
EmitEvent(name, length) ==
    IF DepthOf(length) > MaxDepth \/ Cardinality(Fresh) < Cardinality(Listeners[name])
    THEN UNCHANGED <<workflow, origin, chain>>
    ELSE \E run \in [Listeners[name] -> Fresh] :
            /\ \A v, w \in Listeners[name] : run[v] = run[w] => v = w
            /\ workflow' = [r \in Runs |->
                  IF \E w \in Listeners[name] : run[w] = r
                  THEN CHOOSE w \in Listeners[name] : run[w] = r
                  ELSE workflow[r]]
            /\ origin' = [r \in Runs |->
                  IF \E w \in Listeners[name] : run[w] = r THEN "event" ELSE origin[r]]
            /\ chain' = [r \in Runs |->
                  IF \E w \in Listeners[name] : run[w] = r THEN length + 1 ELSE chain[r]]

\* A task started by an event reaches executor.execute_workflow.
StartEventTask(r) ==
    /\ origin[r] = "event"
    /\ ExecuteWorkflow(workflow[r], r)
    /\ UNCHANGED engineVars

\* A plugin emits an event while its step runs (host_events_emit).
PluginEmits(r, name) ==
    /\ task[r] = "steps"
    /\ EmitEvent(name, chain[r])
    /\ UNCHANGED <<vars, loop, awaiting, in_progress, reported, stopping>>

HandleEndpoint(w, r) ==
    /\ r \in Fresh
    /\ Triggered(w, r, "endpoint", 0)
    /\ ExecuteWorkflow(w, r)
    /\ UNCHANGED <<loop, awaiting, in_progress, reported, stopping>>

-----------------------------------------------------------------------------
(* The schedule loops *)

\* Mutant: the loop starts a synchronous run without awaiting it.
FireTickWithoutAwaiting(w, r) ==
    /\ loop[w] = "sleeping"
    /\ w \notin in_progress
    /\ r \in Fresh
    /\ in_progress' = in_progress \cup {w}
    /\ Triggered(w, r, "schedule", 0)
    /\ ExecuteWorkflow(w, r)
    /\ loop' = [loop EXCEPT ![w] = "returned"]
    /\ UNCHANGED <<awaiting, reported, stopping>>

\* The fire time has come and try_start succeeds.  A tick that finds the
\* workflow in progress is skipped and changes nothing.  The payload of a
\* schedule trigger is always an object, so the initial message is always built.
FireTick(w, r) ==
    /\ loop[w] = "sleeping"
    /\ w \notin in_progress
    /\ r \in Fresh
    /\ in_progress' = in_progress \cup {w}
    /\ Triggered(w, r, "schedule", 0)
    /\ ExecuteWorkflow(w, r)
    /\ IF Mode[w] = "sync"
       THEN /\ loop' = [loop EXCEPT ![w] = "awaiting"]
            /\ awaiting' = [awaiting EXCEPT ![w] = r]
       ELSE /\ loop' = [loop EXCEPT ![w] = "returned"]
            /\ UNCHANGED awaiting
    /\ UNCHANGED <<reported, stopping>>

\* Mutant: the loop ignores what execute_workflow returned.
RunReturnsUnreported(w) ==
    /\ loop[w] = "awaiting"
    /\ task[awaiting[w]] = "done"
    /\ loop' = [loop EXCEPT ![w] = "returned"]
    /\ awaiting' = [awaiting EXCEPT ![w] = NoRun]
    /\ UNCHANGED <<vars, workflow, origin, chain, in_progress, reported, stopping>>

\* Mutant: the loop waits for a success.
RunReturnsOnlyOk(w) ==
    /\ loop[w] = "awaiting"
    /\ task[awaiting[w]] = "done"
    /\ outcome[awaiting[w]] = "ok"
    /\ loop' = [loop EXCEPT ![w] = "returned"]
    /\ awaiting' = [awaiting EXCEPT ![w] = NoRun]
    /\ UNCHANGED <<vars, workflow, origin, chain, in_progress, reported, stopping>>

\* execute_workflow returns to the loop, which reports a failure on the bus.
RunReturns(w) ==
    /\ loop[w] = "awaiting"
    /\ task[awaiting[w]] = "done"
    /\ loop' = [loop EXCEPT ![w] = "returned"]
    /\ awaiting' = [awaiting EXCEPT ![w] = NoRun]
    /\ IF outcome[awaiting[w]] = "err"
       THEN /\ reported' = reported \cup {awaiting[w]}
            /\ EmitEvent("workflow.schedule.failed", chain[awaiting[w]])
       ELSE UNCHANGED <<reported, workflow, origin, chain>>
    /\ UNCHANGED <<vars, in_progress, stopping>>

\* tracker.finish, then back to sleep.
FinishTick(w) ==
    /\ loop[w] = "returned"
    /\ loop' = [loop EXCEPT ![w] = "sleeping"]
    /\ in_progress' = in_progress \ {w}
    /\ UNCHANGED <<vars, workflow, origin, chain, awaiting, reported, stopping>>

\* The loop runs a synchronous workflow in its own task: a panic ends both.
LoopDies(w) ==
    /\ loop[w] = "awaiting"
    /\ task[awaiting[w]] = "panicked"
    /\ loop' = [loop EXCEPT ![w] = "dead"]
    /\ awaiting' = [awaiting EXCEPT ![w] = NoRun]
    /\ UNCHANGED <<vars, workflow, origin, chain, in_progress, reported, stopping>>

Stop ==
    /\ ~stopping
    /\ stopping' = TRUE
    /\ UNCHANGED <<vars, workflow, origin, chain, loop, awaiting, in_progress, reported>>

\* Mutant: aborting a loop leaves the run it awaits alive.
AbortLoopLeavesRun(w) ==
    /\ stopping
    /\ loop[w] \in {"sleeping", "awaiting", "returned"}
    /\ loop' = [loop EXCEPT ![w] = "aborted"]
    /\ awaiting' = [awaiting EXCEPT ![w] = NoRun]
    /\ UNCHANGED <<vars, workflow, origin, chain, in_progress, reported, stopping>>

\* An aborted loop ends at its next await, and with it the run it awaits.
AbortLoop(w) ==
    /\ stopping
    /\ loop[w] \in {"sleeping", "awaiting", "returned"}
    /\ IF loop[w] = "awaiting" /\ task[awaiting[w]] \in {"acquire", "steps"}
       THEN DropCaller(awaiting[w])
       ELSE UNCHANGED vars
    /\ loop' = [loop EXCEPT ![w] = "aborted"]
    /\ awaiting' = [awaiting EXCEPT ![w] = NoRun]
    /\ UNCHANGED <<workflow, origin, chain, in_progress, reported, stopping>>

-----------------------------------------------------------------------------

\* A client that closes its connection drops an endpoint run.
DropEndpointCaller(r) ==
    /\ origin[r] = "endpoint"
    /\ DropCaller(r)
    /\ UNCHANGED engineVars

LoopStep(w) == RunReturns(w) \/ FinishTick(w) \/ LoopDies(w) \/ AbortLoop(w)

EngineRunStep(r) == RunStep(r) /\ UNCHANGED engineVars

EngineNext ==
    \/ \E w \in Scheduled : LoopStep(w)
    \/ \E w \in Scheduled, r \in Runs : FireTick(w, r)
    \/ \E w \in Endpoints, r \in Runs : HandleEndpoint(w, r)
    \/ \E r \in Runs :
          \/ StartEventTask(r)
          \/ EngineRunStep(r)
          \/ DropEndpointCaller(r)
          \/ \E name \in DOMAIN Listeners : PluginEmits(r, name)
    \/ Stop

\* The runtime polls every ready task, a free permit goes to a waiting run and
\* plugins return.  No fairness on ticks, requests, events or Stop.
EngineFairness ==
    /\ \A w \in Scheduled : WF_allVars(LoopStep(w))
    /\ \A r \in Runs : WF_allVars(StartEventTask(r)) /\ WF_allVars(EngineRunStep(r))

EngineSpec == EngineInit /\ [][EngineNext]_allVars /\ EngineFairness

-----------------------------------------------------------------------------
(* What must hold *)

ScheduledRuns(w) == {r \in Runs : origin[r] = "schedule" /\ workflow[r] = w}

\* Overlap prevention: two ticks of one synchronous workflow never execute at
\* the same time.  The tracker behind it holds exactly the workflows whose loop
\* is between try_start and finish; a loop that died or was aborted there never
\* releases its workflow, and a loop that sleeps always finds its workflow free.
SyncTicksNeverOverlap ==
    \A w \in Scheduled :
        /\ Mode[w] = "sync" =>
              \A r, s \in ScheduledRuns(w) : Active(r) /\ Active(s) => r = s
        /\ loop[w] \in {"awaiting", "returned", "dead"} => w \in in_progress
        /\ loop[w] = "sleeping" => w \notin in_progress

\* Every synchronous scheduled run that failed and that its loop has left behind
\* was reported with workflow.schedule.failed, and only failed runs are.
FailedTickIsReported ==
    \A w \in Scheduled : Mode[w] = "sync" =>
        \A r \in ScheduledRuns(w) :
            /\ r \in reported => outcome[r] = "err"
            /\ outcome[r] = "err" /\ awaiting[w] # r /\ ~stopping => r \in reported

\* Once stop has ended every loop, no synchronous scheduled run is still
\* executing or waiting for a permit.
NothingOutlivesStop ==
    (\A w \in Scheduled : loop[w] = "aborted") =>
        \A w \in Scheduled : Mode[w] = "sync" =>
            \A r \in ScheduledRuns(w) : ~Active(r)

\* A failing, queued or slow run never stops the schedule: the loop comes back
\* to sleep, unless it was aborted or its run panicked.
LoopGoesOn ==
    \A w \in Scheduled :
        loop[w] = "awaiting" ~> loop[w] \in {"sleeping", "dead", "aborted"}

\* scheduler.rs: "if a workflow is still executing when its next tick arrives,
\* the tick is silently skipped".
TicksNeverOverlap ==
    \A w \in Scheduled : \A r, s \in ScheduledRuns(w) : Active(r) /\ Active(s) => r = s

\* Loop prevention: Event::depth is "incremented for cascading events" and
\* events beyond max_depth are dropped, so no chain of events grows past it.
CascadeIsBounded == \A r \in Runs : chain[r] <= MaxDepth + 1
=============================================================================
