------------------------------ MODULE StepEngine ------------------------------
(***************************************************************************)
(* One execution of a workflow's steps: PipelineExecutor::run_steps and    *)
(* execute_steps (packages/workflow-engine/src/executor.rs).               *)
(*                                                                         *)
(* Steps run one after the other, each on the message its predecessor      *)
(* left.  A step is a plugin call with an error strategy, or a condition   *)
(* that runs one of two branches of plugin calls (validate_step allows no  *)
(* condition inside a branch).  Plugins are external: a call returns some  *)
(* message or an error of some severity.                                   *)
(*                                                                         *)
(* A message is abstracted to what the engine looks at: whether its payload*)
(* is a JSON object (validate_message), the value of the field conditions  *)
(* look at (resolve_field), and whether its first 200 bytes end inside a   *)
(* character, which makes summarize_input panic.                           *)
(***************************************************************************)
EXTENDS Integers, Sequences

CONSTANTS
    Definitions,  \* workflow definitions: sequences of steps
    Levels,       \* validation levels of the instance
    Messages,     \* messages a caller or a plugin may produce
    Severities    \* severities a plugin error may have

\* A plugin call: on_error.strategy ("none" when on_error is absent),
\* max_retries, and whether a fallback step is declared.
Call(strategy, retries, fallback) ==
    [condition |-> FALSE, strategy |-> strategy, max_retries |-> retries,
     fallback |-> fallback, operator |-> "none", value |-> "none",
     then_steps |-> <<>>, else_steps |-> <<>>]

Condition(operator, value, then, else) ==
    [condition |-> TRUE, strategy |-> "none", max_retries |-> 0,
     fallback |-> FALSE, operator |-> operator, value |-> value,
     then_steps |-> then, else_steps |-> else]

Operators == {"equals", "not_equals", "exists", "is_empty"}

\* What the loader lets pass: validate_step wants flat branches, the rest are
\* the types of StepDef.
CallDefs ==
    [condition : {FALSE}, strategy : {"none", "halt", "skip", "retry"}, max_retries : Nat,
     fallback : BOOLEAN, operator : {"none"}, value : {"none"},
     then_steps : {<<>>}, else_steps : {<<>>}]

ConditionDefs ==
    [condition : {TRUE}, strategy : {"none"}, max_retries : {0}, fallback : {FALSE},
     operator : Operators, value : STRING, then_steps : Seq(CallDefs), else_steps : Seq(CallDefs)]

ASSUME DefinitionsAssumption == Definitions \subseteq Seq(CallDefs \cup ConditionDefs)

\* field is "missing", or a JSON value: "null", "empty" (an empty string or
\* array) or any other.
Message(object, field, splits) ==
    [object |-> object, field |-> field, splits |-> splits]

VARIABLES
    steps,     \* the workflow's steps
    validate,  \* its validation level
    top,       \* the current top-level step
    branch,    \* the branch being executed: "none", "then" or "else"
    sub,       \* the current step of the branch
    phase,     \* what the engine does next
    attempt,   \* retries made of the current step
    message,   \* current_message
    logs,      \* step_logs
    calls,     \* calls made of the current step, its fallback included
    via        \* what produced current_message

vars == <<steps, validate, top, branch, sub, phase, attempt, message, logs, calls, via>>

Final == {"ok", "err", "panic"}

LogEntry(index, status, retries) ==
    [index |-> index, status |-> status, retry_count |-> retries]

\* Steps of the list being executed, and the current one.
Branch(step, which) == IF which = "then" THEN step.then_steps ELSE step.else_steps

Current == IF branch = "none" THEN steps[top] ELSE Branch(steps[top], branch)[sub]

\* base_index + offset, counted from 0; a branch's base is the index times 100.
Index == IF branch = "none" THEN top - 1 ELSE (top - 1) * 100 + (sub - 1)

MaxRetries == IF Current.strategy = "none" THEN 3 ELSE Current.max_retries

\* build_initial_message only produces payloads that are objects.
Init ==
    /\ steps \in Definitions
    /\ validate \in Levels
    /\ top = 1
    /\ branch = "none"
    /\ sub = 0
    /\ phase = "entry"
    /\ attempt = 0
    /\ message \in {m \in Messages : m.object}
    /\ logs = <<>>
    /\ calls = 0
    /\ via = "entry"

-----------------------------------------------------------------------------
(* Validation and the walk over the steps *)

Valid(msg) == msg.object

AtEdges == validate \in {"strict", "edges"}

\* An entry message that is refused ends the run before anything is logged.
ValidateEntry ==
    /\ phase = "entry"
    /\ phase' = IF AtEdges /\ ~Valid(message) THEN "err" ELSE "next"
    /\ UNCHANGED <<steps, validate, top, branch, sub, attempt, message, logs, calls, via>>

\* Mutant: the exit message is only validated under Strict.
ValidateExitOnlyStrict ==
    /\ phase = "exit"
    /\ phase' = IF validate = "strict" /\ ~Valid(message) THEN "err" ELSE "ok"
    /\ UNCHANGED <<steps, validate, top, branch, sub, attempt, message, logs, calls, via>>

\* The exit message is validated after the execution log has been written.
ValidateExit ==
    /\ phase = "exit"
    /\ phase' = IF AtEdges /\ ~Valid(message) THEN "err" ELSE "ok"
    /\ UNCHANGED <<steps, validate, top, branch, sub, attempt, message, logs, calls, via>>

\* The step after the current one, in its branch or at top level.
NextPosition ==
    IF branch # "none" /\ sub < Len(Branch(steps[top], branch))
    THEN top' = top /\ branch' = branch /\ sub' = sub + 1
    ELSE top' = top + 1 /\ branch' = "none" /\ sub' = 0

Advance == NextPosition /\ phase' = "next" /\ attempt' = 0 /\ calls' = 0

Stay == UNCHANGED <<top, branch, sub, attempt, calls>>

Finish ==
    /\ phase = "next" /\ top > Len(steps)
    /\ phase' = "exit"
    /\ UNCHANGED <<steps, validate, top, branch, sub, attempt, message, logs, calls, via>>

EvaluateCondition(operator, resolved, value) ==
    CASE operator = "equals"     -> resolved # "missing" /\ resolved = value
      [] operator = "not_equals" -> resolved # "missing" /\ resolved # value
      [] operator = "exists"     -> resolved # "missing"
      [] operator = "is_empty"   -> resolved \in {"missing", "null", "empty"}

\* Mutant: an empty branch does not count as a step taken.
EnterEmptyBranchAgain ==
    /\ phase = "next" /\ top <= Len(steps)
    /\ branch = "none" /\ steps[top].condition
    /\ LET matches == EvaluateCondition(steps[top].operator, message.field, steps[top].value)
           which == IF matches THEN "then" ELSE "else" IN
       IF Branch(steps[top], which) = <<>>
       THEN UNCHANGED <<top, branch, sub>>
       ELSE branch' = which /\ sub' = 1 /\ UNCHANGED top
    /\ UNCHANGED <<steps, validate, phase, attempt, message, logs, calls, via>>

\* An empty branch is left at once.
EnterBranch ==
    /\ phase = "next" /\ top <= Len(steps)
    /\ branch = "none" /\ steps[top].condition
    /\ LET matches == EvaluateCondition(steps[top].operator, message.field, steps[top].value)
           which == IF matches THEN "then" ELSE "else" IN
       IF Branch(steps[top], which) = <<>>
       THEN top' = top + 1 /\ UNCHANGED <<branch, sub>>
       ELSE branch' = which /\ sub' = 1 /\ UNCHANGED top
    /\ UNCHANGED <<steps, validate, phase, attempt, message, logs, calls, via>>

BeginStep ==
    /\ phase = "next" /\ top <= Len(steps)
    /\ ~Current.condition
    /\ phase' = "execute"
    /\ UNCHANGED <<steps, validate, top, branch, sub, attempt, message, logs, calls, via>>

-----------------------------------------------------------------------------
(* A plugin call and what becomes of it *)

Log(status) == logs' = Append(logs, LogEntry(Index, status, attempt))

\* The call succeeds; only here does Strict validate the output.
StepSucceeds(out) ==
    /\ phase = "execute"
    /\ message' = out
    /\ via' = "call"
    /\ Log("completed")
    /\ IF validate = "strict" /\ ~Valid(out)
       THEN phase' = "err" /\ Stay
       ELSE Advance
    /\ UNCHANGED <<steps, validate>>

\* Severity first, the step's strategy second.
Effective(severity) ==
    CASE severity = "fatal"     -> "halt"
      [] severity = "warning"   -> "continue"
      [] severity = "retryable" -> IF Current.strategy = "none" THEN "retry"
                                   ELSE Current.strategy

\* The failure is written to the step log with a summary of the input.
LogFailure(status) ==
    IF message.splits
    THEN phase' = "panic" /\ Stay /\ UNCHANGED logs
    ELSE /\ Log(status)
         /\ IF status = "failed" THEN phase' = "err" /\ Stay ELSE Advance

StepFails(severity) ==
    /\ phase = "execute"
    /\ LET strategy == Effective(severity) IN
       \/ strategy = "halt" /\ LogFailure("failed")
       \/ strategy = "skip" /\ LogFailure("skipped")
       \/ strategy = "continue" /\ Advance /\ UNCHANGED logs
       \/ /\ strategy = "retry"
          /\ phase' = "retry"
          /\ calls' = calls + 1
          /\ UNCHANGED <<top, branch, sub, attempt, logs>>
    /\ UNCHANGED <<steps, validate, message, via>>

\* A retry that succeeds is logged as such and ends the step.
RetrySucceeds(out) ==
    /\ phase = "retry" /\ attempt < MaxRetries
    /\ message' = out
    /\ via' = "retry"
    /\ logs' = Append(logs, LogEntry(Index, "retried", attempt + 1))
    /\ Advance
    /\ UNCHANGED <<steps, validate>>

\* Whatever the severity of the error, the next attempt is made.
RetryFails ==
    /\ phase = "retry" /\ attempt < MaxRetries
    /\ attempt' = attempt + 1
    /\ calls' = calls + 1
    /\ UNCHANGED <<steps, validate, top, branch, sub, phase, message, logs, via>>

RetriesExhausted ==
    /\ phase = "retry" /\ attempt = MaxRetries
    /\ IF Current.fallback
       THEN phase' = "fallback" /\ Stay /\ UNCHANGED logs
       ELSE LogFailure("failed")
    /\ UNCHANGED <<steps, validate, message, via>>

\* The fallback's output replaces the message; nothing is logged.
FallbackSucceeds(out) ==
    /\ phase = "fallback"
    /\ message' = out
    /\ via' = "fallback"
    /\ Advance
    /\ UNCHANGED <<steps, validate, logs>>

\* Mutant: a failed fallback is logged and the run goes on.
FallbackFailureSkipped ==
    /\ phase = "fallback"
    /\ IF message.splits THEN phase' = "panic" /\ Stay /\ UNCHANGED logs
       ELSE Log("failed") /\ Advance
    /\ UNCHANGED <<steps, validate, message, via>>

FallbackFails ==
    /\ phase = "fallback"
    /\ LogFailure("failed")
    /\ UNCHANGED <<steps, validate, message, via>>

EngineStep ==
    \/ ValidateEntry
    \/ ValidateExit
    \/ Finish
    \/ EnterBranch
    \/ BeginStep
    \/ RetryFails
    \/ RetriesExhausted
    \/ FallbackFails
    \/ \E out \in Messages : StepSucceeds(out) \/ RetrySucceeds(out) \/ FallbackSucceeds(out)
    \/ \E severity \in Severities : StepFails(severity)

\* The run has returned.
Done == phase \in Final /\ UNCHANGED vars

Next == EngineStep \/ Done

Spec == Init /\ [][Next]_vars /\ WF_vars(EngineStep)
-----------------------------------------------------------------------------
(* What must hold *)

\* Whatever path the steps took, a run that succeeds under Edges or Strict
\* returns a message that passes validation.  Strict also validates what a first
\* call returned: a step is only ever given an invalid message when a retry or a
\* fallback, whose output nothing checks before the exit, produced it.
MessagesAreValidated ==
    /\ phase = "ok" /\ AtEdges => Valid(message)
    /\ validate = "strict" /\ phase = "execute" /\ ~Valid(message) => via \in {"retry", "fallback"}

\* A step logged as failed ended the run: it is the last entry of the log, and
\* the run returned an error without calling another plugin.  Failing is a last
\* resort, and so is the fallback: the first call and every one of max_retries
\* retries has failed by then.
FailureIsFinal ==
    /\ phase = "fallback" => calls = MaxRetries + 1
    /\ \A i \in DOMAIN logs : logs[i].status = "failed" =>
          /\ i = Len(logs) /\ phase = "err"
          /\ logs[i].retry_count > 0 => logs[i].retry_count = MaxRetries /\ calls = MaxRetries + 1

\* Every run returns: retries, branches and fallbacks cannot go on for ever.
RunReturns == <>(phase \in Final)
=============================================================================
