--------------------------- MODULE MCWorkflowEngine ---------------------------
(* A synchronous scheduled workflow, an asynchronous scheduled one, and a      *)
(* listener of workflow.schedule.failed that is also an endpoint.              *)
EXTENDS WorkflowEngine

CONSTANTS r1, r2, r3, poll, digest, alert

MCRuns == {r1, r2, r3}
MCWorkflows == {poll, digest, alert}
MCMode == [w \in MCWorkflows |-> IF w = digest THEN "async" ELSE "sync"]
MCScheduled == {poll, digest}
MCEndpoints == {alert}
MCListeners == [name \in {"workflow.schedule.failed"} |-> {alert}]
=============================================================================
