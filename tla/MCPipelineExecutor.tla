-------------------------- MODULE MCPipelineExecutor --------------------------
(* A small instance of PipelineExecutor for TLC. *)
EXTENDS PipelineExecutor

CONSTANTS r1, r2

MCRuns == {r1, r2}
=============================================================================
