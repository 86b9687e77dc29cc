----------------------------- MODULE MCWebhooks -----------------------------
(***************************************************************************)
(* Webhooks fed with what the orchestrator publishes.                      *)
(***************************************************************************)
EXTENDS Webhooks

Transitioned == [type |-> "workflow.transitioned", to |-> "completed"]

\* What WorkflowOrchestrator.applyTransition emits when a run completes.
OrchestratorEvents == {Transitioned}

TheSubscriptions == {{"run.failed"}, {"run.completed", "run.failed"}}
=============================================================================
