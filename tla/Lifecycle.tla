------------------------------ MODULE Lifecycle ------------------------------
(***************************************************************************)
(* The lifecycle of a workflow run: the values of workflow_runs.lifecycle, *)
(* the declared transition map, the guards the control routes apply to it, *)
(* and what a safe point turns each transitional value into.               *)
(*                                                                         *)
(* Nothing here is a state machine: the operators are the vocabulary that  *)
(* every other module of the server shares.                                *)
(***************************************************************************)

Lifecycles ==
  { "running", "pausing", "paused", "resuming", "recovering", "cancelling",
    "completed", "failed", "cancelled" }

TerminalLifecycles == { "completed", "failed", "cancelled" }

\* A run that has no row in workflow_runs yet.
NotStarted == "not_started"

LifecycleTransitions ==
  [ running    |-> {"pausing", "completed", "failed", "recovering", "cancelling"},
    pausing    |-> {"paused", "recovering", "cancelling"},
    paused     |-> {"resuming", "cancelling"},
    resuming   |-> {"running", "failed", "recovering", "cancelling"},
    recovering |-> {"running", "paused", "failed", "cancelled"},
    cancelling |-> {"cancelled"},
    completed  |-> {},
    failed     |-> {},
    cancelled  |-> {} ]

CanTransition(from, to) == to \in LifecycleTransitions[from]

-----------------------------------------------------------------------------
(* The guards of the control requests. *)

CanPause(lifecycle) == lifecycle = "running"

CanResume(lifecycle) == lifecycle = "paused"

CanCancelAny(lifecycle) == lifecycle \notin {"cancelling", "recovering"}

CanCancel(lifecycle) ==
  lifecycle \in {"running", "pausing", "paused", "resuming"}

RecoverableUnrequested == {"running", "recovering"}

RecoverableAny == Lifecycles \ {"cancelled"}

\* The lifecycles from which reconciliation takes a run over.
Recoverable == {"running", "pausing", "resuming", "recovering"}

-----------------------------------------------------------------------------
(* Safe points: the transitional lifecycles a step finalizes, the value it *)
(* writes and the event it appends.                                        *)

Settling == {"pausing", "resuming", "recovering", "cancelling"}

SettledLifecycle(lifecycle) ==
  CASE lifecycle = "pausing"    -> "paused"
    [] lifecycle = "resuming"   -> "running"
    [] lifecycle = "recovering" -> "running"
    [] lifecycle = "cancelling" -> "cancelled"

SettledEventReused(lifecycle) ==
  CASE lifecycle = "pausing"    -> "workflow.paused"
    [] lifecycle \in {"resuming", "recovering"} -> "workflow.resumed"
    [] lifecycle = "cancelling" -> "workflow.cancelled"

SettledEvent(lifecycle) ==
  CASE lifecycle = "pausing"    -> "workflow.paused"
    [] lifecycle = "resuming"   -> "workflow.resumed"
    [] lifecycle = "recovering" -> "workflow.recovered"
    [] lifecycle = "cancelling" -> "workflow.cancelled"

\* The event that opens each transitional lifecycle.
OpeningEvent(lifecycle) ==
  CASE lifecycle = "pausing"    -> "workflow.pausing"
    [] lifecycle = "resuming"   -> "workflow.resuming"
    [] lifecycle = "recovering" -> "workflow.recovering"
    [] lifecycle = "cancelling" -> "workflow.cancelling"

\* The event that ends a run, for each terminal lifecycle.
TerminalEvent(lifecycle) ==
  CASE lifecycle = "completed" -> "workflow.completed"
    [] lifecycle = "failed"    -> "workflow.failed"
    [] lifecycle = "cancelled" -> "workflow.cancelled"

\* The run events this project keeps: the lifecycle events and the
\* transition events recovery looks for.
EventTypes ==
  { "workflow.started", "workflow.pausing", "workflow.paused",
    "workflow.resuming", "workflow.resumed", "workflow.recovering",
    "workflow.recovered", "workflow.cancelling", "workflow.cancelled",
    "workflow.completed", "workflow.failed", "transition.completed" }

=============================================================================
