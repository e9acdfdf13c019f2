------------------------------- MODULE RunRow -------------------------------
(***************************************************************************)
(* What the row of a run goes through, whoever drives it: one step at a    *)
(* time reads it, works on what it has read, and writes it back; meanwhile *)
(* requests change the lifecycle, and nothing but the lifecycle, of a run  *)
(* that has not ended.  A step that is given up writes nothing.            *)
(***************************************************************************)
EXTENDS Lifecycle

CONSTANTS Runs, States, InitialState, Allowed

VARIABLES
  row,   \* lifecycle and state of each run
  read   \* what the step in progress on it has read, NotRead if there is none

vars == <<row, read>>

NotRead == [lifecycle |-> NotStarted, state |-> InitialState]

Init ==
  /\ row = [r \in Runs |-> NotRead]
  /\ read = [r \in Runs |-> NotRead]

Start(r) ==
  /\ row[r].lifecycle = NotStarted
  /\ row' = [row EXCEPT ![r] = [lifecycle |-> "running", state |-> InitialState]]
  /\ UNCHANGED read

MayAsk(lifecycle, target) ==
  \/ target = "pausing"    /\ CanPause(lifecycle)
  \/ target = "resuming"   /\ CanResume(lifecycle)
  \/ target = "cancelling" /\ CanCancel(lifecycle)
  \/ target = "recovering" /\ lifecycle \in Recoverable

Ask(r, target) ==
  /\ MayAsk(row[r].lifecycle, target)
  /\ row' = [row EXCEPT ![r].lifecycle = target]
  /\ UNCHANGED read

BeginStep(r) ==
  /\ read[r] = NotRead
  /\ row[r].lifecycle # NotStarted
  /\ read' = [read EXCEPT ![r] = row[r]]
  /\ UNCHANGED row

\* A step that found nothing to do, failed, or died with its process.
GiveUpSteps(runs) ==
  /\ read' = [r \in Runs |-> IF r \in runs THEN NotRead ELSE read[r]]
  /\ UNCHANGED row

\* The step ends and leaves the row in the given lifecycle and state.
Write(r, lifecycle, state) ==
  /\ read[r] # NotRead
  /\ row[r].lifecycle \notin TerminalLifecycles
  /\ row' = [row EXCEPT ![r] = [lifecycle |-> lifecycle, state |-> state]]
  /\ read' = [read EXCEPT ![r] = NotRead]

\* It finalizes the request it has read, or as a running step the one it finds.
Finalize(r, base) ==
  /\ base = read[r] \/ (base = row[r] /\ read[r].lifecycle = "running")
  /\ base.lifecycle \in Settling
  /\ Write(r, SettledLifecycle(base.lifecycle), base.state)

End(r, lifecycle) ==
  /\ read[r].lifecycle = "running"
  /\ Write(r, lifecycle, read[r].state)

Move(r, to) ==
  /\ read[r].lifecycle = "running"
  /\ <<read[r].state, to>> \in Allowed
  /\ Write(r, "running", to)

StepOf(r) ==
  \/ BeginStep(r)
  \/ Finalize(r, read[r]) \/ Finalize(r, row[r])
  \/ End(r, "completed") \/ End(r, "failed")
  \/ \E to \in States : Move(r, to)

Next ==
  \/ \E r \in Runs : Start(r) \/ StepOf(r) \/ \E target \in Settling : Ask(r, target)
  \/ \E runs \in SUBSET Runs : GiveUpSteps(runs)

Spec == Init /\ [][Next]_vars

=============================================================================
