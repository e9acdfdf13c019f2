SPECIFICATION Spec
CONSTANTS
  Runs = {r1}
  Workers = {w1, w2}
  NoRun = NoRun
  NoWorker = NoWorker
  States = {"draft", "review"}
  InitialState = "draft"
  Allowed <- MCAllowed
  MaxIterations = 3
  ReconcileLimit = 1
  HandlerMaySwallow = TRUE
  MayGiveUp = TRUE
  MaxControls = 2
  MaxTransitions = 2
  MaxAborts = 1
  MaxCrashes = 1
CHECK_DEADLOCK FALSE
SYMMETRY WorkerSymmetry
INVARIANTS
  TypeOK
  ExclusiveRunner
  TransitionsChain
  SnapshotDrift
  TerminalSealed
  SettledOnRequest
  RecoveryNeedsProgress
PROPERTIES
  TerminalIsFinal
  LostOnlyToOverlap
  UsesRunLock
