SPECIFICATION Spec
CONSTANTS
  Runs = {r1}
  Workers = {w1, w2}
  NoRun = NoRun
  NoWorker = NoWorker
  States = {"draft", "review"}
  InitialState = "draft"
  Allowed <- MCAllowed
  MaxIterations = 3
  ReconcileLimit = 1
  HandlerMaySwallow = FALSE
  MayGiveUp = FALSE
  MaxControls = 1
  MaxTransitions = 1
  MaxAborts = 0
  MaxCrashes = 0
CHECK_DEADLOCK FALSE
PROPERTIES
  DeclaredReturnToRunning
