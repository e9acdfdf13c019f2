SPECIFICATION Spec
CONSTANTS
  Runs = {r1}
  Callers = {c1, c2}
  Clients = {k1, k2, k3}
  NoRun = NoRun
  NoCaller = NoCaller
  NoClient = NoClient
  MaxAttempts = 2
  MaxCalls = 2
CHECK_DEADLOCK FALSE
SYMMETRY CallerAndClientSymmetry
INVARIANTS
  ReleasedAfterReturn
