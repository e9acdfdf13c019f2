SPECIFICATION FairSpec
CONSTANTS
  Runs = {r1, r2}
  Callers = {c1, c2}
  Clients = {k1, k2}
  NoRun = NoRun
  NoCaller = NoCaller
  NoClient = NoClient
  MaxAttempts = 2
  MaxCalls = 2
CHECK_DEADLOCK FALSE
PROPERTIES
  CallsReturn
