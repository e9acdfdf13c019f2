SPECIFICATION FairSpec
CONSTANTS
  Runs = {r1, r2}
  Callers = {c1, c2}
  Clients = {k1, k2, k3, k4}
  NoRun = NoRun
  NoCaller = NoCaller
  NoClient = NoClient
  MaxAttempts = 2
  MaxCalls = 4
CHECK_DEADLOCK FALSE
INVARIANTS
  TypeOK
  OneInside
  OneUserPerClient
  LeaseHasCaller
PROPERTIES
  ImplementsRunLock
  CallsReturn
