CONSTANTS
  r1 = r1
  r2 = r2
  t1 = t1
  h1 = h1
  p1 = p1
  Requests    <- MCRequests
  OwnTasks    <- MCOwnTasks
  HelperTasks <- MCHelperTasks
  Periodics   <- MCPeriodics
  MaxSignals  = 2

SPECIFICATION FairSpec

INVARIANTS
  TypeOK
  NilMeansCleanStop

PROPERTIES
  SignalStopsServer
  ImplementsDrainContract

\* a killed process has no next step
CHECK_DEADLOCK FALSE
