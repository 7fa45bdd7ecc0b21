CONSTANTS
  c1 = c1
  c2 = c2
  Calls  <- MCCalls
  Bodies <- MCBodies

SPECIFICATION FairSpec

INVARIANTS
  TypeOK
  OkMeansApplied
  AppliedAsSent
  NoConnectionLeft

PROPERTY ConnectionsEnd

\* the system stops when every call has returned
CHECK_DEADLOCK FALSE
