CONSTANTS
  r1 = r1
  r2 = r2
  r3 = r3
  Requests <- MCRequests
  Limits   <- MCLimits

SPECIFICATION FairSpec

INVARIANTS
  TypeOK
  SlotsAccounted
  LimitRespected
  NoSpuriousReject

PROPERTIES
  EveryRequestEnds
  ImplementsAdmissionControl
