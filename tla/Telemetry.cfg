CONSTANTS
  h1 = h1
  h2 = h2
  h3 = h3
  r1 = r1
  r2 = r2
  a1 = a1
  a2 = a2
  Handlers   <- MCHandlers
  Records    <- MCRecords
  Attrs      <- MCAttrs
  SlogLevels <- MCSlogLevels
  Configs    <- MCConfigs
  Unparsable = 99
  Depth = 2

SYMMETRY MCSymmetry

SPECIFICATION Spec

INVARIANTS
  TypeOK
  WrittenAsLogged
  IdentityLossIsLogged

\* the system stops when everything is logged and every handler is made
CHECK_DEADLOCK FALSE
