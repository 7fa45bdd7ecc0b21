CONSTANTS
  s1 = s1
  s2 = s2
  v1 = v1
  k1 = k1
  k2 = k2
  Signings <- MCSignings
  Visits   <- MCVisits
  Keys     <- MCKeys
  Lives    <- MCLives
  DefaultLife = 2
  TokenLife = 1
  MaxTime = 3

SYMMETRY MCSymmetry

SPECIFICATION Spec

INVARIANTS
  TypeOK
  SignedOutStaysOut

PROPERTIES
  ServedIsAuthentic
  GoodTokenServed

\* the system stops when every request is answered at the last moment
CHECK_DEADLOCK FALSE
