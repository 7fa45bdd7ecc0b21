CONSTANTS
  l1 = l1
  l2 = l2
  k1 = k1
  k2 = k2
  gb = gb
  xk = xk
  Lookups <- MCLookups
  Loaders <- MCLoaders
  Codes   <- MCCodes
  MaxVersion = 2

SPECIFICATION CacheSpec

SYMMETRY MCSymmetry

INVARIANTS
  CacheTypeOK
  FreshUnlessOverlapping
  ListedStayCached
