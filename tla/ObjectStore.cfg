CONSTANTS
  p1 = p1
  p2 = p2
  r1 = r1
  Pieces   <- MCPieces
  Empty = ""
  Puts     <- MCPuts
  Readers  <- MCReaders
  Prefixes <- MCPrefixes
  Paths    <- MCPaths
  PathsOrURLs <- MCPathsOrURLs
  Schemes  <- MCSchemes
  Labels   <- MCLabels
  Bucket   <- MCBucket
  MaxAttempts = 2

SPECIFICATION FairSpec

INVARIANTS
  TypeOK
  PathsAreDistinct
  ReadsAcknowledged

PROPERTY ContextsEnd

\* the system stops when every call has returned
CHECK_DEADLOCK FALSE
