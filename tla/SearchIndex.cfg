CONSTANTS
  i1 = i1
  i2 = i2
  s1 = s1
  a = a
  b = b
  Indexers  <- MCIndexers
  Records   <- MCRecords
  Searchers <- MCSearchers
  Queries   <- MCQueries
  Size = 1
  MaxDay = 2

SPECIFICATION FairSpec

INVARIANTS
  TypeOK
  ReportedIsStored
  RaceIsHarmless
  SearchFindsReported

PROPERTY ReportedBecomesSearchable

\* the system stops when every call has returned on the last day
CHECK_DEADLOCK FALSE
