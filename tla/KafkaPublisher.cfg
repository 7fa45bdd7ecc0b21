CONSTANTS
  c1 = c1
  c2 = c2
  Calls <- MCCalls
  RetryMax = 2

SPECIFICATION PublisherSpec

INVARIANTS
  PublisherTypeOK
  EmptyRecordReported

\* the system stops when every call has returned
CHECK_DEADLOCK FALSE
