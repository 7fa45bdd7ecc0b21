CONSTANTS
  m1 = m1
  m2 = m2
  w1 = w1
  w2 = w2
  Messages <- MCMessages
  Workers  <- MCWorkers
  ChanCaps <- MCChanCaps
  MaxNumberOfMessages = 2
  MaxCrashes = 1

SPECIFICATION FairSpec

INVARIANTS
  TypeOK

PROPERTIES
  HandOffKeepsOrder
  AckedIsProcessed
  ImplementsAtLeastOnce
