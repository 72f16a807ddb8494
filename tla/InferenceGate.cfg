SPECIFICATION FairSpec
CONSTANTS
  Callers = {c1, c2, c3, c4, c5}
  MaxConcurrency = 2
  MaxQueueDepth = 2
  MaxDetached = 1
INVARIANTS CountersExact NoLostWakeup
PROPERTIES Fifo WaitEnds
