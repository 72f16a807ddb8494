SPECIFICATION FairSpec
CONSTANTS
  c1 = c1
  Callers = {c1, c2}
  Slots = {s1, s2, s3}
  NoSlot = NoSlot
  Costs = {1, 2}
  Skew <- OneAhead
  Concurrency = 1
  RequestLimit = 2
  TokenLimit = 3
  MaxQueueDepth = 1
  MaxQueueWait = 1
  QueueGrace = 1
  LeaseMargin = 4
  Window = 2
  OpTimeout = 3
  PromptRedis = FALSE
  MaxFaults = 1
INVARIANTS RedisCoversCalls
PROPERTIES AdmissionSpec CallEnds SlotsRecover
