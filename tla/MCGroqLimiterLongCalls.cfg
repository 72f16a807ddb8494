SPECIFICATION Spec
CONSTANTS
  c1 = c1
  Callers = {c1, c2, c3, c4}
  Slots = {s1, s2, s3, s4}
  NoSlot = NoSlot
  Costs = {1}
  Skew <- NoSkew
  Concurrency = 2
  RequestLimit = 2
  TokenLimit = 3
  MaxQueueDepth = 2
  MaxQueueWait = 1
  QueueGrace = 1
  LeaseMargin = 4
  Window = 2
  OpTimeout = 3
  PromptRedis = TRUE
  MaxFaults = 0
SYMMETRY CallerSlotSymmetry
INVARIANTS QueueBounded
