SPECIFICATION FairSpec
CONSTANTS
  c1 = c1  c2 = c2  m1 = m1  m2 = m2
  Callers = {c1, c2}
  Structured = {c1}
  Models = {m1, m2}
  ModelsOf <- Crossed
  Concurrency = 1
  MaxQueueWait = 1
  CallTimeout = 1
  MaxDelay = 2
  Backoff = 1
  RetryAfters = {1, 6}
INVARIANTS SlotsBackCalls RefusedIsFinal InTime
PROPERTIES RespectsRetryAfter CallReturns
