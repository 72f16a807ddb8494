SPECIFICATION Spec
CONSTANTS
  Aspects = {a1}
  Relationship = Relationship
  Manuals = {m1}
  MaxRetries = 1
  MaxTurns = 1
INVARIANTS BroadeningRetrieves
CHECK_DEADLOCK FALSE
