SPECIFICATION FairSpec
CONSTANTS
  Aspects = {a1, a2}
  Relationship = Relationship
  Manuals = {m1}
  MaxRetries = 1
  MaxTurns = 2
INVARIANTS TypeOK OfThisTurn AnswerFitsFailures GroundedOnGradedEvidence
  StatusFitsEvidence
PROPERTIES SupportedEvidenceKept TurnEnds
CHECK_DEADLOCK FALSE
