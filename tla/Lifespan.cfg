SPECIFICATION FairSpec
CONSTANTS
  Processes = {p1, p2}
  Nobody = Nobody
  LockTtl = 3
  Patience = 2
INVARIANTS ResourcesHeld SetupsApart
PROPERTIES StartEnds
