SPECIFICATION FairSpec
CONSTANTS
  Manuals = {1, 2}
  MaxVersion = 2
  MaxEdits = 2
  MaxCrashes = 1
  PutBack = FALSE
  FirstStore = {"local", "server", "pgvector"}
  SwitchTo = {"pgvector"}
  BackfillAfter = {"done"}
INVARIANTS TypeOK RecordsAsPromised CompletedWhole ServesOneIngestion
PROPERTY CatchesUp
