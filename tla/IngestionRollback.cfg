SPECIFICATION Spec
CONSTANTS
  Manuals = {1, 2}
  MaxVersion = 2
  MaxEdits = 1
  MaxCrashes = 0
  PutBack = FALSE
  FirstStore = {"local", "server", "pgvector"}
  SwitchTo = {"local", "pgvector"}
  BackfillAfter = {"done"}
INVARIANT RebuildsWhenNeeded
