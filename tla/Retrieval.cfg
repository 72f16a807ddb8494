SPECIFICATION FairSpec
CONSTANTS
  Calls = {c1, c2}
  Slots = 1
  Threads = 3
  Queries = 2
  Searches = 2
  DenseTimeout = 1
  LexicalTimeout = 1
  PoolTimeout = 2
  MaxGeneration = 2
  Misreading = {c2}
  Offline = TRUE
  Completed = TRUE
INVARIANTS AnswersFromServedCorpus StarvedByUngated
PROPERTIES LosesNoBranch RetrievalEnds
