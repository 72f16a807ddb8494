SPECIFICATION RankingSpec
CONSTANTS
  Chunks <- MCChunks
  Evidences = {"A", "B", "C"}
  EvidenceOf <- MCEvidenceOf
  KindOf <- MCKindOf
  TextOf <- MCTextOf
  Neighbours <- MCNeighbours
  Matches <- MCMatches
  Preferred = {"b1"}
  Paths = {"bm25", "vector"}
  TopK <- MCTopK
  QueryCount = 2
  FusedTopK = 3
  ExpandLimit = 6
  RerankLimit = 3
  EvidenceLimit = 2
  MaxSources = 2
  Topics = 3
  Unit = 238266
INVARIANTS Undominated NothingCrowdedOut
