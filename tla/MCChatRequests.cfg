SPECIFICATION FairSpec
CONSTANTS
  t1 = t1  k1 = k1  k2 = k2
  Sessions = {s1, s2}
  Threads = {t1}
  Keys = {k1, k2}
  ThreadOf <- TwoConversations
  SequentialKeys = {k1}
  Requests = {r1, r2}
  Handlers = {h1, h2}
  NoOne = NoOne
  RequestTtl = 1
  OwnershipTtl = 2
  RunTime = 1
INVARIANTS OwnedWhileInUse SingleRun AnswersOwnQuestion
PROPERTIES FinalStatusSticks ConversationSpec StreamsEnd
