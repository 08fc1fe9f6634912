SPECIFICATION FairSpec
CONSTANTS
  m1 = m1
  m2 = m2
  p1 = p1
  Messages = {m1, m2}
  Phones = {p1}
  Workers = {w1, w2}
  Sender <- OneSender
  Modes = {"sync", "cloud"}
  Kinds <- SomeKinds
  Configs = {"debounce", "direct", "off"}
  Plans <- AllPlans
  MaxFaults <- FaultsOf
  MaxPosts = 3
INVARIANTS OneTimerPerBuffer AckedIsKept AnsweredOnce
PROPERTIES QueuedIsProcessed BufferedIsAsked
CHECK_DEADLOCK FALSE
