SPECIFICATION FairSpec
CONSTANTS
  ClientCalls = {"c1", "c2", "c3"}
  ServerCalls = {"s1", "s2"}
  Streaming = {}
  Callbacks <- CallsBack
  StreamLen = 0
  Faults = {}
  RecvCap = 1
  WireCap = 1
  MaxWorkers = 2
  MaxCapacity = 1
INVARIANTS TypeOK RepliesMatch
PROPERTY CallResolved
CHECK_DEADLOCK FALSE
