SPECIFICATION FairSpec
CONSTANTS
  ClientCalls = {c1}
  ServerCalls = {s1}
  Streaming = {}
  Callbacks = {}
  StreamLen = 0
  Faults = {"break", "cancel"}
  RecvCap = 3
  WireCap = 1
  MaxWorkers = 1
  MaxCapacity = 1
INVARIANTS NoPanic Bookkeeping QuiescentAtExit
PROPERTIES ImplementsContract ErrorReported CallResolved
CHECK_DEADLOCK FALSE
