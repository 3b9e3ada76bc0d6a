SPECIFICATION FairSpec
CONSTANTS
  ClientCalls = {c1}
  ServerCalls = {}
  Streaming = {c1}
  Callbacks = {}
  StreamLen = 2
  Faults = {"break", "cancel"}
  RecvCap = 3
  WireCap = 1
  MaxWorkers = 1
  MaxCapacity = 1
PROPERTY ErrorReported
CHECK_DEADLOCK FALSE
