SPECIFICATION FairSpec
CONSTANTS
  MainCalls = {m1}
  SplicedCalls = {s1}
  Streaming = {s1}
  StreamLen = 1
  Earlier = 1
  ClientStreams = {"spliced"}
  Ends <- MCEnds
INVARIANT TagsRouted
PROPERTIES EndToEnd CallResolved RunReturns
CHECK_DEADLOCK FALSE
