SPECIFICATION FairSpec
CONSTANTS
  MaxMsgs = 2
  HeaderKeys = {h1}
  TrailerKeys = {t1}
  WriterCap = 1
  ReplyCap = 1
INVARIANTS StreamIntact TrailersArrive
PROPERTY StreamEnds
CHECK_DEADLOCK FALSE
