SPECIFICATION Spec
CONSTANTS
  MaxMsgs = 2
  HeaderKeys = {h1}
  TrailerKeys = {t1}
  WriterCap = 1
  ReplyCap = 1
INVARIANT HeadersDelivered
CHECK_DEADLOCK FALSE
