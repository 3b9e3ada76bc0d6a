SPECIFICATION FairSpec
CONSTANTS
  Main = main
  Spliced = {k1}
  ServerStreams = {}
  Registrars = {}
  HangUps = {main}
PROPERTY ServeReturns
CHECK_DEADLOCK FALSE
