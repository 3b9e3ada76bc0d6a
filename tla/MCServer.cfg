SPECIFICATION FairSpec
CONSTANTS
  Main = main
  Spliced = {k1, k2}
  ServerStreams = {main}
  Registrars = {g1}
  HangUps = {main, k1}
INVARIANTS Exclusive ServedIsSynced ReportedLast NeverBlocksOnCh
PROPERTY EndReported
CHECK_DEADLOCK FALSE
