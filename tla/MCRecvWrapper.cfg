SPECIFICATION FairSpec
CONSTANTS
  Wrapper = {w1, w2, w3}
  Cap = 1
  Messages = 2
INVARIANTS Guarded EndIsLast
PROPERTIES WaitReturns RegistryDrains
CHECK_DEADLOCK FALSE
