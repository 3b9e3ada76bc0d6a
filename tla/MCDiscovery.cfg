SPECIFICATION FairSpec
CONSTANTS
  m1 = m1
  m2 = m2
  m3 = m3
  m4 = m4
  m5 = m5
  s21 = s21
  s32 = s32
  s34 = s34
  inc = inc
  dec = dec
  hash = hash
  mul = mul
  refl = refl
  Node <- MCNode
  Main <- MCMain
  Splices <- MCSplices
  Peer <- MCPeer
  Local <- MCLocal
  Visible <- MCVisible
  Reflection = refl
  HopLimit <- MCHopLimit
  Breakable <- MCBreakable
  Cleaned <- MCCleaned
INVARIANTS TypeOK RouteExists NoCircle Complete
PROPERTIES SetupEnds
CHECK_DEADLOCK FALSE
