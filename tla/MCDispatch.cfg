SPECIFICATION FairSpec
CONSTANTS
  h1 = h1
  h2 = h2
  h3 = h3
  bcast = bcast
  plain = plain
  unknown = unknown
  Handlers <- MCHandlers
  Initial <- MCInitial
  Requests <- MCRequests
  Broadcasts <- MCBroadcasts
  Missing <- MCMissing
INVARIANTS TypeOK NeverUnknown FirstServes BroadcastReaches
PROPERTY EndedLeaves
CHECK_DEADLOCK FALSE
