SPECIFICATION Spec
CONSTANTS
  Routers = {0, 1, 2}
  Dest = 3
  Spots <- Mendable
  Airs <- LineAndRing
  MaxFlight = 2
  MaxMoves = 2
  MaxAsked = 2
INVARIANTS TypeOK StatusAgrees CountersExact KnownHeights NoCycle PartitionErased Sink WaitForRoute
PROPERTY Settles
CHECK_DEADLOCK FALSE
