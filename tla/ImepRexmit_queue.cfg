SPECIFICATION Spec
CONSTANTS
  Peers <- TwoPeers
  MAX_REXMITS = 1
  RETRANS_PERIOD = 2
  SeqSpace = 2
  MaxQueue = 2
  MaxAcks = 1
INVARIANTS
  RespondersAreNeighbours
  TimerCovers
  LifetimeBounded
PROPERTIES
  PuntsAfterAllRexmits
