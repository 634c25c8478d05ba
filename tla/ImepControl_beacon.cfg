SPECIFICATION Spec
CONSTANTS
  n1 = n1
  n2 = n2
  Peers <- TwoPeers
  BEACON_PERIOD = 4
  HighP <- Delays
  LowP <- Slow
  MaxObjects = 2
PROPERTIES
  BeaconIfNoHello
