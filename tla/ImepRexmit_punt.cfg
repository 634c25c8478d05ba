SPECIFICATION Spec
CONSTANTS
  Peers <- TwoPeers
  MAX_REXMITS = 1
  RETRANS_PERIOD = 1
  SeqSpace = 1
  MaxQueue = 1
  MaxAcks = 1
PROPERTIES TimeoutDropsPacket
