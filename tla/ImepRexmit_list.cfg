SPECIFICATION FairSpec
CONSTANTS
  Peers <- ThreePeers
  MAX_REXMITS = 1
  RETRANS_PERIOD = 2
  SeqSpace = 1
  MaxQueue = 1
  MaxAcks = 2
INVARIANTS
  TypeOK
  ResponseListsSound
PROPERTIES
  ResponsesOnlyShrink
  PacketsLeave
