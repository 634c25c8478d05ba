SPECIFICATION FairSpec
CONSTANTS
  n1 = n1
  n2 = n2
  Sources <- OneSource
  SeqSpace = 10
  LookupWraps = TRUE
  Starts <- NearWrap
  MaxObjects = 12
  Window = 4
INVARIANTS
  TypeOK
  QueueAhead
PROPERTIES
  InOrderDelivery
  AnsweredNotSkipped
  EarlyObjectsLeave
