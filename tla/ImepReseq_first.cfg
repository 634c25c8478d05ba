SPECIFICATION Spec
CONSTANTS
  n1 = n1
  n2 = n2
  Sources <- OneSource
  SeqSpace = 8
  LookupWraps = TRUE
  Starts <- NearWrap
  MaxObjects = 10
  Window = 3
PROPERTIES
  IgnoredWasSettled
