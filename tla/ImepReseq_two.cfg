SPECIFICATION Spec
CONSTANTS
  n1 = n1
  n2 = n2
  Sources <- TwoSources
  SeqSpace = 8
  LookupWraps = FALSE
  Starts <- NearWrap
  MaxObjects = 10
  Window = 2
INVARIANTS
  HoleTimed
