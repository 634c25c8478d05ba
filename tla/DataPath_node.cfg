SPECIFICATION Spec
CONSTANTS
  Nodes = {0, 1, 2, 3, 4}
  Dest = 3
  Neighbours <- Links
  Uids = {1, 7}
  Source <- Starts
  OtherUids = {8}
  PacketIds = {0, 1, 2, 3, 4, 7, 8}
  Packets = {p1, p2, p3}
  NoHop = NoHop
  Idle = Idle
  QLim <- Limits
  DefTTL = 3
  Size = 5
  IpHdrLen = 2
  MaxOthers = 2
  Drained = {1}
  Talks <- Chatter
  Tapped = {2}
  StaticNames <- Statics
  Libraries <- Dynamic
  LibraryClass <- Classes
INVARIANTS TypeOK OnePlace QueueSound HeadersTrue DirectionTrue LoopsOnly CountsTrue DelaysTrue ScreenTrue TypesSound
PROPERTY Promised
CHECK_DEADLOCK FALSE
SYMMETRY Slots
