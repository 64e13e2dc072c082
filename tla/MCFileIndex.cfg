CONSTANTS
  p1 = p1
  p2 = p2
  p3 = p3
  p4 = p4
  p5 = p5
  Path = {p1, p2, p3, p4, p5}
  Size = {1, 2}
  Hash <- HashOfPath
  Length <- LengthOfPath
  ChunkSize = 5
  None = None
  InitialCapacity = 2
SPECIFICATION Spec
INVARIANTS
  TypeOK
  RoomToProbe
  FindAgrees
  StringsApart
PROPERTY ImplementsPathMap
