\* Two ids of three fit, one record per datagram.
SPECIFICATION FairStreamSpec
CONSTANTS
  Ids = {a, b, c}
  MaxIds = 2
  MaxRecords = 1
  SnapPeriod = 2
  FastPeriod = 1
  FastLists = {{}, {a}}
  MaxLate = 1
  Half = 5
  Shapes = {b}
INVARIANTS HubHasTable
PROPERTIES NothingStarves
