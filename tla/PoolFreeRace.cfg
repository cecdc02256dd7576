CONSTANTS
  Clients = {c1, c2}
  MaxBlocks = 1
  BlockPages = 2
  Sizes <- RequestSizes
  WorkPages = 1
  OpenMod = 256
  NoMem = NoMem
  Overlaps = {TRUE}
SPECIFICATION Spec
INVARIANT RecordsTrack
