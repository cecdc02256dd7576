CONSTANTS
  Clients = {c1, c2}
  MaxBlocks = 2
  BlockPages = 2
  Sizes <- RequestSizes
  WorkPages = 1
  OpenMod = 256
  NoMem = NoMem
  Overlaps = {TRUE, FALSE}
SPECIFICATION Spec
SYMMETRY ClientSymmetry
INVARIANTS TypeOK LiveMarked LiveDisjoint SerialWorkBuffer SerialRecords SerialAccounted
PROPERTY PoolPromise
