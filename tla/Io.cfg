CONSTANTS
  Clients = {p1, p2}
  MaxBlocks = 1
  BlockPages = 5
  Sizes = {}
  WorkPages = 1
  CodePages = 1
  ParaPages = 1
  AppSizes = {1, 2}
  MaxActive = 2
  MapFaults = 1
  OpenMod = 256
  NoMem = NoMem
  Overlaps = {FALSE}
SPECIFICATION IoSpec
SYMMETRY ProcessSymmetry
INVARIANTS CountMatchesOpen WorkBufferKept InitGivesBuffers
