CONSTANTS
  Size = 5
  Chunk = 2
  MinSpace = 1
  Drain = 2
  MaxBytes = 8
SPECIFICATION RSpec
INVARIANT UnitWhole
