CONSTANTS
  Size = 5
  Chunk = 3
  MinSpace = 1
  Drain = 3
  MaxBytes = 11
SPECIFICATION RSpec
INVARIANTS RTypeOK NoHole Lossless InOrder CommitAccepted
