CONSTANTS
  Configs <- MCConfigs
  FbW = 800
  FbH = 480
  NFrames = 3
  MaxRounds = 2
  MaxRatio = 20
SPECIFICATION Spec
INVARIANTS BuffersAccounted ShownAfterI HeartbeatFresh ResizeFaithful
PROPERTIES Recovers
