CONSTANTS
  Variants = {"rtsp", "rtp", "mpeg4"}
  SeqMod = 4
  TsMod = 4
  MaxPkts = 3
  MaxLate = 1
  MaxFaults = 2
SPECIFICATION RtpSpec
CHECK_DEADLOCK FALSE
INVARIANTS NoHoles ReferencesPresent Transparent Resyncs
