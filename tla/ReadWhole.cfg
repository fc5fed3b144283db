SPECIFICATION FairSpec
CONSTANTS
  VideoIdx = 0
  Delay <- HoldsBack
  Clients <- BothClients
  FrameLimit = 3
  OpenMayFail = TRUE
  MaxPackets = 5
  MaxHeld = 2
  Files <- AllFiles
INVARIANTS TypeOK DecodedOnce Conservation NothingLost
PROPERTIES Implements LoopEnds
