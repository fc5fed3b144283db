SPECIFICATION FairSpec
CONSTANTS
  VideoIdx = 1
  Delay <- HoldsBack
  Clients <- TestMain
  FrameLimit = 0
  OpenMayFail = FALSE
  MaxPackets = 2
  MaxHeld = 0
  Files <- CleanFiles
PROPERTY LoopEnds
