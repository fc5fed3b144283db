SPECIFICATION Spec
CONSTANTS
  LastRow = 2
  Codecs = {"H264", "VP9", "other"}
  Decoded <- Pictures
  MaxFrames = 6
INVARIANTS TypeOK TableMatchesFrames ClosedRowLength IntraRatioIsAverage
PROPERTY EarlierRowsFixed
