SPECIFICATION Spec
CONSTANTS
  s1 = s1
  s2 = s2
  Slots <- TwoSlots
  MaxFrames = 7
  ShowsExisting = TRUE
  MaxRepeats = 0
  SmallInter = FALSE
SYMMETRY Symmetry
INVARIANTS TypeOK FieldsSafe StatisticsOfPicture
