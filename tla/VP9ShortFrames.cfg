SPECIFICATION Spec
CONSTANTS
  s1 = s1
  s2 = s2
  Slots <- TwoSlots
  MaxFrames = 4
  ShowsExisting = FALSE
  MaxRepeats = 0
  SmallInter = TRUE
SYMMETRY Symmetry
INVARIANT FieldsSafe
