SPECIFICATION Spec
CONSTANTS
  NumMb = 2
  MaxSlices = 1
  QPs = {1, 3}
  SliceTypes = {"I", "P"}
  Macroblocks <- AllMacroblocks
INVARIANT Asserts264
