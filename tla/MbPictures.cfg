SPECIFICATION Spec
CONSTANTS
  NumMb = 2
  MaxSlices = 2
  QPs = {1, 3}
  SliceTypes = {"I", "P", "B"}
  Macroblocks <- AllMacroblocks
INVARIANTS TypeOK AssertsWithoutPCM LastSliceCounted TypeQPsConserved MotionMeasured
