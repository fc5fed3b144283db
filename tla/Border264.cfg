SPECIFICATION Spec
CONSTANTS
  Sizes <- SmallSizes
  Cap = 3
  MaxSlices = 2
INVARIANTS TypeOK BorderOfPicture QPsOutsideBorder
