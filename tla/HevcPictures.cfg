SPECIFICATION BlocksSpec
CONSTANT
  CodedStreams <- SmallStreams
INVARIANTS BlocksTypeOK BlocksCoverSlice TypesCoverSlice BorderOfIntra AverageDefined
