SPECIFICATION BlocksSpec
CONSTANT
  Streams <- SmallStreams
INVARIANTS BlocksTypeOK AreaCounted ClassifiedOnce BorderUsable
