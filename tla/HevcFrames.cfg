SPECIFICATION Spec
CONSTANT
  Streams <- SmallStreams
INVARIANTS TypeOK PicturesHandedOut
