SPECIFICATION Spec
CONSTANTS
  Videos <- FewVideos
  MaxSessions = 2
INVARIANTS TypeOK PreviousLuma BuffersFit MotionOfPicture FilterWindow MotionScale BorderOfLastIntra
