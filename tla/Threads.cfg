SPECIFICATION FairSpec
CONSTANTS
  None = None
  FillBuffer = FillBuffer
  GfxVIs = 1
  VIsPerFrame = {1}
INVARIANTS TypeOK PoolNotReused InterruptsFindTask
           OneGfxMessage DrainedMeansIdle
PROPERTIES FramesInOrder FramesFlow
