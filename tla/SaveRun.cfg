SPECIFICATION Spec
CONSTANTS
  Pads <- SavePads
  Levels = {"CO", "VE"}
  Saveable = {"CO", "VE"}
  Phases = {0, 1}
  Worlds = {"w1", "w2"}
  Ends = {"complete", "respawn", "warp"}
  SetupFrames = 1
  MaxFrame = 4
  InputUntil = 2
  NumSlots = 1
  XloadTimeout = 1
  RepeatDelay = 1
  RepeatRate = 1
  GraceFrames = 1
  MacroCap = 0
  Slices = {}
  MacroOptions = {"BACK"}
  StartHoldFrames = 1
  Names = {}
  CardFiles = {}
INVARIANT MetaDescribesImage
PROPERTIES SnapshotFitsScene DeferredLoadFits XloadResolves SdCrossResolves
