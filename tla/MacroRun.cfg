SPECIFICATION Spec
CONSTANTS
  Pads <- MacroPads
  Levels = {"CO"}
  Saveable = {"CO"}
  Phases = {0}
  Worlds = {"w1"}
  Ends = {}
  SetupFrames = 1
  MaxFrame = 0
  InputUntil = 1
  NumSlots = 1
  XloadTimeout = 1
  RepeatDelay = 1
  RepeatRate = 1
  GraceFrames = 1
  MacroCap = 2
  Slices = {}
  MacroOptions = {"BACK"}
  StartHoldFrames = 1
  Names = {}
  CardFiles = {}
INVARIANTS TypeOK MacroBounds RecordingIsWhatIsPlayed ReplayIsExact
PROPERTY PlainReplayEnds
