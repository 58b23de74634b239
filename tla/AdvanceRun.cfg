SPECIFICATION HistorySpec
CONSTANTS
  Pads <- AdvancePads
  Levels = {"CO"}
  Saveable = {"CO"}
  Phases = {0}
  Worlds = {"w1"}
  Ends = {"respawn", "gameOver", "map", "complete", "next", "screen"}
  SetupFrames = 1
  MaxFrame = 0
  InputUntil = 1
  NumSlots = 2
  XloadTimeout = 0
  RepeatDelay = 12
  RepeatRate = 2
  GraceFrames = 2
  MacroCap = 0
  Slices = {"RESTART"}
  MacroOptions = {"BACK"}
  StartHoldFrames = 1
  Names = {}
  CardFiles = {}
INVARIANTS StepCadence NoStepLeftBehind
