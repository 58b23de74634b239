SPECIFICATION Spec
CONSTANTS
  Pads <- LeavePads
  Levels = {"CO", "VE"}
  Saveable = {"CO", "VE"}
  Phases = {0}
  Worlds = {"w1"}
  Ends = {}
  SetupFrames = 1
  MaxFrame = 0
  InputUntil = 1
  NumSlots = 1
  XloadTimeout = 360
  RepeatDelay = 1
  RepeatRate = 1
  GraceFrames = 1
  MacroCap = 0
  Slices = {"SD", "SD_LOAD", "LEVELS"}
  MacroOptions = {"BACK"}
  StartHoldFrames = 45
  Names = {"f1"}
  CardFiles <- CurrentFiles
PROPERTY DeferredLoadFits
