SPECIFICATION UseSpec
CONSTANTS
  Pads <- MenuPads
  Levels = {"CO", "VE"}
  Saveable = {"CO", "VE"}
  Phases = {0}
  Worlds = {"w1"}
  Ends = {}
  SetupFrames = 1
  MaxFrame = 0
  InputUntil = 1
  NumSlots = 2
  XloadTimeout = 0
  RepeatDelay = 1
  RepeatRate = 1
  GraceFrames = 1
  MacroCap = 1
  Slices = {"DISPLAY", "MACRO", "LEVELS", "SD", "SD_SAVE", "SD_LOAD"}
  MacroOptions = {"RECORD", "PLAY", "BIND_STATE", "BACK"}
  StartHoldFrames = 1
  Names = {"f1"}
  CardFiles <- OldFiles
INVARIANTS MetaDescribesImage RestoreComesFirst
PROPERTIES SnapshotFitsScene RestoreMeetsScene
