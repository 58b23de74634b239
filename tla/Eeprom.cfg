SPECIFICATION FairSpec
CONSTANTS
  N = 2
  Content <- MCContent
  Zero = "zero"
  Torn = "torn"
  Saves = {"default", "s1", "s2"}
  Default = "default"
  Image <- MCImage
  Unsaved = Unsaved
  ResetAfter = 2
INVARIANTS TypeOK SuccessIsStored
PROPERTIES SavedGameSpec CallsReturn
