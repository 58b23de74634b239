SPECIFICATION FairSpec
CONSTANTS
  training = training
  lane = lane
  versus = versus
  specCO = specCO
  specTR = specTR
  specTITLE = specTITLE
  specVS = specVS
  None = None
  Track = {training, lane, versus}
  Levels <- MCLevels
  Specs = {specCO, specTR, specTITLE, specVS}
  SpecOf <- MCSpecOf
  BootSpec = specCO
  Reset <- MCReset
  Fade <- MCFade
  FramesPerTick = 1
  RestartStops = 1
  Backlog = 0
  Flights = 0
  Unsent = 0
  Requests = 1
  Answers = 1
INVARIANTS TypeOK AnnouncedMeansRebuilt BatchesFit
PROPERTIES ResetEnds RescueIsPlayed
