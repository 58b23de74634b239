SPECIFICATION Spec
CONSTANTS
  training = training
  lane = lane
  versus = versus
  specCO = specCO
  specTR = specTR
  specTITLE = specTITLE
  specVS = specVS
  None = None
  Track = {training, versus}
  Levels <- MCLevels
  Specs = {specCO, specTR, specVS}
  SpecOf <- MCSpecOf
  BootSpec = specCO
  Reset <- MCReset
  Fade <- MCFade
  FramesPerTick = 1
  RestartStops = 1
  Backlog = 0
  Flights = 0
  Unsent = 0
  Requests = 0
  Answers = 1
INVARIANT ReadyMeansRebuilt
