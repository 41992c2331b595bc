SPECIFICATION FairSpec
CONSTANTS
  Faults = {}
  ConnFaults = {"lost"}
  InCwd = TRUE
  SignalAt <- AllPlaces
  Stops = FALSE
PROPERTY RestartPromised
