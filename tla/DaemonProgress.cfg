SPECIFICATION FairSpec
CONSTANTS
  Faults = {}
  ConnFaults = {"lost", "wedged"}
  InCwd = TRUE
  SignalAt <- QuietReload
  Stops = FALSE
PROPERTIES RestartsWhenUp ReloadServed
