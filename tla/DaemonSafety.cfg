SPECIFICATION Spec
CONSTANTS
  Faults = {"sql", "connect"}
  ConnFaults = {"lost", "wedged"}
  InCwd = FALSE
  SignalAt <- AllPlaces
  Stops = TRUE
INVARIANTS TypeOK UnusableTablesRetried HandleUsable
