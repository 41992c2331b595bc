SPECIFICATION Spec
CONSTANTS
  Keys <- MCKeys
  Files <- MCFiles
  Faults = {"sql", "rows", "io", "quiet"}
  Jobs = {1, 2, 3}
  Urls <- MCUrls
  Config <- MCConfig
  UrlOf <- ReportChangesBroken
  MaxDownFile = 2
  ConnFaults = {"lost", "wedged"}
INVARIANTS TypeOK AllOrNothing AtMostOnce DoneMeansDelivered OwnInputs
PROPERTY ImplementsLedger
