SPECIFICATION Spec
CONSTANTS
  Keys <- MCKeys
  Files <- MCFiles
  Faults = {"sql", "rows", "io"}
  Jobs = {1, 2}
  Urls <- MCUrls
  Config <- MCConfig
  UrlOf <- TwoReports
  MaxDownFile = 2
  ConnFaults = {"lost"}
INVARIANT LiveHandle
