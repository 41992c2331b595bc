SPECIFICATION FairSpec
CONSTANTS
  Keys <- MCKeys
  Files <- MCFiles
  Faults = {"io", "quiet"}
  Jobs = {1, 2, 3}
  Urls <- MCUrls
  Config <- MCConfig
  UrlOf <- WithUnknown
  MaxDownFile = 2
  ConnFaults = {"lost", "wedged"}
PROPERTY DecidedWhenCalm
