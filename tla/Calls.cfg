SPECIFICATION MCSpec
CONSTANTS
  Urls <- MCUrls
  Tables <- MCTables
  MaxRows = 3
  MaxPlaces = 2
  RowLimit = 1
  AclLimit = 2
  RowSize = 2
  MaxSpace = 6
  Texts <- MCTexts
  Given <- MCGiven
  Versions <- MCVersions
  Length <- MCLength
  BlockSize = 2
  MaxFile = 3
  Sheets <- MCSheets
  Queries <- MCQueries
  Lists <- MCLists
  LastRow = 3
  LastCol = 1
  Rows <- MCRows
  PageTables <- MCPageTables
  PageTexts <- MCPageTexts
  SizeTexts <- MCSizeTexts
  MaxCalls = 2
  RuleDepth = 3
  RuleLists <- MCRules
  MaxFetched = 1
  MaxWork = 5
  Steps <- MCSteps
  Schema <- MCSchema
  Absent = Absent
CHECK_DEADLOCK FALSE
INVARIANTS
  CallTypes
  StepsOfUrl
  ResultTells AllBound
  ValuesInPlace
  SavedIsWhole
  WholeBookOrNone
  PagesJoin
  ReadableIffClean
  CountsExact CycleReleases KindsRespected
PROPERTIES LoadedIsWhole CallsReturn
