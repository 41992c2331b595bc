SPECIFICATION FairSpec
CONSTANTS
  a = a
  b = b
  r1 = r1
  r2 = r2
  Nobody = Nobody
  Daemons = {d1, d2}
  Jobs = {a, b}
  Rows = {r1, r2}
  StartTime <- MCStartTime
  RowsOf <- MCRowsOf
INVARIANTS TypeOK WorkedOnce
PROPERTIES ImplementsLedger DecidedInTheEnd
