SPECIFICATION Spec
CONSTANTS
  Bytes <- MCBytes
  Local <- MCLocal
  Before <- MCBefore
  tries = 4
CHECK_DEADLOCK FALSE
INVARIANTS TypeOK SentWhole
PROPERTY ImplementsTransfer
