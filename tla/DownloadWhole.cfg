SPECIFICATION FairSpec
CONSTANTS
  Bytes <- MCBytes
  Remote <- MCRemote
  Before <- MCBefore
INVARIANTS TypeOK CopyIsBeginning
PROPERTIES ImplementsTransfer WholeInTheEnd
