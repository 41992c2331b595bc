SPECIFICATION Spec
CONSTANTS
  Bytes <- MCBytes
  Remote <- MCRemote
  Before <- MCBefore
INVARIANT ContinuesOwnFile
