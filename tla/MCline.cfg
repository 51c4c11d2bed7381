SPECIFICATION FairSpec
CONSTANTS
  User <- MCUser
  Remote <- MCRemote
  Chunks = {4, 8}
  Faults = TRUE
  KeepsUp = TRUE
  Echo = TRUE
  MaxRx = 8
INVARIANTS LineTypeOK WholeFramesOnly
PROPERTIES ImplementsExchange BytesMeanRecords FramesGetThrough
