SPECIFICATION FairSpec
CONSTANTS
  Puts = {p1, p2}
  BlobIds = {b1}
  Handles = {h1}
  NoBlob = NoBlob
  NoHandle = NoHandle
  MaxBlobBytes = 1
  MaxTotalBytes = 2
  MaxBlobs = 2
  TTL = 1
  OwnedDir = TRUE
  MaxClock = 1
  MaxFaults = 1
PROPERTIES
  CloseReturns
  PutsReturn
  DeadBlobsReclaimed
