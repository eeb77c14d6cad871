SPECIFICATION FairSpec
CONSTANTS
  Puts = {p1}
  BlobIds = {b1}
  Handles = {h1}
  NoBlob = NoBlob
  NoHandle = NoHandle
  MaxBlobBytes = 1
  MaxTotalBytes = 1
  MaxBlobs = 1
  TTL = 1
  OwnedDir = FALSE
  MaxClock = 1
  MaxFaults = 1
PROPERTY
  DeleteMarksUnavailable
