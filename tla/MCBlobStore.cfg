SPECIFICATION Spec
CONSTANTS
  Puts = {p1, p2}
  BlobIds = {b1, b2}
  Handles = {h1, h2}
  NoBlob = NoBlob
  NoHandle = NoHandle
  MaxBlobBytes = 2
  MaxTotalBytes = 3
  MaxBlobs = 2
  TTL = 1
  OwnedDir = FALSE
  MaxClock = 2
  MaxFaults = 1
SYMMETRY Symmetry
INVARIANTS
  TypeOK
  AccountingExact
  CallsConsistent
  QuotaHolds
  DiskWithinQuota
  CloseForgetsNothingLive
  CleanClose
PROPERTIES
  WithdrawnForGood
  ReaderKeepsFile
  ImplementsAbstractStore
