SPECIFICATION Spec
CONSTANTS
  BundleCalls = {c1, c2}
  FileCalls = {}
  Readers = {}
  primary = primary
  meta = meta
  typetree = typetree
  Managed <- MCManaged
  Original = Original
  Partial = Partial
  NoFile = NoFile
  NoCall = NoCall
SYMMETRY Symmetry
INVARIANTS
  AllOrNothing
  NothingLost
  NeverPaired
  PrimaryLast
  NoLitter
