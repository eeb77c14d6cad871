SPECIFICATION Spec
CONSTANTS
  BundleCalls = {c1, c2}
  FileCalls = {f1}
  Readers = {r1}
  primary = primary
  meta = meta
  typetree = typetree
  Managed <- MCOneSidecar
  Original = Original
  Partial = Partial
  NoFile = NoFile
  NoCall = NoCall
SYMMETRY Symmetry
INVARIANTS
  NoStaleSidecarRead
PROPERTY
  WriteFileKeepsPrimary
