SPECIFICATION Spec
CONSTANTS
  BundleCalls = {c1}
  FileCalls = {}
  Readers = {r1}
  primary = primary
  meta = meta
  typetree = typetree
  Managed <- MCManaged
  Original = Original
  Partial = Partial
  NoFile = NoFile
  NoCall = NoCall
INVARIANT
  InstallIsAtomic
