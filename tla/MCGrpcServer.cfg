SPECIFICATION FairSpec
CONSTANTS
    Calls = {c1}
    Uploads = {u1, u2}
    Downloads = {d1}
    Ids = {b1, b2, b3}
    Artifacts <- MCArtifacts
    MaxInline = 3
    MaxBlobs = 2
    MaxFaults = 1
    None = None
INVARIANTS
    NoOrphans
    InlineBudget
PROPERTIES
    CallsEnd
    ServerExits
CHECK_DEADLOCK FALSE
