SPECIFICATION FairSpec
CONSTANTS
    Procs = {p1, p2, p3}
    Blobs = {b1}
    Temps = {t1}
    Others = {notes}
    Inodes = {i1, i2}
    User = User
    None = None
    MaxFaults = 2
INVARIANTS
    OneLiveStore
    LiveFilesSafe
    NothingInherited
PROPERTIES
    OthersKept
    CallsReturn
CHECK_DEADLOCK FALSE
