SPECIFICATION Spec
CONSTANTS
    Archives <- MCArchives
    Formats = {ct, vd}
    PageSizes = {1, 2, 4}
    MaxPageBytes = 5
    TokenBytes = 1
    MaxRestarts = 1
    None = None
INVARIANTS
    ListingsWhole
    TokensExact
    Progress
CHECK_DEADLOCK FALSE
