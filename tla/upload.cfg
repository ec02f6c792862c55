SPECIFICATION FairSpec
CONSTANTS
    Uploads = {u1, u2, u3}
    Users = {a, b}
    Contents = {x}
    None = None
    MaxFaults = 1
CHECK_DEADLOCK FALSE
INVARIANTS TypeOK RowHasFile OrphansHaveACause OneDefaultSource
PROPERTY Completes
