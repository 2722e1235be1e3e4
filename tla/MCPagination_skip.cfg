\* Records are deleted during the walk.
SPECIFICATION Spec
CONSTANTS
    Positions <- MCPositions
    Stored <- MCStored
    Edits = {"delete"}
    Queries <- MCQueries
    DefaultLimit = 2
    CursorPage = 2
CHECK_DEADLOCK FALSE
INVARIANTS
    AllYielded
