\* Both API versions, while records come and go.
SPECIFICATION FairSpec
CONSTANTS
    Positions <- MCPositions
    Stored <- MCStored
    Edits = {"insert", "delete"}
    Queries <- MCQueries
    DefaultLimit = 2
    CursorPage = 2
CHECK_DEADLOCK FALSE
INVARIANTS
    TypeOK
    EveryRecordYielded
    NoRecordTwice
PROPERTIES
    ImplementsWalk
    WalkEnds
