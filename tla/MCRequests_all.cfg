\* Every operation, both versions, with filters composed in up to three steps,
\* of terms joined two at a time.
SPECIFICATION FilterSpec
CONSTANTS
    Names = {Empty, "report"}
    Empty = Empty
    Spaces = Spaces
    Criteria = {written}
    Queries <- MCQueries
    Verbs <- MCVerbs
    Atoms <- MCAtoms
    MaxOperands = 2
    MaxSteps = 3
INVARIANTS
    TypeOK
    WritesAreScoped
    V2Spared
    LinkInsteadOfToken
    WalkKeepsQuery
    FilterAsComposed
