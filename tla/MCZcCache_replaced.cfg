\* A 401 in one process, a new token from another.
SPECIFICATION Spec
CONSTANTS
    Processes = {p1, p2}
    Commands = {"call"}
    MaxMints = 2
    MaxKills = 0
PROPERTIES
    ReplacementKept
