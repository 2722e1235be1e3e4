\* Every command in every shell, one after the other, over two bulk jobs.
SPECIFICATION FairSpec
CONSTANTS
    Processes = {p1}
    Shells <- MCShells
    Commands = {"oauth-refresh", "show", "submit", "collect", "stream", "download", "download-out",
                "bulk-create", "bulk-status", "bulk-result", "program"}
    MaxJobs = 2
INVARIANTS
    TypeOK
    TokenOfOwnCredentials
    ExitTellsTheOutcome
PROPERTIES
    PollingEnds
