\* Every kind of Config, every answer and every header, with a budget past the
\* cap of the backoff, and past the word, among the clients' budgets.
SPECIFICATION Spec
CONSTANTS
    Configs <- MCConfigs
    Statuses <- MCStatuses
    RetryAfters <- MCRetryAfters
    Second <- MCSecond
    Word <- MCWord
CHECK_DEADLOCK FALSE
INVARIANTS
    TypeOK
    ClientCanWork
    NeverHot
    WaitAsTold
    RetriesUsedUp
PROPERTIES
    WaitsDouble
