\* Two callers race over three grants, with both callbacks installed, and the
\* accounts server may never answer.
SPECIFICATION FairSpec
CONSTANTS
    Callers = {g1, g2}
    NoCaller = NoCaller
    Hooks = {"refresh", "invalidate"}
    MaxMints = 3
INVARIANTS
    SourceInv
    LatestChangeReported
PROPERTIES
    NoWastedMint
    NoUsableTokenOverwritten
    ImplementsCell
    CancelledCallsReturn
    PersistedSettles
