\* Two goroutines with authenticated requests race over rejected tokens.
SPECIFICATION ClientSpec
CONSTANTS
    Callers = {g1, g2}
    NoCaller = NoCaller
    Hooks = {"refresh", "invalidate"}
    MaxMints = 2
    Kinds = {"json", "upload"}
    MaxRetries = 1
    Redirects = FALSE
SYMMETRY Symmetry
INVARIANTS
    ClientInv
    SendsWithinBudget
    RepeatsWithinBudget
    AuthErrorMeansTwoTokens
    RejectedNotPersisted
PROPERTIES
    OnlyRejectedDropped
