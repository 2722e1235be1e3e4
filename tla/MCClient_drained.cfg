\* An upload meets a transient failure.
SPECIFICATION ClientSpec
CONSTANTS
    Callers = {g1, g2}
    NoCaller = NoCaller
    Hooks = {"refresh", "invalidate"}
    MaxMints = 1
    Kinds = {"upload"}
    MaxRetries = 1
    Redirects = FALSE
INVARIANTS
    WholeBodySent
