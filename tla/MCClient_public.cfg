\* A request that carries no token gets a 401.
SPECIFICATION ClientSpec
CONSTANTS
    Callers = {g1, g2}
    NoCaller = NoCaller
    Hooks = {"refresh", "invalidate"}
    MaxMints = 2
    Kinds = {"json", "public"}
    MaxRetries = 0
    Redirects = FALSE
PROPERTIES
    OnlyRejectedDropped
