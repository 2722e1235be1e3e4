\* Authenticated requests and requests with a private link; the server may
\* redirect to another host.
SPECIFICATION ClientFairSpec
CONSTANTS
    Callers = {g1, g2}
    NoCaller = NoCaller
    Hooks = {}
    MaxMints = 1
    Kinds = {"json", "public"}
    MaxRetries = 0
    Redirects = TRUE
PROPERTIES
    DoReturns
