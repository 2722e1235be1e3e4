------------------------------ MODULE Answers ------------------------------
(***************************************************************************)
(* NewClient, and what do makes of the answers to one request of the       *)
(* client (src/client.go): which are retried and after what wait (backoff, *)
(* retryAfter), and which become which typed error (classifyError,         *)
(* src/errors.go).  Client models the same loop from the side of the       *)
(* token and the body; here it is the numbers: the attempts, the 64-bit    *)
(* durations, the statuses.                                                *)
(*                                                                         *)
(* Durations here are in the units of time.Duration and wrap around, like  *)
(* any int64.  The word and the second are parameters, so that the limits  *)
(* of a smaller word can be reached; the code's are 2^64 and 10^9.         *)
(***************************************************************************)
EXTENDS Configuration

CONSTANTS
    Configs,     \* what NewClient may be called with
    Statuses,    \* the HTTP statuses a server may answer with
    RetryAfters, \* the Retry-After headers it may send with a 429
    Second,      \* time.Second
    Word         \* how many values a time.Duration has

ASSUME ConfigsAssumption == \A c \in Configs : IsConfig(c)
ASSUME StatusesAssumption == Statuses \subseteq 100 .. 599
ASSUME RetryAftersAssumption == RetryAfters \subseteq Int
ASSUME SecondAssumption == Second \in Nat /\ Second > 0
ASSUME WordAssumption == Word \in Nat /\ 60 * Second < Word

\* No header, or one that is not a number: the code cannot tell it from a zero.
NoHeader == 0

VARIABLES
    config,    \* the Config of the caller
    client,    \* a pointer to the client made from it
    attempt,   \* the loop's counter
    wait,      \* the wait before the last retry
    reason,    \* what it was for: "start", "transient" or "limited"
    told,      \* the Retry-After header it followed
    result     \* what do returned, if it has

vars == <<config, client, attempt, wait, reason, told, result>>

NoError == [kind |-> "none", status |-> 0, unwraps |-> "none", retryAfter |-> NoHeader]
Pending == [NoError EXCEPT !.kind = "pending"]

Init ==
    /\ config \in Configs
    /\ client = {}
    /\ attempt = 0
    /\ wait = 0
    /\ reason = "start"
    /\ told = NoHeader
    /\ result = Pending

----------------------------------------------------------------------------
(* Durations *)

\* The number of that word that x comes to.
Wrapped(x) == LET rest == x % Word IN IF 2 * rest < Word THEN rest ELSE rest - Word

\* time.Duration(n) * time.Second
Seconds(n) == Wrapped(n * Second)

\* n seconds are not too long for a time.Duration.
Holds(n) == 2 * n * Second < Word

AtMost(d, limit) == IF d < limit THEN d ELSE limit

Cap == 30 * Second

\* Fault: the cap is missing.
BackoffUncapped(a) == Seconds(2 ^ a)

\* Fault: the first retry does not wait.
BackoffFromZero(a) == IF a = 0 THEN 0 ELSE AtMost(Seconds(2 ^ (a - 1)), Cap)

backoff(a) == AtMost(Seconds(2 ^ a), Cap)

\* Fault: the header is only consulted once the backoff is at its cap.
RetryAfterLate(header, fallback) ==
    IF header > 0 /\ fallback = Cap THEN Seconds(header) ELSE fallback

retryAfter(header, fallback) == IF header > 0 THEN Seconds(header) ELSE fallback

----------------------------------------------------------------------------
(* Errors *)

\* The error types of errors.go, and the sentinel each one unwraps to.
Sentinel ==
    [validation |-> "ErrBadRequest", auth |-> "ErrUnauthorized", forbidden |-> "ErrForbidden",
     not_found |-> "ErrNotFound", conflict |-> "ErrConflict", rate_limited |-> "ErrRateLimited",
     server |-> "ErrServer", api |-> "ErrServer"]

Kind(status) ==
    CASE status = 400 -> "validation"
      [] status = 401 -> "auth"
      [] status = 403 -> "forbidden"
      [] status = 404 -> "not_found"
      [] status = 409 -> "conflict"
      [] status = 429 -> "rate_limited"
      [] status >= 500 -> "server"
      [] OTHER -> "api"

classifyError(status, header) ==
    [kind |-> Kind(status), status |-> status, unwraps |-> Sentinel[Kind(status)],
     retryAfter |-> IF status = 429 THEN header ELSE NoHeader]

----------------------------------------------------------------------------
(* NewClient *)

Accept ==
    /\ validate(config)
    /\ client' = {NewClient(config)}
    /\ UNCHANGED <<config, attempt, wait, reason, told, result>>

Refuse ==
    /\ ~validate(config)
    /\ result' = [NoError EXCEPT !.kind = "config"]
    /\ UNCHANGED <<config, client, attempt, wait, reason, told>>

\* Config.MaxRetries, as the client has it.
MaxRetries == Budget(Only(client))

----------------------------------------------------------------------------
(* The loop *)

\* Fault: one retry more than allowed.
RetryOnceMore(why, header, duration) ==
    /\ attempt <= MaxRetries
    /\ attempt' = attempt + 1
    /\ wait' = duration
    /\ reason' = why
    /\ told' = header
    /\ UNCHANGED <<config, client, result>>

Retry(why, header, duration) ==
    /\ attempt < MaxRetries
    /\ attempt' = attempt + 1
    /\ wait' = duration
    /\ reason' = why
    /\ told' = header
    /\ UNCHANGED <<config, client, result>>

Return(outcome) ==
    /\ result' = outcome
    /\ UNCHANGED <<config, client, attempt, wait, reason, told>>

Succeed(status) ==
    /\ status < 400
    /\ Return([NoError EXCEPT !.status = status])

\* A 5xx, or an error of the transport that looks transient.
RetryTransient == Retry("transient", NoHeader, backoff(attempt))

RetryLimited(header) == Retry("limited", header, retryAfter(header, backoff(attempt)))

\* Fault: the last round retries too few kinds of answers.
FailEarly(status, header) ==
    /\ status >= 400
    /\ status >= 500 => attempt >= MaxRetries
    /\ Return(classifyError(status, header))

Fail(status, header) ==
    /\ status >= 400
    /\ status >= 500 \/ status = 429 => attempt >= MaxRetries
    /\ Return(classifyError(status, header))

\* The transport fails in the last round, or for good.
FailTransport == Return([NoError EXCEPT !.kind = "transport"])

Round ==
    \/ RetryTransient
    \/ FailTransport
    \/ \E header \in RetryAfters \cup {NoHeader} :
          \/ RetryLimited(header)
          \/ \E status \in Statuses : Succeed(status) \/ Fail(status, header)

Next ==
    /\ result = Pending
    /\ \/ client = {} /\ (Accept \/ Refuse)
       \/ client # {} /\ Round

Spec == Init /\ [][Next]_vars
----------------------------------------------------------------------------
(* Properties *)

TypeOK ==
    /\ config \in Configs
    /\ client \subseteq {NewClient(config)}
    /\ attempt \in 0 .. (IF client = {} THEN 0 ELSE MaxRetries)
    /\ -Word <= 2 * wait /\ 2 * wait < Word
    /\ reason \in {"start", "transient", "limited"}
    /\ told \in RetryAfters \cup {NoHeader}
    /\ result \in [kind : DOMAIN Sentinel \cup {"none", "pending", "config", "transport"},
                   status : {0} \cup Statuses,
                   unwraps : {Sentinel[k] : k \in DOMAIN Sentinel} \cup {"none"},
                   retryAfter : RetryAfters \cup {NoHeader}]

\* There is a host in a URL of the caller's.  validate does not ask for one.
HostGiven(u) == u = NoURL \/ u.host # ""

\* A client that is made can do its work, unless it was given a URL without a
\* host: it finds the API server and, with a refresh token, the accounts server
\* it has the credentials for; a token is there when none can be granted;
\* requests and retries come to an end.  A BaseURL of the caller's may come
\* without a data center, and if it then has no AccountsURL either, the accounts
\* server is unknown (see the README).
ClientCanWork ==
    \A c \in client :
        /\ HostGiven(config.baseURL) => c.baseURL.host # ""
        /\ c.baseURL.slashes = 0 /\ c.accountsURL.slashes = 0
        /\ c.tokens.kind = "static" => c.tokens.current # ""
        /\ c.tokens.kind = "refresh" =>
            /\ "" \notin {c.tokens.clientID, c.tokens.clientSecret, c.tokens.refreshToken}
            /\ /\ HostGiven(config.accountsURL)
               /\ ValidDataCenter(config.dataCenter) \/ config.accountsURL # NoURL
               => c.tokens.accountsURL.host # ""
        /\ MaxRetries \in Nat
        /\ config.httpClient = {} => \A timeout \in c.config.httpClient : timeout > 0
        /\ "" \notin {c.config.environment, c.config.apiVersion}

\* No retry follows its failure at once, as long as neither the header nor the
\* power of two is more seconds than a duration holds.
NeverHot ==
    reason # "start" /\ Holds(told) /\ Holds(2 ^ (attempt - 1)) => wait > 0

\* "exponential backoff duration capped at 30s": with no header to go by, each
\* wait is twice the one before until it is 30 seconds, and stays there, until
\* the power of two is more seconds than a duration holds.
WaitsDouble ==
    [][attempt' > attempt /\ attempt > 0 /\ told <= 0 /\ told' <= 0 /\ Holds(2 ^ attempt)
        => wait' = AtMost(2 * wait, Cap)]_vars

\* A client that is told to wait does not come back earlier, if a duration holds
\* the seconds it is told.
WaitAsTold == told > 0 /\ Holds(told) => wait >= told * Second

\* The caller hears of overload and of failing servers only when no retry is
\* left, and then knows them for what they are.
RetriesUsedUp ==
    /\ result.status >= 500 \/ result.status = 429 => attempt = MaxRetries
    /\ result.status = 429 => result.unwraps = "ErrRateLimited"
    /\ result.status >= 500 => result.unwraps = "ErrServer"
============================================================================
