----------------------------- MODULE MCAnswers -----------------------------
(* Instances of Answers for TLC. *)
EXTENDS Answers

MCStatuses == {200, 302, 400, 401, 403, 404, 405, 409, 413, 429, 500, 503}

\* A second of 10 units, in a word that holds 204 of them and 2^7, not 2^8.
MCSecond == 10
MCWord == 4096

\* In the past, ordinary, longer than any backoff, the last one that fits, the
\* first that does not, one that wraps around to less than a second.
MCRetryAfters == {-1, 1, 8, 35, 204, 205, 410}

Working ==
    [NoConfig EXCEPT !.dataCenter = "us", !.clientID = "id", !.clientSecret = "secret",
                     !.refreshToken = "refresh"]

Nowhere == [scheme |-> "https", host |-> "", slashes |-> 0]
Elsewhere == [scheme |-> "http", host |-> "127.0.0.1", slashes |-> 1]

\* What decides which servers and which token a client has, in every combination.
MCIdentities ==
    { [NoConfig EXCEPT !.dataCenter = dc, !.clientID = "id", !.clientSecret = secret,
                       !.refreshToken = refresh, !.accessToken = access,
                       !.baseURL = base, !.accountsURL = accounts] :
        dc \in {"", "in", "moon"}, secret \in {"", "secret"}, refresh \in {"", "refresh"},
        access \in {"", "access"}, base \in {NoURL, Elsewhere, Nowhere},
        accounts \in {NoURL, Elsewhere, Nowhere, [Elsewhere EXCEPT !.scheme = ""]} }

\* Numbers at and below their limits, with retries past the cap of the backoff
\* and past the last power of two a duration holds.
MCNumbers ==
    { [Working EXCEPT !.maxRetries = retries, !.defaultTimeout = timeout,
                      !.tokenEarlyRefresh = early, !.httpClient = own] :
        retries \in {{}, {-1}, {0}, {10}}, timeout \in {-1, 0, 5}, early \in {-1, 0, 300},
        own \in {{}, {0}} }

MCNames ==
    { [Working EXCEPT !.environment = env, !.apiVersion = version] :
        env \in {"", "stage", "qa"}, version \in {"", "v2", "v3"} }

\* Every data center, and one that is not there.
MCDataCenters == {[Working EXCEPT !.dataCenter = dc] : dc \in DataCenters \cup {"moon"}}

MCConfigs == MCIdentities \cup MCNumbers \cup MCNames \cup MCDataCenters
=============================================================================
