--------------------------- MODULE Configuration ---------------------------
(***************************************************************************)
(* Config and what NewClient makes of it (src/config.go, src/client.go),   *)
(* with the data centers (src/datacenter.go).                              *)
(*                                                                         *)
(* A string that is not set is "".  A name of a data center is given as    *)
(* ParseDataCenter compares it, trimmed and in lower case.                 *)
(***************************************************************************)
EXTENDS Integers

----------------------------------------------------------------------------
(* Data centers *)

APIHosts ==
    [us |-> "www.zohoapis.com", eu |-> "www.zohoapis.eu", in |-> "www.zohoapis.in",
     au |-> "www.zohoapis.com.au", jp |-> "www.zohoapis.jp", ca |-> "www.zohoapis.ca",
     cn |-> "www.zohoapis.com.cn", sa |-> "www.zohoapis.sa", ae |-> "www.zohoapis.ae"]

AccountsHosts ==
    [us |-> "accounts.zoho.com", eu |-> "accounts.zoho.eu", in |-> "accounts.zoho.in",
     au |-> "accounts.zoho.com.au", jp |-> "accounts.zoho.jp", ca |-> "accounts.zohocloud.ca",
     cn |-> "accounts.zoho.com.cn", sa |-> "accounts.zoho.sa", ae |-> "accounts.zoho.ae"]

\* The other names a user may give one.
Aliases ==
    [us |-> {"com", "zohoapis.com"}, eu |-> {"zohoapis.eu"}, in |-> {"zohoapis.in"},
     au |-> {"com.au", "zohoapis.com.au"}, jp |-> {"zohoapis.jp"}, ca |-> {"zohoapis.ca"},
     cn |-> {"com.cn", "zohoapis.com.cn"}, sa |-> {"zohoapis.sa"}, ae |-> {"zohoapis.ae"}]

DataCenters == DOMAIN APIHosts

APIHost(dc) == IF dc \in DataCenters THEN APIHosts[dc] ELSE ""
AccountsHost(dc) == IF dc \in DataCenters THEN AccountsHosts[dc] ELSE ""
ValidDataCenter(dc) == APIHost(dc) # ""

\* The data centers a name stands for: one, or none and an error.
ParseDataCenter(name) == {dc \in DataCenters : name = dc \/ name \in Aliases[dc]}

----------------------------------------------------------------------------
(* Config *)

\* A URL: what it begins with, the host, if it has one, and how many slashes
\* end it.
NoURL == [scheme |-> "", host |-> "", slashes |-> 0]
HTTPS(host) == [NoURL EXCEPT !.scheme = "https", !.host = host]

\* What the caller leaves out.  A pointer is the set of what it points to.
NoConfig ==
    [dataCenter |-> "", clientID |-> "", clientSecret |-> "", refreshToken |-> "",
     accessToken |-> "", environment |-> "", apiVersion |-> "", baseURL |-> NoURL,
     accountsURL |-> NoURL, httpClient |-> {}, maxRetries |-> {},
     defaultTimeout |-> 0, tokenEarlyRefresh |-> 0]

URLs == [scheme : STRING, host : STRING, slashes : Nat]
ConfigRecord ==
    [dataCenter : STRING, clientID : STRING, clientSecret : STRING, refreshToken : STRING,
     accessToken : STRING, environment : STRING, apiVersion : STRING, baseURL : URLs,
     accountsURL : URLs, httpClient : SUBSET Nat, maxRetries : SUBSET Int,
     defaultTimeout : Int, tokenEarlyRefresh : Int]
IsConfig(c) ==
    /\ c \in ConfigRecord
    /\ c.maxRetries = {} \/ \E n \in c.maxRetries : c.maxRetries = {n}

Environments == {"production", "stage", "development"}
APIVersions == {"v2.1", "v2"}

\* All that validate looks at; "https://" will do.
HasScheme(u) == u = NoURL \/ u.scheme \in {"https", "http"}

\* Fault: a static token may stand in for the client's credentials.
validateCredentialsOnce(c) ==
    /\ c.baseURL # NoURL \/ ValidDataCenter(c.dataCenter)
    /\ HasScheme(c.baseURL) /\ HasScheme(c.accountsURL)
    /\ c.environment \in Environments \cup {""}
    /\ c.apiVersion \in APIVersions \cup {""}
    /\ \A n \in c.maxRetries : n >= 0
    /\ c.defaultTimeout >= 0
    /\ c.tokenEarlyRefresh >= 0
    /\ c.accessToken # "" \/ (c.refreshToken # "" /\ c.clientID # "" /\ c.clientSecret # "")

\* No error.
validate(c) ==
    /\ c.baseURL # NoURL \/ ValidDataCenter(c.dataCenter)
    /\ HasScheme(c.baseURL) /\ HasScheme(c.accountsURL)
    /\ c.environment \in Environments \cup {""}
    /\ c.apiVersion \in APIVersions \cup {""}
    /\ \A n \in c.maxRetries : n >= 0
    /\ c.defaultTimeout >= 0
    /\ c.tokenEarlyRefresh >= 0
    /\ c.refreshToken # "" \/ c.accessToken # ""
    /\ c.refreshToken # "" => c.clientID # "" /\ c.clientSecret # ""

\* An HTTP client, as its timeout; 0 is none.
setDefaults(c) ==
    LET timeout == IF c.defaultTimeout = 0 THEN 60 ELSE c.defaultTimeout
    IN  [c EXCEPT !.defaultTimeout = timeout,
                  !.httpClient = IF @ = {} THEN {timeout} ELSE @,
                  !.maxRetries = IF @ = {} THEN {3} ELSE @,
                  !.environment = IF @ = "" THEN "production" ELSE @,
                  !.apiVersion = IF @ = "" THEN "v2.1" ELSE @,
                  !.tokenEarlyRefresh = IF @ = 0 THEN 60 ELSE @]

Trimmed(u) == [u EXCEPT !.slashes = 0]

apiBaseURL(c) ==
    IF c.baseURL # NoURL THEN Trimmed(c.baseURL) ELSE HTTPS(APIHost(c.dataCenter))

accountsBaseURL(c) ==
    IF c.accountsURL # NoURL THEN Trimmed(c.accountsURL)
                             ELSE HTTPS(AccountsHost(c.dataCenter))

----------------------------------------------------------------------------
(* The client *)

\* A refresh token makes a source that mints, seeded with the access token;
\* without one, the access token is all there is.
newTokenSource(c) ==
    IF c.refreshToken # ""
    THEN [kind |-> "refresh", clientID |-> c.clientID, clientSecret |-> c.clientSecret,
          refreshToken |-> c.refreshToken, accountsURL |-> accountsBaseURL(c),
          earlyRefresh |-> c.tokenEarlyRefresh, current |-> c.accessToken]
    ELSE [kind |-> "static", clientID |-> "", clientSecret |-> "",
          refreshToken |-> "", accountsURL |-> NoURL,
          earlyRefresh |-> 0, current |-> c.accessToken]

NewClient(c) ==
    LET complete == setDefaults(c)
    IN  [config |-> complete, baseURL |-> apiBaseURL(complete),
         accountsURL |-> accountsBaseURL(complete), tokens |-> newTokenSource(complete)]

Only(set) == CHOOSE x \in set : TRUE

\* What the loop of do goes by.
Budget(client) == Only(client.config.maxRetries)
============================================================================
