---------------------------- MODULE AnswersProofs ----------------------------
(***************************************************************************)
(* Theorems about Answers and Configuration: for any set of configurations *)
(* and any answers of the server.                                          *)
(***************************************************************************)
EXTENDS Answers, TLAPS

----------------------------------------------------------------------------
(* Data centers *)

\* Every data center has both servers.
LEMMA BothHosts ==
  ASSUME NEW dc, ValidDataCenter(dc)
  PROVE  APIHost(dc) # "" /\ AccountsHost(dc) # ""
  <1>1. dc \in DataCenters
    BY DEF ValidDataCenter, APIHost
  <1>2. dc \in {"us", "eu", "in", "au", "jp", "ca", "cn", "sa", "ae"}
    BY <1>1 DEF DataCenters, APIHosts
  <1>3. AccountsHosts[dc] # ""
    <2>1. /\ AccountsHosts["us"] # "" /\ AccountsHosts["eu"] # "" /\ AccountsHosts["in"] # ""
          /\ AccountsHosts["au"] # "" /\ AccountsHosts["jp"] # "" /\ AccountsHosts["ca"] # ""
          /\ AccountsHosts["cn"] # "" /\ AccountsHosts["sa"] # "" /\ AccountsHosts["ae"] # ""
      BY DEF AccountsHosts
    <2> QED BY <1>2, <2>1
  <1> QED BY <1>1, <1>3 DEF ValidDataCenter, AccountsHost

----------------------------------------------------------------------------
(* What a client is made of *)

LEMMA Completed ==
  ASSUME NEW c, IsConfig(c), validate(c)
  PROVE  LET d == setDefaults(c)
         IN  /\ d.dataCenter = c.dataCenter /\ d.clientID = c.clientID
             /\ d.clientSecret = c.clientSecret /\ d.refreshToken = c.refreshToken
             /\ d.accessToken = c.accessToken /\ d.baseURL = c.baseURL
             /\ d.accountsURL = c.accountsURL
             /\ d.environment # "" /\ d.apiVersion # ""
             /\ c.httpClient = {} => \A timeout \in d.httpClient : timeout > 0
             /\ \E n \in Nat : d.maxRetries = {n}
  <1> DEFINE d == setDefaults(c)
  <1>1. c \in ConfigRecord
    BY DEF IsConfig
  <1>2. /\ d.dataCenter = c.dataCenter /\ d.clientID = c.clientID
        /\ d.clientSecret = c.clientSecret /\ d.refreshToken = c.refreshToken
        /\ d.accessToken = c.accessToken /\ d.baseURL = c.baseURL
        /\ d.accountsURL = c.accountsURL
    BY <1>1 DEF setDefaults, ConfigRecord
  <1>3. d.environment # "" /\ d.apiVersion # ""
    BY <1>1 DEF setDefaults, ConfigRecord
  <1>4. c.httpClient = {} => \A timeout \in d.httpClient : timeout > 0
    <2> DEFINE timeout == IF c.defaultTimeout = 0 THEN 60 ELSE c.defaultTimeout
    <2>0. c.defaultTimeout >= 0 /\ c.defaultTimeout \in Int
      BY <1>1 DEF ConfigRecord, validate
    <2>1. timeout > 0
      BY <2>0
    <2>2. d.httpClient = IF c.httpClient = {} THEN {timeout} ELSE c.httpClient
      BY <1>1 DEF setDefaults, ConfigRecord
    <2> HIDE DEF timeout, d
    <2> QED BY <2>1, <2>2
  <1>5. d.maxRetries = IF c.maxRetries = {} THEN {3} ELSE c.maxRetries
    BY <1>1 DEF setDefaults, ConfigRecord
  <1>6. \E n \in Nat : d.maxRetries = {n}
    <2>1. CASE c.maxRetries = {}
      BY <1>5, <2>1
    <2>2. CASE c.maxRetries # {}
      <3>1. PICK n \in c.maxRetries : c.maxRetries = {n}
        BY <2>2 DEF IsConfig
      <3>2. n \in Int /\ n >= 0
        BY <1>1, <3>1 DEF ConfigRecord, validate
      <3> QED BY <1>5, <2>2, <3>1, <3>2
    <2> QED BY <2>1, <2>2
  <1> QED BY <1>2, <1>3, <1>4, <1>6
LEMMA OnlyOne == ASSUME NEW x PROVE Only({x}) = x
  <1> QED BY DEF Only

\* The budget of a client that is made.
LEMMA BudgetTyped ==
  ASSUME NEW c, IsConfig(c), validate(c)
  PROVE  Budget(NewClient(c)) \in Nat
  <1>1. PICK n \in Nat : setDefaults(c).maxRetries = {n}
    BY Completed
  <1>2. NewClient(c).config = setDefaults(c)
    BY DEF NewClient
  <1> QED BY <1>1, <1>2, OnlyOne DEF Budget

LEMMA URLTrimmed ==
  ASSUME NEW u \in URLs
  PROVE  Trimmed(u).host = u.host /\ Trimmed(u).slashes = 0
  BY DEF Trimmed, URLs

LEMMA HTTPSHost == ASSUME NEW host PROVE HTTPS(host).host = host /\ HTTPS(host).slashes = 0
  <1> QED BY DEF HTTPS, NoURL

LEMMA ClientWorks ==
  ASSUME NEW c, IsConfig(c), validate(c)
  PROVE  LET made == NewClient(c)
         IN  /\ HostGiven(c.baseURL) => made.baseURL.host # ""
             /\ made.baseURL.slashes = 0 /\ made.accountsURL.slashes = 0
             /\ made.tokens.kind = "static" => made.tokens.current # ""
             /\ made.tokens.kind = "refresh" =>
                 /\ "" \notin {made.tokens.clientID, made.tokens.clientSecret,
                               made.tokens.refreshToken}
                 /\ /\ HostGiven(c.accountsURL)
                    /\ ValidDataCenter(c.dataCenter) \/ c.accountsURL # NoURL
                    => made.tokens.accountsURL.host # ""
             /\ c.httpClient = {} => \A timeout \in made.config.httpClient : timeout > 0
             /\ "" \notin {made.config.environment, made.config.apiVersion}
  <1> DEFINE made == NewClient(c)
             d == setDefaults(c)
  <1>1. /\ d.dataCenter = c.dataCenter /\ d.clientID = c.clientID
        /\ d.clientSecret = c.clientSecret /\ d.refreshToken = c.refreshToken
        /\ d.accessToken = c.accessToken /\ d.baseURL = c.baseURL
        /\ d.accountsURL = c.accountsURL
        /\ d.environment # "" /\ d.apiVersion # ""
        /\ c.httpClient = {} => \A timeout \in d.httpClient : timeout > 0
    BY Completed
  <1>2. /\ made.config = d /\ made.baseURL = apiBaseURL(d)
        /\ made.accountsURL = accountsBaseURL(d) /\ made.tokens = newTokenSource(d)
    BY DEF NewClient
  <1> HIDE DEF made, d
  <1>3. c.baseURL \in URLs /\ c.accountsURL \in URLs
    BY DEF IsConfig, ConfigRecord
  <1>4. (HostGiven(c.baseURL) => apiBaseURL(d).host # "") /\ apiBaseURL(d).slashes = 0
    <2>1. CASE c.baseURL # NoURL
      BY <1>1, <1>3, <2>1, URLTrimmed DEF apiBaseURL, HostGiven
    <2>2. CASE c.baseURL = NoURL
      <3>1. ValidDataCenter(c.dataCenter)
        BY <2>2 DEF validate
      <3>2. apiBaseURL(d) = HTTPS(APIHost(c.dataCenter))
        BY <1>1, <2>2 DEF apiBaseURL
      <3> QED BY <3>1, <3>2, BothHosts, HTTPSHost
    <2> QED BY <2>1, <2>2
  <1>5. /\ accountsBaseURL(d).slashes = 0
        /\ /\ HostGiven(c.accountsURL)
           /\ ValidDataCenter(c.dataCenter) \/ c.accountsURL # NoURL
           => accountsBaseURL(d).host # ""
    <2>1. CASE c.accountsURL # NoURL
      BY <1>1, <1>3, <2>1, URLTrimmed DEF accountsBaseURL, HostGiven
    <2>2. CASE c.accountsURL = NoURL
      <3>1. accountsBaseURL(d) = HTTPS(AccountsHost(c.dataCenter))
        BY <1>1, <2>2 DEF accountsBaseURL
      <3> QED BY <2>2, <3>1, BothHosts, HTTPSHost
    <2> QED BY <2>1, <2>2
  <1>6. CASE c.refreshToken # ""
    <2>1. c.clientID # "" /\ c.clientSecret # ""
      BY <1>6 DEF validate
    <2>2. d.refreshToken # ""
      BY <1>1, <1>6
    <2>3. LET tokens == newTokenSource(d)
          IN  /\ tokens.kind = "refresh" /\ tokens.clientID = d.clientID
              /\ tokens.clientSecret = d.clientSecret /\ tokens.refreshToken = d.refreshToken
              /\ tokens.accountsURL = accountsBaseURL(d)
      BY <2>2 DEF newTokenSource
    <2> QED BY <1>1, <1>2, <1>4, <1>5, <1>6, <2>1, <2>3 DEF made
  <1>7. CASE c.refreshToken = ""
    <2>1. c.accessToken # ""
      BY <1>7 DEF validate
    <2>2. ~(d.refreshToken # "")
      BY <1>1, <1>7
    <2>3. newTokenSource(d).kind = "static" /\ newTokenSource(d).current = d.accessToken
      BY <2>2 DEF newTokenSource
    <2> QED BY <1>1, <1>2, <1>4, <1>5, <2>1, <2>3 DEF made
  <1> QED BY <1>6, <1>7

----------------------------------------------------------------------------
(* Durations *)

LEMMA PowersAreIntegers == \A a \in Nat : 2 ^ a \in Int
  OBVIOUS

\* The powers of two up to the 33rd, one by one.
LEMMA Doubling ==
  ASSUME NEW a \in 0 .. 33
  PROVE  2 ^ a \in Nat /\ 2 ^ a > 0 /\ 2 ^ (a + 1) = 2 * 2 ^ a
  <1>1. CASE a = 0
    BY <1>1
  <1>2. CASE a = 1
    BY <1>2
  <1>3. CASE a = 2
    BY <1>3
  <1>4. CASE a = 3
    BY <1>4
  <1>5. CASE a = 4
    BY <1>5
  <1>6. CASE a = 5
    BY <1>6
  <1>7. CASE a = 6
    BY <1>7
  <1>8. CASE a = 7
    BY <1>8
  <1>9. CASE a = 8
    BY <1>9
  <1>10. CASE a = 9
    BY <1>10
  <1>11. CASE a = 10
    BY <1>11
  <1>12. CASE a = 11
    BY <1>12
  <1>13. CASE a = 12
    BY <1>13
  <1>14. CASE a = 13
    BY <1>14
  <1>15. CASE a = 14
    BY <1>15
  <1>16. CASE a = 15
    BY <1>16
  <1>17. CASE a = 16
    BY <1>17
  <1>18. CASE a = 17
    BY <1>18
  <1>19. CASE a = 18
    BY <1>19
  <1>20. CASE a = 19
    BY <1>20
  <1>21. CASE a = 20
    BY <1>21
  <1>22. CASE a = 21
    BY <1>22
  <1>23. CASE a = 22
    BY <1>23
  <1>24. CASE a = 23
    BY <1>24
  <1>25. CASE a = 24
    BY <1>25
  <1>26. CASE a = 25
    BY <1>26
  <1>27. CASE a = 26
    BY <1>27
  <1>28. CASE a = 27
    BY <1>28
  <1>29. CASE a = 28
    BY <1>29
  <1>30. CASE a = 29
    BY <1>30
  <1>31. CASE a = 30
    BY <1>31
  <1>32. CASE a = 31
    BY <1>32
  <1>33. CASE a = 32
    BY <1>33
  <1>34. CASE a = 33
    BY <1>34
  <1> QED
    <2>1. a \in 0 .. 16 \/ a \in 17 .. 33
      OBVIOUS
    <2>2. CASE a \in 0 .. 16
      BY <2>2, <1>1, <1>2, <1>3, <1>4, <1>5, <1>6, <1>7, <1>8, <1>9, <1>10,
         <1>11, <1>12, <1>13, <1>14, <1>15, <1>16, <1>17
    <2>3. CASE a \in 17 .. 33
      BY <2>3, <1>18, <1>19, <1>20, <1>21, <1>22, <1>23, <1>24, <1>25, <1>26,
         <1>27, <1>28, <1>29, <1>30, <1>31, <1>32, <1>33, <1>34
    <2> QED BY <2>1, <2>2, <2>3

\* Whatever it comes to fits the word.
LEMMA WrappedFits ==
  ASSUME NEW x \in Int
  PROVE  /\ Wrapped(x) \in Int /\ -Word <= 2 * Wrapped(x) /\ 2 * Wrapped(x) < Word
         /\ x >= 0 /\ 2 * x < Word => Wrapped(x) = x
  <1>1. Word \in Nat /\ Word > 0
    BY WordAssumption, SecondAssumption
  <1>2. x % Word \in 0 .. Word - 1
    BY <1>1
  <1>3. x >= 0 /\ x < Word => x % Word = x
    BY <1>1
  <1> QED BY <1>1, <1>2, <1>3 DEF Wrapped

\* A duration that does not overflow is what it says.
LEMMA SecondsValues ==
  ASSUME NEW n \in Int
  PROVE  /\ Seconds(n) \in Int /\ -Word <= 2 * Seconds(n) /\ 2 * Seconds(n) < Word
         /\ n >= 0 /\ Holds(n) => Seconds(n) = n * Second
         /\ n * Second \in Int
         /\ n > 0 => n * Second > 0
  <1> DEFINE x == n * Second
  <1>1. x \in Int /\ (n >= 0 => x >= 0) /\ (n > 0 => x > 0)
    BY SecondAssumption
  <1>2. Holds(n) => 2 * x < Word
    BY SecondAssumption DEF Holds
  <1> HIDE DEF x
  <1>3. Seconds(n) = Wrapped(x)
    BY DEF Seconds, x
  <1>4. /\ Wrapped(x) \in Int /\ -Word <= 2 * Wrapped(x) /\ 2 * Wrapped(x) < Word
        /\ x >= 0 /\ 2 * x < Word => Wrapped(x) = x
    BY <1>1, WrappedFits
  <1> QED BY <1>1, <1>2, <1>3, <1>4 DEF x

LEMMA CapFits == Cap \in Int /\ Cap > 0 /\ -Word <= 2 * Cap /\ 2 * Cap < Word
  BY SecondAssumption, WordAssumption DEF Cap

\* Up to attempt 33, and as long as nothing overflows, each wait is twice the one
\* before, until it is 30 seconds.
LEMMA BackoffValues ==
  ASSUME NEW a \in 0 .. 33, Holds(2 ^ a)
  PROVE  /\ backoff(a) \in Int /\ backoff(a) > 0
         /\ a > 0 => backoff(a) = AtMost(2 * backoff(a - 1), Cap)
  <1>1. ASSUME NEW p \in Nat, p > 0, Holds(p)
        PROVE  Seconds(p) = p * Second /\ p * Second \in Int /\ p * Second > 0
    BY <1>1, SecondsValues
  <1>2. 2 ^ a \in Nat /\ 2 ^ a > 0
    BY Doubling
  <1>3. Seconds(2 ^ a) \in Int /\ Seconds(2 ^ a) > 0
    BY <1>1, <1>2
  <1>4. backoff(a) \in Int /\ backoff(a) > 0
    BY <1>3, CapFits DEF backoff, AtMost
  <1>5. ASSUME a > 0
        PROVE  backoff(a) = AtMost(2 * backoff(a - 1), Cap)
    <2> DEFINE p == 2 ^ (a - 1)
    <2>1. a - 1 \in 0 .. 33 /\ (a - 1) + 1 = a
      BY <1>5
    <2>2. p \in Nat /\ p > 0 /\ 2 ^ a = 2 * p
      BY <2>1, Doubling
    <2> HIDE DEF p
    <2>3. 2 * p \in Nat /\ Holds(2 * p)
      BY <2>2
    <2>4. (2 * p) * Second = 2 * (p * Second) /\ p * Second \in Nat
      BY <2>2, SecondAssumption
    <2>5. Holds(p)
      <3>1. 2 * (2 * p) * Second = 4 * (p * Second) /\ 2 * p * Second = 2 * (p * Second)
        BY <2>2, SecondAssumption
      <3> QED BY <2>3, <2>4, <3>1, WordAssumption DEF Holds
    <2>6. Seconds(2 ^ a) = 2 * (p * Second)
      BY <1>1, <2>2, <2>3, <2>4
    <2>7. Seconds(p) = p * Second
      BY <1>1, <2>2, <2>5
    <2> DEFINE x == p * Second
    <2>8. x \in Nat /\ Seconds(2 ^ a) = 2 * x /\ Seconds(p) = x
      BY <2>4, <2>6, <2>7
    <2>9. backoff(a) = AtMost(2 * x, Cap) /\ backoff(a - 1) = AtMost(x, Cap)
      BY <2>8 DEF backoff, p
    <2> HIDE DEF x
    <2> QED BY <2>8, <2>9, CapFits DEF AtMost
  <1> QED BY <1>4, <1>5

\* Where this ends with the numbers of the code: a duration holds 9223372036
\* seconds, about 292 years, and 2^33 of them.  A header of one second more, or
\* of up to twice as many, makes a negative wait, and so does the backoff after
\* the one of attempt 33.
LEMMA CodeOverflows ==
  ASSUME Second = 1000000000, Word = 18446744073709551616
  PROVE  /\ \A n \in Nat : Holds(n) <=> n <= 9223372036
         /\ Holds(2 ^ 33) /\ ~Holds(2 ^ 34)
         /\ \A n \in Nat : \A fallback :
               n > 9223372036 /\ n <= 18446744073 => retryAfter(n, fallback) < 0
         /\ backoff(34) < 0
  <1>1. \A n \in Nat : Holds(n) <=> n <= 9223372036
    BY SMT DEF Holds
  <1>2. 2 ^ 33 = 8589934592 /\ 2 ^ 34 = 17179869184
    BY SMT
  <1>3. Holds(2 ^ 33) /\ ~Holds(2 ^ 34)
    BY <1>1, <1>2, SMT
  <1>4. \A n \in Nat : n > 9223372036 /\ n <= 18446744073 => Seconds(n) \in Int /\ Seconds(n) < 0
    <2> SUFFICES ASSUME NEW n \in Nat, n > 9223372036, n <= 18446744073
                 PROVE  Seconds(n) \in Int /\ Seconds(n) < 0
      BY SMT
    <2> DEFINE x == n * Second
    <2>1. x \in Int /\ x >= 0 /\ 2 * x >= Word /\ x < Word
      BY SMT
    <2>2. x % Word = x
      BY <2>1, SMT
    <2>3. Seconds(n) = x - Word
      BY <2>1, <2>2, SMT DEF Seconds, Wrapped
    <2> HIDE DEF x
    <2> QED BY <2>1, <2>3, SMT
  <1>5. \A n \in Nat : \A fallback :
           n > 9223372036 /\ n <= 18446744073 => retryAfter(n, fallback) < 0
    BY <1>4, SMT DEF retryAfter
  <1>6. backoff(34) < 0
    <2>1. Seconds(2 ^ 34) \in Int /\ Seconds(2 ^ 34) < 0
      BY <1>2, <1>4, SMT
    <2>2. Cap \in Int /\ Cap > 0
      BY SMT DEF Cap
    <2> QED BY <2>1, <2>2, SMT DEF backoff, AtMost
  <1> QED BY <1>1, <1>3, <1>5, <1>6, SMT

----------------------------------------------------------------------------
(* The inductive invariant *)

\* The budget is that of the one client, and the loop stays within it.
WithinBudget ==
    /\ config \in Configs
    /\ attempt \in Nat
    /\ client = {} => attempt = 0
    /\ client # {} => validate(config) /\ client = {NewClient(config)} /\ attempt <= MaxRetries

\* The last wait is the one that the attempt before, and what it was told, ask for.
WaitsComputed ==
    /\ told \in RetryAfters \cup {NoHeader}
    /\ attempt = 0 => reason = "start" /\ told = NoHeader /\ wait = 0
    /\ attempt > 0 => /\ reason \in {"transient", "limited"}
                      /\ wait = retryAfter(told, backoff(attempt - 1))

ResultRecord ==
    [kind : DOMAIN Sentinel \cup {"none", "pending", "config", "transport"},
     status : {0} \cup Statuses,
     unwraps : {Sentinel[k] : k \in DOMAIN Sentinel} \cup {"none"},
     retryAfter : RetryAfters \cup {NoHeader}]

AnswersInv == WithinBudget /\ RetriesUsedUp /\ WaitsComputed /\ result \in ResultRecord

LEMMA MaxRetriesTyped ==
  ASSUME WithinBudget, client # {}
  PROVE  MaxRetries \in Nat
  <1>1. IsConfig(config) /\ validate(config) /\ client = {NewClient(config)}
    BY ConfigsAssumption DEF WithinBudget
  <1> QED BY <1>1, OnlyOne, BudgetTyped DEF MaxRetries

\* What the errors of the last round say.
LEMMA Classified ==
  ASSUME NEW status \in Statuses, NEW header
  PROVE  /\ classifyError(status, header).status = status
         /\ status = 429 => classifyError(status, header).unwraps = "ErrRateLimited"
         /\ status >= 500 => classifyError(status, header).unwraps = "ErrServer"
  <1>1. status \in Int
    BY StatusesAssumption
  <1>2. status = 429 => Kind(status) = "rate_limited"
    BY DEF Kind
  <1>3. status >= 500 => Kind(status) = "server"
    BY <1>1 DEF Kind
  <1>4. Sentinel["rate_limited"] = "ErrRateLimited" /\ Sentinel["server"] = "ErrServer"
    BY DEF Sentinel
  <1> QED BY <1>2, <1>3, <1>4 DEF classifyError

\* Whatever do returns is a record of this shape.
LEMMA PlainResults ==
  /\ \A kind \in {"none", "pending", "config", "transport"} :
        [NoError EXCEPT !.kind = kind] \in ResultRecord
  /\ \A status \in Statuses : [NoError EXCEPT !.status = status] \in ResultRecord
  BY DEF ResultRecord, NoError

LEMMA ErrorResults ==
  ASSUME NEW status \in Statuses, NEW header \in RetryAfters \cup {NoHeader}
  PROVE  classifyError(status, header) \in ResultRecord
  <1>1. Kind(status) \in DOMAIN Sentinel
    BY DEF Kind, Sentinel
  <1> QED BY <1>1 DEF classifyError, ResultRecord

LEMMA AnswersInitInv == Init => AnswersInv
  <1> SUFFICES ASSUME Init PROVE AnswersInv
    OBVIOUS
  <1>1. WithinBudget /\ RetriesUsedUp
    BY DEF Init, WithinBudget, RetriesUsedUp, Pending, NoError
  <1>2. WaitsComputed
    BY DEF Init, WaitsComputed
  <1>3. result \in ResultRecord
    BY PlainResults DEF Init, Pending
  <1> QED BY <1>1, <1>2, <1>3 DEF AnswersInv

\* A result that tells of no failure of the server.
LEMMA Harmless ==
  ASSUME result'.status \in Int, result'.status < 400
  PROVE  RetriesUsedUp'
  <1> QED BY DEF RetriesUsedUp

\* What ends the loop, or comes before it, leaves the waits alone.
LEMMA WaitsKept ==
  ASSUME WaitsComputed, UNCHANGED <<attempt, wait, reason, told>>
  PROVE  WaitsComputed'
  <1> QED BY DEF WaitsComputed

LEMMA AcceptKeeps == ASSUME AnswersInv, result = Pending, client = {}, Accept PROVE AnswersInv'
  <1>1. /\ validate(config) /\ client' = {NewClient(config)} /\ config \in Configs
        /\ attempt = 0 /\ UNCHANGED <<config, attempt, wait, reason, told, result>>
    BY DEF Accept, AnswersInv, WithinBudget
  <1>2. MaxRetries' = Budget(NewClient(config))
    BY <1>1, OnlyOne DEF MaxRetries
  <1>3. MaxRetries' \in Nat
    BY <1>1, <1>2, ConfigsAssumption, BudgetTyped
  <1>4. WithinBudget'
    BY <1>1, <1>3 DEF WithinBudget
  <1>5. RetriesUsedUp'
    BY <1>1, Harmless DEF Pending, NoError
  <1> QED BY <1>1, <1>4, <1>5, WaitsKept DEF AnswersInv

LEMMA RefuseKeeps == ASSUME AnswersInv, client = {}, Refuse PROVE AnswersInv'
  <1>1. WithinBudget'
    BY DEF Refuse, AnswersInv, WithinBudget
  <1>2. RetriesUsedUp'
    BY Harmless DEF Refuse, NoError
  <1>3. result' \in ResultRecord
    BY PlainResults DEF Refuse
  <1>4. WaitsComputed'
    BY WaitsKept DEF Refuse, AnswersInv
  <1> QED BY <1>1, <1>2, <1>3, <1>4 DEF AnswersInv, ResultRecord

LEMMA RetryKeeps ==
  ASSUME AnswersInv, result = Pending, client # {},
         NEW why \in {"transient", "limited"}, NEW header \in RetryAfters \cup {NoHeader},
         Retry(why, header, retryAfter(header, backoff(attempt)))
  PROVE  AnswersInv'
  <1>1. attempt < MaxRetries /\ attempt' = attempt + 1 /\ UNCHANGED <<config, client, result>>
    BY DEF Retry
  <1>2. MaxRetries \in Nat /\ MaxRetries' = MaxRetries /\ WithinBudget
    BY <1>1, MaxRetriesTyped DEF AnswersInv, MaxRetries
  <1>3. WithinBudget'
    BY <1>1, <1>2 DEF WithinBudget
  <1>4. RetriesUsedUp'
    BY <1>1, Harmless DEF Pending, NoError
  <1>5. WaitsComputed'
    <2>1. attempt \in Nat /\ attempt' - 1 = attempt /\ attempt' > 0
      BY <1>1, <1>2 DEF WithinBudget
    <2>2. reason' = why /\ told' = header /\ wait' = retryAfter(told', backoff(attempt' - 1))
      BY <2>1 DEF Retry
    <2> QED BY <2>1, <2>2 DEF WaitsComputed
  <1> QED BY <1>1, <1>3, <1>4, <1>5 DEF AnswersInv, ResultRecord

LEMMA ReturnKeeps ==
  ASSUME AnswersInv, NEW outcome \in ResultRecord, Return(outcome)
  PROVE  /\ WithinBudget' /\ MaxRetries' = MaxRetries /\ attempt' = attempt
         /\ result' = outcome /\ WaitsComputed' /\ result' \in ResultRecord'
  <1>1. WaitsComputed'
    BY WaitsKept DEF Return, AnswersInv
  <1> QED BY <1>1 DEF Return, AnswersInv, WithinBudget, MaxRetries, ResultRecord

LEMMA FailTransportKeeps == ASSUME AnswersInv, FailTransport PROVE AnswersInv'
  <1> DEFINE outcome == [NoError EXCEPT !.kind = "transport"]
  <1>1. outcome \in ResultRecord /\ Return(outcome)
    BY PlainResults DEF FailTransport
  <1>2. outcome.status = 0
    BY DEF NoError
  <1> HIDE DEF outcome
  <1>3. RetriesUsedUp'
    BY <1>1, <1>2, ReturnKeeps, Harmless
  <1> QED BY <1>1, <1>3, ReturnKeeps DEF AnswersInv

LEMMA SucceedKeeps ==
  ASSUME AnswersInv, NEW status \in Statuses, Succeed(status)
  PROVE  AnswersInv'
  <1> DEFINE outcome == [NoError EXCEPT !.status = status]
  <1>1. outcome \in ResultRecord /\ Return(outcome)
    BY PlainResults DEF Succeed
  <1>2. outcome.status = status /\ status < 400 /\ status \in Int
    BY StatusesAssumption DEF NoError, Succeed
  <1> HIDE DEF outcome
  <1>3. RetriesUsedUp'
    BY <1>1, <1>2, ReturnKeeps, Harmless
  <1> QED BY <1>1, <1>3, ReturnKeeps DEF AnswersInv

LEMMA FailKeeps ==
  ASSUME AnswersInv, client # {}, NEW header \in RetryAfters \cup {NoHeader}, NEW status \in Statuses,
         Fail(status, header)
  PROVE  AnswersInv'
  <1> DEFINE outcome == classifyError(status, header)
  <1>1. /\ outcome \in ResultRecord /\ Return(outcome)
        /\ status >= 500 \/ status = 429 => attempt >= MaxRetries
    BY ErrorResults DEF Fail
  <1>2. /\ WithinBudget' /\ MaxRetries' = MaxRetries /\ attempt' = attempt
        /\ result' = outcome /\ WaitsComputed' /\ result' \in ResultRecord'
    BY <1>1, ReturnKeeps
  <1>3. MaxRetries \in Nat /\ attempt \in Nat /\ attempt <= MaxRetries /\ status \in Int
    BY MaxRetriesTyped, StatusesAssumption DEF AnswersInv, WithinBudget
  <1>4. RetriesUsedUp'
    BY <1>1, <1>2, <1>3, Classified DEF RetriesUsedUp
  <1> QED BY <1>2, <1>4 DEF AnswersInv

LEMMA AnswersInductive == AnswersInv /\ [Next]_vars => AnswersInv'
  <1> SUFFICES ASSUME AnswersInv, [Next]_vars PROVE AnswersInv'
    OBVIOUS
  <1>1. CASE UNCHANGED vars
    BY <1>1 DEF vars, AnswersInv, WithinBudget, RetriesUsedUp, MaxRetries, WaitsComputed, ResultRecord
  <1>2. CASE result = Pending /\ client = {} /\ (Accept \/ Refuse)
    BY <1>2, AcceptKeeps, RefuseKeeps
  <1>3. ASSUME result = Pending, client # {}, RetryTransient
        PROVE  AnswersInv'
    <2>1. Retry("transient", NoHeader, retryAfter(NoHeader, backoff(attempt)))
      BY <1>3 DEF RetryTransient, retryAfter, NoHeader
    <2> QED BY <1>3, <2>1, RetryKeeps
  <1>4. ASSUME NEW header \in RetryAfters \cup {NoHeader},
               result = Pending, client # {}, RetryLimited(header)
        PROVE  AnswersInv'
    BY <1>4, RetryKeeps DEF RetryLimited
  <1>5. CASE result = Pending /\ client # {} /\ Round
    BY <1>3, <1>4, <1>5, FailTransportKeeps, SucceedKeeps, FailKeeps DEF Round
  <1> QED BY <1>1, <1>2, <1>5 DEF Next

\* The loop never goes past the retries of the one client, which was made from
\* the accepted configuration, and an overload surfaces only at the last one.
THEOREM AnswersInvariant == Spec => []AnswersInv
  <1> QED BY AnswersInitInv, AnswersInductive, PTL DEF Spec

\* Whatever configuration is accepted, the client made from it has the servers,
\* the credentials or the token, and the limits that its requests need; but for
\* a URL given without a host, which validate accepts.
THEOREM AcceptedWorks == Spec => []ClientCanWork
  <1>1. AnswersInv => ClientCanWork
    <2> SUFFICES ASSUME WithinBudget, client # {}
                 PROVE  ClientCanWork
      BY DEF AnswersInv, ClientCanWork
    <2>1. IsConfig(config) /\ validate(config) /\ client = {NewClient(config)}
      BY ConfigsAssumption DEF WithinBudget
    <2> QED BY <2>1, ClientWorks, MaxRetriesTyped DEF ClientCanWork
  <1> QED BY <1>1, AnswersInvariant, PTL

\* With any budget of retries, an overload or a failing server is reported only
\* when the budget is used up, as the error type that tells which it was.
THEOREM FailsLast == Spec => []RetriesUsedUp
  <1>1. AnswersInv => RetriesUsedUp
    BY DEF AnswersInv
  <1> QED BY <1>1, AnswersInvariant, PTL

\* Whatever do returns, and whatever it waits for, is of its type: no duration
\* is outside of what an int64 of nanoseconds holds, cut off as it is.
THEOREM TypeCorrect == Spec => []TypeOK
  <1>1. AnswersInv => TypeOK
    <2> SUFFICES ASSUME AnswersInv PROVE TypeOK
      OBVIOUS
    <2>1. attempt \in 0 .. (IF client = {} THEN 0 ELSE MaxRetries)
      BY MaxRetriesTyped DEF AnswersInv, WithinBudget
    <2>2. -Word <= 2 * wait /\ 2 * wait < Word
      <3>1. CASE attempt = 0
        BY <3>1, SecondAssumption, WordAssumption DEF AnswersInv, WaitsComputed
      <3>2. CASE attempt > 0
        <4>1. wait = retryAfter(told, backoff(attempt - 1)) /\ told \in Int
          BY <3>2, RetryAftersAssumption DEF AnswersInv, WaitsComputed, NoHeader
        <4>2. CASE told > 0
          <5>1. wait = Seconds(told)
            BY <4>1, <4>2 DEF retryAfter
          <5> QED BY <4>1, <5>1, SecondsValues
        <4>3. CASE ~(told > 0)
          <5>1. wait = AtMost(Seconds(2 ^ (attempt - 1)), Cap)
            BY <4>1, <4>3 DEF retryAfter, backoff
          <5>2. 2 ^ (attempt - 1) \in Int
            BY <3>2, PowersAreIntegers DEF AnswersInv, WithinBudget
          <5>3. /\ -Word <= 2 * Seconds(2 ^ (attempt - 1))
                /\ 2 * Seconds(2 ^ (attempt - 1)) < Word
            BY <5>2, SecondsValues
          <5> QED BY <5>1, <5>3, CapFits DEF AtMost
        <4> QED BY <4>2, <4>3
      <3> QED BY <3>1, <3>2 DEF AnswersInv, WithinBudget
    <2>3. reason \in {"start", "transient", "limited"} /\ told \in RetryAfters \cup {NoHeader}
      BY DEF AnswersInv, WaitsComputed, WithinBudget
    <2>4. config \in Configs /\ client \subseteq {NewClient(config)}
      BY DEF AnswersInv, WithinBudget
    <2> QED BY <2>1, <2>2, <2>3, <2>4 DEF TypeOK, AnswersInv, ResultRecord
  <1> QED BY <1>1, AnswersInvariant, PTL

----------------------------------------------------------------------------
(* Waits *)

\* The code's own numbers allow no more without an overflow: see CodeOverflows.
FewRetries == \A c \in Configs : \A n \in c.maxRetries : n <= 34

LEMMA BudgetSmall ==
  ASSUME FewRetries, NEW c \in Configs, validate(c)
  PROVE  Budget(NewClient(c)) <= 34
  <1>1. IsConfig(c)
    BY ConfigsAssumption
  <1>2. PICK n \in Nat : setDefaults(c).maxRetries = {n}
    BY <1>1, Completed
  <1>3. setDefaults(c).maxRetries = IF c.maxRetries = {} THEN {3} ELSE c.maxRetries
    BY <1>1 DEF IsConfig, setDefaults, ConfigRecord
  <1>4. n <= 34
    BY <1>2, <1>3 DEF FewRetries
  <1>5. Budget(NewClient(c)) = n
    BY <1>2, OnlyOne DEF NewClient, Budget
  <1> QED BY <1>4, <1>5

LEMMA ClientBudgetSmall ==
  ASSUME FewRetries, WithinBudget, client # {}
  PROVE  MaxRetries \in 0 .. 34
  <1>1. MaxRetries = Budget(NewClient(config)) /\ MaxRetries \in Nat
    BY OnlyOne, MaxRetriesTyped DEF WithinBudget, MaxRetries
  <1> QED BY <1>1, BudgetSmall DEF WithinBudget

LEMMA AttemptSmall ==
  ASSUME FewRetries, WithinBudget
  PROVE  attempt <= 34
  <1> QED BY ClientBudgetSmall DEF WithinBudget

\* The last wait, where a duration holds it.
LEMMA LastWait ==
  ASSUME FewRetries, AnswersInv, attempt > 0
  PROVE  /\ attempt - 1 \in 0 .. 33 /\ told \in Int
         /\ told > 0 => wait = Seconds(told)
         /\ ~(told > 0) => wait = backoff(attempt - 1)
  <1>1. attempt - 1 \in 0 .. 33
    BY AttemptSmall DEF AnswersInv, WithinBudget
  <1>2. told \in Int /\ wait = retryAfter(told, backoff(attempt - 1))
    BY RetryAftersAssumption DEF AnswersInv, WaitsComputed, NoHeader
  <1> QED BY <1>1, <1>2 DEF retryAfter

\* No retry follows its failure at once, whatever mixture of failures and
\* headers there was, with at most 34 retries and where a duration holds the
\* seconds to wait: in the code, headers of up to 9223372036.
THEOREM RetriesWait == ASSUME FewRetries PROVE Spec => []NeverHot
  <1>1. AnswersInv => NeverHot
    <2> SUFFICES ASSUME AnswersInv, reason # "start", Holds(told), Holds(2 ^ (attempt - 1))
                 PROVE  wait > 0
      BY DEF NeverHot
    <2>1. attempt > 0
      BY DEF AnswersInv, WaitsComputed, WithinBudget
    <2>2. CASE told > 0
      <3>1. wait = Seconds(told) /\ told \in Int
        BY <2>1, <2>2, LastWait
      <3> QED BY <2>2, <3>1, SecondsValues
    <2>3. CASE ~(told > 0)
      <3>1. wait = backoff(attempt - 1) /\ attempt - 1 \in 0 .. 33
        BY <2>1, <2>3, LastWait
      <3> QED BY <3>1, BackoffValues
    <2> QED BY <2>2, <2>3
  <1> QED BY <1>1, AnswersInvariant, PTL

\* A client that is told to wait does not come back earlier, at any attempt and
\* however long it would have waited of its own, if a duration holds what it is
\* told: in the code, a header of up to 9223372036.
THEOREM HeaderObeyed == Spec => []WaitAsTold
  <1>1. AnswersInv => WaitAsTold
    <2> SUFFICES ASSUME AnswersInv, told > 0, Holds(told)
                 PROVE  wait >= told * Second
      BY DEF WaitAsTold
    <2>1. told \in Int /\ told # NoHeader
      BY RetryAftersAssumption DEF AnswersInv, WaitsComputed, NoHeader
    <2>2. wait = retryAfter(told, backoff(attempt - 1))
      BY <2>1 DEF AnswersInv, WaitsComputed, WithinBudget
    <2>3. wait = Seconds(told)
      BY <2>2 DEF retryAfter
    <2>4. Seconds(told) = told * Second /\ told * Second \in Int
      BY <2>1, SecondsValues
    <2> DEFINE d == told * Second
    <2>5. wait = d /\ d \in Int
      BY <2>3, <2>4
    <2> HIDE DEF d
    <2>6. wait >= d
      BY <2>5
    <2> QED BY <2>6 DEF d
  <1> QED BY <1>1, AnswersInvariant, PTL

\* With at most 34 retries, a wait that nobody asked for is twice the one before
\* until it is 30 seconds, and stays there, where a duration holds it: in the
\* code, always.
THEOREM BackoffDoubles == ASSUME FewRetries PROVE Spec => WaitsDouble
  <1>1. AnswersInv /\ AnswersInv' /\ [Next]_vars =>
            [attempt' > attempt /\ attempt > 0 /\ told <= 0 /\ told' <= 0 /\ Holds(2 ^ attempt)
                => wait' = AtMost(2 * wait, Cap)]_vars
    <2> SUFFICES ASSUME AnswersInv, AnswersInv', Next, attempt' > attempt, attempt > 0,
                        told <= 0, told' <= 0, Holds(2 ^ attempt)
                 PROVE  wait' = AtMost(2 * wait, Cap)
      OBVIOUS
    <2>1. attempt' = attempt + 1 /\ attempt < MaxRetries /\ client # {}
      BY DEF Next, Accept, Refuse, Round, RetryTransient, RetryLimited, Retry, FailTransport,
             Succeed, Fail, Return, AnswersInv, WithinBudget
    <2>2. attempt \in 1 .. 33
      BY ClientBudgetSmall, <2>1 DEF AnswersInv, WithinBudget
    <2>3. told \in Int /\ told' \in Int
      BY RetryAftersAssumption DEF AnswersInv, WaitsComputed, NoHeader
    <2>4. ~(told > 0) /\ ~(told' > 0)
      BY <2>3
    <2>5. wait = backoff(attempt - 1) /\ wait' = backoff(attempt)
      BY <2>1, <2>2, <2>4 DEF AnswersInv, WaitsComputed, retryAfter
    <2>6. backoff(attempt) = AtMost(2 * backoff(attempt - 1), Cap)
      <3>1. attempt \in 0 .. 33 /\ attempt > 0
        BY <2>2
      <3> HIDE DEF FewRetries
      <3>2. attempt > 0 => backoff(attempt) = AtMost(2 * backoff(attempt - 1), Cap)
        BY <3>1, BackoffValues, Zenon
      <3> QED BY <3>1, <3>2
    <2> QED BY <2>5, <2>6
  <1> QED BY <1>1, AnswersInvariant, PTL DEF Spec, WaitsDouble
============================================================================
