------------------------------- MODULE Client -------------------------------
(***************************************************************************)
(* Client.do (src/client.go): goroutines that share one Client each run    *)
(* its request loop, with the token source of TokenSource.tla, a Zoho      *)
(* server that may answer anything, and a transport that may lose or cut   *)
(* off an answer.  Every call has a context of its own.                    *)
(***************************************************************************)
EXTENDS TokenSource, FiniteSets

CONSTANTS
    Kinds,       \* the requests made: a subset of RequestKinds
    MaxRetries,  \* *Config.MaxRetries
    Redirects    \* TRUE: the server may redirect to another host

\* "json": a body marshaled once, or none (a download differs only in that an
\* "ok" answer's body is left for the caller to read); "upload": rawBody;
\* "public": noAuth, with a private link.
RequestKinds == {"json", "upload", "public"}

ASSUME KindsAssumption == Kinds \subseteq RequestKinds
ASSUME RetriesAssumption == MaxRetries \in Nat
ASSUME RedirectsAssumption == Redirects \in BOOLEAN

VARIABLES
    static,    \* no RefreshToken: the token source is a staticTokenSource
    call       \* what each goroutine's do() holds

clientVars == <<vars, static, call>>

\* "transient": a 5xx, a 429, or an error of httpClient.Do that looks transient;
\* "broken": the context ended, the http.Client timed out, or the response body
\* could not be read; "unread": a 401 whose body could not; "refused": any other
\* status.
\* do() returns an *AuthError as "authError", after a 401 of the Zoho server, or as
\* "mintRefused", when the accounts server refused a grant; "unread" is the error
\* of reading the body of a 401, "error" any other.
Replies == {"none", "ok", "unauthorized", "unread", "transient", "refused", "broken"}
Outcomes == {"none", "ok", "authError", "mintRefused", "unread", "error"}

NewCall(kind) ==
    [ step |-> "headers",
      kind |-> kind,
      attempt |-> 0,
      authRefreshAttempted |-> FALSE,
      sent |-> NoToken,         \* the token in resp.Request's header
      reply |-> "none",
      drained |-> FALSE,        \* rawBody has been read to its end
      outcome |-> "none",
      sends |-> 0,              \* history: requests that went out
      applied |-> 0,            \* history: those the server may have acted on
      rejectedWith |-> {} ]     \* history: tokens this call got a 401 for

NoCall == [NewCall("json") EXCEPT !.step = "idle"]

\* A static token has no expiry to watch.
ClientInit ==
    /\ Init
    /\ static \in BOOLEAN
    /\ static => current = SeedToken /\ ~fresh
    /\ call = [g \in Callers |-> NoCall]

At(g, step) == call[g].step = step

Begin(g, kind) ==
    /\ At(g, "idle")
    /\ call' = [call EXCEPT ![g] = NewCall(kind)]
    /\ UNCHANGED <<vars, static>>

\* resp is local to one round of the loop.
NextRound(c, step) == [c EXCEPT !.step = step, !.sent = NoToken, !.reply = "none"]

Return(g, outcome) ==
    call' = [call EXCEPT ![g] = NextRound(@, "return"), ![g].outcome = outcome]

----------------------------------------------------------------------------
(* setHeaders and httpClient.Do *)

NeedsToken(g) == call[g].kind # "public" /\ ~static

\* The token source's Token runs until pc[g] is "idle" again; invalidateRejected
\* of the previous round has to return first.
AskToken(g) ==
    /\ At(g, "headers")
    /\ NeedsToken(g)
    /\ TokenCall(g)
    /\ call' = [call EXCEPT ![g].step = "token"]
    /\ UNCHANGED static

\* The accounts server answers with a status of 400 or more, or without a token:
\* of the ways a refresh fails, the one whose error is an *AuthError.
MintRefused(g) ==
    /\ At(g, "token")
    /\ pc[g] = "refresh"
    /\ RefreshFails(g)
    /\ call' = [call EXCEPT ![g].step = "denied"]
    /\ UNCHANGED static

\* setHeaders hands on the error of Token, and do() hands it on as it is.
TokenFails(g) ==
    /\ pc[g] = "idle"
    /\ \/ At(g, "token") /\ tok[g] = NoToken /\ Return(g, "error")
       \/ At(g, "denied") /\ Return(g, "mintRefused")
    /\ UNCHANGED <<vars, static>>

SendWith(g, token) ==
    /\ call' = [call EXCEPT ![g].step = "wire", ![g].sent = token, ![g].sends = @ + 1]
    /\ UNCHANGED <<vars, static>>

Send(g) ==
    \/ At(g, "token") /\ pc[g] = "idle" /\ tok[g] # NoToken /\ SendWith(g, tok[g])
    \/ /\ At(g, "headers") /\ pc[g] = "idle" /\ ~NeedsToken(g)
       /\ SendWith(g, IF call[g].kind = "public" THEN NoToken ELSE SeedToken)

----------------------------------------------------------------------------
(* The server and the transport *)

\* Whether the server may have acted on a request that got this reply.
MayHaveApplied(reply) == reply \notin {"unauthorized", "unread", "refused"}

Rejects(g, reply) == IF reply \in {"unauthorized", "unread"} THEN {call[g].sent} \ {NoToken} ELSE {}

\* The transport reads a rawBody as it sends it.
Answer(g, reply) ==
    /\ At(g, "wire")
    /\ call' = [call EXCEPT ![g].step = "answered",
                            ![g].reply = reply,
                            ![g].drained = (call[g].kind = "upload"),
                            ![g].applied = @ + (IF MayHaveApplied(reply) THEN 1 ELSE 0),
                            ![g].rejectedWith = @ \cup Rejects(g, reply)]
    /\ UNCHANGED <<vars, static>>

\* A redirect to another host strips the Authorization header.
Redirect(g) ==
    /\ Redirects
    /\ At(g, "wire")
    /\ call[g].sent # NoToken
    /\ call' = [call EXCEPT ![g].sent = NoToken]
    /\ UNCHANGED <<vars, static>>

----------------------------------------------------------------------------
(* The rest of the loop body *)

\* Fault: the rejected token stays cached.
DropNothing(g) == UNCHANGED vars

\* Fault: whatever is current is dropped, a replacement included.
DropCurrent(g) ==
    \/ static /\ UNCHANGED vars
    \/ ~static /\ Invalidate(g)

\* invalidateRejected
DropRejected(g) ==
    \/ static /\ UNCHANGED vars
    \/ ~static /\ call[g].sent = NoToken /\ Invalidate(g)
    \/ ~static /\ call[g].sent # NoToken /\ InvalidateIfCurrent(g, call[g].sent)

Succeed(g) ==
    /\ At(g, "answered") /\ call[g].reply = "ok"
    /\ Return(g, "ok")
    /\ UNCHANGED <<vars, static>>

\* Fault: authRefreshAttempted is not consulted.
RetryUnauthorizedAgain(g) ==
    /\ At(g, "answered") /\ call[g].reply = "unauthorized"
    /\ call[g].kind # "upload"
    /\ DropRejected(g)
    /\ call' = [call EXCEPT ![g] = NextRound(@, "headers"), ![g].authRefreshAttempted = TRUE]
    /\ UNCHANGED static

\* "attempt--" and the loop's "attempt++" cancel out.
RetryUnauthorized(g) ==
    /\ At(g, "answered") /\ call[g].reply = "unauthorized"
    /\ ~call[g].authRefreshAttempted
    /\ call[g].kind # "upload"
    /\ DropRejected(g)
    /\ call' = [call EXCEPT ![g] = NextRound(@, "headers"), ![g].authRefreshAttempted = TRUE]
    /\ UNCHANGED static

\* Fault: an upload's rejected token is kept.
FailUnauthorizedKeeping(g) ==
    /\ At(g, "answered") /\ call[g].reply = "unauthorized"
    /\ call[g].kind = "upload" \/ call[g].authRefreshAttempted
    /\ Return(g, "authError")
    /\ UNCHANGED <<vars, static>>

FailUnauthorized(g) ==
    /\ At(g, "answered") /\ call[g].reply = "unauthorized"
    /\ \/ call[g].kind = "upload" /\ DropRejected(g)
       \/ call[g].kind # "upload" /\ call[g].authRefreshAttempted /\ UNCHANGED vars
    /\ Return(g, "authError")
    /\ UNCHANGED static

\* Fault: one retry too many.
BackoffOnceMore(g) ==
    /\ At(g, "answered") /\ call[g].reply = "transient"
    /\ call[g].attempt <= MaxRetries
    /\ call' = [call EXCEPT ![g] = NextRound(@, "wait")]
    /\ UNCHANGED <<vars, static>>

Backoff(g) ==
    /\ At(g, "answered") /\ call[g].reply = "transient"
    /\ call[g].attempt < MaxRetries
    /\ call' = [call EXCEPT ![g] = NextRound(@, "wait")]
    /\ UNCHANGED <<vars, static>>

\* Fault: the retry does not count.
RetryTransientFree(g) ==
    /\ At(g, "wait")
    /\ call' = [call EXCEPT ![g].step = "headers"]
    /\ UNCHANGED <<vars, static>>

RetryTransient(g) ==
    /\ At(g, "wait")
    /\ call' = [call EXCEPT ![g].step = "headers", ![g].attempt = @ + 1]
    /\ UNCHANGED <<vars, static>>

CancelWait(g) ==
    /\ At(g, "wait")
    /\ g \in ctxDone
    /\ Return(g, "error")
    /\ UNCHANGED <<vars, static>>

Fail(g) ==
    /\ At(g, "answered")
    /\ \/ call[g].reply \in {"refused", "broken"}
       \/ call[g].reply = "transient" /\ call[g].attempt >= MaxRetries
    /\ Return(g, "error")
    /\ UNCHANGED <<vars, static>>

\* The body is read before the status is looked at: a 401 that breaks off is an
\* error like any other, and the token it was for stays.
FailUnread(g) ==
    /\ At(g, "answered") /\ call[g].reply = "unread"
    /\ Return(g, "unread")
    /\ UNCHANGED <<vars, static>>

\* do() returns once invalidateRejected's callback has.
End(g) ==
    /\ At(g, "return")
    /\ pc[g] = "idle"
    /\ call' = [call EXCEPT ![g] = NoCall]
    /\ ctxDone' = ctxDone \ {g}
    /\ UNCHANGED <<sourceVars, static>>

----------------------------------------------------------------------------
SourceStep(g) == CallStep(g) /\ UNCHANGED <<static, call>>

Exchange(g) == Redirect(g) \/ \E reply \in Replies \ {"none"} : Answer(g, reply)

LoopStep(g) ==
    \/ AskToken(g) \/ MintRefused(g) \/ TokenFails(g) \/ Send(g)
    \/ Succeed(g) \/ RetryUnauthorized(g) \/ FailUnauthorized(g)
    \/ Backoff(g) \/ RetryTransient(g) \/ CancelWait(g) \/ Fail(g)
    \/ FailUnread(g) \/ End(g)

ClientEnvironment ==
    /\ Expire \/ \E g \in Callers : ~At(g, "idle") /\ Cancel(g)
    /\ UNCHANGED <<static, call>>

ClientNext ==
    \/ \E g \in Callers :
          \/ \E kind \in Kinds : Begin(g, kind)
          \/ LoopStep(g) \/ Exchange(g) \/ SourceStep(g)
    \/ ClientEnvironment

ClientSpec == ClientInit /\ [][ClientNext]_clientVars

\* A goroutine is at one place at a time, so fairness to its steps together is
\* fairness to each.  Goroutines run, the Timeout of the http.Client
\* that setDefaults makes ends every exchange, and a goroutine waiting for a
\* lock gets it in its turn.
Progress(g) == LoopStep(g) \/ Exchange(g) \/ SourceStep(g)
LockStep(g) == (AcquireSem(g) \/ CbLock(g)) /\ UNCHANGED <<static, call>>

ClientFairSpec ==
    ClientSpec /\ \A g \in Callers : WF_clientVars(Progress(g)) /\ SF_clientVars(LockStep(g))

----------------------------------------------------------------------------
(* Properties *)

ClientTypeOK ==
    /\ TypeOK
    /\ static \in BOOLEAN
    /\ call \in [Callers ->
          [ step : {"idle", "headers", "token", "denied", "wire", "answered", "wait", "return"},
            kind : RequestKinds, attempt : 0 .. MaxRetries, authRefreshAttempted : BOOLEAN,
            sent : Tokens, reply : Replies, drained : BOOLEAN, outcome : Outcomes,
            sends : 0 .. (MaxRetries + 2), applied : 0 .. (MaxRetries + 2),
            rejectedWith : SUBSET Tokens ]]

\* What a call has sent, and what of it the server may have acted on, at each
\* step of the loop: only the 401 retry adds a request to those that attempt
\* counts, and only a counted one may have been acted on.
Extra(c) == IF c.authRefreshAttempted THEN 1 ELSE 0
CallCounted(c) ==
    /\ c.authRefreshAttempted => c.kind # "upload"
    /\ c.step = "return" => c.outcome # "none"
    /\ c.step \in {"headers", "token", "denied"} =>
          c.sends = c.attempt + Extra(c) /\ c.applied <= c.attempt
    /\ c.step = "wire" => c.sends = c.attempt + Extra(c) + 1 /\ c.applied <= c.attempt
    /\ c.step = "answered" =>
          /\ c.sends = c.attempt + Extra(c) + 1
          /\ c.applied <= c.attempt + (IF MayHaveApplied(c.reply) THEN 1 ELSE 0)
    /\ c.step = "wait" =>
          c.attempt < MaxRetries /\ c.sends = c.attempt + Extra(c) + 1 /\ c.applied <= c.attempt + 1
    /\ c.step \in {"idle", "return"} =>
          c.sends <= c.attempt + Extra(c) + 1 /\ c.applied <= c.attempt + 1
Counted == \A g \in Callers : CallCounted(call[g])

\* A token still on its way from the accounts server is new to everybody.
Known(t) == t <= minted /\ \A h \in Callers : pc[h] = "minted" => tok[h] # t
SourceKnown ==
    /\ Known(current)
    /\ \A g \in Callers : IF pc[g] = "minted" THEN tok[g] = minted ELSE Known(tok[g])
CallsKnown ==
    \A g \in Callers : Known(call[g].sent) /\ \A t \in call[g].rejectedWith : Known(t)

\* What a call sends carries a token, unless a private link stands in for it.
TokenCarried(c) ==
    /\ c.step # "idle" => c.kind \in Kinds
    /\ c.step # "return" => c.outcome = "none"
    /\ NoToken \notin c.rejectedWith
    /\ c.step \in {"wire", "answered"} /\ c.kind # "public" /\ ~Redirects => c.sent # NoToken
    /\ c.step = "answered" /\ c.reply \in {"unauthorized", "unread"} /\ c.sent # NoToken =>
          c.sent \in c.rejectedWith
CarriesToken == \A g \in Callers : TokenCarried(call[g])

\* A call that goes on, or has settled, has dropped the tokens it saw rejected,
\* and is not handed one of them again; so the number of them tells how far it
\* has come.
GoesOn(c) ==
    \/ c.step \in {"headers", "token", "denied", "wire", "wait"}
    \/ c.step = "answered" /\ c.reply \notin {"unauthorized", "unread"}
Settled(c) ==
    /\ c.step = "return"
    /\ c.outcome \in {"ok", "mintRefused", "error"} \/ (c.kind = "upload" /\ c.outcome = "authError")
Apart(g) ==
    /\ GoesOn(call[g]) \/ Settled(call[g]) => current \notin call[g].rejectedWith
    /\ At(g, "token") => tok[g] \notin call[g].rejectedWith
    /\ At(g, "wire") => call[g].sent \notin call[g].rejectedWith
RejectedApart == \A g \in Callers : Apart(g)
AsManyRejected(c) ==
    /\ GoesOn(c) /\ ~c.authRefreshAttempted => c.rejectedWith = {}
    /\ GoesOn(c) /\ c.authRefreshAttempted /\ c.kind = "json" =>
          \E t \in Tokens : c.rejectedWith = {t}
    /\ c.step = "answered" /\ c.reply = "unauthorized" /\ ~c.authRefreshAttempted =>
          c.rejectedWith \subseteq {c.sent}
    /\ c.step = "answered" /\ c.reply = "unauthorized" /\ c.authRefreshAttempted /\ c.kind = "json" =>
          \E t \in Tokens : t # c.sent /\ c.rejectedWith = {t, c.sent}
    /\ c.step = "return" /\ c.outcome = "authError" /\ c.kind = "json" =>
          \E t, u \in Tokens : t # u /\ c.rejectedWith = {t, u}
    /\ c.step = "return" /\ c.outcome = "mintRefused" /\ c.kind = "json" =>
          \E t \in Tokens : c.rejectedWith \subseteq {t}
RejectedCounted == \A g \in Callers : AsManyRejected(call[g])

\* As long as the seed is current nothing has changed that a callback reports.
SeedHeld ==
    current = SeedToken =>
        /\ persisted \in {NoToken, SeedToken}
        /\ \A g \in Callers : pc[g] \notin {"releaseNew", "cbLock", "cbCheck", "cbRun"}

\* The inductive invariant of the request loop and the source it shares.
ClientInv ==
    /\ SourceInv /\ ClientTypeOK
    /\ Counted /\ SourceKnown /\ SeedHeld /\ CallsKnown /\ CarriesToken
    /\ ~static /\ ~Redirects => RejectedApart /\ RejectedCounted

\* "retry once outside the normal retry budget": whatever mix of 401s and
\* transient failures a call meets, it sends at most one request more than
\* MaxRetries allows, and an upload never sends that one.
SendsWithinBudget ==
    \A g \in Callers :
        call[g].sends <= MaxRetries + (IF call[g].kind = "upload" THEN 1 ELSE 2)

\* The extra request is safe: only a transient failure, never the retry after
\* a 401, makes the server act on one call again.
RepeatsWithinBudget == \A g \in Callers : call[g].applied <= call[g].attempt + 1

\* Where tokens can be refreshed, a rewindable call reports an *AuthError either
\* after the server rejected two different tokens, or after the accounts server
\* refused a grant, and then saw no more than one rejected.  So a token that is
\* merely stale is never reported while a new one can be had.
AuthErrorMeansTwoTokens ==
    \A g \in Callers :
        call[g].kind = "json" /\ ~static =>
            /\ call[g].outcome = "authError" => Cardinality(call[g].rejectedWith) = 2
            /\ call[g].outcome = "mintRefused" => Cardinality(call[g].rejectedWith) <= 1

\* invalidateRejected "drops the token a 401 response was sent with": no other
\* token is ever dropped, in particular not the replacement that another
\* goroutine obtained while the 401 was on its way.
OnlyRejectedDropped ==
    [][current # NoToken /\ current' = NoToken
        => \E g \in Callers : current \in call[g].rejectedWith]_current

\* "so a revoked token is not seeded into the next process": once no source
\* call is in progress, a request that returns leaves no token persisted that
\* it has seen rejected.  Left out are the second 401 of a request and a 401
\* whose body breaks off, whose tokens do() does not drop: there the next
\* request finds out.
RejectedNotPersisted ==
    (\A g \in Callers : pc[g] = "idle") /\ ~static =>
        \A g \in Callers :
            At(g, "return") /\ call[g].outcome # "unread"
                    /\ ~(call[g].kind = "json" /\ call[g].outcome = "authError")
                => persisted \notin call[g].rejectedWith

\* "We can only retry safely when rawBody is nil": no request goes out with a
\* rawBody that an earlier attempt has read to its end.
WholeBodySent == \A g \in Callers : At(g, "wire") => ~call[g].drained

\* Every call returns: retries, the semaphore and the callbacks all end.
DoReturns == \A g \in Callers : (~At(g, "idle")) ~> At(g, "idle")
============================================================================
