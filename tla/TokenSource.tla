---------------------------- MODULE TokenSource ----------------------------
(***************************************************************************)
(* refreshTokenSource (src/auth.go): one cached access token shared by the *)
(* goroutines of a Client.  Token() returns the cached token, or mints one *)
(* under the channel semaphore refreshSem; Invalidate() drops it; each     *)
(* change is reported to the application's OnTokenRefresh and              *)
(* OnTokenInvalidate callbacks, which keep a persisted copy, under cbMu.   *)
(*                                                                         *)
(* r.mu protects current and expiry for a few assignments at a time, so    *)
(* each of its critical sections is one atomic step here.                  *)
(*                                                                         *)
(* A definition marked "Fault" is no part of the specification: it is the  *)
(* next definition with a plausible bug, which some property must catch.   *)
(***************************************************************************)
EXTENDS Integers

CONSTANTS
    Callers,    \* goroutines calling Token and Invalidate
    NoCaller,   \* refreshSem and cbMu are free
    Hooks,      \* the callbacks the Config sets
    MaxMints    \* bound: access tokens the accounts server grants in a run

ASSUME CallersAssumption == NoCaller \notin Callers
ASSUME HooksAssumption == Hooks \subseteq {"refresh", "invalidate"}
ASSUME MintsAssumption == MaxMints \in Nat

NoToken == 0      \* current = ""
SeedToken == 1    \* Config.AccessToken; the accounts server mints 2, 3, ...
Tokens == 0 .. (SeedToken + MaxMints)

VARIABLES
    current,     \* r.current
    fresh,       \* time.Until(r.expiry) > r.earlyRefresh
    refreshSem,  \* the caller whose element is in the channel
    cbMu,        \* the caller that holds the callback mutex
    pc,          \* where each caller is in the code
    tok,         \* the caller's local tok; what Token returned once it is idle
    persisted,   \* the copy the callbacks maintain
    minted,      \* the last token the accounts server granted
    ctxDone      \* callers whose context has ended

sourceVars == <<current, fresh, refreshSem, cbMu, pc, tok, persisted, minted>>
vars == <<sourceVars, ctxDone>>

Locations == {"idle",
              "waitSem", "recheck", "refresh", "minted", "release", "releaseNew",
              "cbLock", "cbCheck", "cbRun", "cbUnlock"}

Usable == current # NoToken /\ fresh

Goto(g, from, to) == pc[g] = from /\ pc' = [pc EXCEPT ![g] = to]

\* An unseeded source starts empty; a seeded one may hold an expired token,
\* which the application loaded from its persisted copy or got elsewhere; it
\* has such a copy if it has callbacks to maintain one.
Init ==
    /\ current \in {NoToken, SeedToken}
    /\ fresh \in BOOLEAN
    /\ fresh => current = SeedToken
    /\ persisted \in {NoToken, current}
    /\ Hooks = {} => persisted = NoToken
    /\ refreshSem = NoCaller
    /\ cbMu = NoCaller
    /\ pc = [g \in Callers |-> "idle"]
    /\ tok = [g \in Callers |-> NoToken]
    /\ minted = SeedToken
    /\ ctxDone = {}

----------------------------------------------------------------------------
(* Token *)

TokenFast(g) ==
    /\ pc[g] = "idle"
    /\ Usable
    /\ tok' = [tok EXCEPT ![g] = current]
    /\ UNCHANGED <<current, fresh, refreshSem, cbMu, pc, persisted, minted, ctxDone>>

TokenSlow(g) ==
    /\ ~Usable
    /\ Goto(g, "idle", "waitSem")
    /\ tok' = [tok EXCEPT ![g] = NoToken]
    /\ UNCHANGED <<current, fresh, refreshSem, cbMu, persisted, minted, ctxDone>>

\* Fault: the refresh is not serialized.
AcquireSemAnyway(g) ==
    /\ Goto(g, "waitSem", "recheck")
    /\ refreshSem' = g
    /\ UNCHANGED <<current, fresh, cbMu, tok, persisted, minted, ctxDone>>

\* The select: with both cases ready, Go may take either.
AcquireSem(g) ==
    /\ refreshSem = NoCaller
    /\ Goto(g, "waitSem", "recheck")
    /\ refreshSem' = g
    /\ UNCHANGED <<current, fresh, cbMu, tok, persisted, minted, ctxDone>>

\* Fault: refreshSem is a mutex, which a waiting caller cannot leave.
GiveUpNever(g) == FALSE /\ UNCHANGED vars

GiveUp(g) ==
    /\ g \in ctxDone
    /\ Goto(g, "waitSem", "idle")
    /\ UNCHANGED <<current, fresh, refreshSem, cbMu, tok, persisted, minted, ctxDone>>

RecheckHit(g) ==
    /\ Usable
    /\ Goto(g, "recheck", "release")
    /\ tok' = [tok EXCEPT ![g] = current]
    /\ UNCHANGED <<current, fresh, refreshSem, cbMu, persisted, minted, ctxDone>>

\* Fault: the cache is not checked again under the semaphore.
RecheckMissAlways(g) ==
    /\ Goto(g, "recheck", "refresh")
    /\ UNCHANGED <<current, fresh, refreshSem, cbMu, tok, persisted, minted, ctxDone>>

RecheckMiss(g) ==
    /\ ~Usable
    /\ Goto(g, "recheck", "refresh")
    /\ UNCHANGED <<current, fresh, refreshSem, cbMu, tok, persisted, minted, ctxDone>>

\* Fault: the request is sent twice.
MintTwice(g) ==
    /\ minted < SeedToken + MaxMints
    /\ Goto(g, "refresh", "minted")
    /\ minted' = minted + 2
    /\ tok' = [tok EXCEPT ![g] = minted + 2]
    /\ UNCHANGED <<current, fresh, refreshSem, cbMu, persisted, ctxDone>>

\* The accounts server grants a token; its answer is still on the way.
Mint(g) ==
    /\ minted < SeedToken + MaxMints
    /\ Goto(g, "refresh", "minted")
    /\ minted' = minted + 1
    /\ tok' = [tok EXCEPT ![g] = minted + 1]
    /\ UNCHANGED <<current, fresh, refreshSem, cbMu, persisted, ctxDone>>

\* The request is refused, times out, is cancelled, or its answer is lost
\* after the grant.
RefreshFails(g) ==
    /\ \/ Goto(g, "refresh", "release")
       \/ Goto(g, "minted", "release")
    /\ tok' = [tok EXCEPT ![g] = NoToken]
    /\ UNCHANGED <<current, fresh, refreshSem, cbMu, persisted, minted, ctxDone>>

\* A grant whose lifetime is within the early-refresh window is never fresh.
StoreToken(g) ==
    /\ Goto(g, "minted", "releaseNew")
    /\ current' = tok[g]
    /\ fresh' \in BOOLEAN
    /\ UNCHANGED <<refreshSem, cbMu, tok, persisted, minted, ctxDone>>

\* Fault: a failed refresh returns before it frees the semaphore.
ReleaseUnlessFailed(g) ==
    /\ \/ Goto(g, "release", "idle")
       \/ Goto(g, "releaseNew", IF "refresh" \in Hooks THEN "cbLock" ELSE "idle")
    /\ refreshSem' = IF tok[g] = NoToken THEN refreshSem ELSE NoCaller
    /\ UNCHANGED <<current, fresh, cbMu, tok, persisted, minted, ctxDone>>

Release(g) ==
    /\ \/ Goto(g, "release", "idle")
       \/ Goto(g, "releaseNew", IF "refresh" \in Hooks THEN "cbLock" ELSE "idle")
    /\ refreshSem' = NoCaller
    /\ UNCHANGED <<current, fresh, cbMu, tok, persisted, minted, ctxDone>>

----------------------------------------------------------------------------
(* Invalidate *)

\* clearLocked, up to the callback.
Clear(g) ==
    /\ Goto(g, "idle", IF "invalidate" \in Hooks THEN "cbLock" ELSE "idle")
    /\ current' = NoToken
    /\ fresh' = FALSE
    /\ tok' = [tok EXCEPT ![g] = NoToken]
    /\ UNCHANGED <<refreshSem, cbMu, persisted, minted, ctxDone>>

Invalidate(g) == Clear(g)

InvalidateIfCurrent(g, rejected) ==
    \/ current = rejected /\ Clear(g)
    \/ current # rejected /\ pc[g] = "idle" /\ UNCHANGED vars

----------------------------------------------------------------------------
(* The callbacks: onRefresh(tok) and onInvalidate() differ only in the     *)
(* value they report, tok[g], which is NoToken for an invalidation.        *)

\* Fault: callbacks are not serialized.
CbLockAnyway(g) ==
    /\ Goto(g, "cbLock", "cbCheck")
    /\ cbMu' = g
    /\ UNCHANGED <<current, fresh, refreshSem, tok, persisted, minted, ctxDone>>

CbLock(g) ==
    /\ cbMu = NoCaller
    /\ Goto(g, "cbLock", "cbCheck")
    /\ cbMu' = g
    /\ UNCHANGED <<current, fresh, refreshSem, tok, persisted, minted, ctxDone>>

\* Fault: the callback runs without checking for a newer change.
CbCheckNothing(g) ==
    /\ Goto(g, "cbCheck", "cbRun")
    /\ UNCHANGED <<current, fresh, refreshSem, cbMu, tok, persisted, minted, ctxDone>>

CbCheck(g) ==
    /\ Goto(g, "cbCheck", IF current = tok[g] THEN "cbRun" ELSE "cbUnlock")
    /\ UNCHANGED <<current, fresh, refreshSem, cbMu, tok, persisted, minted, ctxDone>>

\* Fault: the callback reads the cache instead of its argument.
CbRunCurrent(g) ==
    /\ Goto(g, "cbRun", "cbUnlock")
    /\ persisted' = current
    /\ UNCHANGED <<current, fresh, refreshSem, cbMu, tok, minted, ctxDone>>

CbRun(g) ==
    /\ Goto(g, "cbRun", "cbUnlock")
    /\ persisted' = tok[g]
    /\ UNCHANGED <<current, fresh, refreshSem, cbMu, tok, minted, ctxDone>>

CbUnlock(g) ==
    /\ Goto(g, "cbUnlock", "idle")
    /\ cbMu' = NoCaller
    /\ UNCHANGED <<current, fresh, refreshSem, tok, persisted, minted, ctxDone>>

----------------------------------------------------------------------------
(* The clock and the callers' contexts *)

Expire ==
    /\ fresh
    /\ fresh' = FALSE
    /\ UNCHANGED <<current, refreshSem, cbMu, pc, tok, persisted, minted, ctxDone>>

Cancel(g) ==
    /\ g \notin ctxDone
    /\ ctxDone' = ctxDone \cup {g}
    /\ UNCHANGED sourceVars

NewContext(g) ==
    /\ pc[g] = "idle"
    /\ g \in ctxDone
    /\ ctxDone' = ctxDone \ {g}
    /\ UNCHANGED sourceVars

----------------------------------------------------------------------------
TokenCall(g) == TokenFast(g) \/ TokenSlow(g)

InvalidateCall(g) == Invalidate(g) \/ \E t \in Tokens \ {NoToken} : InvalidateIfCurrent(g, t)

\* The steps a call takes once it has begun.
UnderSem(g) == RecheckHit(g) \/ RecheckMiss(g) \/ Release(g)
TokenRequest(g) == Mint(g) \/ StoreToken(g) \/ RefreshFails(g)
UnderCbMu(g) == CbCheck(g) \/ CbRun(g) \/ CbUnlock(g)
CallStep(g) ==
    \/ AcquireSem(g) \/ GiveUp(g) \/ UnderSem(g) \/ TokenRequest(g)
    \/ CbLock(g) \/ UnderCbMu(g)

Environment == Expire \/ \E g \in Callers : Cancel(g) \/ NewContext(g)

Next ==
    \/ \E g \in Callers : TokenCall(g) \/ InvalidateCall(g) \/ CallStep(g)
    \/ Environment

Spec == Init /\ [][Next]_vars

\* Goroutines run; a callback returns; a goroutine blocked on the channel or
\* on cbMu gets it in its turn (both queues are FIFO once a waiter starves).
CallersProgress ==
    \A g \in Callers :
        /\ WF_vars(GiveUp(g))
        /\ WF_vars(UnderSem(g))
        /\ WF_vars(UnderCbMu(g))
        /\ SF_vars(AcquireSem(g))
        /\ SF_vars(CbLock(g))

\* With an HTTPClient of the application's that has no Timeout, a token request
\* need only end when the context of its caller does.
FairSpec ==
    Spec /\ CallersProgress /\ \A g \in Callers : WF_vars(g \in ctxDone /\ RefreshFails(g))

----------------------------------------------------------------------------
(* Properties *)

\* Every variable holds a value the code can give it.
TypeOK ==
    /\ current \in Tokens
    /\ fresh \in BOOLEAN
    /\ refreshSem \in Callers \cup {NoCaller}
    /\ cbMu \in Callers \cup {NoCaller}
    /\ pc \in [Callers -> Locations]
    /\ tok \in [Callers -> Tokens]
    /\ persisted \in Tokens
    /\ minted \in SeedToken .. (SeedToken + MaxMints)
    /\ ctxDone \subseteq Callers

\* "concurrent callers holding an expired token mint one new token between
\* them, not one each": a token is only ever granted while no usable one is
\* cached, however long ago the caller that asks found the cache stale.
NoWastedMint == [][minted' # minted => ~Usable]_minted

\* A token replaces only an unusable one, so a slow answer never overwrites a
\* token another caller obtained meanwhile.
NoUsableTokenOverwritten == [][current' # current /\ current' # NoToken => ~Usable]_current

\* Whether a change to this value is one the application hears of.
Reported(t) ==
    \/ t > SeedToken /\ "refresh" \in Hooks
    \/ t = NoToken /\ "invalidate" \in Hooks

\* A caller that has made the current value current still has to report it.
Pending ==
    \E g \in Callers : /\ pc[g] \in {"releaseNew", "cbLock", "cbCheck", "cbRun"}
                       /\ tok[g] = current

\* "persisted state always ends at the latest change": whatever is in flight,
\* either the latest change has yet to be reported or it has been, and no
\* callback with an older one can still run.
LatestChangeReported ==
    Reported(current) =>
        \/ Pending
        \/ /\ persisted = current
           /\ \A g \in Callers : pc[g] # "cbRun"

\* The locks are held exactly in their critical sections; whoever found the
\* cache stale under refreshSem still does when it asks for a token; and only
\* reportable changes reach the callbacks.
LocksHeld ==
    \A g \in Callers :
        /\ pc[g] \in {"recheck", "refresh", "minted", "release", "releaseNew"} <=> refreshSem = g
        /\ pc[g] \in {"cbCheck", "cbRun", "cbUnlock"} <=> cbMu = g
MissStands == \A g \in Callers : pc[g] \in {"refresh", "minted"} => ~Usable
ReportsDue ==
    \A g \in Callers :
        /\ pc[g] \in {"minted", "releaseNew"} => tok[g] > SeedToken
        /\ pc[g] \in {"cbLock", "cbCheck", "cbRun"} => Reported(tok[g])

\* The inductive invariant of the source.
SourceInv == TypeOK /\ LocksHeld /\ MissStands /\ ReportsDue /\ LatestChangeReported

\* With no call in progress the persisted copy is the cached token.
PersistedAtRest ==
    (Reported(current) /\ \A g \in Callers : pc[g] = "idle") => persisted = current

\* Once the source stops changing, the persisted copy settles on its value.
PersistedSettles ==
    \A t \in Tokens : <>[](current = t /\ Reported(t)) => <>[](persisted = t)

\* refreshSem "is a channel rather than a mutex so a waiting caller can give
\* up when its context ends": a caller whose context ended returns even if
\* the accounts server never answers the caller that holds the semaphore.
CancelledCallsReturn ==
    \A g \in Callers : (pc[g] # "idle" /\ g \in ctxDone) ~> (pc[g] = "idle")

----------------------------------------------------------------------------
\* The cell's write under way is the callback that passed its check; a change
\* waits for its write while a caller that will report it has yet to check.
Cell == INSTANCE TokenCell WITH
    Values <- Tokens,
    Tracked <- {t \in Tokens : Reported(t)},
    NoWrite <- -1,
    saved <- persisted,
    writing <- IF cbMu # NoCaller /\ pc[cbMu] = "cbRun" THEN tok[cbMu] ELSE -1,
    dirty <- /\ Reported(current)
             /\ \E g \in Callers : /\ pc[g] \in {"releaseNew", "cbLock", "cbCheck"}
                                   /\ tok[g] = current

\* The concurrent source with its two callbacks implements the cell.
ImplementsCell == Cell!Spec
============================================================================
