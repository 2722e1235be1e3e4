---------------------------- MODULE ClientProofs ----------------------------
(***************************************************************************)
(* What the request loop guarantees for any number of goroutines, any      *)
(* MaxRetries and any number of grants.  The loop's steps are steps of the *)
(* token source (SourceSteps), so SourceInv carries over; on top of it     *)
(* ClientInv counts what each call has sent, and keeps the tokens a call   *)
(* saw rejected apart from the one the source holds.                       *)
(***************************************************************************)
EXTENDS Client, TokenSourceProofs, FiniteSetTheorems

CallRecord ==
    [ step : {"idle", "headers", "token", "denied", "wire", "answered", "wait", "return"},
      kind : RequestKinds, attempt : 0 .. MaxRetries, authRefreshAttempted : BOOLEAN,
      sent : Tokens, reply : Replies, drained : BOOLEAN, outcome : Outcomes,
      sends : 0 .. (MaxRetries + 2), applied : 0 .. (MaxRetries + 2),
      rejectedWith : SUBSET Tokens ]

\* What the call of one goroutine does to the source.
LEMMA DropIsSourceStep ==
    ASSUME ClientTypeOK, NEW g \in Callers, DropRejected(g)
    PROVE  [Next]_vars
  <1>1. call[g].sent \in Tokens
    BY DEF ClientTypeOK
  <1> QED BY <1>1 DEF DropRejected, Next, InvalidateCall

LEMMA SourceSteps ==
    ASSUME ClientTypeOK, [ClientNext]_clientVars
    PROVE  [Next]_vars
  <1>1. CASE UNCHANGED clientVars
    BY <1>1 DEF clientVars
  <1>2. CASE ClientEnvironment
    BY <1>2 DEF ClientEnvironment, Next, Environment
  <1>3. ASSUME NEW g \in Callers, \E kind \in Kinds : Begin(g, kind)
        PROVE  [Next]_vars
    BY <1>3 DEF Begin
  <1>4. ASSUME NEW g \in Callers, Exchange(g) \/ SourceStep(g)
        PROVE  [Next]_vars
    BY <1>4 DEF Exchange, Redirect, Answer, SourceStep, Next
  <1>5. ASSUME NEW g \in Callers, LoopStep(g)
        PROVE  [Next]_vars
    <2>1. CASE AskToken(g) \/ MintRefused(g)
      BY <2>1 DEF AskToken, MintRefused, Next, CallStep, TokenRequest
    <2>2. CASE RetryUnauthorized(g) \/ FailUnauthorized(g)
      BY <2>2, DropIsSourceStep DEF RetryUnauthorized, FailUnauthorized
    <2>3. CASE End(g)
      <3>1. CASE g \in ctxDone
        BY <2>3, <3>1 DEF End, Next, Environment, NewContext
      <3>2. CASE g \notin ctxDone
        <4>1. ctxDone \ {g} = ctxDone
          BY <3>2
        <4> QED BY <2>3, <4>1 DEF End, vars
      <3> QED BY <3>1, <3>2
    <2>4. CASE \/ TokenFails(g) \/ Send(g) \/ Succeed(g) \/ Backoff(g)
               \/ RetryTransient(g) \/ CancelWait(g) \/ Fail(g) \/ FailUnread(g)
      BY <2>4 DEF TokenFails, Send, SendWith, Succeed, Backoff, RetryTransient,
                  CancelWait, Fail, FailUnread
    <2> QED BY <1>5, <2>1, <2>2, <2>3, <2>4 DEF LoopStep
  <1> QED BY <1>1, <1>2, <1>3, <1>4, <1>5 DEF ClientNext

\* A step of one call leaves the others alone and its own record in order.
CallKept(g) ==
    /\ call' \in [Callers -> CallRecord]
    /\ CallCounted(call'[g])
    /\ \A h \in Callers \ {g} : call'[h] = call[h]

\* What ends a round of the loop keeps everything that is not the round's.
SameHistory(c, d) ==
    /\ d.kind = c.kind /\ d.attempt = c.attempt /\ d.sends = c.sends
    /\ d.applied = c.applied /\ d.rejectedWith = c.rejectedWith
LEMMA RoundEnds ==
    ASSUME NEW c \in CallRecord,
           NEW step \in {"idle", "headers", "token", "denied", "wire", "answered", "wait", "return"}
    PROVE  /\ NextRound(c, step) \in CallRecord
           /\ SameHistory(c, NextRound(c, step))
           /\ NextRound(c, step).step = step
           /\ NextRound(c, step).sent = NoToken
           /\ NextRound(c, step).reply = "none"
           /\ NextRound(c, step).outcome = c.outcome
           /\ NextRound(c, step).authRefreshAttempted = c.authRefreshAttempted
  <1>1. NoToken \in Tokens
    BY MintsAssumption DEF Tokens, NoToken, SeedToken
  <1>2. "none" \in Replies
    BY DEF Replies
  <1>3. NextRound(c, step) \in CallRecord
    BY <1>1, <1>2 DEF NextRound, CallRecord
  <1> QED BY <1>3 DEF NextRound, CallRecord, SameHistory

LEMMA Returns ==
    ASSUME NEW g \in Callers, call \in [Callers -> CallRecord],
           NEW outcome \in Outcomes, Return(g, outcome)
    PROVE  /\ call' \in [Callers -> CallRecord]
           /\ SameHistory(call[g], call'[g])
           /\ call'[g].step = "return"
           /\ call'[g].sent = NoToken
           /\ call'[g].outcome = outcome
           /\ call'[g].authRefreshAttempted = call[g].authRefreshAttempted
           /\ \A h \in Callers \ {g} : call'[h] = call[h]
  <1> DEFINE d == NextRound(call[g], "return")
             e == [d EXCEPT !.outcome = outcome]
  <1>1. call[g] \in CallRecord
    OBVIOUS
  <1>2. /\ d \in CallRecord /\ SameHistory(call[g], d)
        /\ d.step = "return" /\ d.sent = NoToken
        /\ d.authRefreshAttempted = call[g].authRefreshAttempted
    BY <1>1, RoundEnds
  <1>3. call' = [call EXCEPT ![g] = e]
    BY DEF Return
  <1> HIDE DEF d
  <1>4. e \in CallRecord
    BY <1>2 DEF CallRecord
  <1>5. SameHistory(call[g], e) /\ e.step = "return" /\ e.sent = NoToken /\ e.outcome = outcome
    BY <1>2 DEF CallRecord, SameHistory
  <1>6. e.authRefreshAttempted = call[g].authRefreshAttempted
    BY <1>2 DEF CallRecord
  <1> QED BY <1>3, <1>4, <1>5, <1>6

\* The 401 retry is the only step that sets authRefreshAttempted.
LEMMA Retries ==
    ASSUME NEW g \in Callers, call \in [Callers -> CallRecord],
           call' = [call EXCEPT ![g] = NextRound(@, "headers"), ![g].authRefreshAttempted = TRUE]
    PROVE  /\ call' \in [Callers -> CallRecord]
           /\ SameHistory(call[g], call'[g])
           /\ call'[g].step = "headers"
           /\ call'[g].sent = NoToken
           /\ call'[g].outcome = call[g].outcome
           /\ call'[g].authRefreshAttempted
           /\ \A h \in Callers \ {g} : call'[h] = call[h]
  <1> DEFINE d == NextRound(call[g], "headers")
             e == [d EXCEPT !.authRefreshAttempted = TRUE]
  <1>1. call[g] \in CallRecord
    OBVIOUS
  <1>2. /\ d \in CallRecord /\ SameHistory(call[g], d)
        /\ d.step = "headers" /\ d.sent = NoToken /\ d.outcome = call[g].outcome
    BY <1>1, RoundEnds
  <1>3. call' = [call EXCEPT ![g] = e]
    OBVIOUS
  <1> HIDE DEF d
  <1>4. e \in CallRecord
    BY <1>2 DEF CallRecord
  <1>5. /\ SameHistory(call[g], e) /\ e.step = "headers" /\ e.sent = NoToken
        /\ e.outcome = call[g].outcome
    BY <1>2 DEF CallRecord, SameHistory
  <1>6. e.authRefreshAttempted
    BY <1>2 DEF CallRecord
  <1> QED BY <1>3, <1>4, <1>5, <1>6

LEMMA Waits ==
    ASSUME NEW g \in Callers, call \in [Callers -> CallRecord],
           call' = [call EXCEPT ![g] = NextRound(@, "wait")]
    PROVE  /\ call' \in [Callers -> CallRecord]
           /\ SameHistory(call[g], call'[g])
           /\ call'[g].step = "wait"
           /\ call'[g].sent = NoToken
           /\ call'[g].outcome = call[g].outcome
           /\ call'[g].authRefreshAttempted = call[g].authRefreshAttempted
           /\ \A h \in Callers \ {g} : call'[h] = call[h]
  <1>1. call[g] \in CallRecord
    OBVIOUS
  <1> DEFINE d == NextRound(call[g], "wait")
  <1>2. /\ d \in CallRecord /\ SameHistory(call[g], d)
        /\ d.step = "wait" /\ d.sent = NoToken /\ d.outcome = call[g].outcome
        /\ d.authRefreshAttempted = call[g].authRefreshAttempted
    BY <1>1, RoundEnds
  <1> HIDE DEF d
  <1> QED BY <1>2 DEF d

LEMMA NewCallOK ==
    /\ NoCall \in CallRecord /\ CallCounted(NoCall)
    /\ \A kind \in RequestKinds : NewCall(kind) \in CallRecord /\ CallCounted(NewCall(kind))
  <1> USE RetriesAssumption
  <1>1. NoToken \in Tokens
    BY MintsAssumption DEF Tokens, NoToken, SeedToken
  <1>2. ASSUME NEW kind \in RequestKinds
        PROVE  NewCall(kind) \in CallRecord /\ CallCounted(NewCall(kind))
    <2>1. NewCall(kind) \in CallRecord
      BY <1>1 DEF NewCall, CallRecord, Replies, Outcomes
    <2>2. CallCounted(NewCall(kind))
      BY DEF NewCall, CallCounted, Extra
    <2> QED BY <2>1, <2>2
  <1> DEFINE c == NewCall("json")
  <1>3. c \in CallRecord /\ c.sends = 0 /\ c.applied = 0 /\ c.attempt = 0 /\ ~c.authRefreshAttempted
    BY <1>2 DEF RequestKinds, NewCall
  <1>4. NoCall = [c EXCEPT !.step = "idle"]
    BY DEF NoCall
  <1> HIDE DEF c
  <1>5. NoCall \in CallRecord
    BY <1>3, <1>4 DEF CallRecord
  <1>6. /\ NoCall.step = "idle" /\ NoCall.sends = 0 /\ NoCall.applied = 0
        /\ NoCall.attempt = 0 /\ ~NoCall.authRefreshAttempted
    BY <1>3, <1>4 DEF CallRecord
  <1> QED BY <1>2, <1>5, <1>6 DEF CallCounted, Extra

LEMMA LoopKeeps ==
    ASSUME ClientTypeOK, Counted, NEW g \in Callers, LoopStep(g)
    PROVE  CallKept(g)
  <1> USE RetriesAssumption DEF At
  <1>1. call \in [Callers -> CallRecord] /\ call[g] \in CallRecord /\ CallCounted(call[g])
    BY DEF ClientTypeOK, CallRecord, Counted
  <1>2. NoToken \in Tokens /\ SeedToken \in Tokens /\ tok[g] \in Tokens
    BY MintsAssumption DEF ClientTypeOK, TypeOK, Tokens, NoToken, SeedToken
  <1>3. CASE AskToken(g) \/ MintRefused(g)
    BY <1>1, <1>3 DEF AskToken, MintRefused, CallKept, CallCounted, CallRecord, Extra
  <1>4. CASE Send(g)
    <2>1. PICK t \in Tokens : SendWith(g, t) /\ call[g].step \in {"headers", "token"}
      BY <1>2, <1>4 DEF Send
    <2> QED BY <1>1, <2>1 DEF SendWith, CallKept, CallCounted, CallRecord, Extra
  <1>5. ASSUME NEW outcome \in Outcomes \ {"none"}, Return(g, outcome),
               call[g].step \in {"token", "denied", "wait", "answered"}
        PROVE  CallKept(g)
    <2>1. /\ call' \in [Callers -> CallRecord]
          /\ SameHistory(call[g], call'[g])
          /\ call'[g].step = "return"
          /\ call'[g].outcome = outcome
          /\ call'[g].authRefreshAttempted = call[g].authRefreshAttempted
          /\ \A h \in Callers \ {g} : call'[h] = call[h]
      BY <1>1, <1>5, Returns
    <2>2. CallCounted(call'[g])
      BY <1>1, <1>5, <2>1 DEF CallCounted, SameHistory, Extra, CallRecord, MayHaveApplied
    <2> QED BY <2>1, <2>2 DEF CallKept
  <1>6. CASE TokenFails(g) \/ Succeed(g) \/ FailUnauthorized(g) \/ CancelWait(g)
             \/ Fail(g) \/ FailUnread(g)
    BY <1>5, <1>6 DEF TokenFails, Succeed, FailUnauthorized, CancelWait, Fail, FailUnread, Outcomes
  <1>7. CASE RetryUnauthorized(g)
    <2>1. /\ call' \in [Callers -> CallRecord]
          /\ SameHistory(call[g], call'[g])
          /\ call'[g].step = "headers"
          /\ call'[g].authRefreshAttempted
          /\ \A h \in Callers \ {g} : call'[h] = call[h]
      BY <1>1, <1>7, Retries DEF RetryUnauthorized
    <2>2. /\ call[g].kind # "upload" /\ call[g].step = "answered"
          /\ ~call[g].authRefreshAttempted /\ ~MayHaveApplied(call[g].reply)
      BY <1>7 DEF RetryUnauthorized, MayHaveApplied
    <2>3. CallCounted(call'[g])
      BY <1>1, <2>1, <2>2 DEF CallCounted, SameHistory, Extra, CallRecord
    <2> QED BY <2>1, <2>3 DEF CallKept
  <1>8. CASE Backoff(g)
    <2>1. /\ call' \in [Callers -> CallRecord]
          /\ SameHistory(call[g], call'[g])
          /\ call'[g].step = "wait"
          /\ call'[g].authRefreshAttempted = call[g].authRefreshAttempted
          /\ \A h \in Callers \ {g} : call'[h] = call[h]
      BY <1>1, <1>8, Waits DEF Backoff
    <2>2. call[g].step = "answered" /\ call[g].attempt < MaxRetries
      BY <1>8 DEF Backoff
    <2>3. CallCounted(call'[g])
      BY <1>1, <2>1, <2>2 DEF CallCounted, SameHistory, Extra, CallRecord, MayHaveApplied
    <2> QED BY <2>1, <2>3 DEF CallKept
  <1>9. CASE RetryTransient(g)
    BY <1>1, <1>9 DEF RetryTransient, CallKept, CallCounted, CallRecord, Extra
  <1>10. CASE End(g)
    <2>1. CallCounted(NoCall) /\ NoCall \in CallRecord
      BY NewCallOK
    <2>2. call' = [call EXCEPT ![g] = NoCall]
      BY <1>10 DEF End
    <2> QED BY <1>1, <2>1, <2>2 DEF CallKept
  <1> QED BY <1>3, <1>4, <1>6, <1>7, <1>8, <1>9, <1>10 DEF LoopStep

LEMMA ExchangeKeeps ==
    ASSUME ClientTypeOK, Counted, NEW g \in Callers, Exchange(g)
    PROVE  CallKept(g)
  <1> USE RetriesAssumption DEF At
  <1>1. call \in [Callers -> CallRecord] /\ call[g] \in CallRecord /\ CallCounted(call[g])
    BY DEF ClientTypeOK, CallRecord, Counted
  <1>2. NoToken \in Tokens
    BY MintsAssumption DEF Tokens, NoToken, SeedToken
  <1>3. CASE Redirect(g)
    BY <1>1, <1>2, <1>3 DEF Redirect, CallKept, CallCounted, CallRecord, Extra
  <1>4. ASSUME NEW reply \in Replies \ {"none"}, Answer(g, reply)
        PROVE  CallKept(g)
    <2> DEFINE may == IF MayHaveApplied(reply) THEN 1 ELSE 0
               told == call[g].rejectedWith \cup Rejects(g, reply)
               read == (call[g].kind = "upload")
    <2>1. may \in {0, 1} /\ told \in SUBSET Tokens /\ read \in BOOLEAN
      BY <1>1 DEF Rejects, CallRecord
    <2>2. /\ call[g].step = "wire"
          /\ call' = [call EXCEPT ![g].step = "answered", ![g].reply = reply, ![g].drained = read,
                                  ![g].applied = @ + may, ![g].rejectedWith = told]
      BY <1>4 DEF Answer
    <2>3. may = IF MayHaveApplied(reply) THEN 1 ELSE 0
      OBVIOUS
    <2> HIDE DEF may, told, read
    <2>4. call' \in [Callers -> CallRecord]
      <3>1. call[g].applied + may \in 0 .. (MaxRetries + 2)
        BY <1>1, <2>1, <2>2 DEF CallRecord, CallCounted
      <3> DEFINE sum == call[g].applied + may
      <3>2. call' = [call EXCEPT ![g].step = "answered", ![g].reply = reply, ![g].drained = read,
                                ![g].applied = sum, ![g].rejectedWith = told]
        BY <2>2
      <3> HIDE DEF sum
      <3> QED BY <1>1, <2>1, <3>1, <3>2 DEF CallRecord, sum
    <2>5. CallCounted(call'[g])
      BY <1>1, <2>1, <2>2, <2>3 DEF CallRecord, CallCounted, Extra
    <2> QED BY <2>2, <2>4, <2>5 DEF CallKept
  <1> QED BY <1>3, <1>4 DEF Exchange

\* Every step that is not a call's own leaves all calls alone.
LEMMA CallSteps ==
    ASSUME ClientTypeOK, Counted, [ClientNext]_clientVars
    PROVE  call' = call \/ \E g \in Callers : CallKept(g)
  <1>1. ASSUME NEW g \in Callers, NEW kind \in Kinds, Begin(g, kind)
        PROVE  CallKept(g)
    <2>1. NewCall(kind) \in CallRecord /\ CallCounted(NewCall(kind))
      BY KindsAssumption, NewCallOK
    <2>2. call \in [Callers -> CallRecord]
      BY DEF ClientTypeOK, CallRecord
    <2> QED BY <1>1, <2>1, <2>2 DEF Begin, CallKept
  <1> QED BY <1>1, LoopKeeps, ExchangeKeeps
          DEF ClientNext, ClientEnvironment, SourceStep, clientVars

LEMMA StaticStays == [ClientNext]_clientVars => static' = static
  <1> QED BY DEF ClientNext, ClientEnvironment, SourceStep, clientVars, Begin, LoopStep, Exchange,
           Redirect, Answer, AskToken, MintRefused, TokenFails, Send, SendWith, Succeed, RetryUnauthorized,
           FailUnauthorized, Backoff, RetryTransient, CancelWait, Fail, FailUnread, End

LEMMA CountedStep ==
    ASSUME SourceInv, ClientTypeOK, Counted, [ClientNext]_clientVars
    PROVE  SourceInv' /\ ClientTypeOK' /\ Counted'
  <1>1. SourceInv'
    BY SourceSteps, Inductive
  <1>2. call \in [Callers -> CallRecord]
    BY DEF ClientTypeOK, CallRecord
  <1>3. call' \in [Callers -> CallRecord] /\ \A g \in Callers : CallCounted(call'[g])
    BY <1>2, CallSteps DEF Counted, CallKept
  <1>4. static' = static
    BY StaticStays
  <1>5. ClientTypeOK'
    BY <1>1, <1>3, <1>4 DEF ClientTypeOK, CallRecord, SourceInv
  <1>6. Counted'
    BY <1>3 DEF Counted
  <1> QED BY <1>1, <1>5, <1>6

----------------------------------------------------------------------------
(* The tokens in circulation *)

LEMMA KnownStays ==
    ASSUME SourceInv, [Next]_vars, NEW t \in Tokens, Known(t)
    PROVE  Known(t)'
  <1> USE DEF SourceInv, TypeOK, Known, Goto, Tokens, NoToken, SeedToken
  <1>1. CASE Expire \/ UNCHANGED vars
    BY <1>1 DEF Expire, vars, sourceVars
  <1>2. ASSUME NEW g \in Callers, Act(g)
        PROVE  Known(t)'
    <2>1. CASE Mint(g)
      BY <2>1, MintsAssumption DEF Mint
    <2>2. CASE TokenFast(g) \/ TokenSlow(g) \/ AcquireSem(g) \/ GiveUp(g)
      BY <2>2 DEF TokenFast, TokenSlow, AcquireSem, GiveUp
    <2>3. CASE RecheckHit(g) \/ RecheckMiss(g) \/ RefreshFails(g) \/ StoreToken(g) \/ Release(g)
      BY <2>3 DEF RecheckHit, RecheckMiss, RefreshFails, StoreToken, Release
    <2>4. CASE Clear(g) \/ CbLock(g) \/ CbCheck(g) \/ CbRun(g) \/ CbUnlock(g)
      BY <2>4 DEF Clear, CbLock, CbCheck, CbRun, CbUnlock
    <2>5. CASE Cancel(g) \/ NewContext(g)
      BY <2>5 DEF Cancel, NewContext, sourceVars
    <2> QED BY <1>2, <2>1, <2>2, <2>3, <2>4, <2>5 DEF Act
  <1> QED BY <1>1, <1>2, Steps

\* The empty token and the seed were never granted.
LEMMA OldKnown ==
    ASSUME SourceInv
    PROVE  Known(NoToken) /\ Known(SeedToken)
  <1> QED BY MintsAssumption DEF SourceInv, TypeOK, ReportsDue, Known, Tokens, NoToken, SeedToken

LEMMA SourceKnownStep ==
    ASSUME SourceInv, SourceKnown, [Next]_vars
    PROVE  SourceKnown'
  <1>1. SourceInv'
    BY Inductive
  <1>2. Known(NoToken)'
    BY <1>1, OldKnown, KnownStays DEF SourceInv, TypeOK, ReportsDue, Known, Tokens, NoToken, SeedToken
  <1>3. Known(current)' \/ current' # current
    BY KnownStays DEF SourceInv, SourceKnown, TypeOK, Known
  <1>4. \A t \in Tokens : Known(t) => Known(t)'
    BY KnownStays
  <1>5. CASE Expire \/ UNCHANGED vars
    BY <1>5, <1>3 DEF Expire, vars, sourceVars, SourceKnown, Known
  <1>6. ASSUME NEW g \in Callers, Act(g)
        PROVE  SourceKnown'
    <2> USE DEF SourceInv, TypeOK, Goto
    <2>1. CASE TokenFast(g) \/ TokenSlow(g) \/ AcquireSem(g) \/ GiveUp(g)
      BY <2>1, <1>2, <1>3, <1>4 DEF TokenFast, TokenSlow, AcquireSem, GiveUp, SourceKnown
    <2>2. CASE RecheckHit(g) \/ RecheckMiss(g) \/ RefreshFails(g) \/ Release(g)
      BY <2>2, <1>2, <1>3, <1>4 DEF RecheckHit, RecheckMiss, RefreshFails, Release, SourceKnown
    <2>3. CASE Mint(g)
      <3>1. \A h \in Callers \ {g} : pc[h] # "minted"
        BY <2>3 DEF Mint, LocksHeld
      <3> QED BY <2>3, <3>1, <1>3, <1>4 DEF Mint, SourceKnown
    <2>4. CASE StoreToken(g)
      <3>1. \A h \in Callers \ {g} : pc[h] # "minted"
        BY <2>4 DEF StoreToken, LocksHeld
      <3>2. Known(tok[g])'
        BY <2>4, <3>1 DEF StoreToken, Known, SourceKnown, Tokens, SeedToken
      <3> QED BY <2>4, <3>1, <3>2, <1>4 DEF StoreToken, SourceKnown
    <2>5. CASE Clear(g)
      BY <2>5, <1>2, <1>4 DEF Clear, SourceKnown
    <2>6. CASE CbLock(g) \/ CbCheck(g) \/ CbRun(g) \/ CbUnlock(g)
      BY <2>6, <1>3, <1>4 DEF CbLock, CbCheck, CbRun, CbUnlock, SourceKnown
    <2>7. CASE Cancel(g) \/ NewContext(g)
      BY <2>7, <1>3, <1>4 DEF Cancel, NewContext, sourceVars, SourceKnown
    <2> QED BY <1>6, <2>1, <2>2, <2>3, <2>4, <2>5, <2>6, <2>7 DEF Act
  <1> QED BY <1>5, <1>6, Steps

----------------------------------------------------------------------------
(* What a step of the loop does to the tokens a call has sent *)

SameTokens(c, d) ==
    /\ d.kind = c.kind /\ d.outcome = c.outcome /\ d.rejectedWith = c.rejectedWith
    /\ d.authRefreshAttempted = c.authRefreshAttempted

LEMMA NewCallFields ==
    ASSUME NEW kind \in RequestKinds
    PROVE  LET c == NewCall(kind) IN
           /\ c.step = "headers" /\ c.kind = kind /\ c.outcome = "none"
           /\ c.rejectedWith = {} /\ c.sent = NoToken /\ ~c.authRefreshAttempted
  <1> QED BY DEF NewCall

LEMMA NoCallFields ==
    /\ NoCall.step = "idle" /\ NoCall.outcome = "none"
    /\ NoCall.rejectedWith = {} /\ NoCall.sent = NoToken /\ ~NoCall.authRefreshAttempted
  <1> DEFINE c == NewCall("json")
  <1>1. c \in CallRecord /\ c.outcome = "none" /\ c.rejectedWith = {} /\ c.sent = NoToken
        /\ ~c.authRefreshAttempted
    BY NewCallOK, NewCallFields DEF RequestKinds
  <1>2. NoCall = [c EXCEPT !.step = "idle"]
    BY DEF NoCall
  <1> HIDE DEF c
  <1> QED BY <1>1, <1>2 DEF CallRecord

LEMMA Fields ==
    ASSUME call \in [Callers -> CallRecord], NEW g \in Callers
    PROVE  /\ AskToken(g) => call'[g].step = "token" /\ SameTokens(call[g], call'[g])
                             /\ call'[g].sent = call[g].sent
           /\ MintRefused(g) => call'[g].step = "denied" /\ SameTokens(call[g], call'[g])
                                /\ call'[g].sent = call[g].sent
           /\ \A t \in Tokens : SendWith(g, t) =>
                 call'[g].step = "wire" /\ SameTokens(call[g], call'[g]) /\ call'[g].sent = t
           /\ Redirect(g) => call'[g].step = "wire" /\ SameTokens(call[g], call'[g])
                             /\ call'[g].sent = NoToken
           /\ RetryTransient(g) => call'[g].step = "headers" /\ SameTokens(call[g], call'[g])
                                   /\ call'[g].sent = call[g].sent
  <1>1. call[g] \in CallRecord
    OBVIOUS
  <1>2. AskToken(g) => call'[g].step = "token" /\ SameTokens(call[g], call'[g])
                             /\ call'[g].sent = call[g].sent
    BY <1>1 DEF AskToken, SameTokens, CallRecord
  <1>6. MintRefused(g) => call'[g].step = "denied" /\ SameTokens(call[g], call'[g])
                          /\ call'[g].sent = call[g].sent
    BY <1>1 DEF MintRefused, SameTokens, CallRecord
  <1>3. ASSUME NEW t \in Tokens, SendWith(g, t)
        PROVE  call'[g].step = "wire" /\ SameTokens(call[g], call'[g]) /\ call'[g].sent = t
    BY <1>1, <1>3 DEF SendWith, SameTokens, CallRecord
  <1>4. Redirect(g) => call'[g].step = "wire" /\ SameTokens(call[g], call'[g])
                       /\ call'[g].sent = NoToken
    <2>1. NoToken \in Tokens
      BY MintsAssumption DEF Tokens, NoToken, SeedToken
    <2> QED BY <1>1, <2>1 DEF Redirect, At, SameTokens, CallRecord
  <1>5. RetryTransient(g) => call'[g].step = "headers" /\ SameTokens(call[g], call'[g])
                                   /\ call'[g].sent = call[g].sent
    BY <1>1 DEF RetryTransient, SameTokens, CallRecord
  <1> QED BY <1>2, <1>3, <1>4, <1>5, <1>6

LEMMA AnswerFields ==
    ASSUME call \in [Callers -> CallRecord], NEW g \in Callers,
           NEW reply \in Replies, Answer(g, reply)
    PROVE  /\ call'[g].step = "answered" /\ call'[g].reply = reply
           /\ call'[g].kind = call[g].kind /\ call'[g].sent = call[g].sent
           /\ call'[g].outcome = call[g].outcome
           /\ call'[g].authRefreshAttempted = call[g].authRefreshAttempted
           /\ call'[g].rejectedWith = call[g].rejectedWith \cup Rejects(g, reply)
  <1> DEFINE sum == call[g].applied + (IF MayHaveApplied(reply) THEN 1 ELSE 0)
             told == call[g].rejectedWith \cup Rejects(g, reply)
             read == (call[g].kind = "upload")
  <1>1. call[g] \in CallRecord
    OBVIOUS
  <1>2. call' = [call EXCEPT ![g].step = "answered", ![g].reply = reply, ![g].drained = read,
                            ![g].applied = sum, ![g].rejectedWith = told]
    BY DEF Answer
  <1> HIDE DEF sum, told, read
  <1> QED BY <1>1, <1>2 DEF CallRecord, told

\* What goes out carries the token the source returned, the static one, or none.
LEMMA SentToken ==
    ASSUME NEW g \in Callers, Send(g)
    PROVE  \/ At(g, "token") /\ pc[g] = "idle" /\ tok[g] # NoToken /\ SendWith(g, tok[g])
           \/ At(g, "headers") /\ call[g].kind = "public" /\ SendWith(g, NoToken)
           \/ At(g, "headers") /\ call[g].kind # "public" /\ static /\ SendWith(g, SeedToken)
  <1> QED BY DEF Send, NeedsToken

LEMMA CarriedStep ==
    ASSUME ClientTypeOK, Counted, CarriesToken, [ClientNext]_clientVars
    PROVE  CarriesToken'
  <1>1. call \in [Callers -> CallRecord]
    BY DEF ClientTypeOK, CallRecord
  <1>2. ASSUME NEW g \in Callers, CallKept(g), TokenCarried(call'[g])
        PROVE  CarriesToken'
    BY <1>2 DEF CarriesToken, CallKept
  <1>3. CASE call' = call
    BY <1>3 DEF CarriesToken
  <1>4. ASSUME NEW g \in Callers, NEW kind \in Kinds, Begin(g, kind)
        PROVE  CarriesToken'
    <2>1. NewCall(kind) \in CallRecord /\ call' = [call EXCEPT ![g] = NewCall(kind)]
      BY <1>4, KindsAssumption, NewCallOK DEF Begin
    <2>2. TokenCarried(call'[g])
      BY <1>1, <2>1, KindsAssumption, NewCallFields DEF TokenCarried
    <2>3. CallKept(g)
      BY <1>1, <2>1, KindsAssumption, NewCallOK DEF CallKept
    <2> QED BY <1>2, <2>2, <2>3
  <1>5. ASSUME NEW g \in Callers, Exchange(g)
        PROVE  CarriesToken'
    <2> USE DEF At
    <2>1. TokenCarried(call[g]) /\ CallKept(g)
      BY <1>5, ExchangeKeeps DEF CarriesToken
    <2>2. CASE Redirect(g)
      <3>1. /\ call'[g].step = "wire" /\ SameTokens(call[g], call'[g]) /\ call'[g].sent = NoToken
            /\ call[g].step = "wire" /\ Redirects
        BY <1>1, <2>2, Fields DEF Redirect
      <3>2. TokenCarried(call'[g])
        BY <2>1, <3>1 DEF TokenCarried, SameTokens
      <3> QED BY <1>2, <2>1, <3>2
    <2>3. ASSUME NEW reply \in Replies, Answer(g, reply)
          PROVE  TokenCarried(call'[g])
      <3>1. /\ call'[g].step = "answered" /\ call'[g].reply = reply
            /\ call'[g].kind = call[g].kind /\ call'[g].sent = call[g].sent
            /\ call'[g].outcome = call[g].outcome
            /\ call'[g].rejectedWith = call[g].rejectedWith \cup Rejects(g, reply)
        BY <1>1, <2>3, AnswerFields
      <3>2. call[g].step = "wire"
        BY <2>3 DEF Answer
      <3> QED BY <2>1, <3>1, <3>2 DEF TokenCarried, Rejects
    <2> QED BY <1>2, <1>5, <2>1, <2>2, <2>3 DEF Exchange
  <1>6. ASSUME NEW g \in Callers, LoopStep(g)
        PROVE  CarriesToken'
    <2> USE DEF At
    <2>1. TokenCarried(call[g]) /\ CallKept(g)
      BY <1>6, LoopKeeps DEF CarriesToken
    <2> SUFFICES TokenCarried(call'[g])
      BY <1>2, <2>1
    <2>2. NoToken \in Tokens /\ SeedToken \in Tokens /\ tok[g] \in Tokens /\ SeedToken # NoToken
      BY MintsAssumption DEF ClientTypeOK, TypeOK, Tokens, NoToken, SeedToken
    <2>3. CASE AskToken(g)
      <3>1. call'[g].step = "token" /\ SameTokens(call[g], call'[g]) /\ call[g].step = "headers"
        BY <1>1, <2>3, Fields DEF AskToken
      <3> QED BY <2>1, <3>1 DEF TokenCarried, SameTokens
    <2>11. CASE MintRefused(g)
      <3>1. call'[g].step = "denied" /\ SameTokens(call[g], call'[g]) /\ call[g].step = "token"
        BY <1>1, <2>11, Fields DEF MintRefused
      <3> QED BY <2>1, <3>1 DEF TokenCarried, SameTokens
    <2>4. CASE Send(g)
      <3>1. PICK t \in Tokens :
               /\ SendWith(g, t)
               /\ call[g].step \in {"headers", "token"}
               /\ t # NoToken \/ call[g].kind = "public"
        BY <2>2, <2>4, SentToken
      <3>2. call'[g].step = "wire" /\ SameTokens(call[g], call'[g]) /\ call'[g].sent = t
        BY <1>1, <3>1, Fields
      <3> QED BY <2>1, <3>1, <3>2 DEF TokenCarried, SameTokens
    <2>5. ASSUME NEW outcome \in Outcomes, Return(g, outcome),
                 call[g].step \in {"token", "denied", "wait", "answered"}
          PROVE  TokenCarried(call'[g])
      <3>1. call'[g].step = "return" /\ SameHistory(call[g], call'[g])
        BY <1>1, <2>5, Returns
      <3> QED BY <2>1, <2>5, <3>1 DEF TokenCarried, SameHistory
    <2>6. CASE TokenFails(g) \/ Succeed(g) \/ FailUnauthorized(g) \/ CancelWait(g)
               \/ Fail(g) \/ FailUnread(g)
      BY <2>5, <2>6 DEF TokenFails, Succeed, FailUnauthorized, CancelWait, Fail, FailUnread, Outcomes
    <2>7. CASE RetryUnauthorized(g)
      <3>1. /\ call'[g].step = "headers" /\ SameHistory(call[g], call'[g])
            /\ call'[g].outcome = call[g].outcome
        BY <1>1, <2>7, Retries DEF RetryUnauthorized
      <3>2. call[g].step = "answered"
        BY <2>7 DEF RetryUnauthorized
      <3> QED BY <2>1, <3>1, <3>2 DEF TokenCarried, SameHistory
    <2>8. CASE Backoff(g)
      <3>1. /\ call'[g].step = "wait" /\ SameHistory(call[g], call'[g])
            /\ call'[g].outcome = call[g].outcome
        BY <1>1, <2>8, Waits DEF Backoff
      <3>2. call[g].step = "answered"
        BY <2>8 DEF Backoff
      <3> QED BY <2>1, <3>1, <3>2 DEF TokenCarried, SameHistory
    <2>9. CASE RetryTransient(g)
      <3>1. call'[g].step = "headers" /\ SameTokens(call[g], call'[g]) /\ call[g].step = "wait"
        BY <1>1, <2>9, Fields DEF RetryTransient
      <3> QED BY <2>1, <3>1 DEF TokenCarried, SameTokens
    <2>10. CASE End(g)
      <3>1. call'[g] = NoCall
        BY <1>1, <2>10 DEF End
      <3> QED BY <3>1, NoCallFields DEF TokenCarried
    <2> QED BY <1>6, <2>3, <2>4, <2>6, <2>7, <2>8, <2>9, <2>10, <2>11 DEF LoopStep
  <1> QED BY <1>3, <1>4, <1>5, <1>6
          DEF ClientNext, ClientEnvironment, SourceStep, clientVars

LEMMA CallTokens ==
    ASSUME ClientTypeOK, NEW g \in Callers,
           (\E kind \in Kinds : Begin(g, kind)) \/ LoopStep(g) \/ Exchange(g)
    PROVE  /\ \/ call'[g].sent \in {call[g].sent, NoToken, SeedToken}
              \/ pc[g] = "idle" /\ call'[g].sent = tok[g]
           /\ call'[g].rejectedWith \subseteq call[g].rejectedWith \cup {call[g].sent}
  <1> DEFINE Goal ==
        /\ \/ call'[g].sent \in {call[g].sent, NoToken, SeedToken}
           \/ pc[g] = "idle" /\ call'[g].sent = tok[g]
        /\ call'[g].rejectedWith \subseteq call[g].rejectedWith \cup {call[g].sent}
  <1>1. call \in [Callers -> CallRecord]
    BY DEF ClientTypeOK, CallRecord
  <1>2. NoToken \in Tokens /\ SeedToken \in Tokens /\ tok[g] \in Tokens
    BY MintsAssumption DEF ClientTypeOK, TypeOK, Tokens, NoToken, SeedToken
  <1>3. CASE \E kind \in Kinds : Begin(g, kind)
    <2>1. PICK kind \in RequestKinds : call'[g] = NewCall(kind)
      BY <1>1, <1>3, KindsAssumption DEF Begin
    <2> QED BY <2>1, NewCallFields
  <1>4. CASE AskToken(g) \/ MintRefused(g) \/ RetryTransient(g)
    BY <1>1, <1>4, Fields DEF SameTokens
  <1>5. CASE Send(g)
    <2>1. PICK t \in Tokens : /\ SendWith(g, t)
                              /\ t \in {NoToken, SeedToken} \/ (pc[g] = "idle" /\ t = tok[g])
      BY <1>2, <1>5, SentToken
    <2>2. SameTokens(call[g], call'[g]) /\ call'[g].sent = t
      BY <1>1, <2>1, Fields
    <2> QED BY <2>1, <2>2 DEF SameTokens
  <1>6. ASSUME NEW outcome \in Outcomes, Return(g, outcome)
        PROVE  Goal
    BY <1>1, <1>6, Returns DEF SameHistory
  <1>7. CASE TokenFails(g) \/ Succeed(g) \/ FailUnauthorized(g) \/ CancelWait(g)
             \/ Fail(g) \/ FailUnread(g)
    <2>1. \E outcome \in Outcomes : Return(g, outcome)
      BY <1>7 DEF TokenFails, Succeed, FailUnauthorized, CancelWait, Fail, FailUnread, Outcomes
    <2> QED BY <1>6, <2>1
  <1>8. CASE RetryUnauthorized(g)
    <2>1. call'[g].sent = NoToken /\ SameHistory(call[g], call'[g])
      BY <1>1, <1>8, Retries DEF RetryUnauthorized
    <2> QED BY <2>1 DEF SameHistory
  <1>9. CASE Backoff(g)
    <2>1. call'[g].sent = NoToken /\ SameHistory(call[g], call'[g])
      BY <1>1, <1>9, Waits DEF Backoff
    <2> QED BY <2>1 DEF SameHistory
  <1>10. CASE End(g)
    <2>1. call'[g] = NoCall
      BY <1>1, <1>10 DEF End
    <2> QED BY <2>1, NoCallFields
  <1>11. CASE Exchange(g)
    <2>1. CASE Redirect(g)
      BY <1>1, <2>1, Fields DEF SameTokens
    <2>2. ASSUME NEW reply \in Replies, Answer(g, reply)
          PROVE  Goal
      <3>1. /\ call'[g].sent = call[g].sent
            /\ call'[g].rejectedWith = call[g].rejectedWith \cup Rejects(g, reply)
        BY <1>1, <2>2, AnswerFields
      <3> QED BY <3>1 DEF Rejects
    <2> QED BY <1>11, <2>1, <2>2 DEF Exchange
  <1> QED BY <1>3, <1>4, <1>5, <1>7, <1>8, <1>9, <1>10, <1>11 DEF LoopStep

LEMMA KnownStep ==
    ASSUME SourceInv, ClientTypeOK, Counted, SourceKnown, CallsKnown, [ClientNext]_clientVars
    PROVE  SourceKnown' /\ CallsKnown'
  <1>1. [Next]_vars
    BY SourceSteps
  <1>2. SourceKnown'
    BY <1>1, SourceKnownStep
  <1>3. \A t \in Tokens : Known(t) => Known(t)'
    BY <1>1, KnownStays
  <1>4. call \in [Callers -> CallRecord] /\ NoToken \in Tokens /\ SeedToken \in Tokens
        /\ tok \in [Callers -> Tokens]
    <2>1. call \in [Callers -> CallRecord]
      BY DEF ClientTypeOK, CallRecord
    <2>2. tok \in [Callers -> Tokens]
      BY DEF ClientTypeOK, TypeOK
    <2> QED BY <2>1, <2>2, MintsAssumption DEF Tokens, NoToken, SeedToken
  <1>5. \A h \in Callers : call[h].sent \in Tokens /\ call[h].rejectedWith \subseteq Tokens
    BY <1>4 DEF CallRecord
  <1>6. ASSUME NEW h \in Callers, call'[h] = call[h]
        PROVE  (Known(call[h].sent) /\ \A t \in call[h].rejectedWith : Known(t))'
    <2>1. Known(call[h].sent) /\ \A t \in call[h].rejectedWith : Known(t)
      BY DEF CallsKnown
    <2> QED BY <1>3, <1>5, <1>6, <2>1 DEF Known
  <1>7. CASE call' = call
    <2>1. \A h \in Callers : call'[h] = call[h]
      BY <1>7
    <2> QED BY <1>2, <1>6, <2>1 DEF CallsKnown
  <1>8. ASSUME NEW g \in Callers, CallKept(g),
               (\E kind \in Kinds : Begin(g, kind)) \/ LoopStep(g) \/ Exchange(g)
        PROVE  CallsKnown'
    <2>1. /\ \/ call'[g].sent \in {call[g].sent, NoToken, SeedToken}
             \/ pc[g] = "idle" /\ call'[g].sent = tok[g]
          /\ call'[g].rejectedWith \subseteq call[g].rejectedWith \cup {call[g].sent}
      BY <1>8, CallTokens
    <2>2. Known(call[g].sent) /\ \A t \in call[g].rejectedWith : Known(t)
      BY DEF CallsKnown
    <2>3. Known(NoToken) /\ Known(SeedToken)
      BY OldKnown
    <2>4. pc[g] = "idle" => Known(tok[g])
      BY DEF SourceKnown
    <2>5. /\ Known(call'[g].sent) /\ call'[g].sent \in Tokens
          /\ \A t \in call'[g].rejectedWith : Known(t) /\ t \in Tokens
      BY <1>4, <1>5, <2>1, <2>2, <2>3, <2>4
    <2>6. (Known(call[g].sent) /\ \A t \in call[g].rejectedWith : Known(t))'
      BY <1>3, <2>5 DEF Known
    <2>7. \A h \in Callers \ {g} : call'[h] = call[h]
      BY <1>8 DEF CallKept
    <2> QED BY <1>6, <2>6, <2>7 DEF CallsKnown
  <1>9. ASSUME NEW g \in Callers, (\E kind \in Kinds : Begin(g, kind)) \/ LoopStep(g) \/ Exchange(g)
        PROVE  CallKept(g)
    <2>1. ASSUME NEW kind \in Kinds, Begin(g, kind)
          PROVE  CallKept(g)
      BY <1>4, <2>1, KindsAssumption, NewCallOK DEF Begin, CallKept
    <2> QED BY <1>9, <2>1, LoopKeeps, ExchangeKeeps
  <1>10. call' = call \/ \E g \in Callers :
                            (\E kind \in Kinds : Begin(g, kind)) \/ LoopStep(g) \/ Exchange(g)
    BY DEF ClientNext, ClientEnvironment, SourceStep, clientVars
  <1> QED BY <1>2, <1>7, <1>8, <1>9, <1>10

\* A token that was known and is not current never becomes current again, and
\* the source never hands it out.
LEMMA SourceApart ==
    ASSUME SourceInv, SourceKnown, [Next]_vars,
           NEW t \in Tokens \ {NoToken}, Known(t), current # t
    PROVE  current' # t /\ \A h \in Callers : tok[h] # t => tok'[h] # t
  <1> USE DEF SourceInv, TypeOK, Goto
  <1>1. CASE Expire \/ UNCHANGED vars
    BY <1>1 DEF Expire, vars, sourceVars
  <1>2. ASSUME NEW g \in Callers, Act(g)
        PROVE  current' # t /\ \A h \in Callers : tok[h] # t => tok'[h] # t
    <2>1. CASE TokenFast(g) \/ TokenSlow(g) \/ AcquireSem(g) \/ GiveUp(g)
      BY <2>1 DEF TokenFast, TokenSlow, AcquireSem, GiveUp
    <2>2. CASE RecheckHit(g) \/ RecheckMiss(g) \/ RefreshFails(g) \/ Release(g)
      BY <2>2 DEF RecheckHit, RecheckMiss, RefreshFails, Release
    <2>3. CASE Mint(g)
      BY <2>3 DEF Mint, Known, Tokens, SeedToken
    <2>4. CASE StoreToken(g)
      BY <2>4 DEF StoreToken, Known
    <2>5. CASE Clear(g)
      BY <2>5 DEF Clear
    <2>6. CASE CbLock(g) \/ CbCheck(g) \/ CbRun(g) \/ CbUnlock(g)
      BY <2>6 DEF CbLock, CbCheck, CbRun, CbUnlock
    <2>7. CASE Cancel(g) \/ NewContext(g)
      BY <2>7 DEF Cancel, NewContext, sourceVars
    <2> QED BY <1>2, <2>1, <2>2, <2>3, <2>4, <2>5, <2>6, <2>7 DEF Act
  <1> QED BY <1>1, <1>2, Steps

LEMMA SeedHeldStep ==
    ASSUME SourceInv, SeedHeld, [Next]_vars
    PROVE  SeedHeld'
  <1> USE DEF SourceInv, TypeOK, SeedHeld, Goto
  <1>1. CASE Expire \/ UNCHANGED vars
    BY <1>1 DEF Expire, vars, sourceVars
  <1>2. ASSUME NEW g \in Callers, Act(g)
        PROVE  SeedHeld'
    <2>1. CASE TokenFast(g) \/ TokenSlow(g) \/ AcquireSem(g) \/ GiveUp(g)
      BY <2>1 DEF TokenFast, TokenSlow, AcquireSem, GiveUp
    <2>2. CASE RecheckHit(g) \/ RecheckMiss(g) \/ RefreshFails(g) \/ Mint(g)
      BY <2>2 DEF RecheckHit, RecheckMiss, RefreshFails, Mint
    <2>3. CASE StoreToken(g)
      <3>1. current' # SeedToken
        BY <2>3 DEF StoreToken, ReportsDue, SeedToken
      <3> QED BY <3>1
    <2>4. CASE Release(g)
      BY <2>4 DEF Release
    <2>5. CASE Clear(g)
      BY <2>5 DEF Clear, NoToken, SeedToken
    <2>6. CASE CbLock(g) \/ CbCheck(g) \/ CbRun(g) \/ CbUnlock(g)
      BY <2>6 DEF CbLock, CbCheck, CbRun, CbUnlock
    <2>7. CASE Cancel(g) \/ NewContext(g)
      BY <2>7 DEF Cancel, NewContext, sourceVars
    <2> QED BY <1>2, <2>1, <2>2, <2>3, <2>4, <2>5, <2>6, <2>7 DEF Act
  <1> QED BY <1>1, <1>2, Steps

\* A call that takes no step of its own.
LEMMA ApartStays ==
    ASSUME SourceInv, ClientTypeOK, SourceKnown, CallsKnown, CarriesToken, RejectedApart,
           [Next]_vars, NEW h \in Callers, call'[h] = call[h]
    PROVE  Apart(h)'
  <1>1. call[h] \in CallRecord
    BY DEF ClientTypeOK, CallRecord
  <1>2. \A t \in call[h].rejectedWith : t \in Tokens \ {NoToken} /\ Known(t)
    BY <1>1 DEF CallRecord, CallsKnown, CarriesToken, TokenCarried
  <1>3. Apart(h)
    BY DEF RejectedApart
  <1>4. GoesOn(call[h]) \/ Settled(call[h]) => current' \notin call[h].rejectedWith
    BY <1>2, <1>3, SourceApart DEF Apart, Settled
  <1>5. At(h, "token") => GoesOn(call[h])
    BY DEF At, GoesOn
  <1>6. At(h, "token") => tok'[h] \notin call[h].rejectedWith
    BY <1>2, <1>3, <1>5, SourceApart DEF Apart, Settled
  <1> QED BY <1>3, <1>4, <1>6 DEF Apart, Settled, At, GoesOn

ActiveKept(g) == Apart(g)' /\ AsManyRejected(call'[g])

LEMMA LoopApart ==
    ASSUME SourceInv, ClientTypeOK, Counted, SourceKnown, CallsKnown, CarriesToken,
           RejectedApart, RejectedCounted, ~static, ~Redirects,
           NEW g \in Callers, LoopStep(g)
    PROVE  ActiveKept(g)
  <1> USE DEF At
  <1>1. call \in [Callers -> CallRecord] /\ call[g] \in CallRecord
    BY DEF ClientTypeOK, CallRecord
  <1>2. NoToken \in Tokens /\ tok \in [Callers -> Tokens]
    BY MintsAssumption DEF ClientTypeOK, TypeOK, Tokens, NoToken, SeedToken
  <1>3. Apart(g) /\ AsManyRejected(call[g]) /\ TokenCarried(call[g])
    BY DEF RejectedApart, RejectedCounted, CarriesToken
  <1>4. CASE AskToken(g)
    <2>1. call'[g].step = "token" /\ SameTokens(call[g], call'[g]) /\ call[g].step = "headers"
      BY <1>1, <1>4, Fields DEF AskToken
    <2>2. current' = current /\ (tok'[g] = current \/ tok'[g] = NoToken)
      BY <1>2, <1>4 DEF AskToken, TokenCall, TokenFast, TokenSlow
    <2>3. Apart(g)'
      BY <1>3, <2>1, <2>2 DEF Apart, Settled, GoesOn, SameTokens, TokenCarried
    <2>4. AsManyRejected(call'[g])
      BY <1>3, <2>1 DEF AsManyRejected, GoesOn, SameTokens
    <2> QED BY <2>3, <2>4 DEF ActiveKept
  <1>13. CASE MintRefused(g)
    <2>1. call'[g].step = "denied" /\ SameTokens(call[g], call'[g]) /\ call[g].step = "token"
      BY <1>1, <1>13, Fields DEF MintRefused
    <2>2. current' = current
      BY <1>13 DEF MintRefused, RefreshFails
    <2>3. Apart(g)'
      BY <1>3, <2>1, <2>2 DEF Apart, Settled, GoesOn, SameTokens, TokenCarried
    <2>4. AsManyRejected(call'[g])
      BY <1>3, <2>1 DEF AsManyRejected, GoesOn, SameTokens
    <2> QED BY <2>3, <2>4 DEF ActiveKept
  <1>5. CASE Send(g)
    <2>1. /\ call'[g].step = "wire" /\ SameTokens(call[g], call'[g])
          /\ \/ call[g].step = "token" /\ call'[g].sent = tok[g]
             \/ call[g].step = "headers" /\ call'[g].sent = NoToken
      BY <1>1, <1>2, <1>5, Fields, SentToken
    <2>2. current' = current
      BY <1>5 DEF Send, SendWith, vars, sourceVars
    <2>3. Apart(g)'
      BY <1>3, <2>1, <2>2 DEF Apart, Settled, GoesOn, SameTokens, TokenCarried
    <2>4. AsManyRejected(call'[g])
      BY <1>3, <2>1 DEF AsManyRejected, GoesOn, SameTokens
    <2> QED BY <2>3, <2>4 DEF ActiveKept
  <1>6. ASSUME NEW outcome \in Outcomes \ {"authError"}, Return(g, outcome),
               outcome = "unread" \/ GoesOn(call[g]), UNCHANGED vars
        PROVE  ActiveKept(g)
    <2>1. call'[g].step = "return" /\ call'[g].outcome = outcome /\ SameHistory(call[g], call'[g])
      BY <1>1, <1>6, Returns
    <2>2. outcome # "unread" => current' \notin call'[g].rejectedWith
      BY <1>3, <1>6, <2>1 DEF Apart, SameHistory, vars, sourceVars
    <2>3. outcome = "mintRefused" /\ call[g].kind = "json" =>
             \E t \in Tokens : call'[g].rejectedWith \subseteq {t}
      BY <1>2, <1>3, <1>6, <2>1 DEF AsManyRejected, SameHistory
    <2>4. AsManyRejected(call'[g])
      BY <1>6, <2>1, <2>3 DEF AsManyRejected, GoesOn, SameHistory
    <2>5. Apart(g)'
      BY <1>6, <2>1, <2>2 DEF Apart, Settled, GoesOn
    <2> QED BY <2>4, <2>5 DEF ActiveKept
  <1>7. CASE TokenFails(g) \/ Succeed(g) \/ CancelWait(g) \/ Fail(g) \/ FailUnread(g)
    <2>1. /\ \E outcome \in Outcomes \ {"authError"} :
                Return(g, outcome) /\ (outcome = "unread" \/ GoesOn(call[g]))
          /\ UNCHANGED vars
      BY <1>7 DEF TokenFails, Succeed, CancelWait, Fail, FailUnread, Outcomes, GoesOn
    <2> QED BY <1>6, <2>1
  <1>8. CASE FailUnauthorized(g)
    <2>1. call'[g].step = "return" /\ call'[g].outcome = "authError" /\ SameHistory(call[g], call'[g])
      BY <1>1, <1>8, Returns DEF FailUnauthorized, Outcomes
    <2>2. /\ call[g].step = "answered" /\ call[g].reply = "unauthorized"
          /\ call[g].kind = "upload" \/ call[g].authRefreshAttempted
          /\ call[g].kind = "upload" => DropRejected(g)
      BY <1>8 DEF FailUnauthorized
    <2>3. call[g].sent \in Tokens
      BY <1>1 DEF CallRecord
    <2>4. AsManyRejected(call'[g])
      BY <1>3, <2>1, <2>2, <2>3 DEF AsManyRejected, GoesOn, SameHistory
    <2>5. call[g].kind = "upload" =>
             call[g].rejectedWith \subseteq {call[g].sent} /\ NoToken \notin call[g].rejectedWith
      BY <1>3, <2>2 DEF AsManyRejected, TokenCarried, CallCounted, Counted
    <2>6. call[g].kind = "upload" => current' \notin call[g].rejectedWith
      BY <2>2, <2>5 DEF DropRejected, Invalidate, InvalidateIfCurrent, Clear, vars, sourceVars
    <2>7. Apart(g)'
      BY <2>1, <2>6 DEF Apart, Settled, GoesOn, SameHistory
    <2> QED BY <2>4, <2>7 DEF ActiveKept
  <1>9. CASE RetryUnauthorized(g)
    <2>1. call'[g].step = "headers" /\ call'[g].authRefreshAttempted /\ SameHistory(call[g], call'[g])
      BY <1>1, <1>9, Retries DEF RetryUnauthorized
    <2>2. /\ call[g].step = "answered" /\ call[g].reply = "unauthorized"
          /\ ~call[g].authRefreshAttempted /\ DropRejected(g)
      BY <1>9 DEF RetryUnauthorized
    <2>3. call[g].rejectedWith \subseteq {call[g].sent} /\ NoToken \notin call[g].rejectedWith
      BY <1>3, <2>2 DEF AsManyRejected, TokenCarried
    <2>4. current' \notin call[g].rejectedWith
      BY <2>2, <2>3 DEF DropRejected, Invalidate, InvalidateIfCurrent, Clear, vars, sourceVars
    <2>5. call[g].kind = "json" => call[g].rejectedWith = {call[g].sent} /\ call[g].sent \in Tokens
      BY <1>1, <1>3, <2>2, <2>3 DEF TokenCarried, CallRecord
    <2>6. Apart(g)'
      BY <2>1, <2>4 DEF Apart, Settled, GoesOn, SameHistory
    <2>7. AsManyRejected(call'[g])
      BY <2>1, <2>5 DEF AsManyRejected, GoesOn, SameHistory
    <2> QED BY <2>6, <2>7 DEF ActiveKept
  <1>10. CASE Backoff(g)
    <2>1. /\ call'[g].step = "wait" /\ SameHistory(call[g], call'[g])
          /\ call'[g].authRefreshAttempted = call[g].authRefreshAttempted
      BY <1>1, <1>10, Waits DEF Backoff
    <2>2. GoesOn(call[g]) /\ current' = current
      BY <1>10 DEF Backoff, GoesOn, vars, sourceVars
    <2>3. Apart(g)'
      BY <1>3, <2>1, <2>2 DEF Apart, Settled, SameHistory, GoesOn
    <2>4. AsManyRejected(call'[g])
      BY <1>3, <2>1, <2>2 DEF AsManyRejected, SameHistory, GoesOn
    <2> QED BY <2>3, <2>4 DEF ActiveKept
  <1>11. CASE RetryTransient(g)
    <2>1. call'[g].step = "headers" /\ SameTokens(call[g], call'[g]) /\ call[g].step = "wait"
      BY <1>1, <1>11, Fields DEF RetryTransient
    <2>2. current' = current
      BY <1>11 DEF RetryTransient, vars, sourceVars
    <2>3. Apart(g)'
      BY <1>3, <2>1, <2>2 DEF Apart, Settled, SameTokens, GoesOn
    <2>4. AsManyRejected(call'[g])
      BY <1>3, <2>1 DEF AsManyRejected, SameTokens, GoesOn
    <2> QED BY <2>3, <2>4 DEF ActiveKept
  <1>12. CASE End(g)
    <2>1. call'[g] = NoCall
      BY <1>1, <1>12 DEF End
    <2>2. Apart(g)'
      BY <2>1, NoCallFields DEF Apart, Settled, GoesOn
    <2>3. AsManyRejected(call'[g])
      BY <2>1, NoCallFields DEF AsManyRejected, GoesOn
    <2> QED BY <2>2, <2>3 DEF ActiveKept
  <1> QED BY <1>4, <1>5, <1>7, <1>8, <1>9, <1>10, <1>11, <1>12, <1>13 DEF LoopStep

LEMMA AnswerApart ==
    ASSUME SourceInv, ClientTypeOK, Counted, SourceKnown, CallsKnown, CarriesToken,
           RejectedApart, RejectedCounted, ~static, ~Redirects,
           NEW g \in Callers, Exchange(g)
    PROVE  ActiveKept(g)
  <1> USE DEF At
  <1>1. call \in [Callers -> CallRecord] /\ call[g] \in CallRecord
    BY DEF ClientTypeOK, CallRecord
  <1>2. Apart(g) /\ AsManyRejected(call[g]) /\ TokenCarried(call[g])
    BY DEF RejectedApart, RejectedCounted, CarriesToken
  <1>3. PICK reply \in Replies : Answer(g, reply)
    BY DEF Exchange, Redirect
  <1>4. /\ call'[g].step = "answered" /\ call'[g].reply = reply
        /\ call'[g].kind = call[g].kind /\ call'[g].sent = call[g].sent
        /\ call'[g].outcome = call[g].outcome
        /\ call'[g].authRefreshAttempted = call[g].authRefreshAttempted
        /\ call'[g].rejectedWith = call[g].rejectedWith \cup Rejects(g, reply)
    BY <1>1, <1>3, AnswerFields
  <1>5. call[g].step = "wire" /\ current' = current
    BY <1>3 DEF Answer, vars, sourceVars
  <1>6. CASE reply \notin {"unauthorized", "unread"}
    <2>1. call'[g].rejectedWith = call[g].rejectedWith
      BY <1>4, <1>6 DEF Rejects
    <2>2. Apart(g)'
      BY <1>2, <1>4, <1>5, <2>1 DEF Apart, Settled, GoesOn
    <2>3. AsManyRejected(call'[g])
      BY <1>2, <1>4, <1>5, <1>6, <2>1 DEF AsManyRejected, GoesOn
    <2> QED BY <2>2, <2>3 DEF ActiveKept
  <1>7. CASE reply \in {"unauthorized", "unread"}
    <2>1. call'[g].rejectedWith = call[g].rejectedWith \cup ({call[g].sent} \ {NoToken})
      BY <1>4, <1>7 DEF Rejects
    <2>2. Apart(g)'
      BY <1>4, <1>7 DEF Apart, Settled, GoesOn
    <2>3. ~call[g].authRefreshAttempted => call'[g].rejectedWith \subseteq {call[g].sent}
      BY <1>2, <1>5, <2>1 DEF AsManyRejected, GoesOn
    <2>4. call[g].authRefreshAttempted /\ call[g].kind = "json" =>
             \E t \in Tokens : t # call[g].sent /\ call'[g].rejectedWith = {t, call[g].sent}
      <3>1. call[g].kind = "json" => call[g].sent # NoToken
        BY <1>2, <1>5 DEF TokenCarried
      <3>2. call[g].sent \notin call[g].rejectedWith
        BY <1>2, <1>5 DEF Apart, Settled
      <3> QED BY <1>2, <1>5, <2>1, <3>1, <3>2 DEF AsManyRejected, GoesOn
    <2>5. AsManyRejected(call'[g])
      BY <1>4, <1>7, <2>3, <2>4 DEF AsManyRejected, GoesOn
    <2> QED BY <2>2, <2>5 DEF ActiveKept
  <1> QED BY <1>6, <1>7

LEMMA ApartStep ==
    ASSUME SourceInv, ClientTypeOK, Counted, SourceKnown, CallsKnown, CarriesToken,
           RejectedApart, RejectedCounted, ~static, ~Redirects, [ClientNext]_clientVars
    PROVE  RejectedApart' /\ RejectedCounted'
  <1>1. [Next]_vars
    BY SourceSteps
  <1>2. call \in [Callers -> CallRecord]
    BY DEF ClientTypeOK, CallRecord
  <1>3. ASSUME NEW h \in Callers, call'[h] = call[h]
        PROVE  ActiveKept(h)
    <2>1. Apart(h)'
      BY <1>1, <1>3, ApartStays
    <2>2. AsManyRejected(call'[h])
      BY <1>3 DEF RejectedCounted
    <2> QED BY <2>1, <2>2 DEF ActiveKept
  <1>4. SUFFICES \A h \in Callers : ActiveKept(h)
    BY DEF ActiveKept, RejectedApart, RejectedCounted
  <1>5. CASE call' = call
    <2>1. \A h \in Callers : call'[h] = call[h]
      BY <1>5
    <2> QED BY <1>3, <2>1
  <1>6. ASSUME NEW g \in Callers, CallKept(g), ActiveKept(g)
        PROVE  \A h \in Callers : ActiveKept(h)
    <2>1. \A h \in Callers \ {g} : call'[h] = call[h]
      BY <1>6 DEF CallKept
    <2> QED BY <1>3, <1>6, <2>1
  <1>7. ASSUME NEW g \in Callers, NEW kind \in Kinds, Begin(g, kind)
        PROVE  CallKept(g) /\ ActiveKept(g)
    <2>1. kind \in RequestKinds /\ call' = [call EXCEPT ![g] = NewCall(kind)]
      BY <1>7, KindsAssumption DEF Begin
    <2>2. CallKept(g) /\ call'[g] = NewCall(kind)
      BY <1>2, <2>1, NewCallOK DEF CallKept
    <2>3. Apart(g)'
      BY <2>1, <2>2, NewCallFields DEF Apart, Settled, At
    <2>4. AsManyRejected(call'[g])
      BY <2>1, <2>2, NewCallFields DEF AsManyRejected
    <2> QED BY <2>2, <2>3, <2>4 DEF ActiveKept
  <1>8. ASSUME NEW g \in Callers, LoopStep(g) \/ Exchange(g)
        PROVE  CallKept(g) /\ ActiveKept(g)
    BY <1>8, LoopKeeps, ExchangeKeeps, LoopApart, AnswerApart
  <1> QED BY <1>5, <1>6, <1>7, <1>8
          DEF ClientNext, ClientEnvironment, SourceStep, clientVars

----------------------------------------------------------------------------
(* The invariant and what follows from it *)

LEMMA ClientInitInv == ClientInit => ClientInv
  <1> SUFFICES ASSUME ClientInit PROVE ClientInv
    OBVIOUS
  <1>1. SourceInv
    BY InitInv DEF ClientInit
  <1>2. call \in [Callers -> CallRecord] /\ \A g \in Callers : call[g] = NoCall
    BY NewCallOK DEF ClientInit
  <1>3. ClientTypeOK
    BY <1>1, <1>2 DEF ClientInit, ClientTypeOK, CallRecord, SourceInv
  <1>4. Counted
    BY <1>2, NewCallOK DEF Counted
  <1>5. SourceKnown
    <2>1. Known(current) /\ Known(NoToken)
      BY MintsAssumption DEF ClientInit, Init, Known, NoToken, SeedToken
    <2> QED BY <2>1 DEF ClientInit, Init, SourceKnown
  <1>6. CallsKnown
    BY <1>1, <1>2, NoCallFields, OldKnown DEF CallsKnown
  <1>7. CarriesToken
    BY <1>2, NoCallFields DEF CarriesToken, TokenCarried
  <1>8. RejectedApart
    BY <1>2, NoCallFields DEF RejectedApart, Apart, Settled, GoesOn, At
  <1>9. RejectedCounted
    BY <1>2, NoCallFields DEF RejectedCounted, AsManyRejected, GoesOn
  <1>10. SeedHeld
    BY DEF ClientInit, Init, SeedHeld, NoToken, SeedToken
  <1> QED BY <1>1, <1>3, <1>4, <1>5, <1>6, <1>7, <1>8, <1>9, <1>10 DEF ClientInv

LEMMA ClientInductive == ClientInv /\ [ClientNext]_clientVars => ClientInv'
  <1> SUFFICES ASSUME ClientInv, [ClientNext]_clientVars PROVE ClientInv'
    OBVIOUS
  <1>1. SourceInv' /\ ClientTypeOK' /\ Counted'
    BY CountedStep DEF ClientInv
  <1>2. SourceKnown' /\ CallsKnown'
    BY KnownStep DEF ClientInv
  <1>3. CarriesToken'
    BY CarriedStep DEF ClientInv
  <1>4. ~static /\ ~Redirects => RejectedApart' /\ RejectedCounted'
    BY ApartStep DEF ClientInv
  <1>5. SeedHeld'
    BY SourceSteps, SeedHeldStep DEF ClientInv
  <1> QED BY <1>1, <1>2, <1>3, <1>4, <1>5, StaticStays DEF ClientInv

\* Goroutines that share a Client keep the invariant of the loop and of the
\* token source, whatever the server answers and however many they are.
THEOREM ClientInvariant == ClientSpec => []ClientInv
  <1> QED BY ClientInitInv, ClientInductive, PTL DEF ClientSpec

\* The loop uses the token source only through its operations, so whatever
\* holds of every behaviour of the source holds of the source under the loop.
THEOREM LoopUsesSource == ClientSpec => Spec
  <1>1. ClientInit => Init
    BY DEF ClientInit
  <1>2. ClientInv /\ [ClientNext]_clientVars => [Next]_vars
    BY SourceSteps DEF ClientInv
  <1> QED BY <1>1, <1>2, ClientInvariant, PTL DEF ClientSpec, Spec

\* The 401 retry comes on top of the retry budget once, and never for an upload,
\* however 401s and transient failures alternate and whatever MaxRetries is.
THEOREM BudgetKept == ClientSpec => []SendsWithinBudget
  <1>1. ClientInv => SendsWithinBudget
    <2> SUFFICES ASSUME ClientInv, NEW g \in Callers
                 PROVE  call[g].sends <= MaxRetries + (IF call[g].kind = "upload" THEN 1 ELSE 2)
      BY DEF SendsWithinBudget
    <2>1. call[g] \in CallRecord /\ CallCounted(call[g])
      BY DEF ClientInv, ClientTypeOK, CallRecord, Counted
    <2> QED BY <2>1, RetriesAssumption DEF CallCounted, CallRecord, Extra
  <1> QED BY <1>1, ClientInvariant, PTL

\* Of the requests of one call, the server may have acted on at most one more
\* than were retried after a transient failure: a 401 adds none.
THEOREM RepeatsKept == ClientSpec => []RepeatsWithinBudget
  <1>1. ClientInv => RepeatsWithinBudget
    <2> SUFFICES ASSUME ClientInv, NEW g \in Callers
                 PROVE  call[g].applied <= call[g].attempt + 1
      BY DEF RepeatsWithinBudget
    <2>1. call[g] \in CallRecord /\ CallCounted(call[g])
      BY DEF ClientInv, ClientTypeOK, CallRecord, Counted
    <2> QED BY <2>1, RetriesAssumption DEF CallCounted, CallRecord
  <1> QED BY <1>1, ClientInvariant, PTL

LEMMA TwoElements ==
    ASSUME NEW t, NEW u, t # u
    PROVE  Cardinality({t, u}) = 2
  <1>1. IsFiniteSet({t}) /\ Cardinality({t}) = 1
    BY FS_Singleton
  <1>2. Cardinality({t} \cup {u}) = 2
    BY <1>1, FS_AddElement
  <1>3. {t} \cup {u} = {t, u}
    OBVIOUS
  <1> QED BY <1>2, <1>3

\* Without redirects a JSON call fails with an *AuthError only after two different
\* tokens were rejected, or after the accounts server refused a grant and no more
\* than one token was rejected: a token that is merely stale, or that another
\* goroutine has replaced meanwhile, never surfaces as an error.
THEOREM TwoTokensRejected ==
    ASSUME ~Redirects
    PROVE  ClientSpec => []AuthErrorMeansTwoTokens
  <1>1. ClientInv => AuthErrorMeansTwoTokens
    <2> SUFFICES ASSUME ClientInv, NEW g \in Callers, call[g].kind = "json", ~static
                 PROVE  /\ call[g].outcome = "authError" => Cardinality(call[g].rejectedWith) = 2
                        /\ call[g].outcome = "mintRefused" =>
                              Cardinality(call[g].rejectedWith) <= 1
      BY DEF AuthErrorMeansTwoTokens
    <2>1. call[g].outcome # "none" => call[g].step = "return"
      BY DEF ClientInv, CarriesToken, TokenCarried
    <2>2. ASSUME call[g].outcome = "authError"
          PROVE  Cardinality(call[g].rejectedWith) = 2
      <3>1. PICK t, u \in Tokens : t # u /\ call[g].rejectedWith = {t, u}
        BY <2>1, <2>2 DEF ClientInv, RejectedCounted, AsManyRejected
      <3>2. Cardinality({t, u}) = 2
        BY <3>1, TwoElements
      <3> QED BY <3>1, <3>2
    <2>3. ASSUME call[g].outcome = "mintRefused"
          PROVE  Cardinality(call[g].rejectedWith) <= 1
      <3>1. PICK t \in Tokens : call[g].rejectedWith \subseteq {t}
        BY <2>1, <2>3 DEF ClientInv, RejectedCounted, AsManyRejected
      <3>2. call[g].rejectedWith = {} \/ call[g].rejectedWith = {t}
        BY <3>1
      <3>3. Cardinality({}) = 0 /\ Cardinality({t}) = 1
        BY FS_EmptySet, FS_Singleton
      <3> QED BY <3>2, <3>3
    <2> QED BY <2>2, <2>3
  <1> QED BY <1>1, ClientInvariant, PTL

\* Where every request carries a token, no token is dropped that the server did
\* not reject: a late 401 spares the replacement another goroutine obtained.
THEOREM RejectedDropped ==
    ASSUME ~Redirects, "public" \notin Kinds
    PROVE  ClientSpec => OnlyRejectedDropped
  <1> DEFINE Dropped == current # NoToken /\ current' = NoToken
             Seen == \E g \in Callers : current \in call[g].rejectedWith
  <1>1. ASSUME ClientInv, [ClientNext]_clientVars, Dropped
        PROVE  Seen
    <2>1. ASSUME NEW g \in Callers, DropRejected(g),
                 call[g].step = "answered", call[g].reply = "unauthorized"
          PROVE  Seen
      <3>1. call[g].sent # NoToken /\ call[g].sent \in call[g].rejectedWith
        <4>1. TokenCarried(call[g])
          BY <1>1 DEF ClientInv, CarriesToken
        <4>2. call[g].kind # "public"
          BY <2>1, <4>1 DEF TokenCarried
        <4> QED BY <2>1, <4>1, <4>2 DEF TokenCarried
      <3>2. current = call[g].sent
        BY <1>1, <2>1, <3>1 DEF DropRejected, InvalidateIfCurrent, vars, sourceVars
      <3> QED BY <3>1, <3>2
    <2>2. ASSUME NEW g \in Callers, CallStep(g)
          PROVE  Seen
      <3>1. CASE StoreToken(g)
        <4>1. tok[g] # NoToken
          BY <1>1, <3>1 DEF ClientInv, SourceInv, ReportsDue, SeedToken, NoToken, StoreToken, Goto
        <4> QED BY <1>1, <3>1, <4>1 DEF StoreToken
      <3>2. CASE ~StoreToken(g)
        <4>1. current' = current
          BY <2>2, <3>2
             DEF CallStep, UnderSem, TokenRequest, UnderCbMu, AcquireSem, GiveUp, RecheckHit,
                 RecheckMiss, Release, Mint, RefreshFails, CbLock, CbCheck, CbRun, CbUnlock
        <4> QED BY <1>1, <4>1
      <3> QED BY <3>1, <3>2
    <2>3. ASSUME NEW g \in Callers, LoopStep(g)
          PROVE  Seen
      <3>1. CASE RetryUnauthorized(g) \/ FailUnauthorized(g)
        BY <1>1, <2>1, <3>1 DEF RetryUnauthorized, FailUnauthorized, At, vars, sourceVars
      <3>2. CASE AskToken(g) \/ MintRefused(g)
        BY <1>1, <3>2 DEF AskToken, TokenCall, TokenFast, TokenSlow, MintRefused, RefreshFails
      <3>3. CASE End(g)
        BY <1>1, <3>3 DEF End, sourceVars
      <3>4. CASE \/ TokenFails(g) \/ Send(g) \/ Succeed(g) \/ Backoff(g)
                 \/ RetryTransient(g) \/ CancelWait(g) \/ Fail(g) \/ FailUnread(g)
        BY <1>1, <3>4 DEF TokenFails, Send, SendWith, Succeed, Backoff, RetryTransient,
                          CancelWait, Fail, FailUnread, vars, sourceVars
      <3> QED BY <2>3, <3>1, <3>2, <3>3, <3>4 DEF LoopStep
    <2>4. ASSUME NEW g \in Callers, (\E kind \in Kinds : Begin(g, kind)) \/ Exchange(g)
          PROVE  Seen
      BY <1>1, <2>4 DEF Begin, Exchange, Redirect, Answer, vars, sourceVars
    <2>5. CASE ClientEnvironment \/ UNCHANGED clientVars
      BY <1>1, <2>5 DEF ClientEnvironment, Expire, Cancel, clientVars, vars, sourceVars
    <2> QED BY <1>1, <2>2, <2>3, <2>4, <2>5 DEF ClientNext, SourceStep
  <1>2. ClientInv /\ [ClientNext]_clientVars => [Dropped => Seen]_current
    BY <1>1
  <1> QED BY <1>2, ClientInvariant, PTL DEF ClientSpec, OnlyRejectedDropped

\* With both callbacks set, no request that returns leaves a token it saw
\* rejected where the next process would find it, except the second 401 of a
\* request and a 401 whose body breaks off.
THEOREM RejectedForgotten ==
    ASSUME ~Redirects, "public" \notin Kinds, Hooks = {"refresh", "invalidate"}
    PROVE  ClientSpec => []RejectedNotPersisted
  <1>1. ClientInv => RejectedNotPersisted
    <2> SUFFICES ASSUME ClientInv, \A g \in Callers : pc[g] = "idle", ~static,
                        NEW g \in Callers, call[g].step = "return", call[g].outcome # "unread",
                        ~(call[g].kind = "json" /\ call[g].outcome = "authError")
                 PROVE  persisted \notin call[g].rejectedWith
      BY DEF RejectedNotPersisted, At
    <2>1. call[g] \in CallRecord /\ call[g].kind \in {"json", "upload"}
      <3>1. call[g] \in CallRecord
        BY DEF ClientInv, ClientTypeOK, CallRecord
      <3>2. call[g].kind \in Kinds
        BY DEF ClientInv, CarriesToken, TokenCarried
      <3> QED BY <3>1, <3>2, KindsAssumption DEF RequestKinds
    <2>2. call[g].outcome # "none"
      BY DEF ClientInv, Counted, CallCounted
    <2>3. Settled(call[g])
      BY <2>1, <2>2 DEF Settled, CallRecord, Outcomes
    <2>4. current \notin call[g].rejectedWith /\ NoToken \notin call[g].rejectedWith
      BY <2>3 DEF ClientInv, RejectedApart, Apart, CarriesToken, TokenCarried
    <2>5. CASE current = SeedToken
      BY <2>4, <2>5 DEF ClientInv, SeedHeld
    <2>6. CASE current # SeedToken
      <3>1. Reported(current)
        BY <2>6, MintsAssumption DEF ClientInv, SourceInv, TypeOK, Reported, Tokens, NoToken, SeedToken
      <3>2. ~Pending
        BY DEF Pending
      <3>3. persisted = current
        BY <3>1, <3>2 DEF ClientInv, SourceInv, LatestChangeReported
      <3> QED BY <2>4, <3>3
    <2> QED BY <2>5, <2>6
  <1> QED BY <1>1, ClientInvariant, PTL

\* So what TokenSourceProofs shows of the source holds under the loop.
THEOREM LoopSharesTokens ==
    ClientSpec => []PersistedAtRest /\ NoWastedMint /\ NoUsableTokenOverwritten /\ ImplementsCell
  <1> QED BY LoopUsesSource, PersistedCopy, OneMintPerExpiry, UsableTokenKept, Refinement, PTL
============================================================================
