------------------------- MODULE TokenSourceProofs -------------------------
(***************************************************************************)
(* What TokenSource guarantees for any number of callers, any set of       *)
(* callbacks and any number of grants.  Everything follows from the        *)
(* inductive invariant SourceInv.                                          *)
(***************************************************************************)
EXTENDS TokenSource, TLAPS

\* What one caller does, action by action.
Act(g) ==
    \/ TokenFast(g) \/ TokenSlow(g) \/ AcquireSem(g) \/ GiveUp(g)
    \/ RecheckHit(g) \/ RecheckMiss(g) \/ Mint(g) \/ RefreshFails(g)
    \/ StoreToken(g) \/ Release(g) \/ Clear(g)
    \/ CbLock(g) \/ CbCheck(g) \/ CbRun(g) \/ CbUnlock(g)
    \/ Cancel(g) \/ NewContext(g)

\* A case split on Act is a case split on the steps of Next.
LEMMA Steps ==
    ASSUME [Next]_vars
    PROVE  Expire \/ (\E g \in Callers : Act(g)) \/ UNCHANGED vars
  BY DEF Next, Environment, TokenCall, InvalidateCall, Invalidate, InvalidateIfCurrent,
         CallStep, UnderSem, TokenRequest, UnderCbMu, Act

LEMMA InitInv == Init => SourceInv
  <1> SUFFICES ASSUME Init PROVE SourceInv
    OBVIOUS
  <1>1. TypeOK
    BY MintsAssumption DEF Init, TypeOK, Tokens, NoToken, SeedToken, Locations
  <1>2. LocksHeld
    BY CallersAssumption DEF Init, LocksHeld
  <1>3. MissStands /\ ReportsDue
    BY DEF Init, MissStands, ReportsDue
  <1>4. LatestChangeReported
    BY DEF Init, LatestChangeReported, Reported, NoToken, SeedToken
  <1> QED BY <1>1, <1>2, <1>3, <1>4 DEF SourceInv

LEMMA TypeStep == TypeOK /\ [Next]_vars => TypeOK'
  <1> SUFFICES ASSUME TypeOK, [Next]_vars PROVE TypeOK'
    OBVIOUS
  <1> USE MintsAssumption
      DEF TypeOK, Tokens, NoToken, SeedToken, Locations, Goto
  <1>1. CASE Expire
    BY <1>1 DEF Expire
  <1>2. CASE UNCHANGED vars
    BY <1>2 DEF vars, sourceVars
  <1>3. ASSUME NEW g \in Callers, Act(g)
        PROVE  TypeOK'
    <2>1. CASE TokenFast(g) \/ TokenSlow(g)
      BY <2>1 DEF TokenFast, TokenSlow
    <2>2. CASE AcquireSem(g) \/ GiveUp(g) \/ RecheckHit(g) \/ RecheckMiss(g)
      BY <2>2 DEF AcquireSem, GiveUp, RecheckHit, RecheckMiss
    <2>3. CASE Mint(g)
      BY <2>3 DEF Mint
    <2>4. CASE RefreshFails(g) \/ StoreToken(g) \/ Release(g)
      BY <2>4 DEF RefreshFails, StoreToken, Release
    <2>5. CASE Clear(g)
      <3>1. NoToken \in Tokens
        BY MintsAssumption
      <3>2. current' \in Tokens /\ tok' \in [Callers -> Tokens]
        BY <2>5, <3>1 DEF Clear
      <3>3. fresh' \in BOOLEAN
        BY <2>5 DEF Clear
      <3>4. pc' \in [Callers -> Locations]
        BY <2>5 DEF Clear
      <3> QED BY <2>5, <3>2, <3>3, <3>4 DEF Clear
    <2>6. CASE CbLock(g) \/ CbCheck(g) \/ CbRun(g) \/ CbUnlock(g)
      BY <2>6 DEF CbLock, CbCheck, CbRun, CbUnlock
    <2>7. CASE Cancel(g) \/ NewContext(g)
      BY <2>7 DEF Cancel, NewContext, sourceVars
    <2> QED BY <1>3, <2>1, <2>2, <2>3, <2>4, <2>5, <2>6, <2>7 DEF Act
  <1> QED BY <1>1, <1>2, <1>3, Steps

\* The locks: a caller enters a critical section only when it is free.
LEMMA LocksStep == TypeOK /\ LocksHeld /\ [Next]_vars => LocksHeld'
  <1> SUFFICES ASSUME TypeOK, LocksHeld, [Next]_vars PROVE LocksHeld'
    OBVIOUS
  <1> USE CallersAssumption DEF TypeOK, LocksHeld, Goto
  <1>1. CASE Expire
    BY <1>1 DEF Expire
  <1>2. CASE UNCHANGED vars
    BY <1>2 DEF vars, sourceVars
  <1>3. ASSUME NEW g \in Callers, Act(g)
        PROVE  LocksHeld'
    <2>1. CASE TokenFast(g) \/ TokenSlow(g) \/ GiveUp(g)
      BY <2>1 DEF TokenFast, TokenSlow, GiveUp
    <2>2. CASE AcquireSem(g)
      BY <2>2 DEF AcquireSem
    <2>3. CASE RecheckHit(g) \/ RecheckMiss(g)
      BY <2>3 DEF RecheckHit, RecheckMiss
    <2>4. CASE Mint(g) \/ RefreshFails(g) \/ StoreToken(g)
      BY <2>4 DEF Mint, RefreshFails, StoreToken
    <2>5. CASE Release(g)
      BY <2>5 DEF Release
    <2>6. CASE Clear(g)
      BY <2>6 DEF Clear
    <2>7. CASE CbLock(g)
      BY <2>7 DEF CbLock
    <2>8. CASE CbCheck(g) \/ CbRun(g)
      BY <2>8 DEF CbCheck, CbRun
    <2>9. CASE CbUnlock(g)
      BY <2>9 DEF CbUnlock
    <2>10. CASE Cancel(g) \/ NewContext(g)
      BY <2>10 DEF Cancel, NewContext, sourceVars
    <2> QED BY <1>3, <2>1, <2>2, <2>3, <2>4, <2>5, <2>6, <2>7, <2>8, <2>9, <2>10 DEF Act
  <1> QED BY <1>1, <1>2, <1>3, Steps

\* Only the holder of refreshSem makes a token current, so what it found under
\* the semaphore stays true until it stores its own.
LEMMA MissStep == TypeOK /\ LocksHeld /\ MissStands /\ [Next]_vars => MissStands'
  <1> SUFFICES ASSUME TypeOK, LocksHeld, MissStands, [Next]_vars,
                      NEW h \in Callers, (pc[h] \in {"refresh", "minted"})'
               PROVE  ~Usable'
    BY DEF MissStands
  <1> USE DEF TypeOK, Usable, Goto
  <1>1. CASE Expire
    BY <1>1 DEF Expire, MissStands
  <1>2. CASE UNCHANGED vars
    BY <1>2 DEF vars, sourceVars, MissStands
  <1>3. ASSUME NEW g \in Callers, Act(g)
        PROVE  ~Usable'
    <2>1. CASE TokenFast(g) \/ TokenSlow(g) \/ AcquireSem(g) \/ GiveUp(g)
      BY <2>1 DEF TokenFast, TokenSlow, AcquireSem, GiveUp, MissStands
    <2>2. CASE RecheckHit(g) \/ Mint(g) \/ RefreshFails(g) \/ Release(g)
      BY <2>2 DEF RecheckHit, Mint, RefreshFails, Release, MissStands
    <2>3. CASE RecheckMiss(g)
      BY <2>3 DEF RecheckMiss
    <2>4. CASE StoreToken(g)
      <3>1. pc[h] \in {"refresh", "minted"} /\ h # g
        BY <2>4 DEF StoreToken
      <3>2. refreshSem = h /\ refreshSem = g
        BY <2>4, <3>1 DEF StoreToken, LocksHeld
      <3> QED BY <3>1, <3>2
    <2>5. CASE Clear(g)
      BY <2>5 DEF Clear
    <2>6. CASE CbLock(g) \/ CbCheck(g) \/ CbRun(g) \/ CbUnlock(g)
      BY <2>6 DEF CbLock, CbCheck, CbRun, CbUnlock, MissStands
    <2>7. CASE Cancel(g) \/ NewContext(g)
      BY <2>7 DEF Cancel, NewContext, sourceVars, MissStands
    <2> QED BY <1>3, <2>1, <2>2, <2>3, <2>4, <2>5, <2>6, <2>7 DEF Act
  <1> QED BY <1>1, <1>2, <1>3, Steps

LEMMA DueStep == TypeOK /\ ReportsDue /\ [Next]_vars => ReportsDue'
  <1> SUFFICES ASSUME TypeOK, ReportsDue, [Next]_vars PROVE ReportsDue'
    OBVIOUS
  <1> USE DEF TypeOK, Goto, ReportsDue
  <1>1. CASE Expire
    BY <1>1 DEF Expire
  <1>2. CASE UNCHANGED vars
    BY <1>2 DEF vars, sourceVars
  <1>3. ASSUME NEW g \in Callers, Act(g)
        PROVE  ReportsDue'
    <2>1. CASE TokenFast(g) \/ TokenSlow(g) \/ AcquireSem(g) \/ GiveUp(g)
      BY <2>1 DEF TokenFast, TokenSlow, AcquireSem, GiveUp
    <2>2. CASE RecheckHit(g) \/ RecheckMiss(g) \/ RefreshFails(g)
      BY <2>2 DEF RecheckHit, RecheckMiss, RefreshFails
    <2>3. CASE Mint(g)
      BY <2>3 DEF Mint, SeedToken, Tokens
    <2>4. CASE StoreToken(g)
      BY <2>4 DEF StoreToken
    <2>5. CASE Release(g)
      BY <2>5 DEF Release, Reported
    <2>6. CASE Clear(g)
      BY <2>6 DEF Clear, Reported
    <2>7. CASE CbLock(g) \/ CbCheck(g) \/ CbRun(g) \/ CbUnlock(g)
      BY <2>7 DEF CbLock, CbCheck, CbRun, CbUnlock
    <2>8. CASE Cancel(g) \/ NewContext(g)
      BY <2>8 DEF Cancel, NewContext, sourceVars
    <2> QED BY <1>3, <2>1, <2>2, <2>3, <2>4, <2>5, <2>6, <2>7, <2>8 DEF Act
  <1> QED BY <1>1, <1>2, <1>3, Steps
\* The callbacks.  A change makes its own caller pending.  A callback that
\* passed its check either reports the current value, or a newer change is
\* pending, because that change's caller cannot have held cbMu meanwhile.
LEMMA ReportStep ==
    TypeOK /\ LocksHeld /\ ReportsDue /\ LatestChangeReported /\ [Next]_vars
        => LatestChangeReported'
  <1> SUFFICES ASSUME TypeOK, LocksHeld, ReportsDue, LatestChangeReported, [Next]_vars,
                      Reported(current)'
               PROVE  (Pending \/ (persisted = current /\ \A g \in Callers : pc[g] # "cbRun"))'
    BY DEF LatestChangeReported
  <1>1. CASE Expire
    BY <1>1 DEF Expire, LatestChangeReported, Pending, Reported
  <1>2. CASE UNCHANGED vars
    BY <1>2 DEF vars, sourceVars, LatestChangeReported, Pending, Reported
  <1>3. ASSUME NEW g \in Callers, Act(g)
        PROVE  (Pending \/ (persisted = current /\ \A h \in Callers : pc[h] # "cbRun"))'
    <2> USE DEF TypeOK, Goto, Pending, Reported
    \* What leaves current alone, reports nothing and is not a callback step.
    <2>1. CASE TokenFast(g) \/ TokenSlow(g) \/ AcquireSem(g) \/ GiveUp(g)
      BY <2>1 DEF TokenFast, TokenSlow, AcquireSem, GiveUp, LatestChangeReported
    <2>2. CASE RecheckHit(g) \/ RecheckMiss(g) \/ RefreshFails(g) \/ Mint(g)
      BY <2>2 DEF RecheckHit, RecheckMiss, RefreshFails, Mint, LatestChangeReported
    <2>3. CASE Cancel(g) \/ NewContext(g)
      BY <2>3 DEF Cancel, NewContext, sourceVars, LatestChangeReported
    \* The changes.
    <2>4. CASE StoreToken(g)
      <3>1. pc'[g] = "releaseNew" /\ tok'[g] = current'
        BY <2>4 DEF StoreToken
      <3> QED BY <3>1
    <2>5. CASE Clear(g)
      <3>1. current' = NoToken /\ "invalidate" \in Hooks
        BY <2>5 DEF Clear, NoToken, SeedToken
      <3>2. pc'[g] = "cbLock" /\ tok'[g] = current'
        BY <2>5, <3>1 DEF Clear
      <3> QED BY <3>2
    \* The way to the callback.
    <2>6. CASE Release(g)
      <3>1. CASE pc[g] = "release"
        BY <2>6, <3>1 DEF Release, LatestChangeReported
      <3>2. CASE pc[g] = "releaseNew" /\ "refresh" \in Hooks
        BY <2>6, <3>2 DEF Release, LatestChangeReported
      <3>3. CASE pc[g] = "releaseNew" /\ "refresh" \notin Hooks
        <4>1. tok[g] # current
          BY <2>6, <3>3 DEF Release, ReportsDue, NoToken, SeedToken
        <4> QED BY <2>6, <3>3, <4>1 DEF Release, LatestChangeReported
      <3> QED BY <2>6, <3>1, <3>2, <3>3 DEF Release
    <2>7. CASE CbLock(g)
      BY <2>7 DEF CbLock, LatestChangeReported
    <2>8. CASE CbCheck(g)
      BY <2>8 DEF CbCheck, LatestChangeReported
    <2>9. CASE CbRun(g)
      <3>1. \A h \in Callers : pc[h] = "cbRun" => h = g
        BY <2>9 DEF CbRun, LocksHeld
      <3>2. \A h \in Callers : pc'[h] # "cbRun"
        BY <2>9, <3>1 DEF CbRun
      <3>3. CASE tok[g] = current
        BY <2>9, <3>2, <3>3 DEF CbRun
      <3>4. CASE tok[g] # current
        <4>1. Pending
          BY <2>9 DEF CbRun, LatestChangeReported
        <4>2. PICK h \in Callers : /\ pc[h] \in {"releaseNew", "cbLock", "cbCheck", "cbRun"}
                                   /\ tok[h] = current
          BY <4>1
        <4>3. h # g
          BY <3>4, <4>2
        <4> QED BY <2>9, <4>2, <4>3 DEF CbRun
      <3> QED BY <3>3, <3>4
    <2>10. CASE CbUnlock(g)
      BY <2>10 DEF CbUnlock, LatestChangeReported
    <2> QED BY <1>3, <2>1, <2>2, <2>3, <2>4, <2>5, <2>6, <2>7, <2>8, <2>9, <2>10 DEF Act
  <1> QED BY <1>1, <1>2, <1>3, Steps

LEMMA Inductive == SourceInv /\ [Next]_vars => SourceInv'
  BY TypeStep, LocksStep, MissStep, DueStep, ReportStep DEF SourceInv

----------------------------------------------------------------------------
\* Both locks are held exactly in their critical sections, a caller asks for a
\* token only while none is usable, and the callbacks keep up with changes.
THEOREM SourceInvariant == Spec => []SourceInv
  BY InitInv, Inductive, PTL DEF Spec

\* While the last change of the token is not yet persisted, a caller that will
\* report it is on its way; once it is, no older report can follow it.
THEOREM LatestReported == Spec => []LatestChangeReported
  <1>1. SourceInv => LatestChangeReported
    BY DEF SourceInv
  <1> QED BY <1>1, SourceInvariant, PTL

\* Every variable holds a value the code can give it.
THEOREM TypeCorrect == Spec => []TypeOK
  <1>1. SourceInv => TypeOK
    BY DEF SourceInv
  <1> QED BY <1>1, SourceInvariant, PTL

\* With no call in progress, the persisted copy is the cached token, whichever
\* of the callbacks raced.
THEOREM PersistedCopy == Spec => []PersistedAtRest
  <1>1. SourceInv => PersistedAtRest
    BY DEF SourceInv, LatestChangeReported, PersistedAtRest, Pending
  <1> QED BY <1>1, SourceInvariant, PTL

\* Callers that found the same token expired obtain one new token between
\* them: no token is granted while a usable one is cached.
THEOREM OneMintPerExpiry == Spec => NoWastedMint
  <1>1. SourceInv /\ [Next]_vars => [minted' # minted => ~Usable]_minted
    <2> SUFFICES ASSUME SourceInv, [Next]_vars, minted' # minted PROVE ~Usable
      OBVIOUS
    <2>1. PICK g \in Callers : Mint(g)
      BY Steps DEF Act, Expire, TokenFast, TokenSlow, AcquireSem, GiveUp, RecheckHit, RecheckMiss,
         RefreshFails, StoreToken, Release, Clear, CbLock, CbCheck, CbRun, CbUnlock, Cancel,
         NewContext, vars, sourceVars
    <2> QED BY <2>1 DEF Mint, Goto, SourceInv, MissStands
  <1> QED BY <1>1, SourceInvariant, PTL DEF Spec, NoWastedMint

\* A usable token is never overwritten by another caller's.
THEOREM UsableTokenKept == Spec => NoUsableTokenOverwritten
  <1>1. SourceInv /\ [Next]_vars => [current' # current /\ current' # NoToken => ~Usable]_current
    <2> SUFFICES ASSUME SourceInv, [Next]_vars, current' # current, current' # NoToken PROVE ~Usable
      OBVIOUS
    <2>1. PICK g \in Callers : StoreToken(g)
      BY Steps DEF Act, Expire, TokenFast, TokenSlow, AcquireSem, GiveUp, RecheckHit, RecheckMiss,
         Mint, RefreshFails, Release, Clear, CbLock, CbCheck, CbRun, CbUnlock, Cancel,
         NewContext, vars, sourceVars
    <2> QED BY <2>1 DEF StoreToken, Goto, SourceInv, MissStands
  <1> QED BY <1>1, SourceInvariant, PTL DEF Spec, NoUsableTokenOverwritten
----------------------------------------------------------------------------
(* Refinement of TokenCell *)

LEMMA CellInit == Init => Cell!Init
  <1> SUFFICES ASSUME Init PROVE Cell!Init
    OBVIOUS
  <1>1. current \in Tokens
    BY MintsAssumption DEF Init, Tokens, NoToken, SeedToken
  <1>2. Reported(current) => persisted = current
    BY DEF Init, Reported, NoToken, SeedToken
  <1>3. \A g \in Callers : pc[g] = "idle"
    BY DEF Init
  <1>4. fresh \in BOOLEAN /\ persisted \in {NoToken, current} /\ cbMu = NoCaller
    BY DEF Init
  <1> QED BY <1>1, <1>2, <1>3, <1>4 DEF Cell!Init

LEMMA CellStep == SourceInv /\ [Next]_vars => [Cell!Next]_(Cell!cell)
  <1> SUFFICES ASSUME SourceInv, [Next]_vars PROVE Cell!Next \/ UNCHANGED Cell!cell
    OBVIOUS
  <1> DEFINE write == IF cbMu # NoCaller /\ pc[cbMu] = "cbRun" THEN tok[cbMu] ELSE -1
             due(g) == pc[g] \in {"releaseNew", "cbLock", "cbCheck"} /\ tok[g] = current
             behind == Reported(current) /\ \E g \in Callers : due(g)
  <1> USE CallersAssumption DEF SourceInv, TypeOK, Goto
  <1>1. CASE Expire
    <2>1. Cell!Age
      BY <1>1 DEF Expire, Cell!Age, Reported
    <2> QED BY <2>1 DEF Cell!Next
  <1>2. CASE UNCHANGED vars
    BY <1>2 DEF vars, sourceVars, Cell!cell, Reported
  <1>3. ASSUME NEW g \in Callers, Act(g)
        PROVE  Cell!Next \/ UNCHANGED Cell!cell
    <2>1. CASE TokenFast(g) \/ TokenSlow(g) \/ AcquireSem(g) \/ GiveUp(g)
      <3>1. write' = write
        BY <2>1 DEF TokenFast, TokenSlow, AcquireSem, GiveUp, LocksHeld
      <3>2. behind' = behind
        BY <2>1 DEF TokenFast, TokenSlow, AcquireSem, GiveUp, Reported
      <3> QED BY <2>1, <3>1, <3>2 DEF TokenFast, TokenSlow, AcquireSem, GiveUp, Cell!cell
    <2>2. CASE RecheckHit(g) \/ RecheckMiss(g) \/ RefreshFails(g) \/ Mint(g)
      <3>1. write' = write
        BY <2>2 DEF RecheckHit, RecheckMiss, RefreshFails, Mint, LocksHeld
      <3>2. behind' = behind
        BY <2>2 DEF RecheckHit, RecheckMiss, RefreshFails, Mint, Reported
      <3> QED BY <2>2, <3>1, <3>2 DEF RecheckHit, RecheckMiss, RefreshFails, Mint, Cell!cell
    <2>3. CASE Cancel(g) \/ NewContext(g)
      BY <2>3 DEF Cancel, NewContext, sourceVars, Cell!cell, Reported
    <2>4. CASE StoreToken(g)
      <3>1. ~Cell!Usable
        BY <2>4 DEF StoreToken, MissStands, Usable, Cell!Usable
      <3>2. tok[g] \in Tokens \ {NoToken}
        BY <2>4 DEF StoreToken, ReportsDue, NoToken, SeedToken
      <3>3. write' = write
        BY <2>4 DEF StoreToken, LocksHeld
      <3>4. behind' = (tok[g] \in {t \in Tokens : Reported(t)})
        <4>1. due(g)'
          BY <2>4 DEF StoreToken
        <4>2. behind' <=> Reported(tok[g])
          BY <2>4, <4>1 DEF StoreToken, Reported
        <4> QED BY <3>2, <4>2
      <3>5. current' = tok[g] /\ persisted' = persisted
        BY <2>4 DEF StoreToken
      <3>6. fresh' \in BOOLEAN
        BY <2>4 DEF StoreToken
      <3>7. Cell!Replace
        BY <3>1, <3>2, <3>3, <3>4, <3>5, <3>6 DEF Cell!Replace, Cell!Change
      <3> QED BY <3>7 DEF Cell!Next
    <2>5. CASE Clear(g)
      <3>1. write' = write
        BY <2>5 DEF Clear, LocksHeld
      <3>2. NoToken \in Tokens /\ ~(NoToken > SeedToken)
        BY MintsAssumption DEF Tokens, NoToken, SeedToken
      <3>3. behind' = (NoToken \in {t \in Tokens : Reported(t)})
        <4>1. "invalidate" \in Hooks => due(g)'
          BY <2>5 DEF Clear
        <4>2. behind' <=> "invalidate" \in Hooks
          BY <2>5, <3>2, <4>1 DEF Clear, Reported
        <4> QED BY <3>2, <4>2 DEF Reported
      <3>4. Cell!Change(NoToken)
        BY <2>5, <3>1, <3>3 DEF Clear, Cell!Change
      <3> QED BY <2>5, <3>4 DEF Clear, Cell!Drop, Cell!Next
    <2>6. CASE Release(g)
      <3>1. write' = write
        BY <2>6 DEF Release, LocksHeld
      <3>2. behind' = behind
        <4>1. pc[g] = "releaseNew" /\ "refresh" \notin Hooks => ~Reported(tok[g])
          BY <2>6 DEF ReportsDue, Reported, NoToken, SeedToken
        <4>2. \A h \in Callers : Reported(current) => (due(h)' <=> due(h))
          BY <2>6, <4>1 DEF Release
        <4> QED BY <2>6, <4>2 DEF Release, Reported
      <3> QED BY <2>6, <3>1, <3>2 DEF Release, Cell!cell
    <2>7. CASE CbLock(g)
      <3>1. write = -1 /\ write' = -1
        BY <2>7 DEF CbLock
      <3>2. behind' = behind
        BY <2>7 DEF CbLock, Reported
      <3> QED BY <2>7, <3>1, <3>2 DEF CbLock, Cell!cell
    <2>8. CASE CbCheck(g)
      <3>1. cbMu = g /\ g # NoCaller
        BY <2>8 DEF CbCheck, LocksHeld
      <3>2. write = -1
        BY <2>8, <3>1 DEF CbCheck
      <3>3. CASE tok[g] = current
        <4>1. Reported(current) /\ due(g)
          BY <2>8, <3>3 DEF CbCheck, ReportsDue
        <4>2. write' = current
          BY <2>8, <3>1, <3>3 DEF CbCheck
        <4>3. Cell!BeginWrite
          BY <2>8, <3>2, <4>1, <4>2 DEF CbCheck, Cell!BeginWrite
        <4> QED BY <4>3 DEF Cell!Next
      <3>4. CASE tok[g] # current
        <4>1. write' = write
          BY <2>8, <3>1, <3>2, <3>4 DEF CbCheck
        <4>2. behind' = behind
          BY <2>8, <3>4 DEF CbCheck, Reported
        <4> QED BY <2>8, <4>1, <4>2 DEF CbCheck, Cell!cell
      <3> QED BY <3>3, <3>4
    <2>9. CASE CbRun(g)
      <3>1. cbMu = g /\ g # NoCaller
        BY <2>9 DEF CbRun, LocksHeld
      <3>2. write = tok[g] /\ write' = -1
        BY <2>9, <3>1 DEF CbRun
      <3>3. tok[g] # -1
        BY MintsAssumption DEF Tokens, SeedToken
      <3>4. behind' = behind
        BY <2>9 DEF CbRun, Reported
      <3>5. Cell!EndWrite
        BY <2>9, <3>2, <3>3, <3>4 DEF CbRun, Cell!EndWrite
      <3> QED BY <3>5 DEF Cell!Next
    <2>10. CASE CbUnlock(g)
      <3>1. cbMu = g
        BY <2>10 DEF CbUnlock, LocksHeld
      <3>2. write = -1 /\ write' = -1
        BY <2>10, <3>1 DEF CbUnlock
      <3>3. behind' = behind
        BY <2>10 DEF CbUnlock, Reported
      <3> QED BY <2>10, <3>2, <3>3 DEF CbUnlock, Cell!cell
    <2> QED BY <1>3, <2>1, <2>2, <2>3, <2>4, <2>5, <2>6, <2>7, <2>8, <2>9, <2>10 DEF Act
  <1> QED BY <1>1, <1>2, <1>3, Steps

\* However its callers interleave, the source with its callbacks behaves as
\* one cell whose saved copy a single writer brings up to date.
THEOREM Refinement == Spec => ImplementsCell
  <1> QED BY CellInit, CellStep, SourceInvariant, PTL DEF Spec, ImplementsCell, Cell!Spec

----------------------------------------------------------------------------
(* What the cell promises *)

LEMMA CellSaves == Cell!SavedFollows /\ [Cell!Next]_(Cell!cell) => Cell!SavedFollows'
  <1> SUFFICES ASSUME Cell!SavedFollows, [Cell!Next]_(Cell!cell) PROVE Cell!SavedFollows'
    OBVIOUS
  <1> USE DEF Cell!SavedFollows
  <1>1. CASE Cell!Replace \/ Cell!Drop
    BY <1>1 DEF Cell!Replace, Cell!Drop, Cell!Change
  <1>2. CASE Cell!Age \/ UNCHANGED Cell!cell
    BY <1>2 DEF Cell!Age, Cell!cell
  <1>3. CASE Cell!BeginWrite
    BY <1>3 DEF Cell!BeginWrite
  <1>4. CASE Cell!EndWrite
    BY <1>4 DEF Cell!EndWrite
  <1> QED BY <1>1, <1>2, <1>3, <1>4 DEF Cell!Next

\* In the cell, a write of an outdated value is never the last word, however
\* changes and writes alternate.
THEOREM SavedCopyFollows == Cell!Spec => []Cell!SavedFollows
  <1>1. Cell!Init => Cell!SavedFollows
    BY DEF Cell!Init, Cell!SavedFollows
  <1> QED BY <1>1, CellSaves, PTL DEF Cell!Spec

\* So it is in the source, which implements the cell: as long as the callbacks
\* have not persisted its last change, a report of that is due or under way.
THEOREM LastReportCounts == Spec => []Cell!SavedFollows
  <1> QED BY SavedCopyFollows, Refinement, PTL DEF ImplementsCell
============================================================================
