--------------------------- MODULE ZcCacheProofs ---------------------------
(***************************************************************************)
(* What the cache file can hold, for any number of zc processes: it is     *)
(* never half written, and a token that a 401 removed does not come back,  *)
(* while processes fail to store, to remove and to read it.                *)
(*                                                                         *)
(* The argument is about the tokens on their way to the file.  A token is  *)
(* known to one process only until it is renamed into place, so the rename *)
(* cannot bring back a token that any process has read and seen rejected.  *)
(***************************************************************************)
EXTENDS ZcCache, TLAPS

LEMMA InitCache == Init => CacheInv
BY BoundsAssumption
   DEF Init, CacheInv, TypeOK, KnownTokens, TempWhole, StoredOnce, FileWhole,
       RejectedGone, Storing, Contents, Tokens, NoToken, HalfWritten, Locations

USE DEF CacheInv, TypeOK, KnownTokens, TempWhole, StoredOnce, FileWhole, RejectedGone,
        Storing, Contents, Tokens, NoToken, HalfWritten, Locations, cache, process, server, history, Goto,
        End

LEMMA LaunchKeeps ==
  ASSUME CacheInv, NEW p \in Processes, Launch(p) \/ LaunchBlind(p)
  PROVE  CacheInv'
<1>1. PICK c \in Commands :
          /\ command' = [command EXCEPT ![p] = c]
          /\ pc' = [pc EXCEPT ![p] = IF c = "refresh" THEN "clear" ELSE "token"]
  BY DEF Launch, LaunchBlind, Begin
<1>2. command' \in [Processes -> {"call", "refresh"}]
  BY <1>1, CommandsAssumption
<1>3. PICK loaded \in Tokens \cup {NoToken} :
          held' = [held EXCEPT ![p] = loaded] /\ (loaded # NoToken => loaded = file)
  <2>1. Load \in Tokens \cup {NoToken} /\ (Load # NoToken => Load = file)
    BY DEF Load
  <2> QED BY <2>1 DEF Launch, LaunchBlind
<1>next. /\ rejected' = [rejected EXCEPT ![p] = NoToken] /\ kept' = kept \ {p}
         /\ alone' \subseteq Processes /\ UNCHANGED <<cache, server, kills>>
  BY DEF Launch, LaunchBlind, Begin
<1>4. TypeOK'
  BY <1>1, <1>2, <1>3, <1>next, BoundsAssumption
<1>5. KnownTokens' /\ TempWhole' /\ FileWhole' /\ RejectedGone'
  BY <1>1, <1>3, <1>next, BoundsAssumption
<1>6. StoredOnce'
  BY <1>1, <1>3, <1>next
<1> QED BY <1>4, <1>5, <1>6

\* With a token in hand a process ends, and holds nothing, or sends.
LEMMA WithTokenSteps ==
  ASSUME CacheInv, NEW p \in Processes, WithToken(p)
  PROVE  /\ pc' \in [Processes -> Locations]
         /\ held' \in [Processes -> Tokens \cup {NoToken}]
         /\ pc'[p] \in {"ended", "send"} /\ held'[p] \in {held[p], NoToken}
         /\ \A q \in Processes \ {p} : pc'[q] = pc[q] /\ held'[q] = held[q]
<1>1. CASE command[p] = "refresh"
  BY <1>1 DEF WithToken
<1>2. CASE command[p] # "refresh"
  BY <1>2 DEF WithToken
<1> QED BY <1>1, <1>2

LEMMA TokenKeeps ==
  ASSUME CacheInv, NEW p \in Processes,
         Clear(p) \/ Remove(p) \/ RemoveFails(p) \/ UseHeld(p) \/ MintFails(p)
  PROVE  CacheInv'
<1>1. CASE Clear(p)
  BY <1>1, BoundsAssumption DEF Clear
<1>2. CASE Remove(p)
  BY <1>2, BoundsAssumption DEF Remove
<1>3. CASE UseHeld(p)
  BY <1>3, WithTokenSteps, BoundsAssumption DEF UseHeld
<1>4. CASE MintFails(p)
  BY <1>4, BoundsAssumption DEF MintFails
<1>5. CASE RemoveFails(p)
  BY <1>5, BoundsAssumption DEF RemoveFails
<1> QED BY <1>1, <1>2, <1>3, <1>4, <1>5

LEMMA MintKeeps == ASSUME CacheInv, NEW p \in Processes, Mint(p) PROVE CacheInv'
<1>1. TypeOK'
  BY BoundsAssumption DEF Mint
<1>2. KnownTokens' /\ TempWhole' /\ FileWhole' /\ RejectedGone'
  BY BoundsAssumption DEF Mint
<1>3. StoredOnce'
  BY BoundsAssumption DEF Mint
<1> QED BY <1>1, <1>2, <1>3

LEMMA StoreKeeps ==
  ASSUME CacheInv, NEW p \in Processes,
         CreateTemp(p) \/ WriteTemp(p) \/ Rename(p) \/ StoreFails(p)
  PROVE  CacheInv'
<1>1. CASE CreateTemp(p)
  BY <1>1, BoundsAssumption DEF CreateTemp
<1>2. CASE WriteTemp(p)
  BY <1>2, BoundsAssumption DEF WriteTemp
<1>3. CASE Rename(p)
  <2>1. TypeOK'
    BY <1>3, WithTokenSteps, BoundsAssumption DEF Rename
  <2>2. /\ file' = held[p] /\ rejected' = rejected /\ kept' = kept /\ mints' = mints
        /\ pc[p] = "rename" /\ \A q \in Processes \ {p} : temp'[q] = temp[q]
    BY <1>3 DEF Rename
  <2>4. /\ pc'[p] \in {"ended", "send"} /\ held'[p] \in {held[p], NoToken}
        /\ \A q \in Processes \ {p} : pc'[q] = pc[q] /\ held'[q] = held[q]
    BY <1>3, WithTokenSteps DEF Rename
  <2>5. KnownTokens'
    BY <2>2, <2>4
  <2>6. TempWhole' /\ FileWhole'
    BY <2>2, <2>4, BoundsAssumption
  <2>7. RejectedGone'
    BY <2>2, <2>4
  <2>3. StoredOnce'
    BY <1>3, WithTokenSteps, BoundsAssumption DEF Rename
  <2> QED BY <2>1, <2>3, <2>5, <2>6, <2>7
<1>4. CASE StoreFails(p)
  BY <1>4, WithTokenSteps, BoundsAssumption DEF StoreFails
<1> QED BY <1>1, <1>2, <1>3, <1>4

LEMMA RequestKeeps ==
  ASSUME CacheInv, NEW p \in Processes, Answered(p) \/ Rejected(p) \/ Fails(p)
  PROVE  CacheInv'
<1>1. CASE Answered(p)
  BY <1>1, BoundsAssumption DEF Answered
<1>2. CASE Rejected(p)
  BY <1>2, BoundsAssumption DEF Rejected
<1>3. CASE Fails(p)
  BY <1>3, BoundsAssumption DEF Fails
<1> QED BY <1>1, <1>2, <1>3

LEMMA EnvironmentKeeps ==
  ASSUME CacheInv,
         (\E p \in Processes : Kill(p)) \/ (\E t \in Tokens : Age(t) \/ Revoke(t))
  PROVE  CacheInv'
<1>1. ASSUME NEW p \in Processes, Kill(p) PROVE CacheInv'
  BY <1>1, BoundsAssumption DEF Kill
<1>2. ASSUME NEW t \in Tokens, Age(t) PROVE CacheInv'
  BY <1>2, BoundsAssumption DEF Age
<1>3. ASSUME NEW t \in Tokens, Revoke(t) PROVE CacheInv'
  BY <1>3, BoundsAssumption DEF Revoke
<1> QED BY <1>1, <1>2, <1>3

\* The inductive invariant: a token on its way to the file is known to one
\* process only, tokens are granted once, and what is renamed is complete,
\* whichever stores and removals fail.
THEOREM CacheInvariant == Spec => []CacheInv
<1>1. Init => CacheInv
  BY InitCache
<1>2. CacheInv /\ [Next]_vars => CacheInv'
  <2> SUFFICES ASSUME CacheInv, [Next]_vars PROVE CacheInv'
    OBVIOUS
  <2>1. ASSUME NEW p \in Processes, ProcessStep(p) PROVE CacheInv'
    BY <2>1, LaunchKeeps, TokenKeeps, MintKeeps, StoreKeeps, RequestKeeps DEF ProcessStep
  <2>2. CASE UNCHANGED vars
    BY <2>2 DEF vars
  <2> QED BY <2>1, <2>2, EnvironmentKeeps DEF Next
<1> QED BY <1>1, <1>2, PTL DEF Spec

\* No zc ever reads a half-written file, whichever process fails or is killed
\* while it stores its token.
THEOREM FileNeverHalfWritten == Spec => []FileWhole
<1>1. CacheInv => FileWhole
  OBVIOUS
<1> QED BY <1>1, CacheInvariant, PTL

\* A token that a process lost to a 401, and whose file it could remove, is never
\* put back, not even by a process that was still writing when it was removed, or
\* whose own removal failed.
THEOREM RejectedTokenStaysGone == Spec => []RejectedGone
<1>1. CacheInv => RejectedGone
  OBVIOUS
<1> QED BY <1>1, CacheInvariant, PTL

----------------------------------------------------------------------------
(* Later runs reuse the token in the file *)

LEMMA AloneKeeps == ASSUME CacheInv, StillAlone, [Next]_vars PROVE StillAlone'
<1>1. ASSUME NEW p \in Processes, Launch(p) \/ LaunchBlind(p) PROVE StillAlone'
  BY <1>1 DEF Launch, LaunchBlind, Begin, StillAlone, Running
<1>2. ASSUME NEW p \in Processes, ProcessStep(p) \/ Kill(p), ~(Launch(p) \/ LaunchBlind(p))
      PROVE  StillAlone'
  <2>1. alone' = alone /\ pc[p] # "ended" /\ \A q \in Processes \ {p} : pc'[q] = pc[q]
    BY <1>2 DEF ProcessStep, Kill, Clear, Remove, RemoveFails, WithToken, UseHeld, Mint, MintFails,
                CreateTemp, WriteTemp, Rename, StoreFails, Answered, Rejected, Fails
  <2> QED BY <2>1 DEF StillAlone
<1>3. CASE UNCHANGED <<alone, pc>>
  BY <1>3 DEF StillAlone
<1> QED BY <1>1, <1>2, <1>3 DEF Next, Age, Revoke, vars

\* A token that is no longer good is never good again.
LEMMA GoodBefore ==
  ASSUME CacheInv, NEW t \in Tokens, Age(t) \/ Revoke(t), (Usable(file) /\ file \notin revoked)'
  PROVE  Usable(file) /\ file \notin revoked
<1>1. CASE Age(t)
  BY <1>1 DEF Age, Usable
<1>2. CASE Revoke(t)
  BY <1>2 DEF Revoke, Usable
<1> QED BY <1>1, <1>2

LEMMA GoodKeeps ==
  ASSUME CacheInv, StillAlone, HoldsGood, StillAlone', [Next]_vars
  PROVE  HoldsGood'
<1>1. ASSUME NEW p \in Processes, Launch(p) PROVE HoldsGood'
  <2>1. Usable(file) => Load = file
    BY DEF Load, Usable
  <2> QED BY <1>1, <2>1 DEF Launch, Begin, HoldsGood, Running, Usable
<1>blind. ASSUME NEW p \in Processes, LaunchBlind(p) PROVE HoldsGood'
  BY <1>blind DEF LaunchBlind, Begin, HoldsGood
<1>2. ASSUME NEW p \in Processes, Clear(p) PROVE HoldsGood'
  BY <1>2 DEF Clear, HoldsGood, Usable
<1>3. ASSUME NEW p \in Processes, Remove(p) \/ RemoveFails(p) PROVE HoldsGood'
  <2>1. CASE Remove(p)
    BY <2>1 DEF Remove, HoldsGood, Usable
  <2>2. CASE RemoveFails(p)
    BY <2>2 DEF RemoveFails, HoldsGood, Usable
  <2> QED BY <1>3, <2>1, <2>2
<1>4. ASSUME NEW p \in Processes,
             UseHeld(p) \/ MintFails(p) \/ CreateTemp(p) \/ WriteTemp(p) \/ StoreFails(p)
                 \/ Answered(p) \/ Fails(p) \/ Kill(p)
      PROVE  HoldsGood'
  <2>1. /\ UNCHANGED <<file, command, alone, age, revoked>> /\ pc'[p] # "clear"
        /\ pc[p] # "ended"
        /\ pc'[p] # "ended" => held'[p] = held[p]
        /\ \A q \in Processes \ {p} : pc'[q] = pc[q] /\ held'[q] = held[q]
    BY <1>4 DEF UseHeld, MintFails, CreateTemp, WriteTemp, StoreFails, Answered, Fails, Kill, WithToken
  <2> QED BY <2>1 DEF HoldsGood, Usable
<1>5. ASSUME NEW p \in Processes, Mint(p) PROVE HoldsGood'
  BY <1>5 DEF Mint, HoldsGood, Usable
<1>6. ASSUME NEW p \in Processes, Rename(p) PROVE HoldsGood'
  <2>1. /\ file' = held[p] /\ UNCHANGED <<command, alone, age, revoked>>
        /\ pc[p] # "ended" /\ pc'[p] # "clear"
        /\ pc'[p] # "ended" => held'[p] = held[p]
        /\ \A q \in Processes \ {p} : pc'[q] = pc[q] /\ held'[q] = held[q]
    BY <1>6 DEF Rename, WithToken
  <2> QED BY <2>1 DEF HoldsGood, StillAlone
<1>7. ASSUME NEW p \in Processes, Rejected(p) PROVE HoldsGood'
  <2>1. p \in alone /\ command[p] = "call" => ~(Usable(file) /\ file \notin revoked)
    BY <1>7 DEF Rejected, HoldsGood, Usable, Accepted
  <2> QED BY <1>7, <2>1 DEF Rejected, HoldsGood, Usable
<1>8. ASSUME NEW t \in Tokens, Age(t) \/ Revoke(t) PROVE HoldsGood'
  <2>1. UNCHANGED <<file, pc, command, alone, held>>
    BY <1>8 DEF Age, Revoke
  <2> QED BY <1>8, <2>1, GoodBefore DEF HoldsGood
<1>9. CASE UNCHANGED vars
  BY <1>9 DEF vars, HoldsGood, Usable
<1> QED BY <1>1, <1>2, <1>3, <1>4, <1>5, <1>6, <1>7, <1>8, <1>9, <1>blind DEF Next, ProcessStep

\* The inductive invariant: a zc that nothing runs beside holds the token of
\* the file, as long as that is good.
THEOREM ReuseInvariant == Spec => []ReuseInv
<1>1. Init => ReuseInv
  BY InitCache DEF Init, ReuseInv, StillAlone, HoldsGood
<1>2. ReuseInv /\ [Next]_vars /\ CacheInv' => ReuseInv'
  BY AloneKeeps, GoodKeeps DEF ReuseInv
<1> QED BY <1>1, <1>2, CacheInvariant, PTL DEF Spec

\* However many zc processes came before it, one that nothing runs beside does
\* not ask for a token while the file holds a good one.
THEOREM GoodTokenReused == Spec => LaterRunsReuse
<1>1. ReuseInv /\ [Next]_vars =>
        [\A p \in Processes :
            pc[p] = "token" /\ pc'[p] = "create" /\ command[p] = "call" /\ p \in alone
                => ~(Usable(file) /\ file \notin revoked)]_vars
  <2> SUFFICES ASSUME ReuseInv, [Next]_vars, NEW p \in Processes,
                      pc[p] = "token", pc'[p] = "create", command[p] = "call", p \in alone
               PROVE  ~(Usable(file) /\ file \notin revoked)
    OBVIOUS
  <2>1. ASSUME NEW q \in Processes, ProcessStep(q) \/ Kill(q) PROVE q = p /\ Mint(q)
    <3>1. q = p
      BY <2>1 DEF ReuseInv, ProcessStep, Kill, Launch, LaunchBlind, Begin, Clear, Remove,
                  RemoveFails, UseHeld, Mint, MintFails,
                  CreateTemp, WriteTemp, Rename, StoreFails, Answered, Rejected, Fails, WithToken
    <3>2. pc[q] = "token" /\ pc'[q] = "create" /\ q \in Processes
      BY <3>1
    <3> QED BY <2>1, <3>1, <3>2 DEF ReuseInv, ProcessStep, Kill, Launch, LaunchBlind, Begin, Clear, Remove,
                  RemoveFails, UseHeld,
                  MintFails, CreateTemp, WriteTemp, Rename, StoreFails, Answered, Rejected, Fails, WithToken
  <2>2. Mint(p)
    BY <2>1 DEF Next, Age, Revoke, vars
  <2> QED BY <2>2 DEF Mint, ReuseInv, HoldsGood
<1> QED BY <1>1, ReuseInvariant, PTL DEF Spec, LaterRunsReuse

----------------------------------------------------------------------------
(* Only another zc can put a replacement where a 401 removes it *)

\* The file holds no later token than the one that a zc with no other beside it
\* holds, or has just seen rejected and is about to remove; and it has seen
\* nothing rejected yet when it removes a token unasked.
DropsOldOnly ==
  \A p \in alone :
      /\ pc[p] = "clear" => rejected[p] = NoToken
      /\ pc[p] # "ended" /\ held[p] # NoToken => file <= held[p]
      /\ pc[p] = "removing" /\ rejected[p] # NoToken => file <= rejected[p]

LEMMA DropsKeep ==
  ASSUME CacheInv, StillAlone, StillAlone', DropsOldOnly, [Next]_vars
  PROVE  DropsOldOnly'
<1>1. ASSUME NEW p \in Processes, Launch(p) PROVE DropsOldOnly'
  <2>1. Load # NoToken => Load = file
    BY DEF Load
  <2>2. file' = file /\ held'[p] = Load /\ rejected'[p] = NoToken
    BY <1>1 DEF Launch, Begin
  <2>3. \A q \in alone' : q = p
    BY <1>1 DEF Launch
  <2>4. file <= file
    OBVIOUS
  <2> HIDE DEF Load
  <2> QED BY <2>1, <2>2, <2>3, <2>4 DEF DropsOldOnly
<1>blind. ASSUME NEW p \in Processes, LaunchBlind(p) PROVE DropsOldOnly'
  BY <1>blind DEF LaunchBlind, DropsOldOnly
<1>2. ASSUME NEW p \in Processes, Clear(p) \/ Remove(p) \/ RemoveFails(p) PROVE DropsOldOnly'
  BY <1>2 DEF Clear, Remove, RemoveFails, DropsOldOnly
<1>3. ASSUME NEW p \in Processes, Mint(p) PROVE DropsOldOnly'
  BY <1>3 DEF Mint, DropsOldOnly
<1>4. ASSUME NEW p \in Processes, Rename(p) PROVE DropsOldOnly'
  BY <1>4 DEF Rename, DropsOldOnly, StillAlone, WithToken
<1>5. ASSUME NEW p \in Processes, Rejected(p) PROVE DropsOldOnly'
  BY <1>5 DEF Rejected, DropsOldOnly, Accepted
<1>6. ASSUME NEW p \in Processes,
             UseHeld(p) \/ MintFails(p) \/ CreateTemp(p) \/ WriteTemp(p) \/ StoreFails(p)
                 \/ Answered(p) \/ Fails(p) \/ Kill(p)
      PROVE  DropsOldOnly'
  <2>1. /\ UNCHANGED <<file, alone>> /\ pc'[p] \notin {"clear", "removing"} /\ pc[p] # "ended"
        /\ pc'[p] # "ended" => held'[p] = held[p]
        /\ \A q \in Processes \ {p} :
              pc'[q] = pc[q] /\ rejected'[q] = rejected[q] /\ held'[q] = held[q]
    BY <1>6 DEF UseHeld, MintFails, CreateTemp, WriteTemp, StoreFails, Answered, Fails, Kill, WithToken
  <2> QED BY <2>1 DEF DropsOldOnly
<1>7. CASE UNCHANGED <<cache, process>>
  BY <1>7 DEF DropsOldOnly
<1> QED BY <1>1, <1>2, <1>3, <1>4, <1>5, <1>6, <1>7, <1>blind DEF Next, ProcessStep, Age, Revoke, vars

\* What the run zc_replaced shows needs two: a zc that nothing runs beside never
\* removes, because of a 401, a token later than the one the 401 was for.
THEOREM LaterTokenKept == Spec => []DropsOldOnly
<1>1. Init => DropsOldOnly
  BY DEF Init, DropsOldOnly
<1>2. DropsOldOnly /\ ReuseInv /\ ReuseInv' /\ [Next]_vars => DropsOldOnly'
  BY DropsKeep DEF ReuseInv
<1> QED BY <1>1, <1>2, ReuseInvariant, PTL DEF Spec
=============================================================================
