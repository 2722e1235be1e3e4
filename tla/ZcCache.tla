------------------------------ MODULE ZcCache ------------------------------
(***************************************************************************)
(* The token cache of the zc command (cmd/zc/tokencache.go, and buildClient *)
(* and oauthRefresh of cmd/zc/main.go).  Every zc invocation is a process   *)
(* of its own: it seeds its client from the cache file, sends its requests  *)
(* one after the other, and its client's two callbacks write and remove the *)
(* file, which the other processes read, write and remove meanwhile.        *)
(*                                                                          *)
(* A process has one goroutine, so its client's token source is just the    *)
(* token it holds; TokenSource models the source under concurrent callers.  *)
(* Tokens are numbered in the order they are granted.                       *)
(***************************************************************************)
EXTENDS Integers, FiniteSets

CONSTANTS
    Processes,  \* zc processes; one that has ended can be launched again
    Commands,   \* a subset of {"call", "refresh" (zc oauth refresh)}
    MaxMints,   \* bound: grants of the accounts server
    MaxKills    \* bound: processes killed

ASSUME CommandsAssumption == Commands \subseteq {"call", "refresh"}
ASSUME BoundsAssumption == MaxMints \in Nat /\ MaxKills \in Nat

NoToken == 0
Tokens == 1 .. MaxMints

\* What reading the file gives: nothing, a token, or text cut short.
HalfWritten == MaxMints + 1
Contents == Tokens \cup {NoToken, HalfWritten}

VARIABLES
    file,     \* the cache file: NoToken when it does not exist
    temp,     \* temp[p]: the content of p's temporary file
    pc,       \* where process p is
    command,  \* what p was launched for
    held,     \* refreshTokenSource.current of p's client
    rejected, \* authRefreshAttempted: the token the request's first 401 was for
    mints,    \* tokens granted so far
    age,      \* "fresh", "early" (near expiry) or "expired"
    revoked,  \* tokens the server no longer accepts
    alone,    \* history: the process no other has run beside since its launch,
              \* if it could read the file
    kept,     \* history: the processes that could not remove the rejected token
    kills

cache == <<file, temp>>
history == <<alone, kept>>
process == <<pc, command, held, rejected, history>>
server == <<mints, age, revoked>>
vars == <<file, temp, process, server, kills>>

Locations == {"ended", "clear", "removing", "token", "create", "write", "rename",
              "send"}

Init ==
    /\ file = NoToken
    /\ temp = [p \in Processes |-> NoToken]
    /\ pc = [p \in Processes |-> "ended"]
    /\ command = [p \in Processes |-> "call"]
    /\ held = [p \in Processes |-> NoToken]
    /\ rejected = [p \in Processes |-> NoToken]
    /\ mints = 0
    /\ age = [t \in Tokens |-> "fresh"]
    /\ revoked = {}
    /\ alone = {}
    /\ kept = {}
    /\ kills = 0

Usable(t) == t \in Tokens /\ age[t] = "fresh"
Accepted(t) == t \in Tokens /\ age[t] # "expired" /\ t \notin revoked

Goto(p, location) == pc' = [pc EXCEPT ![p] = location]
Running == {p \in Processes : pc[p] # "ended"}

\* A process that ends takes what it held with it.
End(p) == Goto(p, "ended") /\ held' = [held EXCEPT ![p] = NoToken]

\* With a token in hand oauth refresh prints it and ends.
WithToken(p) ==
    \/ command[p] = "refresh" /\ End(p)
    \/ command[p] # "refresh" /\ Goto(p, "send") /\ UNCHANGED held

----------------------------------------------------------------------------
(* Start: buildClient *)

\* Fault: the file is never read.
LoadNothing == NoToken

\* loadToken: anything incomplete or expired is a miss.
Load == IF file \in Tokens /\ age[file] # "expired" THEN file ELSE NoToken

Begin(p) ==
    /\ pc[p] = "ended"
    /\ \E c \in Commands :
        /\ command' = [command EXCEPT ![p] = c]
        /\ Goto(p, IF c = "refresh" THEN "clear" ELSE "token")
    /\ rejected' = [rejected EXCEPT ![p] = NoToken]
    /\ kept' = kept \ {p}
    /\ UNCHANGED <<cache, server, kills>>

Launch(p) ==
    /\ Begin(p)
    /\ held' = [held EXCEPT ![p] = Load]
    /\ alone' = IF Running = {} THEN {p} ELSE {}

\* A file that cannot be read is a miss too.
LaunchBlind(p) ==
    /\ Begin(p)
    /\ held' = [held EXCEPT ![p] = NoToken]
    /\ alone' = {}

----------------------------------------------------------------------------
(* The token source of p's client *)

\* oauthRefresh: Invalidate before Token.
Clear(p) ==
    /\ pc[p] = "clear"
    /\ held' = [held EXCEPT ![p] = NoToken]
    /\ Goto(p, "removing")
    /\ UNCHANGED <<cache, command, rejected, history, server, kills>>

\* OnTokenInvalidate: the file goes, whatever it holds by now.
Remove(p) ==
    /\ pc[p] = "removing"
    /\ file' = NoToken
    /\ Goto(p, "token")
    /\ UNCHANGED <<temp, command, held, rejected, history, server, kills>>

\* Its error is not looked at: the file stays, and p goes on just so.
RemoveFails(p) ==
    /\ pc[p] = "removing"
    /\ kept' = IF rejected[p] # NoToken THEN kept \cup {p} ELSE kept
    /\ Goto(p, "token")
    /\ UNCHANGED <<cache, command, held, rejected, alone, server, kills>>

\* Token, with a usable token in memory.
UseHeld(p) ==
    /\ pc[p] = "token"
    /\ Usable(held[p])
    /\ WithToken(p)
    /\ UNCHANGED <<cache, command, rejected, history, server, kills>>

\* Token, without: refresh, then OnTokenRefresh.
Mint(p) ==
    /\ pc[p] = "token"
    /\ ~Usable(held[p])
    /\ mints < MaxMints
    /\ mints' = mints + 1
    /\ held' = [held EXCEPT ![p] = mints']
    /\ Goto(p, "create")
    /\ UNCHANGED <<cache, command, rejected, history, age, revoked, kills>>

\* The accounts server refuses or does not answer: the command fails.
MintFails(p) ==
    /\ pc[p] = "token"
    /\ ~Usable(held[p])
    /\ End(p)
    /\ UNCHANGED <<cache, command, rejected, history, server, kills>>

----------------------------------------------------------------------------
(* OnTokenRefresh: storeToken *)

\* Fault: the cache file itself is created and written.
CreateInPlace(p) ==
    /\ pc[p] = "create"
    /\ file' = HalfWritten
    /\ temp' = [temp EXCEPT ![p] = HalfWritten]
    /\ Goto(p, "write")
    /\ UNCHANGED <<command, held, rejected, history, server, kills>>

CreateTemp(p) ==
    /\ pc[p] = "create"
    /\ temp' = [temp EXCEPT ![p] = HalfWritten]
    /\ Goto(p, "write")
    /\ UNCHANGED <<file, command, held, rejected, history, server, kills>>

WriteTemp(p) ==
    /\ pc[p] = "write"
    /\ temp' = [temp EXCEPT ![p] = held[p]]
    /\ Goto(p, "rename")
    /\ UNCHANGED <<file, command, held, rejected, history, server, kills>>

Rename(p) ==
    /\ pc[p] = "rename"
    /\ file' = temp[p]
    /\ temp' = [temp EXCEPT ![p] = NoToken]
    /\ WithToken(p)
    /\ UNCHANGED <<command, rejected, history, server, kills>>

\* Fault: the error of writing the temporary file is not looked at.
StoreFailsUnnoticed(p) ==
    /\ pc[p] \in {"create", "write", "rename"}
    /\ IF pc[p] = "write"
       THEN Goto(p, "rename") /\ UNCHANGED <<temp, held>>
       ELSE WithToken(p) /\ temp' = [temp EXCEPT ![p] = NoToken]
    /\ UNCHANGED <<file, command, rejected, history, server, kills>>

\* One of the steps fails: a warning, the temporary file is removed, and the
\* command goes on with the token it holds.
StoreFails(p) ==
    /\ pc[p] \in {"create", "write", "rename"}
    /\ temp' = [temp EXCEPT ![p] = NoToken]
    /\ WithToken(p)
    /\ UNCHANGED <<file, command, rejected, history, server, kills>>
----------------------------------------------------------------------------
(* The command's requests *)

\* An answer other than 401: the command sends another request or is done.
Answered(p) ==
    /\ pc[p] = "send"
    /\ Accepted(held[p])
    /\ (Goto(p, "token") /\ UNCHANGED held) \/ End(p)
    /\ rejected' = [rejected EXCEPT ![p] = NoToken]
    /\ kept' = kept \ {p}
    /\ UNCHANGED <<cache, command, alone, server, kills>>

\* Fault: the token is dropped in memory, without its callback.
RejectedQuietly(p) ==
    /\ pc[p] = "send"
    /\ ~Accepted(held[p])
    /\ rejected[p] = NoToken
    /\ rejected' = [rejected EXCEPT ![p] = held[p]]
    /\ held' = [held EXCEPT ![p] = NoToken]
    /\ Goto(p, "token")
    /\ UNCHANGED <<cache, command, history, server, kills>>

\* Fault: the first 401 already fails the command.
RejectedForGood(p) ==
    /\ pc[p] = "send"
    /\ ~Accepted(held[p])
    /\ rejected[p] = NoToken
    /\ End(p)
    /\ UNCHANGED <<cache, command, rejected, history, server, kills>>

\* 401: drop the token and retry once.
Rejected(p) ==
    /\ pc[p] = "send"
    /\ ~Accepted(held[p])
    /\ rejected[p] = NoToken
    /\ rejected' = [rejected EXCEPT ![p] = held[p]]
    /\ held' = [held EXCEPT ![p] = NoToken]
    /\ kept' = kept \ {p}
    /\ Goto(p, "removing")
    /\ UNCHANGED <<cache, command, alone, server, kills>>

\* A second 401, no answer, or any other failure: the command fails.
Fails(p) ==
    /\ pc[p] = "send"
    /\ End(p)
    /\ UNCHANGED <<cache, command, rejected, history, server, kills>>

----------------------------------------------------------------------------
(* Meanwhile *)

Kill(p) ==
    /\ pc[p] # "ended"
    /\ kills < MaxKills
    /\ kills' = kills + 1
    /\ temp' = [temp EXCEPT ![p] = NoToken]
    /\ rejected' = [rejected EXCEPT ![p] = NoToken]
    /\ End(p)
    /\ UNCHANGED <<file, command, history, server>>

\* Tokens are granted for the same time, so they age in order.
Age(t) ==
    /\ t <= mints /\ age[t] # "expired"
    /\ \A older \in 1 .. t - 1 : age[older] = "expired" \/ (age[t] = "fresh" /\ age[older] = "early")
    /\ age' = [age EXCEPT ![t] = IF @ = "fresh" THEN "early" ELSE "expired"]
    /\ UNCHANGED <<cache, process, mints, revoked, kills>>

Revoke(t) ==
    /\ t <= mints /\ t \notin revoked
    /\ revoked' = revoked \cup {t}
    /\ UNCHANGED <<cache, process, mints, age, kills>>

----------------------------------------------------------------------------
ProcessStep(p) ==
    \/ Launch(p) \/ LaunchBlind(p) \/ Clear(p) \/ Remove(p) \/ RemoveFails(p)
    \/ UseHeld(p) \/ Mint(p) \/ MintFails(p)
    \/ CreateTemp(p) \/ WriteTemp(p) \/ Rename(p) \/ StoreFails(p)
    \/ Answered(p) \/ Rejected(p) \/ Fails(p)

Next ==
    \/ \E p \in Processes : ProcessStep(p) \/ Kill(p)
    \/ \E t \in Tokens : Age(t) \/ Revoke(t)

Spec == Init /\ [][Next]_vars

\* Commands are run again and again, each runs to its end, the server is not
\* unreachable for ever, and the file can be read and removed now and then.
FairSpec ==
    /\ Spec
    /\ \A p \in Processes :
          /\ WF_vars(ProcessStep(p))
          /\ SF_vars(Launch(p)) /\ SF_vars(Rejected(p)) /\ SF_vars(Remove(p))
----------------------------------------------------------------------------
(* Properties *)

TypeOK ==
    /\ file \in Contents
    /\ temp \in [Processes -> Contents]
    /\ pc \in [Processes -> Locations]
    /\ command \in [Processes -> {"call", "refresh"}]
    /\ held \in [Processes -> Tokens \cup {NoToken}]
    /\ rejected \in [Processes -> Tokens \cup {NoToken}]
    /\ alone \subseteq Processes /\ kept \subseteq Processes
    /\ mints \in 0 .. MaxMints
    /\ age \in [Tokens -> {"fresh", "early", "expired"}]
    /\ revoked \subseteq Tokens
    /\ kills \in 0 .. MaxKills

\* "a concurrent zc never reads a half-written file": not even when the zc
\* that writes it fails or is killed.
FileWhole == file # HalfWritten

\* Once a process got past the 401 for a token, and could remove the file, the
\* file no longer holds that token, and no process that still writes, and none
\* whose own removal fails, brings it back.
RejectedGone ==
    \A p \in Processes :
        rejected[p] # NoToken /\ pc[p] # "removing" /\ p \notin kept => file # rejected[p]

\* "later runs reuse it until it nears expiry": a zc that could read the file and
\* has no other beside it does not spend a grant while the file holds a good
\* token, whichever of the earlier ones were killed or failed to store or remove.
LaterRunsReuse ==
    [][\A p \in Processes :
        pc[p] = "token" /\ pc'[p] = "create" /\ command[p] = "call" /\ p \in alone
            => ~(Usable(file) /\ file \notin revoked)]_vars

\* A 401 does not cost the other processes the token that has replaced the
\* rejected one in the file.
ReplacementKept ==
    [][\A p \in Processes :
        pc[p] = "removing" /\ pc'[p] = "token" /\ rejected[p] # NoToken
            => file \in {NoToken, rejected[p]}]_vars

\* A revoked token does not stay in the file for as long as it looks valid,
\* unless every attempt to read or to remove the file fails.
RevokedHeals ==
    \A t \in Tokens : file = t /\ t \in revoked ~> file # t \/ age[t] # "fresh"
----------------------------------------------------------------------------
(* Why FileWhole and RejectedGone hold *)

Storing(p) == pc[p] \in {"create", "write", "rename"}

\* No token is known before it is granted.
KnownTokens ==
    /\ file <= mints
    /\ \A p \in Processes : held[p] <= mints /\ rejected[p] <= mints

\* What is being renamed into place is complete.
TempWhole == \A p \in Processes : pc[p] = "rename" => temp[p] = held[p]

\* A token on its way to the file is known to the zc it was granted to, and to
\* no other: no process reads it, loses it to a 401 or writes it a second time.
StoredOnce ==
    \A p \in Processes : Storing(p) =>
        /\ held[p] \in Tokens
        /\ file # held[p]
        /\ \A q \in Processes : rejected[q] # held[p] /\ (q # p => held[q] # held[p])

CacheInv == TypeOK /\ KnownTokens /\ TempWhole /\ StoredOnce /\ FileWhole /\ RejectedGone

----------------------------------------------------------------------------
(* Why LaterRunsReuse holds *)

\* A zc that nothing has run beside still has the file to itself.
StillAlone == \A p \in alone : \A q \in Processes \ {p} : pc[q] = "ended"

\* It holds the token of the file, as long as that is good; only oauth refresh
\* drops one that has not been rejected.
HoldsGood ==
    \A p \in Processes :
        /\ pc[p] = "clear" => command[p] = "refresh"
        /\ p \in alone /\ pc[p] # "ended" /\ command[p] = "call"
                /\ Usable(file) /\ file \notin revoked
             => held[p] = file

ReuseInv == CacheInv /\ StillAlone /\ HoldsGood
============================================================================
