# zohocreator: a verification project

TLA+ models of the Go client for Zoho Creator and of its command `zc`, the TLC
runs that check them on small instances, and proofs, checked by TLAPS, of what
holds on every instance. Paths below are relative to the repository (`src/`).

- [The system](#the-system)
- [Inventory](#inventory)
- [Modules](#modules)
- [Runs](#runs)
- [Fairness](#fairness)
- [Proofs](#proofs)
- [Where the code and its documentation disagree](#where-the-code-and-its-documentation-disagree)
- [Not modelled](#not-modelled)
- [Plan](#plan)

## The system

A program makes one `Client` and shares it among its goroutines. Every
operation of a service (`Records`, `Publish`, `Files`, `Bulk`, `Meta`,
`CustomAPIs`) builds a `requestOptions` and calls `Client.do`, which runs the
request loop: it gets an access token from the client's *token source*, sends,
and decides from the answer whether to return, to wait and try again, or to
drop the token and try once more. The token source holds one token for
everybody, mints a new one when it is stale, and tells the application about
each change through two callbacks, `OnTokenRefresh` and `OnTokenInvalidate`,
so that the application can keep a persisted copy. `zc`, the command, is such
an application: its callbacks write and remove a cache file, which all `zc`
processes of a user share. Lists come in pages; a `Page` holds a closure that
asks for the next one.

    zc process ──callbacks──> cache file <──callbacks── zc process
        │
     service operation ──> Client.do ──Token/Invalidate──> refreshTokenSource
        │                     │                                  │
      Page ──NextPage──>      └──> Zoho server                   └──> accounts server

What is hard to get right is in the arrows. Goroutines meet in the token
source, with two locks, a callback outside of both, and requests that take
long. A 401 may be about a token that somebody has replaced meanwhile. A
request that is retried may have been applied. Processes meet in a file. The
report behind a walk changes between two pages.

## Inventory

| Component | State | Operations | Meets others through | What makes it correct |
|---|---|---|---|---|
| token source, `auth.go:27-200` | `current`, `expiry` under `mu`; `refreshSem`; `cbMu` | `Token`, `Invalidate`, `invalidateIfCurrent`, the callbacks | all goroutines of a client; the accounts server; the application's persisted copy | one mint between the callers that find a token stale; a usable token is not overwritten; the persisted copy ends at the last change; a caller whose context ends leaves |
| request loop, `client.go:81-252` | per call: attempt, `authRefreshAttempted`, body | `do`, `setHeaders`, `invalidateRejected`, `waitOrCancel` | the token source; the Zoho server | bounded requests; only a token that was rejected is dropped; a body is sent whole or not at all; every call returns |
| answers and errors, `client.go:372-460`, `errors.go` | none | `backoff`, `retryAfter`, `classifyError`, `Unwrap` | the request loop | waits grow, are capped and obey the server; overload surfaces only when no retry is left |
| pagination, `resource.go`, `publish.go:126-185`, `query.go` | `Page`: items, cursor, `hasNext`, a query in the closure | `Get`, `NextPage`, `Iter`, `Collect`, `All` | a report others edit; the query object of the consumer | every record once; the walk ends; the consumer's query is its own |
| services, `records.go`, `publish.go`, `files.go`, `bulk.go`, `meta.go`, `customapi.go` | none | some 25 operations | `do` | the request addresses what was asked for; bulk writes are filtered; an old server sees nothing new; a private link replaces the token on every page |
| zc token cache, `cmd/zc/tokencache.go`, `cmd/zc/main.go:151-188,264-277` | the cache file | `loadToken`, `storeToken`, removal | all zc processes; the token source of each | never half a token; a rejected token does not come back; a good one is used again |
| criteria, `query.go:144-235` | none | `Eq` … `Not` | `Query.Criteria`, `UpdateMany`, `DeleteMany` | the expression selects what was composed, whatever a string holds |
| configuration, `config.go`, `datacenter.go`, `types.go` | the `Config` | `validate`, `setDefaults`, `ParseDataCenter`, URLs | `NewClient`; the shell of `zc` | a client that is made has its servers, credentials and limits |
| bulk jobs, `bulk.go` and the loops in `README.md`, `docs/agent-notes.md` | the server's jobs | `Create`, `Status`, `DownloadResult` | a polling program; `zc bulk-*` | the poll ends; a result is whole or an error |
| zc commands, `cmd/zc/main.go` | output file, standard output, exit status | one for each command | the shell's environment, the cache, the client | each request has a token of its shell's credentials; success means that what was asked for was copied whole, or printed; a failure has printed nothing that looks like an answer |
| OAuth setup, `auth.go:202-312` | none | `AuthURL`, `ExchangeCode` | the accounts server | one request, one answer |

The hazards, with the line each bites at and the property that looks at it, are
listed in `PROJECT.json`.

## Modules

| Module | Models | Uses |
|---|---|---|
| `TokenSource` | the token source with its callers and callbacks | `TokenCell`, which it implements |
| `TokenCell` | what the token source promises an application: a cell with a saved copy | |
| `Client` | `do` run by several goroutines over one token source | EXTENDS `TokenSource` |
| `Configuration` | `Config`, its validation and defaults, data centers, and what `NewClient` makes of them | |
| `Answers` | the loop of a client of any configuration from the side of its numbers: waits, statuses, errors | EXTENDS `Configuration` |
| `Pagination` | a walk over a report that others edit | `ReportWalk`, which it implements |
| `ReportWalk` | what an iterator over a report promises its consumer, without pages or requests | |
| `Requests` | what each operation of the services sends | |
| `Expressions` | the text of a criteria, and a reader of it | |
| `FilteredRequests` | a consumer that composes a criteria and updates or deletes by it | EXTENDS `Requests`, `Expressions` |
| `ZcCache` | zc processes over one cache file | |
| `ZcCommands` | the commands of zc and a polling program, in several shells | EXTENDS `Configuration` |
| `TokenSourceProofs`, `ClientProofs`, `AnswersProofs`, `PaginationProofs`, `ExpressionsProofs`, `RequestsProofs`, `ZcCacheProofs`, `ZcCommandsProofs` | theorems and proofs | the module they are about; `TokenSourceProofs` is about `TokenCell` too, `RequestsProofs` about `Requests` and `FilteredRequests`, with `ExpressionsProofs` |
| `MC*` | constants for TLC | |

Conventions. A definition has the name of the function or field it stands for
where TLA+ has room for it; `PROJECT.json` maps each to its lines. A definition
whose comment starts with *Fault* is no part of a specification: it is a
neighbour with a plausible bug, and replacing the neighbour by it makes a
property fail. That is how we know that a property says something about the
code. A variable or field commented *history* records what happened for a
property to talk about; no guard reads it.

### TokenSource

`current`, `refreshSem` and `cbMu` are the fields of `refreshTokenSource`.
`expiry` is reduced to `fresh`, whether the token is further from its expiry
than `earlyRefresh`; the clock is the action `Expire`. `pc[g]` is where
goroutine `g` is, `tok[g]` its local `tok`; `persisted` is the copy that the
application's callbacks keep. The critical sections of `mu` are a few
assignments without a call in them, so each is one step: the steps of a
`Token` call are its fast path, the wait for the semaphore, the second look,
the request, its answer, the release, and then the callback's lock, check, call
and unlock. `Invalidate` is the clearing, then the same callback steps. Between
any two of them everybody else may run. Grants are numbered, so a larger token
is a younger one.

A request to the accounts server is two steps, the grant and its answer, and
may fail before or after the grant: an answer that gets lost costs a grant
without a new token. The persisted copy starts in step with the seed. A configuration may have either callback or none.

`TokenCell` says what all this is for, without callers and locks: a token is
replaced only when it is not usable, it may be dropped or age at any time, and
a single writer saves what is current, remembering that a newer change still
deserves a write. `TokenSource!Cell` is the refinement mapping: the write under
way is the callback that has passed its check, and a write is due while a
caller that made the current value current has yet to check.

### Client

`call[g]` is what goroutine `g`'s `do` holds, including where it is (`step`).
The token source's steps run inside: `AskToken` starts `Token`, whose steps are
`SourceStep`; `DropRejected` starts an invalidation, and the loop goes on when
its callback is through. The server may give any answer to any request, and the
transport may lose one (`broken`, `transient`) after the server has acted.
Requests come in three kinds, by what the loop can tell apart: `json` (a body
marshaled once, or none), `upload` (a reader, which a transport drains),
`public` (no token). A client without a `RefreshToken` has a static token
source, which ignores invalidations (`static`). A 401 whose body cannot be read
(`unread`) ends the call before the token is dropped. A refresh that fails is
one of two things to the caller: an error of the transport (`error`), or an
answer of the accounts server with a status of 400 or more, or without a token,
which `refresh` makes an `*AuthError` and `do` returns as it is (`MintRefused`,
outcome `mintRefused`). `AuthErrorMeansTwoTokens` tells these from the
`*AuthError` of a second 401 (`authError`).

### Configuration

A `Config` is a record, with sets of at most one element for its pointers; a
URL is its scheme, its host, which may be missing, and how many slashes end it,
and a name of a data
center is as `ParseDataCenter` compares it, trimmed and in lower case. There is
no state: `validate`, `setDefaults`, the two base URLs and `newTokenSource` are
operators, which `Answers` applies to every `Config` of a set, and `ZcCommands`
to the environment of a shell.

### Answers

First `NewClient`, with any configuration, which either fails or makes a client;
then the loop once more, with nothing but its counter, its waits and its result.
Durations wrap around: `Seconds(n)` is `time.Duration(n) * time.Second` in a word
of `Word` values where a second is `Second` of them, so 2^64 and 10^9 in the
code. Both are parameters, as TLC's own numbers end at 2^31; the proofs are for
any, and `CodeOverflows` is what comes of the code's. `Holds(n)` says that `n`
seconds are not too long for a duration; the properties on waits say nothing of
longer ones, since the code gets them wrong.

### Pagination

The report is a set of positions, which others insert into and delete from
between any two requests. `page.query` is the copy in the closure, `query` the
object the consumer passed and goes on using. `due` is what the walk owes its
consumer: the records from where the query starts, less those deleted since.
The server is external: it serves the window asked for and, under v2.1, issues
a cursor that continues behind the last record served. The consumer either
ranges over `Iter` or asks page by page, and may ask again after a failure
(`Resume`), which `Iter` does not. Or the consumer is a user of `zc records`
(`by`), who has no `Page` in hand but runs the command again with the offset or
the cursor it printed (`Hint`, `NextCommand`).

`ReportWalk` is what a consumer may rely on: a walk owes the records it begins
before, takes one after another, never goes back, never passes one it owes, and
ends when it owes no more. So the promise holds for a walk that breaks off
halfway, which `EveryRecordYielded` says nothing of. Two flags tell when less is
promised: `grown`, that records may have been moved towards the end, lifts the
order, and `shrunk`, that they may have been moved towards the start, lifts the
completeness. `Pagination!Walked` maps an insertion under v2 to the first, a
deletion under v2 to the second, and any edit under v2.1 to neither; a failed
request is no step of the walk at all.

### Requests

One action for each operation. A request is its method, the segments of its
path, and the names of its parameters, body keys and headers; a value is kept
only for criteria. Options are sets of the fields the consumer set. The walk
variable is what the closure of a held page has captured.

### Expressions and FilteredRequests

A text is a sequence of symbols; the characters of a string literal are symbols
too, and may be quotation marks, backslashes or operators. `Compare`, `Match`,
`joinTerms` and `Not` put texts together as the code does. The reader is ours,
and external to the repository. It goes through a text symbol by symbol (`Step`);
inside a literal it collects characters, outside it keeps the nodes of every
parenthesis that is open and contracts them to terms as these get whole. It
takes `&&` and `||` side by side without parentheses for malformed, so that no
precedence is assumed. In `FilteredRequests` a consumer holds a set of terms, each
with the meaning it was composed for, and every step adds to it an `And` or `Or`
of any sequence of them or the `Not` of any: composites stand in any place and
are used again, and so do the empty texts that `And()` and `Or()` give. It
composes before it sends, as the one does not depend on the other, and sends one
of its terms with `UpdateMany` or `DeleteMany`; `FilterAsComposed` says that the
server reads that meaning in it.

### ZcCache

Each process is one goroutine, so its token source is just the token it holds.
Creating, writing and renaming the temporary file are separate steps, each may
fail, and a process may be killed between any two. Tokens age in the order they
were granted, from *fresh* to *early* (the client mints a new one, `loadToken`
still accepts it) to *expired*, and the server may revoke one at any time.

Removing the file may fail, and zc does not look at the error (`RemoveFails`);
reading it may fail, which counts as a miss (`LaunchBlind`). Two history variables
let the properties say so: `kept` are the processes that lost a token to a 401
and could not remove the file, `alone` the one that found no other running and
could read it. `RejectedGone` is about a process that is not in `kept`, and says that
nobody, not even those that are, puts its token back; `LaterRunsReuse` is
about one in `alone`.

### ZcCommands

A process is launched in a shell, checks its arguments, opens its output file,
gets a token from the cache file of its credentials or mints one, sends, and
prints or copies what comes back. What `Client` and `ZcCache` show is one step here: a
request with its retries, a token file read or written. Commands are grouped by
what they do to the outside: print one answer (`show`, `submit`), gather a walk
and print it (`collect`) or print as it goes (`stream`), copy a download to
standard output (`download`) or to a file (`download-out`, `bulk-result`), or deal
with jobs. `program` is no command but the loop
of docs/agent-notes.md. A token is what it was granted for, so a
token used for the wrong credentials or data center can be told.

zc writes to standard output in two ways. `io.Copy` (`Copy`, `CopyEnds`,
`CopyBreaks`) returns an error, which the commands report. Everything else is
printed by `Encode`, `Println`, `Flush` or `os.Stdout.Write`, in one piece or row by
row, with the error discarded (`PrintPiece`, `PrintFails`, `PrintEnds`): a write that
fails leaves a gap (`torn`), what follows is printed all the same, and the exit
status is zero. A kill leaves whatever has been printed by then.

## Runs

| Run | Bounds | Shows |
|---|---|---|
| `source` | 2 callers, 3 grants, both callbacks | `NoWastedMint`, `NoUsableTokenOverwritten`, `LatestChangeReported`, the inductive invariant `SourceInv`, that the source implements the cell, `CancelledCallsReturn`, even if the accounts server never answers, and `PersistedSettles` |
| `client_loop` | 2 goroutines, 2 grants, 1 retry, requests and uploads, both callbacks, symmetry | the inductive invariant `ClientInv`, `SendsWithinBudget`, `RepeatsWithinBudget`, `AuthErrorMeansTwoTokens`, `RejectedNotPersisted`, `OnlyRejectedDropped` |
| `client_live` | 2 goroutines, 1 grant, requests with a token and with a private link, redirects | `DoReturns` |
| `client_public` | as `client_loop`, with private links | violated: `OnlyRejectedDropped` |
| `client_drained` | uploads, 1 retry | violated: `WholeBodySent` |
| `pages` | 5 positions, 3 taken; 3 queries; pages of 1 and 2 | `EveryRecordYielded`, `NoRecordTwice`, that the walk implements `ReportWalk`, `WalkEnds`, for both versions, by `Page` and by `zc records` |
| `pages_skip` | deletions only | violated: `AllYielded` |
| `requests` | one name, four queries, every operation and option; criteria of three atoms, composed in up to three steps, joined two at a time | `WritesAreScoped`, `V2Spared`, `LinkInsteadOfToken`, `WalkKeepsQuery`, `FilterAsComposed` |
| `answers_retries` | 375 configurations, up to 10 retries, 12 statuses, 7 Retry-After values, a second of 10 units in a word of 4096 | `ClientCanWork`, `NeverHot`, `WaitAsTold`, `WaitsDouble`, `RetriesUsedUp` |
| `zc` | 2 processes, 2 grants, 1 kill | `FileWhole`, `RejectedGone`, `CacheInv`, `LaterRunsReuse`, `RevokedHeals` |
| `zc_replaced` | 2 processes, 2 grants | violated: `ReplacementKept` |
| `commands` | one process after another, 11 kinds of command, 7 shells, 2 jobs | `TokenOfOwnCredentials`, `ExitTellsTheOutcome`, `PollingEnds` |

Why these bounds. In the token source a hazard needs a caller in its callback
or its request and another that changes the token meanwhile; three grants let
the oldest report be overtaken twice. That more callers add nothing is what the
proof shows for the invariants and the refinement. Two goroutines are what
it takes for one to hold a stale 401 while the other replaces the token; two
grants beside the seed are what one request can use up, plus one for the other
goroutine. One transient retry together with the 401 retry covers every order
in which the two budgets can be spent. Pages of one and two over three to five
records come out even and uneven, with room to insert before and between. With
names of two values `Requests` tells an address from a missing one, and no
operation looks at a name any closer. In `Answers` the word holds 204 seconds,
so 10 retries go past the attempt at which the backoff reaches its cap and past
the last power of two that fits, and the headers lie on both sides of the last
number that does; its configurations are every
combination of what decides on servers and tokens, every number at, below and
above its limit, and every data center. Three steps of composing give each of
`And`, `Or` and `Not` within any other, on the left, on the right or on both
sides, and a gap in any place; the strings hold
each character that could end a literal. Commands run one after the other,
as what they share is files: the races over them are `ZcCache`'s. The shells are
one credential set in two data centers, one without the cache, one with a given
token, and three no client can be made in; two jobs tell a program's own from
another. Two processes, two grants and a
kill contain every pair of overlapping runs of zc with a rejected token and its
replacement; more of each is left to the proof.

`CHECK_DEADLOCK FALSE` is in the runs of `Pagination` and `Answers`, whose
consumer is done at some point. Nothing else may stop.

Time bounds are in the guards: `MaxMints` and `MaxKills` end what the servers
and the operating system may do, and never what the client does. A caller that
needs a token after the last grant gets an error from the accounts server.

## Fairness

`TokenSource!FairSpec` asks that goroutines run and callbacks return (weak
fairness), and that a goroutine waiting for the semaphore or for `cbMu` is
served in its turn: Go's channels queue their senders, and a `sync.Mutex`
changes to first-in-first-out once a waiter has starved for a millisecond,
hence strong fairness. Nothing is assumed of the accounts server: an
`HTTPClient` given by the application may have no timeout (`config.go:111`), so
a request need only end when its context does.

`Client!ClientFairSpec` assumes in addition that each exchange ends: without
an `HTTPClient` of its own, `setDefaults` makes one with a `Timeout`
(`config.go:188-194`), and there is no other way for `do` to return.

`Pagination!FairSpec` has a consumer that goes on reading and a request for the
next page that does not fail for ever; a consumer may stop at any item.
`ZcCache!FairSpec` has users that keep running `zc`, and requests of theirs
that reach the server now and then, as otherwise nobody would learn that a
token was revoked. It also has strong fairness of reading the file (`Launch`) and of
removing it (`Remove`): under permissions that forbid either, the revoked token stays,
and `RevokedHeals` does not hold. `ZcCommands!FairSpec` asks that a process that has been
launched goes on, and that the server works on its jobs.

## Proofs

Everything below holds for any set of callers or processes, any number of
grants and retries, any names and any callbacks. The only assumptions are those
the modules name (`NoCaller` is no caller, `Hooks` are among the two callbacks,
bounds are natural numbers, a `Config` is one that Go's types allow, a
report is finite, a walk is resumed with a cursor of the server's, the terms a
consumer starts from are what `Eq` to `EndsWith` make of a name and a literal) and those a
theorem states.

**`TokenSourceProofs`.** Type correctness (`TypeCorrect`) and `SourceInv`
(`SourceInvariant`) are proved together, as one inductive invariant:

- `TypeOK`: the types, with the numbers a token can have.
- `LocksHeld`: a caller holds `refreshSem` or `cbMu` exactly while it is in the
  sections they protect. Mutual exclusion follows.
- `MissStands`: whoever missed the cache under the semaphore still misses it
  when it asks for and stores a token. Nobody else can store one, and neither
  an expiry nor an invalidation makes a token usable. `OneMintPerExpiry` and
  `UsableTokenKept` are action properties that follow from it.
- `ReportsDue`: what waits to be reported is a change that has a callback.
- `LatestChangeReported`: either the last change still has a reporter on its
  way, or it is the persisted one and no older report can still run. Needed
  for this is that the check and the call of a callback are inside `cbMu`.

`PersistedCopy` follows for a source at rest. `Refinement` shows with the same
invariant that every step is a step of the cell or a stutter: `StoreToken` is
`Replace` (by `MissStands`), a clearing is `Drop`, the check that succeeds is
`BeginWrite`, the call `EndWrite`. What the application relies on is proved in
the cell, where nobody has to be waited for: an outdated write is never the last
word (`SavedCopyFollows`). `LastReportCounts` takes it over to the source,
callers, locks and callbacks included, by `Refinement` alone.

**`ClientProofs`.** `ClientInv` is `SourceInv` with what the calls add to it, and
again one inductive invariant (`ClientInvariant`):

- `Counted`: `sends`, `attempt` and the 401 retry move together, so a call's
  place in the loop says how often it has sent.
- `SourceKnown`, `CallsKnown`: every token anybody holds has been granted, so a
  grant is a number nobody holds yet.
- `CarriesToken`: while an answer is on its way, the call has the token it sent.
- `RejectedApart`: a token a call saw rejected and asked to have dropped is
  neither current nor the call's own any more, unless the drop is still due.
- `RejectedCounted`: as many rejected tokens as 401s.
- `SeedHeld`: a static source keeps its seed.

`LoopUsesSource` shows that every step of the loop is a step of the token source
or leaves it alone, so `LoopSharesTokens` takes over what is proved of the
source. `BudgetKept` and `RepeatsKept` need nothing else. Three results have
hypotheses: `TwoTokensRejected` assumes no redirects, and says of a mint that the
accounts server refused that no more than one token was rejected before it;
`RejectedDropped` also that
no request goes without a token, as `client_public` shows it must; and
`RejectedForgotten` also that both callbacks are set.

**`ZcCacheProofs`.** `FileWhole` and `RejectedGone` are not inductive: a process
about to rename could put a rejected token back. `CacheInv` adds why it does
not. A token on its way to the file is known to the one process it was granted
to (`StoredOnce`), which cannot have lost it to a 401 since it has not sent
anything with it yet; numbers above `mints` are known to nobody
(`KnownTokens`); and what is renamed into place has been written completely
(`TempWhole`). `CacheInvariant`, `FileNeverHalfWritten` and
`RejectedTokenStaysGone` are the results, for any number of processes and kills,
and whichever stores and removals fail: a token that stays because its removal
failed was rejected by a process in `kept`, and another process that is rejected
with the same token removes it for good.
`GoodTokenReused` needs more: that a zc which nothing has run beside has the file
to itself (`StillAlone`), and so holds its token for as long as that is good
(`HoldsGood`): a token that has aged or was revoked does not become good again.
`LaterTokenKept` is the other side of the run `zc_replaced`: a zc that nothing
runs beside removes no later token than the one its 401 was for, so the loss
that run shows takes a second process.

**`PaginationProofs`.** First that `InOrder` is an order: ranks leave no gap
(`RanksAreAll`, by counting, as there are as many ranks as records), so a window of
it is what its bounds say (`WindowIs`). Then that one request, of either version,
answers with the first records asked for and tells whether others remain
(`Served`), and that what the next one asks for, be it by the closure of
`NextPage` or by the flags zc has printed, is what came after the page
(`NextPageKeeps`, `NextCommandKeeps`). With that, `TakenBefore` (what was taken is in
order and before what is ahead) survives deletions, which lower ranks, and
`NoneLost` (what is owed was taken or is ahead) survives insertions, which raise
them; a cursor minds neither. `EachRecordOnce` and `AllRecordsYielded` follow, for
reports and pages of any size.

`Refinement` shows that every step is one of `ReportWalk` or a stutter. It needs
more than those two, as a record that is owed could still be passed over inside
a page: `Passing` says that the page's rest is in order even when the walk is
not, and that what is owed and was not taken comes after it. A request
establishes this, since it answers with the first records asked for
(`FetchPasses`); yielding keeps it; an insertion moves no record past another;
and a deletion, under v2, ends the promise. With that a yield is `Take`
(`HeadPasses`), a request for the next page a stutter, and an end `End`.

**`RequestsProofs`.** `OldServersSpared`: whatever the names, criteria, queries
and methods of custom APIs, a v2 server sees none of the v2.1-only parameters,
keys and headers, bulk reads excepted. `LinkOrToken` and `FiltersKept` are about
a walk of any length: `WalkInv` says of the page held that the query in its
closure still gives the parameters of the walk's first request, but for the
position, and that its link is the first one's; requests in between are not
those of a walk (`Single`) and leave it alone. `NoWriteUnscoped` takes the
operations one by one: those on one record reject an empty id before they build
a path, and the id is its eighth segment and its last (`RecordPath`, `ByID`);
those on many records reject a blank criteria; and nothing else sends a PATCH or
a DELETE, but for the methods of custom APIs, which the property leaves out.
`RequestsInv` puts the three together with the types. A consumer that composes
its criteria (`FilteredRequests`) only chooses among the same operations:
`Senders` reduces both specifications to `AnySpec`, an operation with any
criteria whatever, so each theorem holds of both.

**`ExpressionsProofs`.** What a text of any length reads as is a matter of
induction over the text, and the induction rules of the library take the
predicate as an operator, which the provers cannot instantiate. So `Induction` is
proved for a *set* of numbers: if one were outside, there would be a least one
(`WFMin`). With it, the reader's states are one run (`RunUnique`), reading a text
with another behind it is reading on (`ReadConcat`), and what the backslashes of
`quoteString` add, the reader takes away again (`Spelled`, `AllSpelled`,
`QuotedReads`).

Two predicates then carry the argument from text to text. `Leaves(text, nodes)`:
wherever a reader comes upon the text with no operator waiting, it has these
nodes more afterwards, and no operator waiting. It composes (`LeavesConcat`),
comparisons and matches leave one term each (`CompareLeaves`, `MatchLeaves`), and
parentheses leave what their inside groups to (`ParenthesesLeave`, `NotLeaves`).
`StandsFor(text, means)`: the text leaves the term it means, or, where an `And()`
or `Or()` of nothing is in it, nodes that no parenthesis and no end of text can
make a term of (`Broken`). `JoinStands` goes through the terms of an `And` one by
one: all terms, with the same connective between them, or broken for good.
`NotStands` and `AtomStands` are the other ways to compose, and `ReadsAs` says
that a text that stands for something is read as that.

`FiltersRead` (`FilterAsComposed`), in `RequestsProofs`, is what it is for: that
every text a consumer holds stands for what it composed (`TermsStand`) is
inductive, for any strings, names and literals and any number of terms, joined
and negated in any place and to any depth; and a text that is sent is not empty. `TermsStand` speaks of every reader
a text could come before, so TLC cannot evaluate it; the run `requests` checks
`FilterAsComposed` itself.

**`AnswersProofs`.** `AcceptedWorks`: for any set of configurations, whatever
`validate` accepts and `setDefaults` completes makes a client with a server to ask
(`BothHosts`: every data center names both), the credentials or the token it
needs, a time limit that is positive, and a budget (`Completed`, `ClientWorks`).
`FailsLast` needs that the loop stays within that budget (`WithinBudget`).

`WaitsComputed` says that the last wait is what `retryAfter` and `backoff` give for
the attempt and the header it was for, and is inductive together with the
budget. What those give is worked out for any word and any length of a second:
whatever comes of a product fits the word (`WrappedFits`), it is the product
itself where `Holds` says so (`SecondsValues`), and up to the 34th attempt the
powers double (`Doubling`, exponent by exponent, `BackoffValues`). So `HeaderObeyed`
(`WaitAsTold`) has no hypothesis, for any header a duration holds; `RetriesWait`
(`NeverHot`) and `BackoffDoubles` (`WaitsDouble`) need that the configurations allow
no more than 34 retries (`FewRetries`), as only then every power of two is known
to be positive. `CodeOverflows` says where that ends with the code's 10^9 and 2^64:
a duration holds 9223372036 seconds and 2^33 of them; a header from 9223372037
to 18446744073 makes a negative wait, whatever the attempt, and so does the
backoff after the one of attempt 33.

**`ZcCommandsProofs`.** `CommandsInv`, for any number of shells, processes, files
and kills, is why a token never strays (`OwnTokenSent`) and an exit status is
true (`ExitIsTrue`):

- `Launched`: a process at work has a shell that a client can be built from, and
  its request is one of the command's own.
- `OwnFiles`: a token file holds nothing, or the token granted to the credentials
  that its path is computed from.
- `OwnToken`: a process holds and sends the token of its shell, or holds none yet
  and can mint one.
- `Opened`: who copies an answer into a file has opened it for the job it asks
  about, and closes it with the whole answer in it; who copies does not print.
- `Quiet`: nothing is printed before everything is there, except by a command that
  streams or copies to standard output; and what is copied there has no gaps.
- `Told`: what a finished command said of its output is true: of what was copied,
  up to the error of `Close` of `bulk-result`; of what was printed, up to writes
  that failed.
- `Running`: there is no exit status before the end.

Out of the prover's reach, and left to TLC: liveness under fairness
(`CancelledCallsReturn`, `PersistedSettles`, `DoReturns`, `WalkEnds`,
`RevokedHeals`, `PollingEnds`). Every other property of a passing run is stated by
a theorem.

## Where the code and its documentation disagree

Four runs end in a violation on purpose.

- `client_public`: a 401 for a request with a private link, which carried no
  token, drops the cached OAuth token (`client.go:91`): a missing header is
  taken for one that a redirect removed.
- `client_drained`: a 5xx, a 429 or a network error makes `do` send an upload
  again, from a reader that is at its end (`client.go:229`). The 401 branch
  knows about this and does not retry.
- `pages_skip`: under v2, deleting a record that was already yielded moves the
  next ones under the offset, and one is skipped (`resource.go:132`).
- `zc_replaced`: the 401 of one zc removes the file after another has put a
  fresh token into it (`cmd/zc/main.go:185`).

Smaller ones, which have no run.

In the loop:

- "`AuthError` represents a 401 response" (`errors.go:55`), but a mint that the
  accounts server refuses is one too, whatever its status from 400 on, or 200
  without a token (`auth.go:179`).
- A second 401 returns without dropping the token it was for (`client.go:242`),
  and so does a 401 whose body cannot be read (`client.go:210`):
  `RejectedNotPersisted` leaves both out.
- From attempt 34 on `1<<attempt * time.Second` overflows and `backoff`, "capped
  at 30s", is negative or zero (`client.go:447`). `MaxRetries` has no upper
  bound (`CodeOverflows`).
- `retryAfter` takes any positive number, but from 9223372037 seconds on the product
  overflows (`client.go:424`): a client that is told to stay away for centuries
  comes back at once (`CodeOverflows`).
- A 4xx without a type of its own unwraps to `ErrServer`, which
  docs/agent-notes.md:69 reserves for 5xx.

In configurations:

- `BaseURL` "must include scheme + host" (`config.go:101`), but `validate` looks at the
  scheme only (`config.go:158`) and accepts `https://`, and likewise for
  `AccountsURL`. The client that is made has no server to ask: `ClientCanWork`
  leaves these URLs out.
- `DataCenter` is "required unless BaseURL and AccountsURL are both set"
  (`config.go:60`), but `validate` is content with a `BaseURL`: the accounts server
  is then `https://`, and the first mint fails. `ClientCanWork` leaves this
  configuration out.
- zc hands `ZOHO_ACCESS_TOKEN` to a client with a refresh token, which counts it
  as expired and never sends it (`cmd/zc/main.go:174-176` says so).

In services:

- `BulkService.Create` sends `max_records` and `fields` under v2 although "the
  v2.1-only knobs are silently dropped if you set them" (README.md:69), so
  `V2Spared` leaves it out.
- "Non-string types are rendered without quotes" (`query.go:145`), but the types
  `formatLiteral` does not list, unsigned and named ones among them, get quotes
  (`query.go:182`). Where docs/agent-notes.md:155 passes a quoted string to `Gt`,
  its quotes are escaped and quoted once more.
- A term of the caller's own that holds an `||` is not put in parentheses inside
  `And`; `FilterAsComposed` is about terms made by the package.
- The polling loop of README.md:181 waits for `Completed` only: for a job that
  has failed it does not end. `PollingEnds` is about the loop of
  docs/agent-notes.md.

In zc:

- The error of removing the cache file is discarded (`cmd/zc/main.go:185`), also
  by `oauth refresh`, "the command to reach for after revoking a token"
  (`cmd/zc/main.go:270`): where the file can be read but neither removed nor
  replaced, every zc that follows meets the rejected token, gets a 401 and mints
  anew. `RejectedGone` leaves such a process out.
- The errors of writing to standard output are discarded wherever an answer is
  printed (`cmd/zc/main.go:301`, `466`, `494`, `518`, `771`, `827`): on a full disk zc
  exits with zero and nothing, or a part of the answer, or an answer with a gap is
  there. `ExitTellsTheOutcome` allows for `torn`.
- `bulk-result` does not look at the error of `Close` and reports success
  (`cmd/zc/main.go:722`): `ExitTellsTheOutcome` leaves this out.
- `records -from` with a negative number is sent without an offset, and the hint
  for the next run counts from the negative one (`cmd/zc/main.go:448`).
- `oauth exchange <code> -client … -secret …` is how README.md:59 and the usage
  text have it; parsing ends at the code and the flags are ignored
  (`cmd/zc/main.go:247`).

## Not modelled

Wording of errors, logging, the layout of JSON and CSV, and the parsing of flags. Decoding of answers, past
what decides on the next step. Building and reading files. `AuthURL` and
`ExchangeCode`, which build one URL, or send one request, and keep nothing. `Query.Extra` and
headers of the consumer's own: what a server makes of two values of a parameter
is not in this repository. A callback that calls back into the client, which
its documentation forbids. In `Client`, a request with a reader and without a token (a custom API with a
public key and a raw body): it is an `upload` to the retries and `public` to the
token source. A persisted copy that differs from the seed when the client is made.
`url.PathEscape` leaves `.` and `..` as they are; a name or id is taken for an ordinary
one. Of a `Config`, `UserAgent`. Of the meta service, the
shape of its answers.

## Plan

The most important behaviour first: the token that everybody shares, then the
loop that uses it, then what persists it, then what is built on the loop.

1. Done, models: `TokenSource` with `TokenCell`; `Client`; `Configuration` and
   `Answers`; `Pagination`; `Requests`, `Expressions` and `FilteredRequests`;
   `ZcCache`; `ZcCommands`.
2. Done, proofs: of the token source and the cell it implements; of the request
   loop, with `LoopUsesSource`; of accepted configurations; of walks over a report;
   of the cache; of requests, single and composed, and of the criteria in them; of
   the commands of zc; of the waits between retries; of `ReportWalk`, which a walk
   implements.
3. Not planned: an abstract cache for `ZcCache` to implement. The files of several
   zc processes keep no promise worth stating beyond `CacheInv`: a 401 removes what
   others have stored (`zc_replaced`), and a slow rename may put an older token
   over a newer one. What one zc by itself may rely on is proved.
