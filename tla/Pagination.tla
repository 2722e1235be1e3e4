----------------------------- MODULE Pagination -----------------------------
(***************************************************************************)
(* Page, NextPage and Iter with runFetch and decodePage (src/resource.go), *)
(* and their twin fetchPublishPage (src/publish.go): a consumer walks a    *)
(* report page by page while others edit it, requests fail and are         *)
(* repeated, and the consumer reuses its own Query object.                 *)
(*                                                                         *)
(* A record is its position in the report's order.  v2 pages by offset,    *)
(* v2.1 by a cursor the server issues; the server is external: it serves   *)
(* the window asked for, and its cursor resumes after the last record of   *)
(* the page.  The consumer is a program with a Page in hand, or a user of  *)
(* zc records (src/cmd/zc/main.go), who launches it again with the offset  *)
(* or the cursor it printed.                                               *)
(***************************************************************************)
EXTENDS Integers, SequencesExt

CONSTANTS
    Positions,     \* the positions records can have
    Stored,        \* those taken when the walk begins
    Edits,         \* what others do meanwhile: a subset of {"insert", "delete"}
    Queries,       \* the consumer's: From, Limit, and RecordCursor, to resume a walk
    DefaultLimit,  \* 200 in the code
    CursorPage     \* records per page under v2.1, the server's choice

ASSUME QueriesAssumption ==
    Queries \subseteq [from : Int, limit : Int, cursor : Positions \cup {0}]
ASSUME PositionsAssumption ==
    Positions \subseteq Nat \ {0} /\ Stored \subseteq Positions /\ IsFiniteSet(Stored)
ASSUME LimitAssumption == DefaultLimit \in Nat \ {0} /\ CursorPage \in Nat \ {0}

NoCursor == 0

VARIABLES
    version,  \* Config.APIVersion
    by,       \* "page", or "zc": launched once for each page
    table,  \* the records of the report, on the server
    used,   \* positions ever taken: a deleted record does not come back
    query,  \* the consumer's *Query, which it may reuse for other calls; or the
            \* flags of the last zc
    page,   \* the Page held: the query its closure captured, Cursor and hasNext
    rest,   \* its items that Iter has not yielded yet
    got,    \* the records yielded so far
    due,    \* history: records the walk owes its consumer
    stage   \* "start", "walking", "failed", "done", "stopped"

vars == <<version, by, table, used, query, page, rest, got, due, stage>>

NoPage == [query |-> [from |-> 0, limit |-> 0, cursor |-> NoCursor],
           cursor |-> NoCursor, hasNext |-> FALSE, count |-> 0]

\* A user of zc gives no -from below zero: its hint would count from there.
Init ==
    /\ version \in {"v2", "v2.1"}
    /\ table = Stored
    /\ used = Stored
    /\ query \in Queries
    /\ by \in {"page"} \cup (IF query.from >= 0 THEN {"zc"} ELSE {})
    /\ page = NoPage
    /\ rest = <<>>
    /\ got = <<>>
    /\ due = {}
    /\ stage = "start"

Rank(records, r) == Cardinality({s \in records : s < r})
InOrder(records) ==
    [i \in 1 .. Cardinality(records) |-> CHOOSE r \in records : Rank(records, r) = i - 1]
FirstOf(n, sequence) == SubSeq(sequence, 1, IF n < Len(sequence) THEN n ELSE Len(sequence))

----------------------------------------------------------------------------
(* One request *)

\* Fault: a Limit of zero is left to the server.
LimitAsGiven(limit) == limit

BoundedLimit(limit) == IF limit <= 0 THEN DefaultLimit ELSE limit

StartOffset(from) == IF from < 0 THEN 0 ELSE from

\* The answer to a v2 request, and decodePage's HasNext.
OffsetPage(from, limit) ==
    LET items == FirstOf(limit, SubSeq(InOrder(table), from + 1, Cardinality(table)))
    IN  [items |-> items, cursor |-> NoCursor, hasNext |-> limit > 0 /\ Len(items) >= limit]

\* Fault: the header's value is not compared to "", which it is when absent.
CursorPageUnchecked(cursor) ==
    LET left == {r \in table : r > cursor}
        items == FirstOf(CursorPage, InOrder(left))
        more == Cardinality(left) > CursorPage
    IN  [items |-> items, cursor |-> IF more THEN Last(items) ELSE NoCursor, hasNext |-> TRUE]

\* The answer to a v2.1 request: a record_cursor header while more is left.
CursorPageAt(cursor) ==
    LET left == {r \in table : r > cursor}
        items == FirstOf(CursorPage, InOrder(left))
        more == Cardinality(left) > CursorPage
    IN  [items |-> items, cursor |-> IF more THEN Last(items) ELSE NoCursor, hasNext |-> more]

\* runFetch on a clone: v2 makes offset and limit usable, and ignores a cursor;
\* v2.1 leaves both to the server.
Clone(q) ==
    IF version = "v2"
    THEN [q EXCEPT !.from = StartOffset(@), !.limit = BoundedLimit(@)]
    ELSE q

Fetch(q) ==
    LET asked == Clone(q)
        answer == IF version = "v2" THEN OffsetPage(asked.from, asked.limit)
                                    ELSE CursorPageAt(asked.cursor)
    IN  /\ page' = [query |-> asked, cursor |-> answer.cursor,
                    hasNext |-> answer.hasNext, count |-> Len(answer.items)]
        /\ rest' = answer.items
        /\ stage' = "walking"

\* Fault: the closure keeps the cursor of its first request.
AdvanceOffset(q) == [q EXCEPT !.from = @ + q.limit]

\* The closure's copy, advanced.
Advance(q) ==
    IF version = "v2" THEN [q EXCEPT !.from = @ + q.limit]
                      ELSE [q EXCEPT !.cursor = page.cursor]

----------------------------------------------------------------------------
(* The walk *)

\* recordsCmd hands on the flags that are set.
FromFlags(q) ==
    [q EXCEPT !.from = IF @ > 0 THEN @ ELSE 0, !.limit = IF @ > 0 THEN @ ELSE 0]

\* Get, then Iter: the walk owes every record from where the query starts.
Start ==
    /\ stage = "start"
    /\ Fetch(IF by = "zc" THEN FromFlags(query) ELSE query)
    /\ due' = IF version = "v2"
              THEN ToSet(SubSeq(InOrder(table), StartOffset(query.from) + 1, Cardinality(table)))
              ELSE {r \in table : r > query.cursor}
    /\ UNCHANGED <<version, by, table, used, query, got>>

Yield ==
    /\ stage = "walking"
    /\ rest # <<>>
    /\ got' = Append(got, Head(rest))
    /\ rest' = Tail(rest)
    /\ UNCHANGED <<version, by, table, used, query, page, due, stage>>

\* Fault: the closure advances the consumer's own query.
NextPageShared ==
    /\ by = "page"
    /\ stage = "walking" /\ rest = <<>> /\ page.hasNext
    /\ Fetch(Advance([query EXCEPT !.from = page.query.from]))
    /\ UNCHANGED <<version, by, table, used, query, got, due>>

NextPage ==
    /\ by = "page"
    /\ stage = "walking" /\ rest = <<>> /\ page.hasNext
    /\ Fetch(Advance(page.query))
    /\ UNCHANGED <<version, by, table, used, query, got, due>>

\* Fault: the offset the page began at is forgotten.
HintFromStart ==
    IF page.cursor # NoCursor THEN [query EXCEPT !.cursor = page.cursor]
    ELSE [query EXCEPT !.from = IF query.limit > 0 THEN query.limit ELSE page.count]

\* What zc records prints: "pass -cursor", or "pass -from".
Hint ==
    IF page.cursor # NoCursor THEN [query EXCEPT !.cursor = page.cursor]
    ELSE [query EXCEPT !.from = @ + (IF query.limit > 0 THEN query.limit ELSE page.count)]

NextCommand ==
    /\ by = "zc"
    /\ stage = "walking" /\ rest = <<>> /\ page.hasNext
    /\ query' = Hint
    /\ Fetch(FromFlags(Hint))
    /\ UNCHANGED <<version, by, table, used, got, due>>

Finish ==
    /\ stage = "walking" /\ rest = <<>> /\ ~page.hasNext
    /\ stage' = "done"
    /\ UNCHANGED <<version, by, table, used, query, page, rest, got, due>>

\* The request for the next page fails; the page held stays as it is, and the
\* consumer may call its NextPage again.
NextPageFails ==
    /\ stage = "walking" /\ rest = <<>> /\ page.hasNext
    /\ stage' = "failed"
    /\ UNCHANGED <<version, by, table, used, query, page, rest, got, due>>

Resume ==
    /\ stage = "failed"
    /\ stage' = "walking"
    /\ UNCHANGED <<version, by, table, used, query, page, rest, got, due>>

\* yield returns false: the consumer breaks out of the range loop.
Stop ==
    /\ stage = "walking"
    /\ rest # <<>>
    /\ stage' = "stopped"
    /\ UNCHANGED <<version, by, table, used, query, page, rest, got, due>>

----------------------------------------------------------------------------
(* Meanwhile *)

Insert(r) ==
    /\ "insert" \in Edits
    /\ r \notin used
    /\ table' = table \cup {r}
    /\ used' = used \cup {r}
    /\ UNCHANGED <<version, by, query, page, rest, got, due, stage>>

Delete(r) ==
    /\ "delete" \in Edits
    /\ table' = table \ {r}
    /\ due' = due \ {r}
    /\ UNCHANGED <<version, by, used, query, page, rest, got, stage>>

\* The consumer changes the Query it passed, for its next call.
Requery(q) ==
    /\ by = "page"
    /\ stage = "walking"
    /\ query' = q
    /\ UNCHANGED <<version, by, table, used, page, rest, got, due, stage>>

----------------------------------------------------------------------------
Walk == Start \/ Yield \/ NextPage \/ NextCommand \/ Finish \/ Resume

Next ==
    \/ Walk \/ NextPageFails \/ Stop
    \/ \E r \in Positions : Insert(r)
    \/ \E r \in table : Delete(r)
    \/ \E q \in Queries : Requery(q)

Spec == Init /\ [][Next]_vars

\* The consumer goes on, and requests do not fail for ever.
FairSpec == Spec /\ WF_vars(Walk) /\ SF_vars(NextPage \/ NextCommand)

----------------------------------------------------------------------------
(* Properties *)

TypeOK ==
    /\ version \in {"v2", "v2.1"}
    /\ table \subseteq Positions /\ used \subseteq Positions /\ due \subseteq Positions
    /\ by \in {"page", "zc"}
    /\ query \in [from : Int, limit : Int, cursor : Positions \cup {NoCursor}]
    /\ by = "page" => query \in Queries
    /\ page.query \in [from : Int, limit : Int, cursor : Positions \cup {NoCursor}]
    /\ stage \in {"walking", "failed"} /\ version = "v2" => page.query.from >= 0 /\ page.query.limit > 0
    /\ page.cursor \in Positions \cup {NoCursor} /\ page.hasNext \in BOOLEAN /\ page.count \in Nat
    /\ rest \in Seq(Positions) /\ got \in Seq(Positions)
    /\ stage \in {"start", "walking", "failed", "done", "stopped"}

\* "All returns an iterator yielding every record across all pages": a walk
\* that ends has yielded each record that was there all along.
AllYielded == stage = "done" => due \subseteq ToSet(got)

\* Where offsets cannot move records in front of them out of the window, that
\* is by cursor or as long as nothing is deleted, it is so, whatever others
\* insert, which requests fail and what the consumer does to its query.
EveryRecordYielded == version = "v2.1" \/ table = used => AllYielded

\* By cursor, or as long as nothing is inserted, no record is yielded twice nor
\* out of order, however often the request for a page was repeated.
NoRecordTwice ==
    version = "v2.1" \/ used = Stored =>
        \A i, j \in 1 .. Len(got) : i < j => got[i] < got[j]

\* A walk keeps what ReportWalk promises its consumer at every step, wherever it
\* breaks off.  Under v2 it promises less once an insertion or a deletion may
\* have moved records past its offset; under v2.1 no edit matters.
Walked == INSTANCE ReportWalk WITH
    Records <- Positions,
    owed <- due,
    grown <- version = "v2" /\ used # Stored,
    shrunk <- version = "v2" /\ table # used,
    phase <- IF stage = "failed" THEN "walking" ELSE stage

ImplementsWalk == Walked!Spec

\* An iterator comes to an end unless its consumer leaves it.
WalkEnds == (stage = "walking") ~> (stage \in {"done", "stopped"})
=============================================================================
