-------------------------- MODULE PaginationProofs --------------------------
(***************************************************************************)
(* Theorems about Pagination: for reports of any size, pages of any size,   *)
(* and any editing by others, a walk yields each record it owes, once.      *)
(*                                                                         *)
(* What a walk relies on is an order: the records it has yet to ask for     *)
(* come after those of the pages it had.  Under v2 "after" is a rank in the *)
(* report, which deletions lower and insertions raise; under v2.1 it is a   *)
(* position behind the cursor, which no edit moves.                         *)
(***************************************************************************)
EXTENDS Pagination, SequenceTheorems, FiniteSetTheorems, TLAPS

FiniteTable(T) == T \in SUBSET Nat /\ IsFiniteSet(T)

----------------------------------------------------------------------------
(* Records in order *)

LEMMA RankTyped ==
  ASSUME NEW T, FiniteTable(T), NEW r
  PROVE  Rank(T, r) \in Nat
  <1>1. {s \in T : s < r} \in SUBSET T
    OBVIOUS
  <1>2. IsFiniteSet({s \in T : s < r})
    BY <1>1, FS_Subset DEF FiniteTable
  <1> QED BY <1>2, FS_CardinalityType DEF Rank

\* A record has more records before it than those before it have.
LEMMA RankGrows ==
  ASSUME NEW T, FiniteTable(T), NEW r \in T, NEW s \in T, r < s
  PROVE  Rank(T, r) < Rank(T, s)
  <1> DEFINE R == {x \in T : x < r}
             S == {x \in T : x < s}
  <1>1. R \in SUBSET S /\ r \in S /\ r \notin R
    <2>1. T \in SUBSET Nat
      BY DEF FiniteTable
    <2>2. \A x \in T : x < r => x < s
      BY <2>1
    <2>3. ~(r < r)
      BY <2>1
    <2> QED BY <2>2, <2>3
  <1>2. IsFiniteSet(S)
    <2>1. S \in SUBSET T
      OBVIOUS
    <2> QED BY <2>1, FS_Subset DEF FiniteTable
  <1> HIDE DEF R, S
  <1>3. Cardinality(R) <= Cardinality(S) /\ Cardinality(R) # Cardinality(S)
    BY <1>1, <1>2, FS_Subset
  <1>4. Cardinality(R) \in Nat /\ Cardinality(S) \in Nat
    BY <1>1, <1>2, FS_Subset, FS_CardinalityType
  <1>5. Cardinality(R) < Cardinality(S)
    BY <1>3, <1>4
  <1> QED BY <1>5 DEF R, S, Rank

LEMMA RankOrders ==
  ASSUME NEW T, FiniteTable(T), NEW r \in T, NEW s \in T
  PROVE  /\ r < s <=> Rank(T, r) < Rank(T, s)
         /\ r = s <=> Rank(T, r) = Rank(T, s)
  <1>1. r \in Nat /\ s \in Nat /\ Rank(T, r) \in Nat /\ Rank(T, s) \in Nat
    BY RankTyped DEF FiniteTable
  <1>2. CASE r < s
    BY <1>1, <1>2, RankGrows
  <1>3. CASE s < r
    BY <1>1, <1>3, RankGrows
  <1>4. CASE r = s
    BY <1>1, <1>4
  <1> QED BY <1>1, <1>2, <1>3, <1>4

\* Ranks leave no gap: there are as many as there are records.
LEMMA RanksAreAll ==
  ASSUME NEW T, FiniteTable(T)
  PROVE  /\ Cardinality(T) \in Nat
         /\ \A r \in T : Rank(T, r) \in 0 .. Cardinality(T) - 1
         /\ \A k \in 0 .. Cardinality(T) - 1 : \E r \in T : Rank(T, r) = k
  <1> DEFINE n == Cardinality(T)
             ranks == 0 .. n - 1
             f == [r \in T |-> Rank(T, r)]
  <1>1. n \in Nat
    BY FS_CardinalityType DEF FiniteTable
  <1>2. ASSUME NEW r \in T PROVE Rank(T, r) \in ranks
    <2>1. {x \in T : x < r} \in SUBSET T /\ r \notin {x \in T : x < r}
      BY DEF FiniteTable
    <2>2. Cardinality({x \in T : x < r}) <= n /\ Cardinality({x \in T : x < r}) # n
      BY <2>1, FS_Subset DEF FiniteTable
    <2> QED BY <1>1, <2>2, RankTyped DEF Rank
  <1>3. IsFiniteSet(ranks) /\ Cardinality(ranks) = n
    <2>1. 0 \in Int /\ n - 1 \in Int
      BY <1>1
    <2>2. IsFiniteSet(0 .. n - 1)
          /\ Cardinality(0 .. n - 1) = IF 0 > n - 1 THEN 0 ELSE n - 1 - 0 + 1
      BY <2>1, FS_Interval
    <2> HIDE DEF n
    <2> QED BY <1>1, <2>2
  <1>4. f \in Injection(T, ranks)
    BY <1>2, RankOrders DEF Injection, IsInjective
  <1>5. f \in Surjection(T, ranks)
    BY <1>3, <1>4, FS_Injection
  <1> QED BY <1>1, <1>2, <1>5 DEF Surjection

\* InOrder lists the records by rank, which is by position.
LEMMA Ordered ==
  ASSUME NEW T, FiniteTable(T)
  PROVE  /\ Cardinality(T) \in Nat
         /\ \A i \in 1 .. Cardinality(T) : InOrder(T)[i] \in T /\ Rank(T, InOrder(T)[i]) = i - 1
         /\ \A r \in T : /\ Rank(T, r) + 1 \in 1 .. Cardinality(T)
                         /\ InOrder(T)[Rank(T, r) + 1] = r
         /\ InOrder(T) \in Seq(T) /\ Len(InOrder(T)) = Cardinality(T)
  <1>1. Cardinality(T) \in Nat
    BY RanksAreAll
  <1>2. ASSUME NEW i \in 1 .. Cardinality(T)
        PROVE  InOrder(T)[i] \in T /\ Rank(T, InOrder(T)[i]) = i - 1
    <2>1. i - 1 \in 0 .. Cardinality(T) - 1
      BY <1>1
    <2>2. \E r \in T : Rank(T, r) = i - 1
      BY <2>1, RanksAreAll
    <2>3. InOrder(T)[i] = CHOOSE r \in T : Rank(T, r) = i - 1
      BY DEF InOrder
    <2> QED BY <2>2, <2>3
  <1>3. ASSUME NEW r \in T
        PROVE  Rank(T, r) + 1 \in 1 .. Cardinality(T) /\ InOrder(T)[Rank(T, r) + 1] = r
    <2>1. Rank(T, r) \in Nat /\ Rank(T, r) + 1 \in 1 .. Cardinality(T)
      BY <1>1, RanksAreAll, RankTyped
    <2>2. InOrder(T)[Rank(T, r) + 1] \in T
          /\ Rank(T, InOrder(T)[Rank(T, r) + 1]) = Rank(T, r) + 1 - 1
      BY <1>2, <2>1
    <2> QED BY <2>1, <2>2, RankOrders
  <1>4. InOrder(T) \in Seq(T) /\ Len(InOrder(T)) = Cardinality(T)
    <2>1. InOrder(T) = [i \in 1 .. Cardinality(T) |-> InOrder(T)[i]]
      BY DEF InOrder
    <2> QED BY <1>1, <1>2, <2>1
  <1> QED BY <1>1, <1>2, <1>3, <1>4

----------------------------------------------------------------------------
(* Pages *)

Increasing(sequence) == \A i, j \in 1 .. Len(sequence) : i < j => sequence[i] < sequence[j]

\* The records of T from a rank on, and at most limit of them.
Window(T, from, limit) == FirstOf(limit, SubSeq(InOrder(T), from + 1, Cardinality(T)))

LEMMA TailFrom ==
  ASSUME NEW T, FiniteTable(T), NEW from \in Nat
  PROVE  LET tail == SubSeq(InOrder(T), from + 1, Cardinality(T))
         IN  /\ tail \in Seq(T)
             /\ Len(tail) = IF from < Cardinality(T) THEN Cardinality(T) - from ELSE 0
             /\ \A j \in 1 .. Len(tail) : tail[j] = InOrder(T)[from + j]
             /\ ToSet(tail) = {r \in T : Rank(T, r) >= from}
  <1> DEFINE n == Cardinality(T)
             tail == SubSeq(InOrder(T), from + 1, n)
  <1>1. n \in Nat /\ from + 1 \in Int /\ n \in Int
    BY Ordered
  <1>2. \A i \in from + 1 .. n : InOrder(T)[i] \in T
    BY <1>1, Ordered
  <1> HIDE DEF n
  <1>3. /\ tail \in Seq(T)
        /\ Len(tail) = IF from + 1 <= n THEN n - (from + 1) + 1 ELSE 0
        /\ \A i \in 1 .. n - (from + 1) + 1 : tail[i] = InOrder(T)[from + 1 + i - 1]
    BY <1>1, <1>2, SubSeqProperties
  <1> HIDE DEF tail
  <1>4. Len(tail) = IF from < n THEN n - from ELSE 0
    BY <1>1, <1>3
  <1>5. ASSUME NEW j \in 1 .. Len(tail) PROVE tail[j] = InOrder(T)[from + j]
    <2>1. j \in 1 .. n - (from + 1) + 1 /\ from + 1 + j - 1 = from + j
      BY <1>1, <1>4
    <2> QED BY <1>3, <2>1
  <1>6. ASSUME NEW j \in 1 .. Len(tail) PROVE tail[j] \in T /\ Rank(T, tail[j]) >= from
    <2>1. from + j \in 1 .. n /\ from + j - 1 >= from
      BY <1>1, <1>4
    <2>2. InOrder(T)[from + j] \in T /\ Rank(T, InOrder(T)[from + j]) = (from + j) - 1
      BY <2>1, Ordered DEF n
    <2>3. Rank(T, InOrder(T)[from + j]) >= from
      BY <2>1, <2>2
    <2> QED BY <1>5, <2>2, <2>3
  <1>7. ASSUME NEW r \in T, Rank(T, r) >= from PROVE \E j \in 1 .. Len(tail) : tail[j] = r
    <2> DEFINE j == Rank(T, r) + 1 - from
    <2>1. Rank(T, r) \in Nat /\ Rank(T, r) + 1 \in 1 .. n /\ InOrder(T)[Rank(T, r) + 1] = r
      BY RankTyped, Ordered DEF n
    <2>2. j \in 1 .. Len(tail) /\ from + j = Rank(T, r) + 1
      BY <1>1, <1>4, <1>7, <2>1
    <2> QED BY <1>5, <2>1, <2>2
  <1>8. DOMAIN tail = 1 .. Len(tail)
    BY <1>3
  <1>9. ToSet(tail) = {r \in T : Rank(T, r) >= from}
    BY <1>6, <1>7, <1>8 DEF ToSet
  <1> QED BY <1>3, <1>4, <1>5, <1>9 DEF n, tail

LEMMA WindowIs ==
  ASSUME NEW T, FiniteTable(T), NEW from \in Nat, NEW limit \in Nat
  PROVE  LET items == Window(T, from, limit)
         IN  /\ items \in Seq(T) /\ Len(items) \in 0 .. limit
             /\ Increasing(items)
             /\ \A j \in 1 .. Len(items) : Rank(T, items[j]) = from + j - 1
             /\ \A r \in T : from <= Rank(T, r) /\ Rank(T, r) < from + Len(items)
                    => \E j \in 1 .. Len(items) : items[j] = r
             /\ Len(items) < limit => \A r \in T : Rank(T, r) < from + Len(items)
  <1> DEFINE n == Cardinality(T)
             tail == SubSeq(InOrder(T), from + 1, n)
             m == IF limit < Len(tail) THEN limit ELSE Len(tail)
             items == SubSeq(tail, 1, m)
  <1>1. items = Window(T, from, limit)
    BY DEF Window, FirstOf
  <1>2. /\ n \in Nat
        /\ tail \in Seq(T) /\ Len(tail) = (IF from < n THEN n - from ELSE 0)
        /\ \A j \in 1 .. Len(tail) : tail[j] = InOrder(T)[from + j]
    BY TailFrom, Ordered
  <1> HIDE DEF tail, n
  <1>3. m \in Nat /\ m <= limit /\ m <= Len(tail) /\ (m < limit => m = Len(tail))
    BY <1>2
  <1> HIDE DEF m
  <1>4. \A j \in 1 .. m : tail[j] \in T
    BY <1>2, <1>3
  <1>5. /\ items \in Seq(T) /\ Len(items) = IF 1 <= m THEN m - 1 + 1 ELSE 0
        /\ \A j \in 1 .. m - 1 + 1 : items[j] = tail[1 + j - 1]
    BY <1>3, <1>4, SubSeqProperties
  <1> HIDE DEF items
  <1>6. Len(items) = m /\ \A j \in 1 .. m : items[j] = tail[j]
    BY <1>3, <1>5
  <1>7. ASSUME NEW j \in 1 .. m
        PROVE  items[j] \in T /\ items[j] = InOrder(T)[from + j] /\ Rank(T, items[j]) = from + j - 1
    <2>1. j \in 1 .. Len(tail) /\ from + j \in 1 .. n
      BY <1>2, <1>3
    <2>2. InOrder(T)[from + j] \in T /\ Rank(T, InOrder(T)[from + j]) = (from + j) - 1
      BY <2>1, Ordered DEF n
    <2>3. (from + j) - 1 = from + j - 1
      BY <1>3
    <2>4. items[j] = InOrder(T)[from + j]
      BY <1>2, <1>6, <2>1
    <2> QED BY <2>2, <2>3, <2>4
  <1>8. Increasing(items)
    <2> SUFFICES ASSUME NEW i \in 1 .. m, NEW j \in 1 .. m, i < j PROVE items[i] < items[j]
      BY <1>6 DEF Increasing
    <2>1. Rank(T, items[i]) < Rank(T, items[j])
      BY <1>3, <1>7
    <2> QED BY <1>7, <2>1, RankOrders
  <1>9. ASSUME NEW r \in T, from <= Rank(T, r), Rank(T, r) < from + m
        PROVE  \E j \in 1 .. m : items[j] = r
    <2> DEFINE j == Rank(T, r) + 1 - from
    <2>1. Rank(T, r) \in Nat /\ InOrder(T)[Rank(T, r) + 1] = r
      BY RankTyped, Ordered
    <2>2. j \in 1 .. m /\ from + j = Rank(T, r) + 1
      BY <1>3, <1>9, <2>1
    <2> QED BY <1>7, <2>1, <2>2
  <1>10. ASSUME m < limit, NEW r \in T PROVE Rank(T, r) < from + m
    <2>1. Rank(T, r) \in Nat /\ Rank(T, r) < n
      BY <1>2, RanksAreAll, RankTyped DEF n
    <2> QED BY <1>2, <1>3, <1>10, <2>1
  <1> QED BY <1>1, <1>3, <1>5, <1>6, <1>7, <1>8, <1>9, <1>10

LEMMA RankMonotone ==
  ASSUME NEW T, FiniteTable(T), NEW S \in SUBSET T, NEW r
  PROVE  Rank(S, r) <= Rank(T, r)
  <1>1. {x \in S : x < r} \in SUBSET {x \in T : x < r}
    OBVIOUS
  <1>2. {x \in T : x < r} \in SUBSET T
    OBVIOUS
  <1>3. IsFiniteSet({x \in T : x < r})
    BY <1>2, FS_Subset DEF FiniteTable
  <1> QED BY <1>1, <1>3, FS_Subset DEF Rank

----------------------------------------------------------------------------
(* The inductive invariant *)

QueryRecord == [from : Int, limit : Int, cursor : Positions \cup {NoCursor}]

\* The records that a query asks for, with the pages after it; those that come
\* after the page held; and those the walk can still reach.
Asked(q) ==
    IF version = "v2" THEN {r \in table : Rank(table, r) >= q.from}
                      ELSE {r \in table : r > q.cursor}
Ahead ==
    IF version = "v2" THEN {r \in table : Rank(table, r) >= page.query.from + page.count}
                      ELSE {r \in table : page.hasNext /\ r > page.cursor}
Reachable == IF page.hasNext THEN Ahead ELSE {}
Taken == ToSet(got) \cup ToSet(rest)

\* The report is finite, and what is owed is in it; a page that has a next one
\* is full, or has a cursor; and a zc asks for what its flags say.
Shape ==
    /\ IsFiniteSet(table) /\ table \subseteq used /\ Stored \subseteq used /\ due \subseteq table
    /\ version = "v2" => page.query.from >= 0 /\ page.cursor = NoCursor
    /\ page.hasNext =>
        IF version = "v2" THEN page.count = page.query.limit ELSE page.cursor \in Positions
    /\ by = "zc" => query.from >= 0
    /\ by = "zc" /\ stage \in {"walking", "failed"} => page.query = Clone(FromFlags(query))
    /\ stage = "start" => got = <<>> /\ rest = <<>>
    /\ stage = "done" => rest = <<>> /\ ~page.hasNext

\* What was taken is in order, and before what is ahead.
TakenBefore ==
    version = "v2.1" \/ used = Stored =>
        /\ Increasing(got) /\ Increasing(rest)
        /\ \A a \in ToSet(got), b \in ToSet(rest) : a < b
        /\ IF version = "v2" THEN \A a \in Taken, b \in Ahead : a < b
                             ELSE page.hasNext => \A a \in Taken : a <= page.cursor

\* What is owed was taken, or will be.
NoneLost == version = "v2.1" \/ table = used => due \subseteq Taken \cup Reachable

WalkInv == TypeOK /\ Shape /\ TakenBefore /\ NoneLost

LEMMA TableTyped == ASSUME TypeOK, Shape PROVE FiniteTable(table)
  BY PositionsAssumption DEF TypeOK, Shape, FiniteTable

----------------------------------------------------------------------------
(* A request *)

\* What one request answers, whichever version: the first records asked for, in
\* order, and whether others remain.
Served(asked) ==
    /\ asked \in QueryRecord /\ (version = "v2" => asked.from >= 0 /\ asked.limit > 0)
    /\ page'.query = asked /\ stage' = "walking"
    /\ page'.count \in Nat /\ page'.hasNext \in BOOLEAN /\ page'.cursor \in Positions \cup {NoCursor}
    /\ rest' \in Seq(table)
    /\ page'.hasNext =>
        IF version = "v2" THEN page'.count = asked.limit
                          ELSE /\ page'.cursor \in Positions /\ page'.cursor \in Asked(asked)
                               /\ \A a \in ToSet(rest') : a <= page'.cursor
    /\ version = "v2" => page'.cursor = NoCursor
    /\ Increasing(rest')
    /\ ToSet(rest') \subseteq Asked(asked)
    /\ Ahead' \subseteq Asked(asked)
    /\ \A a \in ToSet(rest'), b \in Ahead' : a < b
    /\ Asked(asked) \subseteq ToSet(rest') \cup Reachable'

LEMMA CloneTyped ==
  ASSUME NEW q \in QueryRecord
  PROVE  /\ Clone(q) \in QueryRecord /\ Clone(q).cursor = q.cursor
         /\ version = "v2" => /\ Clone(q).from = StartOffset(q.from) /\ Clone(q).from >= 0
                              /\ Clone(q).limit = BoundedLimit(q.limit) /\ Clone(q).limit > 0
  <1>1. q.from \in Int /\ q.limit \in Int /\ q.cursor \in Positions \cup {NoCursor}
    BY DEF QueryRecord
  <1>2. StartOffset(q.from) \in Int /\ StartOffset(q.from) >= 0
    BY <1>1 DEF StartOffset
  <1>3. BoundedLimit(q.limit) \in Int /\ BoundedLimit(q.limit) > 0
    BY <1>1, LimitAssumption DEF BoundedLimit
  <1>4. CASE version = "v2"
    <2>1. Clone(q) = [q EXCEPT !.from = StartOffset(@), !.limit = BoundedLimit(@)]
      BY <1>4 DEF Clone
    <2>2. /\ Clone(q) \in QueryRecord /\ Clone(q).cursor = q.cursor
          /\ Clone(q).from = StartOffset(q.from) /\ Clone(q).limit = BoundedLimit(q.limit)
      BY <1>1, <1>2, <1>3, <2>1 DEF QueryRecord
    <2> QED BY <1>2, <1>3, <2>2
  <1>5. CASE version # "v2"
    BY <1>5 DEF Clone
  <1> QED BY <1>4, <1>5

LEMMA OffsetAnswers ==
  ASSUME TypeOK, Shape, version = "v2", UNCHANGED <<version, table>>,
         NEW q \in QueryRecord, Fetch(q)
  PROVE  Served(Clone(q))
  <1> DEFINE asked == Clone(q)
             items == Window(table, asked.from, asked.limit)
  <1>1. /\ asked \in QueryRecord /\ asked.from \in Nat /\ asked.limit \in Nat /\ asked.limit > 0
    BY CloneTyped DEF QueryRecord
  <1>2. FiniteTable(table)
    BY TableTyped
  <1>3. /\ rest' = items /\ page'.query = asked /\ stage' = "walking" /\ page'.cursor = NoCursor
        /\ page'.count = Len(items)
    BY DEF Fetch, OffsetPage, Window
  <1>next. page'.hasNext = (Len(items) >= asked.limit)
    <2>1. page'.hasNext = (asked.limit > 0 /\ Len(items) >= asked.limit)
      BY DEF Fetch, OffsetPage, Window
    <2>2. (asked.limit > 0) = TRUE
      BY <1>1
    <2> HIDE DEF asked, items
    <2> QED BY <2>1, <2>2
  <1> HIDE DEF asked
  <1>4. /\ items \in Seq(table) /\ Len(items) \in 0 .. asked.limit
        /\ Increasing(items)
        /\ \A j \in 1 .. Len(items) : Rank(table, items[j]) = asked.from + j - 1
        /\ \A r \in table : asked.from <= Rank(table, r) /\ Rank(table, r) < asked.from + Len(items)
               => \E j \in 1 .. Len(items) : items[j] = r
        /\ Len(items) < asked.limit => \A r \in table : Rank(table, r) < asked.from + Len(items)
    BY <1>1, <1>2, WindowIs
  <1> HIDE DEF items
  <1> DEFINE n == Len(items)
  <1>5. n \in Nat /\ n <= asked.limit
    BY <1>1, <1>4
  <1>6. ToSet(items) = {items[j] : j \in 1 .. n} /\ \A j \in 1 .. n : items[j] \in table
    BY <1>4 DEF ToSet
  <1>7. Ahead' = {r \in table : Rank(table, r) >= asked.from + n}
    BY <1>3 DEF Ahead
  <1>8. Asked(asked) = {r \in table : Rank(table, r) >= asked.from}
    BY DEF Asked
  <1> HIDE DEF n
  <1>9. \A r \in table : Rank(table, r) \in Nat
    BY <1>2, RankTyped
  <1>10. ToSet(items) \subseteq Asked(asked)
    <2> SUFFICES ASSUME NEW j \in 1 .. n PROVE Rank(table, items[j]) >= asked.from
      BY <1>6, <1>8
    <2>1. Rank(table, items[j]) = asked.from + j - 1
      BY <1>4 DEF n
    <2> QED BY <2>1, <1>1, <1>5
  <1>11. Ahead' \subseteq Asked(asked)
    BY <1>1, <1>5, <1>7, <1>8, <1>9
  <1>12. ASSUME NEW j \in 1 .. n, NEW b \in Ahead' PROVE items[j] < b
    <2>1. Rank(table, items[j]) = asked.from + j - 1
      BY <1>4 DEF n
    <2>2. b \in table /\ items[j] \in table /\ Rank(table, items[j]) < Rank(table, b)
      BY <1>1, <1>5, <1>6, <1>7, <1>9, <1>12, <2>1
    <2> QED BY <1>2, <2>2, RankOrders
  <1>13. ASSUME NEW r \in Asked(asked) PROVE r \in ToSet(items) \cup Reachable'
    <2>1. r \in table /\ Rank(table, r) >= asked.from /\ Rank(table, r) \in Nat
      BY <1>8, <1>9
    <2>2. CASE Rank(table, r) < asked.from + n
      <3>1. \E j \in 1 .. n : items[j] = r
        BY <1>4, <2>1, <2>2 DEF n
      <3> QED BY <1>6, <3>1
    <2>3. CASE ~(Rank(table, r) < asked.from + n)
      <3>1. ~(n < asked.limit)
        BY <1>4, <2>1, <2>3 DEF n
      <3>2. Len(items) >= asked.limit
        BY <1>1, <1>5, <3>1 DEF n
      <3>4. page'.hasNext
        BY <1>next, <3>2
      <3>3. r \in Ahead'
        BY <1>1, <1>5, <1>7, <2>1, <2>3
      <3> QED BY <3>4, <3>3 DEF Reachable
    <2> QED BY <2>2, <2>3
  <1>14. page'.count \in Nat /\ page'.hasNext \in BOOLEAN /\ (page'.hasNext => page'.count = asked.limit)
    <2>1. page'.count = n
      BY <1>3 DEF n
    <2>2. CASE n >= asked.limit
      <3>1. page'.hasNext = TRUE
        BY <1>next, <2>2 DEF n
      <3>2. n = asked.limit
        BY <1>1, <1>5, <2>2
      <3>3. page'.count \in Nat /\ page'.count = asked.limit
        BY <1>5, <2>1, <3>2
      <3> QED BY <3>1, <3>3, Zenon
    <2>3. CASE ~(n >= asked.limit)
      <3>1. page'.hasNext = (n >= asked.limit)
        BY <1>next DEF n
      <3>2. ~page'.hasNext
        BY <2>3, <3>1, Zenon
      <3>3. page'.count \in Nat
        BY <1>5, <2>1
      <3>4. page'.hasNext \in BOOLEAN
        <4>1. (n >= asked.limit) \in BOOLEAN
          OBVIOUS
        <4> QED BY <3>1, <4>1, Zenon
      <3> QED BY <3>2, <3>3, <3>4, Zenon
    <2> QED BY <2>2, <2>3
  <1>15. Served(asked)
    BY <1>1, <1>3, <1>4, <1>6, <1>10, <1>11, <1>12, <1>13, <1>14 DEF Served
  <1> QED BY <1>15 DEF asked

LEMMA CursorAnswers ==
  ASSUME TypeOK, Shape, version = "v2.1", UNCHANGED <<version, table>>,
         NEW q \in QueryRecord, Fetch(q)
  PROVE  Served(Clone(q))
  <1> DEFINE asked == Clone(q)
             left == {r \in table : r > asked.cursor}
             items == Window(left, 0, CursorPage)
             more == Cardinality(left) > CursorPage
  <1>1. asked \in QueryRecord /\ asked.cursor \in Nat
    <2>1. asked \in QueryRecord
      BY CloneTyped
    <2> HIDE DEF asked
    <2>2. asked.cursor \in Positions \cup {0}
      BY <2>1 DEF QueryRecord, NoCursor
    <2>3. asked.cursor \in Nat
      <3>1. \A p \in Positions : p \in Nat
        BY PositionsAssumption
      <3> QED BY <2>2, <3>1
    <2> QED BY <2>1, <2>3
  <1>2. FiniteTable(table) /\ table \subseteq Positions
    BY TableTyped DEF TypeOK
  <1>3. FiniteTable(left)
    <2>1. left \in SUBSET table
      OBVIOUS
    <2> QED BY <1>2, <2>1, FS_Subset DEF FiniteTable
  <1>4. Asked(asked) = left
    BY DEF Asked
  <1>5. items = FirstOf(CursorPage, InOrder(left))
    <2>1. InOrder(left) \in Seq(left) /\ Len(InOrder(left)) = Cardinality(left)
      BY <1>3, Ordered
    <2>2. SubSeq(InOrder(left), 1, Len(InOrder(left))) = InOrder(left)
      BY <2>1, SubSeqFull
    <2>3. SubSeq(InOrder(left), 0 + 1, Cardinality(left)) = InOrder(left)
      BY <2>1, <2>2
    <2> QED BY <2>3 DEF Window
  <1>6. /\ rest' = items /\ page'.query = asked /\ stage' = "walking"
        /\ page'.cursor = (IF more THEN Last(items) ELSE NoCursor)
        /\ page'.count = Len(items)
    BY <1>5 DEF Fetch, CursorPageAt
  <1>next. page'.hasNext = more
    BY DEF Fetch, CursorPageAt
  <1>7. left \subseteq table /\ \A r \in left : r \in Nat /\ r > asked.cursor
    BY <1>2 DEF FiniteTable
  <1> HIDE DEF asked, left
  <1>8. /\ items \in Seq(left) /\ Len(items) \in 0 .. CursorPage
        /\ Increasing(items)
        /\ \A j \in 1 .. Len(items) : Rank(left, items[j]) = 0 + j - 1
        /\ \A r \in left : 0 <= Rank(left, r) /\ Rank(left, r) < 0 + Len(items)
               => \E j \in 1 .. Len(items) : items[j] = r
        /\ Len(items) < CursorPage => \A r \in left : Rank(left, r) < 0 + Len(items)
    BY <1>3, WindowIs, LimitAssumption
  <1> HIDE DEF items
  <1> DEFINE n == Len(items)
  <1>9. n \in Nat /\ n <= CursorPage
    BY <1>8, LimitAssumption
  <1>10. ToSet(items) = {items[j] : j \in 1 .. n} /\ \A j \in 1 .. n : items[j] \in left
    BY <1>8 DEF ToSet
  <1>11. Cardinality(left) \in Nat /\ \A r \in left : Rank(left, r) \in 0 .. Cardinality(left) - 1
    BY <1>3, RanksAreAll
  <1>12. ASSUME NEW r \in left, Rank(left, r) < n PROVE r \in ToSet(items)
    <2>1. 0 <= Rank(left, r) /\ Rank(left, r) < 0 + Len(items)
      BY <1>11, <1>9, <1>12 DEF n
    <2>2. \E j \in 1 .. n : items[j] = r
      BY <1>8, <2>1 DEF n
    <2> QED BY <1>10, <2>2
  <1>13. CASE more
    <2>1. n = CursorPage
      <3> SUFFICES ASSUME n < CursorPage PROVE FALSE
        BY <1>9, LimitAssumption
      <3>1. n \in 0 .. Cardinality(left) - 1
        BY <1>9, <1>11, <1>13, LimitAssumption
      <3>2. PICK r \in left : Rank(left, r) = n
        BY <1>3, <3>1, RanksAreAll
      <3>3. Rank(left, r) < 0 + Len(items)
        BY <1>8 DEF n
      <3> QED BY <1>9, <3>2, <3>3 DEF n
    <2> DEFINE last == items[n]
    <2>2. n \in 1 .. n
      BY <1>9, <2>1, LimitAssumption
    <2>3. page'.cursor = last /\ page'.hasNext = TRUE
      BY <1>6, <1>next, <1>13 DEF Last, n
    <2>4. last \in left /\ last \in table /\ last \in Nat /\ last > asked.cursor
      BY <1>7, <1>10, <2>2
    <2>5. \A j \in 1 .. n : items[j] <= last
      <3> SUFFICES ASSUME NEW j \in 1 .. n, j # n PROVE items[j] <= last
        BY <2>4
      <3>1. j < n
        BY <1>9
      <3>2. items[j] < last
        BY <1>8, <2>2, <3>1 DEF Increasing, n
      <3> QED BY <1>7, <1>10, <2>4, <3>2
    <2>6. Ahead' = {r \in table : r > last}
      BY <2>3 DEF Ahead
    <2> HIDE DEF n
    <2>7. Ahead' \subseteq left /\ \A b \in Ahead' : b \in Nat
      <3> SUFFICES ASSUME NEW b \in table, b > last PROVE b \in left /\ b \in Nat
        BY <2>6
      <3>1. b \in Nat
        BY <1>2 DEF FiniteTable
      <3>2. b > asked.cursor
        BY <1>1, <2>4, <3>1
      <3> QED BY <3>1, <3>2 DEF left
    <2>8. \A a \in ToSet(items) : a <= last /\ a \in Nat
      BY <1>7, <1>10, <2>5
    <2>9. \A a \in ToSet(items), b \in Ahead' : a < b
      BY <2>4, <2>6, <2>7, <2>8
    <2>10. left \subseteq ToSet(items) \cup Reachable'
      <3> SUFFICES ASSUME NEW r \in left, ~(Rank(left, r) < n) PROVE r \in Reachable'
        BY <1>12
      <3>1. Rank(left, last) = 0 + n - 1
        BY <1>8, <2>2 DEF n
      <3>2. Rank(left, last) < Rank(left, r)
        BY <1>9, <1>11, <3>1
      <3>3. last < r
        BY <1>3, <2>4, <3>2, RankOrders
      <3> QED BY <1>7, <2>3, <2>4, <2>6, <3>3 DEF Reachable
    <2>11. rest' \in Seq(table) /\ ToSet(items) \subseteq left
      BY <1>6, <1>7, <1>8, <1>10
    <2>12. Increasing(rest') /\ page'.count \in Nat
      BY <1>6, <1>8, <1>9 DEF n
    <2> QED BY <1>1, <1>2, <1>4, <1>6, <2>3, <2>4, <2>7, <2>8, <2>9, <2>10, <2>11, <2>12
            DEF Served, asked
  <1>14. CASE ~more
    <2>1. ~page'.hasNext /\ page'.cursor = NoCursor
      <3>1. ~page'.hasNext
        BY <1>next, <1>14, Zenon
      <3>2. page'.cursor = NoCursor
        BY <1>6, <1>14
      <3> QED BY <3>1, <3>2
    <2>7. page'.hasNext \in BOOLEAN
      <3>1. more \in BOOLEAN
        OBVIOUS
      <3> QED BY <1>next, <3>1, Zenon
    <2>2. \A r \in left : Rank(left, r) < n
      <3> SUFFICES ASSUME NEW r \in left, ~(n < CursorPage) PROVE Rank(left, r) < n
        BY <1>8 DEF n
      <3> QED BY <1>9, <1>11, <1>14, LimitAssumption
    <2>3. left \subseteq ToSet(items)
      BY <1>12, <2>2
    <2>4. Ahead' = {}
      BY <2>1 DEF Ahead
    <2>5. rest' \in Seq(table) /\ ToSet(items) \subseteq left
      BY <1>6, <1>7, <1>8, <1>10
    <2>6. Increasing(rest') /\ page'.count \in Nat
      BY <1>6, <1>8, <1>9 DEF n
    <2> QED BY <1>1, <1>4, <1>6, <2>1, <2>3, <2>4, <2>5, <2>6, <2>7 DEF Served, asked
  <1> QED BY <1>13, <1>14

LEMMA FetchAnswers ==
  ASSUME TypeOK, Shape, UNCHANGED <<version, table>>, NEW q \in QueryRecord, Fetch(q)
  PROVE  Served(Clone(q))
  BY OffsetAnswers, CursorAnswers DEF TypeOK

\* The types after a request.
LEMMA FetchTypes ==
  ASSUME TypeOK, Shape, UNCHANGED <<version, by, table, used>>,
         NEW asked, Served(asked),
         query' \in QueryRecord, by = "page" => query' \in Queries,
         due' \in SUBSET table, got' = got
  PROVE  TypeOK'
  <1>1. rest' \in Seq(Positions)
    BY DEF TypeOK, Served
  <1> QED BY <1>1 DEF TypeOK, Served, QueryRecord

LEMMA FetchShape ==
  ASSUME TypeOK, Shape, UNCHANGED <<version, by, table, used>>,
         NEW asked, Served(asked), due' \in SUBSET table,
         by = "zc" => query'.from >= 0 /\ asked = Clone(FromFlags(query'))
  PROVE  Shape'
  <1>1. by = "zc" => page'.query = Clone(FromFlags(query))'
    BY DEF Served, Clone, FromFlags
  <1> QED BY <1>1 DEF Shape, Served

----------------------------------------------------------------------------
(* The query of the next request *)

LEMMA NoneTaken == ToSet(<<>>) = {} /\ Increasing(<<>>)
  BY DEF ToSet, Increasing

LEMMA FlagsTyped ==
  ASSUME NEW q \in QueryRecord
  PROVE  /\ FromFlags(q) \in QueryRecord /\ FromFlags(q).cursor = q.cursor
         /\ FromFlags(q).from = (IF q.from > 0 THEN q.from ELSE 0)
         /\ FromFlags(q).limit = (IF q.limit > 0 THEN q.limit ELSE 0)
  <1>1. q.from \in Int /\ q.limit \in Int /\ q.cursor \in Positions \cup {NoCursor}
    BY DEF QueryRecord
  <1> DEFINE from == IF q.from > 0 THEN q.from ELSE 0
             limit == IF q.limit > 0 THEN q.limit ELSE 0
  <1>2. from \in Int /\ limit \in Int
    BY <1>1
  <1>3. FromFlags(q) = [q EXCEPT !.from = from, !.limit = limit]
    BY DEF FromFlags
  <1> HIDE DEF from, limit
  <1>4. FromFlags(q) \in QueryRecord /\ FromFlags(q).cursor = q.cursor
        /\ FromFlags(q).from = from /\ FromFlags(q).limit = limit
    BY <1>1, <1>2, <1>3 DEF QueryRecord
  <1> QED BY <1>4 DEF from, limit

\* The first page is asked for from where the records are owed from.
LEMMA StartKeeps == ASSUME WalkInv, Start PROVE WalkInv'
  <1> DEFINE q == IF by = "zc" THEN FromFlags(query) ELSE query
  <1>1. query \in QueryRecord /\ q \in QueryRecord /\ q.cursor = query.cursor
    BY FlagsTyped DEF WalkInv, TypeOK, QueryRecord
  <1>2. /\ TypeOK /\ Shape /\ Fetch(q) /\ UNCHANGED <<version, by, table, used, query, got>>
        /\ got = <<>> /\ rest = <<>> /\ version \in {"v2", "v2.1"}
    BY DEF WalkInv, Start, Shape, TypeOK
  <1>3. Served(Clone(q))
    BY <1>1, <1>2, FetchAnswers
  <1>4. due' = Asked(Clone(q))
    <2>1. CASE version = "v2"
      <3>1. StartOffset(q.from) = StartOffset(query.from) /\ StartOffset(query.from) \in Nat
        BY <1>1, FlagsTyped DEF StartOffset, QueryRecord
      <3>2. Clone(q).from = StartOffset(query.from)
        BY <1>1, <2>1, <3>1, CloneTyped
      <3>3. due' = ToSet(SubSeq(InOrder(table), StartOffset(query.from) + 1, Cardinality(table)))
        BY <2>1 DEF Start
      <3>4. due' = {r \in table : Rank(table, r) >= StartOffset(query.from)}
        BY <1>2, <3>1, <3>3, TableTyped, TailFrom
      <3> QED BY <2>1, <3>2, <3>4 DEF Asked
    <2>2. CASE version = "v2.1"
      <3>1. Clone(q).cursor = query.cursor
        BY <1>1, CloneTyped
      <3>2. due' = {r \in table : r > query.cursor}
        BY <2>2 DEF Start
      <3> QED BY <2>2, <3>1, <3>2 DEF Asked
    <2> QED BY <1>2, <2>1, <2>2
  <1>5. due' \in SUBSET table
    BY <1>4 DEF Asked
  <1>6. TypeOK'
    BY <1>1, <1>2, <1>3, <1>5, FetchTypes DEF TypeOK
  <1>7. Shape'
    BY <1>2, <1>3, <1>5, FetchShape DEF Shape
  <1>8. got' = <<>> /\ Taken' = ToSet(rest')
    BY <1>2, NoneTaken DEF Taken
  <1>9. TakenBefore'
    BY <1>2, <1>3, <1>8, NoneTaken DEF TakenBefore, Served
  <1>10. NoneLost'
    BY <1>3, <1>4, <1>8 DEF NoneLost, Served
  <1> QED BY <1>6, <1>7, <1>9, <1>10 DEF WalkInv

LEMMA AheadAfter ==
  ASSUME TypeOK, Shape, TakenBefore, version = "v2.1" \/ used = Stored
  PROVE  \A a \in Taken, b \in Ahead : a < b
  <1>1. CASE version = "v2"
    BY <1>1 DEF TakenBefore
  <1>2. CASE version = "v2.1"
    <2> SUFFICES ASSUME NEW a \in Taken, NEW b \in table, page.hasNext, b > page.cursor PROVE a < b
      BY <1>2 DEF Ahead
    <2>1. Taken \subseteq Positions
      BY DEF Taken, ToSet, TypeOK
    <2>2. a <= page.cursor
      BY <1>2 DEF TakenBefore
    <2>3. a \in Nat /\ b \in Nat /\ page.cursor \in Nat
      BY <1>2, <2>1, PositionsAssumption DEF TypeOK, Shape
    <2> QED BY <2>2, <2>3
  <1> QED BY <1>1, <1>2 DEF TypeOK

\* A next page: what is asked for is what was ahead.
LEMMA NextKeeps ==
  ASSUME WalkInv, rest = <<>>, page.hasNext, UNCHANGED <<version, by, table, used, got, due>>,
         NEW asked, Served(asked), Asked(asked) = Ahead,
         query' \in QueryRecord, by = "page" => query' \in Queries,
         by = "zc" => query'.from >= 0 /\ asked = Clone(FromFlags(query'))
  PROVE  WalkInv'
  <1>1. TypeOK /\ Shape /\ TakenBefore /\ NoneLost /\ due' \in SUBSET table
    BY DEF WalkInv, Shape
  <1>2. TypeOK'
    BY <1>1, FetchTypes
  <1>3. Shape'
    BY <1>1, FetchShape
  <1>4. Taken = ToSet(got) /\ Taken' = ToSet(got) \cup ToSet(rest') /\ Reachable = Ahead
    BY NoneTaken DEF Taken, Reachable
  <1>5. NoneLost'
    <2>1. Ahead \subseteq ToSet(rest') \cup Reachable'
      BY DEF Served
    <2> QED BY <1>1, <1>4, <2>1 DEF NoneLost
  <1>6. TakenBefore'
    <2> SUFFICES ASSUME version = "v2.1" \/ used = Stored
                 PROVE  /\ Increasing(got) /\ Increasing(rest')
                        /\ \A a \in ToSet(got), b \in ToSet(rest') : a < b
                        /\ version = "v2" => \A a \in Taken', b \in Ahead' : a < b
                        /\ version = "v2.1" /\ page'.hasNext => \A a \in Taken' : a <= page'.cursor
      BY <1>1 DEF TakenBefore, TypeOK
    <2>1. Increasing(got) /\ Increasing(rest')
      BY <1>1 DEF TakenBefore, Served
    <2>2. \A a \in ToSet(got), b \in Ahead : a < b
      BY <1>1, <1>4, AheadAfter
    <2>3. ToSet(rest') \subseteq Ahead /\ Ahead' \subseteq Ahead
          /\ \A a \in ToSet(rest'), b \in Ahead' : a < b
      BY DEF Served
    <2>4. ASSUME version = "v2.1", page'.hasNext, NEW a \in Taken' PROVE a <= page'.cursor
      <3>1. page'.cursor \in Ahead /\ \A x \in ToSet(rest') : x <= page'.cursor
        BY <2>4 DEF Served
      <3>0. \A p \in Positions : p \in Nat
        BY PositionsAssumption
      <3>4. ToSet(got) \subseteq Positions /\ table \subseteq Positions
        BY <1>1 DEF TypeOK, ToSet
      <3>2. ToSet(got) \subseteq Nat /\ page'.cursor \in Nat
        BY <3>0, <3>1, <3>4 DEF Ahead
      <3>3. \A x \in ToSet(got) : x <= page'.cursor
        BY <2>2, <3>1, <3>2
      <3> QED BY <1>4, <2>4, <3>1, <3>3
    <2> QED BY <1>4, <2>1, <2>2, <2>3, <2>4
  <1> QED BY <1>2, <1>3, <1>5, <1>6 DEF WalkInv

LEMMA NextPageKeeps == ASSUME WalkInv, NextPage PROVE WalkInv'
  <1> DEFINE q == Advance(page.query)
  <1>1. /\ TypeOK /\ Shape /\ Fetch(q) /\ rest = <<>> /\ page.hasNext /\ by = "page"
        /\ UNCHANGED <<version, by, table, used, query, got, due>> /\ stage = "walking"
    BY DEF WalkInv, NextPage
  <1>2. page.query \in QueryRecord /\ query \in QueryRecord /\ query \in Queries
        /\ page.cursor \in Positions \cup {NoCursor}
    BY <1>1 DEF TypeOK, QueryRecord
  <1>3. CASE version = "v2"
    <2>1. q = [page.query EXCEPT !.from = @ + page.query.limit]
      BY <1>3 DEF Advance
    <2>2. page.query.from \in Int /\ page.query.limit \in Int
      BY <1>2 DEF QueryRecord
    <2>3. q \in QueryRecord /\ q.from = page.query.from + page.query.limit
      BY <1>2, <2>1, <2>2 DEF QueryRecord
    <2>4. page.query.from >= 0 /\ page.query.limit > 0 /\ page.count = page.query.limit
      BY <1>1, <1>3 DEF TypeOK, Shape
    <2> HIDE DEF q
    <2>5. Clone(q).from = page.query.from + page.count
      BY <1>3, <2>2, <2>3, <2>4, CloneTyped DEF StartOffset
    <2>6. Served(Clone(q)) /\ Asked(Clone(q)) = Ahead
      BY <1>1, <1>3, <2>3, <2>5, FetchAnswers DEF Asked, Ahead
    <2> QED BY <1>1, <1>2, <2>6, NextKeeps
  <1>4. CASE version = "v2.1"
    <2>1. q = [page.query EXCEPT !.cursor = page.cursor]
      BY <1>4 DEF Advance
    <2>2. q \in QueryRecord /\ q.cursor = page.cursor
      BY <1>2, <2>1 DEF QueryRecord
    <2> HIDE DEF q
    <2>3. Served(Clone(q)) /\ Asked(Clone(q)) = Ahead
      BY <1>1, <1>4, <2>2, FetchAnswers, CloneTyped DEF Asked, Ahead
    <2> QED BY <1>1, <1>2, <2>3, NextKeeps
  <1> QED BY <1>1, <1>3, <1>4 DEF TypeOK

\* The flags that zc prints ask for what is ahead, too.
LEMMA NextCommandKeeps == ASSUME WalkInv, NextCommand PROVE WalkInv'
  <1> DEFINE q == FromFlags(Hint)
  <1>1. /\ TypeOK /\ Shape /\ Fetch(q) /\ rest = <<>> /\ page.hasNext /\ by = "zc"
        /\ query' = Hint /\ UNCHANGED <<version, by, table, used, got, due>> /\ stage = "walking"
    BY DEF WalkInv, NextCommand
  <1>2. /\ query \in QueryRecord /\ page.query \in QueryRecord
        /\ page.cursor \in Positions \cup {NoCursor} /\ page.count \in Nat
        /\ query.from >= 0 /\ page.query = Clone(FromFlags(query))
    BY <1>1 DEF TypeOK, Shape, QueryRecord
  <1>3. query.from \in Int /\ query.limit \in Int
    BY <1>2 DEF QueryRecord
  <1>4. CASE version = "v2"
    <2> DEFINE step == IF query.limit > 0 THEN query.limit ELSE page.count
    <2>1. Hint = [query EXCEPT !.from = @ + step]
      BY <1>1, <1>4 DEF Hint, Shape
    <2>2. step \in Nat
      BY <1>2, <1>3
    <2>3. /\ FromFlags(query) \in QueryRecord /\ FromFlags(query).from = query.from
          /\ FromFlags(query).limit = IF query.limit > 0 THEN query.limit ELSE 0
      BY <1>2, <1>3, FlagsTyped
    <2>4. page.query.from = query.from /\ page.query.limit = BoundedLimit(FromFlags(query).limit)
      BY <1>2, <1>3, <1>4, <2>3, CloneTyped DEF StartOffset
    <2>5. page.count = page.query.limit
      BY <1>1, <1>4 DEF Shape
    <2>6. step = page.count
      BY <1>3, <2>3, <2>4, <2>5 DEF BoundedLimit
    <2> HIDE DEF step
    <2>7. Hint \in QueryRecord /\ Hint.from = query.from + step /\ Hint.from >= 0
      BY <1>2, <1>3, <2>1, <2>2 DEF QueryRecord
    <2>8. q \in QueryRecord /\ q.from = Hint.from
      BY <1>3, <2>2, <2>7, FlagsTyped
    <2> HIDE DEF q
    <2>9. Clone(q).from = page.query.from + page.count
      BY <1>3, <1>4, <2>2, <2>4, <2>6, <2>7, <2>8, CloneTyped DEF StartOffset
    <2>10. Served(Clone(q)) /\ Asked(Clone(q)) = Ahead
      BY <1>1, <1>4, <2>8, <2>9, FetchAnswers DEF Asked, Ahead
    <2>11. by = "zc" => query'.from >= 0 /\ Clone(q) = Clone(FromFlags(query'))
      BY <1>1, <2>7 DEF q
    <2> QED BY <1>1, <2>7, <2>10, <2>11, NextKeeps
  <1>5. CASE version = "v2.1"
    <2>1. page.cursor # NoCursor
      BY <1>1, <1>5, PositionsAssumption DEF Shape, NoCursor
    <2>2. Hint = [query EXCEPT !.cursor = page.cursor]
      BY <2>1 DEF Hint
    <2>3. Hint \in QueryRecord /\ Hint.cursor = page.cursor /\ Hint.from = query.from
      BY <1>2, <2>2 DEF QueryRecord
    <2>4. q \in QueryRecord /\ q.cursor = page.cursor
      BY <2>3, FlagsTyped
    <2> HIDE DEF q
    <2>5. Served(Clone(q)) /\ Asked(Clone(q)) = Ahead
      BY <1>1, <1>5, <2>4, FetchAnswers, CloneTyped DEF Asked, Ahead
    <2>6. by = "zc" => query'.from >= 0 /\ Clone(q) = Clone(FromFlags(query'))
      BY <1>1, <1>2, <2>3 DEF q
    <2> QED BY <1>1, <2>3, <2>5, <2>6, NextKeeps
  <1> QED BY <1>1, <1>4, <1>5 DEF TypeOK

----------------------------------------------------------------------------
(* The other steps *)

LEMMA HeadTaken ==
  ASSUME NEW s \in Seq(Positions), s # <<>>
  PROVE  /\ Head(s) \in ToSet(s) /\ ToSet(s) = {Head(s)} \cup ToSet(Tail(s))
         /\ Increasing(s) => Increasing(Tail(s)) /\ \A b \in ToSet(Tail(s)) : Head(s) < b
  <1>1. /\ Tail(s) \in Seq(Positions) /\ Len(s) \in Nat /\ Len(s) > 0 /\ Len(Tail(s)) = Len(s) - 1
        /\ \A i \in 1 .. Len(Tail(s)) : Tail(s)[i] = s[i + 1]
        /\ Head(s) = s[1]
    BY HeadTailProperties
  <1>2. DOMAIN s = 1 .. Len(s) /\ DOMAIN Tail(s) = 1 .. Len(Tail(s))
    BY <1>1
  <1>3. ToSet(s) = {s[i] : i \in 1 .. Len(s)} /\ ToSet(Tail(s)) = {Tail(s)[i] : i \in 1 .. Len(Tail(s))}
    BY <1>2 DEF ToSet
  <1>4. Head(s) \in ToSet(s)
    BY <1>1, <1>3
  <1>5. ASSUME NEW i \in 1 .. Len(Tail(s)) PROVE Tail(s)[i] \in ToSet(s)
    <2>1. i + 1 \in 1 .. Len(s)
      BY <1>1
    <2> QED BY <1>1, <1>3, <2>1
  <1>6. ASSUME NEW i \in 1 .. Len(s), i # 1 PROVE s[i] \in ToSet(Tail(s))
    <2>1. i - 1 \in 1 .. Len(Tail(s)) /\ (i - 1) + 1 = i
      BY <1>1, <1>6
    <2>2. Tail(s)[i - 1] = s[i]
      BY <1>1, <2>1
    <2> QED BY <1>3, <2>1, <2>2
  <1>7. ASSUME Increasing(s) PROVE Increasing(Tail(s))
    <2> SUFFICES ASSUME NEW i \in 1 .. Len(Tail(s)), NEW j \in 1 .. Len(Tail(s)), i < j
                 PROVE  Tail(s)[i] < Tail(s)[j]
      BY DEF Increasing
    <2>1. i + 1 \in 1 .. Len(s) /\ j + 1 \in 1 .. Len(s) /\ i + 1 < j + 1
      BY <1>1
    <2> QED BY <1>1, <1>7, <2>1 DEF Increasing
  <1>8. ASSUME Increasing(s), NEW i \in 1 .. Len(Tail(s)) PROVE Head(s) < Tail(s)[i]
    <2>1. 1 \in 1 .. Len(s) /\ i + 1 \in 1 .. Len(s) /\ 1 < i + 1
      BY <1>1
    <2>2. s[1] < s[i + 1]
      BY <1>8, <2>1 DEF Increasing
    <2> QED BY <1>1, <2>2
  <1> QED BY <1>1, <1>3, <1>4, <1>5, <1>6, <1>7, <1>8

LEMMA AppendTakes ==
  ASSUME NEW s \in Seq(Positions), NEW e \in Positions
  PROVE  /\ Append(s, e) \in Seq(Positions) /\ ToSet(Append(s, e)) = ToSet(s) \cup {e}
         /\ Increasing(s) /\ (\A a \in ToSet(s) : a < e) => Increasing(Append(s, e))
  <1> DEFINE t == Append(s, e)
  <1>1. /\ t \in Seq(Positions) /\ Len(s) \in Nat /\ Len(t) = Len(s) + 1
        /\ \A i \in 1 .. Len(s) : t[i] = s[i]
        /\ t[Len(s) + 1] = e
    BY AppendProperties
  <1> HIDE DEF t
  <1>2. ToSet(s) = {s[i] : i \in 1 .. Len(s)} /\ ToSet(t) = {t[i] : i \in 1 .. Len(t)}
    BY <1>1 DEF ToSet
  <1>3. \A i \in 1 .. Len(t) : i \in 1 .. Len(s) \/ i = Len(s) + 1
    BY <1>1
  <1>4. 1 .. Len(s) \subseteq 1 .. Len(t) /\ Len(s) + 1 \in 1 .. Len(t)
    BY <1>1
  <1>5. ToSet(t) = ToSet(s) \cup {e}
    BY <1>1, <1>2, <1>3, <1>4
  <1>6. ASSUME Increasing(s), \A a \in ToSet(s) : a < e PROVE Increasing(t)
    <2> SUFFICES ASSUME NEW i \in 1 .. Len(t), NEW j \in 1 .. Len(t), i < j PROVE t[i] < t[j]
      BY DEF Increasing
    <2>1. i \in 1 .. Len(s)
      BY <1>1, <1>3
    <2>2. CASE j \in 1 .. Len(s)
      BY <1>1, <1>6, <2>1, <2>2 DEF Increasing
    <2>3. CASE j = Len(s) + 1
      BY <1>1, <1>2, <1>6, <2>1, <2>3
    <2> QED BY <1>3, <2>2, <2>3
  <1> QED BY <1>1, <1>5, <1>6 DEF t

LEMMA YieldKeeps == ASSUME WalkInv, Yield PROVE WalkInv'
  <1>1. /\ TypeOK /\ Shape /\ TakenBefore /\ NoneLost /\ rest # <<>> /\ stage = "walking"
        /\ got' = Append(got, Head(rest)) /\ rest' = Tail(rest)
        /\ UNCHANGED <<version, by, table, used, query, page, due, stage>>
    BY DEF WalkInv, Yield
  <1>2. got \in Seq(Positions) /\ rest \in Seq(Positions)
    BY <1>1 DEF TypeOK
  <1>3. Head(rest) \in Positions /\ Tail(rest) \in Seq(Positions) /\ Head(rest) \in ToSet(rest)
        /\ ToSet(rest) = {Head(rest)} \cup ToSet(rest')
    BY <1>1, <1>2, HeadTailProperties, HeadTaken
  <1>4. got' \in Seq(Positions) /\ ToSet(got') = ToSet(got) \cup {Head(rest)}
    BY <1>1, <1>2, <1>3, AppendTakes
  <1>5. Taken' = Taken
    BY <1>3, <1>4 DEF Taken
  <1>6. TypeOK'
    BY <1>1, <1>3, <1>4 DEF TypeOK
  <1>7. Shape'
    BY <1>1 DEF Shape, Clone
  <1>8. Ahead' = Ahead /\ Reachable' = Reachable
    BY <1>1 DEF Ahead, Reachable
  <1>9. NoneLost'
    BY <1>1, <1>5, <1>8 DEF NoneLost
  <1>10. TakenBefore'
    <2> SUFFICES ASSUME version = "v2.1" \/ used = Stored
                 PROVE  /\ Increasing(got') /\ Increasing(rest')
                        /\ \A a \in ToSet(got'), b \in ToSet(rest') : a < b
      BY <1>1, <1>5, <1>8 DEF TakenBefore
    <2>1. Increasing(got) /\ Increasing(rest) /\ \A a \in ToSet(got), b \in ToSet(rest) : a < b
      BY <1>1 DEF TakenBefore
    <2>2. Increasing(got')
      BY <1>1, <1>2, <1>3, <2>1, AppendTakes
    <2>3. Increasing(rest') /\ \A b \in ToSet(rest') : Head(rest) < b
      BY <1>1, <1>2, <2>1, HeadTaken
    <2> QED BY <1>3, <1>4, <2>1, <2>2, <2>3
  <1> QED BY <1>6, <1>7, <1>9, <1>10 DEF WalkInv

LEMMA InsertKeeps == ASSUME WalkInv, NEW r \in Positions, Insert(r) PROVE WalkInv'
  <1>1. /\ TypeOK /\ Shape /\ TakenBefore /\ NoneLost /\ r \notin used
        /\ table' = table \cup {r} /\ used' = used \cup {r}
        /\ UNCHANGED <<version, by, query, page, rest, got, due, stage>>
    BY DEF WalkInv, Insert
  <1>2. table \subseteq used /\ Stored \subseteq used /\ IsFiniteSet(table)
    BY <1>1 DEF Shape
  <1>3. TypeOK'
    BY <1>1 DEF TypeOK
  <1>4. IsFiniteSet(table')
    BY <1>1, <1>2, FS_AddElement
  <1>5. Shape'
    BY <1>1, <1>4 DEF Shape, Clone
  <1>6. Ahead \subseteq Ahead'
    <2>1. FiniteTable(table')
      BY <1>3, <1>5, PositionsAssumption DEF TypeOK, Shape, FiniteTable
    <2>2. ASSUME NEW x \in table PROVE Rank(table, x) <= Rank(table', x)
      BY <1>1, <2>1, RankMonotone
    <2>3. ASSUME NEW x \in table PROVE Rank(table, x) \in Nat /\ Rank(table', x) \in Nat
      BY <1>1, <2>1, TableTyped, RankTyped
    <2>4. version = "v2" => page.query.from + page.count \in Int
      BY <1>1 DEF TypeOK
    <2>5. CASE version = "v2"
      BY <1>1, <2>2, <2>3, <2>4, <2>5 DEF Ahead
    <2>6. CASE version # "v2"
      BY <1>1, <2>6 DEF Ahead
    <2> QED BY <2>5, <2>6
  <1>7. Taken' = Taken /\ Reachable \subseteq Reachable'
    BY <1>1, <1>6 DEF Taken, Reachable
  <1>8. table' = used' => table = used
    BY <1>1, <1>2
  <1>9. NoneLost'
    BY <1>1, <1>7, <1>8 DEF NoneLost
  <1>10. used' # Stored
    BY <1>1, <1>2
  <1>11. TakenBefore'
    <2>1. CASE version = "v2.1"
      BY <1>1, <1>7, <2>1 DEF TakenBefore
    <2>2. CASE version # "v2.1"
      BY <1>1, <1>10, <2>2 DEF TakenBefore
    <2> QED BY <2>1, <2>2
  <1> QED BY <1>3, <1>5, <1>9, <1>11 DEF WalkInv

LEMMA DeleteKeeps == ASSUME WalkInv, NEW r \in table, Delete(r) PROVE WalkInv'
  <1>1. /\ TypeOK /\ Shape /\ TakenBefore /\ NoneLost
        /\ table' = table \ {r} /\ due' = due \ {r}
        /\ UNCHANGED <<version, by, used, query, page, rest, got, stage>>
    BY DEF WalkInv, Delete
  <1>2. table \subseteq used /\ Stored \subseteq used /\ IsFiniteSet(table) /\ due \subseteq table
    BY <1>1 DEF Shape
  <1>3. TypeOK'
    BY <1>1 DEF TypeOK
  <1>4. IsFiniteSet(table')
    BY <1>1, <1>2, FS_RemoveElement
  <1>5. Shape'
    BY <1>1, <1>2, <1>4 DEF Shape, Clone
  <1>6. Ahead' \subseteq Ahead
    <2>1. FiniteTable(table) /\ FiniteTable(table')
      BY <1>1, <1>3, <1>5, TableTyped, PositionsAssumption DEF TypeOK, Shape, FiniteTable
    <2>2. ASSUME NEW x \in table' PROVE Rank(table', x) <= Rank(table, x)
      BY <1>1, <2>1, RankMonotone
    <2>3. ASSUME NEW x \in table' PROVE Rank(table, x) \in Nat /\ Rank(table', x) \in Nat
      BY <2>1, RankTyped
    <2>4. page.query.from + page.count \in Int
      BY <1>1 DEF TypeOK
    <2>5. CASE version = "v2"
      BY <1>1, <2>2, <2>3, <2>4, <2>5 DEF Ahead
    <2>6. CASE version # "v2"
      BY <1>1, <2>6 DEF Ahead
    <2> QED BY <2>5, <2>6
  <1>7. Taken' = Taken
    BY <1>1 DEF Taken
  <1>8. NoneLost'
    <2>1. table' # used'
      BY <1>1, <1>2
    <2>2. CASE version = "v2.1"
      <3>1. Reachable \ {r} \subseteq Reachable'
        BY <1>1, <2>2 DEF Reachable, Ahead
      <3>2. due \subseteq Taken \cup Reachable
        BY <1>1, <2>2 DEF NoneLost
      <3> QED BY <1>1, <1>7, <3>1, <3>2 DEF NoneLost
    <2> QED BY <1>1, <2>1, <2>2 DEF NoneLost
  <1>9. TakenBefore'
    BY <1>1, <1>6, <1>7 DEF TakenBefore
  <1> QED BY <1>3, <1>5, <1>8, <1>9 DEF WalkInv

\* Steps that keep the page, the report and what was taken.
LEMMA StageKeeps ==
  ASSUME WalkInv, UNCHANGED <<version, by, table, used, page, rest, got, due>>,
         \/ /\ query' = query
            /\ \/ stage' = stage
               \/ stage = "walking" /\ rest = <<>> /\ ~page.hasNext /\ stage' = "done"
               \/ stage = "walking" /\ stage' \in {"failed", "stopped"}
               \/ stage = "failed" /\ stage' = "walking"
         \/ by = "page" /\ query' \in Queries /\ stage' = stage
  PROVE  WalkInv'
  <1>1. TypeOK /\ Shape /\ TakenBefore /\ NoneLost
    BY DEF WalkInv
  <1>2. query' \in QueryRecord /\ (by = "page" => query' \in Queries)
    BY <1>1, QueriesAssumption DEF TypeOK, QueryRecord, NoCursor
  <1>3. TypeOK'
    BY <1>1, <1>2 DEF TypeOK, QueryRecord
  <1>4. Shape'
    BY <1>1 DEF Shape, Clone, TypeOK
  <1>5. TakenBefore' /\ NoneLost'
    BY <1>1 DEF TakenBefore, NoneLost, Taken, Ahead, Reachable
  <1> QED BY <1>3, <1>4, <1>5 DEF WalkInv

----------------------------------------------------------------------------
LEMMA InitWalk == Init => WalkInv
  <1> SUFFICES ASSUME Init PROVE WalkInv
    OBVIOUS
  <1>1. query \in QueryRecord
    BY QueriesAssumption DEF Init, QueryRecord, NoCursor
  <1>2. TypeOK
    BY <1>1, PositionsAssumption DEF Init, TypeOK, NoPage, NoCursor, QueryRecord
  <1>3. Shape
    BY <1>1, PositionsAssumption DEF Init, Shape, NoPage, QueryRecord
  <1>4. Taken = {} /\ ToSet(got) = {} /\ ToSet(rest) = {} /\ Increasing(got) /\ Increasing(rest)
    BY NoneTaken DEF Init, Taken
  <1>5. TakenBefore /\ NoneLost
    BY <1>4 DEF Init, TakenBefore, NoneLost
  <1> QED BY <1>2, <1>3, <1>5 DEF WalkInv

LEMMA WalkInductive == WalkInv /\ [Next]_vars => WalkInv'
  <1> SUFFICES ASSUME WalkInv, [Next]_vars PROVE WalkInv'
    OBVIOUS
  <1>1. CASE Finish \/ Resume \/ NextPageFails \/ Stop
    BY <1>1, StageKeeps DEF Finish, Resume, NextPageFails, Stop
  <1>2. ASSUME NEW q \in Queries, Requery(q) PROVE WalkInv'
    BY <1>2, StageKeeps DEF Requery
  <1>3. CASE UNCHANGED vars
    BY <1>3, StageKeeps DEF vars
  <1> QED BY <1>1, <1>2, <1>3, StartKeeps, YieldKeeps, NextPageKeeps, NextCommandKeeps,
             InsertKeeps, DeleteKeeps DEF Next, Walk

\* At any time, what was taken is in order and before what is ahead, and what
\* is owed was taken or is ahead.
THEOREM WalkInvariant == Spec => []WalkInv
  BY InitWalk, WalkInductive, PTL DEF Spec

\* Every variable holds a value the code can give it: above all, the query a
\* closure advances stays one that runFetch can send.
THEOREM TypeCorrect == Spec => []TypeOK
  <1>1. WalkInv => TypeOK
    BY DEF WalkInv
  <1> QED BY <1>1, WalkInvariant, PTL

\* By cursor, or as long as nothing is deleted, a walk over a report of any size
\* that ends has yielded every record that was there all along.
THEOREM AllRecordsYielded == Spec => []EveryRecordYielded
  <1>1. ASSUME WalkInv PROVE EveryRecordYielded
    <2> SUFFICES ASSUME version = "v2.1" \/ table = used, stage = "done"
                 PROVE  due \subseteq ToSet(got)
      BY DEF EveryRecordYielded, AllYielded
    <2>1. rest = <<>> /\ ~page.hasNext
      BY <1>1 DEF WalkInv, Shape
    <2> QED BY <1>1, <2>1, NoneTaken DEF WalkInv, NoneLost, Taken, Reachable
  <1> QED BY <1>1, WalkInvariant, PTL

\* By cursor, or as long as nothing is inserted, no record is yielded twice nor
\* out of order, however often requests fail and whatever the consumer does.
THEOREM EachRecordOnce == Spec => []NoRecordTwice
  <1>1. WalkInv => NoRecordTwice
    BY DEF WalkInv, TakenBefore, NoRecordTwice, Increasing
  <1> QED BY <1>1, WalkInvariant, PTL

----------------------------------------------------------------------------
(* Refinement of ReportWalk *)

\* What the page held still has to yield is in order; and nothing that is owed
\* and was not taken is before it.
Passing ==
    /\ Increasing(rest)
    /\ version = "v2.1" \/ table = used => \A o \in due \ Taken, r \in ToSet(rest) : r < o

LEMMA FetchPasses ==
  ASSUME TypeOK, Shape, WalkInv', UNCHANGED <<version, table>>, NEW q \in QueryRecord, Fetch(q)
  PROVE  Passing'
  <1>1. Increasing(rest') /\ \A a \in ToSet(rest'), b \in Ahead' : a < b
    BY FetchAnswers DEF Served
  <1>2. (version = "v2.1" \/ table = used)' => due' \ Taken' \subseteq Ahead'
    BY DEF WalkInv, NoneLost, Reachable
  <1> QED BY <1>1, <1>2 DEF Passing

LEMMA AdvanceTyped == ASSUME TypeOK PROVE Advance(page.query) \in QueryRecord
  <1>1. page.query \in QueryRecord /\ page.cursor \in Positions \cup {NoCursor}
    BY DEF TypeOK, QueryRecord
  <1>2. CASE version = "v2"
    BY <1>1, <1>2 DEF Advance, QueryRecord
  <1>3. CASE version # "v2"
    BY <1>1, <1>3 DEF Advance, QueryRecord
  <1> QED BY <1>2, <1>3

LEMMA RequestPasses == ASSUME WalkInv, WalkInv', Start \/ NextPage \/ NextCommand PROVE Passing'
  <1>1. TypeOK /\ Shape /\ query \in QueryRecord /\ query' \in QueryRecord
    BY DEF WalkInv, TypeOK, QueryRecord
  <1>2. CASE Start
    <2> DEFINE q == IF by = "zc" THEN FromFlags(query) ELSE query
    <2>1. q \in QueryRecord
      BY <1>1, FlagsTyped
    <2>2. Fetch(q) /\ UNCHANGED <<version, table>>
      BY <1>2 DEF Start
    <2> QED BY <1>1, <2>1, <2>2, FetchPasses
  <1>3. CASE NextPage
    <2>1. Fetch(Advance(page.query)) /\ UNCHANGED <<version, table>>
      BY <1>3 DEF NextPage
    <2> QED BY <1>1, <2>1, AdvanceTyped, FetchPasses
  <1>4. CASE NextCommand
    <2>1. Fetch(FromFlags(Hint)) /\ UNCHANGED <<version, table>> /\ query' = Hint
      BY <1>4 DEF NextCommand
    <2>2. FromFlags(Hint) \in QueryRecord
      BY <1>1, <2>1, FlagsTyped
    <2> QED BY <1>1, <2>1, <2>2, FetchPasses
  <1> QED BY <1>2, <1>3, <1>4

LEMMA PassingInductive == WalkInv /\ WalkInv' /\ Passing /\ [Next]_vars => Passing'
  <1> SUFFICES ASSUME WalkInv, WalkInv', Passing, [Next]_vars PROVE Passing'
    OBVIOUS
  <1>1. TypeOK /\ Shape
    BY DEF WalkInv
  <1>2. CASE Yield
    <2>1. /\ rest \in Seq(Positions) /\ rest # <<>> /\ rest' = Tail(rest)
          /\ UNCHANGED <<version, table, used, due>>
      BY <1>1, <1>2 DEF Yield, TypeOK
    <2>2. ToSet(rest') \subseteq ToSet(rest) /\ Increasing(rest')
      BY <2>1, HeadTaken DEF Passing
    <2>3. Taken' = Taken
      <3>1. Head(rest) \in Positions /\ ToSet(rest) = {Head(rest)} \cup ToSet(rest')
        BY <2>1, HeadTaken, HeadTailProperties
      <3>2. got' = Append(got, Head(rest)) /\ got \in Seq(Positions)
        BY <1>1, <1>2 DEF Yield, TypeOK
      <3>3. ToSet(got') = ToSet(got) \cup {Head(rest)}
        BY <3>1, <3>2, AppendTakes
      <3> QED BY <3>1, <3>3 DEF Taken
    <2> QED BY <2>1, <2>2, <2>3 DEF Passing
  <1>3. ASSUME NEW r \in Positions, Insert(r) PROVE Passing'
    <2>1. table' = used' => table = used
      BY <1>1, <1>3 DEF Insert, Shape
    <2> QED BY <1>3, <2>1 DEF Insert, Passing, Taken
  <1>4. ASSUME NEW r \in table, Delete(r) PROVE Passing'
    <2>1. table' # used' /\ due' \subseteq due
      BY <1>1, <1>4 DEF Delete, Shape
    <2> QED BY <1>4, <2>1 DEF Delete, Passing, Taken
  <1>5. CASE UNCHANGED <<version, table, used, due, rest, got>>
    BY <1>5 DEF Passing, Taken
  <1>6. \/ Finish \/ Resume \/ NextPageFails \/ Stop \/ UNCHANGED vars
        \/ \E q \in Queries : Requery(q)
        => UNCHANGED <<version, table, used, due, rest, got>>
    BY DEF Finish, Resume, NextPageFails, Stop, Requery, vars
  <1> QED BY <1>2, <1>3, <1>4, <1>5, <1>6, RequestPasses DEF Next, Walk

\* The first record the page held has left: nothing owed is left out before it.
LEMMA HeadPasses ==
  ASSUME WalkInv, Passing, rest # <<>>
  PROVE  /\ Head(rest) \in Positions
         /\ version = "v2.1" \/ used = Stored => \A a \in ToSet(got) : a < Head(rest)
         /\ version = "v2.1" \/ table = used
                => \A o \in due : o < Head(rest) => o \in ToSet(got)
  <1>1. /\ rest \in Seq(Positions) /\ Head(rest) \in Positions /\ Head(rest) \in ToSet(rest)
        /\ ToSet(rest) = {Head(rest)} \cup ToSet(Tail(rest))
        /\ \A b \in ToSet(Tail(rest)) : Head(rest) < b
    BY HeadTaken, HeadTailProperties DEF WalkInv, TypeOK, Passing
  <1>2. due \subseteq Nat /\ Head(rest) \in Nat
    <2>1. due \subseteq Positions
      BY DEF WalkInv, TypeOK
    <2> QED BY <1>1, <2>1, PositionsAssumption
  <1>3. version = "v2.1" \/ used = Stored => \A a \in ToSet(got) : a < Head(rest)
    BY <1>1 DEF WalkInv, TakenBefore
  <1>4. ASSUME version = "v2.1" \/ table = used, NEW o \in due, o < Head(rest)
        PROVE  o \in ToSet(got)
    <2>1. o \in Nat /\ Head(rest) \in Nat /\ ~(Head(rest) < o)
      BY <1>1, <1>2, <1>4
    <2>2. o \in Taken
      BY <1>1, <1>4, <2>1 DEF Passing
    <2>3. o \notin {Head(rest)} \cup ToSet(Tail(rest))
      BY <1>1, <1>4, <2>1
    <2> QED BY <1>1, <2>2, <2>3 DEF Taken
  <1> QED BY <1>1, <1>3, <1>4

LEMMA SameElements == \A sequence : Walked!ToSet(sequence) = ToSet(sequence)
  BY DEF ToSet, Walked!ToSet

LEMMA WalkedInit == Init => Walked!Init
  BY DEF Init, Walked!Init

LEMMA WalkedStep == WalkInv /\ WalkInv' /\ Passing /\ [Next]_vars => [Walked!Next]_(Walked!walk)
  <1> SUFFICES ASSUME WalkInv, WalkInv', Passing, [Next]_vars
               PROVE  Walked!Next \/ UNCHANGED Walked!walk
    OBVIOUS
  <1>1. TypeOK /\ Shape /\ TypeOK' /\ Shape'
    BY DEF WalkInv
  <1>2. CASE Start
    <2>1. due' \in SUBSET Positions /\ stage' = "walking"
      BY <1>1, <1>2 DEF TypeOK, Start, Fetch
    <2>2. Walked!Begin
      BY <1>2, <2>1 DEF Start, Walked!Begin
    <2> QED BY <2>2 DEF Walked!Next
  <1>3. CASE Yield
    <2>1. PICK r \in Positions :
            /\ r = Head(rest)
            /\ (version = "v2" /\ used # Stored) \/ Walked!ComesAfter(r)
            /\ (version = "v2" /\ table # used) \/ Walked!LeavesNone(r)
      BY <1>1, <1>3, HeadPasses, SameElements
         DEF Yield, TypeOK, Walked!ComesAfter, Walked!LeavesNone
    <2>2. /\ stage = "walking" /\ got' = Append(got, r)
          /\ UNCHANGED <<version, table, used, due, stage>>
      BY <1>3, <2>1 DEF Yield
    <2>3. Walked!Take(r)
      BY <2>1, <2>2 DEF Walked!Take
    <2> QED BY <2>3 DEF Walked!Next
  <1>4. CASE NextPage \/ NextCommand \/ NextPageFails \/ Resume
    BY <1>4 DEF NextPage, NextCommand, NextPageFails, Resume, Fetch, Walked!walk
  <1>5. CASE Finish
    <2>1. version = "v2.1" \/ table = used => due \subseteq ToSet(got)
      BY <1>5, NoneTaken DEF Finish, WalkInv, NoneLost, Taken, Reachable
    <2>2. Walked!End
      BY <1>1, <1>5, <2>1, SameElements DEF Finish, TypeOK, Walked!End
    <2> QED BY <2>2 DEF Walked!Next
  <1>6. CASE Stop
    <2>1. Walked!Leave
      BY <1>6 DEF Stop, Walked!Leave
    <2> QED BY <2>1 DEF Walked!Next
  <1>7. ASSUME NEW r \in Positions, Insert(r) PROVE Walked!Next \/ UNCHANGED Walked!walk
    <2>1. /\ used' # Stored /\ (table' = used' <=> table = used)
          /\ UNCHANGED <<version, due, got, stage>>
      BY <1>1, <1>7 DEF Insert, Shape
    <2>2. CASE version = "v2"
      <3>1. Walked!Grow
        BY <2>1, <2>2 DEF Walked!Grow
      <3> QED BY <3>1 DEF Walked!Next
    <2>3. CASE version # "v2"
      BY <2>1, <2>3 DEF Walked!walk
    <2> QED BY <2>2, <2>3
  <1>8. ASSUME NEW r \in table, Delete(r) PROVE Walked!Next
    <2>1. /\ table' # used' /\ due' = due \ {r} /\ r \in Positions
          /\ UNCHANGED <<version, used, got, stage>>
      BY <1>1, <1>8 DEF Delete, Shape, TypeOK
    <2>2. Walked!Lose(r)
      BY <2>1 DEF Walked!Lose
    <2> QED BY <2>1, <2>2 DEF Walked!Next
  <1>9. CASE \E q \in Queries : Requery(q)
    BY <1>9 DEF Requery, Walked!walk
  <1>10. CASE UNCHANGED vars
    BY <1>10 DEF vars, Walked!walk
  <1> QED BY <1>2, <1>3, <1>4, <1>5, <1>6, <1>7, <1>8, <1>9, <1>10 DEF Next, Walk

\* Page by page or command by command, whatever fails and whatever others edit, a
\* walk does nothing that ReportWalk would not: wherever its consumer stops, it
\* has had every record it is owed up to there, each once and in order.
THEOREM Refinement == Spec => ImplementsWalk
  <1>1. Init => Passing
    BY NoneTaken DEF Init, Passing
  <1> QED BY <1>1, WalkInvariant, PassingInductive, WalkedInit, WalkedStep, PTL
          DEF Spec, ImplementsWalk, Walked!Spec
=============================================================================
