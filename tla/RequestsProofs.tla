--------------------------- MODULE RequestsProofs ---------------------------
(***************************************************************************)
(* A v2 server is spared what only v2.1 knows, what changes records names  *)
(* one or filters them, and the pages of a walk keep the link, the token   *)
(* and the filters of the first, whichever names, criteria, queries and    *)
(* methods the constants stand for.  Whoever composes a criteria may give  *)
(* any text, so the steps below are a little more than those of Requests;  *)
(* what a composed criteria selects comes last, from ExpressionsProofs.    *)
(***************************************************************************)
EXTENDS FilteredRequests, ExpressionsProofs

USE DEF ModernOnly, ModernParams

\* A bulk write by whatever criteria, and any step of Requests.
ByCriteria == \E criteria : UpdateMany({}, criteria) \/ DeleteMany({}, criteria)
AnyRequest == Next \/ ByCriteria

\* A consumer that composes sends one of these, or nothing.
LEMMA FilterSteps == [FilterNext]_<<vars, filterVars>> => [AnyRequest]_vars
  <1> SUFFICES ASSUME FilterNext PROVE [AnyRequest]_vars
    BY DEF filterVars
  <1>1. CASE ComposeJoin \/ ComposeNot
    BY <1>1 DEF ComposeJoin, ComposeNot, Compose
  <1>2. ASSUME NEW term, SendFiltered(term) PROVE AnyRequest
    BY <1>2 DEF SendFiltered, AnyRequest, ByCriteria
  <1>3. ASSUME NEW term, SendRefused(term) PROVE UNCHANGED vars
    BY <1>3 DEF SendRefused
  <1>4. CASE SendOther
    BY <1>4 DEF SendOther, AnyRequest
  <1> QED BY <1>1, <1>2, <1>3, <1>4 DEF FilterNext

AnySpec == Init /\ [][AnyRequest]_vars

\* What holds of every sender holds of the services, and of their consumer.
LEMMA Senders == (Spec => AnySpec) /\ (FilterSpec => AnySpec)
  <1>1. [Next]_vars => [AnyRequest]_vars
    BY DEF AnyRequest
  <1>2. FilterInit => Init
    BY DEF FilterInit
  <1> QED BY <1>1, <1>2, FilterSteps, PTL DEF Spec, FilterSpec, AnySpec

----------------------------------------------------------------------------
(* What a v2 server sees *)

LEMMA SparedSend ==
  ASSUME NEW op, NEW method, NEW path, NEW query, NEW body, NEW criteria,
         NEW link, NEW headers,
         Send(op, method, path, query, body, criteria, link, headers),
         version' = version,
         version = "v2" /\ op # "BulkCreate" =>
             (query \cup body \cup headers) \cap ModernOnly = {}
  PROVE  V2Spared'
  <1> SUFFICES ASSUME version = "v2", op # "BulkCreate"
               PROVE  (request'.query \cup request'.body \cup request'.headers) \cap ModernOnly = {}
    BY DEF V2Spared, Send
  <1>1. request'.headers = headers \cup (IF link THEN {} ELSE {"Authorization"})
    BY DEF Send, Headers
  <1>2. request'.query = query \cup LinkParam(link) /\ request'.body = body
    BY DEF Send
  <1> QED BY <1>1, <1>2 DEF LinkParam

LEMMA SparedWrite ==
  ASSUME NEW op, NEW method, NEW path, NEW body, NEW criteria, NEW link,
         Write(op, method, path, body, criteria, link),
         version = "v2" /\ op # "BulkCreate" => body \cap ModernOnly = {}
  PROVE  V2Spared'
  <1> QED BY SparedSend DEF Write

LEMMA SparedRead ==
  ASSUME NEW op, NEW path, NEW link, Read(op, path, link)
  PROVE  V2Spared'
  <1> QED BY SparedSend DEF Read

LEMMA SparedFetch ==
  ASSUME NEW op, NEW path, NEW q, NEW link, NEW first, Fetch(op, path, q, link, first)
  PROVE  V2Spared'
  <1>1. version = "v2" => (Params(q) \cup {} \cup CursorHeader(q)) \cap ModernOnly = {}
    BY DEF Params, CursorHeader
  <1> QED BY <1>1, SparedSend DEF Fetch

----------------------------------------------------------------------------
LEMMA SparedInit == Init => V2Spared
  <1> QED BY DEF Init, V2Spared, NoRequest

LEMMA SparedBulkWrite ==
  ASSUME NEW options, NEW criteria, UpdateMany(options, criteria) \/ DeleteMany(options, criteria)
  PROVE  V2Spared'
  <1> DEFINE Keys(extra, shown) == extra \cup ResultKey(shown) \cup SkipKey(options)
  <1>1. ASSUME NEW extra \in SUBSET {"data", "criteria"}, NEW shown
        PROVE  version = "v2" => Keys(extra, shown) \cap ModernOnly = {}
    BY DEF ResultKey, SkipKey
  <1>2. CASE UpdateMany(options, criteria)
    BY <1>1, <1>2, SparedWrite DEF UpdateMany
  <1>3. CASE DeleteMany(options, criteria)
    BY <1>1, <1>3, SparedWrite DEF DeleteMany
  <1> QED BY <1>2, <1>3

LEMMA SparedRecordWrite == ASSUME RecordWrite PROVE V2Spared'
  <1>1. PICK options \in SUBSET WriteOptions :
            \/ Add(options) \/ UpdateByID(options) \/ DeleteByID(options)
            \/ \E criteria \in Criterion : UpdateMany(options, criteria) \/ DeleteMany(options, criteria)
            \/ \E link \in BOOLEAN : PublishAdd(options, link)
    BY DEF RecordWrite
  <1> DEFINE Keys(extra, shown) == extra \cup ResultKey(shown) \cup SkipKey(options)
  <1>2. ASSUME NEW extra \in SUBSET {"data", "criteria"}, NEW shown
        PROVE  version = "v2" => Keys(extra, shown) \cap ModernOnly = {}
    BY DEF ResultKey, SkipKey
  <1>3. CASE Add(options) BY <1>2, <1>3, SparedWrite DEF Add
  <1>4. CASE UpdateByID(options) BY <1>2, <1>4, SparedWrite DEF UpdateByID
  <1>5. CASE DeleteByID(options)
    <2>1. version = "v2" =>
              (ResultKey(options \cap {"message"}) \cup SkipKey(options)) \cap ModernOnly = {}
      BY DEF ResultKey, SkipKey
    <2> QED BY <1>5, <2>1, SparedWrite DEF DeleteByID
  <1>6. ASSUME NEW criteria, UpdateMany(options, criteria) \/ DeleteMany(options, criteria)
        PROVE  V2Spared'
    BY <1>6, SparedBulkWrite
  <1>7. ASSUME NEW link \in BOOLEAN, PublishAdd(options, link) PROVE V2Spared'
    BY <1>2, <1>7, SparedWrite DEF PublishAdd
  <1> QED BY <1>1, <1>3, <1>4, <1>5, <1>6, <1>7

LEMMA SparedUpload == ASSUME Upload PROVE V2Spared'
  <1> QED BY SparedWrite DEF Upload

LEMMA SparedSingleRead == ASSUME SingleRead PROVE V2Spared'
  <1>1. CASE GetByID BY <1>1, SparedRead DEF GetByID
  <1>2. CASE Applications BY <1>2, SparedRead DEF Applications
  <1>3. CASE ApplicationsByWorkspace BY <1>3, SparedRead DEF ApplicationsByWorkspace
  <1>4. CASE Fields BY <1>4, SparedRead DEF Fields
  <1>5. ASSUME NEW kind, OfApplication(kind) PROVE V2Spared'
    BY <1>5, SparedRead DEF OfApplication
  <1>6. ASSUME NEW link \in BOOLEAN, PublishGetByID(link) PROVE V2Spared'
    BY <1>6, SparedRead DEF PublishGetByID
  <1>7. ASSUME NEW link \in BOOLEAN, Download(link) PROVE V2Spared'
    BY <1>7, SparedRead DEF Download
  <1>8. ASSUME NEW link \in BOOLEAN, DownloadSubform(link) PROVE V2Spared'
    BY <1>8, SparedRead DEF DownloadSubform
  <1> QED BY <1>1, <1>2, <1>3, <1>4, <1>5, <1>6, <1>7, <1>8 DEF SingleRead

LEMMA SparedBulkRead == ASSUME BulkRead PROVE V2Spared'
  <1>1. ASSUME NEW fields, BulkCreate(fields) PROVE V2Spared'
    BY <1>1, SparedWrite DEF BulkCreate
  <1>2. CASE BulkStatus BY <1>2, SparedRead DEF BulkStatus
  <1>3. CASE BulkDownload BY <1>3, SparedRead DEF BulkDownload
  <1> QED BY <1>1, <1>2, <1>3 DEF BulkRead

LEMMA SparedCustom == ASSUME Custom PROVE V2Spared'
  <1>1. PICK method \in Verbs, body \in SUBSET {"body"}, publicKey \in BOOLEAN :
            Invoke(method, body, publicKey)
    BY DEF Custom
  <1>2. /\ request'.query \cup request'.body \subseteq {"publickey", "body"}
        /\ request'.headers = Headers(publicKey, publicKey, {})
        /\ version' = version
    BY <1>1 DEF Invoke
  <1>3. version = "v2" => Headers(publicKey, publicKey, {}) \subseteq {"Authorization"}
    BY DEF Headers
  <1> QED BY <1>2, <1>3 DEF V2Spared

LEMMA SparedPageRequest == ASSUME PageRequest PROVE V2Spared'
  <1>1. ASSUME NEW q, NEW link, PublishGet(q, link) PROVE V2Spared'
    BY <1>1, SparedFetch DEF PublishGet
  <1>2. ASSUME NEW q, Get(q) PROVE V2Spared'
    BY <1>2, SparedFetch DEF Get
  <1>3. CASE NextPage
    BY <1>3, SparedFetch DEF NextPage
  <1> QED BY <1>1, <1>2, <1>3 DEF PageRequest

LEMMA SparedInductive == V2Spared /\ [AnyRequest]_vars => V2Spared'
  <1>1. V2Spared /\ UNCHANGED vars => V2Spared'
    BY DEF V2Spared, vars
  <1>2. ByCriteria => V2Spared'
    BY SparedBulkWrite DEF ByCriteria
  <1>3. Next => V2Spared'
    BY SparedRecordWrite, SparedUpload, SparedSingleRead, SparedBulkRead, SparedCustom,
       SparedPageRequest DEF Next
  <1> QED BY <1>1, <1>2, <1>3 DEF AnyRequest

\* No request but that of a bulk read carries what only v2.1 knows to a v2
\* server, whatever the consumer sets in its query or options: by the way each
\* operation builds its parameters, its body and its headers.
THEOREM OldServersSpared == (Spec => []V2Spared) /\ (FilterSpec => []V2Spared)
  <1>1. AnySpec => []V2Spared
    BY SparedInit, SparedInductive, PTL DEF AnySpec
  <1> QED BY <1>1, Senders

----------------------------------------------------------------------------
(* Which records a request is about, links, tokens and walks *)

Links == {"privatelink", "publickey"}
PageOps == {"Get", "PublishGet"}

\* A request outside a walk.
Single ==
    /\ walk' = walk /\ version' = version /\ environment' = environment
    /\ request'.op \notin PageOps
    /\ request'.query \subseteq Links
    /\ request'.headers \subseteq {"Authorization", "environment"}
    /\ request'.method \in HTTPMethods /\ request'.body \subseteq BodyKeys
    /\ WritesAreScoped'
    /\ "Authorization" \in request'.headers <=> request'.query \cap Links = {}

\* What the walk held says of the request for its next page.
WalkInv ==
    /\ walk.op \in PageOps \cup {"none"}
    /\ walk.linked \in BOOLEAN
    /\ walk.more => walk.op # "none"
    /\ walk.op # "none" =>
          /\ walk.first \ Position = (Params(walk.query) \cup LinkParam(walk.linked)) \ Position
          /\ "privatelink" \in walk.first <=> walk.linked
    /\ LinkInsteadOfToken
    /\ WalkKeepsQuery

RequestsInv == TypeOK /\ WritesAreScoped /\ WalkInv

\* What a write with these parts is about.
Scoped(method, path, body, criteria) ==
    method \in {"PATCH", "DELETE"} =>
        \/ Len(Versioned(path)) = 8 /\ Versioned(path)[8] # Empty
        \/ "criteria" \in body /\ ~Blank(criteria)

LEMMA ScopedSend ==
  ASSUME NEW op, NEW method, NEW path, NEW query, NEW body, NEW criteria,
         NEW link, NEW headers,
         Send(op, method, path, query, body, criteria, link, headers),
         Scoped(method, path, body, criteria)
  PROVE  WritesAreScoped'
  <1>1. /\ request'.method = method /\ request'.path = Versioned(path)
        /\ request'.body = body /\ request'.criteria = criteria
    BY DEF Send
  <1> QED BY <1>1 DEF Scoped, WritesAreScoped, Blank

LEMMA LinkedSend ==
  ASSUME NEW op, NEW method, NEW path, NEW query, NEW body, NEW criteria,
         NEW link, NEW headers,
         Send(op, method, path, query, body, criteria, link, headers),
         query \cap Links = {}, "Authorization" \notin headers
  PROVE  /\ request'.op = op /\ request'.query = query \cup LinkParam(link)
         /\ "Authorization" \in request'.headers <=> ~link
         /\ "Authorization" \in request'.headers <=> request'.query \cap Links = {}
  <1>1. /\ request'.op = op /\ request'.query = query \cup LinkParam(link)
        /\ request'.headers = Headers(link, FALSE, headers)
    BY DEF Send
  <1>2. "Authorization" \in Headers(link, FALSE, headers) <=> ~link
    BY DEF Headers
  <1>3. (query \cup LinkParam(link)) \cap Links = {} <=> ~link
    BY DEF LinkParam, Links
  <1> QED BY <1>1, <1>2, <1>3

\* A request without parameters or headers of its own.
LEMMA PlainSend ==
  ASSUME NEW op, NEW method, NEW path, NEW body, NEW criteria, NEW link,
         Send(op, method, path, {}, body, criteria, link, {})
  PROVE  /\ request'.op = op /\ request'.query \subseteq Links
         /\ request'.headers \subseteq {"Authorization", "environment"}
         /\ "Authorization" \in request'.headers <=> request'.query \cap Links = {}
  <1>1. /\ request'.op = op /\ request'.query = {} \cup LinkParam(link)
        /\ request'.headers = Headers(link, FALSE, {})
    BY DEF Send
  <1>2. /\ Headers(link, FALSE, {}) \subseteq {"Authorization", "environment"}
        /\ "Authorization" \in Headers(link, FALSE, {}) <=> ~link
    BY DEF Headers
  <1>3. LinkParam(link) \subseteq Links /\ (LinkParam(link) \cap Links = {} <=> ~link)
    BY DEF LinkParam, Links
  <1> QED BY <1>1, <1>2, <1>3

\* A path of six segments is sent as one of eight.
LEMMA VersionedPath ==
  ASSUME NEW S, NEW report \in Seq(S), Len(report) = 5, report[1] = "data",
         NEW id \in S, "creator" \in S, version \in S
  PROVE  /\ Len(Versioned(Append(report, id))) = 8
         /\ Versioned(Append(report, id))[8] = id
  <1> DEFINE path == Append(report, id)
             front == <<"creator">> \o <<version>>
  <1>1. /\ path \in Seq(S) /\ Len(path) = 6 /\ path[1] = "data" /\ path[6] = id
    <2>1. path \in Seq(S) /\ Len(path) = Len(report) + 1 /\ path[Len(report) + 1] = id
      BY AppendProperties
    <2>2. path[1] = report[1]
      <3>1. 1 \in 1 .. Len(report) OBVIOUS
      <3> QED BY <3>1
    <2> QED BY <2>1, <2>2
  <1>2. Versioned(path) = front \o path
    BY <1>1 DEF Versioned
  <1>3. front \in Seq(S) /\ Len(front) = 2
    BY ConcatProperties
  <1> HIDE DEF path, front
  <1>4. /\ Len(front \o path) = Len(front) + Len(path)
        /\ \A i \in 1 .. Len(front) + Len(path) :
              (front \o path)[i] = IF i <= Len(front) THEN front[i] ELSE path[i - Len(front)]
    BY <1>1, <1>3, ConcatProperties
  <1>5. Len(front \o path) = 8 /\ (front \o path)[8] = id
    BY <1>1, <1>3, <1>4
  <1> QED BY <1>2, <1>5 DEF path

LEMMA RecordPath ==
  ASSUME NEW n, NEW id
  PROVE  /\ Len(Versioned(Append(DataReport(n), id))) = 8
         /\ Versioned(Append(DataReport(n), id))[8] = id
  <1> DEFINE S == {"creator", version, "data", n.owner, n.app, "report", n.report, id}
  <1>1. DataReport(n) \in Seq(S) /\ Len(DataReport(n)) = 5 /\ DataReport(n)[1] = "data"
    BY DEF DataReport
  <1>2. "creator" \in S /\ version \in S /\ id \in S
    OBVIOUS
  <1> HIDE DEF S
  <1> QED BY <1>1, <1>2, VersionedPath

\* Who names a record has an id that is not empty.
LEMMA ByID ==
  ASSUME NEW fields, "id" \in fields, NEW n \in NamesFor(fields), NEW method, NEW body, NEW criteria
  PROVE  Scoped(method, Append(DataReport(n), n.id), body, criteria)
  <1>1. n.id # Empty
    BY DEF NamesFor, Named
  <1> QED BY <1>1, RecordPath DEF Scoped

\* What the writes put into their bodies.
LEMMA Bodies ==
  ASSUME NEW options
  PROVE  ResultKey(options) \subseteq BodyKeys /\ SkipKey(options) \subseteq BodyKeys
  BY DEF ResultKey, SkipKey, BodyKeys

LEMMA SingleWrite ==
  ASSUME NEW op, NEW method, NEW path, NEW body, NEW criteria, NEW link,
         Write(op, method, path, body, criteria, link), op \notin PageOps,
         method \in HTTPMethods, body \subseteq BodyKeys,
         Scoped(method, path, body, criteria)
  PROVE  Single
  <1>1. Send(op, method, path, {}, body, criteria, link, {})
    BY DEF Write
  <1>2. /\ request'.op = op /\ request'.query \subseteq Links
        /\ request'.headers \subseteq {"Authorization", "environment"}
        /\ "Authorization" \in request'.headers <=> request'.query \cap Links = {}
    BY <1>1, PlainSend
  <1>3. WritesAreScoped'
    BY <1>1, ScopedSend
  <1>4. request'.method = method /\ request'.body = body
    BY <1>1 DEF Send
  <1> QED BY <1>2, <1>3, <1>4 DEF Write, Single

\* A POST changes no record that is there.
LEMMA SinglePost ==
  ASSUME NEW op, NEW path, NEW body, NEW criteria, NEW link,
         Write(op, "POST", path, body, criteria, link), op \notin PageOps, body \subseteq BodyKeys
  PROVE  Single
  <1>1. Scoped("POST", path, body, criteria)
    BY DEF Scoped
  <1>2. "POST" \in HTTPMethods
    BY DEF HTTPMethods
  <1> QED BY <1>1, <1>2, SingleWrite

LEMMA SingleReadKeeps ==
  ASSUME NEW op, NEW path, NEW link, Read(op, path, link), op \notin PageOps
  PROVE  Single
  <1>1. Send(op, "GET", path, {}, {}, Empty, link, {})
    BY DEF Read
  <1>2. /\ request'.op = op /\ request'.query \subseteq Links
        /\ request'.headers \subseteq {"Authorization", "environment"}
        /\ "Authorization" \in request'.headers <=> request'.query \cap Links = {}
    BY <1>1, PlainSend
  <1>3. request'.method = "GET" /\ request'.body = {}
    BY <1>1 DEF Send
  <1>4. WritesAreScoped' /\ request'.method \in HTTPMethods
    BY <1>3 DEF WritesAreScoped, HTTPMethods
  <1> QED BY <1>2, <1>3, <1>4 DEF Read, Single

LEMMA SingleRequests ==
  ASSUME RecordWrite \/ ByCriteria \/ Upload \/ SingleRead \/ BulkRead \/ Custom
  PROVE  Single
  <1>0. /\ "Add" \notin PageOps /\ "UpdateByID" \notin PageOps /\ "DeleteByID" \notin PageOps
       /\ "UpdateMany" \notin PageOps /\ "DeleteMany" \notin PageOps /\ "PublishAdd" \notin PageOps
       /\ "Upload" \notin PageOps /\ "GetByID" \notin PageOps /\ "Applications" \notin PageOps
       /\ "ApplicationsByWorkspace" \notin PageOps /\ "Fields" \notin PageOps /\ "Meta" \notin PageOps
       /\ "PublishGetByID" \notin PageOps /\ "Download" \notin PageOps /\ "DownloadSubform" \notin PageOps
       /\ "BulkCreate" \notin PageOps /\ "BulkStatus" \notin PageOps /\ "BulkDownload" \notin PageOps
       /\ "Invoke" \notin PageOps
    BY DEF PageOps
  <1> /\ "PATCH" \in HTTPMethods /\ "DELETE" \in HTTPMethods
      /\ "data" \in BodyKeys /\ "criteria" \in BodyKeys /\ "file" \in BodyKeys
    BY DEF HTTPMethods, BodyKeys
  <1>1. ASSUME NEW options, Add(options) \/ UpdateByID(options) \/ DeleteByID(options)
        PROVE  Single
    <2>1. CASE Add(options)
      BY <2>1, <1>0, Bodies, SinglePost DEF Add
    <2>2. CASE UpdateByID(options)
      <3> DEFINE body == {"data"} \cup ResultKey(options) \cup SkipKey(options)
      <3>1. PICK n \in NamesFor({"owner", "app", "report", "id"}) :
                Write("UpdateByID", "PATCH", Append(DataReport(n), n.id), body, Empty, FALSE)
        BY <2>2 DEF UpdateByID
      <3>2. Scoped("PATCH", Append(DataReport(n), n.id), body, Empty)
        BY <3>1, ByID
      <3>3. body \subseteq BodyKeys
        BY Bodies
      <3> HIDE DEF body
      <3> QED BY <3>1, <3>2, <3>3, <1>0, SingleWrite
    <2>3. CASE DeleteByID(options)
      <3> DEFINE body == ResultKey(options \cap {"message"}) \cup SkipKey(options)
      <3>1. PICK n \in NamesFor({"owner", "app", "report", "id"}) :
                Write("DeleteByID", "DELETE", Append(DataReport(n), n.id), body, Empty, FALSE)
        BY <2>3 DEF DeleteByID
      <3>2. Scoped("DELETE", Append(DataReport(n), n.id), body, Empty)
        BY <3>1, ByID
      <3>3. body \subseteq BodyKeys
        BY Bodies
      <3> HIDE DEF body
      <3> QED BY <3>1, <3>2, <3>3, <1>0, SingleWrite
    <2> QED BY <1>1, <2>1, <2>2, <2>3
  <1>2. ASSUME NEW options, NEW criteria, UpdateMany(options, criteria) \/ DeleteMany(options, criteria)
        PROVE  Single
    <2>1. CASE UpdateMany(options, criteria)
      <3> DEFINE body == {"data", "criteria"} \cup ResultKey(options) \cup SkipKey(options)
      <3>1. PICK n \in NamesFor({"owner", "app", "report"}) :
                Write("UpdateMany", "PATCH", DataReport(n), body, criteria, FALSE)
        BY <2>1 DEF UpdateMany
      <3>2. ~Blank(criteria)
        BY <2>1 DEF UpdateMany
      <3>3. Scoped("PATCH", DataReport(n), body, criteria)
        BY <3>2 DEF Scoped
      <3>4. body \subseteq BodyKeys
        BY Bodies
      <3> HIDE DEF body
      <3> QED BY <3>1, <3>3, <3>4, <1>0, SingleWrite
    <2>2. CASE DeleteMany(options, criteria)
      <3> DEFINE body == {"criteria"} \cup ResultKey(options \cap {"message"}) \cup SkipKey(options)
      <3>1. PICK n \in NamesFor({"owner", "app", "report"}) :
                Write("DeleteMany", "DELETE", DataReport(n), body, criteria, FALSE)
        BY <2>2 DEF DeleteMany
      <3>2. ~Blank(criteria)
        BY <2>2 DEF DeleteMany
      <3>3. Scoped("DELETE", DataReport(n), body, criteria)
        BY <3>2 DEF Scoped
      <3>4. body \subseteq BodyKeys
        BY Bodies
      <3> HIDE DEF body
      <3> QED BY <3>1, <3>3, <3>4, <1>0, SingleWrite
    <2> QED BY <1>2, <2>1, <2>2
  <1>3. ASSUME NEW options, NEW link, PublishAdd(options, link)
        PROVE  Single
    BY <1>3, <1>0, Bodies, SinglePost DEF PublishAdd
  <1>4. CASE Upload
    BY <1>4, <1>0, SinglePost DEF Upload
  <1>5. CASE GetByID \/ Applications \/ ApplicationsByWorkspace \/ Fields
    <2>1. CASE GetByID BY <2>1, <1>0, SingleReadKeeps DEF GetByID
    <2>2. CASE Applications BY <2>2, <1>0, SingleReadKeeps DEF Applications
    <2>3. CASE ApplicationsByWorkspace BY <2>3, <1>0, SingleReadKeeps DEF ApplicationsByWorkspace
    <2>4. CASE Fields BY <2>4, <1>0, SingleReadKeeps DEF Fields
    <2> QED BY <1>5, <2>1, <2>2, <2>3, <2>4
  <1>6. ASSUME NEW kind, OfApplication(kind)
        PROVE  Single
    BY <1>6, <1>0, SingleReadKeeps DEF OfApplication
  <1>7. ASSUME NEW link, PublishGetByID(link) \/ Download(link) \/ DownloadSubform(link)
        PROVE  Single
    <2>1. CASE PublishGetByID(link) BY <2>1, <1>0, SingleReadKeeps DEF PublishGetByID
    <2>2. CASE Download(link) BY <2>2, <1>0, SingleReadKeeps DEF Download
    <2>3. CASE DownloadSubform(link) BY <2>3, <1>0, SingleReadKeeps DEF DownloadSubform
    <2> QED BY <1>7, <2>1, <2>2, <2>3
  <1>8. ASSUME NEW fields, fields \subseteq {"criteria", "max_records", "fields"}, BulkCreate(fields)
        PROVE  Single
    <2>1. {"query"} \cup fields \subseteq BodyKeys
      BY <1>8 DEF BodyKeys
    <2> QED BY <1>8, <2>1, <1>0, SinglePost DEF BulkCreate
  <1>9. CASE BulkStatus \/ BulkDownload
    <2>1. CASE BulkStatus BY <2>1, <1>0, SingleReadKeeps DEF BulkStatus
    <2>2. CASE BulkDownload BY <2>2, <1>0, SingleReadKeeps DEF BulkDownload
    <2> QED BY <1>9, <2>1, <2>2
  <1>10. CASE Custom
    <2>1. PICK method \in Verbs, body \in SUBSET {"body"}, publicKey \in BOOLEAN :
              Invoke(method, body, publicKey)
      BY <1>10 DEF Custom
    <2>2. /\ request'.op = "Invoke" /\ walk' = walk /\ version' = version
          /\ request'.query = IF publicKey THEN {"publickey"} ELSE {}
          /\ request'.headers = Headers(publicKey, publicKey, {})
          /\ request'.method = method /\ request'.body = body /\ environment' = environment
      BY <2>1 DEF Invoke
    <2>3. "Authorization" \in Headers(publicKey, publicKey, {}) <=> ~publicKey
      BY DEF Headers
    <2>4. Headers(publicKey, publicKey, {}) \subseteq {"Authorization", "environment"}
      BY DEF Headers
    <2>5. WritesAreScoped'
      BY <2>2 DEF WritesAreScoped
    <2>6. method \in HTTPMethods /\ body \subseteq BodyKeys
      BY <2>1 DEF HTTPMethods, BodyKeys
    <2> QED BY <1>0, <2>2, <2>3, <2>4, <2>5, <2>6 DEF Single, Links
  <1> QED BY <1>1, <1>2, <1>3, <1>4, <1>5, <1>6, <1>7, <1>8, <1>9, <1>10
          DEF RecordWrite, ByCriteria, SingleRead, BulkRead

LEMMA SingleKeeps == ASSUME RequestsInv, Single PROVE RequestsInv'
  <1>0. WalkInv /\ TypeOK
    BY DEF RequestsInv
  <1>1. (walk.op # "none" => request'.op # walk.op) /\ walk' = walk
    BY <1>0 DEF WalkInv, Single, PageOps
  <1>2. LinkInsteadOfToken' /\ WalkKeepsQuery'
    BY <1>1 DEF Single, LinkInsteadOfToken, WalkKeepsQuery, Links
  <1>3. Params(walk.query)' = Params(walk.query)
    BY <1>1 DEF Single, Params
  <1>4. WalkInv'
    BY <1>0, <1>1, <1>2, <1>3 DEF WalkInv, LinkParam
  <1>5. TypeOK'
    BY <1>0 DEF TypeOK, Single, Links
  <1> QED BY <1>4, <1>5 DEF RequestsInv, Single

LEMMA FetchKeeps ==
  ASSUME NEW op \in PageOps, NEW path, NEW q, NEW link \in BOOLEAN, NEW first,
         Fetch(op, path, q, link, first), TypeOK, q \subseteq QueryFields,
         first \ Position = (Params(q) \cup LinkParam(link)) \ Position,
         "privatelink" \in first <=> link
  PROVE  RequestsInv'
  <1>1. Params(q) \cap Links = {} /\ "Authorization" \notin CursorHeader(q)
    BY DEF Params, CursorHeader, Links
  <1>2. Send(op, "GET", path, Params(q), {}, Empty, link, CursorHeader(q)) /\ version' = version
    BY DEF Fetch
  <1>3. /\ request'.op = op /\ request'.query = Params(q) \cup LinkParam(link)
        /\ "Authorization" \in request'.headers <=> ~link
        /\ "Authorization" \in request'.headers <=> request'.query \cap Links = {}
    BY <1>1, <1>2, LinkedSend
  <1>4. walk'.op = op /\ walk'.query = q /\ walk'.linked = link /\ walk'.first = first
    BY DEF Fetch
  <1>5. LinkInsteadOfToken'
    BY <1>3, <1>4 DEF LinkInsteadOfToken, Links
  <1>6. WalkKeepsQuery'
    BY <1>3, <1>4 DEF WalkKeepsQuery
  <1>7. (Params(walk.query) \cup LinkParam(walk.linked))' = Params(q) \cup LinkParam(link)
    BY <1>2, <1>4 DEF Params, LinkParam
  <1>8. walk'.op \in PageOps /\ walk'.linked \in BOOLEAN /\ walk'.op # "none"
    BY <1>4 DEF PageOps
  <1>9. (/\ walk.first \ Position = (Params(walk.query) \cup LinkParam(walk.linked)) \ Position
         /\ "privatelink" \in walk.first <=> walk.linked)'
    BY <1>4, <1>7 DEF Position
  <1>10. TypeOK'
    <2>1. version' = version /\ environment' = environment /\ walk'.more \in BOOLEAN
      BY DEF Fetch
    <2>2. request'.headers = Headers(link, FALSE, CursorHeader(q))
      BY <1>2 DEF Send
    <2>3. request'.headers \subseteq {"Authorization", "environment", "record_cursor"}
      BY <2>2 DEF Headers, CursorHeader
    <2>4. Params(q) \subseteq {"from", "limit", "criteria"} \cup ModernParams
      BY DEF Params
    <2>5. request'.method \in HTTPMethods /\ request'.body \subseteq BodyKeys
      BY <1>2 DEF Send, HTTPMethods
    <2> QED BY <1>3, <1>4, <2>1, <2>3, <2>4, <2>5 DEF TypeOK, LinkParam
  <1>11. WritesAreScoped'
    <2>1. request'.method = "GET"
      BY <1>2 DEF Send
    <2> QED BY <2>1 DEF WritesAreScoped
  <1>12. WalkInv'
    BY <1>5, <1>6, <1>8, <1>9 DEF WalkInv
  <1> QED BY <1>10, <1>11, <1>12 DEF RequestsInv

\* The position advances, the filters do not change.
LEMMA AdvanceKeeps ==
  ASSUME NEW q
  PROVE  Params(Advance(q)) \ Position = Params(q) \ Position
  <1> QED BY DEF Params, Advance, Position

LEMMA PageKeeps == ASSUME RequestsInv, PageRequest PROVE RequestsInv'
  <1>0. WalkInv /\ TypeOK
    BY DEF RequestsInv
  <1>1. ASSUME NEW q \in Queries, NEW link \in BOOLEAN, PublishGet(q, link)
        PROVE  RequestsInv'
    <2>1. "privatelink" \in Params(q) \cup LinkParam(link) <=> link
      BY DEF Params, LinkParam
    <2>2. q \subseteq QueryFields
      BY QueriesAssumption
    <2> QED BY <1>0, <1>1, <2>1, <2>2, FetchKeeps DEF PublishGet, PageOps
  <1>2. ASSUME NEW q \in Queries, Get(q)
        PROVE  RequestsInv'
    <2>1. "privatelink" \notin Params(q) /\ Params(q) = Params(q) \cup LinkParam(FALSE)
      BY DEF Params, LinkParam
    <2>2. q \subseteq QueryFields
      BY QueriesAssumption
    <2> QED BY <1>0, <1>2, <2>1, <2>2, FetchKeeps DEF Get, PageOps
  <1>3. CASE NextPage
    <2>1. /\ walk.op \in PageOps /\ walk.linked \in BOOLEAN
          /\ walk.first \ Position =
                (Params(Advance(walk.query)) \cup LinkParam(walk.linked)) \ Position
          /\ "privatelink" \in walk.first <=> walk.linked
      BY <1>0, <1>3, AdvanceKeeps DEF NextPage, WalkInv
    <2>2. Advance(walk.query) \subseteq QueryFields
      BY <1>0 DEF TypeOK, Advance, QueryFields
    <2> QED BY <1>0, <1>3, <2>1, <2>2, FetchKeeps DEF NextPage
  <1> QED BY <1>1, <1>2, <1>3 DEF PageRequest

LEMMA RequestsInitInv == Init => RequestsInv
  <1>1. Init => WalkInv
    BY DEF Init, WalkInv, NoWalk, NoRequest, LinkInsteadOfToken, WalkKeepsQuery
  <1>2. Init => TypeOK
    BY DEF Init, TypeOK, NoWalk, NoRequest, HTTPMethods
  <1>3. Init => WritesAreScoped
    BY DEF Init, WritesAreScoped, NoRequest
  <1> QED BY <1>1, <1>2, <1>3 DEF RequestsInv

LEMMA RequestsInductive == RequestsInv /\ [AnyRequest]_vars => RequestsInv'
  <1>1. ASSUME RequestsInv, UNCHANGED vars
        PROVE  RequestsInv'
    BY <1>1 DEF vars, RequestsInv, TypeOK, WritesAreScoped, WalkInv, LinkInsteadOfToken,
               WalkKeepsQuery, Params, LinkParam
  <1>2. ASSUME RequestsInv, Next \/ ByCriteria
        PROVE  RequestsInv'
    BY <1>2, SingleRequests, SingleKeeps, PageKeeps DEF Next
  <1> QED BY <1>1, <1>2 DEF AnyRequest

\* The inductive invariant, for the services and for a consumer of theirs that
\* composes its criteria: the types, what a write is about, and what the page
\* held has captured of its walk.
THEOREM RequestsInvariant == (Spec => []RequestsInv) /\ (FilterSpec => []RequestsInv)
  <1>1. AnySpec => []RequestsInv
    BY RequestsInitInv, RequestsInductive, PTL DEF AnySpec
  <1> QED BY <1>1, Senders

\* A request is sent by a method, and carries parameters, body keys and headers,
\* that the API knows, and a closure only the fields of a Query, however far its
\* walk has come.
THEOREM TypeCorrect == (Spec => []TypeOK) /\ (FilterSpec => []TypeOK)
  <1>1. RequestsInv => TypeOK
    BY DEF RequestsInv
  <1> QED BY <1>1, RequestsInvariant, PTL

\* Whatever a consumer passes, composed or not, a PATCH or a DELETE of records
\* names one record or carries a criteria that is not blank: a missing id or
\* an empty filter never widens a write to the whole report.
THEOREM NoWriteUnscoped == (Spec => []WritesAreScoped) /\ (FilterSpec => []WritesAreScoped)
  <1>1. RequestsInv => WritesAreScoped
    BY DEF RequestsInv
  <1> QED BY <1>1, RequestsInvariant, PTL

\* Whoever asks, a request carries an OAuth token or a link, and every page of a
\* walk carries what its first one did, other requests in between or not.
THEOREM LinkOrToken == (Spec => []LinkInsteadOfToken) /\ (FilterSpec => []LinkInsteadOfToken)
  <1>1. RequestsInv => LinkInsteadOfToken
    BY DEF RequestsInv, WalkInv
  <1> QED BY <1>1, RequestsInvariant, PTL

\* However far a walk has come, its next page is asked for with the filters of
\* the first, under either version and for any query.
THEOREM FiltersKept == (Spec => []WalkKeepsQuery) /\ (FilterSpec => []WalkKeepsQuery)
  <1>1. RequestsInv => WalkKeepsQuery
    BY DEF RequestsInv, WalkInv
  <1> QED BY <1>1, RequestsInvariant, PTL

----------------------------------------------------------------------------
(* What a composed criteria selects *)

LEMMA AtomStands ==
  ASSUME NEW atom, ComposesFrom(atom)
  PROVE  StandsFor(IF atom.op \in Methods THEN Match(atom.text[1], atom.op, atom.parts[1].text)
                                          ELSE Compare(atom.text[1], atom.op, atom.parts[1]), atom)
  <1> DEFINE field == atom.text[1]
             op == atom.op
             value == atom.parts[1]
  <1>1. /\ atom = Node(op, <<field>>, <<value>>) /\ Word(field)
        /\ \/ /\ op \in Comparisons \cup Methods
              /\ value = String(value.text) /\ value.text \in Seq(STRING)
           \/ /\ op \in Comparisons
              /\ value = Symbol(value.text[1]) /\ Word(value.text[1])
    BY DEF ComposesFrom
  <1> HIDE DEF field, value, op
  <1>2. IsTerm(atom)
    BY <1>1 DEF IsTerm, op
  <1>3. LeavesTerm(<<atom>>, atom)
    BY <1>2 DEF LeavesTerm
  <1>4. CASE op \in Methods
    <2>1. value = String(value.text) /\ IsSeq(value.text)
      BY <1>1, <1>4 DEF IsSeq, Methods, Comparisons
    <2>2. Leaves(Match(field, op, value.text), <<Node(op, <<field>>, <<String(value.text)>>)>>)
          /\ Match(field, op, value.text) # <<>>
      BY <1>1, <1>4, <2>1, MatchLeaves
    <2>3. Node(op, <<field>>, <<String(value.text)>>) = atom
      BY <1>1, <2>1
    <2>4. StandsFor(Match(field, op, value.text), atom)
      BY <1>2, <1>3, <2>2, <2>3, NoTerms DEF StandsFor
    <2> QED BY <1>4, <2>4 DEF field, op, value
  <1>5. CASE op \notin Methods
    <2>1. op \in Comparisons /\ IsLiteral(value)
      BY <1>1, <1>5 DEF IsLiteral, IsSeq
    <2>2. Leaves(Compare(field, op, value), <<Node(op, <<field>>, <<value>>)>>)
          /\ Compare(field, op, value) # <<>>
      BY <1>1, <2>1, CompareLeaves
    <2>3. StandsFor(Compare(field, op, value), atom)
      BY <1>1, <1>2, <1>3, <2>2, NoTerms DEF StandsFor
    <2> QED BY <1>5, <2>3 DEF field, op, value
  <1> QED BY <1>4, <1>5

\* Every text that the consumer has stands for what it composed.
TermsStand == \A term \in terms : StandsFor(term.text, term.means)

ComposedInv == TermsStand /\ FilterAsComposed

LEMMA UncombinedStand == \A term \in Uncombined : StandsFor(term.text, term.means)
  <1> SUFFICES ASSUME NEW atom \in Atoms
               PROVE  StandsFor(AtomTerm(atom).text, AtomTerm(atom).means)
    BY DEF Uncombined
  <1>1. ComposesFrom(atom)
    BY AtomsAssumption
  <1> QED BY <1>1, AtomStands DEF AtomTerm

LEMMA GapsAndTerms ==
  ASSUME NEW term, StandsFor(term.text, term.means)
  PROVE  Gap(term) <=> ~IsTerm(term.means)
  BY NoTerms DEF Gap, StandsFor

LEMMA JoinedStands ==
  ASSUME TermsStand, NEW op \in Connectives, NEW operands \in SeqOf(terms, MaxOperands)
  PROVE  StandsFor(JoinedTerm(op, operands).text, JoinedTerm(op, operands).means)
  <1> DEFINE texts == [i \in DOMAIN operands |-> operands[i].text]
             meanings == [i \in DOMAIN operands |-> operands[i].means]
             means == CASE operands = <<>> -> Everything
                        [] Len(operands) = 1 -> operands[1].means
                        [] OTHER -> IF \E i \in DOMAIN operands : Gap(operands[i]) THEN Malformed
                                    ELSE Node(op, <<>>, meanings)
             text == joinTerms(op, texts)
             n == Len(operands)
  <1>1. JoinedTerm(op, operands).text = text /\ JoinedTerm(op, operands).means = means
    BY DEF JoinedTerm
  <1>2. operands \in Seq(terms) /\ IsSeq(operands)
    <2>1. PICK m \in 0 .. MaxOperands : operands \in [1 .. m -> terms]
      BY DEF SeqOf
    <2>2. m \in Nat
      BY StepsAssumption
    <2> QED BY <2>1, <2>2, SeqDef DEF IsSeq
  <1>3. n \in Nat /\ DOMAIN operands = 1 .. n /\ \A i \in 1 .. n : operands[i] \in terms
    BY <1>2, SeqLength, ElementOfSeq
  <1> HIDE DEF n
  <1>4. /\ texts = [i \in 1 .. n |-> operands[i].text]
        /\ meanings = [i \in 1 .. n |-> operands[i].means]
    BY <1>3
  <1>5. IsSeq(texts) /\ Len(texts) = n
    <2>1. texts = [i \in 1 .. n |-> texts[i]]
      BY <1>4
    <2> HIDE DEF texts
    <2> QED BY <1>3, <2>1, SeqFunction
  <1>6. \A i \in 1 .. n : texts[i] = operands[i].text /\ meanings[i] = operands[i].means
    BY <1>4
  <1>7. meanings = [i \in 1 .. n |-> meanings[i]]
    BY <1>4
  <1>8. \A i \in 1 .. n : StandsFor(texts[i], meanings[i]) /\ (Gap(operands[i]) <=> ~IsTerm(meanings[i]))
    <2>1. \A i \in 1 .. n : StandsFor(operands[i].text, operands[i].means)
      BY <1>3 DEF TermsStand
    <2> QED BY <1>6, <2>1, GapsAndTerms
  <1>9. (\E i \in DOMAIN operands : Gap(operands[i])) <=> ~AllTerms(meanings, n)
    BY <1>3, <1>8 DEF AllTerms
  <1> HIDE DEF texts, meanings
  <1>10. CASE n = 0
    <2>1. operands = <<>> /\ texts = <<>>
      BY <1>2, <1>5, <1>10, SeqEmpty, SeqSame DEF n
    <2>2. means = Everything /\ text = joinTerms(op, <<>>)
      BY <2>1
    <2> HIDE DEF means, text
    <2> QED BY <1>1, <2>2, JoinFew
  <1>11. CASE n = 1
    <2> DEFINE first == operands[1].text
    <2>1. operands # <<>>
      BY <1>11, SeqEmpty DEF n
    <2>2. means = operands[1].means
      BY <1>11, <2>1 DEF n
    <2>3. texts[1] = first /\ StandsFor(first, means)
      BY <1>6, <1>8, <1>11, <2>2
    <2> HIDE DEF means, first
    <2>4. IsSeq(first)
      BY <2>3 DEF StandsFor, Leaves
    <2>5. texts = <<first>>
      <3>1. IsSeq(<<first>>) /\ Len(<<first>>) = 1 /\ <<first>>[1] = first
        BY SeqOne
      <3>2. \A i \in 1 .. Len(texts) : texts[i] = <<first>>[i]
        BY <1>5, <1>11, <2>3, <3>1
      <3> QED BY <1>5, <1>11, <3>1, <3>2, SeqSame
    <2>6. text = first
      BY <2>4, <2>5, JoinFew
    <2> HIDE DEF text
    <2> QED BY <1>1, <2>3, <2>6
  <1>12. CASE n >= 2
    <2>1. operands # <<>>
      BY <1>12, SeqEmpty DEF n
    <2>2. means = IF AllTerms(meanings, n) THEN Node(op, <<>>, meanings) ELSE Malformed
      <3>1. Len(operands) # 1
        BY <1>3, <1>12 DEF n
      <3>2. means = IF \E i \in DOMAIN operands : Gap(operands[i]) THEN Malformed
                                                                 ELSE Node(op, <<>>, meanings)
        BY <2>1, <3>1, Zenon
      <3> HIDE DEF means
      <3> QED BY <1>9, <3>2, Zenon
    <2> HIDE DEF means
    <2>3. Len(texts) >= 2 /\ \A i \in 1 .. Len(texts) : StandsFor(texts[i], meanings[i])
      BY <1>5, <1>8, <1>12
    <2>4. StandsFor(text, IF AllTerms(meanings, Len(texts))
                          THEN Node(op, <<>>, [i \in 1 .. Len(texts) |-> meanings[i]])
                          ELSE Malformed)
      BY <1>5, <2>3, JoinStands
    <2> HIDE DEF text
    <2>5. StandsFor(text, means)
      BY <1>5, <1>7, <2>2, <2>4
    <2> QED BY <1>1, <2>5
  <1> QED BY <1>3, <1>10, <1>11, <1>12

LEMMA NegatedStands ==
  ASSUME TermsStand, NEW term \in terms
  PROVE  StandsFor(NegatedTerm(term).text, NegatedTerm(term).means)
  <1> DEFINE text == term.text
             only == term.means
  <1>1. StandsFor(text, only)
    BY DEF TermsStand
  <1>2. Gap(term) <=> ~IsTerm(only)
    BY <1>1, GapsAndTerms
  <1>3. /\ NegatedTerm(term).text = Not(text)
        /\ NegatedTerm(term).means = IF IsTerm(only) THEN Node("!", <<>>, <<only>>) ELSE Malformed
    BY <1>2 DEF NegatedTerm
  <1> HIDE DEF text, only
  <1>4. StandsFor(Not(text), IF IsTerm(only) THEN Node("!", <<>>, <<only>>) ELSE Malformed)
    BY <1>1, NotStands
  <1> QED BY <1>3, <1>4

LEMMA ComposeKeeps ==
  ASSUME ComposedInv, NEW term, StandsFor(term.text, term.means), Compose(term)
  PROVE  ComposedInv'
  <1>1. TermsStand'
    BY DEF ComposedInv, TermsStand, Compose
  <1>2. FilterAsComposed'
    BY DEF ComposedInv, FilterAsComposed, Compose, vars
  <1> QED BY <1>1, <1>2 DEF ComposedInv

LEMMA StartStands == StartOver => TermsStand'
  BY UncombinedStand DEF StartOver, TermsStand

LEMMA SentAsComposed ==
  ASSUME TermsStand, NEW term \in terms, SendFiltered(term)
  PROVE  FilterAsComposed'
  <1> DEFINE text == term.text
             criteria == AsCriteria(text)
  <1>1. filter' = term.means
    BY DEF SendFiltered
  <1>2. StandsFor(text, term.means)
    BY DEF TermsStand
  <1>3. UpdateMany({}, criteria) \/ DeleteMany({}, criteria)
    BY DEF SendFiltered
  <1>4. ~Blank(criteria) /\ request'.criteria = criteria
    <2> HIDE DEF criteria
    <2>1. ASSUME NEW op, NEW method, NEW path, NEW body,
                 Write(op, method, path, body, criteria, FALSE)
          PROVE  request'.criteria = criteria
      BY <2>1 DEF Write, Send
    <2>2. CASE UpdateMany({}, criteria)
      BY <2>1, <2>2 DEF UpdateMany
    <2>3. CASE DeleteMany({}, criteria)
      BY <2>1, <2>3 DEF DeleteMany
    <2> QED BY <1>3, <2>2, <2>3
  <1>5. text # <<>> /\ criteria = text
    BY <1>4 DEF AsCriteria, Blank
  <1>6. Reading(text) = term.means
    BY <1>2, <1>5, ReadsAs
  <1> HIDE DEF text, criteria
  <1> QED BY <1>1, <1>4, <1>5, <1>6 DEF FilterAsComposed

LEMMA ComposedInductive == ComposedInv /\ [FilterNext]_<<vars, filterVars>> => ComposedInv'
  <1> SUFFICES ASSUME ComposedInv, [FilterNext]_<<vars, filterVars>> PROVE ComposedInv'
    OBVIOUS
  <1> USE DEF ComposedInv
  <1>1. CASE ComposeJoin
    <2>1. PICK op \in Connectives, operands \in SeqOf(terms, MaxOperands) :
              Compose(JoinedTerm(op, operands))
      BY <1>1 DEF ComposeJoin
    <2>2. StandsFor(JoinedTerm(op, operands).text, JoinedTerm(op, operands).means)
      BY JoinedStands
    <2> QED BY <2>1, <2>2, ComposeKeeps
  <1>2. CASE ComposeNot
    <2>1. PICK term \in terms : Compose(NegatedTerm(term))
      BY <1>2 DEF ComposeNot
    <2>2. StandsFor(NegatedTerm(term).text, NegatedTerm(term).means)
      BY NegatedStands
    <2> QED BY <2>1, <2>2, ComposeKeeps
  <1>3. ASSUME NEW term \in terms, SendFiltered(term) PROVE ComposedInv'
    BY <1>3, SentAsComposed, StartStands DEF SendFiltered
  <1>4. ASSUME NEW term \in terms, SendRefused(term) PROVE ComposedInv'
    BY <1>4, StartStands DEF SendRefused, FilterAsComposed, vars
  <1>5. CASE SendOther
    BY <1>5 DEF SendOther, FilterAsComposed, TermsStand
  <1>6. CASE UNCHANGED <<vars, filterVars>>
    BY <1>6 DEF FilterAsComposed, TermsStand, vars, filterVars
  <1> QED BY <1>1, <1>2, <1>3, <1>4, <1>5, <1>6 DEF FilterNext

\* The server reads, in every composed update or deletion, the filter that was
\* meant: for any strings, literals and field names, and any number of terms,
\* joined and negated in any place and to any depth; what has a gap it refuses.
THEOREM FiltersRead == FilterSpec => []FilterAsComposed
  <1>1. FilterInit => ComposedInv
    BY UncombinedStand DEF FilterInit, ComposedInv, TermsStand, FilterAsComposed
  <1>2. ComposedInv => FilterAsComposed
    BY DEF ComposedInv
  <1> QED BY <1>1, <1>2, ComposedInductive, PTL DEF FilterSpec
============================================================================
