------------------------------ MODULE Requests ------------------------------
(***************************************************************************)
(* What each operation of the services sends (src/records.go, publish.go,  *)
(* files.go, bulk.go, meta.go, customapi.go) once do has given it a path,  *)
(* parameters and headers (src/client.go): for either API version, with or *)
(* without the environment header, a private link or a public key, and     *)
(* page after page of a walk over a report.                                *)
(*                                                                         *)
(* A request is its method, the segments of its path, and which query      *)
(* parameters, body keys and headers it carries; their values only matter  *)
(* for a criteria.  url.PathEscape keeps a name in its segment; that it    *)
(* leaves the names "." and ".." alone does not matter here.               *)
(***************************************************************************)
EXTENDS Sequences, FiniteSets

CONSTANTS
    Names,     \* owners, link names, ids; with Empty
    Empty,     \* ""
    Spaces,    \* a criteria that strings.TrimSpace empties
    Criteria,  \* other criteria
    Queries,   \* the fields a consumer sets in a Query
    Verbs      \* methods a custom API is invoked with

\* What the v2 server does not accept.
ModernParams == {"max_records", "field_config", "fields"}
ModernOnly == ModernParams \cup {"skip_workflow", "record_cursor", "environment"}

QueryFields == {"from", "limit", "criteria", "record_cursor"} \cup ModernParams

ASSUME QueriesAssumption == Queries \subseteq SUBSET QueryFields
ASSUME CriteriaAssumption == Empty \notin Criteria /\ Spaces \notin Criteria

VARIABLES
    version,      \* Config.APIVersion
    environment,  \* ~Config.DisableEnvironmentHeader
    request,      \* the last request sent
    walk          \* the Page held, as far as its next request goes; first is
                  \* history: the parameters of the walk's first request

vars == <<version, environment, request, walk>>

Versions == {"v2", "v2.1"}
Criterion == Criteria \cup {Empty, Spaces}

ResultOptions == {"return_fields", "message", "tasks"}
WriteOptions == ResultOptions \cup {"skip_workflow"}

NoRequest == [op |-> "none", method |-> "GET", path |-> <<>>, query |-> {}, body |-> {},
              criteria |-> Empty, headers |-> {}]
NoWalk == [op |-> "none", path |-> <<>>, query |-> {}, linked |-> FALSE, more |-> FALSE,
           first |-> {}]

Init ==
    /\ version \in Versions
    /\ environment \in BOOLEAN
    /\ request = NoRequest
    /\ walk = NoWalk

----------------------------------------------------------------------------
(* do: apiPath and setHeaders *)

Versioned(path) == <<"creator">> \o (IF path[1] = "custom" THEN <<>> ELSE <<version>>) \o path

\* Fault: the environment header goes to v2 servers too.
HeadersAnyVersion(public, skipEnvironment, more) ==
    more \cup (IF public THEN {} ELSE {"Authorization"})
         \cup (IF environment /\ ~skipEnvironment THEN {"environment"} ELSE {})

Headers(public, skipEnvironment, more) ==
    more \cup (IF public THEN {} ELSE {"Authorization"})
         \cup (IF environment /\ ~skipEnvironment /\ version # "v2" THEN {"environment"} ELSE {})

\* link: the privatelink argument is not empty.
LinkParam(link) == IF link THEN {"privatelink"} ELSE {}

Send(op, method, path, query, body, criteria, link, headers) ==
    request' = [op |-> op, method |-> method, path |-> Versioned(path),
                query |-> query \cup LinkParam(link),
                body |-> body, criteria |-> criteria,
                headers |-> Headers(link, FALSE, headers)]

Read(op, path, link) ==
    /\ Send(op, "GET", path, {}, {}, Empty, link, {})
    /\ UNCHANGED <<version, environment, walk>>

Write(op, method, path, body, criteria, link) ==
    /\ Send(op, method, path, {}, body, criteria, link, {})
    /\ UNCHANGED <<version, environment, walk>>

\* The early return of every operation: a request needs all its names.
Named(names) == \A f \in DOMAIN names : names[f] # Empty

NamesFor(fields) == {n \in [fields -> Names] : Named(n)}

----------------------------------------------------------------------------
(* Writes *)

\* The keys that the options of a write add to its body.
ResultKey(options) == IF options \cap ResultOptions # {} THEN {"result"} ELSE {}
SkipKey(options) == IF version # "v2" THEN options \cap {"skip_workflow"} ELSE {}

DataForm(n) == <<"data", n.owner, n.app, "form", n.form>>
DataReport(n) == <<"data", n.owner, n.app, "report", n.report>>
PublishReport(n) == <<"publish", n.owner, n.app, "report", n.report>>

Add(options) ==
    \E n \in NamesFor({"owner", "app", "form"}) :
        Write("Add", "POST", DataForm(n),
              {"data"} \cup ResultKey(options) \cup SkipKey(options), Empty, FALSE)

PublishAdd(options, link) ==
    \E n \in NamesFor({"owner", "app", "form"}) :
        Write("PublishAdd", "POST", <<"publish", n.owner, n.app, "form", n.form>>,
              {"data"} \cup ResultKey(options) \cup SkipKey(options), Empty, link)

UpdateByID(options) ==
    \E n \in NamesFor({"owner", "app", "report", "id"}) :
        Write("UpdateByID", "PATCH", Append(DataReport(n), n.id),
              {"data"} \cup ResultKey(options) \cup SkipKey(options), Empty, FALSE)

DeleteByID(options) ==
    \E n \in NamesFor({"owner", "app", "report", "id"}) :
        Write("DeleteByID", "DELETE", Append(DataReport(n), n.id),
              ResultKey(options \cap {"message"}) \cup SkipKey(options), Empty, FALSE)

\* Fault: a criteria of spaces passes for one.
BlankUntrimmed(criteria) == criteria = Empty

Blank(criteria) == criteria \in {Empty, Spaces}

UpdateMany(options, criteria) ==
    /\ ~Blank(criteria)
    /\ \E n \in NamesFor({"owner", "app", "report"}) :
          Write("UpdateMany", "PATCH", DataReport(n),
                {"data", "criteria"} \cup ResultKey(options) \cup SkipKey(options),
                criteria, FALSE)

DeleteMany(options, criteria) ==
    /\ ~Blank(criteria)
    /\ \E n \in NamesFor({"owner", "app", "report"}) :
          Write("DeleteMany", "DELETE", DataReport(n),
                {"criteria"} \cup ResultKey(options \cap {"message"}) \cup SkipKey(options),
                criteria, FALSE)

Upload ==
    \E n \in NamesFor({"owner", "app", "report", "id", "field"}) :
        Write("Upload", "POST", DataReport(n) \o <<n.id, n.field, "upload">>, {"file"}, Empty, FALSE)

----------------------------------------------------------------------------
(* Reads of one request *)

GetByID ==
    \E n \in NamesFor({"owner", "app", "report", "id"}) :
        Read("GetByID", Append(DataReport(n), n.id), FALSE)

PublishGetByID(link) ==
    \E n \in NamesFor({"owner", "app", "report", "id"}) :
        Read("PublishGetByID", Append(PublishReport(n), n.id), link)

Download(link) ==
    \E n \in NamesFor({"owner", "app", "report", "id", "field"}) :
        Read("Download", DataReport(n) \o <<n.id, n.field, "download">>, link)

DownloadSubform(link) ==
    \E n \in NamesFor({"owner", "app", "report", "id", "subform", "field", "row"}) :
        Read("DownloadSubform",
             DataReport(n) \o <<n.id, n.subform, n.field, n.row, "download">>, link)

Applications == Read("Applications", <<"meta", "applications">>, FALSE)

ApplicationsByWorkspace ==
    \E n \in NamesFor({"owner"}) :
        Read("ApplicationsByWorkspace", <<"meta", n.owner, "applications">>, FALSE)

\* Forms, Reports, Pages, Sections.
OfApplication(kind) ==
    \E n \in NamesFor({"owner", "app"}) : Read("Meta", <<"meta", n.owner, n.app, kind>>, FALSE)

Fields ==
    \E n \in NamesFor({"owner", "app", "form"}) :
        Read("Fields", <<"meta", n.owner, n.app, "form", n.form, "fields">>, FALSE)

----------------------------------------------------------------------------
(* Bulk read *)

BulkReport(n) == <<"bulk", n.owner, n.app, "report", n.report, "read">>

\* The fields of a BulkReadQuery go out as they are, under either version.
BulkCreate(fields) ==
    \E n \in NamesFor({"owner", "app", "report"}) :
        Write("BulkCreate", "POST", BulkReport(n), {"query"} \cup fields, Empty, FALSE)

BulkStatus ==
    \E n \in NamesFor({"owner", "app", "report", "job"}) :
        Read("BulkStatus", Append(BulkReport(n), n.job), FALSE)

BulkDownload ==
    \E n \in NamesFor({"owner", "app", "report", "job"}) :
        Read("BulkDownload", BulkReport(n) \o <<n.job, "result">>, FALSE)

----------------------------------------------------------------------------
(* Custom APIs: Invoke and InvokeStream *)

Invoke(method, body, publicKey) ==
    /\ \E n \in NamesFor({"appadmin", "api"}) :
          request' = [op |-> "Invoke", method |-> method,
                      path |-> Versioned(<<"custom", n.appadmin, n.api>>),
                      query |-> IF publicKey THEN {"publickey"} ELSE {},
                      body |-> body, criteria |-> Empty,
                      headers |-> Headers(publicKey, publicKey, {})]
    /\ UNCHANGED <<version, environment, walk>>

----------------------------------------------------------------------------
(* Walks over a report: fetchPage and fetchPublishPage *)

\* Fault: the cursor is sent as a parameter.
ParamsWithCursor(q) == q

\* buildParamsForVersion, and the limit that runFetch adds under v2.
Params(q) ==
    (q \cap {"from", "limit", "criteria"})
        \cup (IF version = "v2" THEN {"limit"} ELSE q \cap ModernParams)

CursorHeader(q) == IF version = "v2.1" THEN q \cap {"record_cursor"} ELSE {}

Fetch(op, path, q, link, first) ==
    /\ Send(op, "GET", path, Params(q), {}, Empty, link, CursorHeader(q))
    /\ \E more \in BOOLEAN :
          walk' = [op |-> op, path |-> path, query |-> q, linked |-> link, more |-> more,
                   first |-> first]
    /\ UNCHANGED <<version, environment>>

Get(q) ==
    \E n \in NamesFor({"owner", "app", "report"}) :
        Fetch("Get", DataReport(n), q, FALSE, Params(q))

PublishGet(q, link) ==
    \E n \in NamesFor({"owner", "app", "report"}) :
        Fetch("PublishGet", PublishReport(n), q, link, Params(q) \cup LinkParam(link))

\* Fault: the next page is asked for with the position only.
AdvanceBare(q) == IF version = "v2" THEN {"from", "limit"} ELSE {"record_cursor"}

Advance(q) == q \cup (IF version = "v2" THEN {"from", "limit"} ELSE {"record_cursor"})

\* Fault: the closure does not hold the private link.
NextPageUnlinked ==
    /\ walk.more
    /\ Fetch(walk.op, walk.path, Advance(walk.query), FALSE, walk.first)

NextPage ==
    /\ walk.more
    /\ Fetch(walk.op, walk.path, Advance(walk.query), walk.linked, walk.first)

----------------------------------------------------------------------------
RecordWrite ==
    \E options \in SUBSET WriteOptions :
        \/ Add(options) \/ UpdateByID(options) \/ DeleteByID(options)
        \/ \E criteria \in Criterion : UpdateMany(options, criteria) \/ DeleteMany(options, criteria)
        \/ \E link \in BOOLEAN : PublishAdd(options, link)

SingleRead ==
    \/ GetByID \/ Applications \/ ApplicationsByWorkspace \/ Fields
    \/ \E kind \in {"forms", "reports", "pages", "sections"} : OfApplication(kind)
    \/ \E link \in BOOLEAN : PublishGetByID(link) \/ Download(link) \/ DownloadSubform(link)

BulkRead ==
    \/ \E fields \in SUBSET {"criteria", "max_records", "fields"} : BulkCreate(fields)
    \/ BulkStatus \/ BulkDownload

Custom ==
    \E method \in Verbs, body \in SUBSET {"body"}, publicKey \in BOOLEAN :
        Invoke(method, body, publicKey)

PageRequest ==
    \/ \E q \in Queries, link \in BOOLEAN : PublishGet(q, link) \/ (~link /\ Get(q))
    \/ NextPage

Next == RecordWrite \/ Upload \/ SingleRead \/ BulkRead \/ Custom \/ PageRequest

Spec == Init /\ [][Next]_vars

----------------------------------------------------------------------------
(* Properties *)

HTTPMethods == {"GET", "POST", "PATCH", "DELETE"} \cup Verbs
BodyKeys == {"data", "criteria", "result", "skip_workflow", "file", "query", "max_records",
             "fields", "body"}

TypeOK ==
    /\ version \in Versions /\ environment \in BOOLEAN
    /\ request.method \in HTTPMethods /\ request.body \subseteq BodyKeys
    /\ request.query \subseteq
          {"from", "limit", "criteria", "privatelink", "publickey"} \cup ModernParams
    /\ request.headers \subseteq {"Authorization", "environment", "record_cursor"}
    /\ walk.query \subseteq QueryFields /\ walk.more \in BOOLEAN

\* "Required for UpdateMany", "required for DeleteMany": a request that changes
\* or deletes the records of a report names one record or filters them.
WritesAreScoped ==
    request.method \in {"PATCH", "DELETE"} /\ request.op # "Invoke" =>
        \/ Len(request.path) = 8 /\ request.path[8] # Empty
        \/ "criteria" \in request.body /\ ~(request.criteria \in {Empty, Spaces})

\* "the v2.1-only knobs are silently dropped if you set them": a v2 server sees
\* none of them, whatever the operation; a bulk read is the exception.
V2Spared ==
    version = "v2" /\ request.op # "BulkCreate" =>
        (request.query \cup request.body \cup request.headers) \cap ModernOnly = {}

\* "OAuth is omitted and the privatelink query param is sent": a request has one
\* or the other, and every page of a walk has what its first one had.
LinkInsteadOfToken ==
    /\ request.op # "none" =>
          ("Authorization" \in request.headers <=>
               request.query \cap {"privatelink", "publickey"} = {})
    /\ walk.op # "none" /\ request.op = walk.op =>
          ("Authorization" \in request.headers <=> "privatelink" \notin walk.first)

\* Every page of a walk is asked for with the filters of the first: what the
\* consumer put into its query does not get lost on the way.
Position == {"from", "limit"}
WalkKeepsQuery ==
    walk.op # "none" /\ request.op = walk.op =>
        request.query \ Position = walk.first \ Position
=============================================================================
