--------------------------- MODULE HarInterchange ---------------------------
(***************************************************************************)
(* The conversions between HAR entries and flows (crate eggreplay-har):    *)
(* import with redaction and a loss report, export with a loss report.     *)
(* All operators are functions of their arguments; an option is a set of   *)
(* at most one element, and an operator that may fail returns {} for a     *)
(* failure.                                                                *)
(*                                                                         *)
(*   body    [kind, key, len]   key: it carries a field selected for       *)
(*                              redaction                                  *)
(*   header  [name, n]          a name among those that matter, and a value *)
(*   message [headers, type]    type: the media type of Content-Type       *)
(*   target  [scheme, host, port, path]: port 0 if none is written, the    *)
(*            path a sequence of segments                                  *)
(*   flow    [id, url, query, req, reqBody, res, started, time, trailers,  *)
(*            marks, route], url a target, res = {} for a typed error or   *)
(*            {[status, headers, type, body]}                              *)
(*   entry   [ok, url, userinfo, fragment, urlQuery, query, req, post,     *)
(*            status, res, content, started, time, extra], ok: the method  *)
(*            fits, url a target, extra: what a flow has no place for      *)
(***************************************************************************)
EXTENDS Integers, Sequences, FiniteSets, FiniteSetsExt, SequencesExt

CONSTANTS
    BodyLimit,        \* max_blob_bytes
    StructuredLimit,  \* max_structured_bytes, the bound on a body to be redacted
    HeaderLimit,      \* headers per message
    EntryTimeLimit,   \* the longest entry.time kept, an hour
    Epoch,            \* 0, the earliest start kept
    LossLimit         \* losses kept in the fixture, 1024

ASSUME HarBounds ==
    /\ BodyLimit \in Nat /\ StructuredLimit \in Nat /\ HeaderLimit \in Nat /\ LossLimit \in Nat
    /\ EntryTimeLimit \in Nat /\ Epoch \in Nat

\* The fields of a document a flow has no place for, and the loss each is reported as.
ExtraFields == {"cookies", "httpVersion", "comment", "redirectURL", "compression",
                "timings", "serverIPAddress", "cache", "pageref"}

-----------------------------------------------------------------------------
(* Import. *)

\* decode_har_body_text: the bytes of a text, {} if there is no usable text.
DecodeHarBodyText(text) ==
    {t.body : t \in {x \in text : x.enc \in {"", "base64"} /\ x.body.len <= BodyLimit}}

Decodes(text) == text = {} \/ DecodeHarBodyText(text) # {}

StatusOk(status) == status = 0 \/ status \in 100..599

HeadersOk(headers) == Len(headers) <= HeaderLimit

TimeOk(time) == time >= 0

\* total_time_ms rounds to milliseconds and clamps to an hour.
TotalTime(time) == Min({time, EntryTimeLimit})

\* started_ms: a time before the epoch is the epoch.
StartedMs(started) == Max({started, Epoch})

DefaultPort(scheme) == IF scheme = "http" THEN 80 ELSE 443

\* The path as the url crate parses it: dot segments are resolved.
Resolved(path) ==
    FoldLeft(LAMBDA done, seg : IF seg = "." \/ (seg = ".." /\ done = << >>) THEN done
                                ELSE IF seg = ".." THEN Front(done) ELSE Append(done, seg),
             << >>, path)

\* split_url: the target of an absolute HTTP(S) URL, normalised as the url crate does:
\* the scheme's own port is not written.  {} for any other URL.
SplitUrl(url) ==
    {[u EXCEPT !.port = IF @ = DefaultPort(u.scheme) THEN 0 ELSE @, !.path = Resolved(@)] :
        u \in {v \in {url} : v.scheme \in {"http", "https"} /\ v.host # ""}}

\* The queryString array is authoritative, but an empty one is filled from the URL.
QueryOf(e) == IF e.query = << >> THEN e.urlQuery ELSE e.query

\* Mutant: a report that is silent when the URL's query was adopted.
QueryLossesQuiet(e) == IF e.query = << >> \/ e.query = e.urlQuery THEN {} ELSE {"request.queryString"}

\* A query that is not the one the URL shows is reported.
QueryLosses(e) == IF e.query = e.urlQuery THEN {} ELSE {"request.queryString"}

\* What the body of a request is, from postData.
PostBody(post) ==
    UNION {IF p.text # {} THEN DecodeHarBodyText(p.text) ELSE {x.body : x \in p.params} : p \in post}

PostOk(post) ==
    \A p \in post : Decodes(p.text) /\ (p.text = {} => \A x \in p.params : ~x.file)

PostLosses(post) == IF \E p \in post : p.params # {} THEN {"request.postData.params"} ELSE {}

MediaOf(parts) == IF parts = {} THEN "none" ELSE (CHOOSE p \in parts : TRUE).media

ContentBody(content) == UNION {DecodeHarBodyText(c.text) : c \in content}

ContentLosses(content) ==
    (IF \E c \in content : c.size < 0 THEN {"response.content.size"} ELSE {})
    \cup (IF \E c \in content : c.text = {} /\ c.size # 0 THEN {"response.content.text"} ELSE {})

\* The body after its selected fields are replaced.
Masked(b) == IF b.key THEN [b EXCEPT !.key = FALSE, !.len = @ + 1] ELSE b

\* redact_import_body: {} when redaction fails closed, else the body to publish and
\* the markers.  Redaction goes by the media type the HAR declares.
RedactImportBody(body, media, cfg) ==
    LET done(out, marks) == {[body |-> out, marks |-> marks]}
    IN UNION {IF (cfg.json \/ cfg.form) /\ b.len > StructuredLimit THEN {}
              ELSE IF cfg.json /\ media = "json"
              THEN IF b.kind = "json" THEN done({Masked(b)}, {"body.json"}) ELSE {}
              ELSE IF cfg.form /\ media = "form"
              THEN IF b.kind \in {"form", "text", "json"} THEN done({Masked(b)}, {"body.form"}) ELSE {}
              ELSE IF cfg.json THEN {}
              ELSE done({b}, {}) : b \in body}
       \cup (IF body = {} THEN done({}, {}) ELSE {})

RedactHeaders(headers, cfg) ==
    [i \in DOMAIN headers |-> IF cfg.headers /\ headers[i].name = "secret" THEN [headers[i] EXCEPT !.n = 0] ELSE headers[i]]

RedactQuery(query, cfg) ==
    [i \in DOMAIN query |-> IF cfg.form /\ query[i].key THEN [query[i] EXCEPT !.value = 0] ELSE query[i]]

\* reconcile_headers_after_body_redaction: the length is recomputed, validators go.
Reconcile(headers, body) ==
    Append(SelectSeq(headers, LAMBDA h : h.name \notin {"length", "validator"}),
           [name |-> "length", n |-> SumSet({b.len : b \in body})])

\* redact_flow's markers.
HeaderMarks(req, res, query, cfg) ==
    LET secret(hs) == \E i \in DOMAIN hs : hs[i].name = "secret"
    IN (IF cfg.headers /\ (secret(req.headers) \/ \E r \in res : secret(r.headers)) THEN {"headers"} ELSE {})
       \cup (IF cfg.form /\ \E i \in DOMAIN query : query[i].key THEN {"query"} ELSE {})

\* publish_body: redaction may have made the body longer than a blob may be.
Publishable(redacted) == \E x \in redacted : \A b \in x.body : b.len <= BodyLimit

\* An entry is usable as a whole or not at all.
EntryOk(e, cfg) ==
    /\ e.ok /\ SplitUrl(e.url) # {}
    /\ HeadersOk(e.req.headers) /\ HeadersOk(e.res.headers)
    /\ PostOk(e.post) /\ \A c \in e.content : Decodes(c.text)
    /\ StatusOk(e.status) /\ TimeOk(e.time)
    /\ Publishable(RedactImportBody(PostBody(e.post), MediaOf(e.post), cfg))
    /\ RedactImportBody(ContentBody(e.content), MediaOf(e.content), cfg) # {}
    /\ e.status # 0 => Publishable(RedactImportBody(ContentBody(e.content), MediaOf(e.content), cfg))

\* One entry of import_har_to_writer: the flow it becomes.  A status of 0 becomes a
\* typed error, and then headers and body of the response are not kept.
ImportEntry(e, cfg, id) ==
    LET rq == CHOOSE x \in RedactImportBody(PostBody(e.post), MediaOf(e.post), cfg) : TRUE
        rs == CHOOSE x \in RedactImportBody(ContentBody(e.content), MediaOf(e.content), cfg) : TRUE
        res == IF e.status = 0 THEN {}
               ELSE {[status |-> e.status, headers |-> e.res.headers, type |-> e.res.type,
                      body |-> rs.body]}
        marks == rq.marks \cup (IF res = {} THEN {} ELSE rs.marks)
        fix(hs, body) == IF marks = {} THEN RedactHeaders(hs, cfg)
                         ELSE Reconcile(RedactHeaders(hs, cfg), body)
    IN [id |-> id, url |-> CHOOSE u \in SplitUrl(e.url) : TRUE, query |-> RedactQuery(QueryOf(e), cfg),
        req |-> [headers |-> fix(e.req.headers, rq.body), type |-> e.req.type], reqBody |-> rq.body,
        res |-> {[r EXCEPT !.headers = fix(r.headers, r.body)] : r \in res},
        started |-> StartedMs(e.started), time |-> TotalTime(e.time), trailers |-> FALSE,
        marks |-> marks \cup HeaderMarks(e.req, res, QueryOf(e), cfg), route |-> FALSE]

\* The losses import reports for an entry.
ImportLosses(e, cfg) ==
    (e.extra \cap ExtraFields) \cup QueryLosses(e) \cup PostLosses(e.post) \cup ContentLosses(e.content)
    \cup (IF e.userinfo THEN {"request.url.userinfo"} ELSE {})
    \cup (IF e.status = 0 THEN {"response.status"} ELSE {})
    \cup ImportEntry(e, cfg, 0).marks

\* import_har_to_writer: every entry, or nothing.  The version is 1.2.
DocumentOk(doc, cfg) == doc.version = "1.2" /\ \A i \in DOMAIN doc.entries : EntryOk(doc.entries[i], cfg)

ImportDocument(doc, cfg, first) ==
    [i \in DOMAIN doc.entries |-> ImportEntry(doc.entries[i], cfg, first + i - 1)]

\* The order in which the losses of an entry are reported.
LossOrder ==
    <<"request.url.userinfo", "request.queryString", "cookies", "httpVersion", "comment",
      "request.postData.params", "redirectURL", "compression", "response.content.size",
      "response.content.text", "body.json", "body.form", "timings", "serverIPAddress", "cache",
      "pageref", "response.status", "headers", "query">>

\* The losses of a document, entry by entry.
ImportReport(doc, cfg) ==
    LET report(i) == LET losses == ImportLosses(doc.entries[i], cfg)
                     IN SelectSeq([k \in DOMAIN LossOrder |-> <<i, LossOrder[k]>>], LAMBDA l : l[2] \in losses)
    IN FlattenSeq([i \in DOMAIN doc.entries |-> report(i)])

\* What InteropProvenance keeps of them.
StoredLosses(report) == ToSet(SubSeq(report, 1, Min({Len(report), LossLimit})))

-----------------------------------------------------------------------------
(* Export. *)

\* UTF-8 as text, anything else as base64.
TextOf(body) == {[body |-> b, enc |-> IF b.kind = "binary" THEN "base64" ELSE ""] : b \in body}

\* One entry of export_session_to_har.
ExportEntry(f) ==
    LET r == IF f.res = {} THEN [status |-> 0, headers |-> << >>, type |-> "none", body |-> {}]
             ELSE CHOOSE x \in f.res : TRUE
    IN [ok |-> TRUE, url |-> f.url, userinfo |-> FALSE, fragment |-> FALSE, urlQuery |-> f.query, query |-> f.query,
        req |-> f.req,
        post |-> {[media |-> f.req.type, text |-> {t}, params |-> {}] : t \in TextOf(f.reqBody)},
        status |-> r.status, res |-> [headers |-> r.headers, type |-> r.type],
        content |-> {[media |-> r.type, text |-> TextOf(r.body), size |-> SumSet({b.len : b \in r.body})]},
        started |-> f.started, time |-> f.time,
        extra |-> {"timings", "cache", "comment"}]

IsWebSocket(f) ==
    (\E i \in DOMAIN f.req.headers : f.req.headers[i].name = "upgrade") \/ \E r \in f.res : r.status = 101

\* The losses export reports for a flow.
ExportLosses(f) ==
    (IF f.trailers THEN {"trailers"} ELSE {})
    \cup (IF \E b \in f.reqBody : b.kind = "binary" THEN {"request.postData.encoding"} ELSE {})
    \cup (IF \E r \in f.res : \E b \in r.body : b.kind = "binary" THEN {"response.content.encoding"} ELSE {})
    \cup (IF f.res = {} THEN {"response"} ELSE {})
    \cup (IF f.marks # {} THEN {"redactions"} ELSE {})
    \cup (IF f.route THEN {"physical_route"} ELSE {})
    \cup (IF IsWebSocket(f) THEN {"websocket"} ELSE {})

\* The losses it reports for the extensions of the session.
ExtensionLosses(exts) == {x.name : x \in exts}

ExportDocument(flows) ==
    [version |-> "1.2", entries |-> [i \in DOMAIN flows |-> ExportEntry(flows[i])]]
=============================================================================
