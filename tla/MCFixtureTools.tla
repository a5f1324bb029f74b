--------------------------- MODULE MCFixtureTools ---------------------------
(* Two commands at a time.  Fixtures: none, one of the old schema, one with  *)
(* stream events and authored rules, one with a WebSocket conversation, one  *)
(* with an extension of a later version.  Documents: one whose bodies and    *)
(* headers carry fields to redact, one whose URL, start and time an import   *)
(* rewrites, three that cannot be imported, and whatever was exported.  A    *)
(* flow limit of 3 is reached by two appends; the first document has more    *)
(* losses than a fixture keeps.                                              *)
EXTENDS FixtureTools

H(name, n) == [name |-> name, n |-> n]
B(kind, key, len) == [kind |-> kind, key |-> key, len |-> len]
Q(key, value) == [key |-> key, value |-> value]

U(port, path) == [scheme |-> "http", host |-> "h", port |-> port, path |-> path]

F(id, body) ==
    [id |-> id, url |-> U(0, <<"p">>), query |-> <<Q(TRUE, 1), Q(FALSE, 2)>>, req |-> [headers |-> <<H("secret", 1)>>, type |-> "none"],
     reqBody |-> {}, res |-> {[status |-> 200, headers |-> <<H("length", body.len), H("validator", 1)>>,
                               type |-> body.kind, body |-> {body}]},
     started |-> 3, time |-> 2, trailers |-> FALSE, marks |-> {}, route |-> FALSE]

Text == F(1, B("text", FALSE, 2))
Binary == [F(2, B("binary", FALSE, 2)) EXCEPT !.trailers = TRUE, !.route = TRUE, !.marks = {"headers"}]
Chat == [F(3, B("text", FALSE, 1)) EXCEPT !.req.headers = <<H("upgrade", 1)>>,
            !.res = {[status |-> 101, headers |-> << >>, type |-> "none", body |-> {}]}]
Lost == [F(4, B("text", FALSE, 1)) EXCEPT !.res = {}, !.reqBody = {B("text", FALSE, 1)}, !.time = 7,
                                             !.url = U(80, <<"p", "..", "q">>)]

Dir(schema, exts, log, events, talks) ==
    Sealed([NoFiles EXCEPT !.schema = schema, !.exts = exts, !.log = log, !.events = events, !.talks = talks,
                           !.blobs = UNION {FlowBlobs(log[i]) : i \in DOMAIN log}])

Old == Dir(1, {}, <<Text, Lost>>, {}, {})
Streamed == Dir(2, {Ext("stream-events", TRUE, TRUE), Ext("rules", TRUE, TRUE), Ext("unknown", FALSE, FALSE)}, <<Text, Binary>>, {1}, {})
Talked == Dir(2, {Ext("websocket-messages", TRUE, TRUE)}, <<Chat>>, {}, {3})
Later == Dir(2, {Ext("interop-provenance", FALSE, FALSE)}, <<Text>>, {}, {})

MCStartFixtures == {{}, {Old}, {Streamed}, {Talked}, {Later}}

MCRecordings == [j \in Jobs |-> IF j = "a" THEN {<<F(10, B("text", FALSE, 1))>>}
                              ELSE {<<F(20, B("text", FALSE, 1))>>, <<>>}]
MCEventIds == {10}

NoPost == {}
Post(media, body) == {[media |-> media, text |-> {[body |-> body, enc |-> ""]}, params |-> {}]}
Params(media, body) == {[media |-> media, text |-> {}, params |-> {[file |-> FALSE, body |-> body]}]}
Content(media, body, enc) == {[media |-> media, text |-> {[body |-> body, enc |-> enc]}, size |-> body.len]}

E(post, status, content) ==
    [ok |-> TRUE, url |-> U(8080, <<"p">>), userinfo |-> FALSE, fragment |-> FALSE, urlQuery |-> <<Q(TRUE, 1)>>, query |-> << >>,
     req |-> [headers |-> <<H("secret", 1), H("length", 2)>>, type |-> "none"], post |-> post,
     status |-> status, res |-> [headers |-> <<H("validator", 1), H("length", 2)>>, type |-> "json"],
     content |-> content, started |-> 1, time |-> 1, extra |-> {"cache"}]

Json(key) == B("json", key, 2)

MCDocuments ==
    {[version |-> "1.2", entries |-> es] :
        es \in {<<E(Post("json", Json(TRUE)), 200, Content("json", Json(TRUE), "base64")),
                  E(NoPost, 0, {[media |-> "json", text |-> {}, size |-> -1]})>>,
                <<E(Params("form", B("form", TRUE, 1)), 200, Content("text", Json(TRUE), ""))>>,
                <<[E(NoPost, 200, Content("text", B("text", FALSE, 1), ""))
                    EXCEPT !.url = U(80, <<"..", "p", ".">>), !.userinfo = TRUE, !.fragment = TRUE,
                           !.started = -1, !.time = 7]>>,
                <<[E(NoPost, 200, {}) EXCEPT !.url.scheme = "ftp"]>>,
                <<E(NoPost, 200, Content("json", B("json", TRUE, 3), ""))>>,
                <<E(NoPost, 99, {})>>}}
    \cup {[version |-> "1.1", entries |-> << >>]}

MCPolicies == {NoRedaction, [headers |-> TRUE, json |-> TRUE, form |-> FALSE],
               [headers |-> FALSE, json |-> FALSE, form |-> TRUE]}
=============================================================================
