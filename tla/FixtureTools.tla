---------------------------- MODULE FixtureTools ----------------------------
(***************************************************************************)
(* The commands that write whole fixtures (crates eggreplay-store and      *)
(* eggreplay-cli): `record', `serve --record-mode append-new', `migrate',  *)
(* `har import' and `har export', on the fixture at one path and a second  *)
(* path migrations may go to.  Each command is a process; it reads and     *)
(* writes directories file by file, while another may replace them.        *)
(*                                                                         *)
(* A Session keeps the path and the manifest it read when it was opened;   *)
(* every other file is read through the path when it is needed.  The steps *)
(* of a replacement and its faults are those of FixtureReplace: here it is *)
(* one step, and so is the removal of a directory.  A blob's name is its    *)
(* content.                                                                *)
(***************************************************************************)
EXTENDS HarInterchange

CONSTANTS
    Jobs,           \* the processes, each runs one command
    StartFixtures,  \* what may be at the fixture's path at the start: sets of at most one
    Documents,      \* HAR documents that may be imported
    Policies,       \* redaction policies: [headers, json, form], which selectors are set
    Recordings,     \* Recordings[j]: what a recording of process j may hold, sequences of flows
    EventIds,       \* flows recorded with stream events
    MaxFlows        \* StoreLimits.max_flows

ASSUME ToolBounds == MaxFlows \in Nat /\ \A s \in StartFixtures : Cardinality(s) <= 1

VARIABLES
    fixtures,   \* fixtures[path]: {} or the directory there
    har,        \* {} or the HAR file an export wrote, with the flows it was made from
    jobs        \* the processes

vars == <<fixtures, har, jobs>>

Main == "main"
Copy == "copy"
Paths == {Main, Copy}

\* A directory: its manifest, its flow log, its blobs and its extension files.
NoFiles == [schema |-> 0, count |-> 0, blobCount |-> 0, exts |-> {}, log |-> << >>, blobs |-> {},
            events |-> {}, talks |-> {}, losses |-> {}]

NoJob == [pc |-> "idle", cmd |-> "none", to |-> Main, overwrite |-> FALSE, schema |-> 2, src |-> {},
          w |-> NoFiles, add |-> {}, doc |-> {}, cfg |-> {}, disturbed |-> FALSE]

Init ==
    /\ \E s \in StartFixtures : fixtures = [p \in Paths |-> IF p = Main THEN s ELSE {}]
    /\ har = {}
    /\ jobs = [j \in Jobs |-> NoJob]

-----------------------------------------------------------------------------
(* Sessions. *)

\* A manifest's entry for an extension; current: of the schema this version writes.
Ext(name, required, current) == [name |-> name, required |-> required, current |-> current]

KnownExtensions == {"rules", "stream-events", "websocket-messages", "interop-provenance"}

HasExt(d, name) == \E x \in d.exts : x.name = name

FlowBlobs(f) == f.reqBody \cup UNION {r.body : r \in f.res}

\* BodyWriter::finish renames each body to its digest: equal bodies are one blob.
LogBlobs(log) == UNION {FlowBlobs(log[i]) : i \in DOMAIN log}

Upgraded(log) == {log[i].id : i \in {k \in DOMAIN log :
                    /\ \E h \in DOMAIN log[k].req.headers : log[k].req.headers[h].name = "upgrade"
                    /\ \E r \in log[k].res : r.status = 101}}

Ids(log) == {log[i].id : i \in DOMAIN log}

\* FlowIter bounds the log it reads.
LogOk(log) == Len(log) <= MaxFlows

\* SessionWriter::append_flow refuses the flow after the last.
AppendsOk(log) == Len(log) <= MaxFlows

\* validate_extensions: names once, a required one is known, and those that are read
\* have the current schema.
ExtensionsOk(d) ==
    /\ \A x, y \in d.exts : x.name = y.name => x = y
    /\ \A x \in d.exts :
         /\ x.required => x.name \in KnownExtensions
         /\ x.name \in KnownExtensions \ {"interop-provenance"} => x.current
         /\ x.name = "websocket-messages" => x.required

\* Every WebSocket upgrade has its conversation, and every conversation its upgrade.
TalksOk(d) == IF HasExt(d, "websocket-messages") THEN d.talks = Upgraded(d.log) ELSE Upgraded(d.log) = {}

\* verify_blob_file, for the blobs the flows name.
BlobsOk(d) == \A i \in DOMAIN d.log : FlowBlobs(d.log[i]) \subseteq d.blobs

\* Session::open.
SessionOpens(d) ==
    /\ d.schema \in 1..2
    /\ HasExt(d, "websocket-messages") => d.schema = 2
    /\ ExtensionsOk(d)
    /\ LogOk(d.log) /\ d.count = Len(d.log)
    /\ \A i, k \in DOMAIN d.log : d.log[i].id = d.log[k].id => i = k
    /\ BlobsOk(d) /\ d.blobCount = Cardinality(d.blobs)
    /\ TalksOk(d)
    /\ HasExt(d, "stream-events") => d.events \subseteq Ids(d.log)

\* write_extension makes the session one of the current schema.
WriteExtension(w, x) == [w EXCEPT !.exts = @ \cup {x}, !.schema = 2]

\* SessionWriter::finish seals the manifest with what was written.
Sealed(w) == [w EXCEPT !.count = Len(w.log), !.blobCount = Cardinality(w.blobs)]

-----------------------------------------------------------------------------
(* Commands. *)

Ended == {"idle", "ok", "failed"}

Put(j, x) == jobs' = [jobs EXCEPT ![j] = x]

\* Exit with an error: what was staged stays behind, hidden.
Failed(j) == [NoJob EXCEPT !.pc = "failed", !.cmd = jobs[j].cmd]

Fail(j) == Put(j, Failed(j)) /\ UNCHANGED <<fixtures, har>>

\* Something new at a path disturbs every other process at work.
Replaced(j, path, dirs, x) ==
    /\ fixtures' = [fixtures EXCEPT ![path] = dirs]
    /\ jobs' = [k \in Jobs |->
                  IF k = j THEN x
                  ELSE [jobs[k] EXCEPT !.disturbed =
                          @ \/ (jobs[k].pc \notin Ended /\ fixtures[path] # dirs)]]
    /\ UNCHANGED har

\* migration_blockers: there is a migrator for the known extensions of the current
\* schema only, and unknown ones may be carried along when they are not required.
Blocked(d) == \E x \in d.exts : IF x.name \in KnownExtensions THEN ~x.current ELSE x.required

\* copy_to refuses to lose extensions by a downgrade.
Downgrades(d, schema) == schema = 1 /\ d.exts # {}

\* migrate --in-place (to = Main) or --to (to = Copy).
Migrate(j, to, schema, overwrite) ==
    /\ jobs[j] = NoJob
    /\ LET x == [NoJob EXCEPT !.cmd = "migrate", !.to = to, !.overwrite = overwrite]
       IN Put(j, IF /\ \E d \in fixtures[Main] : SessionOpens(d) /\ ~Blocked(d) /\ ~Downgrades(d, schema)
                    /\ to = Main \/ fixtures[to] = {} \/ overwrite
                 THEN [x EXCEPT !.pc = "blobs", !.src = fixtures[Main], !.w.schema = schema]
                 ELSE [x EXCEPT !.pc = "failed"])
    /\ UNCHANGED <<fixtures, har>>

\* A finished recording of some flows.
Recording(flows) ==
    LET events == Ids(flows) \cap EventIds
        w == [NoFiles EXCEPT !.schema = 1, !.log = flows,
                             !.blobs = LogBlobs(flows)]
    IN IF events = {} THEN w ELSE [WriteExtension(w, Ext("stream-events", TRUE, TRUE)) EXCEPT !.events = events]

\* serve --record-mode append-new: the source is opened, and the server runs until
\* it is stopped; what it recorded is a session of its own.
AppendNew(j, flows) ==
    /\ jobs[j] = NoJob
    /\ Put(j, IF \E d \in fixtures[Main] : SessionOpens(d)
              THEN [NoJob EXCEPT !.cmd = "append", !.pc = "blobs", !.src = fixtures[Main],
                                 !.w.schema = 2, !.add = {Sealed(Recording(flows))}]
              ELSE [NoJob EXCEPT !.cmd = "append", !.pc = "failed"])
    /\ UNCHANGED <<fixtures, har>>

\* serve --record-mode re-record: a new session, which then takes the fixture's place.
ReRecord(j, flows) ==
    /\ jobs[j] = NoJob
    /\ Put(j, [NoJob EXCEPT !.cmd = "rerecord", !.pc = "staged", !.w = Recording(flows)])
    /\ UNCHANGED <<fixtures, har>>

\* Mutant: a command that does not look at its flag.
StartNewAnyway(j, x) ==
    /\ jobs[j] = NoJob
    /\ Put(j, [x EXCEPT !.pc = "remove"])
    /\ UNCHANGED <<fixtures, har>>

\* Without --overwrite an existing fixture is refused.
StartNew(j, x) ==
    /\ jobs[j] = NoJob
    /\ Put(j, [x EXCEPT !.pc = IF fixtures[Main] # {} /\ ~x.overwrite THEN "failed" ELSE "remove"])
    /\ UNCHANGED <<fixtures, har>>

\* record, and har import.
Record(j, flows, overwrite) ==
    StartNew(j, [NoJob EXCEPT !.cmd = "record", !.overwrite = overwrite, !.w = Recording(flows)])

HarImport(j, doc, cfg, overwrite) ==
    StartNew(j, [NoJob EXCEPT !.cmd = "import", !.overwrite = overwrite, !.doc = {doc}, !.cfg = {cfg}])

\* The commands look again, and remove what they find before they write.
RemoveOld(j) ==
    /\ jobs[j].pc = "remove"
    /\ Replaced(j, Main, {}, [jobs[j] EXCEPT !.pc = "create"])

\* SessionWriter::create and RecordingSession::create refuse a destination that exists.
CreateSession(j) ==
    /\ jobs[j].pc = "create"
    /\ IF fixtures[Main] # {} THEN Fail(j)
       ELSE /\ Put(j, [jobs[j] EXCEPT !.pc = IF jobs[j].cmd = "import" THEN "convert" ELSE "seal"])
            /\ UNCHANGED <<fixtures, har>>

\* import_har_to_writer: the bodies, the flows, and the loss report as an optional
\* extension.  An entry that cannot be used fails the import.
ConvertHar(j) ==
    /\ jobs[j].pc = "convert"
    /\ \E doc \in jobs[j].doc, cfg \in jobs[j].cfg :
         IF DocumentOk(doc, cfg) /\ AppendsOk(doc.entries)
            THEN /\ LET flows == ImportDocument(doc, cfg, 50)
                    IN Put(j, [jobs[j] EXCEPT !.pc = "seal",
                              !.w = WriteExtension([NoFiles EXCEPT !.log = flows, !.blobs = LogBlobs(flows),
                                                             !.losses = StoredLosses(ImportReport(doc, cfg))],
                                        Ext("interop-provenance", FALSE, TRUE))])
                 /\ UNCHANGED <<fixtures, har>>
            ELSE Fail(j)

\* finish: the WebSocket upgrades need their conversations; then the directory is
\* renamed into place, which fails if something came there, and opened.
SealHere(j) ==
    /\ jobs[j].pc = "seal"
    /\ LET w == Sealed(jobs[j].w)
       IN IF TalksOk(w) /\ fixtures[Main] = {}
          THEN Replaced(j, Main, {w},
                        [jobs[j] EXCEPT !.pc = IF SessionOpens(w) THEN "ok" ELSE "failed", !.w = w])
          ELSE Fail(j)

-----------------------------------------------------------------------------
(* Copying and merging, through the path the source was opened from. *)

\* copy_blob_namespace, of the source and of what is added.
CopyBlobs(j) ==
    /\ jobs[j].pc = "blobs"
    /\ IF fixtures[Main] = {} THEN Fail(j)
       ELSE /\ \E d \in fixtures[Main] :
                 Put(j, [jobs[j] EXCEPT !.pc = "flows",
                                        !.w.blobs = d.blobs \cup UNION {a.blobs : a \in jobs[j].add}])
            /\ UNCHANGED <<fixtures, har>>

\* append_flow bounds the number of flows, whatever the two sessions' own counts.
CopyFlows(j) ==
    /\ jobs[j].pc = "flows"
    /\ LET more == UNION {{a.log} : a \in jobs[j].add}
           log(d) == FoldSet(LAMBDA x, acc : acc \o x, d.log, more)
       IN IF fixtures[Main] = {} \/ \E d \in fixtures[Main] : ~AppendsOk(log(d)) THEN Fail(j)
          ELSE /\ \E d \in fixtures[Main] : Put(j, [jobs[j] EXCEPT !.pc = "exts", !.w.log = log(d)])
               /\ UNCHANGED <<fixtures, har>>

\* Mutant: a merge in which the first session's extensions win.
MergedFirst(w, s, d, a) ==
    [w EXCEPT !.exts = s.exts \cup {x \in a.exts : ~HasExt(s, x.name)},
              !.schema = IF s.exts \cup a.exts # {} THEN 2 ELSE @,
              !.events = IF HasExt(s, "stream-events") THEN d.events ELSE a.events,
              !.talks = IF HasExt(s, "websocket-messages") THEN d.talks ELSE {},
              !.losses = IF HasExt(s, "interop-provenance") THEN d.losses ELSE {}]

\* The extensions the source had when it was opened, with the bytes they have now;
\* stream events of the two sessions are combined.
Merged(w, s, d, a) ==
    [w EXCEPT !.exts = s.exts \cup a.exts,
              !.schema = IF s.exts \cup a.exts # {} THEN 2 ELSE @,
              !.events = (IF HasExt(s, "stream-events") THEN d.events ELSE {}) \cup a.events,
              !.talks = IF HasExt(s, "websocket-messages") THEN d.talks ELSE {},
              !.losses = IF HasExt(s, "interop-provenance") THEN d.losses ELSE {}]

\* read_extension, of every extension of session s in the directory d that is there now.
Readable(s, d) == \A x \in s.exts : HasExt(d, x.name)

\* A missing extension file, or a flow with two sets of events, ends the command.
CopyExtensions(j) ==
    /\ jobs[j].pc = "exts"
    /\ \E s \in jobs[j].src :
         LET a == IF jobs[j].add = {} THEN NoFiles ELSE CHOOSE x \in jobs[j].add : TRUE
         IN IF \E d \in fixtures[Main] :
                 /\ Readable(s, d)
                 /\ HasExt(s, "stream-events") => d.events \cap a.events = {}
            THEN /\ \E d \in fixtures[Main] :
                      Put(j, [jobs[j] EXCEPT !.pc = "staged", !.w = Merged(jobs[j].w, s, d, a)])
                 /\ UNCHANGED <<fixtures, har>>
            ELSE Fail(j)

\* finish publishes the copy beside the fixture and opens it.
FinishStaged(j) ==
    /\ jobs[j].pc = "staged"
    /\ LET w == Sealed(jobs[j].w)
       IN IF TalksOk(w) /\ SessionOpens(w)
          THEN Put(j, [jobs[j] EXCEPT !.pc = "publish", !.w = w]) /\ UNCHANGED <<fixtures, har>>
          ELSE Fail(j)

\* The copy takes the place of what is at the path, by replace_fixture_transactionally;
\* migrate --to renames it where it finds nothing.
PublishStaged(j) ==
    /\ jobs[j].pc = "publish"
    /\ IF jobs[j].to = Copy /\ fixtures[Copy] = {}
       THEN Put(j, [jobs[j] EXCEPT !.pc = "rename"]) /\ UNCHANGED <<fixtures, har>>
       ELSE Replaced(j, jobs[j].to, {jobs[j].w}, [jobs[j] EXCEPT !.pc = "ok"])

\* The rename fails if a fixture came there since the command looked.
RenameStaged(j) ==
    /\ jobs[j].pc = "rename"
    /\ IF fixtures[Copy] # {} THEN Fail(j)
       ELSE Replaced(j, Copy, {jobs[j].w}, [jobs[j] EXCEPT !.pc = "ok"])

-----------------------------------------------------------------------------
(* Exporting, through the path the session was opened from. *)

\* har export opens the session.
HarExport(j, overwrite) ==
    /\ jobs[j] = NoJob
    /\ LET x == [NoJob EXCEPT !.cmd = "export", !.overwrite = overwrite]
       IN Put(j, IF \E d \in fixtures[Main] : SessionOpens(d)
                 THEN [x EXCEPT !.pc = "collect", !.src = fixtures[Main]] ELSE [x EXCEPT !.pc = "failed"])
    /\ UNCHANGED <<fixtures, har>>

\* export_session_to_har reads all flows first.
CollectFlows(j) ==
    /\ jobs[j].pc = "collect"
    /\ IF \E d \in fixtures[Main] : LogOk(d.log)
       THEN /\ \E d \in fixtures[Main] : Put(j, [jobs[j] EXCEPT !.pc = "export", !.w.log = d.log])
            /\ UNCHANGED <<fixtures, har>>
       ELSE Fail(j)

\* Then the bodies of one flow after the other; w.count: the entries made.
ExportFlow(j) ==
    /\ jobs[j].pc = "export" /\ jobs[j].w.count < Len(jobs[j].w.log)
    /\ IF FlowBlobs(jobs[j].w.log[jobs[j].w.count + 1]) \subseteq UNION {d.blobs : d \in fixtures[Main]}
       THEN /\ Put(j, [jobs[j] EXCEPT !.w.count = @ + 1])
            /\ UNCHANGED <<fixtures, har>>
       ELSE Fail(j)

\* Only now is the destination looked at.
LookAtHar(j) ==
    /\ jobs[j].pc = "export" /\ jobs[j].w.count = Len(jobs[j].w.log)
    /\ IF har # {} /\ ~jobs[j].overwrite THEN Fail(j)
       ELSE Put(j, [jobs[j] EXCEPT !.pc = "write"]) /\ UNCHANGED <<fixtures, har>>

\* A HAR file that was cut short does not parse.
Truncated == [doc |-> [version |-> "none", entries |-> << >>], flows |-> << >>, src |-> {}, disturbed |-> FALSE]

\* fs::write truncates the file and writes it, or fails on the way.
WriteHar(j) ==
    /\ jobs[j].pc = "write"
    /\ LET x == jobs[j]
       IN \/ /\ har' = {[doc |-> ExportDocument(x.w.log), flows |-> x.w.log, src |-> x.src, disturbed |-> x.disturbed]}
             /\ Put(j, [x EXCEPT !.pc = "ok"])
          \/ har' = {Truncated} /\ Put(j, Failed(j))
    /\ UNCHANGED fixtures

\* An I/O error, a lost server or a crash, anywhere.
Fails(j) == jobs[j].pc \notin Ended /\ Fail(j)

Step(j) ==
    \/ RemoveOld(j) \/ CreateSession(j) \/ ConvertHar(j) \/ SealHere(j)
    \/ CopyBlobs(j) \/ CopyFlows(j) \/ CopyExtensions(j) \/ FinishStaged(j) \/ PublishStaged(j)
    \/ RenameStaged(j) \/ CollectFlows(j) \/ ExportFlow(j) \/ LookAtHar(j) \/ WriteHar(j)

Next ==
    \E j \in Jobs :
      \/ \E to \in Paths, schema \in 1..2, o \in BOOLEAN : Migrate(j, to, schema, o)
      \/ \E m \in Recordings[j] : AppendNew(j, m) \/ ReRecord(j, m) \/ \E o \in BOOLEAN : Record(j, m, o)
      \/ \E doc \in Documents \cup {h.doc : h \in har}, cfg \in Policies, o \in BOOLEAN :
            HarImport(j, doc, cfg, o)
      \/ \E o \in BOOLEAN : HarExport(j, o)
      \/ Step(j)
      \/ Fails(j)

Spec == Init /\ [][Next]_vars

-----------------------------------------------------------------------------
(* Properties. *)

\* The shape of the state.
TypeOK ==
    /\ \A p \in Paths : Cardinality(fixtures[p]) <= 1
    /\ \A j \in Jobs : jobs[j].pc \in Ended \cup {"remove", "create", "convert", "seal", "blobs", "flows", "exts",
                                                 "staged", "publish", "rename", "collect", "export", "write"}
    /\ \A j \in Jobs : jobs[j].pc \in {"blobs", "flows", "exts"} =>
          jobs[j].src # {} /\ jobs[j].cmd \in {"append", "migrate"}

\* What is at a fixture's path opens, although a command copies it file by file
\* while another replaces it (Session::open at the end of SessionWriter::finish).
PublishedOpens == \A p \in Paths : \A d \in fixtures[p] : SessionOpens(d)

\* A migration or an append-new that nothing disturbed published the session it
\* opened, with what it recorded after it: flows in order, blobs, events, extensions
\* (copy_to, merge_to).
UndisturbedExact ==
    \A j \in Jobs : LET x == jobs[j] IN
        x.pc = "ok" /\ x.cmd \in {"migrate", "append"} /\ ~x.disturbed =>
            \E s \in x.src : \E a \in IF x.add = {} THEN {NoFiles} ELSE x.add :
                /\ x.w.log = s.log \o a.log /\ x.w.blobs = s.blobs \cup a.blobs
                /\ x.w.exts = s.exts \cup a.exts
                /\ x.w.events = s.events \cup a.events /\ x.w.talks = s.talks /\ x.w.losses = s.losses

\* A fixture that was there when a command without --overwrite was started is never
\* removed by it; one that came since may be, because the commands look twice (record,
\* har_import).
OnlyOverwriteLoses ==
    [][\A p \in Paths : fixtures[p] # {} /\ fixtures'[p] = {} =>
          \E j \in Jobs : /\ jobs[j].pc = "remove" /\ jobs'[j].pc = "create"
                          /\ jobs[j].overwrite \/ jobs[j].disturbed]_vars

\* An import publishes one flow for each entry, and no body in which the policy
\* selects a field: a JSON body always, a form where the HAR says it is one
\* (import_har_to_writer, redact_import_body).
ImportComplete ==
    \A j \in Jobs : LET x == jobs[j] IN
        x.pc = "ok" /\ x.cmd = "import" =>
            \E doc \in x.doc, cfg \in x.cfg :
                /\ Len(x.w.log) = Len(doc.entries)
                /\ \A i \in DOMAIN doc.entries : \A b \in FlowBlobs(x.w.log[i]) :
                     /\ cfg.json /\ b.kind = "json" => ~b.key
                     /\ cfg.form /\ MediaOf(doc.entries[i].post) = "form" /\ b \in x.w.log[i].reqBody => ~b.key

\* After a body was redacted, the length header of both messages is that of the body
\* published (reconcile_headers_after_body_redaction).
LengthHonest ==
    \A j \in Jobs : jobs[j].cmd = "import" => \A i \in DOMAIN jobs[j].w.log :
        LET f == jobs[j].w.log[i]
            honest(hs, body) == \A k \in DOMAIN hs : hs[k].name = "length" => hs[k].n = SumSet({b.len : b \in body})
        IN f.marks \cap {"body.json", "body.form"} # {} =>
             honest(f.req.headers, f.reqBody) /\ \A r \in f.res : honest(r.headers, r.body)

\* What a command copies out of a fixture that others replace is complete or
\* refused, and exact when nobody did.
CopiesSound ==
    /\ TypeOK
    /\ PublishedOpens
    /\ UndisturbedExact

NoRedaction == [headers |-> FALSE, json |-> FALSE, form |-> FALSE]

\* Import loses three things without a line in its report: the form in which the URL
\* was written (the scheme's own port, dot segments), a start before the epoch and
\* the part of a total time beyond an hour.
Rewritten(url) ==
    url.port = DefaultPort(url.scheme) \/ \E i \in DOMAIN url.path : url.path[i] \in {".", ".."}

\* Apart from these three, where a published flow says something else than its HAR
\* entry, the loss report has a line for it, and the fixture keeps the report unless
\* it is longer than LossLimit (import_har_to_writer, InteropProvenance).  What the
\* rewritten URL leads to is the same.
ImportLossesNamed ==
    \A j \in Jobs : LET x == jobs[j] IN
        x.pc = "ok" /\ x.cmd = "import" =>
            \E doc \in x.doc, cfg \in x.cfg :
              /\ Len(ImportReport(doc, cfg)) <= LossLimit =>
                    \A i \in DOMAIN doc.entries : \A l \in ImportLosses(doc.entries[i], cfg) : <<i, l>> \in x.w.losses
              /\ \A i \in DOMAIN doc.entries :
                LET e == doc.entries[i]
                    f == x.w.log[i]
                    losses == ImportLosses(e, cfg)
                    named(A) == A \cap losses # {}
                    bodies == {"body.json", "body.form"}
                IN /\ f.url # e.url => Rewritten(e.url) /\ SplitUrl(f.url) = SplitUrl(e.url)
                   /\ e.userinfo => named({"request.url.userinfo"})
                   /\ f.started # e.started => e.started < Epoch
                   /\ f.time # e.time => e.time > EntryTimeLimit
                   /\ f.query # e.urlQuery \/ f.query # e.query => named({"request.queryString", "query"})
                   /\ f.req.headers # e.req.headers => named({"headers"} \cup bodies)
                   /\ \A p \in e.post : f.reqBody # {t.body : t \in p.text} =>
                         named({"request.postData.params"} \cup bodies)
                   /\ f.res # {[status |-> e.status, headers |-> e.res.headers, type |-> e.res.type,
                                body |-> UNION {{t.body : t \in c.text} : c \in e.content}]} =>
                         named({"response.status", "headers"} \cup bodies)

\* What an exported document does not bring back when it is imported again is named
\* in the losses, apart from the three that import never names; and if nothing
\* replaced the fixture meanwhile, the flows are those of the session that was opened
\* and each of its extensions is named (export_session_to_har, import_har_to_writer).
RoundTripLossesNamed ==
    \A h \in har :
      /\ ~h.disturbed => \A s \in h.src : /\ h.flows = s.log
                                          /\ s.events # {} => "stream-events" \in ExtensionLosses(s.exts)
                                          /\ s.talks # {} => "websocket-messages" \in ExtensionLosses(s.exts)
      /\ \A i \in DOMAIN h.flows :
        LET f == h.flows[i]
            e == h.doc.entries[i]
            g == ImportEntry(e, NoRedaction, f.id)
        IN /\ EntryOk(e, NoRedaction)
           /\ g.query = f.query /\ g.req = f.req /\ g.reqBody = f.reqBody /\ g.res = f.res
           /\ g.url # f.url => Rewritten(f.url)
           /\ g.started = f.started
           /\ g.time # f.time => f.time > EntryTimeLimit
           /\ f.trailers # g.trailers => "trailers" \in ExportLosses(f)
           /\ f.marks # g.marks => "redactions" \in ExportLosses(f)
           /\ f.route # g.route => "physical_route" \in ExportLosses(f)

\* HAR import and export publish all or nothing, redacted, and name what they lose,
\* with the three exceptions of ImportLossesNamed.
InterchangeSound ==
    /\ ImportComplete
    /\ LengthHonest
    /\ ImportLossesNamed
    /\ RoundTripLossesNamed

\* A migration replaces another path only when it was told to (docs/eggr-schema.md,
\* "`--to` replaces the destination only with `--overwrite`").
ReplacesOnlyWhenTold ==
    [][fixtures[Copy] # {} /\ fixtures'[Copy] # fixtures[Copy] =>
          \E j \in Jobs : jobs[j].pc = "publish" /\ jobs'[j].pc = "ok" /\ jobs[j].overwrite]_vars

\* docs/har-interchange.md on `startedDateTime' and `time': "preserve total".  The code
\* cuts the total at an hour and says nothing.
TotalTimeKept ==
    \A j \in Jobs : jobs[j].pc = "ok" /\ jobs[j].cmd = "import" =>
        \A doc \in jobs[j].doc : \A i \in DOMAIN doc.entries : jobs[j].w.log[i].time = doc.entries[i].time

\* docs/har-interchange.md on the scheme, authority and path of `request.url':
\* "preserve; userinfo stripped + `Redacted`".  The code rewrites authority and path and
\* says nothing.
UrlKept ==
    \A j \in Jobs : jobs[j].pc = "ok" /\ jobs[j].cmd = "import" =>
        \A doc \in jobs[j].doc : \A i \in DOMAIN doc.entries : jobs[j].w.log[i].url = doc.entries[i].url
=============================================================================
