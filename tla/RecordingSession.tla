--------------------------- MODULE RecordingSession ---------------------------
(***************************************************************************)
(* The concurrent recording session of eggreplay-store, driven by the two  *)
(* kinds of task the recording gateway runs against it, with no assumption *)
(* on when the owner calls `finish`.                                       *)
(*                                                                         *)
(*  - a task of Tasks is one call of record_request_with_session: stage    *)
(*    and publish a request body, run the upstream exchange, stage and     *)
(*    publish a response body, append the flow, append its stream events;  *)
(*  - a task of WsTasks is one call of gateway_websocket_request: register *)
(*    a finalizer, append the 101 flow, relay, storing one payload after   *)
(*    another, append the conversation and signal the finalizer;           *)
(*  - the finisher is the one call of RecordingSession::finish.            *)
(*                                                                         *)
(* A step is one atomic of the code: a load or read-modify-write of an     *)
(* atomic, one mutex section, or one file-system call.  The process may    *)
(* crash between any two steps, leaving the directory as it is.            *)
(***************************************************************************)
EXTENDS Integers, Sequences, FiniteSets

CONSTANTS
  Tasks,            \* HTTP exchanges being recorded
  WsTasks,          \* accepted WebSocket upgrades being recorded
  Digests,          \* SHA-256 digests of the non-empty bodies that occur
  BodyLen,          \* BodyLen[d]: length of the body with digest d
  Redact,           \* Redact[d]: what the redaction policy makes of body d
  Payloads,         \* digests of the payloads that the relayed messages bring
  WsRedact,         \* WsRedact[p]: what the relay stores for payload p
  LineLen,          \* LineLen[t]: encoded length of t's flow record
  OverLimit,        \* the upgrades whose transcript exceeds a WebSocket limit
  MaxMessages,      \* WebSocketLimits::max_messages_per_conversation
  MaxLineBytes, MaxBlobBytes, MaxFlows, MaxTotalBytes,   \* StoreLimits
  MaxEventFlows     \* MAX_STREAM_EVENTS_PER_SESSION, in flows

NoRef == "none"     \* no body reference yet
Empty == "empty"    \* BodyRef::Empty
Reject == "reject"  \* the policy fails closed on this body
Fault == "error"    \* FlowOutcome::Error: there is no response body

ASSUME SessionAssumption ==
  /\ IsFiniteSet(Tasks) /\ IsFiniteSet(WsTasks) /\ Tasks \cap WsTasks = {}
  /\ IsFiniteSet(Digests) /\ Digests \cap {NoRef, Empty, Reject, Fault} = {}
  /\ BodyLen \in [Digests -> Nat \ {0}]
  /\ Redact \in [Digests -> Digests \cup {Empty, Reject}]
  /\ \A d \in Digests : Redact[d] \in Digests => Redact[Redact[d]] = Redact[d]
  /\ Payloads \subseteq Digests /\ WsRedact \in [Payloads -> Digests]
  /\ OverLimit \subseteq WsTasks /\ MaxMessages \in Nat
  /\ LineLen \in [Tasks \cup WsTasks -> Nat \ {0}]
  /\ MaxLineBytes \in Nat /\ MaxBlobBytes \in Nat /\ MaxFlows \in Nat
  /\ MaxTotalBytes \in Nat /\ MaxEventFlows \in Nat

VARIABLES
  up,           \* the recording process is running
  \* RecordingInner
  shutdown, activeBlobs, logOpen, flowCount, totalBytes,
  events,       \* flow ids in the stream-event registry
  convs,        \* flow ids with an appended WebSocket conversation
  finalizers,   \* registered, not yet taken, conversation finalizers
  \* the session directory
  dirAt,        \* "staging": .name.incomplete-x;  "dest": renamed to its name
  flowLog,      \* flows.jsonl
  blobs,        \* blobs/<sha256>
  staged,       \* blobs/.staging-x, named by the task that owns the file
  exts,         \* the stream-events and websocket-messages payloads
  manifest,     \* manifest.json: whether it exists, and its two counts
  \* tasks
  pc, body, req, resp,
  wpc, signalled,
  msgs,         \* msgs[w]: the payload references of w's transcript
  \* the finisher
  fpc, driven, counted

inner == <<shutdown, activeBlobs, logOpen, flowCount, totalBytes, events, convs, finalizers>>
disk  == <<dirAt, flowLog, blobs, staged, exts, manifest>>
task  == <<pc, body, req, resp>>
ws    == <<wpc, signalled, msgs>>
fin   == <<fpc, driven, counted>>
vars  == <<up, inner, disk, task, ws, fin>>

Len0(r) == IF r \in Digests THEN BodyLen[r] ELSE 0

(* flow_body_bytes *)
FlowBytes(f) == Len0(f.req) + Len0(f.resp)

(* the aggregate body bytes of flows.jsonl, as a reader sums them *)
LogBytes ==
  LET sum[n \in 0..Len(flowLog)] == IF n = 0 THEN 0 ELSE sum[n-1] + FlowBytes(flowLog[n])
  IN  sum[Len(flowLog)]

LogIds == {flowLog[i].id : i \in 1..Len(flowLog)}

(* validate_body_files: every blob a flow refers to is in blobs/ *)
RefsPresent(f) == {f.req, f.resp} \cap Digests \subseteq blobs

(* verify_blob_file, for the payloads of one conversation *)
PayloadsPresent(w) == \A i \in 1..Len(msgs[w]) : msgs[w][i] \in blobs

Init ==
  /\ up = TRUE
  /\ shutdown = FALSE /\ activeBlobs = 0 /\ logOpen = TRUE
  /\ flowCount = 0 /\ totalBytes = 0
  /\ events = {} /\ convs = {} /\ finalizers = {}
  /\ dirAt = "staging" /\ flowLog = <<>> /\ blobs = {} /\ staged = {}
  /\ exts = [events |-> {}, convs |-> {}] /\ manifest = [written |-> FALSE, flows |-> 0, blobs |-> 0]
  /\ pc = [t \in Tasks |-> "idle"]
  /\ body = [t \in Tasks |-> NoRef]
  /\ req = [t \in Tasks |-> NoRef]
  /\ resp = [t \in Tasks |-> NoRef]
  /\ wpc = [w \in WsTasks |-> "idle"] /\ signalled = {} /\ msgs = [w \in WsTasks |-> <<>>]
  /\ fpc = "idle" /\ driven = {} /\ counted = [flows |-> 0, blobs |-> 0]

-----------------------------------------------------------------------------
(* Body sinks: begin_blob, RecordingBodyWriter::{write, finish, drop}.      *)

Goto(t, l) == pc' = [pc EXCEPT ![t] = l]

(* begin_blob: the admission check.  A task opens a sink for its request    *)
(* body, for its response body, and again for a redacted body.              *)
BeginBlob(t) ==
  /\ pc[t] \in {"idle", "respond", "restage"}
  /\ Goto(t, IF shutdown THEN "failed" ELSE "opening")
  /\ UNCHANGED <<up, inner, disk, body, req, resp, ws, fin>>

(* begin_blob: create_new on the staging path, which is gone once the       *)
(* directory has been renamed.                                              *)
CreateStaging(t) ==
  /\ pc[t] = "opening"
  /\ \/ /\ dirAt = "staging"
        /\ staged' = staged \cup {t}
        /\ Goto(t, "created")
     \/ /\ dirAt # "staging"
        /\ Goto(t, "failed")
        /\ UNCHANGED staged
  /\ UNCHANGED <<up, inner, dirAt, flowLog, blobs, exts, manifest, body, req, resp, ws, fin>>

(* begin_blob: active_blobs.fetch_add(1).                                   *)
Reserve(t) ==
  /\ pc[t] = "created"
  /\ activeBlobs' = activeBlobs + 1
  /\ Goto(t, "writing")
  /\ UNCHANGED <<up, shutdown, logOpen, flowCount, totalBytes, events, convs, finalizers,
                 disk, body, req, resp, ws, fin>>

(* The body has been streamed into the sink within max_blob_bytes; a        *)
(* restaged sink receives the redacted bytes and nothing else.              *)
WriteBody(t, d) ==
  /\ pc[t] = "writing"
  /\ body[t] # NoRef => d = body[t]
  /\ Len0(d) <= MaxBlobBytes
  /\ body' = [body EXCEPT ![t] = d]
  /\ Goto(t, "staged")
  /\ UNCHANGED <<up, inner, disk, req, resp, ws, fin>>

(* Mutant: the unlink follows the directory through its rename.             *)
RemoveStagingAnywhere(t) == staged' = staged \ {t}

(* unlink of a staging file; after the rename the old path resolves to      *)
(* nothing and the error is ignored.                                        *)
RemoveStaging(t) == staged' = IF dirAt = "staging" THEN staged \ {t} ELSE staged

(* The exchange is cancelled at an await, or a write fails: Drop removes    *)
(* the staging file.                                                        *)
AbortBody(t) ==
  /\ pc[t] = "writing"
  /\ RemoveStaging(t)
  /\ Goto(t, "aborting")
  /\ UNCHANGED <<up, inner, dirAt, flowLog, blobs, exts, manifest, body, req, resp, ws, fin>>

SetRef(t, r) ==
  IF req[t] = NoRef
  THEN req' = [req EXCEPT ![t] = r] /\ UNCHANGED resp
  ELSE resp' = [resp EXCEPT ![t] = r] /\ UNCHANGED req

(* Mutant: the body is published as it was received, then redacted.         *)
FinishSinkRaw(t) ==
  /\ pc[t] = "staged"
  /\ RemoveStaging(t)
  /\ blobs' = blobs \cup ({body[t]} \cap Digests)
  /\ SetRef(t, body[t])
  /\ Goto(t, "finished")
  /\ UNCHANGED <<up, inner, dirAt, flowLog, exts, manifest, body, ws, fin>>

(* finish_session_sink_redacted / the response-side twin, with              *)
(* RecordingBodyWriter::finish: an empty body leaves no file; a body the    *)
(* policy leaves alone is renamed to its digest (or unlinked if that blob   *)
(* exists); one it rejects is dropped; one it transforms is read back,      *)
(* dropped and restaged.                                                    *)
FinishSink(t) ==
  /\ pc[t] = "staged"
  /\ RemoveStaging(t)
  /\ \/ /\ body[t] = Empty
        /\ SetRef(t, Empty)
        /\ Goto(t, "finished")
        /\ UNCHANGED <<blobs, body>>
     \/ /\ body[t] \in Digests /\ Redact[body[t]] = body[t] /\ dirAt = "staging"
        /\ blobs' = blobs \cup {body[t]}
        /\ SetRef(t, body[t])
        /\ Goto(t, "finished")
        /\ UNCHANGED body
     \/ /\ body[t] \in Digests /\ Redact[body[t]] \notin {body[t], Reject} /\ dirAt = "staging"
        /\ body' = [body EXCEPT ![t] = Redact[body[t]]]
        /\ Goto(t, "restaging")
        /\ UNCHANGED <<blobs, req, resp>>
     \/ /\ body[t] \in Digests /\ (Redact[body[t]] = Reject \/ dirAt # "staging")
        /\ Goto(t, "aborting")
        /\ UNCHANGED <<blobs, body, req, resp>>
  /\ UNCHANGED <<up, inner, dirAt, flowLog, exts, manifest, ws, fin>>

(* Mutant: the sink dropped for a redacted restage is not given back.       *)
ReleaseLeaksRestage(t) ==
  /\ \/ /\ pc[t] = "aborting"
        /\ Goto(t, "failed")
        /\ activeBlobs' = activeBlobs - 1
        /\ UNCHANGED <<body, req, resp>>
     \/ /\ pc[t] = "finished"
        /\ Goto(t, IF resp[t] = NoRef THEN "upstream" ELSE "append")
        /\ body' = [body EXCEPT ![t] = NoRef]
        /\ activeBlobs' = activeBlobs - 1
        /\ UNCHANGED <<req, resp>>
     \/ /\ pc[t] = "restaging"
        /\ Goto(t, "restage")
        /\ UNCHANGED <<activeBlobs, body, req, resp>>
  /\ UNCHANGED <<up, shutdown, logOpen, flowCount, totalBytes, events, convs, finalizers,
                 disk, ws, fin>>

(* active_blobs.fetch_sub(1), the last act of finish and of Drop.           *)
Release(t) ==
  /\ activeBlobs' = activeBlobs - 1
  /\ \/ /\ pc[t] = "aborting"
        /\ Goto(t, "failed")
        /\ UNCHANGED <<body, req, resp>>
     \/ /\ pc[t] = "finished"
        /\ Goto(t, IF resp[t] = NoRef THEN "upstream" ELSE "append")
        /\ body' = [body EXCEPT ![t] = NoRef]
        /\ UNCHANGED <<req, resp>>
     \/ /\ pc[t] = "restaging" /\ body[t] # Empty
        /\ Goto(t, "restage")
        /\ UNCHANGED <<body, req, resp>>
     \/ /\ pc[t] = "restaging" /\ body[t] = Empty
        /\ Goto(t, IF req[t] = NoRef THEN "upstream" ELSE "append")
        /\ SetRef(t, Empty)
        /\ body' = [body EXCEPT ![t] = NoRef]
  /\ UNCHANGED <<up, shutdown, logOpen, flowCount, totalBytes, events, convs, finalizers,
                 disk, ws, fin>>

-----------------------------------------------------------------------------
(* The rest of record_request_with_session.                                 *)

(* What the awaited upstream exchange returned: a response to stream, or an *)
(* error outcome.  No await separates this from the request sink's finish.  *)
UpstreamOutcome(t) ==
  /\ pc[t] = "upstream"
  /\ \/ /\ Goto(t, "respond")
        /\ UNCHANGED resp
     \/ /\ Goto(t, "append")
        /\ resp' = [resp EXCEPT ![t] = Fault]
  /\ UNCHANGED <<up, inner, disk, body, req, ws, fin>>

(* append_flow, before the lock: admission, then the encoded length.        *)
AppendCheck(t) ==
  /\ pc[t] = "append"
  /\ Goto(t, IF shutdown \/ LineLen[t] > MaxLineBytes THEN "failed" ELSE "logging")
  /\ UNCHANGED <<up, inner, disk, body, req, resp, ws, fin>>

(* Mutants: max_flows off by one; the closed log still takes records.       *)
LogAcceptsOneMore(f) ==
  logOpen /\ flowCount <= MaxFlows /\ totalBytes + FlowBytes(f) <= MaxTotalBytes

LogAcceptsClosed(f) ==
  flowCount < MaxFlows /\ totalBytes + FlowBytes(f) <= MaxTotalBytes

LogAccepts(f) ==
  /\ logOpen
  /\ flowCount < MaxFlows
  /\ totalBytes + FlowBytes(f) <= MaxTotalBytes

(* append_flow, under the flow-log lock.                                    *)
LogFlow(f) ==
  /\ LogAccepts(f)
  /\ flowLog' = Append(flowLog, f)
  /\ flowCount' = flowCount + 1
  /\ totalBytes' = totalBytes + FlowBytes(f)

AppendFlow(t) ==
  LET f == [id |-> t, ws |-> FALSE, req |-> req[t], resp |-> resp[t]] IN
  /\ pc[t] = "logging"
  /\ \/ LogFlow(f) /\ Goto(t, "events")
     \/ ~LogAccepts(f) /\ Goto(t, "failed") /\ UNCHANGED <<flowLog, flowCount, totalBytes>>
  /\ UNCHANGED <<up, shutdown, activeBlobs, logOpen, events, convs, finalizers,
                 dirAt, blobs, staged, exts, manifest, body, req, resp, ws, fin>>

(* Mutant: a full event registry drops the events and reports success.      *)
AppendEventsSaturating(t) ==
  /\ pc[t] = "events"
  /\ events' = IF shutdown \/ Cardinality(events) >= MaxEventFlows THEN events ELSE events \cup {t}
  /\ Goto(t, "done")
  /\ UNCHANGED <<up, shutdown, activeBlobs, logOpen, flowCount, totalBytes, convs, finalizers,
                 disk, body, req, resp, ws, fin>>

(* append_stream_events: the check under the lock decides, since shutdown   *)
(* is never cleared.                                                        *)
AppendEvents(t) ==
  /\ pc[t] = "events"
  /\ \/ /\ ~shutdown /\ Cardinality(events) < MaxEventFlows
        /\ events' = events \cup {t}
        /\ Goto(t, "done")
     \/ /\ shutdown \/ Cardinality(events) >= MaxEventFlows
        /\ Goto(t, "failed")
        /\ UNCHANGED events
  /\ UNCHANGED <<up, shutdown, activeBlobs, logOpen, flowCount, totalBytes, convs, finalizers,
                 disk, body, req, resp, ws, fin>>

-----------------------------------------------------------------------------
(* gateway_websocket_request and the tunnel task it spawns.                 *)

WGoto(w, l) == wpc' = [wpc EXCEPT ![w] = l]

(* register_websocket_conversation_finalizer, before the tunnel is accepted. *)
WsRegister(w) ==
  /\ wpc[w] = "idle"
  /\ \/ /\ ~shutdown
        /\ finalizers' = finalizers \cup {w}
        /\ WGoto(w, "registered")
     \/ /\ shutdown
        /\ WGoto(w, "failed")
        /\ UNCHANGED finalizers
  /\ UNCHANGED <<up, shutdown, activeBlobs, logOpen, flowCount, totalBytes, events, convs,
                 disk, task, signalled, msgs, fin>>

(* The tunnel is accepted and the 101 flow built, either of which may fail; *)
(* then append_flow, before the lock.  A failure drops the accepted tunnel, *)
(* and with it the completer, which signals.                                *)
WsAppendCheck(w) ==
  /\ wpc[w] = "registered"
  /\ \/ /\ ~shutdown /\ LineLen[w] <= MaxLineBytes
        /\ WGoto(w, "logging")
        /\ UNCHANGED signalled
     \/ /\ WGoto(w, "failed")
        /\ signalled' = signalled \cup {w}
  /\ UNCHANGED <<up, inner, disk, task, msgs, fin>>

WsAppendFlow(w) ==
  LET f == [id |-> w, ws |-> TRUE, req |-> Empty, resp |-> Empty] IN
  /\ wpc[w] = "logging"
  /\ \/ LogFlow(f) /\ WGoto(w, "relay") /\ UNCHANGED signalled
     \/ /\ ~LogAccepts(f) /\ WGoto(w, "failed")
        /\ signalled' = signalled \cup {w}
        /\ UNCHANGED <<flowLog, flowCount, totalBytes>>
  /\ UNCHANGED <<up, shutdown, activeBlobs, logOpen, events, convs, finalizers,
                 dirAt, blobs, staged, exts, manifest, task, msgs, fin>>

(* relay_websocket has read a message with a payload: begin_blob for it.    *)
(* A storage error at any of the steps up to WsRelease ends the relay.      *)
WsBeginBlob(w) ==
  /\ wpc[w] = "relay"
  /\ WGoto(w, IF shutdown THEN "ended" ELSE "opening")
  /\ UNCHANGED <<up, inner, disk, task, signalled, msgs, fin>>

WsCreateStaging(w) ==
  /\ wpc[w] = "opening"
  /\ \/ /\ dirAt = "staging"
        /\ staged' = staged \cup {w}
        /\ WGoto(w, "created")
     \/ /\ dirAt # "staging"
        /\ WGoto(w, "ended")
        /\ UNCHANGED staged
  /\ UNCHANGED <<up, inner, dirAt, flowLog, blobs, exts, manifest, task, signalled, msgs, fin>>

WsReserve(w) ==
  /\ wpc[w] = "created"
  /\ activeBlobs' = activeBlobs + 1
  /\ WGoto(w, "writing")
  /\ UNCHANGED <<up, shutdown, logOpen, flowCount, totalBytes, events, convs, finalizers,
                 disk, task, signalled, msgs, fin>>

(* What the redaction options leave of the payload is written and published *)
(* (text that is not JSON passes json_paths as it is) and the message joins *)
(* the transcript, unless a capture limit or a storage error ends the relay.*)
WsFinishSink(w) ==
  /\ wpc[w] = "writing"
  /\ RemoveStaging(w)
  /\ \/ \E p \in Payloads :
        /\ Len0(WsRedact[p]) <= MaxBlobBytes /\ dirAt = "staging"
        /\ blobs' = blobs \cup {WsRedact[p]}
        /\ \/ /\ Len(msgs[w]) < MaxMessages
              /\ msgs' = [msgs EXCEPT ![w] = Append(@, WsRedact[p])]
              /\ WGoto(w, "stored")
           \/ WGoto(w, "dropping") /\ UNCHANGED msgs
     \/ WGoto(w, "dropping") /\ UNCHANGED <<blobs, msgs>>
  /\ UNCHANGED <<up, inner, dirAt, flowLog, exts, manifest, task, signalled, fin>>

(* active_blobs.fetch_sub(1); the message is forwarded or the relay ends.   *)
WsRelease(w) ==
  /\ activeBlobs' = activeBlobs - 1
  /\ \/ wpc[w] = "stored" /\ WGoto(w, "relay")
     \/ wpc[w] = "dropping" /\ WGoto(w, "ended")
  /\ UNCHANGED <<up, shutdown, logOpen, flowCount, totalBytes, events, convs, finalizers,
                 disk, task, signalled, msgs, fin>>

(* The relay ends; append_websocket_conversation, its error (shutdown, or a *)
(* transcript over a WebSocket limit) discarded.                            *)
WsAppendConversation(w) ==
  /\ wpc[w] \in {"relay", "ended"}
  /\ convs' = IF shutdown \/ w \in OverLimit THEN convs ELSE convs \cup {w}
  /\ WGoto(w, "appended")
  /\ UNCHANGED <<up, shutdown, activeBlobs, logOpen, flowCount, totalBytes, events, finalizers,
                 disk, task, signalled, msgs, fin>>

(* ConversationCompleter::complete.                                         *)
WsComplete(w) ==
  /\ wpc[w] = "appended"
  /\ signalled' = signalled \cup {w}
  /\ WGoto(w, "done")
  /\ UNCHANGED <<up, inner, disk, task, msgs, fin>>

(* Mutant: the completer has no Drop.                                       *)
WsAbortSilent(w) ==
  /\ wpc[w] = "relay"
  /\ WGoto(w, "aborted")
  /\ UNCHANGED <<up, inner, disk, task, signalled, msgs, fin>>

(* The tunnel task is aborted or panics in the relay: the completer's Drop. *)
WsAbort(w) ==
  /\ wpc[w] = "relay"
  /\ signalled' = signalled \cup {w}
  /\ WGoto(w, "aborted")
  /\ UNCHANGED <<up, inner, disk, task, msgs, fin>>

-----------------------------------------------------------------------------
(* RecordingSession::finish.  Each of its file-system calls may also fail:   *)
(* FinishFails.                                                             *)

FinishStart ==
  /\ fpc = "idle"
  /\ shutdown' = TRUE
  /\ fpc' = "active"
  /\ UNCHANGED <<up, activeBlobs, logOpen, flowCount, totalBytes, events, convs, finalizers,
                 disk, task, ws, driven, counted>>

(* Mutant: finish does not look at active_blobs.                            *)
FinishIgnoresActive ==
  /\ fpc = "active"
  /\ fpc' = "take"
  /\ UNCHANGED <<up, inner, disk, task, ws, driven, counted>>

FinishCheckActive ==
  /\ fpc = "active"
  /\ fpc' = IF activeBlobs # 0 THEN "err" ELSE "take"
  /\ UNCHANGED <<up, inner, disk, task, ws, driven, counted>>

(* mem::take of the finalizer registry.                                     *)
FinishTakeFinalizers ==
  /\ fpc = "take"
  /\ driven' = finalizers
  /\ finalizers' = {}
  /\ fpc' = "drive"
  /\ UNCHANGED <<up, shutdown, activeBlobs, logOpen, flowCount, totalBytes, events, convs,
                 disk, task, ws, counted>>

(* ConversationCompletion::drive returns for every finalizer taken.         *)
FinishDrive ==
  /\ fpc = "drive"
  /\ driven \subseteq signalled
  /\ fpc' = "log"
  /\ UNCHANGED <<up, inner, disk, task, ws, driven, counted>>

(* Mutant: flow_count is loaded and the log stays open.                     *)
FinishLeavesLogOpen ==
  /\ fpc = "log"
  /\ counted' = [counted EXCEPT !.flows = flowCount]
  /\ fpc' = "extend"
  /\ UNCHANGED <<up, inner, disk, task, ws, driven>>

(* Take and close the flow log, then load flow_count.                       *)
FinishTakeLog ==
  /\ fpc = "log"
  /\ logOpen' = FALSE
  /\ counted' = [counted EXCEPT !.flows = flowCount]
  /\ fpc' = "extend"
  /\ UNCHANGED <<up, shutdown, activeBlobs, flowCount, totalBytes, events, convs, finalizers,
                 disk, task, ws, driven>>

(* Write the stream-events and websocket-messages extensions.               *)
FinishExtensions ==
  /\ fpc = "extend"
  /\ exts' = [events |-> events, convs |-> convs]
  /\ fpc' = "validate"
  /\ UNCHANGED <<up, inner, dirAt, flowLog, blobs, staged, manifest, task, ws, driven, counted>>

(* Mutant: conversations are not reconciled with the 101 flows.             *)
WsFixtureLines == \A i \in 1..Len(flowLog) : LineLen[flowLog[i].id] + 1 <= MaxLineBytes

(* validate_websocket_fixture: every line, its newline included, is within  *)
(* max_line_bytes, the payloads of every conversation are in blobs/, and    *)
(* the 101 flows are exactly those with a conversation.                     *)
WsFixtureValid ==
  /\ \A i \in 1..Len(flowLog) : LineLen[flowLog[i].id] + 1 <= MaxLineBytes
  /\ \A w \in exts.convs : PayloadsPresent(w)
  /\ {f \in LogIds : f \in WsTasks} = exts.convs

FinishValidate ==
  /\ fpc = "validate"
  /\ fpc' = IF WsFixtureValid THEN "count" ELSE "err"
  /\ UNCHANGED <<up, inner, disk, task, ws, driven, counted>>

(* count_blobs counts every regular file of blobs/, staging files included. *)
BlobFiles == Cardinality(blobs) + Cardinality(staged)

FinishCount ==
  /\ fpc = "count"
  /\ counted' = [counted EXCEPT !.blobs = BlobFiles]
  /\ fpc' = "manifest"
  /\ UNCHANGED <<up, inner, disk, task, ws, driven>>

NewManifest == [written |-> TRUE, flows |-> counted.flows, blobs |-> counted.blobs]

FinishManifest ==
  /\ fpc = "manifest"
  /\ manifest' = NewManifest
  /\ fpc' = "rename"
  /\ UNCHANGED <<up, inner, dirAt, flowLog, blobs, staged, exts, task, ws, driven, counted>>

FinishRename ==
  /\ fpc = "rename"
  /\ dirAt' = "dest"
  /\ fpc' = "open"
  /\ UNCHANGED <<up, inner, flowLog, blobs, staged, exts, manifest, task, ws, driven, counted>>

(* Session::open of the directory as it stands.                             *)
ValidSession ==
  /\ manifest.written
  /\ Len(flowLog) <= MaxFlows
  /\ WsFixtureValid
  /\ \A i, j \in 1..Len(flowLog) : flowLog[i].id = flowLog[j].id => i = j
  /\ \A i \in 1..Len(flowLog) : RefsPresent(flowLog[i])
  /\ LogBytes <= MaxTotalBytes
  /\ manifest.flows = Len(flowLog)
  /\ exts.events \subseteq LogIds
  /\ manifest.blobs = BlobFiles

FinishOpen ==
  /\ fpc = "open"
  /\ fpc' = IF ValidSession THEN "ok" ELSE "err"
  /\ UNCHANGED <<up, inner, disk, task, ws, driven, counted>>

(* A `?` of finish on an I/O error, or on extensions over their encoded     *)
(* size: the flow log is closed before it is flushed, an extension or the   *)
(* manifest may be written before its sync fails, and the directory that    *)
(* was renamed stays where it is when it cannot be opened.                  *)
FinishFails ==
  /\ fpc' = "ioerr"
  /\ \/ fpc = "log" /\ logOpen' = FALSE /\ UNCHANGED <<exts, manifest>>
     \/ /\ fpc = "extend"
        /\ exts' \in {exts, [exts EXCEPT !.events = events], [events |-> events, convs |-> convs]}
        /\ UNCHANGED <<logOpen, manifest>>
     \/ /\ fpc = "manifest"
        /\ manifest' \in {manifest, NewManifest}
        /\ UNCHANGED <<logOpen, exts>>
     \/ fpc \in {"validate", "count", "rename", "open"} /\ UNCHANGED <<logOpen, exts, manifest>>
  /\ UNCHANGED <<up, shutdown, activeBlobs, flowCount, totalBytes, events, convs, finalizers,
                 dirAt, flowLog, blobs, staged, task, ws, driven, counted>>

Finisher ==
  \/ FinishStart \/ FinishCheckActive \/ FinishTakeFinalizers \/ FinishDrive
  \/ FinishTakeLog \/ FinishExtensions \/ FinishValidate \/ FinishCount
  \/ FinishManifest \/ FinishRename \/ FinishOpen \/ FinishFails

-----------------------------------------------------------------------------
Exchange(t) ==
  \/ BeginBlob(t) \/ CreateStaging(t) \/ Reserve(t)
  \/ \E d \in Digests \cup {Empty} : WriteBody(t, d)
  \/ AbortBody(t) \/ FinishSink(t) \/ Release(t) \/ UpstreamOutcome(t)
  \/ AppendCheck(t) \/ AppendFlow(t) \/ AppendEvents(t)

Conversation(w) ==
  \/ WsRegister(w) \/ WsAppendCheck(w) \/ WsAppendFlow(w)
  \/ WsBeginBlob(w) \/ WsCreateStaging(w) \/ WsReserve(w) \/ WsFinishSink(w) \/ WsRelease(w)
  \/ WsAppendConversation(w) \/ WsComplete(w)

(* The process dies; nothing but the directory survives.                    *)
Crash == up' = FALSE /\ UNCHANGED <<inner, disk, task, ws, fin>>

Next ==
  /\ up
  /\ \/ \E t \in Tasks : Exchange(t)
     \/ \E w \in WsTasks : Conversation(w) \/ WsAbort(w)
     \/ Finisher
     \/ Crash

Spec == Init /\ [][Next]_vars

-----------------------------------------------------------------------------
(* Properties of the store under every use of it.                           *)

TaskPcs == {"idle", "opening", "created", "writing", "staged", "aborting", "finished",
            "restaging", "restage", "upstream", "respond", "append", "logging", "events",
            "done", "failed"}
WsPcs   == {"idle", "registered", "logging", "relay", "opening", "created", "writing", "stored",
            "dropping", "ended", "appended", "done", "failed", "aborted"}
FinPcs  == {"idle", "active", "take", "drive", "log", "extend", "validate", "count",
            "manifest", "rename", "open", "ok", "err", "ioerr"}
Ref     == Digests \cup {NoRef, Empty, Fault}
Flow    == [id : Tasks \cup WsTasks, ws : BOOLEAN, req : Ref, resp : Ref]
Counts  == [flows : Nat, blobs : Nat]

(* Every variable of the session has its type; in particular active_blobs,  *)
(* an AtomicUsize, is never decremented below zero.                         *)
TypeOK ==
  /\ up \in BOOLEAN /\ shutdown \in BOOLEAN /\ logOpen \in BOOLEAN
  /\ activeBlobs \in Nat /\ flowCount \in Nat /\ totalBytes \in Nat
  /\ events \in SUBSET Tasks /\ convs \in SUBSET WsTasks /\ finalizers \in SUBSET WsTasks
  /\ dirAt \in {"staging", "dest"} /\ flowLog \in Seq(Flow)
  /\ blobs \in SUBSET Digests /\ staged \in SUBSET (Tasks \cup WsTasks)
  /\ exts \in [events : SUBSET Tasks, convs : SUBSET WsTasks]
  /\ manifest \in [written : BOOLEAN, flows : Nat, blobs : Nat]
  /\ pc \in [Tasks -> TaskPcs] /\ body \in [Tasks -> Ref]
  /\ req \in [Tasks -> Ref] /\ resp \in [Tasks -> Ref]
  /\ wpc \in [WsTasks -> WsPcs] /\ signalled \in SUBSET WsTasks
  /\ msgs \in [WsTasks -> Seq(Digests)]
  /\ fpc \in FinPcs /\ driven \in SUBSET WsTasks /\ counted \in Counts

(* "Flows are appended only after their bodies publish": whatever the       *)
(* interleaving of append_flow with other sinks' renames and aborts, every  *)
(* record of flows.jsonl, and every message of a transcript, refers only to *)
(* blobs that are in blobs/.                                                *)
NoDanglingRef ==
  /\ \A i \in 1..Len(flowLog) : RefsPresent(flowLog[i])
  /\ \A w \in WsTasks : PayloadsPresent(w)

(* active_blobs counts exactly the sinks between their fetch_add and their  *)
(* fetch_sub, those of bodies and those of relayed payloads, over finish,   *)
(* Drop and the drop-and-restage of redaction.                              *)
Counted   == {"writing", "staged", "aborting", "finished", "restaging"}
WsCounted == {"writing", "stored", "dropping"}
Open == {t \in Tasks : pc[t] \in Counted} \cup {w \in WsTasks : wpc[w] \in WsCounted}
ActiveAccounting == activeBlobs = Cardinality(Open)

(* The counters checked and advanced under the flow-log lock agree with the *)
(* log, so the session limits hold exactly of what is on disk.              *)
LimitsExact ==
  /\ flowCount = Len(flowLog) /\ flowCount <= MaxFlows
  /\ totalBytes = LogBytes /\ totalBytes <= MaxTotalBytes

(* The flow_count finish puts in the manifest is the number of records in   *)
(* flows.jsonl, though tasks that passed append_flow's admission check may  *)
(* still be waiting for the flow-log lock.                                  *)
ManifestFlowsExact == manifest.written => manifest.flows = Len(flowLog)

(* C003: a body the redaction policy changes or rejects is never published  *)
(* under its own digest, nor a relayed payload that its options change.     *)
Kept == {d \in Digests : Redact[d] = d} \cup {WsRedact[p] : p \in Payloads}
RawNeverPublished == blobs \subseteq Kept

(* A fixture that exists under its name has its manifest, crash or no crash. *)
ManifestBeforePublication == dirAt = "dest" => manifest.written

(* What the session keeps true of its own bookkeeping at every step, crash  *)
(* or no crash: counts, references and the manifest agree with the files.   *)
SessionSound ==
  /\ TypeOK
  /\ ActiveAccounting
  /\ NoDanglingRef
  /\ ManifestFlowsExact
  /\ ManifestBeforePublication

(* What finish returned as a Session stays valid for every later reader:    *)
(* no task that outlives finish can disturb it.                             *)
OkStaysValid == fpc = "ok" => ValidSession

(* G10: no fixture is published with a 101 flow whose conversation is not   *)
(* in the transcript, nor with a conversation that has no 101 flow.         *)
PublishedConversationsComplete ==
  dirAt = "dest" => exts.convs = LogIds \cap WsTasks

(* Once renamed to its name, the directory never changes again.             *)
PublishedImmutable == [][dirAt = "dest" => UNCHANGED disk]_vars

(* No staging file, which may hold an unredacted body, is ever inside a     *)
(* published fixture.                                                       *)
NoStagingPublished == dirAt = "dest" => staged = {}

(* `finish` "fails instead of racing": it never succeeds around a writer    *)
(* whose staging file is in the directory.                                  *)
FinishNeverRaces == fpc = "ok" => staged = {}

(* The abstract publication: flows are accepted until the log is closed,    *)
(* and what becomes visible under the fixture's name is exactly the set of  *)
(* accepted flows, at once and for good.                                    *)
Publication == INSTANCE FixturePublication WITH
  Flows <- Tasks \cup WsTasks,
  accepted <- LogIds,
  closed <- ~logOpen,
  visible <- (dirAt = "dest"),
  fixture <- IF dirAt = "dest" THEN LogIds ELSE {}

(* The session implements the abstract publication.                         *)
RefinesPublication == Publication!Spec
=============================================================================
