# eggreplay: TLA+ specifications

eggreplay records HTTP and WebSocket exchanges into *fixtures* (directories with
a flow log, content-addressed blobs, extensions and a manifest), and replays,
compares and converts them. This directory models the parts of it whose
correctness depends on interleaving, crashes, partial failure or the order of
calls. TLC checks every property on small instances; TLAPS proves the safety of the
recording session, its gateway, fixture replacement, the replay server, the WebSocket
relay, stream timelines, the regression runner, the CA and its leaf cache, and the proxy
with its tunnels for all values of their constants. `PROJECT.json` maps every definition
to the source lines it stands for.

Run one model with `tlc -config X.cfg MCModule`, the proofs of a component with
`tlapm XProofs.tla`.

## 1. Inventory

| part | state | operations | interacts with |
|---|---|---|---|
| Recording session (`eggreplay-store`, `RecordingSession`) | atomics `shutdown`, `active_blobs`, `flow_count`, `total_bytes`; mutexes around the flow log, stream events, conversations, finalizers; a staging directory | `begin_blob`, `write`, `finish` of a body, `append_flow`, `append_stream_events`, `append_websocket_conversation`, `register_websocket_finalizer`, `shutdown`, `finish` | cloned into every gateway task; `finish` publishes by rename and reopens |
| SessionWriter, `Session::open/copy_to/merge_to` | one writer, no sharing; a session keeps its path and the manifest it read | create, append, finish; validation on open; copy and merge file by file | record, append-new, migrate, HAR |
| Recording gateway (`eggreplay-http`, `recording.rs`) | open handlers, tunnel tasks, completers | one exchange, one WebSocket upgrade, shutdown sequence | drives the session; EggServe runs its handlers |
| Redaction (`eggreplay-core`, `security.rs`) | none | redact flow, JSON, form; reconcile headers | before blobs are finalized; leaves markers for the matcher |
| Matcher (`matching.rs`) | `MatcherSession`: consumed set, pinned index | `select_with_loader` | replay server |
| Scenario (`scenario.rs`) | state name, variable map | `advance`, rendered responses with faults | in front of the matcher, under the same lock |
| Replay server (`replay.rs`) | one mutex: candidates, matcher session, scenario; a registry of weak per-key miss locks | one handler per request; `append_miss` in append-new mode | matcher, scenario, recording session, upstream |
| Fixture replacement (`eggreplay-cli`, `main.rs`) | names in one directory: the fixture, `.name.backup-pid-nanos`, a staged new fixture | `replace_fixture_transactionally`, `recover_fixture_transactionally` | append-new, re-record, migrate; every `serve` recovers first |
| WebSocket relay (`recording.rs`) | two sockets with their codecs, `close_seen`, pings awaiting a pong, a transcript with limits | upgrade, one select loop that reads, records and forwards, deadline, cancellation, append | a tunnel task of the gateway; its transcript goes to the session |
| WebSocket script (`replay.rs`, `regression.rs`) | a position in the transcript, pending control replies | wait for the client's message, send the server's; the same against a candidate server | replay server, regression |
| Stream events and timing (`recording.rs`, `stream.rs`, `replay.rs`) | capped event lists per direction; the schedule, file position and clock of a replayed body | record a frame, trailers, end or error; reconcile after redaction; validate; schedule; poll | session extensions, replay server, test runs |
| Regression runner (`main.rs`, `regression.rs`, `report.rs`) | a `JoinSet` of candidate tasks, reports by flow order | `replay`, `test`, `diff`: sequential or at recorded offsets, comparison, exit code, JUnit count | store, candidate, WebSocket script |
| Interception proxy (`proxy.rs`, `tunnel.rs`, `mitm.rs`, `headers.rs`) | tunnel permits, event log, counters; per tunnel a byte budget, an idle sample, a poisoned flag | absolute-form request, CONNECT, dial, relay, TLS accept, inner request, abort, drain | policy, leaf issuer, recording session |
| Target policy (`policy.rs`, `policy_file.rs`) | none | normalize, match, specificity, evaluate, document and flags to a policy | proxy |
| CA directory and leaf cache (`ca.rs`, `leaf.rs`) | three files in a claimed directory; a locked map of leaves with an eviction queue; a serial counter | create, import, open, inspect, export, repair; issue | proxy, `ca` commands |
| HAR (`eggreplay-har`) | none | import with redaction and losses, export with losses | commands |
| Inbound/H2/gRPC, Python bindings | delegation; a server handle's lifecycle | start, close | all of the above |

What is hard: the session is shared by tasks that nobody joins before `finish`;
`finish` must refuse rather than race; the process may die at any file-system
call; handlers of the replay server decide under a lock and act after it; locks
are forgotten by a weak registry; commands share a directory without a lock;
redaction changes what is stored and must not change what matches; a relay's
two directions, its deadline and the codec's own replies meet in one loop; a
tunnel can be ended by five parties at once; a leaf is judged by a clock read
before a lock was waited for. The `hazards` of `PROJECT.json` list these at
their lines.

What makes each part correct: a published fixture is complete and final, holds
no raw secret and counts what it holds; every acknowledged exchange is in it;
a flow answers one request; 404 and 409 are truthful; a miss is recorded once;
a scenario moves only when it answers; a command that dies loses no fixture; a
conversation or a timeline is reproduced as it was recorded; an exit code judges
every flow; a tunnel carries only what the policy allows and is accounted for
once; a CA that opens is whole; a conversion names what it loses, but for the three
things section 6 lists.

## 2. Modules

| module | models | extends |
|---|---|---|
| `RecordingSession` | the session, its exchanges, conversations and `finish`, one action per atomic, mutex section or file-system call; crash anywhere | |
| `FixturePublication` | what the session promises: accept flows, close, publish once exactly what was accepted | |
| `RecordingGateway` | the session inside its owners' shutdown sequence | `RecordingSession` |
| `RecordingProofs` | theorems about the session and about that sequence | `RecordingGateway` |
| `FixtureReplace` | replacement, recovery and the commands around them | |
| `FixtureReplaceProofs` | theorems about them | `FixtureReplace` |
| `Matcher` | redaction, matching, consumption, as operators | |
| `MatcherSession` | a tape recorded and replayed | `Matcher` |
| `Scenario` | rules and `advance`, as operators | `Matcher` |
| `ReplayServer` | concurrent handlers, scenario, selection, append-new misses | `Scenario` |
| `ReplayServerProofs` | theorems about the server, its scenario and its miss locks | `ReplayServer` |
| `WebSocketRelay` | one upgrade: handshake, relay loop, transcript, the store's decision | |
| `WebSocketReplay` | the stored conversation against a live client or candidate server | `WebSocketRelay` |
| `WebSocketProofs` | theorems about the relay and its transcript | `WebSocketReplay` |
| `StreamTimeline` | one exchange frame by frame, its stored timeline and its timed replay | |
| `StreamTimelineProofs` | theorems about the recorded timeline and its replay | `StreamTimeline` |
| `Comparison` | what a report finds between two flows, and the SSE view, as operators | |
| `Regression` | the `replay`, `test` and `diff` commands | `Comparison` |
| `RegressionProofs` | theorems about the scheduler and the verdicts | `Regression` |
| `TargetPolicy` | hosts, rules and policies, as operators | |
| `Interception` | the proxy and its tunnels | `TargetPolicy` |
| `InterceptionProofs` | theorems about what tunnels are allowed and how they are accounted for | `Interception` |
| `CaDirectory` | the CA's files under several processes | |
| `LeafIssuer` | the leaf cache under several connections | `CaDirectory` |
| `LeafIssuerProofs` | theorems about the CA's files and the leaf cache | `LeafIssuer` |
| `HarInterchange` | conversions and their loss reports, as operators | |
| `FixtureTools` | the commands that write whole fixtures | `HarInterchange` |

`MC*` modules give the constants their values. Definitions whose comment begins
with *Mutant* are altered forms of the definition that follows; they are used
only to show that the properties can fail. Invariants are conjunctions of named
parts, each with the comment that states it; a run names the conjunction.

**RecordingSession.** `pc[t]` walks through `record_request_with_session`:
`BeginBlob` (shutdown check), `CreateStaging`, `Reserve` (the counter), `WriteBody`,
`FinishSink` (redact, rename), `Release` (the counter again), the same for the
response, `AppendCheck`/`AppendFlow`, `AppendEvents`. `AbortBody` is the drop of a
writer. `wpc[w]` walks through an accepted upgrade. `fpc` walks through `finish`,
`FinishStart` to `FinishOpen`; each of its file operations may fail (`FinishFails`, in
`fpc` then `ioerr`), with what it wrote left behind. A relay stores each payload through a
sink of its own (`WsBeginBlob` to `WsRelease`, counted like any other) before its
conversation is appended, and accepting the tunnel or building the answer's headers may
still fail between registration and the flow. The directory is `flowLog`, `blobs`, `staged`,
`exts`, `manifest` and `dirAt`, which the rename changes. Bodies are digests with
a length and a redacted form. *Abstracted:* encoding of lines, hashing, directory
syncs; an append is one step.

**RecordingGateway.** Adds the server's phase. EggServe is external: shutdown stops
admission, tunnel tasks may be aborted, `wait` returns when handlers are gone,
except for a request sink that the outbound client still holds.

**FixtureReplace.** Fixtures are the set of invocations whose recordings they hold.
Each process runs one command kind (`once`, `append`, `rerecord`, `sealed`,
`migrate`); every rename, existence check and removal is a
step, may fail, and the process may be killed between any two. Backups carry the
process id and time that name them and sort as text. `overlapped` remembers whether
two invocations ever ran at the same time; nothing in the code prevents it. Recovery
lists any subset of the names, because an unreadable entry is skipped, and a complete
backup may fail to open this once; `misread` remembers that one was missed so.

**Matcher.** A body is a kind and a sequence of items, one level deep. `Recorded(r)`
is what a recording keeps of request `r`: redacted values, the upstream's authority,
reconciled headers, and the markers; the length header after redaction is that of the
redacted body, for which there is no marker. `Matches` compares as the code does.
*Abstracted:* near misses, digests (equal bodies for equal digests), nested JSON
pointers, the semantic-JSON mode no command enables.

**Scenario and ReplayServer.** A server is started with one of `Setups` (its source
fixture, its requests, whether it appends). Rendering is reduced to the variables a
template names; a transition's fault decides whether the answer is 200, 502 or comes
after a delay (`DelayOver`), during which the client may go away. A handler is
`Receive` (refusals, the body), `Scene`, `Pick`, `Render`, and for a miss `LockFor`,
`Acquire`, `Recheck`, `Exchange`, `Push`: each is one section between two awaits or
lock acquisitions. `locks` is the registry of weak references, `arc[c]` the strong
reference a handler holds; an entry is dropped when no handler refers to its lock.
`Cancel` is a client that goes away while its handler awaits, `Damage` a stored body
that no longer verifies. The live request's authority must be the upstream's
(`docs/quickstart.md` asks clients to send that Host), and stored request lengths
equal the sent ones; without these an appended flow does not match its own request
again.

**WebSocketRelay and WebSocketReplay.** `Read(d, m)` is one turn of the select loop:
limits, redaction into the transcript, the ping and close bookkeeping; `Forward` is
the awaited send, which a receiver that no longer reads may hold (`Stall`);
`ReadNone` is an end or error of a socket, `Interrupt` the deadline or cancellation,
polled only between sends. `codec[d]` is what tungstenite keeps of a close. `raw` and
`recv` are histories of what was sent and delivered. `AppendConversation` applies
the store's validation, close codes nobody may send (`InvalidCodes`) included: the relay
forwards and keeps such a close, and the store refuses the conversation. Then either
script runs against a live peer that repeats its
side with fresh secrets. *Abstracted:* framing, UTF-8, payloads beyond equality and
whether they hold a secret.

**StreamTimeline.** `RequestFrame`, `ResponseFrame`, `ResponseTrailers`, `ResponseEnd`
and `ResponseError` record one event each, `Push` merges at the cap,
`AppendRecording` redacts, reconciles, validates and stores, `Load` and `Serve` build
the schedule, `PollBody` is one poll of the body stream against a file that may have
shrunk, grown or changed. Bytes are counted and the clock is discrete.

**Comparison and Regression.** A command opens its fixtures, then observes flows one
after another (`Sequential`) or spawns tasks that sleep to their offset, take a slot,
send and are joined (`Spawn`, `Send`, `Observe`, `Join`). The candidate's answer is
chosen when it is given. `Report` and `Diff` compute findings, exit code and the
JUnit count. Errors differ by category or phase; a flow without a completion time is not
held to the bound; a diff reads a body that cannot be read as an empty one (`Bodied`).
Reports' wording is left out.

**TargetPolicy and Interception.** A host is its labels and the marks its spelling
has; refusals are empty sets. A client is one connection, and `conn[c]` what its
handlers keep: state, target, bytes each way, idle sample, age, poisoned flag,
outcome. `Dispatch` is a whole handler up to its first await, `Dial`, `Issue`,
`AcceptTls`, `Relay`, `InnerCall`, `InnerDone`, `DriverEnds` the continuations;
`RelayEnds`, `RelayNoticed`, `RelayAborted` and `Cancel` are the parties that may end
a tunnel. An exchange whose stream events are refused leaves its flow (`logged`) though it
is answered 502 and not counted; a connection may be lost after its leaf was issued. A
relay task is neither aborted by the runtime nor panics, so that `JoinError` does not
occur. TLS, HTTP parsing and the peers are external.

**CaDirectory and LeafIssuer.** Every file operation of `create`, `import`, `open`,
`repair` is a step, may fail, and the process may crash between two; an operator may
change files by hand (`meddled`). A certificate is its identity, key, window and
flaw. An issuer holds a copy of an authority; a caller reads the clock, waits, and
then looks up or mints under the lock; a mint whose signing fails has used its serial.
Serials keep their wrap at a small width. Several `chmod`s of one `repair`, and the reads
of metadata and certificate when a CA is opened, are one step each.

**HarInterchange and FixtureTools.** Entries and flows keep what the loss reports
distinguish: the URL's parts (`SplitUrl` drops the scheme's own port and resolves dot
segments), the query in it and as pairs, headers, media types, bodies with and without a
selected field, trailers, route, start and time with their clamps. The loss report is a
sequence, of which a fixture keeps the first `LossLimit`. Commands are processes that read
and write directories file by file, `har export` included, which looks at its destination
last; `migrate --to` renames its copy into place where it finds nothing. A replacement is
one step here, its own steps are those of `FixtureReplace`.

## 3. Runs

| run | shows | bounds |
|---|---|---|
| `session` | safety of the session and that it implements `FixturePublication`, whenever `finish` is called | two exchanges, one upgrade with one relayed message, two bodies (one secret), limits that two flows reach; an I/O error of `finish` and a crash anywhere |
| `gateway` | in the owners' order no staging file is published, what is published reopens, `finish` refuses for a stated reason or an I/O error, acknowledged exchanges are in the fixture, shutdown ends | as above with rejected and blank bodies |
| `replace` | one command after another, each killed or failing anywhere: nothing committed is lost and the next serve that can read the backups heals; overlapping commands still leave one complete fixture | record-once, append-new, re-record and migrate, from an empty directory, one process id |
| `matcher_once` | a tape replayed in order gives each request its own flow, for secrets that leave the framing headers as stored and at most one per JSON array; exhausted is truthful | a tape of seven (six recorded), six calls of seven requests, with secrets of two lengths and arrays with two of them |
| `replay` | one flow per request, truthful 404 and 409; failed advances change nothing, variables bounded | six handlers; three flows with damage, or five transitions with faults |
| `replay_append` | one exchange and one recording per key, answers are recorded, no handler stranded | four handlers, three keys, two lock slots; one setup also has a scenario in front |
| `websocket` | the transcript is acceptable and true, control frames are answered once, the conversation replays and compares, relays end | two reads a side, four messages, one of them a close with a reserved code, payload 3, session 6 with 0 or 3 used, eof and shutdown |
| `stream` | events cover the body at the cap and after redaction, a replay fails where the body did, keeps the cadence and is observed as recorded | cap 3, delay 1, total 2, blob 4, read 2, four frames, clock 2, four timing modes |
| `regression` | exit codes judge every flow, a diff passes only pairs that are the same as far as they can be read and is symmetric, SSE events are local; offsets, bound and report order; a run ends | up to three flows, concurrency up to 3, offsets up to 3, clock 2 |
| `intercept` | the policy decides, origins are pinned, budgets, permits, events and counters settle once, a poisoned connection is silent, draining ends | two clients, one permit, one event, two bytes, duration 3, idle 2, policies of up to three rules (limit 2), two inner requests |
| `leaf` | a CA that opens is whole, none is overwritten; leaves inside the CA's window, a bounded cache, one issuance, unique serials | two processes on one directory, one crash; two callers, three hosts, cache 2, clock 3, 4-bit serials |
| `fixtures` | what is published opens and undisturbed copies are exact; imports are complete and redacted; losses are named, with three exceptions in the formula; only `--overwrite` removes | two commands at a time, five starting fixtures, flow limit 3, six stored losses of up to ten |

Two exchanges and one upgrade are enough for every pair of steps of two tasks and
`finish` to interleave, for one to hit a limit the other filled, and for a
conversation to be open while both others end. Six handlers on two equal flows
give two winners, a loser, an unrelated match and a refusal; in append-new mode two
handlers share a key while two others contend for lock slots. Two reads a side let
either side close first with the other's message in flight and let a ping cross a
close; a cap of 3 with four frames merges twice; two clients with one permit and one
event slot contend for both; two callers with two cache entries and three hosts
evict, expire and share; two commands are every pair that can replace a directory
under a copy. A further actor repeats these cases by symmetry of the code; no
argument beyond the proofs shows it for every size. Deadlock is not checked because
every model ends: requests are made once, a session finishes once.

Some instances leave out a case in which a property is known to fail (section 6), and
a pass says nothing of it: in `session` and `gateway` no record is exactly
`MaxLineBytes` long; in `replace` all invocations have one process id, as in a
container, so that backups sort by time (`Wrapped` of `MCFixtureReplace` is the other
case); in `websocket` pings have a payload; in `matcher_once` only
`Once` is used; in `replay_append` no stored body is damaged. `session`
does not check `NoStagingPublished`, which holds only in the owners' order.

Every property has a mutant in `PROJECT.json`: a plausible error in the code it is about,
under which TLC finds the property violated.

**Fairness.** `RecordingGateway`: handlers and tunnel tasks end (EggServe drains
them within a bounded budget and aborts the rest) and the owner awaits each
shutdown step. `ReplayServer`: the runtime polls every handler, the state lock is
held for no await, the tokio mutex is granted to waiters (`WF` suffices because
each holder leaves), and an exchange ends at the latest by the client's timeout.
`WebSocketReplay`: the upgrade and the store's append return, a send to a peer that
reads completes, and the duration timer fires; nothing is assumed of a peer that
does not read, so `EndsUnlessStalled` excepts it. `Regression`: the runtime runs the
tasks and the clock, and the candidate answers or the given bound ends the request;
without either a run need not end. `Interception`: timers fire, dial and handshake
have timeouts, upstream requests end by the client's timeout, a signalled driver
stops or is left after its grace period, and EggServe cancels lifecycles while it
drains; nothing is assumed of clients. The other specifications assume none: their
properties are safety.

## 4. Proofs

Each theorem holds for every value of the constants that satisfies the named
assumption of its module; TLC evaluates those assumptions in the runs. Theorems that
state what a run checks carry the same definition: the run shows it on an instance,
the theorem in general.

| module | theorem | states |
|---|---|---|
| `RecordingProofs` | `TypeCorrect`, `ActiveBlobsExact`, `NoDangling`, `ManifestCounts`, `ManifestLast` | types; the active count is the number of open bodies; every logged flow's blobs are there; the manifest counts the log and precedes publication |
| | `BooksAgree` | `SessionSound`, the conjunction of these |
| | `LimitsHold` | `LimitsExact`: `flow_count` and `total_bytes` are what a reader counts and sums, within the limits |
| | `RedactionComplete`, `ConversationsComplete` | no raw body is ever a blob; every published 101 flow has its conversation |
| | `ReturnedSessionStaysValid`, `PublishedForGood` | what `finish` returned stays valid; nothing changes after the rename |
| | `Refinement` | the session implements `FixturePublication` |
| | `StagingNeverPublished` | in the owners' order no staging file is in a published fixture |
| | `AcknowledgedArePublished` | every acknowledged exchange is in the fixture `finish` returns |
| | `RefusalsAreJustified` | `finish` refuses, I/O errors apart, only for a stated reason and only before the rename |
| `FixtureReplaceProofs` | `ReplaceTypeCorrect`, `FixtureSurvives` | types; once a fixture was published a complete one is always there, however commands overlap, fail or die |
| | `RecoveryByTime`, `RecoveryWithOnePid` | commands that do not overlap lose nothing committed, and the next serve finds it when it can read the backups |
| `ReplayServerProofs` | `StateStaysSound`, `FailedAdvanceMovesNothing` | the locked state keeps its types and limits; a scenario moves only when it answers |
| | `FlowsServedOnce`, `VerdictsHonest` | a flow answers one request; 404 and 409 are truthful |
| | `AnswersAreRecorded` | what append-new answers is in the fixture |
| | `MissesExclude`, `MissesRecordedOnce`, `UnredactedMissesRecordedOnce` | the miss locks exclude; a miss is recorded once |
| `LeafIssuerProofs` | `CaStaysSound`, `FilesNeverOverwritten` | a CA that opens is one identity and an acknowledged one opens; no file in a CA directory is replaced |
| | `CacheStaysSound`, `LeavesStaySound` | leaves inside the CA's window, a bounded cache that can evict, one issuance; and unique serials |
| `WebSocketProofs` | `RelaysFaithful` | `RelayFaithful`: the transcript a relay ends with is acceptable to the store and in each sender's order, the receivers were given the same data, one close, and one pong for a ping |
| `StreamTimelineProofs` | `TimelinesRecorded` | `TimelineRecorded`: capped event lists that cover exactly the bytes kept, at every frame, after redaction and in the store |
| | `BodiesReplayed` | `BodyReplayed`: a reply ends cleanly only after an intact body's last byte, fails where the body does, and is observed as it was recorded |
| | `CadencesReproduced` | `CadenceReproduced`: no byte leaves before its scaled time, and with recorded timing each leaves at the recorded one |
| `RegressionProofs` | `SchedulesSound` | `ScheduleSound`: at most the bound in flight, nothing before its offset, reports in fixture order |
| | `VerdictsSound` | `VerdictSound`: exit code 0 or 1 judges every flow by its one observation; a diff passes only pairs that are the same as far as they can be read, and is symmetric; an SSE stream's events do not depend on what follows them |
| `InterceptionProofs` | `TargetsStayAuthorised` | `TargetsAuthorised`: what is dialled, decrypted or forwarded is allowed by the most specific rule, and an inner request goes to its tunnel's origin |
| | `PoisonedTunnelsSilent` | `PoisonedSilent`: a poisoned connection records nothing more |
| | `TunnelsStayAccounted` | `TunnelsAccounted`: byte budget, permits, idle verdicts, events and counters |

**Session.** The invariant is layered. *Inv1*: types with the exact count (the count
must be proved with the types, since leaving a body decrements it and must stay
natural). *Inv2*: a body reference a task carries is already a blob, from which no
dangling reference and no raw blob follow; the same is said of a relay's payloads, so that a
published conversation has all of them. *Inv3*: the order of `finish` - log closed
before the count is taken, the count before the manifest, the manifest before the
rename - and the validity of what was returned, which needs *Inv2* because later
tasks may still run; a failed file operation of `finish` only ends it earlier. *Inv4*: a logged id belongs to a task past its append, so an id
is logged once, which the refinement needs for accept steps. *Inv5* says that the
counters are those of the log; the sum of its lengths is a recursive function, and that
it grows by the appended record's length is an induction over the log.

**Gateway.** A gateway step is a session step, or it sets the `shutdown` flag early,
which no session invariant depends on, so all of them carry over. *Closing* relates
the owner's progress to the tasks: after `wait` every task has ended, was never
admitted, or is an orphaned sink; such a sink makes `finish` refuse before the rename.
`RefusalsAreJustified` assumes `NoBoundaryLine`: a record of exactly `max_line_bytes`
is accepted by `append_flow` and refused by `finish` (section 6).

**Replacement.** *Holding* says what an invocation has in hand at each step, *Safe*
that a complete fixture is at the path or in a backup nobody deletes. For recovery,
*Sequential* adds where the committed content is while one invocation runs. Once recovery
missed a complete backup (`misread`) *CommittedKept* is what remains: the committed content
is in some backup, which no invocation removes, because what it removes is what it moved
aside itself. Restoring
the right backup needs that names sort by time (`NamesByTime`), which the code does
not ensure (section 6): it is a hypothesis of `RecoveryByTime`, and follows when all
invocations have one process id. That a snapshot of names has a last one is an
induction over the number of names.

**Replay server.** A step writes the entries of its own handler and one shared part
(*Own*, *Shared*). `ExtractAll` is a recursive function; that a transition adds at
most one variable for each extraction is an induction over the extractions. *ServeInv*: the
fixture's flows stay where they were loaded, every other candidate was recorded by a
request, a sealed server's session is the set of flows it served. *LockInv*: a handler
refers to a lock exactly while it waits for or holds it, the registry knows that lock,
and there is one live lock for a key. *MissInv*: past the second look under the lock
nobody has recorded the request. `MissesRecordedOnce` assumes `SelfMatching` - what is
stored of a request matches that request - which `UnredactedMissesRecordedOnce`
derives when nothing is redacted and requests are addressed to the upstream; section 6
lists redactions under which it is false.

**CA and leaves.** *CaInv*: at most one process fills a directory, the directory holds
what that process renamed into it so far, and what a reader saw is still there; a
directory is `Whole` from the last rename on. *LeafInv*: waiting callers ask for leaves
inside the CA's window, every cached leaf is queued, so eviction always makes room, and
the n-th serial drawn is the n-th of the sequence, be its leaf signed or not. `LeavesStaySound` takes the stretch of distinct serials
as a parameter (`Period`): the provers have no theory of `2^n`, and at 4 bits TLC
checks the wrap itself.

**Tunnels.** *ConnInv* says of each connection that forwarded bytes were counted
first and within the budget, that the idle watch never runs ahead of the time since the
last byte, and how answer, outcome and end follow the state. *PermitInv*, *EventInv*
and *StatInv* relate the free permits, the event log and the counters to the number of
connections that hold a permit, are over, and are counted. A step of one connection
moves it into or out of these three sets (`Moves`), so each action only has to show
which. The counters' lower bound is stated with the connections whose leaf is being
issued, which are counted before they are answered, and the recorded flows with those marked
`logged`, which are in the fixture but not in the statistics. *AuthInv* is about the policy:
the target of a connection in any state past the decision is one the policy allows
(`SecureInv`), an inner request has the origin of its tunnel, and so has every recorded
flow (`FlowInv`). That the loop of `evaluate` decides as the most specific rule with a
deny before an allow of the same rank is an induction over the rules, which `Evaluate`
runs through as a recursive function (`EvaluateExact`); that filtering proxy headers
twice is filtering once, one over the headers. `SetupShape` and `RequestShape` give the
inputs the shape of the code's types: actions of the enumeration, finite lists, at most
one host and port in a URL or Host field.

**WebSocket relay.** *TranscriptInv*: the transcript so far passes the validator, close
codes apart, and `close_seen` says which sides closed in it. *CodeInv*: a reserved code is
in the transcript exactly if a peer sent it, so that, the causes `storage-error` and
`capture-limit` apart, this is the only reason for which the store refuses a conversation.
*CloseInv*: a codec that is no longer active
accounts for every close its socket has read or written, so that a second one is neither
read nor sent. *OrderInv*: while the loop runs, each side's entries are all it sent, and
the only data a receiver lacks is the message whose send is awaited. *PongInv*: for a side
that only answers, the pings booked for a payload and the pongs said make up the pings
said; so an answering pong always finds its ping booked, is not sent on, and takes exactly
one booking away (`FirstRemoved`, `HitsRemove`). The entries of a side and the data of a
history are joined by a recursive function; that one more part is added at the end is an
induction over the parts. `RelayAssumption` gives messages the shape of tungstenite's
type: a close has a frame or none, only a frame has a reason, and a close's payload is
its frame. The scripts that replay the conversation change nothing of it.

**Stream timeline.** `Covered`, the schedule and the observer's chunks are recursive
functions, and the facts about them inductions over the list: offsets are prefix sums,
a merge at the cap keeps the sum and the order, reconciliation after redaction ends
the last event at the stored length. *RecInv* says of each direction that its list is
ordered, capped, by the clock, and covers what was kept so far; *FixtureInv*
that what is stored is a valid timeline of the stored body; *PlayInv* that the bytes
given are those of the schedule's events passed plus what was read of the current one,
that they are the file's up to there, and that its clock has reached each event's
scaled time. A scaled delay is rounded up, so that the cumulative bound is one over the
sum of the roundings; with recorded timing there is no rounding and the times are equal.

**Regression.** *RunInv* relates each task to what it left: not yet due, asleep, in
flight, answered or reported (*TaskOK*); tasks are joined in any order, but
what a command writes is indexed by flow, so the reports are in the fixture's order. The
spawn order is defined by rank, a permutation. A diff is symmetric finding by finding,
gaps and conversations included, because a flow read with an empty body is still a flow;
that it has no finding says of every pair what the same comparison says of a test. The SSE view is cut at each blank line, so that a
prefix ending in one has its own events; malformed lines stop it for good.
`FixtureAssumption` says that flows and answers have the types the store's reader gives
them.

**Only model-checked.** Liveness (`ShutdownTerminates`, `EveryRequestEnds`,
`EndsUnlessStalled`, `RunEnds`, `DrainEnds`), which needs fairness and ENABLED. The
safety properties of `MatcherSession` and `FixtureTools`, and `ConversationReproduced`.
`ConversationReproduced` holds only of instances that leave out the
cases of section 6, so that a theorem would have to assume them away; the others rest
on operators for which the provers have no facts (`FoldLeft`, `SelectSeq`, sorting) and
would have to be restated as recursive functions first, as was done for `Scenario`,
`LeafIssuer`, `TargetPolicy`, `Comparison`, `StreamTimeline` and `WebSocketReplay`.

## 5. Not modelled, and the plan

Not modelled:

- inbound composition (HTTP/1, HTTP/2, gRPC): it binds a listener and translates
  limits for EggServe; no state of its own changes after the start;
- Python bindings: wrappers that hold server handles, whose shutdown sequence is the
  one of `RecordingGateway`; the rest is the interpreter's object lifetime;
- a flow line that is torn by a failing write, symbolic links, directory syncs;
- `inspect`, the text of reports, URL redaction, near misses, nested JSON pointers;
- TLS, certificate encoding, HTTP parsing and the WebSocket codec are external.

To prove next: `ExhaustedMeansConsumed` (`MatcherSession`) and `OnlyOverwriteLoses`
(`FixtureTools`).

## 6. Disagreements met while modelling

The code does these and a document, a comment or an assertion says otherwise, or a
user would expect otherwise. No run is kept that ends in one of them: the properties of
section 3 except them in their statement, or their instance leaves them out as said
there. Where a definition is named, adding it to the configuration of the run that checks
its module makes TLC show the behaviour; the others were read off the code while it was
modelled.

**Store, gateway and redaction**

- `begin_blob` checks `shutdown` (`lib.rs:1142`), creates the staging file and only
  then counts itself (`:1154`); a `finish` in between sees no active body, counts the
  staging file and publishes it. `:740-742` says it "fails instead of racing"
  (`FinishNeverRaces` of `RecordingSession`).
- `append_flow` compares the record without its newline to `max_line_bytes`
  (`lib.rs:1196`), the readers compare it with the newline (`:1932`, `:2201`): an
  accepted record of exactly that size makes `finish` refuse the whole recording.
- A redacted request's `Content-Length` is replaced by the stored length and no marker
  is left (`security.rs:237-240`), so a live request whose secret has another length
  than the placeholder does not match (`matching.rs:333-340`);
  `docs/quickstart.md:165-167` says it still does (`SecretsAreWildcards` of
  `MatcherSession`; `TapeReplays` excepts it).
- `record_request` leaves the request's length header as it was sent after its body
  was redacted (`recording.rs:370-381`; `RequestFramingMatches` of `StreamTimeline`).
- `finish` writes the manifest in the staging directory before the rename
  (`eggreplay-store/src/lib.rs:1427`), so a crash in between leaves a staging
  directory that opens, while `:753-754` says such directories "are never valid
  sessions".
- An exchange whose stream events are refused fails after its flow was appended
  (`recording.rs:643-644`); `lib.rs:1255-1256` says a failed transaction leaves no
  reference.
- `finish` sets `shutdown` before it drives the finalizers (`lib.rs:1284`), so a
  conversation that is still running can no longer be appended and `finish` refuses;
  `:748-751` promises that it becomes durable.
- The completer signals on drop in any state, also before the conversation was
  appended (`recording.rs:1511`); its comment (`:1372-1374`) says after.
- Events later than the delay limit are refused after the flow was appended, and a
  direction with more DATA frames than the cap has them merged into its last event.

**Commands**

- Backup names sort as text (`main.rs:1344`), so the process id decides before the
  time; with two valid backups recovery may restore the older.
  `architecture/09-cli-surface.md:184-185` says it tries the newest first.
- A failure to remove the backup fails the command (`main.rs:1320`);
  `architecture/09-cli-surface.md:179-180` says it does not.
- `migrate --to` looks for its destination once (`main.rs:2571-2675`); one that appears
  meanwhile is replaced without `--overwrite`, unlike `docs/eggr-schema.md:27`
  (`ReplacesOnlyWhenTold` of `FixtureTools`, an action property).
- Recovery passes over a backup whose name or content it cannot read this once
  (`main.rs:1337-1350`), restores an older one or none, and reports no error.
- A diff reads a body that cannot be read as an empty one (`main.rs:1820`, `:1824`), so two
  damaged bodies compare as equal; `docs/cli.md:27` has exit code 3 for a corrupt fixture.
- `record` and `har import` look twice (`main.rs:817-831`, `2428-2452`): a fixture that
  appears between the looks is removed without `--overwrite`.
- `proxy record` removes the old fixture before it validates its configuration
  (`eggreplay-cli/src/intercept.rs:527-530`).
- `merge_to` takes the manifest read at open and every other file through the path.

**Matching, scenarios and replay**

- With two redacted elements of one JSON array the second pointer is removed after
  the indices moved (`matching.rs:582-584`, `:672-695`), so a request with other
  secrets does not match (`TapeReplays` excepts it).
- Once `RepeatLast` has pinned a flow, a request that only another flow matches is
  `Exhausted` (`matching.rs:505-508`) although that flow was never consumed (`:186`).
- `Skip` ends the search for a transition (`scenario.rs:413`); its comment (`:68`)
  says the transition is treated as nonmatching.
- The variable limit counts names that are merely extracted again
  (`scenario.rs:383`), so a transition that adds no variable may be refused.
- A stored request body that cannot be read becomes a mismatch (`replay.rs:680-682`,
  `:1539-1541`), which append-new sends upstream; `architecture/overview.md:341-342`
  says it must fail as an integrity error (`NoFallbackOnDamage` of `ReplayServer`,
  with an append setup whose bodies may be damaged).
- A response that failed before its first byte is answered as a complete empty body
  (`replay.rs:820-834`); `docs/eggr-schema.md:87-88` says a recorded terminal error is
  reproduced (`TerminalErrorReplayed` of `StreamTimeline`).

**WebSocket**

- A close with a code and an empty reason is recorded without a reason and expected
  literally at replay (`replay.rs:1308-1313`), so a client that closes as it did is a
  mismatch (`CleanCloseReplays` of `WebSocketReplay`).
- A client's ping with an empty payload has no stored blob, so the script does not
  expect the codec's answer to it (`replay.rs:1205-1210`) and sends the recorded pong as
  well; after the client's close that send fails and the replay stops
  (`ConversationReproduced`, with an empty ping and pong among the messages).
- The causes `storage-error` and `capture-limit` (`recording.rs:1696-1721`) are not in
  the store's vocabulary (`websocket.rs:324-338`): such a conversation is refused.
- A close code nobody may send (`websocket.rs:374`) is relayed and kept, and then the store
  refuses the conversation and with it the session's `finish`: one peer decides.
- The deadline and cancellation are not polled while a send is awaited
  (`recording.rs:1740`, `:1761`): a peer that stops reading holds the relay.

**Regression**

- A diff of fixtures with different flow counts fails, while the JUnit suite counts no
  failure (`main.rs:1919-1941`, `2708-2755`;
  `architecture/06-regression-and-reporting.md:441-443`; `OutputsAgree`).
- Redacted response headers and bodies always differ from a live candidate's;
  identical malformed SSE bodies are a finding.

**Interception**

- A tunnel reported as shut down may go on relaying: aborting `relay_tunnel` drops the
  handle of the copy task it spawned (`tunnel.rs:394`) and does not stop it, while
  `proxy.rs:893-895` says the tunnel ends (`ShutdownEndsRelay`).
- When the byte budget fires together with the deadline or the idle watch, the select
  may take the latter, which the assertion at `tunnel.rs:464` excludes
  (`LimitClassified`).
- An allowed host with the default `deny` gives a tunnel rule under a deny default and
  is refused; `policy_file.rs:557-559` says the result is always coherent
  (`FlagsAlwaysCoherent`).
- An absolute-form request to an IPv6 literal is always 400 (`proxy.rs:520-526`).
- The leaf cache evicts by the queue's first name, which may since have been minted
  again, so a newer leaf can go before an older (`leaf.rs:21-22`; `FifoEviction`).

**HAR**

- `entry.time` is clamped to an hour (`eggreplay-har/src/lib.rs:583`), while
  `docs/har-interchange.md:37` says the total is preserved (`TotalTimeKept` of
  `FixtureTools`); a start before the epoch becomes the epoch (`:568`).
- The authority and path of an imported URL lose the scheme's own port and dot segments
  (`:660-701`), while `docs/har-interchange.md:24` says they are preserved (`UrlKept` of
  `FixtureTools`).
- A fixture keeps the first 1024 losses of its import (`:1391`).
- `postData.params` are redacted only when the media type says form; headers are
  reconciled also when only the other message's body was redacted; a fixture with
  WebSocket flows exports to a document that cannot be imported again.
