--------------------------- MODULE StreamTimeline ---------------------------
(***************************************************************************)
(* The timeline of one recorded flow: the events kept while the request    *)
(* and response bodies stream through a recorder, the reconciliation with  *)
(* the redacted body, the store's validation, and the timed replay of the  *)
(* response to a candidate run that observes it again.                     *)
(*                                                                         *)
(* Bytes are counted, never held; time is a discrete clock that restarts   *)
(* with each body.  What the endpoints send is chosen frame by frame.      *)
(***************************************************************************)
EXTENDS Naturals, Sequences, FiniteSets, SequencesExt

CONSTANTS
    Cap,            \* MAX_STREAM_EVENTS_PER_FLOW / 2
    MaxDelay,       \* MAX_STREAM_DELAY_NS
    MaxTotal,       \* MAX_STREAM_TOTAL_DELAY_NS
    MaxBlob,        \* max_blob_bytes
    Chunk,          \* the 64 KiB of a replay read
    FrameSizes,     \* bytes of a response's DATA frame
    RequestSizes,   \* bytes of a request's DATA frame
    RedactedSizes,  \* lengths redaction may give a non-empty body
    Modes,          \* timing modes, as scale factors [num, den]
    MaxFrames,      \* bound: frames of one body
    MaxClock        \* bound: time one body takes

Immediate == [num |-> 0, den |-> 1]
RecordedMode == [num |-> 1, den |-> 1]

ASSUME TimelineAssumption ==
    /\ {Cap, MaxDelay, MaxTotal, MaxBlob, MaxFrames, MaxClock} \subseteq Nat
    /\ Cap > 0 /\ Chunk \in Nat \ {0}
    /\ MaxDelay <= MaxTotal
    /\ FrameSizes \subseteq Nat /\ RequestSizes \subseteq Nat
    /\ RedactedSizes \subseteq Nat
    /\ \A m \in Modes : m.num \in Nat /\ m.den \in Nat \ {0}

VARIABLES
    via,        \* the recorder: record_request_with_session or record_request
    phase,
    clock,
    frames,     \* frames of the current body so far
    reqEvents, reqLen,
    respEvents, respLen,
    trailers,   \* the response had trailers
    outcome,    \* "response" or "error"
    stored,     \* the flow and its timeline as the fixture holds them
    mode,       \* the replay's timing mode
    file,       \* the blob file when it is served: length, digest still right
    play        \* the replayed response

recVars == <<via, clock, frames, reqEvents, reqLen, respEvents, respLen,
             trailers, outcome>>
vars == <<recVars, phase, stored, mode, file, play>>

-----------------------------------------------------------------------------
(* Events                                                                  *)

Data(t, o, n) == [kind |-> "data", at |-> t, off |-> o, len |-> n]
Trailers(t) == [kind |-> "trailers", at |-> t, off |-> 0, len |-> 0]
EndEvent(t) == [kind |-> "end", at |-> t, off |-> 0, len |-> 0]
ErrorEvent(t, o) == [kind |-> "error", at |-> t, off |-> o, len |-> 0]

IsData(e) == e.kind = "data"

\* The bytes of the first n events, at n.
Covered(events) ==
    LET sum[n \in 0 .. Len(events)] == IF n = 0 THEN 0 ELSE sum[n - 1] + events[n].len
    IN  sum

DataLength(events) == Covered(events)[Len(events)]

Refused(events) == [ok |-> FALSE, events |-> events]

\* Mutant: at the cap a contiguous frame is accepted but its bytes are not
\* added to the last event.
PushDropped(events, e) ==
    IF IsData(e) /\ (e.len = 0 \/ Len(events) >= Cap)
    THEN [ok |-> TRUE, events |-> events]
    ELSE IF Len(events) < Cap THEN [ok |-> TRUE, events |-> Append(events, e)]
    ELSE Refused(events)

\* push_stream_event_inner: empty DATA is skipped, at the cap contiguous DATA
\* grows the last event, anything else at the cap is refused.
Push(events, e) ==
    LET l == Last(events)
    IN  CASE IsData(e) /\ e.len = 0 -> [ok |-> TRUE, events |-> events]
          [] ~(IsData(e) /\ e.len = 0) /\ Len(events) < Cap ->
               [ok |-> TRUE, events |-> Append(events, e)]
          [] ~(IsData(e) /\ e.len = 0) /\ Len(events) >= Cap ->
               IF IsData(e) /\ IsData(l) /\ l.off + l.len = e.off
               THEN [ok |-> TRUE,
                     events |-> [events EXCEPT ![Len(events)].len = @ + e.len]]
               ELSE Refused(events)

\* push_candidate_event: as Push, and a late event is an error.
PushCandidate(events, e) ==
    IF ~(IsData(e) /\ e.len = 0) /\ e.at > MaxDelay
    THEN Refused(events) ELSE Push(events, e)

\* StreamEvents::validate for the events of one direction.
ValidEvents(events) ==
    \A i \in DOMAIN events :
        LET e == events[i]
            before == Covered(events)[i - 1]
        IN  /\ \A j \in 1 .. i - 1 : events[j].kind \notin {"end", "error"}
            /\ e.at <= MaxDelay
            /\ i > 1 => e.at >= events[i - 1].at
            /\ IsData(e) => e.off = before /\ e.len > 0
            /\ e.kind = "error" => e.off = before
            /\ e.kind \in {"data", "trailers"} =>
                   \A j \in 1 .. i - 1 : events[j].kind # "trailers"

\* StreamEvents::validate for one flow.
ValidTimeline(request, response) ==
    /\ Len(request) + Len(response) <= 2 * Cap
    /\ ValidEvents(request) /\ ValidEvents(response)

NoPlay == [schedule |-> <<>>, idx |-> 0, seg |-> 0, read |-> 0, t |-> 0,
           out |-> <<>>, trailerDelay |-> 0, endDelay |-> 0,
           trailers |-> FALSE, end |-> "none"]
NoFlow == [outcome |-> "none"]

Init ==
    /\ via \in {"session", "writer"}
    /\ phase = "request"
    /\ clock = 0 /\ frames = 0
    /\ reqEvents = <<>> /\ reqLen = 0
    /\ respEvents = <<>> /\ respLen = 0
    /\ trailers = FALSE
    /\ outcome = "none"
    /\ stored = NoFlow
    /\ mode = Immediate
    /\ file = [len |-> 0, good |-> TRUE]
    /\ play = NoPlay

Tick ==
    /\ phase \in {"request", "response"}
    /\ clock < MaxClock
    /\ clock' = clock + 1
    /\ UNCHANGED <<via, frames, reqEvents, reqLen, respEvents, respLen,
                   trailers, outcome, phase, stored, mode, file, play>>

-----------------------------------------------------------------------------
(* The request body, teed to the upstream                                  *)

\* TeeStream: the plain writer's recorder keeps no request events.
TeePlain(n) ==
    /\ via = "writer"
    /\ reqLen + n <= MaxBlob
    /\ reqLen' = reqLen + n
    /\ UNCHANGED <<reqEvents, phase, outcome>>

\* TeeSessionStream: the frame goes to the sink, then to the events; a refused
\* event fails the stream, and with it the request, after the bytes were kept.
TeeSession(n) ==
    LET p == Push(reqEvents, Data(clock, reqLen, n))
    IN  /\ via = "session"
        /\ reqLen + n <= MaxBlob
        /\ reqEvents' = p.events
        /\ reqLen' = IF p.ok THEN reqLen + n ELSE reqLen
        /\ phase' = IF p.ok THEN "request" ELSE "complete"
        /\ outcome' = IF p.ok THEN outcome ELSE "error"

RequestFrame(n) ==
    /\ phase = "request"
    /\ frames < MaxFrames
    /\ TeePlain(n) \/ TeeSession(n)
    /\ frames' = frames + 1
    /\ UNCHANGED <<via, clock, respEvents, respLen, trailers, stored, mode,
                   file, play>>

\* The blob limit refuses a frame: the request stream fails without an event.
RequestTooLong(n) ==
    /\ phase = "request"
    /\ frames < MaxFrames
    /\ reqLen + n > MaxBlob
    /\ phase' = "complete"
    /\ outcome' = "error"
    /\ UNCHANGED <<via, clock, frames, reqEvents, reqLen, respEvents, respLen,
                   trailers, stored, mode, file, play>>

\* The terminal event of a request body is dropped when the list is full.
RequestTerminal(e) ==
    reqEvents' = IF via = "session" THEN Push(reqEvents, e).events ELSE <<>>

ResponseBegins ==
    /\ phase' = "response"
    /\ outcome' = "response"
    /\ clock' = 0
    /\ frames' = 0

Fails ==
    /\ phase' = "complete"
    /\ outcome' = "error"
    /\ UNCHANGED <<clock, frames>>

\* The upstream answers or fails: after the whole request body, or before.
UpstreamResult(whole) ==
    /\ phase = "request"
    /\ IF whole THEN RequestTerminal(EndEvent(clock)) ELSE UNCHANGED reqEvents
    /\ ResponseBegins \/ Fails
    /\ UNCHANGED <<via, reqLen, respEvents, respLen, trailers, stored, mode,
                   file, play>>

\* The client's body fails: so does the request to the upstream.
RequestBroken ==
    /\ phase = "request"
    /\ RequestTerminal(ErrorEvent(clock, reqLen))
    /\ Fails
    /\ UNCHANGED <<via, reqLen, respEvents, respLen, trailers, stored, mode,
                   file, play>>

-----------------------------------------------------------------------------
(* The response body                                                       *)

\* What a pushed response event does to the exchange: a refused one fails it.
Recorded(e, next) ==
    LET p == Push(respEvents, e)
    IN  /\ respEvents' = p.events
        /\ phase' = IF p.ok THEN next ELSE "failed"

ResponseFrame(n) ==
    /\ phase = "response" /\ ~trailers
    /\ frames < MaxFrames
    /\ frames' = frames + 1
    /\ IF respLen + n > MaxBlob
       THEN phase' = "failed" /\ UNCHANGED <<respEvents, respLen>>
       ELSE /\ Recorded(Data(clock, respLen, n), "response")
            /\ respLen' = respLen + n
    /\ UNCHANGED <<via, clock, reqEvents, reqLen, trailers, outcome, stored,
                   mode, file, play>>

ResponseTrailers ==
    /\ phase = "response" /\ ~trailers
    /\ trailers' = TRUE
    /\ Recorded(Trailers(clock), "response")
    /\ UNCHANGED <<via, clock, frames, reqEvents, reqLen, respLen, outcome,
                   stored, mode, file, play>>

ResponseEnd ==
    /\ phase = "response"
    /\ Recorded(EndEvent(clock), "complete")
    /\ UNCHANGED <<via, clock, frames, reqEvents, reqLen, respLen, trailers,
                   outcome, stored, mode, file, play>>

ResponseError ==
    /\ phase = "response" /\ ~trailers
    /\ Recorded(ErrorEvent(clock, respLen), "complete")
    /\ UNCHANGED <<via, clock, frames, reqEvents, reqLen, respLen, trailers,
                   outcome, stored, mode, file, play>>

-----------------------------------------------------------------------------
(* The end of a recording                                                  *)

\* The events that are not DATA.
Others(events) ==
    LET kept[n \in 0 .. Len(events)] ==
            IF n = 0 THEN << >>
            ELSE IF IsData(events[n]) THEN kept[n - 1] ELSE Append(kept[n - 1], events[n])
    IN  kept[Len(events)]

\* reconcile_stream_event_body_length: when redaction changed the length, the
\* DATA events become one, where the first was, and errors move to the end.
Reconcile(events, expected) ==
    LET first == SelectInSeq(events, IsData)
        rest == Others(events)
        moved == [i \in DOMAIN rest |->
                     IF rest[i].kind = "error"
                     THEN [rest[i] EXCEPT !.off = expected] ELSE rest[i]]
        one == Data(IF first = 0 THEN 0 ELSE events[first].at, 0, expected)
    IN  IF DataLength(events) = expected THEN events
        ELSE IF expected = 0 THEN moved
        ELSE InsertAt(moved, IF first = 0 \/ first > Len(moved) + 1
                             THEN Len(moved) + 1 ELSE first, one)

\* Redaction of a staged body: an empty one stays empty, another may get any
\* length, none included.
BodyLengths(n) == IF n = 0 THEN {0} ELSE {n} \cup RedactedSizes

\* Request headers after redaction of the request body: record_request tests
\* the marker list it has just emptied, so only the session's recorder fixes
\* the length it announces.
RequestHeaderLength(kept) == IF via = "session" THEN kept ELSE reqLen

\* The tail of record_request_with_session and record_request: the flow is
\* appended, then its events; refused events fail an exchange whose flow is
\* already in the log.
AppendRecording(reqKept, kept) ==
    LET response == IF outcome = "response" THEN Reconcile(respEvents, kept)
                    ELSE respEvents
        accepted == ValidTimeline(reqEvents, response)
    IN  /\ phase = "complete"
        /\ reqKept \in BodyLengths(reqLen)
        /\ kept \in IF outcome = "response" THEN BodyLengths(respLen) ELSE {0}
        /\ stored' = [outcome |-> outcome, body |-> kept, trailers |-> trailers,
                      reqBody |-> reqKept,
                      reqHeader |-> RequestHeaderLength(reqKept),
                      timed |-> accepted,
                      events |-> IF accepted THEN response ELSE <<>>]
        /\ phase' = IF accepted THEN "stored" ELSE "untimed"
        /\ UNCHANGED <<recVars, mode, file, play>>

-----------------------------------------------------------------------------
(* Timed replay                                                            *)

\* ReplayFixture::load_inner: the lengths must agree, and a delay needs events.
Loads(m) ==
    /\ stored.timed => DataLength(stored.events) = stored.body
    /\ m # Immediate => stored.timed

\* Replay is another process: nothing of the recorder is left but the fixture.
\* The body file may be damaged after the fixture was opened.
Load(m) ==
    /\ phase \in {"stored", "untimed"}
    /\ stored.outcome = "response"
    /\ mode' = m
    /\ phase' = IF Loads(m) THEN "loaded" ELSE "unloadable"
    /\ file' \in {[len |-> stored.body, good |-> TRUE],
                  [len |-> stored.body, good |-> FALSE],
                  [len |-> stored.body + 1, good |-> FALSE]}
                 \cup IF stored.body > 0
                      THEN {[len |-> stored.body - 1, good |-> FALSE]} ELSE {}
    /\ via' = "session" /\ outcome' = "none" /\ trailers' = FALSE
    /\ clock' = 0 /\ frames' = 0 /\ reqLen' = 0 /\ respLen' = 0
    /\ reqEvents' = <<>> /\ respEvents' = <<>>
    /\ UNCHANGED <<stored, play>>

\* Mutant: the factor is applied without rounding up.
DelayFloor(m, gap) == (gap * m.num) \div m.den

\* StreamTimingMode::delay_ns, without its limits.
Delay(m, gap) == (gap * m.num + m.den - 1) \div m.den

\* The schedule of the response's events, or bad when a delay is refused.
ScheduleEvent(m, s, e) ==
    LET gap == IF e.at > s.prev THEN e.at - s.prev ELSE 0
        d == Delay(m, gap)
    IN  IF s.bad \/ gap > MaxDelay \/ s.total + d > MaxTotal
        THEN [s EXCEPT !.bad = TRUE]
        ELSE [s EXCEPT
                !.prev = e.at, !.total = @ + d,
                !.trailerDelay = IF e.kind = "trailers" THEN d ELSE @,
                !.endDelay = IF e.kind = "end" THEN d ELSE @,
                !.failing = @ \/ e.kind = "error",
                !.steps = IF e.kind \in {"data", "error"}
                          THEN Append(@, [kind |-> e.kind, delay |-> d, len |-> e.len])
                          ELSE @]

NoSchedule == [bad |-> FALSE, prev |-> 0, total |-> 0, trailerDelay |-> 0,
               endDelay |-> 0, failing |-> FALSE, steps |-> <<>>]

Schedules(m, events) ==
    LET s[n \in 0 .. Len(events)] ==
            IF n = 0 THEN NoSchedule ELSE ScheduleEvent(m, s[n - 1], events[n])
    IN  s

BuildSchedule(m, events) == Schedules(m, events)[Len(events)]

\* The answer to a request that matched this flow.  An empty body is answered
\* at once; a refused schedule is a 500 that has spent the flow.
Serve ==
    LET s == BuildSchedule(mode, stored.events)
    IN  /\ phase = "loaded"
        /\ IF stored.body = 0
           THEN play' = [NoPlay EXCEPT !.end = "clean"] /\ phase' = "served"
           ELSE IF s.bad
           THEN play' = [NoPlay EXCEPT !.end = "500"] /\ phase' = "served"
           ELSE /\ play' = [NoPlay EXCEPT
                              !.schedule = s.steps, !.idx = 1, !.end = "open",
                              !.trailerDelay = IF s.failing THEN 0 ELSE s.trailerDelay,
                              !.endDelay = IF s.failing THEN 0 ELSE s.endDelay]
                /\ phase' = "serving"
        /\ UNCHANGED <<recVars, stored, mode, file>>

Stop(p, end) == play' = [p EXCEPT !.end = end] /\ phase' = "served"

\* The end of the file: the length and the digest decide, then the trailers
\* are sent after both of their delays.
EndOfFile(p) ==
    IF p.read = stored.body /\ file.good
    THEN Stop([p EXCEPT !.t = @ + p.trailerDelay + p.endDelay,
                        !.trailers = stored.trailers], "clean")
    ELSE Stop(p, "integrity")

\* The bytes one read returns: within the event, the buffer and the file.
ChunkSize(p) ==
    LET want == IF p.seg > 0 /\ p.seg < Chunk THEN p.seg ELSE Chunk
    IN  IF want < file.len - p.read THEN want ELSE file.len - p.read

\* One read of the body file.
ReadChunk(p) ==
    LET n == ChunkSize(p)
    IN  IF n = 0 THEN EndOfFile(p)
        ELSE IF p.read + n > stored.body
        THEN Stop([p EXCEPT !.read = @ + n], "integrity")
        ELSE /\ play' = [p EXCEPT
                           !.read = @ + n,
                           !.seg = IF @ > n THEN @ - n ELSE 0,
                           !.out = Append(@, [t |-> p.t, off |-> p.read, len |-> n])]
             /\ UNCHANGED phase

\* Mutant: the next step is taken although its predecessor's bytes are not out.
PollBodyEager ==
    LET due == play.idx <= Len(play.schedule)
        step == play.schedule[play.idx]
        after == [play EXCEPT !.idx = @ + 1, !.seg = step.len]
    IN  /\ phase = "serving"
        /\ IF due /\ step.kind = "error" THEN Stop(after, "error")
           ELSE ReadChunk(IF due THEN after ELSE play)
        /\ UNCHANGED <<recVars, stored, mode, file>>

\* One poll of the replayed body: the next scheduled step when an event is
\* used up, then one read.
PollBody ==
    LET due == play.seg = 0 /\ play.idx <= Len(play.schedule)
        step == play.schedule[play.idx]
        after == [play EXCEPT !.idx = @ + 1, !.t = @ + step.delay,
                              !.seg = step.len]
    IN  /\ phase = "serving"
        /\ IF due /\ step.kind = "error" THEN Stop(after, "error")
           ELSE ReadChunk(IF due THEN after ELSE play)
        /\ UNCHANGED <<recVars, stored, mode, file>>

-----------------------------------------------------------------------------
(* What a candidate run observes of the replay                             *)

ObserveChunk(r, c) ==
    IF r.ok THEN PushCandidate(r.events, Data(c.t, c.off, c.len)) ELSE r

ObserveChunks(out) ==
    LET r[n \in 0 .. Len(out)] ==
            IF n = 0 THEN [ok |-> TRUE, events |-> <<>>] ELSE ObserveChunk(r[n - 1], out[n])
    IN  r

\* execute_candidate over a transport that keeps frames: the events of a
\* clean response.
Observe(p) ==
    LET data == ObserveChunks(p.out)[Len(p.out)]
        withTrailers == IF data.ok /\ p.trailers
                        THEN PushCandidate(data.events, Trailers(p.t)) ELSE data
    IN  IF withTrailers.ok THEN PushCandidate(withTrailers.events, EndEvent(p.t))
        ELSE withTrailers

\* same_stream_event
SameEvent(a, b) == a.kind = b.kind /\ a.off = b.off /\ a.len = b.len

\* compare_stream_events without a cadence tolerance.
SameShape(baseline, candidate) ==
    /\ Len(baseline) = Len(candidate)
    /\ \A i \in DOMAIN baseline : SameEvent(baseline[i], candidate[i])

-----------------------------------------------------------------------------

Next ==
    \/ Tick
    \/ \E n \in RequestSizes : RequestFrame(n) \/ RequestTooLong(n)
    \/ \E n \in FrameSizes : ResponseFrame(n)
    \/ \E whole \in BOOLEAN : UpstreamResult(whole)
    \/ RequestBroken
    \/ ResponseTrailers \/ ResponseEnd \/ ResponseError
    \/ \E r \in BodyLengths(reqLen), k \in 0 .. MaxBlob : AppendRecording(r, k)
    \/ \E m \in Modes : Load(m)
    \/ Serve
    \/ PollBody

\* The replay's body is polled by the server until it ends.
Spec == Init /\ [][Next]_vars

-----------------------------------------------------------------------------
(* Properties                                                              *)

EventSet ==
    [kind : {"data", "trailers", "end", "error"}, at : 0 .. MaxClock,
     off : 0 .. MaxBlob, len : 0 .. MaxBlob]

\* The recorder's and the replay's state stay within their bounds: no list
\* outgrows the per-direction cap and no body the blob limit.
TypeOK ==
    /\ phase \in {"request", "response", "complete", "failed", "stored",
                  "untimed", "loaded", "unloadable", "serving", "served"}
    /\ reqLen \in 0 .. MaxBlob /\ respLen \in 0 .. MaxBlob
    /\ Len(reqEvents) <= Cap /\ Range(reqEvents) \subseteq EventSet
    /\ Len(respEvents) <= Cap /\ Range(respEvents) \subseteq EventSet
    /\ play.end \in {"none", "open", "clean", "error", "integrity", "500"}
    /\ play.read <= MaxBlob + 1

\* While a response streams, its DATA events cover exactly the bytes kept,
\* also once the list is full and frames are merged into its last event.
EventsCoverBody ==
    phase \in {"response", "complete"} =>
        /\ DataLength(respEvents) = respLen
        /\ ValidEvents([i \in DOMAIN respEvents |-> [respEvents[i] EXCEPT !.at = 0]])

\* The store refuses a recorder's timeline only for an event later than the
\* delay limit: neither merging nor reconciliation with a redacted body ever
\* produces one that does not validate, nor one the replay refuses to load.
OnlyLateRefused ==
    /\ phase = "untimed" => \E e \in Range(reqEvents) \cup Range(respEvents) :
                               e.at > MaxDelay
    /\ phase = "unloadable" => ~stored.timed /\ mode # Immediate

\* A recorder's timeline accounts for every byte of the body it is stored with, at
\* its cap and after redaction, and is one that validates and loads.
TimelineRecorded ==
    /\ TypeOK
    /\ EventsCoverBody
    /\ OnlyLateRefused

\* An intact blob is never reported damaged and a damaged one never ends
\* cleanly: a clean end delivered every recorded byte.
IntegrityExact ==
    /\ play.end = "integrity" => ~file.good
    /\ play.end = "clean" /\ stored.body > 0 =>
           file.good /\ play.read = stored.body

\* A recorded mid-body failure replays as a failure after exactly the bytes
\* the client had been given.
FailureAtOffset ==
    \A i \in DOMAIN play.schedule :
        play.schedule[i].kind = "error" /\ phase = "served" /\ file.good =>
            play.end = "error" /\ play.read = stored.body

\* A replayed body ends as it was recorded, or says that it could not: damage of
\* its blob and a recorded failure are told apart and each in its place.
BodyReplayed ==
    /\ IntegrityExact
    /\ FailureAtOffset

\* With recorded timing every byte leaves at the time it was recorded, and
\* with a scaled one never earlier than scaled.
CadenceKept ==
    \A c \in Range(play.out) : \A e \in Range(stored.events) :
        IsData(e) /\ e.off <= c.off /\ c.off < e.off + e.len =>
            /\ c.t * mode.den >= e.at * mode.num
            /\ mode = RecordedMode => c.t = e.at

\* Recorded timing never exceeds the total delay a replay accepts.
RecordedTimingServes == mode = RecordedMode => play.end # "500"

\* A candidate run against the fixture's own replay finds no difference in the
\* stream events of a clean response whose events fit a read.
ReplayObservedAsRecorded ==
    LET fits == \A e \in Range(stored.events) : e.len <= Chunk
        o == Observe(play)
    IN  (/\ phase = "served" /\ play.end = "clean"
         /\ stored.body > 0 /\ stored.timed /\ fits /\ o.ok)
        => SameShape(stored.events, o.events)

\* The recorded cadence is what a client of the replay sees.
CadenceReproduced ==
    /\ CadenceKept
    /\ RecordedTimingServes
    /\ ReplayObservedAsRecorded

\* What the schema documentation says of every timing mode: a recorded
\* terminal error is reproduced.  It is not for a response that failed before
\* its first byte, which is answered as a complete empty body.
TerminalErrorReplayed ==
    (phase = "served" /\ file.good /\ play.end # "500")
    /\ (\E e \in Range(stored.events) : e.kind = "error") => play.end = "error"

\* The request length a fixture announces is the length it holds.  It is not
\* for a request body redacted by record_request.
RequestFramingMatches ==
    phase \in {"stored", "untimed"} /\ stored.reqBody # reqLen => stored.reqHeader = stored.reqBody
=============================================================================
