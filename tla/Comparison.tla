----------------------------- MODULE Comparison -----------------------------
(***************************************************************************)
(* The flow-diff authority: what a report finds between a baseline flow    *)
(* and a candidate's.  Bodies are sequences of lines, so that the derived  *)
(* Server-Sent-Events view can be computed; header fields are functions    *)
(* from a lower-case name to the values it has.                            *)
(***************************************************************************)
EXTENDS Naturals, Sequences, FiniteSets, SequencesExt

CONSTANTS
    MaxSseEvents    \* MAX_SSE_EVENTS

ASSUME SseAssumption == MaxSseEvents \in Nat

\* An option (a bound, a tolerance, an elapsed time) is a set of at most one value.
None == "none"
NoConversation == [messages |-> <<>>, terminal |-> None, subprotocol |-> None]
NoPayload == [json |-> FALSE, secret |-> None, rest |-> None]
VolatileHeaders == {"date"}
SseFields == {"data", "event", "id", "retry", "comments"}

FindingAt(kind, field, i) == [kind |-> kind, field |-> field, index |-> i]
Finding(kind, field) == FindingAt(kind, field, 0)

-----------------------------------------------------------------------------
(* Headers                                                                 *)

Values(h, name) == IF name \in DOMAIN h THEN h[name] ELSE <<>>

\* A volatile name is not compared when both sides have it.
Volatile(a, b, name) ==
    name \in VolatileHeaders /\ Values(a, name) # <<>> /\ Values(b, name) # <<>>

CompareHeaders(kind, a, b) ==
    {Finding(kind, n) : n \in {x \in DOMAIN a \cup DOMAIN b :
        ~Volatile(a, b, x) /\ Values(a, x) # Values(b, x)}}

-----------------------------------------------------------------------------
(* Server-Sent Events                                                      *)

\* A line is a field and its value; "blank" dispatches, "long" is over the
\* line limit, "other" a field that is ignored.
LineFields == {"blank", "long", "comment", "data", "event", "id", "retry", "other"}

NoEvent == [data |-> <<>>, event |-> None, id |-> None, retry |-> None,
            comments |-> <<>>]

SseStart == [events |-> <<>>, cur |-> NoEvent, error |-> FALSE, stop |-> FALSE]

Dispatch(s) ==
    IF s.cur = NoEvent THEN s
    ELSE IF Len(s.events) >= MaxSseEvents
    THEN [s EXCEPT !.error = TRUE, !.stop = TRUE]
    ELSE [s EXCEPT !.events = Append(@, s.cur), !.cur = NoEvent]

\* One line of parse_sse, comments kept.
SseLine(s, l) ==
    IF s.stop THEN s
    ELSE CASE l.field = "long" -> [s EXCEPT !.error = TRUE, !.stop = TRUE]
           [] l.field = "blank" -> Dispatch(s)
           [] l.field = "comment" -> [s EXCEPT !.cur.comments = Append(@, l.value)]
           [] l.field = "data" -> [s EXCEPT !.cur.data = Append(@, l.value)]
           [] l.field = "event" -> [s EXCEPT !.cur.event = l.value]
           [] l.field \in {"id", "retry"} /\ l.value = "bad" -> [s EXCEPT !.error = TRUE]
           [] l.field = "id" /\ l.value # "bad" -> [s EXCEPT !.cur.id = l.value]
           [] l.field = "retry" /\ l.value # "bad" -> [s EXCEPT !.cur.retry = l.value]
           [] l.field = "other" -> s

\* The parser before the first line and after each.
SseStates(lines) ==
    LET read[n \in 0 .. Len(lines)] ==
          IF n = 0 THEN SseStart ELSE SseLine(read[n - 1], lines[n])
    IN  read

\* parse_sse: an event left open at the end of a well-formed body counts.
ParseSse(lines) ==
    LET s == SseStates(lines)[Len(lines)]
    IN  IF s.error THEN s ELSE Dispatch(s)

\* compare_sse
SameSse(a, b, ignored) ==
    /\ Len(a) = Len(b)
    /\ \A i \in DOMAIN a : \A f \in SseFields \ ignored : a[i][f] = b[i][f]

SseEnabled(policy) == policy.sse \/ policy.ignored # {}
StreamEnabled(policy) == policy.stream \/ policy.tolerance # {}

SseFindings(b, c, policy) ==
    LET pb == ParseSse(b.body)
        pc == ParseSse(c.body)
        differs == \/ pb.error \/ pc.error
                   \/ ~SameSse(pb.events, pc.events, policy.ignored)
    IN  IF SseEnabled(policy) /\ b.media = "sse" /\ c.media = "sse" /\ differs
        THEN {Finding("sse", "response.sse")} ELSE {}

-----------------------------------------------------------------------------
(* Flows                                                                   *)

BodyFindings(b, c) ==
    IF b.body # c.body THEN {Finding("body", "response.body")} ELSE {}

\* A candidate flow without a completion time is not judged.
TimingFindings(c, bound) ==
    IF \E most \in bound : \E e \in c.elapsed : e > most
    THEN {Finding("timing", "timing.elapsed_ms")} ELSE {}

\* compare_flows_with_timing_and_policy
CompareFlows(b, c, policy, bound) ==
    LET outcome ==
          CASE b.kind = "response" /\ c.kind = "response" ->
                 (IF b.status # c.status THEN {Finding("status", "response.status")} ELSE {})
                 \cup CompareHeaders("header", b.headers, c.headers)
                 \cup CompareHeaders("trailer", b.trailers, c.trailers)
                 \cup BodyFindings(b, c)
                 \cup SseFindings(b, c, policy)
            [] b.kind = "error" /\ c.kind = "error" ->
                 IF b.category # c.category \/ b.phase # c.phase
                 THEN {Finding("outcome", "outcome.error")} ELSE {}
            [] b.kind # c.kind -> {Finding("outcome", "outcome.kind")}
    IN  outcome \cup TimingFindings(c, bound)

AbsDiff(x, y) == IF x > y THEN x - y ELSE y - x
Gap(events, i) ==
    LET before == IF i = 1 THEN 0 ELSE events[i - 1].at
    IN  IF events[i].at > before THEN events[i].at - before ELSE 0

\* compare_stream_events: the shape, then the gaps of the common prefix.
CompareStreams(a, b, tolerance) ==
    LET common == {i \in DOMAIN a : i \in DOMAIN b}
    IN  (IF Len(a) # Len(b) \/ \E i \in common : a[i].ev # b[i].ev
         THEN {Finding("stream", "stream.response.events")} ELSE {})
        \cup {FindingAt("timing", "cadence", i) : i \in {j \in common :
                \E t \in tolerance : AbsDiff(Gap(a, j), Gap(b, j)) > t}}

\* compare_fixture_websockets: redaction on either side is a wildcard.
Wild(a, b) == "whole" \in {a.red, b.red}

\* With JSON-pointer redactions on either side both payloads are redacted
\* before they are compared, which only JSON texts survive.
SamePayload(a, b) ==
    IF "pointers" \in {a.red, b.red} /\ NoPayload \notin {a.payload, b.payload}
    THEN a.payload.json /\ b.payload.json /\ a.payload.rest = b.payload.rest
    ELSE a.payload = b.payload

MessageFindings(i, a, b, tolerance) ==
    LET part(f, differs) == IF differs THEN {FindingAt("websocket", f, i)} ELSE {}
    IN  part("direction", a.dir # b.dir)
        \cup IF a.mkind # b.mkind THEN part("kind", TRUE)
             ELSE part("close_code", a.code # b.code)
                  \cup part("reason", a.reason # b.reason
                                      /\ {a.red, b.red} \cap {"reason", "whole"} = {})
                  \cup part("cadence", \E t \in tolerance : AbsDiff(a.at, b.at) > t)
                  \cup part("payload", ~Wild(a, b) /\ a.mkind # "close" /\ ~SamePayload(a, b))

CompareConversations(l, r, tolerance) ==
    (IF l.subprotocol # r.subprotocol
     THEN {Finding("websocket", "handshake.subprotocol")} ELSE {})
    \cup (IF l.terminal # r.terminal THEN {Finding("websocket", "terminal")} ELSE {})
    \cup (IF Len(l.messages) # Len(r.messages)
          THEN {Finding("websocket", "messages.count")} ELSE {})
    \cup UNION {MessageFindings(i, l.messages[i], r.messages[i], tolerance) :
                i \in DOMAIN l.messages \cap DOMAIN r.messages}

=============================================================================
