--------------------------- MODULE WebSocketRelay ---------------------------
(***************************************************************************)
(* One accepted WebSocket upgrade of the recording gateway: the handshake, *)
(* the relay loop of the tunnel task, the transcript it keeps and the      *)
(* store's decision about that transcript.                                 *)
(*                                                                         *)
(* The endpoints are arbitrary: a message a side sends is chosen when the  *)
(* relay reads it.  The codec (tungstenite) is external: it answers a ping *)
(* with a pong and a close with a close by itself, yields nothing after a  *)
(* close and refuses to send after one.                                    *)
(***************************************************************************)
EXTENDS Naturals, Sequences, FiniteSets, SequencesExt

CONSTANTS
    Handshakes,     \* the upgrade requests, with the upstream's answer
    Options,        \* redaction options of the recorder
    Messages,       \* what an endpoint may send
    InvalidCodes,   \* close codes that valid_close_code refuses
    MaxReads,       \* bound: messages read from one endpoint
    MaxMessages,    \* max_messages_per_conversation
    MaxPayload,     \* max_total_payload_bytes, counted in payloads
    MaxSession,     \* max_messages_per_session
    Priors,         \* messages the session may already hold
    Causes          \* the interruptions that happen, of InterruptCauses

Dirs == {"c2s", "s2c"}
Other(d) == IF d = "c2s" THEN "s2c" ELSE "c2s"
None == "none"
Empty == ""
Redacted == "[REDACTED]"

\* A message has a kind, a payload, and for a close a code and a reason: a
\* close without a frame has code None, a frame's reason may be Empty.
Kinds == {"text", "binary", "ping", "pong", "close"}

\* Payloads that are JSON with a secret member, and what redaction leaves.
SecretJson == {"json1", "json2"}
Mask(p) == IF p \in SecretJson THEN "json*" ELSE p

\* websocket_error_cause, the deadline and the cancellation.
InterruptCauses == {"reset", "eof", "protocol-error", "duration-limit", "shutdown"}

ASSUME RelayAssumption ==
    /\ MaxReads \in Nat /\ MaxMessages \in Nat /\ MaxPayload \in Nat
    /\ MaxSession \in Nat /\ Priors \subseteq Nat
    /\ Causes \subseteq InterruptCauses
    /\ \A m \in Messages :
         /\ m = [kind |-> m.kind, payload |-> m.payload, code |-> m.code, reason |-> m.reason]
         /\ m.kind \in Kinds
         /\ m.kind = "close" => m.payload = Empty
         /\ m.reason # Empty => m.kind = "close" /\ m.code # None

VARIABLES
    h, opts,
    phase,      \* "upgrade", "refused", "relay", "ended", "stored", "lost"
    status,     \* the answer to the upgrade
    codec,      \* per socket: "active", "byPeer", "byUs", "done"
    open,       \* downstream_open, upstream_open
    closeSeen,  \* close_seen
    pingPongs,  \* client_ping_pongs, server_ping_pongs: pings read per direction
    total,      \* total_payload_bytes
    messages,   \* the transcript
    pending,    \* the message whose send is awaited
    terminal,
    raw,        \* history: what each endpoint sent, as read
    recv,       \* history: what each direction's receiver was given
    stalled     \* receivers that no longer read

relayVars == <<h, opts, phase, status, codec, open, closeSeen, pingPongs,
               total, messages, pending, terminal, raw, recv, stalled>>

NoMessage == [kind |-> None]

RelayInit ==
    /\ h \in Handshakes
    /\ opts \in Options
    /\ phase = "upgrade"
    /\ status = 0
    /\ codec = [d \in Dirs |-> "active"]
    /\ open = [d \in Dirs |-> TRUE]
    /\ closeSeen = [d \in Dirs |-> FALSE]
    /\ pingPongs = [d \in Dirs |-> <<>>]
    /\ total = 0
    /\ messages = <<>>
    /\ pending = NoMessage
    /\ terminal = [kind |-> None]
    /\ raw = [d \in Dirs |-> <<>>]
    /\ recv = [d \in Dirs |-> <<>>]
    /\ stalled = [d \in Dirs |-> FALSE]

-----------------------------------------------------------------------------
(* The handshake                                                           *)

\* validate_websocket_handshake_headers: bounds, and no negotiated extension.
ValidHandshakeHeaders(size, extensions, response) ==
    size = "within" /\ (response => ~extensions)

\* The client's half of the upgrade request.
InboundStatus(r) ==
    IF \/ ~r.http11get
       \/ ~ValidHandshakeHeaders(r.size, FALSE, FALSE)
       \/ r.keys # 1 \/ ~r.keyValid
       \/ r.versions # <<"13">>
       \/ ~r.tokens
       \/ r.body
    THEN 400 ELSE 101

\* The upstream's answer to the gateway's own handshake.
UpstreamStatus(r) ==
    CASE r.up = "timeout" -> 504
      [] r.up # "timeout" /\ r.up # "switching" -> 502
      [] r.up = "switching" ->
           IF \/ ~ValidHandshakeHeaders(r.upSize, r.upExtensions, TRUE)
              \/ ~r.upTokens
              \/ ~r.upAccept
              \/ r.selected # None /\ r.selected \notin r.offered
           THEN 502 ELSE 101

\* gateway_websocket_request up to the accepted tunnel: the inbound request is
\* judged before anything is sent upstream.
UpgradeStatus(r) ==
    IF InboundStatus(r) # 101 THEN InboundStatus(r) ELSE UpstreamStatus(r)

Upgrade ==
    /\ phase = "upgrade"
    /\ status' = UpgradeStatus(h)
    /\ phase' = IF UpgradeStatus(h) = 101 THEN "relay" ELSE "refused"
    /\ UNCHANGED <<h, opts, codec, open, closeSeen, pingPongs, total,
                   messages, pending, terminal, raw, recv, stalled>>

-----------------------------------------------------------------------------
(* The relay loop                                                          *)

Running == phase = "relay" /\ pending = NoMessage

End(t) ==
    /\ terminal' = t
    /\ phase' = "ended"

Abnormal(cause) == [kind |-> "abnormal", cause |-> cause]
CleanClose(code, reason) == [kind |-> "clean", code |-> code, reason |-> reason]

\* What the recorder keeps of a message: redacted payload and reason, with the
\* marker.  An empty close reason is kept as no reason.
Kept(m) ==
    LET whole == \/ m.kind = "text" /\ opts.text
                 \/ m.kind = "binary" /\ opts.binary
        json  == m.kind = "text" /\ ~opts.text /\ opts.json /\ m.payload \in SecretJson
        named == m.kind = "close" /\ m.reason # Empty
    IN  [kind    |-> m.kind,
         payload |-> IF whole THEN Redacted
                     ELSE IF json THEN Mask(m.payload) ELSE m.payload,
         code    |-> m.code,
         reason  |-> IF ~named THEN None
                     ELSE IF opts.text THEN Redacted ELSE m.reason,
         red     |-> IF whole THEN "whole"
                     ELSE IF json THEN "json"
                     ELSE IF named /\ opts.text THEN "reason" ELSE None]

\* Mutant: the pings of the pong's own sender are consulted.
SuppressedOwn(d, m) == m.kind = "pong" /\ Contains(pingPongs[d], m.payload)

\* A pong that answers a relayed ping: the codec of the pinging side answered
\* already, so it is recorded and not forwarded.
Suppressed(d, m) == m.kind = "pong" /\ Contains(pingPongs[Other(d)], m.payload)

PingBook(d, m) ==
    CASE m.kind = "ping" -> [pingPongs EXCEPT ![d] = Append(@, m.payload)]
      [] Suppressed(d, m) ->
            [pingPongs EXCEPT ![Other(d)] = RemoveFirst(@, m.payload)]
      [] OTHER -> pingPongs

\* The codec's own reaction to a message it has read (external): a pong for a
\* ping, the same close for the first close.
AutoReply(d, m) ==
    IF codec[d] = "active" /\ m.kind = "ping" THEN <<[m EXCEPT !.kind = "pong"]>>
    ELSE IF codec[d] = "active" /\ m.kind = "close" THEN <<m>> ELSE <<>>

CodecAfterRead(d, m) ==
    IF m.kind # "close" THEN codec
    ELSE [codec EXCEPT ![d] = IF @ = "active" THEN "byPeer" ELSE "done"]

BothClosed(seen) == seen["c2s"] /\ seen["s2c"]

\* The first close of the conversation; the codec answers the second itself.
FirstClose(d, m) == m.kind = "close" /\ ~closeSeen[d] /\ ~closeSeen[Other(d)]

CaptureLimit(bytes) == Len(messages) >= MaxMessages \/ bytes > MaxPayload

\* downstream.next() or upstream.next() yields a message: it is recorded, and
\* unless it is suppressed or the second close its send is awaited next.
Read(d, m) ==
    LET kept  == Kept(m)
        size  == IF kept.payload = Empty THEN 0 ELSE 1
        entry == [seq |-> Len(messages), dir |-> d, msg |-> kept]
    IN
    /\ Running /\ open[d]
    /\ codec[d] \in {"active", "byUs"}
    /\ Len(raw[d]) < MaxReads
    /\ raw' = [raw EXCEPT ![d] = Append(@, m)]
    /\ codec' = CodecAfterRead(d, m)
    /\ recv' = [recv EXCEPT ![Other(d)] = @ \o AutoReply(d, m)]
    /\ pingPongs' = PingBook(d, m)
    /\ \/ /\ size = 1               \* begin_blob, write or finish fails
          /\ End(Abnormal("storage-error"))
          /\ UNCHANGED <<total, messages, closeSeen, pending>>
       \/ /\ total' = total + size
          /\ \/ /\ CaptureLimit(total')
                /\ End(Abnormal("capture-limit"))
                /\ UNCHANGED <<messages, closeSeen, pending>>
             \/ /\ ~CaptureLimit(total')
                /\ messages' = Append(messages, entry)
                /\ closeSeen' = [closeSeen EXCEPT ![d] = @ \/ m.kind = "close"]
                /\ pending' = IF \/ Suppressed(d, m)
                                 \/ m.kind = "close" /\ ~FirstClose(d, m)
                              THEN NoMessage ELSE [dir |-> d, msg |-> m, kind |-> m.kind]
                /\ IF m.kind = "close" /\ BothClosed(closeSeen')
                   THEN End(CleanClose(kept.code, kept.reason))
                   ELSE UNCHANGED <<terminal, phase>>
    /\ UNCHANGED <<h, opts, status, open, stalled>>

\* What is forwarded is the message itself, not what was kept of it.
Outgoing(p) == p.msg

\* The awaited send: it needs a receiver that reads, and fails when that
\* socket has seen a close or breaks.  Neither the deadline nor a
\* cancellation is polled meanwhile.
Forward ==
    LET d == pending.dir
        m == Outgoing(pending)
    IN
    /\ phase = "relay" /\ pending # NoMessage
    /\ \/ /\ codec[Other(d)] = "active" /\ ~stalled[d]
          /\ recv' = [recv EXCEPT ![d] = Append(@, m)]
          /\ codec' = [codec EXCEPT ![Other(d)] =
                         IF m.kind = "close" THEN "byUs" ELSE @]
          /\ UNCHANGED <<terminal, phase>>
       \/ /\ codec[Other(d)] # "active" \/ ~stalled[d]
          /\ End(Abnormal("write-error"))
          /\ UNCHANGED <<recv, codec>>
    /\ pending' = NoMessage
    /\ UNCHANGED <<h, opts, status, open, closeSeen, pingPongs, total,
                   messages, raw, stalled>>

\* next() yields None.
ReadNone(d) ==
    /\ Running /\ open[d]
    /\ open' = [open EXCEPT ![d] = FALSE]
    /\ IF BothClosed(closeSeen) THEN End(CleanClose(None, None))
       ELSE IF \/ \A e \in Dirs : ~closeSeen[e]
               \/ \A e \in Dirs : ~open'[e]
       THEN End(Abnormal("eof"))
       ELSE UNCHANGED <<terminal, phase>>
    /\ UNCHANGED <<h, opts, status, codec, closeSeen, pingPongs, total,
                   messages, pending, raw, recv, stalled>>

\* Mutant: the deadline starts with the first message.
InterruptLate ==
    /\ Running /\ messages # <<>>
    /\ \E cause \in Causes : End(Abnormal(cause))
    /\ UNCHANGED <<h, opts, status, codec, open, closeSeen, pingPongs,
                   total, messages, pending, raw, recv, stalled>>

\* next() yields an error (websocket_error_cause), the duration ends, or the
\* server cancels its tunnels.
Interrupt ==
    /\ Running
    /\ \E cause \in Causes : End(Abnormal(cause))
    /\ UNCHANGED <<h, opts, status, codec, open, closeSeen, pingPongs,
                   total, messages, pending, raw, recv, stalled>>

\* The receiver of the awaited send no longer reads its socket.
Stall(d) ==
    /\ phase = "relay" /\ pending # NoMessage /\ pending.dir = d /\ ~stalled[d]
    /\ stalled' = [stalled EXCEPT ![d] = TRUE]
    /\ UNCHANGED <<h, opts, phase, status, codec, open, closeSeen,
                   pingPongs, total, messages, pending, terminal, raw, recv>>

-----------------------------------------------------------------------------
(* The store's judgement                                                   *)

KnownCauses == {"eof", "reset", "shutdown", "duration-limit", "protocol-error",
                "read-error", "write-error", "timeout", "cancelled",
                "upstream-error", "downstream-error", "other"}

CloseAt(ms, i) == ms[i].msg.kind = "close"
Closers(ms) == {ms[i].dir : i \in {j \in DOMAIN ms : CloseAt(ms, j)}}

\* WebSocketTranscript::validate, for one conversation: the order, the metadata and
\* the redactions of its messages, the codes of its closes, and its terminal.
ValidMessages(ms) ==
    /\ Len(ms) <= MaxMessages
    /\ \A i \in DOMAIN ms :
         LET before == SubSeq(ms, 1, i - 1) IN
         /\ ms[i].seq = i - 1
         /\ Closers(before) # Dirs
         /\ ms[i].dir \notin Closers(before)
         /\ CloseAt(ms, i) => ms[i].msg.payload = Empty
         /\ ms[i].msg.reason # None => CloseAt(ms, i) /\ ms[i].msg.code # None
         /\ ms[i].msg.red = "json" => ms[i].msg.kind = "text"
         /\ ms[i].msg.red = "reason" => CloseAt(ms, i)

ValidTerminal(ms, t) ==
    IF t.kind = "abnormal" THEN t.cause \in KnownCauses
    ELSE /\ Closers(ms) = Dirs
         /\ ms # <<>>
         /\ CloseAt(ms, Len(ms))
         /\ Last(ms).msg.code = t.code
         /\ Last(ms).msg.reason = t.reason

\* The relay keeps the code an endpoint sent, whatever it is.
ValidCodes(ms) == \A i \in DOMAIN ms : ms[i].msg.code \notin InvalidCodes

ValidTranscript(ms, t) == ValidMessages(ms) /\ ValidCodes(ms) /\ ValidTerminal(ms, t)

\* append_websocket_conversation; a refusal is ignored by the task, and
\* finish then refuses the session.  A session that is shutting down refuses.
AppendConversation ==
    /\ phase = "ended"
    /\ \/ /\ ValidTranscript(messages, terminal)
          /\ \E prior \in Priors : prior + Len(messages) <= MaxSession
          /\ phase' = "stored"
       \/ phase' = "lost"
    /\ UNCHANGED <<h, opts, status, codec, open, closeSeen, pingPongs,
                   total, messages, pending, terminal, raw, recv, stalled>>

RelayNext ==
    \/ Upgrade
    \/ \E d \in Dirs, m \in Messages : Read(d, m)
    \/ Forward
    \/ \E d \in Dirs : ReadNone(d)
    \/ Interrupt
    \/ \E d \in Dirs : Stall(d)
    \/ AppendConversation
=============================================================================
