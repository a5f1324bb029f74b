-------------------------- MODULE WebSocketReplay --------------------------
(***************************************************************************)
(* A stored conversation used again: the replay server's script against a  *)
(* client (replay_websocket_script), and the regression runner's script    *)
(* against a candidate server (compare_websocket_candidate).  The live     *)
(* peer repeats what its side sent when the conversation was recorded,     *)
(* with fresh secrets where the recorder redacted them.                    *)
(***************************************************************************)
EXTENDS WebSocketRelay

VARIABLES
    role,           \* None, "replay" or "compare"
    pos,            \* the next transcript entry
    live,           \* what the live peer has still to send
    sock,           \* the codec of the one socket
    queued,         \* control replies the codec has not written yet
    given,          \* history: what the live peer was given
    closePending,   \* close_reply_pending
    autoPongs,      \* automatic_pongs; for the runner at most one entry
    result,         \* None, "running", "done", "stopped", "diverged",
                    \* "cancelled" or "refused"
    findings        \* the runner's findings

scriptVars == <<role, pos, live, sock, queued, given, closePending, autoPongs,
                result, findings>>
vars == <<relayVars, scriptVars>>

Init ==
    /\ RelayInit
    /\ role = None /\ pos = 1 /\ live = <<>> /\ sock = "active"
    /\ queued = <<>> /\ given = <<>> /\ closePending = FALSE /\ autoPongs = <<>>
    /\ result = None /\ findings = {}

\* A peer that repeats its part: a secret the recorder masked may be another.
Fresh(m) ==
    IF m.kind = "text" /\ (opts.text \/ opts.json) /\ m.payload \in SecretJson
    THEN [m EXCEPT !.payload = IF @ = "json1" THEN "json2" ELSE "json1"] ELSE m

Repeats(d) == {raw[d], [i \in DOMAIN raw[d] |-> Fresh(raw[d][i])]}

-----------------------------------------------------------------------------
(* Matching                                                                *)

\* The reason as the matcher sees it: that of the frame, empty or not.
FrameReason(m) == IF m.code = None THEN None ELSE m.reason

\* websocket_message_matches.
MessageMatches(expected, m) ==
    /\ m.kind = expected.kind
    /\ m.kind = "close" => m.code = expected.code
    /\ \/ expected.red \in {"whole", "reason"}
       \/ /\ m.kind = "close"
          /\ FrameReason(m) = expected.reason
       \/ /\ m.kind # "close" /\ expected.red = "json"
          /\ m.payload \in SecretJson
          /\ Mask(m.payload) = Mask(expected.payload)
       \/ /\ m.kind # "close" /\ expected.red = None
          /\ m.payload = expected.payload

\* candidate_message_matches has the same rules.
CandidateMessageMatches(expected, m) == MessageMatches(expected, m)

\* A transcript entry as a wire message.
AsWire(e) == [kind |-> e.kind, payload |-> e.payload, code |-> e.code,
              reason |-> IF e.code = None \/ e.reason = None THEN Empty ELSE e.reason]

-----------------------------------------------------------------------------
(* The replay server                                                       *)

\* handle_request's own handshake checks, made before the matcher is asked.
ReplayHandshake(r) ==
    /\ r.http11get
    /\ ValidHandshakeHeaders(r.size, FALSE, FALSE)
    /\ r.keys = 1 /\ r.keyValid
    /\ r.versions = <<"13">>
    /\ r.tokens
    /\ ~r.body

\* replay_websocket_upgrade: again, and the recorded subprotocol was offered.
ReplayUpgradeStatus(r) ==
    IF ReplayHandshake(r) /\ (r.selected # None => r.selected \in r.offered)
    THEN 101 ELSE 400

StartReplay ==
    /\ phase = "stored" /\ role = None
    /\ role' = "replay"
    /\ result' = IF ReplayUpgradeStatus(h) = 101 THEN "running" ELSE "refused"
    /\ live' \in Repeats("c2s")
    /\ UNCHANGED <<relayVars, pos, sock, queued, given, closePending, autoPongs, findings>>

Scripting(r) == role = r /\ result = "running" /\ pos <= Len(messages)
Expected == messages[pos].msg
Incoming(r) == messages[pos].dir = IF r = "replay" THEN "c2s" ELSE "s2c"

\* The codec after it has read m on the script's socket, and its replies.
SockAfterRead(m) == IF m.kind # "close" THEN sock
                    ELSE IF sock = "active" THEN "byPeer" ELSE "done"
SockReply(m) ==
    IF sock = "active" /\ m.kind = "ping" THEN <<[m EXCEPT !.kind = "pong"]>>
    ELSE IF sock = "active" /\ m.kind = "close" THEN <<m>> ELSE <<>>

CanRead == live # <<>> /\ sock \in {"active", "byUs"}

\* A recorded client message: wait for one and compare it.  Reading writes
\* the codec's queued replies first.
ScriptReceive ==
    /\ Scripting("replay") /\ Incoming("replay")
    /\ \/ /\ CanRead
          /\ LET m == Head(live) IN
             /\ live' = Tail(live)
             /\ sock' = SockAfterRead(m)
             /\ given' = given \o queued
             /\ queued' = SockReply(m)
             /\ IF MessageMatches(Expected, m)
                THEN /\ pos' = pos + 1
                     /\ closePending' = (closePending \/ Expected.kind = "close")
                     /\ autoPongs' = IF Expected.kind = "ping" /\ Expected.payload # Empty
                                     THEN Append(autoPongs, Expected.payload) ELSE autoPongs
                     /\ UNCHANGED result
                ELSE /\ result' = "diverged"
                     /\ UNCHANGED <<pos, closePending, autoPongs>>
       \/ /\ ~CanRead
          /\ result' = "stopped"
          /\ UNCHANGED <<pos, live, sock, queued, given, closePending, autoPongs>>
    /\ UNCHANGED <<relayVars, role, findings>>

\* A recorded server message: flush when the codec has already answered for
\* it, send it otherwise.
ScriptSend ==
    LET auto == Expected.kind = "pong" /\ autoPongs # <<>> IN
    /\ Scripting("replay") /\ ~Incoming("replay")
    /\ IF auto \/ (Expected.kind = "close" /\ closePending)
       THEN /\ closePending' = FALSE
            /\ autoPongs' = IF auto THEN Tail(autoPongs) ELSE autoPongs
            /\ given' = given \o queued
            /\ queued' = <<>>
            /\ pos' = pos + 1
            /\ UNCHANGED <<sock, result>>
       ELSE IF sock = "active"
       THEN /\ given' = Append(given \o queued, AsWire(Expected))
            /\ queued' = <<>>
            /\ sock' = IF Expected.kind = "close" THEN "byUs" ELSE sock
            /\ pos' = pos + 1
            /\ UNCHANGED <<closePending, autoPongs, result>>
       ELSE /\ result' = "stopped"
            /\ UNCHANGED <<pos, sock, queued, given, closePending, autoPongs>>
    /\ UNCHANGED <<relayVars, role, live, findings>>

\* Mutant: every conversation is flushed at its end.
ScriptEndFlush ==
    /\ role = "replay" /\ result = "running" /\ pos > Len(messages)
    /\ given' = given \o queued
    /\ queued' = <<>>
    /\ result' = "done"
    /\ UNCHANGED <<relayVars, role, pos, live, sock, closePending, autoPongs, findings>>

\* After the last entry only a clean conversation is flushed.
ScriptEnd ==
    /\ role = "replay" /\ result = "running" /\ pos > Len(messages)
    /\ given' = IF terminal.kind = "clean" THEN given \o queued ELSE given
    /\ queued' = <<>>
    /\ result' = "done"
    /\ UNCHANGED <<relayVars, role, pos, live, sock, closePending, autoPongs, findings>>

\* Cancellation, the hour's deadline, or a payload that cannot be read.
ScriptStop ==
    /\ Scripting("replay")
    /\ result' = "cancelled"
    /\ UNCHANGED <<relayVars, role, pos, live, sock, queued, given,
                   closePending, autoPongs, findings>>

-----------------------------------------------------------------------------
(* The regression runner                                                   *)

\* The handshake against a candidate; any finding ends the comparison.
HandshakeFindings(r, selected) ==
    IF r.up # "switching" THEN {"handshake"}
    ELSE {f \in {"accept", "upgrade", "extensions", "subprotocol"} :
            \/ f = "accept" /\ ~r.upAccept
            \/ f = "upgrade" /\ ~r.upTokens
            \/ f = "extensions" /\ r.upExtensions
            \/ f = "subprotocol" /\ r.selected # selected}

StartCompare ==
    /\ phase = "stored" /\ role = None
    /\ role' = "compare"
    /\ findings' = HandshakeFindings(h, h.selected)
    /\ result' = IF findings' = {} THEN "running" ELSE "done"
    /\ live' \in Repeats("s2c")
    /\ UNCHANGED <<relayVars, pos, sock, queued, given, closePending, autoPongs>>

\* A finding breaks out of the loop; the terminal is still compared.
Break(f) ==
    /\ findings' = findings \cup {f}
    /\ pos' = Len(messages) + 1

\* A recorded client message is sent as it was kept.
CompareSend ==
    LET auto == \/ Expected.kind = "close" /\ closePending
                \/ Expected.kind = "pong" /\ autoPongs # <<>>
    IN
    /\ Scripting("compare") /\ ~Incoming("compare")
    /\ IF auto
       THEN /\ closePending' = (closePending /\ Expected.kind # "close")
            /\ autoPongs' = IF Expected.kind = "pong" THEN <<>> ELSE autoPongs
            /\ given' = given \o queued
            /\ queued' = <<>>
            /\ pos' = pos + 1
            /\ UNCHANGED <<sock, findings>>
       ELSE IF sock = "active"
       THEN /\ given' = Append(given \o queued, AsWire(Expected))
            /\ queued' = <<>>
            /\ sock' = IF Expected.kind = "close" THEN "byUs" ELSE sock
            /\ pos' = pos + 1
            /\ UNCHANGED <<closePending, autoPongs, findings>>
       ELSE /\ Break("write")
            /\ UNCHANGED <<sock, queued, given, closePending, autoPongs>>
    /\ UNCHANGED <<relayVars, role, live, result>>

\* A recorded server message is awaited from the candidate and compared.
CompareReceive ==
    /\ Scripting("compare") /\ Incoming("compare")
    /\ IF CanRead
       THEN LET m == Head(live) IN
            /\ live' = Tail(live)
            /\ sock' = SockAfterRead(m)
            /\ given' = given \o queued
            /\ queued' = SockReply(m)
            /\ IF CandidateMessageMatches(Expected, m)
               THEN /\ pos' = pos + 1
                    /\ closePending' = (closePending \/ Expected.kind = "close")
                    /\ autoPongs' = IF Expected.kind = "ping"
                                    THEN <<Expected.payload>> ELSE autoPongs
                    /\ UNCHANGED findings
               ELSE /\ Break("message")
                    /\ UNCHANGED <<closePending, autoPongs>>
       ELSE /\ Break("read")
            /\ UNCHANGED <<live, sock, queued, given, closePending, autoPongs>>
    /\ UNCHANGED <<relayVars, role, result>>

\* An abnormal recording expects the candidate to end the connection too.
CompareEnd ==
    /\ role = "compare" /\ result = "running" /\ pos > Len(messages)
    /\ result' = "done"
    /\ findings' = IF /\ terminal.kind = "abnormal"
                      /\ CanRead \/ terminal.cause \notin {"eof", "reset", "protocol-error"}
                   THEN findings \cup {"terminal"} ELSE findings
    /\ UNCHANGED <<relayVars, role, pos, live, sock, queued, given,
                   closePending, autoPongs>>

-----------------------------------------------------------------------------
ScriptNext ==
    \/ StartReplay \/ ScriptReceive \/ ScriptSend \/ ScriptEnd \/ ScriptStop
    \/ StartCompare \/ CompareSend \/ CompareReceive \/ CompareEnd

Next ==
    \/ RelayNext /\ UNCHANGED scriptVars
    \/ ScriptNext

\* The runtime polls the tunnel task: its select has the deadline as a branch.
Spec ==
    /\ Init /\ [][Next]_vars
    /\ WF_vars((Upgrade \/ Interrupt \/ Forward \/ AppendConversation)
                 /\ UNCHANGED scriptVars)
-----------------------------------------------------------------------------
(* Properties                                                              *)

\* A sequence of sequences, end to end.
Joined(parts) ==
    LET upto[n \in 0..Len(parts)] == IF n = 0 THEN <<>> ELSE upto[n - 1] \o parts[n]
    IN  upto[Len(parts)]

Data(s) == Joined([i \in DOMAIN s |-> IF s[i].kind \in {"text", "binary"} THEN <<s[i]>> ELSE <<>>])
Count(s, kind, payload) ==
    Cardinality({i \in DOMAIN s : s[i].kind = kind /\ s[i].payload = payload})
Closes(s) == Cardinality({i \in DOMAIN s : s[i].kind = "close"})
Entries(d) == Joined([i \in DOMAIN messages |->
                         IF messages[i].dir = d THEN <<messages[i].msg>> ELSE <<>>])

TypeOK ==
    /\ phase \in {"upgrade", "refused", "relay", "ended", "stored", "lost"}
    /\ status \in {0, 101, 400, 502, 504}
    /\ codec \in [Dirs -> {"active", "byPeer", "byUs", "done"}]
    /\ open \in [Dirs -> BOOLEAN] /\ closeSeen \in [Dirs -> BOOLEAN]
    /\ total \in 0..(2 * MaxReads)
    /\ Len(messages) <= MaxMessages
    /\ pos \in 1..(Len(messages) + 1)
    /\ result \in {None, "running", "done", "stopped", "diverged", "cancelled", "refused"}

\* However the two sides interleave, the transcript a relay ends with passes
\* the validator of the store (recording.rs:1550-1775 against
\* websocket.rs:180-345), the relay's own two storage causes apart, and apart from a
\* close code that nobody may send: the relay keeps it and the store refuses the
\* conversation (ValidCodes).
TranscriptAccepted ==
    phase = "ended" /\ terminal \notin {Abnormal("storage-error"), Abnormal("capture-limit")}
        => /\ ValidMessages(messages) /\ ValidTerminal(messages, terminal)
           /\ ValidTranscript(messages, terminal) <=>
                 \A d \in Dirs : \A i \in DOMAIN raw[d] : raw[d][i].code \notin InvalidCodes

\* Each direction's transcript is what its sender sent, in its order, and its
\* receiver was given the same data unredacted: all of it after a clean close,
\* at most the last message less otherwise.
RelayedInOrder ==
    \A d \in Dirs :
        /\ IsPrefix(Entries(d), [i \in DOMAIN raw[d] |-> Kept(raw[d][i])])
        /\ IsPrefix(Data(recv[d]), Data(raw[d]))
        /\ Len(Data(raw[d])) <= Len(Data(recv[d])) + 1
        /\ terminal.kind = "clean" => Data(recv[d]) = Data(raw[d])

\* A clean close is recorded only when both sides closed, and then each side
\* was given exactly one close: the codec's answer and the forwarded close are
\* never both sent (recording.rs:1738-1756).
CleanCloseOnce ==
    /\ terminal.kind = "clean" =>
         \A d \in Dirs : Closes(raw[d]) = 1 /\ Closes(recv[d]) = 1
    /\ \A d \in Dirs : Closes(recv[d]) <= 1

\* Pongs only ever answer: no prefix of the transcript has more pongs with a
\* payload than pings from the other side.
Said(ms, d, kind, payload) ==
    Cardinality({i \in DOMAIN ms : /\ ms[i].dir = d
                                   /\ ms[i].msg.kind = kind /\ ms[i].msg.payload = payload})
Answering(d, p) ==
    \A n \in 0..Len(messages) :
        LET ms == SubSeq(messages, 1, n) IN Said(ms, d, "pong", p) <= Said(ms, Other(d), "ping", p)

\* A side whose pings are answered by the other side gets no second pong from
\* the codec (recording.rs:1638-1661).
PongOnce ==
    \A d \in Dirs : \A p \in {m.payload : m \in {x \in Messages : x.kind = "ping"}} :
        Answering(d, p) => Count(recv[d], "pong", p) <= Count(raw[Other(d)], "ping", p)

\* What a relay owes both sides and the store, however frames, closes, limits and
\* cancellation interleave: an acceptable transcript of what was said, in order,
\* with every control frame answered once.
RelayFaithful ==
    /\ TypeOK
    /\ TranscriptAccepted
    /\ RelayedInOrder
    /\ CleanCloseOnce
    /\ PongOnce

Reasonless(d) == \E i \in DOMAIN Entries(d) :
    /\ Entries(d)[i].kind = "close"
    /\ Entries(d)[i].code # None /\ Entries(d)[i].reason = None

ReplayOver == role = "replay" /\ result \in {"done", "stopped", "diverged", "refused"}

ReplayedAsRecorded ==
    /\ Data(given) = Data([i \in DOMAIN Entries("s2c") |-> AsWire(Entries("s2c")[i])])
    /\ Closes(given) = 1

\* A client that repeats its part of a cleanly closed conversation, with other
\* secrets, upgrades again and is given the server's messages and one close
\* (replay.rs:1083-1275); a close with a code and no reason is excepted.
CleanConversationReplays ==
    ReplayOver /\ terminal.kind = "clean" /\ ~Reasonless("c2s") => ReplayedAsRecorded

\* Whatever stops it, a replay gives the client a prefix of the recorded data;
\* and when an abnormal conversation without the server's close has been played
\* to its end, the client saw no close either (replay.rs:1267-1274).  A pong
\* after the client's close is excepted: flushing it writes the codec's close.
AbnormalStaysAbnormal ==
    LET s2c == Entries("s2c") IN
    role = "replay" =>
        /\ IsPrefix(Data(given), Data([i \in DOMAIN s2c |-> AsWire(s2c[i])]))
        /\ (/\ result = "done" /\ terminal.kind = "abnormal"
            /\ \A i \in DOMAIN s2c : s2c[i].kind \notin {"close", "pong"})
           => Closes(given) = 0

\* A candidate that behaves as the recorded server of a cleanly closed
\* conversation yields no finding (regression.rs:38-316).
SameServerNoFinding ==
    role = "compare" /\ result = "done" /\ terminal.kind = "clean" /\ ~Reasonless("s2c")
        => findings = {}

\* A stored conversation is reproduced: to a client that repeats its part, and
\* against a server that does, with its clean or abnormal end.
ConversationReproduced ==
    /\ CleanConversationReplays
    /\ AbnormalStaysAbnormal
    /\ SameServerNoFinding

Over == phase \in {"refused", "stored", "lost"}

\* The duration limit ends every conversation whose peers keep reading.
EndsUnlessStalled == <>(Over \/ \E d \in Dirs : stalled[d])

\* "recorded client->server message: wait for one client message and compare
\* it": a client that closes as it did when recorded is not a mismatch.
CleanCloseReplays == ReplayOver /\ terminal.kind = "clean" => ReplayedAsRecorded
=============================================================================
