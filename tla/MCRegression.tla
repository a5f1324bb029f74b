---------------------------- MODULE MCRegression ----------------------------
(* Fixtures of up to three flows: a plain response with a volatile header,  *)
(* an event stream, an error, an upgrade; commands with the default policy, *)
(* with stream and SSE comparison and with a time bound, on both            *)
(* schedulers; and candidates that answer as recorded, differ in one        *)
(* dimension, fail, or cannot be observed.                                  *)
EXTENDS Regression

Line(f, v) == [field |-> f, value |-> v]
Blank == Line("blank", "")

NoFields == [n \in {} |-> <<>>]
Dated(v) == [n \in {"date", "etag"} |-> IF n = "date" THEN <<v>> ELSE <<"e">>]

Ok == [kind |-> "response", status |-> 200, headers |-> Dated("d0"),
       trailers |-> NoFields, body |-> <<Line("other", "x")>>, media |-> "text",
       category |-> None, phase |-> None, elapsed |-> {1}, readable |-> TRUE,
       timed |-> TRUE, offset |-> 0,
       events |-> <<[ev |-> "data", at |-> 0], [ev |-> "end", at |-> 1]>>,
       conversation |-> NoConversation]

Sse(lines) == [Ok EXCEPT !.media = "sse", !.body = lines]
Failed(c) == [Ok EXCEPT !.kind = "error", !.category = c, !.phase = "exchange"]
Phased(f, p) == [f EXCEPT !.phase = p]
Unread(f) == [f EXCEPT !.readable = FALSE]
Took(f, e) == [f EXCEPT !.elapsed = e]
Chat(ms, t) == [messages |-> ms, terminal |-> t, subprotocol |-> "s"]
Msg(k, p, r) == [dir |-> "c2s", mkind |-> k, reason |-> None, code |-> None, at |-> 0,
                 payload |-> p, red |-> r]
Json(x, y) == [json |-> TRUE, secret |-> x, rest |-> y]
Raw(y) == [json |-> FALSE, secret |-> None, rest |-> y]
Upgrade(c) == [Ok EXCEPT !.status = 101, !.conversation = c]

Stream1 == <<Line("comment", "c"), Line("id", "1"), Line("data", "a"), Blank,
             Line("event", "e"), Line("data", "b"), Blank>>
Stream2 == <<Line("id", "2"), Line("data", "a"), Blank, Blank, Line("retry", "5"),
             Line("event", "e"), Line("data", "b")>>
Broken == <<Line("retry", "bad"), Line("data", "a"), Blank>>
LongLine == <<Line("long", "x"), Line("data", "a")>>

At(f, o) == [f EXCEPT !.offset = o]
Untimed(f) == [f EXCEPT !.timed = FALSE]

Default == [stream |-> FALSE, tolerance |-> {}, sse |-> FALSE, ignored |-> {},
            wsTolerance |-> {}]
Streams == [Default EXCEPT !.stream = TRUE]
Cadence == [Default EXCEPT !.tolerance = {1}]
SseOnly == [Default EXCEPT !.ignored = {"id", "comments", "retry"}]

Run(cmd, sched, n, fs, p, b) ==
    [cmd |-> cmd, scheduler |-> sched, concurrency |-> n, flows |-> fs,
     candidate |-> <<>>, policy |-> p, bound |-> b]
DiffOf(l, r, p) == [Run("diff", "sequential", 1, l, p, {}) EXCEPT !.candidate = r]

Three == <<At(Ok, 2), At(Failed("reset"), 0), At(Ok, 1)>>
Messages == {Msg("text", Json("x", "p"), None), Msg("text", Json("*", "p"), "pointers"),
             Msg("text", Raw("p"), None), Msg("text", NoPayload, "whole"),
             Msg("close", NoPayload, None),
             [Msg("close", NoPayload, "reason") EXCEPT !.code = "1000", !.reason = "*"]}
Chats == {NoConversation} \cup {Chat(<<m>>, t) : m \in Messages, t \in {"clean", "abnormal"}}

Bodies == {Stream1, Stream2, Broken, LongLine}
DiffFlows == {Ok, [Ok EXCEPT !.headers = Dated("d1")], Untimed(Ok), Failed("reset"),
              [Ok EXCEPT !.headers = [n \in {"etag"} |-> <<"e">>]],
              [Ok EXCEPT !.events[2].at = 3], Phased(Failed("reset"), "connect"),
              Unread(Ok), [Ok EXCEPT !.body = <<>>]}
             \cup {Sse(b) : b \in Bodies}

MCInvocations ==
    {Run(c, s, n, Three, p, b) : c \in {"test", "replay"}, s \in {"sequential", "timeline"},
        n \in {1, 2}, p \in {Default, Streams}, b \in {{}, {1}}}
    \cup {Run("test", "timeline", n, <<At(Ok, o)>>, Default, {}) :
            n \in {0, 2, 4}, o \in {0, 4}}
    \cup {Run("test", s, 2, <<Ok, Untimed(Ok)>>, p, {}) :
            s \in {"sequential", "timeline"}, p \in {Default, Streams}}
    \cup {Run("test", s, 2, <<Untimed(Ok)>>, p, {}) :
            s \in {"sequential", "timeline"}, p \in {Default, Streams}}
    \cup {Run("test", "sequential", 1, <<Sse(b)>>, SseOnly, {}) : b \in Bodies}
    \cup {Run("test", "sequential", 1, <<Upgrade(c)>>, Default, {}) : c \in Chats}
    \cup {DiffOf(<<l>>, <<r>>, p) : l \in DiffFlows, r \in DiffFlows,
            p \in {Default, Streams, Cadence, SseOnly}}
    \cup {DiffOf(<<Upgrade(l)>>, <<Upgrade(r)>>, Default) : l \in Chats, r \in Chats}
    \cup {[DiffOf(<<Ok>>, <<Took(Ok, e)>>, Default) EXCEPT !.bound = {1}] : e \in {{}, {1}, {2}}}
    \cup {DiffOf(<<Ok>>, <<Ok, Ok>>, Default), DiffOf(<<Ok, Ok>>, <<Ok>>, Default)}

MCAnswers(b) ==
    {[kind |-> "refused"]}
    \cup (IF b.kind = "response" /\ b.status # 101
          THEN {b, [b EXCEPT !.headers = Dated("d1"), !.elapsed = {2}],
                [b EXCEPT !.body = <<Line("other", "y")>>],
                [b EXCEPT !.headers = [n \in {"etag"} |-> <<"e">>]],
                [b EXCEPT !.events = <<[ev |-> "data", at |-> 0]>>]}
          ELSE IF b.kind = "error" THEN {b, Failed("timeout"), Phased(b, "connect"), Ok}
          ELSE {[kind |-> "response", found |-> f] :
                 f \in {{}, {Finding("websocket", "terminal")}}})
=============================================================================
