----------------------------- MODULE MCWebSocket -----------------------------
EXTENDS WebSocketReplay

Msg(k, p) == [kind |-> k, payload |-> p, code |-> None, reason |-> Empty]
CloseMsg(c, r) == [kind |-> "close", payload |-> Empty, code |-> c, reason |-> r]

\* A good upgrade, and the same with one thing wrong.
Good == [http11get |-> TRUE, size |-> "within", keys |-> 1, keyValid |-> TRUE,
         versions |-> <<"13">>, tokens |-> TRUE, body |-> FALSE,
         offered |-> {"chat"}, up |-> "switching", upSize |-> "within",
         upExtensions |-> FALSE, upTokens |-> TRUE, upAccept |-> TRUE,
         selected |-> "chat"]
MCHandshakes == {Good}
    \cup {[Good EXCEPT !.selected = "other"]}
    \cup {[Good EXCEPT !.up = u] : u \in {"timeout", "refused"}}
    \cup {[Good EXCEPT !.keys = 2], [Good EXCEPT !.versions = <<"13", "13">>],
          [Good EXCEPT !.upExtensions = TRUE], [Good EXCEPT !.upAccept = FALSE],
          [Good EXCEPT !.body = TRUE]}
MCOptions == {[text |-> FALSE, binary |-> FALSE, json |-> TRUE],
              [text |-> TRUE, binary |-> TRUE, json |-> FALSE]}
MCMessages == {Msg("text", "json1"), Msg("binary", "b"), Msg("ping", "p"),
               Msg("pong", "p"), CloseMsg(None, Empty), CloseMsg("1000", "bye"),
               CloseMsg("1000", Empty), CloseMsg("2000", Empty)}
MCPriors == {0, 3}
==============================================================================
