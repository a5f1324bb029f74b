-------------------------- MODULE MCMatcherSession --------------------------
(* Requests a client records and replays.  a1 and a2, f1 and f2, o1 and o2,   *)
(* v1 and v2 differ only where a match must not look: letter case, an empty  *)
(* path, a volatile header, a redacted secret.  s1 and s2 have the length of *)
(* the placeholder, so o2 is sent with the length that was stored; ol, the   *)
(* same request with a longer secret, is not.  w1 and w2 are arrays with two *)
(* redacted elements.                                                        *)
EXTENDS MatcherSession

ToLower(s) == CASE s = "HOST" -> "host" [] s = "Authorization" -> "authorization" [] OTHER -> s

Chars(v) == IF v \in {"s1", "s2", Redacted} THEN 10 ELSE IF v = "long" THEN 30 ELSE 1
Size(items) == FoldLeft(LAMBDA n, it : n + Chars(it.value), 0, items)

P(k, v) == [key |-> k, value |-> v]
Get == [method |-> "GET", scheme |-> "http", authority |-> "host", path |-> "/",
        query |-> <<>>, headers |-> <<>>, body |-> Empty]
Post(kind, items) ==
  [Get EXCEPT !.method = "POST", !.body = [kind |-> kind, items |-> items],
              !.headers = <<P("content-length", Size(items))>>]

Requests ==
  [a1 |-> [Get EXCEPT !.query = <<P("token", "s1"), P("page", "1")>>,
                      !.headers = <<P("authorization", "s1"), P("accept", "x"), P("accept", "y")>>],
   a2 |-> [Get EXCEPT !.authority = "HOST", !.path = "", !.query = <<P("token", "s2"), P("page", "1")>>,
                      !.headers = <<P("accept", "x"), P("user-agent", "z"), P("Authorization", "s2"), P("accept", "y")>>],
   a3 |-> [Get EXCEPT !.query = <<P("token", "s1"), P("page", "2")>>,
                      !.headers = <<P("authorization", "s1"), P("accept", "x"), P("accept", "y")>>],
   f1 |-> Post("form", <<P("token", "s1"), P("user", "x")>>),
   f2 |-> Post("form", <<P("token", "s2"), P("user", "x")>>),
   o1 |-> Post("object", <<P("user", "x"), P("secret", "s1")>>),
   o2 |-> Post("object", <<P("secret", "s2"), P("user", "x")>>),
   ol |-> Post("object", <<P("user", "x"), P("secret", "long")>>),
   v1 |-> Post("array", <<P("", "s1"), P("", "x")>>),
   v2 |-> Post("array", <<P("", "s2"), P("", "x")>>),
   w1 |-> Post("array", <<P("", "s1"), P("", "x"), P("", "s1")>>),
   w2 |-> Post("array", <<P("", "s2"), P("", "x"), P("", "s2")>>),
   op |-> Post("opaque", <<P("", "x")>>)]

RequestOf == Requests
Volatile == {"date", "user-agent", "x-request-id"}
Origin == [scheme |-> "http", authority |-> "host"]
Secrets == [headers |-> {"authorization"}, query |-> {"token"}, json |-> <<"0", "2", "secret">>]

MixedTape == <<"a1", "op", "o1", "a1", "f1", "v1", "w1">>
=============================================================================
