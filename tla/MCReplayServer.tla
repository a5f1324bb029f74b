---------------------------- MODULE MCReplayServer ----------------------------
(* Up to six clients.  x and y mostly make the same request, u one that      *)
(* differs from it in a redacted secret, v another one.                      *)
EXTENDS ReplayServer

CONSTANTS x, y, u, v, w, z

ToLower(s) == IF s = "HOST" THEN "host" ELSE s
Size(items) == 1
PathSegments(p) == <<p>>

P(k, val) == [key |-> k, value |-> val]
Get(path, secret) ==
  [method |-> "GET", scheme |-> "http", authority |-> "host", path |-> path,
   query |-> <<>>, headers |-> <<P("authorization", secret)>>, body |-> Empty]
Login(secret) ==
  [Get("/", "s1") EXCEPT !.method = "POST", !.headers = <<P("content-length", 1)>>,
     !.body = [kind |-> "object", items |-> <<P("user", "n"), P("secret", secret)>>]]
OpaquePost == [Get("/", "s1") EXCEPT !.method = "PUT", !.body = [kind |-> "opaque", items |-> <<P("", "z")>>]]

Origin == [scheme |-> "http", authority |-> "host"]
Secrets == [headers |-> {"authorization"}, query |-> {}, json |-> <<"secret">>]

F(r, o) == [flow |-> Recorded(r), outcome |-> o]

(* Sealed: three logins on two flows, and a path with a recorded error or an *)
(* upgrade.                                                                  *)
SealedReq == [c \in {x, y, u, v, w} |-> IF c \in {x, y} THEN Login("s1") ELSE IF c = u THEN Login("s2") ELSE Get("/w", "s1")]
SealedShape == [c \in {x, y, u, v, w} |-> IF c = v THEN "upgrade" ELSE IF c = w THEN "badupgrade" ELSE "plain"]
SealedSource == <<F(Login("s1"), "response"), F(Get("/w", "s1"), "upgrade"), F(Login("s1"), "error")>>

(* Append-new: three requests of which two share a key, and one that cannot  *)
(* be recorded.                                                              *)
AppendReq == [c \in {x, y, u, v} |-> IF c \in {x, y} THEN Get("/", "s1") ELSE IF c = u THEN Login("s1") ELSE OpaquePost]
AppendSource == <<F(Login("s1"), "response")>>

(* Scenario: a cart is opened by a login, visited, filled and closed.        *)
T(from, when, extract, onFail, needs, next, fault) ==
  [from |-> from, when |-> when, extract |-> extract, onFail |-> onFail, needs |-> needs, next |-> next,
   fault |-> fault]
E(name, kind, key) == [name |-> name, kind |-> kind, key |-> key, index |-> 0]
IsPost == {[kind |-> "method", key |-> "", value |-> "POST"]}
IsCart == {[kind |-> "path", key |-> "", value |-> "/cart"]}
Cart ==
  << T("open", IsPost, <<E("user", "json", "user")>>, "Abort", {"user"}, "open", "none"),
     T("open", {}, <<E("where", "path", ""), E("who", "prior", "user")>>, "Skip", {"where"}, "full", "delay"),
     T("open", {}, <<E("where", "path", "")>>, "Abort", {"where"}, "open", "none"),
     T("full", IsCart, <<E("item", "query", "item")>>, "Abort", {"item"}, "full", "truncated"),
     T("full", IsPost, <<E("again", "json", "user")>>, "Abort", {"again", "item"}, "open", "error") >>
CartReq == [c \in Clients |->
  CASE c \in {x, v} -> Login("s1")
    [] c = y -> Get("/cart", "s1")
    [] c \in {u, w} -> [Get("/cart", "s2") EXCEPT !.query = <<P("item", "i")>>]
    [] OTHER -> [OpaquePost EXCEPT !.method = "POST"]]
CartShape == [c \in Clients |-> IF c = w THEN "oversized" ELSE "plain"]
CartSource == <<F(Get("/cart", "s1"), "response")>>

Start(req, shape, source, append, scene) ==
  [req |-> req, shape |-> shape, source |-> source, append |-> append, scene |-> scene]
OfflineSetups ==
  [sealed |-> Start(SealedReq, SealedShape, SealedSource, FALSE, FALSE),
   cart |-> Start(CartReq, CartShape, CartSource, FALSE, TRUE)]
AppendSetups ==
  [append |-> Start(AppendReq, [c \in {x, y, u, v} |-> "plain"], AppendSource, TRUE, FALSE),
   both |-> Start([c \in {x, y, u} |-> CartReq[c]], [c \in {x, y, u} |-> "plain"], <<>>, TRUE, TRUE)]
=============================================================================
