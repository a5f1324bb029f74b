--------------------------- MODULE MCInterception ---------------------------
(***************************************************************************)
(* Two clients of an explicit proxy with one tunnel permit and an event log*)
(* of one entry.  Command lines come in two groups: a few that the listener*)
(* really runs with, and policy documents of two rules in every order that *)
(* are only converted (their listener bind is refused).                    *)
(***************************************************************************)
EXTENDS Interception

Host(name, marks)  == [name |-> name, kind |-> "dns", marks |-> marks]
Addr(name, kind, marks) == [name |-> <<name>>, kind |-> kind, marks |-> marks]
Auth(host, port)   == [host |-> host, port |-> port]

Api   == <<"api", "example">>
Evil  == <<"evil-example">>
Site  == <<"example">>

MCLabelLength == [l \in {"api", "example", "evil-example", "v4", "v6"} |->
                     CASE l = "api" -> 3 [] l = "example" -> 7 [] l = "evil-example" -> 12
                       [] OTHER -> 4]

H(name, tokens) == [name |-> name, tokens |-> tokens]

Hop == <<H("connection", <<"close">>), H("proxy-authorization", <<"secret">>), H("accept", <<"a">>),
         H("x-trace", <<"t">>), H("connection", <<"x-trace">>), H("te", <<"trailers">>)>>

Get(authority, host) ==
    [method |-> "GET", tunnel |-> FALSE, form |-> "absolute", scheme |-> "http",
     authority |-> authority, host |-> host, headers |-> << >>]

Conn(authority) ==
    [method |-> "CONNECT", tunnel |-> TRUE, form |-> "authority", scheme |-> "none",
     authority |-> authority, host |-> authority, headers |-> << >>]

ApiAuth == {Auth(Host(Api, {}), {})}

MCRequests ==
    { [Get(ApiAuth, {Auth(Host(Api, {"upper", "dot"}), {80})}) EXCEPT !.headers = Hop],
      [Get(ApiAuth, ApiAuth) EXCEPT !.headers = <<H("connection", <<"upgrade">>)>>],
      [Get(ApiAuth, ApiAuth) EXCEPT !.tunnel = TRUE],
      Get(ApiAuth, {Auth(Host(Api, {}), {8080})}),
      Get({Auth(Addr("v6", "v6", {"[]"}), {})}, {Auth(Addr("v6", "v6", {"[]"}), {})}),
      Conn(ApiAuth),
      Conn({Auth(Host(Evil, {}), {443})}),
      Conn({Auth(Host(Api, {"@"}), {})}),
      [Conn({}) EXCEPT !.tunnel = FALSE] }

Inner(host) == [method |-> "GET", form |-> "origin", host |-> host, headers |-> << >>]

MCInnerRequests ==
    { [Inner({Auth(Host(Api, {"upper"}), {})}) EXCEPT !.headers = Hop],
      Inner({Auth(Host(Api, {}), {80})}),
      [Inner(ApiAuth) EXCEPT !.form = "absolute"],
      [Inner(ApiAuth) EXCEPT !.headers = <<H("upgrade", <<"h2c">>)>>] }

MCHandshakes ==
    { [ok |-> TRUE, alpn |-> "http/1.1", sni |-> {Host(Api, {"dot"})}],
      [ok |-> TRUE, alpn |-> "none", sni |-> {Host(Site, {})}],
      [ok |-> TRUE, alpn |-> "h2", sni |-> {}],
      [ok |-> FALSE, alpn |-> "none", sni |-> {}] }

-----------------------------------------------------------------------------
AnyPorts == [form |-> "any", ports |-> << >>]
RuleDoc(host, wild, ports, kind, action) ==
    [host |-> host, wild |-> wild, ports |-> ports, kind |-> kind, action |-> action]

RuleDocs ==
    { RuleDoc(Host(Site, {}), TRUE, AnyPorts, "any", "tunnel"),
      RuleDoc(Host(Site, {}), TRUE, AnyPorts, "connect", "deny"),
      RuleDoc(Host(Site, {}), TRUE, [form |-> "one", ports |-> <<443>>], "any", "intercept"),
      RuleDoc(Host(Api, {"upper"}), FALSE, [form |-> "range", ports |-> <<1, 500>>], "connect", "tunnel"),
      RuleDoc(Host(Api, {}), FALSE, [form |-> "range", ports |-> <<400, 500>>], "connect", "deny"),
      RuleDoc(Host(Api, {}), FALSE, [form |-> "array", ports |-> <<80, 443>>], "plain", "intercept"),
      RuleDoc(Addr("v6", "v6", {"[]"}), FALSE, [form |-> "one", ports |-> <<0>>], "any", "tunnel"),
      RuleDoc(Addr("v4", "v4", {}), FALSE, [form |-> "range", ports |-> <<9, 8>>], "any", "deny") }

Document(default, rules) ==
    [readable |-> TRUE, version |-> "v1", default |-> default, rules |-> rules]

Base == [cli |-> TRUE, loopback |-> TRUE, allowRemote |-> FALSE, existing |-> FALSE,
         overwrite |-> FALSE, policyFile |-> TRUE, document |-> Document("deny", << >>),
         default |-> "deny", allowHosts |-> << >>, denyHosts |-> << >>,
         routeOk |-> TRUE, ca |-> TRUE,
         limits |-> [bytes |-> MaxBytes, duration |-> MaxDuration, idle |-> IdleTimeout,
                     connect |-> 1, tunnels |-> MaxConcurrent, connections |-> 8]]

Pattern(host, wild) == [host |-> host, wild |-> wild]

Served ==
    { [Base EXCEPT !.policyFile = FALSE, !.default = "tunnel",
                   !.allowHosts = <<Pattern(Host(Site, {}), TRUE)>>,
                   !.denyHosts = <<Pattern(Host(Evil, {}), FALSE)>>],
      [Base EXCEPT !.existing = TRUE, !.overwrite = TRUE,
                   !.document = Document("intercept", <<
                       RuleDoc(Host(Site, {}), TRUE, AnyPorts, "any", "intercept"),
                       RuleDoc(Host(Api, {}), FALSE, [form |-> "one", ports |-> <<80>>], "plain", "deny")>>)],
      [Base EXCEPT !.document = Document("tunnel", <<
                       RuleDoc(Host(Api, {}), FALSE, AnyPorts, "any", "deny"),
                       RuleDoc(Host(Api, {"dot"}), FALSE, AnyPorts, "any", "tunnel")>>)],
      [Base EXCEPT !.cli = FALSE, !.ca = FALSE,
                   !.document = Document("intercept", <<
                       RuleDoc(Host(Site, {}), TRUE, AnyPorts, "connect", "intercept")>>)] }

Refused ==
    { [Base EXCEPT !.existing = TRUE],
      [Base EXCEPT !.existing = TRUE, !.overwrite = TRUE, !.routeOk = FALSE],
      [Base EXCEPT !.limits.tunnels = 4097],
      [Base EXCEPT !.limits.idle = 0],
      [Base EXCEPT !.limits.connections = 0],
      [Base EXCEPT !.ca = FALSE, !.document = Document("intercept", << >>)],
      [Base EXCEPT !.policyFile = FALSE, !.allowHosts = <<Pattern(Host(Api, {}), FALSE)>>] }

Converted ==
    { [Base EXCEPT !.loopback = FALSE, !.document = Document(d, rs)] :
        d \in ConnectActions,
        rs \in {<<r>> : r \in RuleDocs} \cup {<<r, q>> : r, q \in RuleDocs}
               \cup {<<r, q, r>> : r, q \in RuleDocs} }

MCSetups == Served \cup Refused \cup Converted
=============================================================================
