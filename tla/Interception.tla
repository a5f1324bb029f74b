---------------------------- MODULE Interception ----------------------------
(***************************************************************************)
(* The explicit proxy (crate eggreplay-intercept, proxy.rs, tunnel.rs,     *)
(* mitm.rs, headers.rs, and `proxy record' of the CLI): a listener whose   *)
(* clients send absolute-form requests, that are recorded, and CONNECTs,   *)
(* that are denied, relayed opaquely or decrypted and recorded, according  *)
(* to the target policy.                                                   *)
(*                                                                         *)
(* A client is one connection: it sends one request to the proxy and, on a *)
(* decrypted tunnel, up to MaxInner requests to the origin inside.  EggServe*)
(* (which parses requests, offers the tunnel capability and cancels the    *)
(* lifecycle of a request), EggFetch and the peers are external.           *)
(***************************************************************************)
EXTENDS TargetPolicy

CONSTANTS
    Clients,        \* the connections
    Setups,         \* the command lines: see Init
    Requests,       \* requests a client may send to the proxy
    InnerRequests,  \* requests a client may send inside a decrypted tunnel
    Handshakes,     \* outcomes of the TLS handshake: [ok, alpn, sni]
    MaxInner,       \* bound: requests inside one tunnel
    MaxBytes,       \* TunnelLimits.max_bytes
    MaxDuration,    \* TunnelLimits.max_duration, in ticks
    IdleTimeout,    \* TunnelLimits.idle_timeout, in ticks
    MaxConcurrent,  \* TunnelLimits.max_concurrent
    MaxEvents,      \* TunnelEventLog::MAX_EVENTS
    Chunks          \* sizes of one read of the relay

ASSUME TunnelBounds ==
    /\ MaxBytes \in Nat \ {0} /\ MaxDuration \in Nat \ {0} /\ IdleTimeout \in Nat \ {0}
    /\ MaxConcurrent \in Nat \ {0} /\ MaxEvents \in Nat \ {0} /\ MaxInner \in Nat
    /\ Chunks \subseteq Nat \ {0}
    /\ IsFiniteSet(Clients)

\* A command line and the policy file it names: lists of patterns over known labels,
\* lists of ports, and a default action of the enumeration DefaultAction.
ASSUME SetupShape ==
    /\ LabelLength \in [DOMAIN LabelLength -> Nat]
    /\ \A s \in Setups :
         /\ s.default \in ConnectActions
         /\ \A list \in {s.allowHosts, s.denyHosts, s.document.rules} :
              /\ list \in Seq(Range(list))
              /\ \A p \in Range(list) : p.host.name \in Seq(DOMAIN LabelLength)
         /\ \A d \in Range(s.document.rules) : d.ports.ports \in Seq(Int)

\* A parsed request: a list of headers, at most one Host, and at most one port in it.
ASSUME RequestShape ==
    \A r \in Requests \cup InnerRequests :
        /\ r.headers \in Seq(Range(r.headers))
        /\ \A a, b \in r.host : a = b
        /\ \A a \in r.host : \A p, q \in a.port : p = q

VARIABLES
    setup,    \* the command line
    phase,    \* "starting", "refused", "running", "draining", "finished"
    disk,     \* what is at the fixture's path: "none", "old" or "new"
    policy,   \* the policy in force, or {}
    conn,     \* each client's connection
    permits,  \* free permits of the tunnel semaphore
    events,   \* the tunnel event log
    flows,    \* the flows appended to the recording session
    stats     \* ProxyStats, without its counters of failures by category

vars == <<setup, phase, disk, policy, conn, permits, events, flows, stats>>

Idle == [st |-> "idle", req |-> {}, target |-> {}, answer |-> 0, poisoned |-> FALSE,
         inner |-> 0, up |-> 0, down |-> 0, sent |-> 0, last |-> 0, quiet |-> 0, still |-> 0,
         age |-> 0, limitHit |-> FALSE, end |-> "", outcome |-> "", cancelled |-> FALSE]

NoStats == [accepted |-> 0, rejected |-> 0, tunneled |-> 0, intercepted |-> 0, flows |-> 0]

Counted(names) == [n \in DOMAIN stats |-> stats[n] + IF n \in names THEN 1 ELSE 0]

Init ==
    /\ setup \in Setups
    /\ phase = "starting"
    /\ disk = IF setup.existing THEN "old" ELSE "none"
    /\ policy = {}
    /\ conn = [c \in Clients |-> Idle]
    /\ permits = MaxConcurrent
    /\ events = << >>
    /\ flows = << >>
    /\ stats = NoStats

-----------------------------------------------------------------------------
(* Start-up: proxy_record up to the listener. *)

\* validate_bind and check_listener_bind.
BindAllowed(s) == s.loopback \/ s.allowRemote

LoadRecordPolicy(s) ==
    UNION {ToTargetPolicy(f) :
              f \in IF s.policyFile THEN ParseJson(s.document)
                    ELSE PolicyFromFlags(s.default, s.allowHosts, s.denyHosts)}

\* The issuer is armed for an intercept default only, and the command needs a CA
\* for it; a program that embeds the proxy may leave it out.
CaUsable(s, p) == s.cli /\ p.default = "intercept" => s.ca

\* TunnelLimits::new: every bound positive, at most 4096 tunnels.
LimitsValid(l) ==
    /\ \A f \in {"bytes", "duration", "idle", "connect", "tunnels"} : l[f] > 0
    /\ l.tunnels <= 4096

\* The fixture's path is cleared before the policy, the route, the limits and
\* the CA are looked at.
Start ==
    /\ phase = "starting"
    /\ LET s       == setup
           refused == ~BindAllowed(s) \/ (s.existing /\ ~s.overwrite)
           usable  == {p \in LoadRecordPolicy(s) : /\ s.routeOk /\ CaUsable(s, p)
                                                  /\ LimitsValid(s.limits)
                                                  /\ s.limits.connections \in 1..4096}
       IN /\ disk' = IF refused THEN disk ELSE "none"
          /\ policy' = IF refused THEN {} ELSE usable
          /\ phase' = IF refused \/ usable = {} THEN "refused" ELSE "running"
    /\ UNCHANGED <<setup, conn, permits, events, flows, stats>>

Policy == CHOOSE p \in policy : TRUE

-----------------------------------------------------------------------------
(* Headers: a sequence of [name, tokens].  A HeaderMap groups the values of *)
(* a name; filtering decides by name, so the order is left as it is.        *)

ProxyOnly == {"proxy-connection", "proxy-authorization", "proxy-authenticate", "keep-alive"}

Nominated(headers) ==
    UNION {Range(headers[i].tokens) : i \in {j \in DOMAIN headers : headers[j].name = "connection"}}

\* TE passes only when all its tokens are "trailers".
TeForward(headers) ==
    LET T == UNION {Range(headers[i].tokens) :
                       i \in {j \in DOMAIN headers : headers[j].name = "te"}}
    IN T = {"trailers"}

Classify(name, headers) ==
    /\ name \notin ProxyOnly \cup {"connection", "upgrade"}
    /\ name \notin Nominated(headers)
    /\ name = "te" => TeForward(headers)

\* The entries of a list that are in a set, in their order.
Retain(list, set) ==
    LET kept[n \in 0..Len(list)] ==
            IF n = 0 THEN << >>
            ELSE IF list[n] \in set THEN Append(kept[n - 1], list[n]) ELSE kept[n - 1]
    IN kept[Len(list)]

FilterProxyHeaders(headers) == Retain(headers, {h \in Range(headers) : Classify(h.name, headers)})

UpgradeRequested(headers) ==
    "upgrade" \in Nominated(headers) \cup {headers[i].name : i \in DOMAIN headers}

-----------------------------------------------------------------------------
(* Requests to the proxy. *)

\* The canonical target of an absolute-form request; Host must agree with it.
\* The upstream URI is built without brackets, so an IPv6 target is refused.
ResolveAbsoluteTarget(r) ==
    IF r.form # "absolute" \/ r.scheme # "http" THEN {}
    ELSE LET target == UNION {NormalizeAuthority(a, 80) : a \in r.authority}
             host   == UNION {NormalizeAuthority(a, 80) : a \in r.host}
         IN {t \in target \cap host : t.host.kind # "v6"}

ResolveConnectTarget(r) == UNION {NormalizeAuthority(a, 443) : a \in r.authority}

\* The connection is answered and over.
Answered(c, code) ==
    conn' = [conn EXCEPT ![c] = [Idle EXCEPT !.st = "closed", !.answer = code]]

Reject(c, code) ==
    /\ Answered(c, code)
    /\ stats' = Counted({"rejected"})
    /\ UNCHANGED permits

HandlePlain(c, r) ==
    LET T == ResolveAbsoluteTarget(r) IN
    IF T = {} THEN Reject(c, 400)
    ELSE LET t == CHOOSE x \in T : TRUE IN
    IF ~AllowsPlain(Policy, t.host, t.port) THEN Reject(c, 403)
    ELSE /\ UNCHANGED permits
         /\ IF UpgradeRequested(r.headers)
            THEN /\ Answered(c, 400)
                 /\ stats' = Counted({"accepted", "rejected"})
            ELSE /\ conn' = [conn EXCEPT ![c].st = "plain", ![c].req = {r}, ![c].target = {t}]
                 /\ stats' = Counted({"accepted"})

\* A tunnel that is admitted takes a permit or is turned away.
TakePermit(c, r, t, st, counted) ==
    IF permits = 0 THEN Reject(c, 503)
    ELSE /\ permits' = permits - 1
         /\ conn' = [conn EXCEPT ![c].st = st, ![c].req = {r}, ![c].target = {t}]
         /\ stats' = Counted(counted)

HandleIntercept(c, r, t) ==
    IF ~setup.ca THEN Reject(c, 500)
    ELSE TakePermit(c, r, t, "leaf", {"accepted", "intercepted"})

HandleTunnel(c, r, t) == TakePermit(c, r, t, "dialing", {})

HandleConnect(c, r) ==
    LET T == ResolveConnectTarget(r) IN
    IF ~r.tunnel \/ T = {} THEN Reject(c, 400)
    ELSE LET t == CHOOSE x \in T : TRUE
             a == ResolveConnect(Policy, t.host, t.port)
         IN CASE a = "deny"      -> Reject(c, 403)
              [] a = "intercept" -> HandleIntercept(c, r, t)
              [] a = "tunnel"    -> HandleTunnel(c, r, t)

\* A plain request that carries a tunnel capability is denied uncounted.
Dispatch(c, r) ==
    /\ phase = "running"
    /\ conn[c].st = "idle"
    /\ IF r.method = "CONNECT" THEN HandleConnect(c, r)
       ELSE IF r.tunnel THEN Answered(c, 403) /\ UNCHANGED <<permits, stats>>
       ELSE HandlePlain(c, r)
    /\ UNCHANGED <<setup, phase, disk, policy, events, flows>>

\* record_request_with_session: a flow with a response, a flow with an error, or
\* no flow at all; once the session is shut down it appends nothing.  The flow is
\* appended first and its stream events afterwards: when they are refused
\* ("unlogged") the flow stays, and the caller is told of a failure and counts none.
Recorded(c, r, named, outcome) ==
    IF outcome = "failed" \/ phase = "finished"
    THEN UNCHANGED flows /\ UNCHANGED stats
    ELSE /\ flows' = Append(flows, [client |-> c, via |-> conn[c].st,
                                    target |-> CHOOSE t \in conn[c].target : TRUE,
                                    named |-> named, request |-> r,
                                    headers |-> FilterProxyHeaders(r.headers),
                                    logged |-> outcome # "unlogged"])
         /\ stats' = IF outcome = "unlogged" THEN stats ELSE Counted({"flows"})

Outcomes == {"response", "error", "unlogged", "failed"}

\* flow_to_response: a recorded error is answered 502 like a failure to record.
PlainDone(c, outcome) ==
    /\ conn[c].st = "plain"
    /\ \E r \in conn[c].req :
          /\ Recorded(c, r, conn[c].target, outcome)
          /\ Answered(c, IF outcome = "response" THEN 200 ELSE 502)
    /\ UNCHANGED <<setup, phase, disk, policy, permits, events>>

-----------------------------------------------------------------------------
(* Opaque tunnels. *)

\* The connection ends without an event: nothing was accepted.
Released(c, code) ==
    /\ permits' = permits + 1
    /\ Answered(c, code)

\* Dial before accepting: 504 after the connect timeout, 502 for a refusal, and
\* 500 when the capability cannot be accepted any more.
Dial(c, result) ==
    /\ conn[c].st = "dialing"
    /\ CASE result = "timeout" -> Released(c, 504) /\ UNCHANGED stats
         [] result = "refused" -> Released(c, 502) /\ UNCHANGED stats
         [] result = "gone"    -> /\ Released(c, 500)
                                  /\ stats' = Counted({"accepted", "tunneled"})
         [] result = "ok"      -> /\ conn' = [conn EXCEPT ![c].st = "relaying", ![c].answer = 200, ![c].req = {}]
                                  /\ stats' = Counted({"accepted", "tunneled"})
                                  /\ UNCHANGED permits
    /\ UNCHANGED <<setup, phase, disk, policy, events, flows>>

\* Mutant: the budget is counted for each direction on its own.
OverLimitOwn(x) == x.up > MaxBytes \/ x.down > MaxBytes

OverLimit(x) == x.up + x.down > MaxBytes

\* One read of copy_bidirectional through Metered: the bytes are counted, then
\* either refused for good or forwarded.
Relay(c, way, n) ==
    /\ conn[c].st \in {"relaying", "detached"}
    /\ conn[c].end = ""
    /\ LET x == [conn[c] EXCEPT !.up = @ + IF way = "up" THEN n ELSE 0,
                                !.down = @ + IF way = "down" THEN n ELSE 0, !.still = 0]
       IN conn' = [conn EXCEPT ![c] =
                      IF OverLimit(x) THEN [x EXCEPT !.limitHit = TRUE, !.end = "error"]
                      ELSE [x EXCEPT !.sent = @ + n]]
    /\ UNCHANGED <<setup, phase, disk, policy, permits, events, flows, stats>>

\* Both directions reach end of file, or a transport error ends the copy.
RelayStops(c, how) ==
    /\ conn[c].st \in {"relaying", "detached"}
    /\ conn[c].end = ""
    /\ conn' = [conn EXCEPT ![c].end = how]
    /\ UNCHANGED <<setup, phase, disk, policy, permits, events, flows, stats>>

\* One look of the idle watch: progress since the last look starts it afresh.
Sample(x) ==
    IF x.up + x.down # x.last THEN [x EXCEPT !.last = x.up + x.down, !.quiet = 0]
    ELSE [x EXCEPT !.quiet = Min({@ + 1, IdleTimeout})]

\* The select of relay_tunnel: the copy, the deadline and the idle watch race,
\* and whichever is taken first names the outcome.  The copy's task is aborted only
\* after the select and has nothing in it that panics, so it is never a JoinError
\* that is joined.
RelayEnds(c, why) ==
    /\ conn[c].st = "relaying"
    /\ CASE why = "joined" -> conn[c].end # ""
         [] why = "long"   -> conn[c].age >= MaxDuration
         [] why = "quiet"  -> conn[c].quiet >= IdleTimeout /\ conn[c].up + conn[c].down = conn[c].last
    /\ conn' = [conn EXCEPT ![c].st = "ended", ![c].end = "stopped", ![c].last = 0,
                            ![c].quiet = 0, ![c].age = 0, ![c].outcome =
                   CASE why = "long"  -> "duration_limit"
                     [] why = "quiet" -> "idle_timeout"
                     [] why = "joined" /\ conn[c].limitHit -> "byte_limit"
                     [] why = "joined" /\ ~conn[c].limitHit /\ conn[c].end = "error" -> "relay_error"
                     [] why = "joined" /\ ~conn[c].limitHit /\ conn[c].end = "eof" -> "completed"]
    /\ UNCHANGED <<setup, phase, disk, policy, permits, events, flows, stats>>

\* The log drops its oldest entry when it is full.
Push(c, outcome) ==
    events' = Append(IF Len(events) >= MaxEvents THEN Tail(events) ELSE events,
                     [client |-> c, outcome |-> outcome])

\* The connection's closure has run: its event is pushed and its permit free.
Closed(c, st, outcome) ==
    /\ Push(c, outcome)
    /\ permits' = permits + 1
    /\ conn' = [conn EXCEPT ![c] = IF st = "closed"
                                   THEN [Idle EXCEPT !.st = st, !.answer = 200, !.outcome = outcome]
                                   ELSE [@ EXCEPT !.st = st, !.outcome = outcome, !.last = 0,
                                                  !.quiet = 0, !.still = 0, !.age = 0]]
    /\ UNCHANGED <<setup, phase, disk, policy, flows, stats>>

\* The accepting closure looks every 25 ms whether the relay is done.
RelayNoticed(c) == conn[c].st = "ended" /\ Closed(c, "closed", conn[c].outcome)

\* ... or the lifecycle cancelled: relay_tunnel is aborted, which drops the
\* handle of the task that copies and leaves that task running.
RelayAborted(c) ==
    /\ conn[c].st = "relaying"
    /\ conn[c].cancelled
    /\ Closed(c, IF conn[c].end = "" THEN "detached" ELSE "closed", "shutdown")

-----------------------------------------------------------------------------
(* Decrypted tunnels. *)

\* The leaf and the TLS configuration come before the 200: 502 when they fail, and
\* 500 when the capability cannot be accepted any more.
Issue(c, result) ==
    /\ conn[c].st = "leaf"
    /\ CASE result = "failed" -> Released(c, 502)
         [] result = "gone"   -> Released(c, 500)
         [] result = "ok"     -> /\ conn' = [conn EXCEPT ![c].st = "handshake", ![c].answer = 200, ![c].req = {}]
                                 /\ UNCHANGED permits
    /\ UNCHANGED <<setup, phase, disk, policy, events, flows, stats>>

\* An absent SNI passes; a present one must be the CONNECT host.
CheckSni(t, sni) ==
    \A s \in sni : \E h \in NormalizeHost(s) : h = t.host

CheckAlpn(alpn) == alpn \in {"none", "http/1.1"}

\* accept_decrypted_tls: bounded by the connect timeout.
AcceptTls(c, h) ==
    /\ conn[c].st = "handshake"
    /\ \E t \in conn[c].target :
         IF h.ok /\ CheckAlpn(h.alpn) /\ CheckSni(t, h.sni)
         THEN conn' = [conn EXCEPT ![c].st = "decrypted"] /\ UNCHANGED <<permits, events>>
         ELSE Closed(c, "closed", "relay_error")
    /\ UNCHANGED <<setup, phase, disk, policy, flows, stats>>

\* Mutant: the port of the Host is not compared.
CheckHttpAuthorityHostOnly(t, host) ==
    \E a \in host : \E n \in NormalizeAuthority(a, t.port) : n.host = t.host

\* Host is required and must name the CONNECT target, port included.
CheckHttpAuthority(t, host) ==
    \E a \in host : t \in NormalizeAuthority(a, t.port)

\* Mutant: a refusal does not poison its connection.
NotPoisoned(x) == TRUE

\* Whether the service still takes requests on this connection.
Serves(x) == ~x.poisoned

\* MitmService::call up to the recording.  The first request that is not in
\* origin form or names another authority poisons the connection.
InnerCall(c, r) ==
    /\ conn[c].st = "decrypted"
    /\ conn[c].inner < MaxInner
    /\ \E t \in conn[c].target :
         LET x     == [conn[c] EXCEPT !.inner = @ + 1]
             wrong == r.form # "origin" \/ ~CheckHttpAuthority(t, r.host)
         IN IF ~Serves(x)
            THEN conn' = [conn EXCEPT ![c] = x] /\ UNCHANGED stats
            ELSE IF wrong
            THEN /\ conn' = [conn EXCEPT ![c] = [x EXCEPT !.poisoned = TRUE]]
                 /\ UNCHANGED stats
            ELSE IF UpgradeRequested(r.headers)
            THEN conn' = [conn EXCEPT ![c] = x] /\ UNCHANGED stats
            ELSE /\ conn' = [conn EXCEPT ![c] = [x EXCEPT !.st = "exchange", !.req = {r}]]
                 /\ UNCHANGED stats
    /\ UNCHANGED <<setup, phase, disk, policy, permits, events, flows>>

\* The origin that a request names by its Host, on a tunnel for one of the targets.
NamedOrigins(r, targets) ==
    UNION {NormalizeAuthority(a, t.port) : a \in r.host, t \in targets}

\* The end of MitmService::call, also in a driver nobody waits for any more.
InnerDone(c, outcome) ==
    /\ conn[c].st \in {"exchange", "closing", "orphan"}
    /\ \E r \in conn[c].req :
         Recorded(c, r, NamedOrigins(r, conn[c].target), outcome)
    /\ conn' = [conn EXCEPT ![c].req = {},
                            ![c].st = CASE @ = "exchange" -> "decrypted"
                                        [] @ = "closing"  -> "closing"
                                        [] @ = "orphan"   -> "closed"]
    /\ UNCHANGED <<setup, phase, disk, policy, permits, events>>

\* The HTTP/1 driver ends by itself: the client left, or a timeout of EggServe.
DriverEnds(c, outcome) ==
    /\ conn[c].st = "decrypted"
    /\ Closed(c, "closed", outcome)

\* Mutant: a driver is never asked to stop.
SignalDriverNever(c) == FALSE /\ UNCHANGED vars

\* The lifecycle is cancelled: the driver is asked to stop ...
SignalDriver(c) ==
    /\ conn[c].st \in {"decrypted", "exchange"}
    /\ conn[c].cancelled
    /\ conn' = [conn EXCEPT ![c].st = "closing",
                            ![c].req = IF conn[c].st = "exchange" THEN @ ELSE {}]
    /\ UNCHANGED <<setup, phase, disk, policy, permits, events, flows, stats>>

\* ... and has five seconds; a driver busy for longer is left behind.
DriverStopped(c, graceful) ==
    /\ conn[c].st = "closing"
    /\ graceful => conn[c].req = {}
    /\ Closed(c, IF conn[c].req = {} THEN "closed" ELSE "orphan", "shutdown")

-----------------------------------------------------------------------------
(* Time, cancellation and shutdown. *)

\* One sampling period of the idle watches.
Tick ==
    /\ \E c \in Clients : conn[c].st = "relaying" /\ conn[c].age < MaxDuration
    /\ conn' = [c \in Clients |->
                  IF conn[c].st # "relaying" THEN conn[c]
                  ELSE [Sample(conn[c]) EXCEPT !.age = Min({@ + 1, MaxDuration}),
                                               !.still = Min({@ + 1, IdleTimeout})]]
    /\ UNCHANGED <<setup, phase, disk, policy, permits, events, flows, stats>>

\* Tunnels whose closure has not returned.
Open(c) == conn[c].st \in {"relaying", "ended", "handshake", "decrypted", "exchange", "closing"}

\* EggServe cancels a lifecycle: the peer vanished, or the server shuts down.
Cancel(c) ==
    /\ Open(c) /\ ~conn[c].cancelled
    /\ conn' = [conn EXCEPT ![c].cancelled = TRUE]
    /\ UNCHANGED <<setup, phase, disk, policy, permits, events, flows, stats>>

Shutdown ==
    /\ phase = "running"
    /\ phase' = "draining"
    /\ UNCHANGED <<setup, disk, policy, conn, permits, events, flows, stats>>

\* wait() returns when no handler and no closure runs; then the session is shut
\* down and published.
Finish ==
    /\ phase = "draining"
    /\ \A c \in Clients : conn[c].st \in {"idle", "closed", "detached", "orphan"}
    /\ phase' = "finished"
    /\ disk' = "new"
    /\ UNCHANGED <<setup, policy, conn, permits, events, flows, stats>>

Next ==
    \/ Start \/ Tick \/ Shutdown \/ Finish
    \/ \E c \in Clients :
         \/ \E r \in Requests : Dispatch(c, r)
         \/ \E o \in Outcomes : PlainDone(c, o) \/ InnerDone(c, o)
         \/ \E o \in {"ok", "refused", "timeout", "gone"} : Dial(c, o)
         \/ \E w \in {"up", "down"}, n \in Chunks : Relay(c, w, n)
         \/ \E h \in {"eof", "error"} : RelayStops(c, h)
         \/ \E y \in {"joined", "long", "quiet"} : RelayEnds(c, y)
         \/ RelayNoticed(c) \/ RelayAborted(c)
         \/ \E o \in {"ok", "failed", "gone"} : Issue(c, o)
         \/ \E graceful \in BOOLEAN : DriverStopped(c, graceful)
         \/ \E h \in Handshakes : AcceptTls(c, h)
         \/ \E r \in InnerRequests : InnerCall(c, r)
         \/ \E o \in {"completed", "relay_error"} : DriverEnds(c, o)
         \/ SignalDriver(c) \/ Cancel(c)

\* Timers fire and tasks that can run do; peers owe nothing, except that a dial
\* and a handshake have timeouts and an upstream request comes to an end.
Fairness ==
    /\ WF_vars(Start) /\ WF_vars(Tick) /\ WF_vars(Finish)
    /\ \A c \in Clients :
         /\ WF_vars(\E y \in {"joined", "long", "quiet"} : RelayEnds(c, y))
         /\ WF_vars(RelayNoticed(c)) /\ WF_vars(RelayAborted(c))
         /\ WF_vars(\E o \in Outcomes : PlainDone(c, o))
         /\ WF_vars(\E o \in {"ok", "refused", "timeout", "gone"} : Dial(c, o))
         /\ WF_vars(\E o \in {"ok", "failed", "gone"} : Issue(c, o))
         /\ WF_vars(\E h \in Handshakes : AcceptTls(c, h))
         /\ WF_vars(SignalDriver(c))
         /\ WF_vars(\E ok \in BOOLEAN : DriverStopped(c, ok))
         /\ WF_vars(phase = "draining" /\ Cancel(c))

Spec == Init /\ [][Next]_vars /\ Fairness
-----------------------------------------------------------------------------
(* Properties. *)

States == {"idle", "plain", "dialing", "relaying", "ended", "detached", "leaf", "handshake",
           "decrypted", "exchange", "closing", "orphan", "closed"}

\* The shape of the state.
TypeOK ==
    /\ setup \in Setups
    /\ phase \in {"starting", "refused", "running", "draining", "finished"}
    /\ disk \in {"none", "old", "new"}
    /\ phase \in {"running", "draining", "finished"} <=> policy # {}
    /\ permits \in 0..MaxConcurrent
    /\ Len(events) <= MaxEvents
    /\ \A c \in Clients :
         /\ conn[c].st \in States
         /\ conn[c].answer \in {0, 200, 400, 403, 500, 502, 503, 504}
         /\ conn[c].inner \in 0..MaxInner
         /\ conn[c].age \in 0..MaxDuration /\ conn[c].quiet \in 0..IdleTimeout

\* The policy decides what the proxy reaches, in whatever order its rules are
\* written and however the target is spelled: a tunnel is dialled, a leaf issued
\* and a plain request sent only for a target that its most specific rules all
\* allow, and a CONNECT only by the configured action (evaluate, resolve_connect,
\* handle_plain, handle_connect).
PolicyHonoured ==
    \A c \in Clients : \A t \in conn[c].target :
        LET kind == IF conn[c].st = "plain" THEN "plain" ELSE "connect"
        IN /\ Allowed(Policy.rules, t.host, t.port, kind)
           /\ conn[c].st \in {"dialing", "relaying", "ended", "detached"} => Policy.default = "tunnel"
           /\ conn[c].st \in {"leaf", "handshake", "decrypted", "exchange", "closing", "orphan"}
                 => Policy.default = "intercept"

\* A policy file and the policy made of it say the same of every CONNECT the
\* clients can send (FilePolicy::to_target_policy: "CONNECT resolution through the
\* converted policy agrees with the file for every coherent policy").
ConversionAgrees ==
    phase = "starting" =>
        \A f \in ParseJson(setup.document) : \A p \in ToTargetPolicy(f) :
            \A r \in Requests : \A t \in ResolveConnectTarget(r) :
                {ResolveConnect(p, t.host, t.port)} = FileConnect(f, t.host, t.port)

\* A flow recorded inside a decrypted tunnel is for the host and the port of its
\* CONNECT, by the request's own Host (check_http_authority_coherence).
OriginPinned ==
    \A i \in DOMAIN flows : flows[i].named = {flows[i].target}

\* After a request named another authority, or came in another form, its tunnel
\* records nothing more (MitmService::call, `poisoned').
PoisonedSilent ==
    [][/\ IsPrefix(flows, flows')
       /\ \A i \in DOMAIN flows' \ DOMAIN flows : ~conn[flows'[i].client].poisoned]_vars

\* What is sent upstream and recorded holds no proxy credential, no header that
\* any Connection line names, and everything else in its order
\* (filter_proxy_headers).
HopByHopStripped ==
    \A i \in DOMAIN flows :
        LET sent == flows[i].request.headers
            hop  == ProxyOnly \cup {"connection", "upgrade", "te"}
                    \cup {n \in {h.name : h \in Range(sent)} :
                             \E h \in Range(sent) : h.name = "connection" /\ n \in Range(h.tokens)}
        IN Retain(flows[i].headers, {h \in Range(flows[i].headers) : h.name # "te"})
              = Retain(sent, {h \in Range(sent) : h.name \notin hop})

\* What leaves the proxy or enters a recording was allowed by the policy as it was
\* written, belongs to the origin of its tunnel, and carries no hop-by-hop header.
TargetsAuthorised ==
    /\ PolicyHonoured
    /\ ConversionAgrees
    /\ OriginPinned
    /\ HopByHopStripped

\* Over its whole life a tunnel forwards at most max_bytes, both ways together,
\* also when its relay was left behind (Metered::poll_read).
RelayedWithinBudget == \A c \in Clients : conn[c].sent <= MaxBytes

\* Every permit is free or held by one tunnel that is being set up or has not
\* closed, so that no more than max_concurrent are ever open (OwnedSemaphorePermit
\* in handle_tunnel and serve_intercepted_connect).
PermitsConserved ==
    permits + Cardinality({c \in Clients : Open(c) \/ conn[c].st \in {"dialing", "leaf"}})
        = MaxConcurrent

\* A tunnel reported as idle really moved no byte for the idle timeout
\* (relay_tunnel, idle_watch).
IdleHonest ==
    \A c \in Clients :
        conn[c].st = "ended" /\ conn[c].outcome = "idle_timeout" => conn[c].still >= IdleTimeout

\* Every tunnel that was answered 200 and has ended is in the event log exactly
\* once, with its outcome, until newer events push it out (TunnelEventLog::push).
EventPerTunnel ==
    LET over == {c \in Clients : conn[c].answer = 200 /\ conn[c].outcome # "" /\ ~Open(c)}
    IN /\ Len(events) = Min({MaxEvents, Cardinality(over)})
       /\ \A i, j \in DOMAIN events : i # j => events[i].client # events[j].client
       /\ \A i \in DOMAIN events : conn[events[i].client].outcome = events[i].outcome

LoggedFlows == {i \in DOMAIN flows : flows[i].logged}

\* The counters are those of what happened: one for each flow that was recorded with
\* its events, and every tunnel that was answered 200 counted as accepted under its
\* action (ProxyStats: "tunneled/intercepted count accepted CONNECT tunnels").
StatsHonest ==
    /\ stats.flows = Cardinality(LoggedFlows)
    /\ stats.accepted >= stats.tunneled + stats.intercepted
    /\ LET established == {c \in Clients : conn[c].answer = 200 /\ (conn[c].outcome # "" \/ Open(c))}
       IN Cardinality(established) <= stats.tunneled + stats.intercepted

\* Whatever ends a tunnel - a peer, a limit, idleness, an abort or the drain - its
\* bytes, its permit, its event and its counters are settled once.
TunnelsAccounted ==
    /\ TypeOK
    /\ RelayedWithinBudget
    /\ PermitsConserved
    /\ IdleHonest
    /\ EventPerTunnel
    /\ StatsHonest

\* Once the proxy is told to stop it gets to the end and publishes the recording,
\* whatever its tunnels and their peers do (serve_decrypted, handle_tunnel, and
\* the end of proxy_record).
DrainEnds == phase = "draining" ~> phase = "finished"

\* Once a tunnel was reported as shut down, nothing more is relayed on it
\* (proxy.rs: shutdown "ends the tunnel with a Shutdown outcome instead of relaying
\* forever").
ShutdownEndsRelay ==
    [][\A c \in Clients : conn[c].outcome = "shutdown" => conn'[c].sent = conn[c].sent]_vars

\* A relay whose byte budget fired is reported so (the debug_assert at the end of
\* relay_tunnel).
LimitClassified ==
    \A c \in Clients : conn[c].st = "ended" /\ conn[c].limitHit => conn[c].outcome = "byte_limit"

\* The flags of the command line always make a policy (policy_from_flags: "the
\* result is always coherent").
FlagsAlwaysCoherent ==
    ~setup.policyFile => PolicyFromFlags(setup.default, setup.allowHosts, setup.denyHosts) # {}
=============================================================================
