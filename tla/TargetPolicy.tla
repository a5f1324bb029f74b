---------------------------- MODULE TargetPolicy ----------------------------
(***************************************************************************)
(* The target policy of the explicit proxy (crate eggreplay-intercept,     *)
(* policy.rs and policy_file.rs): how a host or an authority as written is *)
(* normalized, how a rule matches and how specific it is, which rule       *)
(* decides, and how a policy document or the command line's flags become a *)
(* policy.                                                                 *)
(*                                                                         *)
(* A host as written is a record [name, kind, marks]: name is its sequence *)
(* of labels in lower case (for an address a single label), kind is "dns", *)
(* "v4" or "v6", and marks says what else the text has: "upper" (letters   *)
(* in upper case), "dot" (a trailing dot), "[]" (written in brackets), "[" *)
(* (an unbalanced bracket), and so on.  Every operator that can refuse its *)
(* input returns {} for a refusal and a singleton for a result.            *)
(***************************************************************************)
EXTENDS Integers, Sequences, FiniteSets, SequencesExt, FiniteSetsExt

CONSTANTS
    LabelLength,    \* the number of bytes of each label
    MaxPolicyRules, \* MAX_POLICY_RULES
    MaxPortSet      \* MAX_PORT_SET_SIZE

ASSUME PolicyBounds == MaxPolicyRules \in Nat \ {0} /\ MaxPortSet \in Nat \ {0}

\* MAX_HOST_PATTERN_LEN
MaxHostPattern == 253

Normalized(kind, name) == [kind |-> kind, name |-> name]

-----------------------------------------------------------------------------
(* Normalization. *)

\* Lower case and one trailing dot removed; other bytes are refused.
NormalizeDns(t) ==
    IF t.name = << >> \/ t.marks \cap {"nonascii", "space", "label"} # {}
    THEN {}
    ELSE {Normalized("dns", t.name)}

NormalizeHost(t) ==
    IF t.marks \cap {"empty", "long", "@", "/", "["} # {} THEN {}
    ELSE IF "[]" \in t.marks THEN IF t.kind = "v6" THEN {Normalized("v6", t.name)} ELSE {}
    ELSE IF t.kind # "dns" THEN {Normalized(t.kind, t.name)}
    ELSE IF ":" \in t.marks THEN {}
    ELSE NormalizeDns(t)

\* A port as written: -1 stands for text that is no number.
ParsePort(p) == IF p \in 1..65535 THEN {p} ELSE {}

\* An authority as written: a host and an optional port.  Only a bracketed
\* IPv6 address may hold a colon.
NormalizeAuthority(a, default) ==
    LET t    == a.host
        port == IF a.port = {} THEN {default} ELSE UNION {ParsePort(p) : p \in a.port}
        host == IF t.marks \cap {"empty", "@", "/", "["} # {} THEN {}
                ELSE IF "[]" \in t.marks
                THEN IF t.kind = "v6" /\ "suffix" \notin t.marks
                     THEN {Normalized("v6", t.name)} ELSE {}
                ELSE IF t.marks \cap {"space", ":"} # {} \/ t.kind = "v6" THEN {}
                ELSE NormalizeHost(t)
    IN {[host |-> h, port |-> p] : h \in host, p \in port}

-----------------------------------------------------------------------------
(* Rules: [host, ports, kind, action]. *)

ExactDns(t) == {[form |-> "exact", name |-> h.name] : h \in {x \in NormalizeHost(t) : x.kind = "dns"}}

SuffixDns(t) ==
    IF "long" \in t.marks THEN {}
    ELSE {[form |-> "suffix", name |-> h.name] : h \in {x \in NormalizeHost(t) : x.kind = "dns"}}

ExactIp(t) == {[form |-> "ip", name |-> t.name]}

\* The parent itself, or a name that ends in "." and the parent.
HostMatches(m, host) ==
    CASE m.form = "exact"  -> host.kind = "dns" /\ host.name = m.name
      [] m.form = "suffix" -> host.kind = "dns" /\ IsSuffix(m.name, host.name)
      [] m.form = "ip"     -> host.kind # "dns" /\ host.name = m.name

\* Bytes of a name: its labels and the dots between them.
NameLength(name) ==
    LET bytes[n \in 0..Len(name)] ==
            IF n = 0 THEN Len(name) - 1 ELSE bytes[n - 1] + LabelLength[name[n]]
    IN bytes[Len(name)]

HostSpecificity(m) ==
    CASE m.form = "ip"     -> 3000
      [] m.form = "exact"  -> 2000
      [] m.form = "suffix" -> 1000 + Min({NameLength(m.name), MaxHostPattern})

PortExact(p) == IF p = 0 THEN {} ELSE {[form |-> "exact", ports |-> {p}]}

PortRange(start, end) ==
    IF start = 0 \/ end = 0 \/ start > end THEN {}
    ELSE {[form |-> "range", ports |-> start..end]}

\* A set is kept as a list: an entry given twice counts twice.
PortSet(ports) ==
    IF ports = << >> \/ Len(ports) > MaxPortSet \/ 0 \in Range(ports) THEN {}
    ELSE {[form |-> "set", ports |-> Range(ports), entries |-> Len(ports)]}

PortMatches(m, port) == m.form = "any" \/ port \in m.ports

PortSpecificity(m) ==
    CASE m.form = "exact" -> 300
      [] m.form = "set"   -> 200 + MaxPortSet - m.entries
      [] m.form = "range" -> 100
      [] m.form = "any"   -> 0

AnyPort == [form |-> "any"]

KindCovers(kind, observed) == kind \in {"any", observed}

KindSpecificity(kind) == IF kind = "any" THEN 0 ELSE 10

RuleMatches(r, host, port, kind) ==
    HostMatches(r.host, host) /\ PortMatches(r.ports, port) /\ KindCovers(r.kind, kind)

Specificity(r) ==
    HostSpecificity(r.host) + PortSpecificity(r.ports) + KindSpecificity(r.kind)

-----------------------------------------------------------------------------
(* Evaluation: a policy is [rules, default]. *)

NewPolicy(rules, default) ==
    IF Len(rules) > MaxPolicyRules THEN {} ELSE {[rules |-> rules, default |-> default]}

\* One step of the loop over the rules: a more specific rule replaces the best
\* so far, and so does a deny as specific as an allow.
Prefer(best, r) ==
    IF \A b \in best : \/ Specificity(r) > b.score
                       \/ Specificity(r) = b.score /\ r.action = "deny" /\ b.action = "allow"
    THEN {[score |-> Specificity(r), action |-> r.action]} ELSE best

Evaluate(policy, host, port, kind) ==
    LET rules == policy.rules
        best[n \in 0..Len(rules)] ==
            IF n = 0 THEN {}
            ELSE IF RuleMatches(rules[n], host, port, kind) THEN Prefer(best[n - 1], rules[n])
            ELSE best[n - 1]
    IN IF \E b \in best[Len(rules)] : b.action = "allow" THEN "allow" ELSE "deny"

AllowsPlain(policy, host, port) == Evaluate(policy, host, port, "plain") = "allow"

ResolveConnect(policy, host, port) ==
    IF Evaluate(policy, host, port, "connect") = "deny" THEN "deny" ELSE policy.default

-----------------------------------------------------------------------------
(* Policy documents: [version, default, rules], and a rule of a document    *)
(* [host, wild, ports, kind, action].                                       *)

ConnectActions == {"deny", "tunnel", "intercept"}

ParseAction(a) == {a} \cap ConnectActions

RuleAction(a) == IF a = "deny" THEN "deny" ELSE "allow"

ParseConnectAction(a) == {a} \cap ConnectActions

ParseKind(k) == {k} \cap {"plain", "connect", "any"}

\* An exact name, a suffix written with "*." or ".", or an address; a bracketed
\* IPv4 address passes here although no authority can be written so.
ParseHostPattern(t, wild) ==
    IF wild THEN IF t.name = << >> THEN {} ELSE SuffixDns(t)
    ELSE IF "[]" \in t.marks THEN IF t.kind # "dns" THEN ExactIp(t) ELSE {}
    ELSE IF t.kind # "dns" /\ t.marks \subseteq {"upper"} THEN ExactIp(t)
    ELSE ExactDns(t)

PortSpan(first, last) == UNION {PortRange(lo, hi) : lo \in ParsePort(first), hi \in ParsePort(last)}

PortList(ports) == IF Range(ports) \subseteq 0..65535 THEN PortSet(ports) ELSE {}

\* null or "any", one port as a number or as text, a "lo-hi" range, an array.
ParsePorts(v) ==
    CASE v.form = "any"    -> {AnyPort}
      [] v.form = "one"    -> UNION {PortExact(p) : p \in ParsePort(v.ports[1])}
      [] v.form = "range"  -> PortSpan(v.ports[1], v.ports[2])
      [] v.form = "array"  -> PortList(v.ports)
      [] OTHER             -> {}

ParseRule(d) ==
    IF "empty" \in d.host.marks THEN {}
    ELSE {[host |-> h, ports |-> p, kind |-> k, action |-> a] :
             h \in ParseHostPattern(d.host, d.wild), p \in ParsePorts(d.ports),
             k \in ParseKind(d.kind), a \in ParseAction(d.action)}

\* Every rule that lets a CONNECT through agrees with the default.
Coherent(file) ==
    \A i \in DOMAIN file.rules :
        LET r == file.rules[i]
        IN r.action # "deny" /\ KindCovers(r.kind, "connect") => r.action = file.default

\* A document of the known version whose rules all parse, and that is coherent.
FromDocument(d) ==
    LET parsed == [i \in DOMAIN d.rules |-> ParseRule(d.rules[i])]
        file(default) == [default |-> default,
                          rules   |-> [i \in DOMAIN parsed |-> CHOOSE r \in parsed[i] : TRUE]]
    IN IF d.version # "v1" \/ Len(d.rules) > MaxPolicyRules
          \/ \E i \in DOMAIN parsed : parsed[i] = {}
       THEN {}
       ELSE {f \in {file(a) : a \in ParseConnectAction(d.default)} : Coherent(f)}

\* A file larger than its bound, unreadable or not JSON is refused unread.
ParseJson(d) == IF d.readable THEN FromDocument(d) ELSE {}

ToTargetPolicy(file) ==
    NewPolicy([i \in DOMAIN file.rules |->
                  [file.rules[i] EXCEPT !.action = RuleAction(@)]], file.default)

\* The flags --allow-host and --deny-host: any port, any kind, and the allows
\* take their action from the default.
PolicyFromFlags(default, allow, deny) ==
    LET rule(p, a) == {[host |-> h, ports |-> AnyPort, kind |-> "any", action |-> a] :
                          h \in IF "empty" \in p.host.marks THEN {}
                                ELSE ParseHostPattern(p.host, p.wild)}
        act    == IF default = "intercept" THEN "intercept" ELSE "tunnel"
        parsed == [i \in DOMAIN allow |-> rule(allow[i], act)]
                  \o [i \in DOMAIN deny |-> rule(deny[i], "deny")]
        file   == [default |-> default,
                   rules   |-> [i \in DOMAIN parsed |-> CHOOSE r \in parsed[i] : TRUE]]
    IN IF Len(parsed) > MaxPolicyRules \/ \E i \in DOMAIN parsed : parsed[i] = {} THEN {}
       ELSE {f \in {file} : Coherent(f)}

-----------------------------------------------------------------------------
(* What the policy promises, stated without the loop. *)

\* The rules that match a target and that no other matching rule is more
\* specific than.
Deciding(rules, host, port, kind) ==
    LET M == {i \in DOMAIN rules : RuleMatches(rules[i], host, port, kind)}
    IN {rules[i] : i \in {j \in M : \A k \in M : Specificity(rules[k]) <= Specificity(rules[j])}}

\* Allowed: some rule decides and none of those that decide is a deny.
Allowed(rules, host, port, kind) ==
    LET D == Deciding(rules, host, port, kind)
    IN D # {} /\ \A r \in D : r.action # "deny"

\* What a file says of a CONNECT: a deny that decides, or nothing that decides,
\* denies; otherwise the action written in the deciding rules.
FileConnect(file, host, port) ==
    LET D == Deciding(file.rules, host, port, "connect")
    IN IF ~Allowed(file.rules, host, port, "connect") THEN {"deny"}
       ELSE {r.action : r \in D}
=============================================================================
