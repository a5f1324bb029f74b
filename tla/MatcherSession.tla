---------------------------- MODULE MatcherSession ----------------------------
(***************************************************************************)
(* One replay session driven by a caller: a tape of requests was recorded   *)
(* into a fixture, and requests are now replayed against it in any order.   *)
(***************************************************************************)
EXTENDS Matcher

CONSTANTS
  Names,     \* names of the requests a client may make
  Req,       \* Req[n]: the request of that name
  Tape,      \* the sequence of names that was recorded
  Mode,      \* "Once", "RepeatLast" or "Unlimited"
  MaxCalls   \* bound on the number of replayed requests

ASSUME SessionInputs ==
  /\ Names \cup ToSet(Tape) \subseteq DOMAIN Req
  /\ Mode \in {"Once", "RepeatLast", "Unlimited"}
  /\ MaxCalls \in Nat

VARIABLES session, answers   \* answers: the calls made, with their results

vars == <<session, answers>>

(* Exchanges whose redaction fails closed leave no flow.                    *)
RecordedTape == SelectSeq(Tape, LAMBDA n : Recordable(Req[n]))
Fixture == [i \in DOMAIN RecordedTape |-> Recorded(Req[RecordedTape[i]])]

Matching(n) == {i \in DOMAIN Fixture : Matches(Req[n], Fixture[i], TRUE)}

Init == session = NewSession /\ answers = <<>>

Call(n) ==
  LET result == Select(Matching(n), Mode, session) IN
  /\ Len(answers) < MaxCalls
  /\ session' = result.session
  /\ answers' = Append(answers, [name |-> n, verdict |-> result.verdict, index |-> result.index])

Next == \E n \in Names : Call(n)

Spec == Init /\ [][Next]_vars

-----------------------------------------------------------------------------
(* A request without its body, up to letter case and volatile headers.      *)
HeadOf(r) ==
  [method |-> r.method, path |-> Path(r), query |-> r.query,
   scheme |-> Lower(r.scheme), authority |-> Lower(r.authority),
   headers |-> NormalizeHeaders(r.headers, IgnoredHeaders)]

(* Request m is sent to the recorded origin and differs from n in secrets   *)
(* only: a recording keeps the same of both.                                *)
Twins(m, n) ==
  LET kept(k) == Recorded(Req[k]).request
      a == kept(m).body
      b == kept(n).body
  IN /\ HeadOf(kept(m)) = HeadOf(kept(n))
     /\ a = b \/ (Policy.json # <<>> /\ IsJson(a) /\ IsJson(b) /\ JsonValue(a) = JsonValue(b))
     /\ Lower(Req[m].scheme) = Lower(Upstream.scheme)
     /\ Lower(Req[m].authority) = Lower(Upstream.authority)

(* The requests replayed so far are those recorded, in their order, with    *)
(* whatever secrets.                                                        *)
InTapeOrder ==
  \A k \in DOMAIN answers : k \in DOMAIN RecordedTape /\ Twins(answers[k].name, RecordedTape[k])

(* The k-th call was answered with the k-th recorded flow.                  *)
OwnFlow(k) == answers[k].verdict = "Matched" /\ answers[k].index = k

(* Two kinds of request escape the wildcards.  Redaction of a body rewrites *)
(* the stored Content-Length and drops digests without a marker, and the    *)
(* matcher compares them with those of the live request; and the matcher    *)
(* removes redacted array elements one after the other, each of which moves *)
(* the elements behind it.                                                  *)
Framing(headers) ==
  LET named(n) == SelectSeq(headers, LAMBDA h : Lower(h.key) = n)
  IN [n \in {"content-length", "digest", "etag"} |-> [i \in DOMAIN named(n) |-> named(n)[i].value]]

SameFraming(n) == Framing(Req[n].headers) = Framing(Recorded(Req[n]).request.headers)

OneRedactedElement(n) ==
  LET body == Req[n].body
  IN body.kind = "array" => Cardinality({i \in DOMAIN body.items : Token(body, i) \in ToSet(Policy.json)}) <= 1

(* Replaying the recorded requests in the order they were recorded, in Once *)
(* mode, gives every one its own flow back whatever its secrets are, as     *)
(* long as every request so far has the framing headers its redacted form   *)
(* has and at most one redacted element per JSON array.                     *)
TapeReplays ==
  (Mode = "Once" /\ InTapeOrder) =>
    \A k \in DOMAIN answers :
      (\A j \in 1..k : SameFraming(answers[j].name) /\ OneRedactedElement(answers[j].name)) => OwnFlow(k)

(* "A redacted request field becomes a matcher wildcard ... so the          *)
(* recording still matches whatever the live request sends in that          *)
(* position": the same with neither exception, as docs/quickstart.md states *)
(* it.  The code does not do this.                                          *)
SecretsAreWildcards ==
  (Mode = "Once" /\ InTapeOrder) => \A k \in DOMAIN answers : OwnFlow(k)

(* "Matching candidates existed but all were consumed": a request reported  *)
(* as exhausted has a matching flow, and each one answered an earlier call. *)
ExhaustedMeansConsumed ==
  \A k \in DOMAIN answers : answers[k].verdict = "Exhausted" =>
    /\ Matching(answers[k].name) # {}
    /\ \A i \in Matching(answers[k].name) : \E j \in 1..(k - 1) : answers[j].index = i

=============================================================================
