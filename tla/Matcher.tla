------------------------------- MODULE Matcher -------------------------------
(***************************************************************************)
(* Request matching (eggreplay-core, matching.rs): what a recording keeps   *)
(* of a request, when a recorded flow matches a live request, and the       *)
(* consumption state of one replay session.  Both profiles the program      *)
(* offers, strict and practical, compare exact bytes and differ in          *)
(* IgnoredHeaders only.                                                     *)
(*                                                                         *)
(* A request is [method, scheme, authority, path, query, headers, body];    *)
(* query and headers are sequences of [key, value].  A body is              *)
(* [kind, items], items a sequence of [key, value], kind "empty", "opaque", *)
(* "form", "object" or "array" (a JSON array, its keys unused).             *)
(***************************************************************************)
EXTENDS Integers, Sequences, SequencesExt, FiniteSetsExt, Functions, TLC

CONSTANTS
  Lower(_),        \* to_ascii_lowercase
  SizeOf(_),       \* encoded length of a sequence of items
  IgnoredHeaders,  \* volatile headers of the profile, in lower case
  Policy,          \* RedactionConfig: [headers, query, json]; json is sorted
  Upstream         \* [scheme, authority] that recorded requests were sent to

Redacted == "<redacted>"
Empty == [kind |-> "empty", items |-> <<>>]
IsJson(body) == body.kind \in {"object", "array"}

-----------------------------------------------------------------------------
(* What a recording keeps of a request.                                     *)

(* The JSON Pointer of the i-th item, one level deep.                       *)
Token(body, i) == IF body.kind = "array" THEN ToString(i - 1) ELSE body.items[i].key

(* The pairs with the values at indices `hits` replaced.                    *)
RedactAt(pairs, hits) ==
  [i \in DOMAIN pairs |-> IF i \in hits THEN [pairs[i] EXCEPT !.value = Redacted] ELSE pairs[i]]

(* Structured redaction: JSON pointers for JSON media types, query keys for *)
(* forms, and no marker for an empty body.                                  *)
TransformBody(body) ==
  LET all == DOMAIN body.items IN
  CASE Policy.json # <<>> /\ IsJson(body) ->
         [body |-> [body EXCEPT !.items = RedactAt(@, {i \in all : Token(body, i) \in ToSet(Policy.json)})],
          json |-> Policy.json, form |-> {}]
    [] Policy.query # {} /\ body.kind = "form" ->
         [body |-> [body EXCEPT !.items = RedactAt(@, {i \in all : body.items[i].key \in Policy.query})],
          json |-> <<>>, form |-> Policy.query]
    [] OTHER -> [body |-> body, json |-> <<>>, form |-> {}]

(* JSON pointers were requested for a body that is not JSON: the exchange   *)
(* fails closed and is not recorded.                                        *)
Recordable(r) ==
  Policy.json = <<>> \/ r.body = Empty \/ IsJson(r.body) \/ (Policy.query # {} /\ r.body.kind = "form")

RedactHeaders(headers) == RedactAt(headers, {i \in DOMAIN headers : Lower(headers[i].key) \in Policy.headers})
RedactQuery(query) == RedactAt(query, {i \in DOMAIN query : query[i].key \in Policy.query})

(* After a body was transformed its digests and strong ETag are dropped and *)
(* Content-Length is replaced, at the end, by the stored length.            *)
ReconcileHeaders(headers, body) ==
  Append(SelectSeq(headers, LAMBDA h : Lower(h.key) \notin {"content-length", "digest", "etag"}),
         [key |-> "content-length", value |-> SizeOf(body.items)])

(* Mutant: the placeholder is stored and no marker says so.                 *)
RecordedUnmarked(r) ==
  [request |-> [r EXCEPT !.headers = RedactHeaders(@), !.query = RedactQuery(@)],
   headers |-> {}, query |-> {}, json |-> <<>>, form |-> {}]

(* The flow recorded for a request: the request as it was sent upstream,    *)
(* redacted, and the markers of what was redacted.                          *)
Recorded(r) ==
  LET t == TransformBody(r.body)
      kept == RedactHeaders(r.headers)
  IN [request |-> [r EXCEPT !.scheme = Upstream.scheme,
                            !.authority = Upstream.authority,
                            !.headers = IF t.json # <<>> \/ t.form # {}
                                        THEN ReconcileHeaders(kept, t.body) ELSE kept,
                            !.query = RedactQuery(@),
                            !.body = t.body],
      headers |-> {Lower(h.key) : h \in ToSet(r.headers)} \cap Policy.headers,
      query   |-> {q.key : q \in ToSet(r.query)} \cap Policy.query,
      json    |-> t.json,
      form    |-> t.form]

-----------------------------------------------------------------------------
(* Does a live request match a recorded flow?                               *)

(* Header values grouped by lower-case name, in order.                      *)
NormalizeHeaders(headers, ignored) ==
  LET group(n) == SelectSeq(headers, LAMBDA h : Lower(h.key) = n)
  IN [n \in {Lower(h.key) : h \in ToSet(headers)} \ ignored |->
        [i \in DOMAIN group(n) |-> group(n)[i].value]]

FilterPairs(pairs, keys) == SelectSeq(pairs, LAMBDA p : p.key \notin keys)

Path(r) == IF r.path = "" THEN "/" ELSE r.path

Dimensions(r, f) ==
  LET ignored == IgnoredHeaders \cup f.headers IN
  {d \in {"Authority", "Path", "Query", "Headers", "Method"} :
     CASE d = "Authority" -> \/ Lower(r.scheme) # Lower(f.request.scheme)
                             \/ Lower(r.authority) # Lower(f.request.authority)
       [] d = "Path"      -> Path(r) # Path(f.request)
       [] d = "Query"     -> FilterPairs(r.query, f.query) # FilterPairs(f.request.query, f.query)
       [] d = "Headers"   -> NormalizeHeaders(r.headers, ignored)
                             # NormalizeHeaders(f.request.headers, ignored)
       [] d = "Method"    -> r.method # f.request.method}

(* remove_json_pointer: the item leaves the object or array, so the later   *)
(* items of an array move down one index.                                   *)
RemovePointer(body, token) ==
  LET hit == {i \in DOMAIN body.items : Token(body, i) = token}
  IN IF hit = {} THEN body ELSE [body EXCEPT !.items = RemoveAt(@, Min(hit))]

(* The members of an object, or the elements of an array by their index:    *)
(* the order of an object's members does not count.                         *)
JsonValue(body) ==
  [kind |-> body.kind,
   items |-> {[key |-> Token(body, i), value |-> body.items[i].value] : i \in DOMAIN body.items}]

JsonRest(body, tokens) == JsonValue(FoldLeft(RemovePointer, body, tokens))

(* Equal bytes, or for a body with redaction markers, equal once the        *)
(* redacted parts are removed from both sides; that needs the stored body.  *)
BodyMatches(r, f, loadable) ==
  IF f.json = <<>> /\ f.form = {}
  THEN r.body = f.request.body
  ELSE /\ loadable
       /\ IF f.form # {} /\ r.body.kind = "form" /\ f.request.body.kind = "form"
          THEN FilterPairs(r.body.items, f.form) = FilterPairs(f.request.body.items, f.form)
          ELSE /\ IsJson(r.body) /\ IsJson(f.request.body)
               /\ JsonRest(r.body, f.json) = JsonRest(f.request.body, f.json)

Matches(r, f, loadable) == Dimensions(r, f) = {} /\ BodyMatches(r, f, loadable)

-----------------------------------------------------------------------------
(* MatcherSession: indices consumed so far, and the index pinned by         *)
(* RepeatLast (0 when none).                                                *)

NewSession == [consumed |-> {}, last |-> 0]

IsAvailable(s, i, mode) ==
  CASE mode = "Once"       -> i \notin s.consumed
    [] mode = "RepeatLast" -> IF s.last # 0 THEN i = s.last ELSE i \notin s.consumed
    [] mode = "Unlimited"  -> TRUE

Consume(s, i, mode) ==
  [consumed |-> IF mode = "Unlimited" THEN s.consumed ELSE s.consumed \cup {i},
   last     |-> IF mode = "RepeatLast" THEN i ELSE s.last]

(* Mutant: the search ends at the first matching candidate.                 *)
SelectFirst(match, mode, s) ==
  LET i == IF match = {} THEN 0 ELSE Min(match)
  IN IF i # 0 /\ IsAvailable(s, i, mode)
     THEN [verdict |-> "Matched", index |-> i, session |-> Consume(s, i, mode)]
     ELSE [verdict |-> IF match # {} THEN "Exhausted" ELSE "NoMatch", index |-> 0, session |-> s]

(* The scan in fixture order: the first matching candidate that is          *)
(* available; `match` is the set of indices of matching candidates.         *)
Select(match, mode, s) ==
  LET avail == {i \in match : IsAvailable(s, i, mode)}
  IN IF avail # {}
     THEN [verdict |-> "Matched", index |-> Min(avail), session |-> Consume(s, Min(avail), mode)]
     ELSE [verdict |-> IF match # {} THEN "Exhausted" ELSE "NoMatch", index |-> 0, session |-> s]
=============================================================================
