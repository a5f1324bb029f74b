------------------------------- MODULE Scenario -------------------------------
(***************************************************************************)
(* Authored scenarios (eggreplay-core, scenario.rs): one bounded state      *)
(* machine per replay server.  Advance is the whole of                      *)
(* ScenarioRuntime::advance; the response it renders is abstracted to the   *)
(* variables its templates name.                                            *)
(***************************************************************************)
EXTENDS Matcher

CONSTANTS
  Transitions,   \* sequence of [from, when, extract, onFail, needs, next, fault];
                 \* extract: sequence of [name, kind, key, index]
  States,        \* declared state names
  InitialState,
  Segments(_),   \* non-empty segments of a path
  TooLong,       \* values longer than MAX_VALUE_BYTES
  MaxVariables   \* MAX_VARIABLES

(* How the response is spoiled: late, cut short, or replaced by an error.   *)
Faults == {"none", "delay", "truncated", "error"}

(* validate_transition; bounds on names, templates and headers are left out. *)
ValidTransition(t) ==
  /\ t.extract \in Seq(ToSet(t.extract)) /\ Len(t.extract) <= MaxVariables
  /\ t.fault \in Faults
  /\ \A i, j \in DOMAIN t.extract : t.extract[i].name = t.extract[j].name => i = j

(* ScenarioRules::validate.                                                 *)
ValidRules ==
  /\ InitialState \in States /\ MaxVariables \in Nat
  /\ Transitions \in Seq(ToSet(Transitions))
  /\ \A t \in ToSet(Transitions) : t.from \in States /\ t.next \in States /\ ValidTransition(t)

InitialRuntime == [state |-> InitialState, variables |-> <<>>]

PredicateHolds(p, r) ==
  CASE p.kind = "method" -> r.method = p.value
    [] p.kind = "path"   -> r.path = p.value
    [] p.kind = "query"  -> \E q \in ToSet(r.query) : q.key = p.key /\ q.value = p.value
    [] p.kind = "header" -> \E h \in ToSet(r.headers) : Lower(h.key) = Lower(p.key) /\ h.value = p.value

(* The source is protected by the redaction policy.                         *)
Protected(e) ==
  CASE e.kind = "query"  -> e.key \in Policy.query
    [] e.kind = "header" -> Lower(e.key) \in Policy.headers
    [] e.kind = "json"   -> e.key \in ToSet(Policy.json)
    [] OTHER             -> FALSE

(* extract_value: the values found, of which the first is taken.            *)
ExtractValue(e, r, variables) ==
  LET at(pairs, hit(_)) == LET found == SelectSeq(pairs, hit) IN [i \in DOMAIN found |-> found[i].value]
  IN IF Protected(e) THEN <<>> ELSE
     CASE e.kind = "path"    -> LET parts == Segments(r.path) IN IF e.index < Len(parts) THEN <<parts[e.index + 1]>> ELSE <<>>
       [] e.kind = "query"   -> at(r.query, LAMBDA q : q.key = e.key)
       [] e.kind = "header"  -> at(r.headers, LAMBDA h : Lower(h.key) = Lower(e.key))
       [] e.kind = "json"    -> IF IsJson(r.body) THEN at(r.body.items, LAMBDA i : i.key = e.key) ELSE <<>>
       [] e.kind = "prior"   -> IF e.key \in DOMAIN variables THEN <<variables[e.key]>> ELSE <<>>

(* BTreeMap::insert.                                                        *)
Insert(map, key, value) == [k \in DOMAIN map \cup {key} |-> IF k = key THEN value ELSE map[k]]

(* One extraction, unless an earlier one failed.                            *)
Extract(acc, e, r) ==
  LET found == ExtractValue(e, r, acc.variables) IN
  IF acc.verdict # "ok" THEN acc
  ELSE IF found = <<>> THEN [acc EXCEPT !.verdict = "missing"]
  ELSE IF found[1] \in TooLong THEN [acc EXCEPT !.verdict = "oversized"]
  ELSE [acc EXCEPT !.variables = Insert(@, e.name, found[1])]

(* The extractions in order, each seeing the earlier ones.                  *)
ExtractAll(t, r, variables) ==
  LET after[n \in 0..Len(t.extract)] ==
        IF n = 0 THEN [verdict |-> "ok", variables |-> variables]
        ELSE Extract(after[n - 1], t.extract[n], r)
  IN after[Len(t.extract)]

Applicable(rt, r) ==
  {i \in DOMAIN Transitions : /\ Transitions[i].from = rt.state
                              /\ \A p \in Transitions[i].when : PredicateHolds(p, r)}

NeedsJson(t) == \E e \in ToSet(t.extract) : e.kind = "json"

(* Mutant: the working variables are committed before the template renders. *)
AdvanceEager(rt, r) ==
  LET app == Applicable(rt, r) IN
  IF app = {} THEN [verdict |-> "none", runtime |-> rt, fault |-> "none"]
  ELSE LET t == Transitions[Min(app)]
           ex == ExtractAll(t, r, rt.variables)
       IN IF ex.verdict = "ok" /\ t.needs \subseteq DOMAIN ex.variables
          THEN [verdict |-> "step", runtime |-> [state |-> t.next, variables |-> ex.variables], fault |-> t.fault]
          ELSE [verdict |-> "error", runtime |-> [rt EXCEPT !.variables = ex.variables], fault |-> "none"]

(* Mutant: only the transition's own extractions are bounded.               *)
AdvanceUnbounded(rt, r) ==
  LET app == Applicable(rt, r)
      keep(v) == [verdict |-> v, runtime |-> rt, fault |-> "none"]
  IN IF app = {} THEN keep("none")
     ELSE LET t == Transitions[Min(app)]
              ex == ExtractAll(t, r, rt.variables)
          IN IF ex.verdict # "ok" THEN keep("error")
             ELSE [verdict |-> "step", runtime |-> [state |-> t.next, variables |-> ex.variables], fault |-> t.fault]

(* ScenarioRuntime::advance: the first applicable transition decides alone. *)
Advance(rt, r) ==
  LET app == Applicable(rt, r)
      keep(v) == [verdict |-> v, runtime |-> rt, fault |-> "none"]
  IN IF app = {} THEN keep("none")
     ELSE LET t == Transitions[Min(app)]
              ex == ExtractAll(t, r, rt.variables)
          IN IF Len(t.extract) + Cardinality(DOMAIN rt.variables) > MaxVariables THEN keep("limit")
             ELSE IF NeedsJson(t) /\ ~IsJson(r.body) THEN keep("error")
             ELSE IF ex.verdict = "missing" /\ t.onFail = "Skip" THEN keep("none")
             ELSE IF ex.verdict # "ok" \/ ~(t.needs \subseteq DOMAIN ex.variables) THEN keep("error")
             ELSE [verdict |-> "step", runtime |-> [state |-> t.next, variables |-> ex.variables], fault |-> t.fault]
=============================================================================
