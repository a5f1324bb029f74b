-------------------------- MODULE ReplayServerProofs --------------------------
(***************************************************************************)
(* Proofs about ReplayServer, for any number of requests in flight, any     *)
(* fixture, any scenario rules and any limits.                              *)
(***************************************************************************)
EXTENDS ReplayServer, FiniteSetTheorems, WellFoundedInduction, TLAPS

(* A non-empty set of naturals has a least element, and Min is it.          *)
LEMMA MinExists ==
  ASSUME NEW S \in SUBSET Nat, S # {}
  PROVE  Min(S) \in S /\ \A n \in S : Min(S) <= n
<1> DEFINE R == {ss \in Nat \X Nat : ss[1] < ss[2]}
<1>1. IsWellFoundedOn(R, Nat)
  BY NatLessThanWellFounded DEF OpToRel
<1> HIDE DEF R
<1>2. PICK m \in S : \A n \in S : ~(<<n, m>> \in R)
  BY <1>1, WFMin
<1>3. \A n \in S : m <= n
  <2> TAKE n \in S
  <2>1. n \in Nat /\ m \in Nat
    OBVIOUS
  <2>2. ~(n < m)
    BY <1>2, <2>1 DEF R
  <2> QED BY <2>1, <2>2
<1> QED BY <1>3 DEF Min

(* Induction over the naturals, in terms of a set.                          *)
LEMMA NatInductionOnSet ==
  ASSUME NEW S \in SUBSET Nat, 0 \in S, \A n \in S : n + 1 \in S
  PROVE  S = Nat
<1> DEFINE T == Nat \ S
<1> SUFFICES ASSUME T # {} PROVE FALSE
  OBVIOUS
<1>1. Min(T) \in T /\ \A n \in T : Min(T) <= n
  BY MinExists
<1>2. Min(T) - 1 \in Nat /\ Min(T) - 1 < Min(T)
  BY <1>1
<1> QED BY <1>1, <1>2

-----------------------------------------------------------------------------
(* The scenario.                                                            *)

(* What extraction passes on: a verdict and the working variables.          *)
Accumulated(acc) == acc = [verdict |-> acc.verdict, variables |-> acc.variables]

(* One extraction adds at most one variable.                                *)
LEMMA ExtractAddsOne ==
  ASSUME NEW acc, NEW e, NEW r, Accumulated(acc), IsFiniteSet(DOMAIN acc.variables)
  PROVE  LET next == Extract(acc, e, r) IN
         /\ Accumulated(next) /\ IsFiniteSet(DOMAIN next.variables)
         /\ Cardinality(DOMAIN next.variables) <= Cardinality(DOMAIN acc.variables) + 1
<1> DEFINE next == Extract(acc, e, r)
           V == DOMAIN acc.variables
<1>1. PICK verdict, variables : acc = [verdict |-> verdict, variables |-> variables]
  BY DEF Accumulated
<1>2. Accumulated(next) /\ (DOMAIN next.variables = V \/ DOMAIN next.variables = V \cup {e.name})
  <2> DEFINE found == ExtractValue(e, r, acc.variables)
             grown == Insert(acc.variables, e.name, found[1])
  <2>1. DOMAIN grown = V \cup {e.name}
    BY DEF Insert
  <2>2. \/ next = acc
        \/ next = [acc EXCEPT !.verdict = "missing"]
        \/ next = [acc EXCEPT !.verdict = "oversized"]
        \/ next = [acc EXCEPT !.variables = grown]
    BY DEF Extract
  <2> HIDE DEF grown, next
  <2>3. \/ next = acc
        \/ next = [verdict |-> "missing", variables |-> variables]
        \/ next = [verdict |-> "oversized", variables |-> variables]
        \/ next = [verdict |-> verdict, variables |-> grown]
    BY <1>1, <2>2
  <2> QED BY <1>1, <2>1, <2>3 DEF Accumulated
<1>3. /\ IsFiniteSet(V) /\ Cardinality(V) \in Nat
      /\ IsFiniteSet(V \cup {e.name})
      /\ Cardinality(V \cup {e.name}) <= Cardinality(V) + 1
  <2>1. IsFiniteSet(V) /\ Cardinality(V) \in Nat
    BY FS_CardinalityType
  <2>2. /\ IsFiniteSet(V \cup {e.name})
        /\ Cardinality(V \cup {e.name}) \in {Cardinality(V), Cardinality(V) + 1}
    BY <2>1, FS_AddElement
  <2> QED BY <2>1, <2>2
<1> HIDE DEF next
<1>4. IsFiniteSet(DOMAIN next.variables) /\ Cardinality(DOMAIN next.variables) <= Cardinality(V) + 1
  <2> DEFINE D == DOMAIN next.variables
  <2>1. D = V \/ D = V \cup {e.name}
    BY <1>2
  <2> HIDE DEF D, V
  <2>2. Cardinality(V) <= Cardinality(V) + 1
    BY <1>3
  <2>3. IsFiniteSet(D) /\ Cardinality(D) <= Cardinality(V) + 1
    BY <1>3, <2>1, <2>2
  <2> QED BY <2>3 DEF D
<1> QED BY <1>2, <1>4 DEF next

(* A transition's extractions add at most one variable each.                *)
LEMMA ExtractAllBounded ==
  ASSUME NEW t, NEW r, NEW variables, Len(t.extract) \in Nat, IsFiniteSet(DOMAIN variables)
  PROVE  LET ex == ExtractAll(t, r, variables) IN
         /\ IsFiniteSet(DOMAIN ex.variables)
         /\ Cardinality(DOMAIN ex.variables) <= Len(t.extract) + Cardinality(DOMAIN variables)
<1> DEFINE base == [verdict |-> "ok", variables |-> variables]
           L == Len(t.extract)
           Rule(g, n) == IF n = 0 THEN base ELSE Extract(g[n - 1], t.extract[n], r)
           IsRun(g, m) == g = [n \in 0..m |-> Rule(g, n)]
           S == {m \in Nat : \E g : IsRun(g, m)}
<1>1. 0 \in S
  <2> DEFINE g == [n \in 0..0 |-> base]
  <2>1. \A n \in 0..0 : Rule(g, n) = base
    OBVIOUS
  <2>2. IsRun(g, 0)
    BY <2>1
  <2> QED BY <2>2
<1>2. ASSUME NEW m \in S PROVE m + 1 \in S
  <2>1. PICK g : IsRun(g, m)
    OBVIOUS
  <2> DEFINE last == Extract(g[m], t.extract[m + 1], r)
             h == [n \in 0..(m + 1) |-> IF n = m + 1 THEN last ELSE g[n]]
  <2>2. ASSUME NEW n \in 0..(m + 1) PROVE h[n] = Rule(h, n)
    <3>1. CASE n = m + 1
      <4>1. n # 0 /\ n - 1 = m /\ h[n - 1] = g[m]
        BY <3>1
      <4> QED BY <3>1, <4>1
    <3>2. CASE n = 0
      BY <3>2, <2>1
    <3>3. CASE n \in 1..m
      <4>1. n \in 0..m /\ n # 0 /\ n - 1 \in 0..m /\ n # m + 1 /\ n - 1 # m + 1
        BY <3>3
      <4>2. h[n - 1] = g[n - 1] /\ h[n] = g[n]
        BY <4>1
      <4>3. g[n] = Rule(g, n)
        BY <2>1, <4>1
      <4> QED BY <4>1, <4>2, <4>3
    <3> QED BY <3>1, <3>2, <3>3
  <2>3. IsRun(h, m + 1)
    BY <2>2
  <2>4. m + 1 \in Nat
    OBVIOUS
  <2> QED BY <2>3, <2>4
<1>3. S = Nat
  BY <1>1, <1>2, NatInductionOnSet
<1> DEFINE c == CHOOSE g : IsRun(g, L)
<1>4. IsRun(c, L)
  <2>1. \E g : IsRun(g, L)
    BY <1>3
  <2> QED BY <2>1
<1>5. ExtractAll(t, r, variables) = c[L]
  BY DEF ExtractAll
<1> HIDE DEF c
<1> DEFINE Good(n) == /\ Accumulated(c[n]) /\ IsFiniteSet(DOMAIN c[n].variables)
                      /\ Cardinality(DOMAIN c[n].variables) <= n + Cardinality(DOMAIN variables)
           B == {n \in Nat : n <= L => Good(n)}
<1>6. 0 \in B
  <2>1. c[0] = base
    BY <1>4
  <2>2. Cardinality(DOMAIN variables) \in Nat
    BY FS_CardinalityType
  <2> QED BY <2>1, <2>2 DEF Accumulated
<1>7. ASSUME NEW n \in B PROVE n + 1 \in B
  <2> SUFFICES ASSUME n + 1 <= L PROVE Good(n + 1)
    OBVIOUS
  <2>1. c[n + 1] = Extract(c[n], t.extract[n + 1], r)
    <3>1. n + 1 \in 0..L /\ n + 1 # 0 /\ (n + 1) - 1 = n
      OBVIOUS
    <3> QED BY <3>1, <1>4
  <2>2. Good(n)
    OBVIOUS
  <2>3. /\ Accumulated(c[n + 1]) /\ IsFiniteSet(DOMAIN c[n + 1].variables)
        /\ Cardinality(DOMAIN c[n + 1].variables) <= Cardinality(DOMAIN c[n].variables) + 1
    BY <2>1, <2>2, ExtractAddsOne
  <2>4. /\ Cardinality(DOMAIN c[n + 1].variables) \in Nat
        /\ Cardinality(DOMAIN c[n].variables) \in Nat /\ Cardinality(DOMAIN variables) \in Nat
    BY <2>2, <2>3, FS_CardinalityType
  <2>5. Cardinality(DOMAIN c[n + 1].variables) <= (n + 1) + Cardinality(DOMAIN variables)
    BY <2>2, <2>3, <2>4
  <2> QED BY <2>3, <2>5
<1>8. B = Nat
  BY <1>6, <1>7, NatInductionOnSet
<1>9. Good(L)
  BY <1>8
<1> QED BY <1>5, <1>9

(* The state a scenario may be in: declared, with a bounded variable map.   *)
RuntimeOK(rt) ==
  /\ rt.state \in States
  /\ IsFiniteSet(DOMAIN rt.variables)
  /\ Cardinality(DOMAIN rt.variables) <= MaxVariables

(* Only a step moves the scenario, and it keeps the limits.                 *)
LEMMA AdvanceSound ==
  ASSUME NEW rt, NEW r, RuntimeOK(rt)
  PROVE  LET step == Advance(rt, r) IN
         /\ RuntimeOK(step.runtime)
         /\ step.verdict # "step" => step.runtime = rt
<1> DEFINE app == Applicable(rt, r)
           t == Transitions[Min(app)]
           ex == ExtractAll(t, r, rt.variables)
           step == Advance(rt, r)
<1>1. CASE step.verdict # "step" /\ step.runtime = rt
  BY <1>1
<1>2. CASE ~(step.verdict # "step" /\ step.runtime = rt)
  <2>1. /\ app # {}
        /\ step = [verdict |-> "step", runtime |-> [state |-> t.next, variables |-> ex.variables], fault |-> t.fault]
        /\ ~(Len(t.extract) + Cardinality(DOMAIN rt.variables) > MaxVariables)
    BY <1>2 DEF Advance
  <2>2. t \in ToSet(Transitions)
    <3>1. Transitions \in Seq(ToSet(Transitions))
      BY ReplayAssumption DEF ValidRules
    <3>2. app \subseteq DOMAIN Transitions /\ DOMAIN Transitions \subseteq Nat
      BY <3>1 DEF Applicable
    <3>3. Min(app) \in DOMAIN Transitions
      BY <2>1, <3>2, MinExists
    <3> QED BY <3>3 DEF ToSet
  <2>3. /\ t.next \in States /\ t.extract \in Seq(ToSet(t.extract)) /\ MaxVariables \in Nat
    BY <2>2, ReplayAssumption DEF ValidRules, ValidTransition
  <2>4. Len(t.extract) \in Nat
    BY <2>3
  <2>5. /\ IsFiniteSet(DOMAIN rt.variables)
        /\ Cardinality(DOMAIN rt.variables) \in Nat
    BY FS_CardinalityType DEF RuntimeOK
  <2> HIDE DEF t, ex, app, step
  <2>6. /\ IsFiniteSet(DOMAIN ex.variables)
        /\ Cardinality(DOMAIN ex.variables) <= Len(t.extract) + Cardinality(DOMAIN rt.variables)
    BY <2>4, <2>5, ExtractAllBounded DEF ex
  <2>7. Cardinality(DOMAIN ex.variables) \in Nat
    BY <2>6, FS_CardinalityType
  <2>8. Cardinality(DOMAIN ex.variables) <= MaxVariables
    BY <2>1, <2>3, <2>4, <2>5, <2>6, <2>7
  <2>9. step.runtime.state = t.next /\ step.runtime.variables = ex.variables /\ step.verdict = "step"
    BY <2>1
  <2> QED BY <2>3, <2>6, <2>8, <2>9 DEF RuntimeOK, step
<1> QED BY <1>1, <1>2

-----------------------------------------------------------------------------
(* Selection.                                                               *)

(* The scan: a match is the first that is available, and consumed as the    *)
(* mode says; no match leaves the session as it was.                        *)
LEMMA SelectSound ==
  ASSUME NEW match \in SUBSET Nat, NEW mode, NEW s
  PROVE  LET res == Select(match, mode, s) IN
         \/ /\ res.verdict = "Matched" /\ res.index \in match /\ IsAvailable(s, res.index, mode)
            /\ \A i \in match : IsAvailable(s, i, mode) => res.index <= i
            /\ res.session = Consume(s, res.index, mode)
         \/ /\ res.verdict = "Exhausted" /\ match # {} /\ res.index = 0 /\ res.session = s
            /\ \A i \in match : ~IsAvailable(s, i, mode)
         \/ /\ res.verdict = "NoMatch" /\ match = {} /\ res.index = 0 /\ res.session = s
<1> DEFINE avail == {i \in match : IsAvailable(s, i, mode)}
<1>1. CASE avail = {}
  BY <1>1 DEF Select
<1>2. CASE avail # {}
  <2>1. Min(avail) \in avail /\ \A i \in avail : Min(avail) <= i
    BY <1>2, MinExists
  <2>2. Select(match, mode, s) =
          [verdict |-> "Matched", index |-> Min(avail), session |-> Consume(s, Min(avail), mode)]
    BY <1>2 DEF Select
  <2> QED BY <2>1, <2>2
<1> QED BY <1>1, <1>2

LEMMA TableMeaning ==
  ASSUME NEW n, NEW c, NEW flow, NEW loadable \in BOOLEAN
  PROVE  <<n, c, flow, loadable>> \in MatchTable <=>
           /\ n \in DOMAIN Setups /\ c \in DOMAIN Setups[n].req /\ flow \in FlowsOf(n)
           /\ Matches(Setups[n].req[c], flow, loadable)
<1> DEFINE of(m) == {t \in {m} \X (DOMAIN Setups[m].req) \X FlowsOf(m) \X BOOLEAN :
                       Matches(Setups[m].req[t[2]], t[3], t[4])}
           u == <<n, c, flow, loadable>>
<1>1. u \in MatchTable <=> \E m \in DOMAIN Setups : u \in of(m)
  BY DEF MatchTable
<1>2. ASSUME NEW m \in DOMAIN Setups
      PROVE  u \in of(m) <=> /\ m = n /\ c \in DOMAIN Setups[m].req /\ flow \in FlowsOf(m)
                              /\ Matches(Setups[m].req[c], flow, loadable)
  <2>1. u[2] = c /\ u[3] = flow /\ u[4] = loadable
    OBVIOUS
  <2>2. u \in {m} \X (DOMAIN Setups[m].req) \X FlowsOf(m) \X BOOLEAN <=>
          /\ m = n /\ c \in DOMAIN Setups[m].req /\ flow \in FlowsOf(m)
    OBVIOUS
  <2>3. u \in of(m) <=> /\ u \in {m} \X (DOMAIN Setups[m].req) \X FlowsOf(m) \X BOOLEAN
                        /\ Matches(Setups[m].req[u[2]], u[3], u[4])
    OBVIOUS
  <2> HIDE DEF u, of
  <2> QED BY <2>1, <2>2, <2>3
<1> HIDE DEF of, u
<1> QED BY <1>1, <1>2 DEF u

(* A flow that matches without its stored body matches with it.             *)
LEMMA HitsReadable ==
  ASSUME NEW n, NEW c, NEW flow, NEW loadable \in BOOLEAN, <<n, c, flow, loadable>> \in MatchTable
  PROVE  <<n, c, flow, TRUE>> \in MatchTable
<1>1. /\ n \in DOMAIN Setups /\ c \in DOMAIN Setups[n].req /\ flow \in FlowsOf(n)
      /\ Matches(Setups[n].req[c], flow, loadable)
  BY TableMeaning
<1>2. Matches(Setups[n].req[c], flow, TRUE)
  BY <1>1 DEF Matches, BodyMatches
<1> QED BY <1>1, <1>2, TableMeaning

-----------------------------------------------------------------------------
(* Types.                                                                   *)

Candidate == [flow : FlowsOf(setup), outcome : {"response", "error", "upgrade"},
              inAppend : BOOLEAN, by : Clients \cup {NoClient}]
Recording == [by : Clients, outcome : {"response", "error"}]

TypeInv ==
  /\ setup \in DOMAIN Setups
  /\ cands \in Seq(Candidate) /\ Len(Source) <= Len(cands)
  /\ recorded \in Seq(Recording)
  /\ session \in [consumed : SUBSET (DOMAIN cands), last : {0}]
  /\ RuntimeOK(runtime)
  /\ TypeOK
  /\ \A c \in Clients : pc[c] # "done" => c \in DOMAIN Setups[setup].req
  /\ \A c \in Clients : pc[c] = "push" => \E f \in ToSet(recorded) : f.by = c

LEMMA SetupFacts ==
  ASSUME NEW n \in DOMAIN Setups
  PROVE  /\ DOMAIN Setups[n].req \subseteq Clients
         /\ Setups[n].append \in BOOLEAN /\ Setups[n].scene \in BOOLEAN
         /\ Setups[n].source \in Seq(ToSet(Setups[n].source))
         /\ Len(Setups[n].source) \in Nat /\ DOMAIN Setups[n].source = 1..Len(Setups[n].source)
         /\ \A i \in DOMAIN Setups[n].source :
              /\ Setups[n].source[i].outcome \in {"response", "error", "upgrade"}
              /\ Setups[n].source[i].flow \in FlowsOf(n)
         /\ \A c \in DOMAIN Setups[n].req : Recorded(Setups[n].req[c]) \in FlowsOf(n)
<1>1. Setups[n] \in Range(Setups)
  BY DEF Range
<1>2. Setups[n].source \in Seq(ToSet(Setups[n].source))
  BY <1>1, ReplayAssumption
<1>3. Len(Setups[n].source) \in Nat /\ DOMAIN Setups[n].source = 1..Len(Setups[n].source)
  BY <1>2
<1>4. \A c \in DOMAIN Setups[n].req : Recorded(Setups[n].req[c]) \in FlowsOf(n)
  BY DEF FlowsOf
<1>5. \A i \in DOMAIN Setups[n].source : Setups[n].source[i].flow \in FlowsOf(n)
  BY DEF FlowsOf
<1> QED BY <1>1, <1>2, <1>3, <1>4, <1>5, ReplayAssumption

LEMMA InitTypes == Init => TypeInv
<1> SUFFICES ASSUME Init PROVE TypeInv
  OBVIOUS
<1>1. setup \in DOMAIN Setups
  BY DEF Init
<1>2. cands \in Seq(Candidate) /\ Len(cands) = Len(Source)
  <2>1. cands \in [1..Len(Source) -> Candidate]
    BY <1>1, SetupFacts DEF Init, Source, Candidate
  <2> QED BY <1>1, <2>1, SetupFacts DEF Source
<1>3. RuntimeOK(runtime)
  <2>1. runtime.state \in States /\ runtime.variables = <<>> /\ MaxVariables \in Nat
    BY ReplayAssumption DEF Init, InitialRuntime, ValidRules
  <2>2. DOMAIN runtime.variables = {}
    BY <2>1
  <2> QED BY <2>1, <2>2, FS_EmptySet DEF RuntimeOK
<1>4. session \in [consumed : SUBSET (DOMAIN cands), last : {0}]
  BY DEF Init, NewSession
<1>5. TypeOK
  BY <1>1, <1>2, <1>3, <1>4 DEF Init, TypeOK, RuntimeOK, Holding, NewSession
<1>6. recorded \in Seq(Recording)
  BY DEF Init
<1>7. \A c \in Clients : pc[c] \in {"idle", "done"} /\ (pc[c] # "done" => c \in DOMAIN Setups[setup].req)
  BY DEF Init
<1>8. Len(Source) <= Len(cands)
  BY <1>1, <1>2, SetupFacts DEF Source
<1> QED BY <1>1, <1>2, <1>3, <1>4, <1>5, <1>6, <1>7, <1>8 DEF TypeInv

Labels == {"idle", "scenario", "delay", "select", "render", "miss", "wait", "done"} \cup Holding
Statuses == {0, 101, 200, 400, 404, 409, 413, 500, 502, 503}

(* A step of a handler writes its own entries only.                         *)
Own(c) ==
  /\ pc' = [pc EXCEPT ![c] = pc'[c]] /\ pc'[c] \in Labels /\ pc[c] # "done"
  /\ answer' = [answer EXCEPT ![c] = answer'[c]] /\ answer'[c] \in Statuses
  /\ arc' = [arc EXCEPT ![c] = arc'[c]] /\ arc'[c] \in Clients \cup {NoClient}
  /\ served' = [served EXCEPT ![c] = served'[c]]
  /\ setup' = setup /\ lost' = lost

LEMMA StepOwn ==
  ASSUME TypeInv, NEW c \in Clients, Step(c) \/ Cancel(c)
  PROVE  Own(c)
<1> USE DEF TypeInv, TypeOK, Goto, Answer, DropArc, Holding, Labels, Statuses, Own
<1>1. CASE Receive(c)
  BY <1>1 DEF Receive
<1>2. CASE Scene(c)
  BY <1>2 DEF Scene, FaultStatus
<1>3. CASE DelayOver(c)
  BY <1>3 DEF DelayOver
<1>4. CASE Pick(c)
  <2>1. pc[c] = "select" /\ UNCHANGED <<arc, setup, lost>>
    BY <1>4 DEF Pick
  <2>2. \/ Answer(c, 502) \/ Goto(c, "render") \/ Answer(c, 409) \/ Answer(c, 404) \/ Goto(c, "miss")
    BY <1>4 DEF Pick
  <2> DEFINE i == Select(MatchSet(c), Mode, session).index
  <2>3. served' = [served EXCEPT ![c] = i]
    BY <1>4 DEF Pick
  <2> HIDE DEF i
  <2> QED BY <2>1, <2>2, <2>3
<1>5. CASE Render(c)
  BY <1>5 DEF Render
<1>6. CASE LockFor(c)
  <2>1. pc[c] = "miss" /\ UNCHANGED <<served, setup, lost>>
    BY <1>6 DEF LockFor
  <2>2. Goto(c, "wait") \/ Answer(c, 503)
    BY <1>6 DEF LockFor
  <2>3. UNCHANGED arc \/ \E i \in Clients : arc' = [arc EXCEPT ![c] = i]
    <3>1. \A l \in locks : l.id \in Clients
      OBVIOUS
    <3> QED BY <1>6, <3>1 DEF LockFor
  <2> QED BY <2>1, <2>2, <2>3
<1>7. CASE Acquire(c)
  BY <1>7 DEF Acquire
<1>8. CASE Recheck(c)
  <2>1. pc[c] = "recheck" /\ UNCHANGED <<setup, lost>>
    BY <1>8 DEF Recheck
  <2>2. \/ (\E i : served' = [served EXCEPT ![c] = i]) /\ (Answer(c, 502) \/ Answer(c, 200)) /\ DropArc(c)
        \/ Goto(c, "upstream") /\ UNCHANGED <<arc, served>>
    BY <1>8 DEF Recheck
  <2> QED BY <2>1, <2>2
<1>9. CASE Exchange(c)
  BY <1>9 DEF Exchange
<1>10. CASE Push(c)
  BY <1>10 DEF Push
<1>11. CASE Cancel(c)
  BY <1>11 DEF Cancel
<1> QED
  BY <1>1, <1>2, <1>3, <1>4, <1>5, <1>6, <1>7, <1>8, <1>9, <1>10, <1>11 DEF Step

(* The types of what a step of a handler shares with others.                *)
Shared ==
  /\ cands' \in Seq(Candidate) /\ Len(cands) <= Len(cands') /\ DOMAIN cands \subseteq DOMAIN cands'
  /\ \A i \in DOMAIN cands : cands'[i] = cands[i]
  /\ recorded' \in Seq(Recording) /\ ToSet(recorded) \subseteq ToSet(recorded')
  /\ session' \in [consumed : SUBSET (DOMAIN cands'), last : {0}]
  /\ RuntimeOK(runtime')
  /\ locks' \subseteq [key : Range(Setups[setup].req), id : Clients]

LEMMA OwnAndShared ==
  ASSUME TypeInv, NEW c \in Clients, Own(c), Shared, served'[c] \in 0..Len(cands'),
         pc'[c] = "push" => \E f \in ToSet(recorded') : f.by = c
  PROVE  TypeInv'
<1>1. setup \in DOMAIN Setups /\ setup' = setup /\ lost' = lost /\ Candidate' = Candidate /\ Source' = Source
  BY DEF TypeInv, Own, Candidate, Source
<1>2. Len(cands) \in Nat /\ Len(cands') \in Nat /\ Len(Source) \in Nat /\ Len(cands) <= Len(cands')
  BY <1>1, SetupFacts DEF TypeInv, Shared, Source
<1>3. Len(Source) <= Len(cands')
  BY <1>2 DEF TypeInv
<1>4. served' \in [Clients -> 0..Len(cands')]
  BY <1>2 DEF TypeInv, TypeOK, Own
<1>5. /\ pc' \in [Clients -> Labels] /\ answer' \in [Clients -> Statuses]
      /\ arc' \in [Clients -> Clients \cup {NoClient}]
  <2>1. /\ pc \in [Clients -> Labels] /\ answer \in [Clients -> Statuses]
        /\ arc \in [Clients -> Clients \cup {NoClient}]
    BY DEF TypeInv, TypeOK, Labels, Statuses
  <2> QED BY <2>1 DEF Own
<1>6. TypeOK'
  BY <1>1, <1>4, <1>5 DEF TypeInv, TypeOK, Shared, Labels, Statuses, RuntimeOK, Holding
<1>7. \A d \in Clients : pc'[d] # "done" => d \in DOMAIN Setups[setup].req
  BY DEF TypeInv, TypeOK, Own
<1>8. \A d \in Clients : pc'[d] = "push" => \E f \in ToSet(recorded') : f.by = d
  <2> SUFFICES ASSUME NEW d \in Clients, pc'[d] = "push" PROVE \E f \in ToSet(recorded') : f.by = d
    OBVIOUS
  <2>1. CASE d # c
    BY <2>1 DEF TypeInv, TypeOK, Own, Shared
  <2> QED BY <2>1
<1>9. RuntimeOK(runtime)'
  BY DEF Shared, RuntimeOK
<1> QED BY <1>1, <1>3, <1>6, <1>7, <1>8, <1>9 DEF TypeInv, Shared

LEMMA StepShared ==
  ASSUME TypeInv, NEW c \in Clients, Step(c) \/ Cancel(c)
  PROVE  Shared /\ served'[c] \in 0..Len(cands') /\ (pc'[c] = "push" => \E f \in ToSet(recorded') : f.by = c)
<1> DEFINE Goal == Shared /\ served'[c] \in 0..Len(cands') /\ (pc'[c] = "push" => \E f \in ToSet(recorded') : f.by = c)
<1>0. Own(c) /\ pc \in [Clients -> Labels] /\ served \in [Clients -> 0..Len(cands)]
  BY StepOwn DEF TypeInv, TypeOK, Labels
<1>l. /\ Len(cands) \in Nat /\ DOMAIN cands = 1..Len(cands) /\ setup \in DOMAIN Setups
  BY DEF TypeInv
<1>k. ASSUME UNCHANGED <<cands, recorded>>
      PROVE  /\ cands' \in Seq(Candidate) /\ Len(cands) <= Len(cands') /\ DOMAIN cands \subseteq DOMAIN cands'
             /\ \A i \in DOMAIN cands : cands'[i] = cands[i]
             /\ recorded' \in Seq(Recording) /\ ToSet(recorded) \subseteq ToSet(recorded')
  BY <1>k, <1>l DEF TypeInv
<1>1. CASE Receive(c) \/ DelayOver(c) \/ Render(c) \/ Acquire(c) \/ Cancel(c)
  <2>1. UNCHANGED <<cands, recorded, session, runtime, locks, served>> /\ pc'[c] # "push"
    BY <1>0, <1>1 DEF Receive, DelayOver, Render, Acquire, Cancel, Goto, Answer
  <2>2. Goal
    BY <1>0, <2>1, <1>k DEF TypeInv, TypeOK, Shared
  <2> QED BY <2>2
<1>2. CASE Scene(c)
  <2>1. UNCHANGED <<cands, recorded, session, locks, served>> /\ pc'[c] # "push"
    BY <1>0, <1>2 DEF Scene, Goto, Answer
  <2>2. RuntimeOK(runtime')
    BY <1>2, AdvanceSound DEF Scene, TypeInv
  <2>3. Goal
    BY <1>0, <2>1, <2>2, <1>k DEF TypeInv, TypeOK, Shared
  <2> QED BY <2>3
<1>3. CASE Pick(c)
  <2> DEFINE res == Select(MatchSet(c), Mode, session)
  <2>1. MatchSet(c) \subseteq 1..Len(cands)
    BY <1>l DEF MatchSet
  <2>2. MatchSet(c) \in SUBSET Nat
    BY <2>1
  <2>3. \/ res.index \in MatchSet(c) /\ res.session = Consume(session, res.index, Mode)
        \/ res.index = 0 /\ res.session = session
    BY <2>2, SelectSound
  <2>4. served' = [served EXCEPT ![c] = res.index] /\ session' = res.session
        /\ UNCHANGED <<cands, recorded, runtime, locks>>
    BY <1>3 DEF Pick
  <2>5. pc'[c] # "push"
    BY <1>0, <1>3 DEF Pick, Goto, Answer
  <2> HIDE DEF res
  <2>6. res.index \in 0..Len(cands)
    BY <1>l, <2>1, <2>3
  <2>7. session' \in [consumed : SUBSET (DOMAIN cands), last : {0}]
    <3>1. session \in [consumed : SUBSET (DOMAIN cands), last : {0}]
      BY DEF TypeInv
    <3>2. res.index \in DOMAIN cands => Consume(session, res.index, Mode) \in [consumed : SUBSET (DOMAIN cands), last : {0}]
      BY <3>1 DEF Consume, Mode
    <3> QED BY <1>l, <2>1, <2>3, <2>4, <3>1, <3>2
  <2>8. served'[c] = res.index
    BY <1>0, <2>4
  <2>9. Goal
    BY <2>4, <2>5, <2>6, <2>7, <2>8, <1>k DEF TypeInv, TypeOK, Shared
  <2> QED BY <2>9
<1>4. CASE LockFor(c)
  <2>1. UNCHANGED <<cands, recorded, session, runtime, served>> /\ pc'[c] # "push"
    BY <1>0, <1>4 DEF LockFor, Goto, Answer
  <2>2. Key(c) \in Range(Setups[setup].req)
    BY <1>4 DEF LockFor, TypeInv, Key, Ask, Range
  <2>3. locks' \subseteq [key : Range(Setups[setup].req), id : Clients]
    <3>1. locks \subseteq [key : Range(Setups[setup].req), id : Clients]
      BY DEF TypeInv, TypeOK
    <3>2. [key |-> Key(c), id |-> c] \in [key : Range(Setups[setup].req), id : Clients]
      BY <2>2
    <3>3. locks' \subseteq locks \cup {[key |-> Key(c), id |-> c]}
      BY <1>4 DEF LockFor
    <3> QED BY <3>1, <3>2, <3>3
  <2>4. Goal
    BY <1>0, <2>1, <2>3, <1>k DEF TypeInv, TypeOK, Shared
  <2> QED BY <2>4
<1>5. CASE Recheck(c)
  <2>1. UNCHANGED <<cands, recorded, session, runtime, locks>> /\ pc'[c] # "push"
    BY <1>0, <1>5 DEF Recheck, Goto, Answer
  <2>2. (\E i \in DOMAIN cands : served' = [served EXCEPT ![c] = i]) \/ served' = served
    BY <1>5 DEF Recheck
  <2>3. served'[c] \in 0..Len(cands)
    BY <1>0, <1>l, <2>2
  <2>4. Goal
    BY <2>1, <2>3, <1>k DEF TypeInv, TypeOK, Shared
  <2> QED BY <2>4
<1>6. CASE Exchange(c)
  <2>1. UNCHANGED <<cands, session, runtime, locks, served>>
    BY <1>6 DEF Exchange
  <2>2. CASE recorded' = recorded
    <3>1. pc'[c] # "push"
      <4>1. Answer(c, 502)
        <5>1. ASSUME NEW o, recorded' = Append(recorded, o) PROVE FALSE
          <6>1. recorded \in Seq(Recording)
            BY DEF TypeInv
          <6>2. Len(recorded') = Len(recorded) + 1 /\ Len(recorded) \in Nat
            BY <5>1, <6>1
          <6> QED BY <2>2, <6>2
        <5> QED BY <1>6, <5>1 DEF Exchange
      <4> QED BY <1>0, <4>1 DEF Answer
    <3> QED BY <1>0, <2>1, <2>2, <3>1, <1>k DEF TypeInv, TypeOK, Shared
  <2>3. ASSUME NEW o \in {"response", "error"}, recorded' = Append(recorded, [by |-> c, outcome |-> o])
        PROVE  Goal
    <3>1. [by |-> c, outcome |-> o] \in Recording /\ recorded \in Seq(Recording)
      BY DEF Recording, TypeInv
    <3>2. recorded' \in Seq(Recording)
      BY <2>3, <3>1
    <3>3. ToSet(recorded) \subseteq ToSet(recorded') /\ [by |-> c, outcome |-> o] \in ToSet(recorded')
      <4> DEFINE n == [by |-> c, outcome |-> o]
      <4> HIDE DEF n
      <4>1. recorded' = Append(recorded, n) /\ Len(recorded) \in Nat
        BY <2>3, <3>1 DEF n
      <4>2. /\ DOMAIN recorded = 1..Len(recorded) /\ DOMAIN recorded' = 1..(Len(recorded) + 1)
            /\ \A k \in DOMAIN recorded : recorded'[k] = recorded[k]
            /\ recorded'[Len(recorded) + 1] = n
        BY <3>1, <4>1
      <4>3. Len(recorded) + 1 \in DOMAIN recorded' /\ DOMAIN recorded \subseteq DOMAIN recorded'
        BY <4>1, <4>2
      <4> QED BY <4>2, <4>3 DEF ToSet, n
    <3>4. \E f \in ToSet(recorded') : f.by = c
      BY <3>3
    <3> QED BY <1>0, <1>l, <2>1, <3>2, <3>3, <3>4 DEF TypeInv, TypeOK, Shared
  <2> QED BY <1>6, <2>2, <2>3 DEF Exchange
<1>7. CASE Push(c)
  <2> DEFINE mine == CHOOSE f \in ToSet(recorded) : f.by = c
             new == [flow |-> Recorded(Ask(c)), outcome |-> mine.outcome, inAppend |-> TRUE, by |-> c]
  <2>1. mine \in ToSet(recorded)
    BY <1>7 DEF Push, TypeInv
  <2>2. mine.outcome \in {"response", "error"}
    <3>1. recorded \in Seq(Recording)
      BY DEF TypeInv
    <3> HIDE DEF mine
    <3>2. PICK k \in DOMAIN recorded : mine = recorded[k]
      BY <2>1 DEF ToSet
    <3>3. recorded[k] \in Recording
      BY <3>1
    <3> QED BY <3>2, <3>3 DEF Recording
  <2>3. c \in DOMAIN Setups[setup].req
    BY <1>7 DEF Push, TypeInv
  <2>4. Recorded(Ask(c)) \in FlowsOf(setup)
    BY <1>l, <2>3, SetupFacts DEF Ask
  <2>5. new \in Candidate
    BY <2>2, <2>4 DEF Candidate
  <2>6. cands' = Append(cands, new)
    BY <1>7 DEF Push
  <2> HIDE DEF new
  <2>7. cands' \in Seq(Candidate) /\ Len(cands') = Len(cands) + 1 /\ DOMAIN cands \subseteq DOMAIN cands'
        /\ \A i \in DOMAIN cands : cands'[i] = cands[i]
    BY <2>5, <2>6, <1>l DEF TypeInv
  <2>8. UNCHANGED <<recorded, session, runtime, locks, served>> /\ pc'[c] # "push"
    BY <1>0, <1>7 DEF Push, Answer
  <2>9. served'[c] \in 0..Len(cands')
    BY <1>0, <1>l, <2>7, <2>8
  <2>a. session' \in [consumed : SUBSET (DOMAIN cands'), last : {0}]
    BY <2>7, <2>8 DEF TypeInv
  <2>b. Goal
    BY <1>l, <2>7, <2>8, <2>9, <2>a DEF TypeInv, TypeOK, Shared
  <2> QED BY <2>b
<1> QED BY <1>1, <1>2, <1>3, <1>4, <1>5, <1>6, <1>7 DEF Step

LEMMA StepTypes ==
  ASSUME TypeInv, NEW c \in Clients, Step(c) \/ Cancel(c)
  PROVE  TypeInv'
BY StepOwn, StepShared, OwnAndShared

LEMMA NextTypes == TypeInv /\ [Next]_vars => TypeInv'
<1> SUFFICES ASSUME TypeInv, [Next]_vars PROVE TypeInv'
  OBVIOUS
<1>1. CASE UNCHANGED vars
  BY <1>1 DEF vars, TypeInv, TypeOK, RuntimeOK, Source, Candidate
<1>2. ASSUME NEW i \in DOMAIN Source, Damage(i) PROVE TypeInv'
  BY <1>2 DEF Damage, TypeInv, TypeOK, RuntimeOK, Source, Candidate
<1> QED BY <1>1, <1>2, StepTypes DEF Next

(* The type invariant and the scenario's limit: the state behind the        *)
(* server's one mutex stays sound over any number of transitions of any     *)
(* scenario, although each adds variables to the same map.                  *)
THEOREM StateStaysSound == Spec => []StateSound
<1>1. TypeInv => StateSound
  BY DEF TypeInv, RuntimeOK, StateSound, VariablesBounded
<1> QED BY <1>1, InitTypes, NextTypes, PTL DEF Spec

(* "Both failure modes leave the runtime untouched": a request that moves   *)
(* the scenario is answered by it, at once or after the delay, whatever the *)
(* rules and however the requests interleave.                               *)
THEOREM FailedAdvanceMovesNothing == Spec => FailedAdvanceKeepsState
<1>1. ASSUME TypeInv, Next, runtime' # runtime
      PROVE  \E c \in Clients : pc[c] = "scenario" /\ (answer'[c] \in {200, 502} \/ pc'[c] = "delay")
  <2>1. PICK c \in Clients : Scene(c)
    BY ZenonT(60), <1>1 DEF Next, Step, Cancel, Receive, DelayOver, Pick, Render, LockFor, Acquire, Recheck,
       Exchange, Push, Damage
  <2> DEFINE step == Advance(runtime, Ask(c))
  <2>2. runtime' = step.runtime
    BY <2>1 DEF Scene
  <2>3. step.verdict = "step"
    BY <1>1, <2>2, AdvanceSound DEF TypeInv
  <2>4. \/ step.fault = "delay" /\ Goto(c, "delay")
        \/ step.fault # "delay" /\ Answer(c, FaultStatus(step.fault))
    BY <2>1, <2>3 DEF Scene
  <2>5. answer'[c] \in {200, 502} \/ pc'[c] = "delay"
    BY <1>1, <2>4 DEF TypeInv, TypeOK, Goto, Answer, FaultStatus
  <2> QED BY <2>1, <2>5 DEF Scene
<1> QED BY <1>1, InitTypes, NextTypes, PTL DEF Spec, FailedAdvanceKeepsState

-----------------------------------------------------------------------------
(* Who is served what.                                                      *)

(* The fixture's flows stay where they were loaded.                         *)
SourceKept ==
  \A i \in DOMAIN Source :
    cands[i].flow = Source[i].flow /\ ~cands[i].inAppend /\ cands[i].by = NoClient

(* Every other candidate was recorded by a request, with the outcome it has *)
(* in the recording.                                                        *)
Appended ==
  \A i \in DOMAIN cands \ DOMAIN Source :
    /\ cands[i].inAppend /\ cands[i].by \in DOMAIN Setups[setup].req
    /\ cands[i].flow = Recorded(Ask(cands[i].by)) /\ Recordable(Ask(cands[i].by))
    /\ \E f \in ToSet(recorded) : f.by = cands[i].by /\ f.outcome = cands[i].outcome

(* Where a handler is says what it has.                                     *)
Progress ==
  \A c \in Clients :
    /\ served[c] # 0 => pc[c] \in {"render", "done"}
    /\ pc[c] = "render" => served[c] # 0 /\ cands[served[c]].outcome # "error"
    /\ answer[c] # 0 => pc[c] = "done"
    /\ pc[c] \in {"scenario", "delay"} => Setups[setup].scene
    /\ pc[c] \in {"miss", "wait"} \cup Holding => AppendMode
    /\ pc[c] = "push" => Recordable(Ask(c))

(* A sealed server's session is the set of flows it has served.             *)
Consumption ==
  ~AppendMode => session.consumed = {served[c] : c \in Clients} \ {0} /\ Len(cands) = Len(Source)

ServeInv == SourceKept /\ Appended /\ Progress /\ Consumption

LEMMA InitServe == Init => ServeInv /\ FlowServedOnce /\ HonestVerdict /\ ReplayedIsRecorded
<1> SUFFICES ASSUME Init PROVE ServeInv /\ FlowServedOnce /\ HonestVerdict /\ ReplayedIsRecorded
  OBVIOUS
<1>1. TypeInv
  BY InitTypes
<1>2. DOMAIN cands = DOMAIN Source
  BY DEF Init
<1>3. Len(cands) = Len(Source)
  BY <1>1, <1>2, SetupFacts DEF TypeInv, Source
<1>4. SourceKept /\ Appended
  BY <1>2 DEF Init, SourceKept, Appended
<1>5. Progress /\ Consumption
  BY <1>3 DEF Init, Progress, Consumption, NewSession, Holding
<1>6. FlowServedOnce /\ HonestVerdict /\ ReplayedIsRecorded
  BY DEF Init, FlowServedOnce, HonestVerdict, ReplayedIsRecorded
<1> QED BY <1>4, <1>5, <1>6 DEF ServeInv

(* Only Push adds a candidate.                                              *)
LEMMA StepCandidates ==
  ASSUME TypeInv, ServeInv, NEW c \in Clients, Step(c) \/ Cancel(c)
  PROVE  SourceKept' /\ Appended'
<1>0. Own(c) /\ Shared /\ setup \in DOMAIN Setups /\ setup' = setup
  BY StepOwn, StepShared DEF TypeInv, Own
<1>l. /\ Len(cands) \in Nat /\ DOMAIN cands = 1..Len(cands)
      /\ DOMAIN Source = 1..Len(Source) /\ Len(Source) \in Nat /\ Source' = Source
      /\ DOMAIN Source \subseteq DOMAIN cands
  BY <1>0, SetupFacts DEF TypeInv, Source
<1>1. SourceKept'
  BY <1>0, <1>l DEF Shared, SourceKept, ServeInv
<1>2. ASSUME NEW i \in DOMAIN cands \ DOMAIN Source
      PROVE  /\ cands'[i].inAppend /\ cands'[i].by \in DOMAIN Setups[setup].req
             /\ cands'[i].flow = Recorded(Setups[setup].req[cands'[i].by]) /\ Recordable(Setups[setup].req[cands'[i].by])
             /\ \E f \in ToSet(recorded') : f.by = cands'[i].by /\ f.outcome = cands'[i].outcome
  BY <1>0 DEF Shared, ServeInv, Appended, Ask
<1>3. CASE cands' = cands
  BY <1>0, <1>1, <1>l, <1>2, <1>3 DEF Appended, Ask
<1>4. CASE Push(c)
  <2> DEFINE mine == CHOOSE f \in ToSet(recorded) : f.by = c
             new == [flow |-> Recorded(Ask(c)), outcome |-> mine.outcome, inAppend |-> TRUE, by |-> c]
             n == Len(cands) + 1
  <2>1. mine \in ToSet(recorded) /\ mine.by = c
    BY <1>4 DEF Push, TypeInv
  <2>2. cands' = Append(cands, new) /\ UNCHANGED recorded
    BY <1>4 DEF Push
  <2>3. c \in DOMAIN Setups[setup].req /\ Recordable(Ask(c))
    BY <1>4 DEF Push, TypeInv, ServeInv, Progress
  <2> HIDE DEF mine
  <2>4. DOMAIN cands' = DOMAIN cands \cup {n} /\ cands'[n] = new
    <3> HIDE DEF new
    <3> QED BY <1>l, <2>2 DEF TypeInv
  <2>5. /\ cands'[n].inAppend /\ cands'[n].by = c /\ cands'[n].flow = Recorded(Ask(c))
        /\ \E f \in ToSet(recorded') : f.by = c /\ f.outcome = cands'[n].outcome
    BY <2>1, <2>2, <2>4
  <2> QED BY <1>0, <1>1, <1>l, <1>2, <2>3, <2>4, <2>5 DEF Appended, Ask
<1>5. cands' = cands \/ Push(c)
  BY DEF Step, Cancel, Receive, Scene, DelayOver, Pick, Render, LockFor, Acquire, Recheck, Exchange
<1> QED BY <1>1, <1>3, <1>4, <1>5

LEMMA StepProgress ==
  ASSUME TypeInv, ServeInv, NEW c \in Clients, Step(c) \/ Cancel(c)
  PROVE  Progress'
<1>0. /\ Own(c) /\ Shared /\ setup' = setup
      /\ pc \in [Clients -> Labels] /\ served \in [Clients -> 0..Len(cands)]
      /\ answer \in [Clients -> Statuses] /\ setup \in DOMAIN Setups
      /\ Len(cands) \in Nat /\ DOMAIN cands = 1..Len(cands)
  BY SMTT(60), StepOwn, StepShared DEF TypeInv, Own, TypeOK, Labels, Statuses
<1> DEFINE Good(d) ==
      /\ served'[d] # 0 => pc'[d] \in {"render", "done"}
      /\ pc'[d] = "render" => served'[d] # 0 /\ cands'[served'[d]].outcome # "error"
      /\ answer'[d] # 0 => pc'[d] = "done"
      /\ pc'[d] \in {"scenario", "delay"} => Setups[setup].scene
      /\ pc'[d] \in {"miss", "wait"} \cup Holding => AppendMode
      /\ pc'[d] = "push" => Recordable(Ask(d))
<1>1. ASSUME NEW d \in Clients, d # c PROVE Good(d)
  <2>1. pc'[d] = pc[d] /\ served'[d] = served[d] /\ answer'[d] = answer[d]
    BY <1>0, <1>1 DEF Own, TypeInv, TypeOK
  <2>2. served[d] # 0 => served[d] \in DOMAIN cands
    BY <1>0
  <2> QED BY <1>0, <2>1, <2>2 DEF Shared, ServeInv, Progress
<1>2. Good(c)
  <2>0. /\ pc[c] # "done" /\ answer[c] = 0
        /\ served[c] # 0 => pc[c] = "render"
        /\ pc[c] \in {"scenario", "delay"} => Setups[setup].scene
        /\ pc[c] \in {"miss", "wait"} \cup Holding => AppendMode
        /\ pc[c] = "push" => Recordable(Ask(c))
    BY <1>0 DEF Own, ServeInv, Progress
  <2>1. CASE pc'[c] = "done"
    BY <2>1 DEF Holding
  <2>2. CASE pc'[c] # "done" /\ ~Pick(c)
    <3>1. served'[c] = 0 /\ answer'[c] = 0 /\ pc'[c] # "render"
      BY <1>0, <2>0, <2>2 DEF Step, Cancel, Receive, Scene, DelayOver, Render, LockFor, Acquire, Recheck,
         Exchange, Push, Goto, Answer
    <3>2. pc'[c] \in {"scenario", "delay"} => Setups[setup].scene
      BY <1>0, <2>0, <2>2 DEF Step, Cancel, Receive, Scene, DelayOver, Render, LockFor, Acquire, Recheck,
         Exchange, Push, Goto, Answer
    <3>3. pc'[c] \in {"miss", "wait"} \cup Holding => AppendMode
      BY <1>0, <2>0, <2>2 DEF Step, Cancel, Receive, Scene, DelayOver, Render, LockFor, Acquire, Recheck,
         Exchange, Push, Goto, Answer, Holding
    <3>4. pc'[c] = "push" => Recordable(Ask(c))
      BY <1>0, <2>0, <2>2 DEF Step, Cancel, Receive, Scene, DelayOver, Render, LockFor, Acquire, Recheck,
         Exchange, Push, Goto, Answer
    <3> QED BY <3>1, <3>2, <3>3, <3>4
  <2>3. CASE pc'[c] # "done" /\ Pick(c)
    <3> DEFINE res == Select(MatchSet(c), Mode, session)
    <3>1. MatchSet(c) \in SUBSET Nat /\ MatchSet(c) \subseteq DOMAIN cands
      BY <1>0 DEF MatchSet
    <3>2. res.verdict = "Matched" => res.index \in DOMAIN cands
      BY <3>1, SelectSound
    <3>3. res.verdict # "Matched" => res.index = 0
      BY <3>1, SelectSound
    <3>4. /\ served' = [served EXCEPT ![c] = res.index] /\ cands' = cands
          /\ \/ res.verdict = "Matched" /\ cands[res.index].outcome # "error" /\ Goto(c, "render")
             \/ res.verdict = "NoMatch" /\ AppendMode /\ Goto(c, "miss")
      BY <1>0, <2>3 DEF Pick, Answer
    <3> HIDE DEF res
    <3>5. res.index \in DOMAIN cands => res.index # 0
      BY <1>0
    <3> QED BY <1>0, <2>0, <3>2, <3>3, <3>4, <3>5 DEF Goto, Holding
  <2> QED BY <2>1, <2>2, <2>3
<1>3. \A d \in Clients : Good(d)
  BY <1>1, <1>2
<1> QED BY <1>0, <1>3 DEF Progress, AppendMode, Ask

(* What a scan does to a sealed server: it serves a flow nobody was served, *)
(* or it changes nothing.                                                   *)
LEMMA SealedPick ==
  ASSUME TypeInv, ServeInv, ~AppendMode, NEW c \in Clients, Pick(c)
  PROVE  \/ /\ \E i \in DOMAIN cands : /\ \A d \in Clients : served[d] # i
                                       /\ served' = [served EXCEPT ![c] = i]
                                       /\ session'.consumed = session.consumed \cup {i}
            /\ answer'[c] \in {0, 502}
         \/ /\ UNCHANGED <<served, session>>
            /\ \/ MatchSet(c) = {} /\ answer'[c] = 404
               \/ /\ MatchSet(c) # {} /\ answer'[c] = 409
                  /\ \A i \in MatchSet(c) : \E d \in Clients \ {c} : served[d] = i
<1> DEFINE res == Select(MatchSet(c), Mode, session)
<1>0. /\ Len(cands) \in Nat /\ DOMAIN cands = 1..Len(cands) /\ Mode = "Once"
      /\ served \in [Clients -> 0..Len(cands)] /\ answer \in [Clients -> Statuses]
      /\ served[c] = 0 /\ answer[c] = 0 /\ pc[c] = "select"
  BY DEF TypeInv, TypeOK, Mode, ServeInv, Progress, Pick, Statuses
<1>1. MatchSet(c) \in SUBSET Nat /\ MatchSet(c) \subseteq DOMAIN cands
  BY <1>0 DEF MatchSet
<1>2. session.consumed = {served[d] : d \in Clients} \ {0}
  BY DEF ServeInv, Consumption
<1>3. served' = [served EXCEPT ![c] = res.index] /\ session' = res.session
  BY DEF Pick
<1>4. CASE res.verdict = "Matched"
  <2>1. /\ res.index \in MatchSet(c) /\ IsAvailable(session, res.index, Mode)
        /\ res.session = Consume(session, res.index, Mode)
    BY <1>1, <1>4, SelectSound
  <2>2. answer'[c] \in {0, 502}
    BY <1>0, <1>4 DEF Pick, Goto, Answer
  <2> HIDE DEF res
  <2>3. /\ res.index \in DOMAIN cands /\ res.index \notin session.consumed /\ res.index # 0
        /\ res.session.consumed = session.consumed \cup {res.index}
    BY <1>0, <1>1, <2>1 DEF IsAvailable, Consume
  <2>4. \A d \in Clients : served[d] # res.index
    BY <1>2, <2>3
  <2>5. PICK i : i = res.index
    OBVIOUS
  <2>6. session'.consumed = session.consumed \cup {i} /\ served' = [served EXCEPT ![c] = i]
    BY <1>3, <2>3, <2>5
  <2>7. i \in DOMAIN cands /\ \A d \in Clients : served[d] # i
    BY <2>3, <2>4, <2>5
  <2>8. \E j \in DOMAIN cands : /\ \A d \in Clients : served[d] # j
                                /\ served' = [served EXCEPT ![c] = j]
                                /\ session'.consumed = session.consumed \cup {j}
    <3> USE <2>7
    <3> WITNESS i \in DOMAIN cands
    <3> QED BY <2>6, <2>7
  <2> QED BY <2>2, <2>8
<1>5. CASE res.verdict # "Matched"
  <2>1. /\ res.index = 0 /\ res.session = session
        /\ \/ res.verdict = "Exhausted" /\ MatchSet(c) # {} /\ \A i \in MatchSet(c) : ~IsAvailable(session, i, Mode)
           \/ res.verdict = "NoMatch" /\ MatchSet(c) = {}
    BY <1>1, <1>5, SelectSound
  <2>2. \/ res.verdict = "Exhausted" /\ Answer(c, 409)
        \/ res.verdict = "NoMatch" /\ Answer(c, 404)
    BY <1>5 DEF Pick
  <2> HIDE DEF res
  <2>3. UNCHANGED <<served, session>>
    BY <1>0, <1>3, <2>1
  <2>4. \/ res.verdict = "Exhausted" /\ answer'[c] = 409
        \/ res.verdict = "NoMatch" /\ answer'[c] = 404
    BY <1>0, <2>2 DEF Answer
  <2>5. CASE res.verdict = "NoMatch"
    BY <2>1, <2>3, <2>4, <2>5
  <2>6. CASE res.verdict = "Exhausted"
    <3>1. \A i \in MatchSet(c) : i \in session.consumed
      BY <1>0, <2>1, <2>6 DEF IsAvailable
    <3>2. \A i \in MatchSet(c) : \E d \in Clients \ {c} : served[d] = i
      <4> TAKE i \in MatchSet(c)
      <4>1. PICK d \in Clients : served[d] = i /\ i # 0
        BY <1>2, <3>1
      <4> QED BY <1>0, <4>1
    <3> QED BY <2>1, <2>3, <2>4, <2>6, <3>2
  <2> QED BY <2>4, <2>5, <2>6
<1> QED BY <1>4, <1>5

(* Nothing else touches the books of a sealed server.                       *)
LEMMA SealedOther ==
  ASSUME TypeInv, ServeInv, ~AppendMode, NEW c \in Clients, Step(c) \/ Cancel(c), ~Pick(c)
  PROVE  UNCHANGED <<served, session, cands>> /\ answer'[c] \notin {404, 409}
<1>0. pc \in [Clients -> Labels] /\ answer \in [Clients -> Statuses] /\ Own(c)
  BY StepOwn DEF TypeInv, TypeOK, Labels, Statuses
<1>1. ~Recheck(c) /\ ~Push(c) /\ answer[c] = 0
  BY <1>0 DEF ServeInv, Progress, Recheck, Push, Holding, Own
<1> QED BY <1>0, <1>1 DEF Step, Cancel, Receive, Scene, DelayOver, Render, LockFor, Acquire,
           Exchange, Goto, Answer, FaultStatus

LEMMA StepServedOnce ==
  ASSUME TypeInv, ServeInv, FlowServedOnce, NEW c \in Clients, Step(c) \/ Cancel(c)
  PROVE  Consumption' /\ FlowServedOnce'
<1>0. Own(c) /\ setup' = setup /\ served \in [Clients -> 0..Len(cands)] /\ AppendMode' = AppendMode /\ Source' = Source
  BY StepOwn DEF TypeInv, Own, TypeOK, AppendMode, Source
<1>1. CASE AppendMode
  BY <1>0, <1>1 DEF Consumption, FlowServedOnce
<1>2. CASE ~AppendMode /\ UNCHANGED <<served, session, cands>>
  BY <1>0, <1>2 DEF Consumption, FlowServedOnce, ServeInv
<1>3. ASSUME ~AppendMode, Pick(c), NEW i \in DOMAIN cands, \A d \in Clients : served[d] # i,
             served' = [served EXCEPT ![c] = i], session'.consumed = session.consumed \cup {i}
      PROVE  Consumption' /\ FlowServedOnce'
  <2>0. i # 0 /\ served[c] = 0 /\ cands' = cands
    BY <1>3 DEF TypeInv, ServeInv, Progress, Pick
  <2>1. FlowServedOnce'
    BY <1>0, <1>3, <2>0 DEF FlowServedOnce
  <2>2. {served'[d] : d \in Clients} \ {0} = ({served[d] : d \in Clients} \ {0}) \cup {i}
    BY <1>0, <1>3, <2>0
  <2>3. Consumption'
    BY <1>0, <1>3, <2>0, <2>2 DEF Consumption, ServeInv
  <2> QED BY <2>1, <2>3
<1>4. CASE ~AppendMode /\ Pick(c)
  <2>1. cands' = cands
    BY <1>4 DEF Pick
  <2> QED BY <1>2, <1>3, <1>4, <2>1, SealedPick
<1> QED BY <1>1, <1>2, <1>4, SealedOther

(* Once served, for ever served.                                            *)
LEMMA ServedStays ==
  ASSUME TypeInv, ServeInv, NEW c \in Clients, Step(c) \/ Cancel(c), NEW d \in Clients, served[d] # 0
  PROVE  served'[d] = served[d]
<1>0. Own(c) /\ served \in [Clients -> 0..Len(cands)]
  BY StepOwn DEF TypeInv, TypeOK
<1>1. CASE d # c
  BY <1>0, <1>1 DEF Own
<1>2. CASE d = c
  <2>1. pc[c] = "render"
    BY <1>0, <1>2 DEF Own, ServeInv, Progress
  <2> QED BY <1>2, <2>1 DEF Step, Cancel, Receive, Scene, DelayOver, Pick, Render, LockFor, Acquire,
             Recheck, Exchange, Push
<1> QED BY <1>1, <1>2

(* Append-new never refuses a request for what the fixture holds.           *)
LEMMA AppendVerdicts ==
  ASSUME TypeInv, ServeInv, AppendMode, NEW c \in Clients, Step(c) \/ Cancel(c)
  PROVE  answer'[c] \notin {404, 409}
<1>0. pc \in [Clients -> Labels] /\ answer \in [Clients -> Statuses] /\ Own(c) /\ answer[c] = 0
  <2>1. pc \in [Clients -> Labels] /\ answer \in [Clients -> Statuses] /\ Own(c)
    BY StepOwn DEF TypeInv, TypeOK, Labels, Statuses
  <2> QED BY <2>1 DEF ServeInv, Progress, Own
<1>1. CASE Pick(c)
  <2> DEFINE res == Select(MatchSet(c), Mode, session)
  <2>1. MatchSet(c) \in SUBSET Nat /\ Mode = "Unlimited"
    BY DEF MatchSet, Mode, TypeInv
  <2>2. \A i : IsAvailable(session, i, Mode)
    BY <2>1 DEF IsAvailable
  <2>3. res.verdict # "Exhausted"
    BY <2>1, <2>2, SelectSound
  <2> QED BY <1>0, <1>1, <2>3 DEF Pick, Goto, Answer
<1>2. CASE ~Pick(c)
  <2>1. CASE Recheck(c)
    BY <1>0, <2>1 DEF Recheck, Goto, Answer
  <2>2. CASE Push(c)
    BY <1>0, <2>2 DEF Push, Answer
  <2>3. CASE ~Recheck(c) /\ ~Push(c)
    BY <1>0, <1>2, <2>3 DEF Step, Cancel, Receive, Scene, DelayOver, Render, LockFor, Acquire,
       Exchange, Goto, Answer, FaultStatus
  <2> QED BY <2>1, <2>2, <2>3
<1> QED BY <1>1, <1>2

(* The flows of the fixture that match c's request.                         *)
Flows(c) == {i \in DOMAIN Source : Hits(c, Source[i].flow, TRUE)}

HonestTo(c) ==
  /\ answer[c] = 404 => Flows(c) \subseteq lost
  /\ answer[c] = 409 => Flows(c) # {} /\ \A i \in Flows(c) \ lost : \E d \in Clients \ {c} : served[d] = i

LEMMA HonestParts == HonestVerdict <=> \A c \in Clients : HonestTo(c)
BY DEF HonestVerdict, HonestTo, Flows

LEMMA FlowsSame ==
  ASSUME setup' = setup, NEW c PROVE Flows(c)' = Flows(c)
BY DEF Flows, Source, Hits

LEMMA StepHonest ==
  ASSUME TypeInv, ServeInv, HonestVerdict, NEW c \in Clients, Step(c) \/ Cancel(c)
  PROVE  HonestVerdict'
<1>0. /\ Own(c) /\ setup' = setup /\ lost' = lost /\ Source' = Source /\ setup \in DOMAIN Setups
      /\ served \in [Clients -> 0..Len(cands)] /\ answer \in [Clients -> Statuses]
      /\ Len(cands) \in Nat /\ DOMAIN cands = 1..Len(cands)
  BY StepOwn DEF TypeInv, Own, TypeOK, Source, Statuses
<1>l. DOMAIN Source = 1..Len(Source) /\ Len(Source) \in Nat /\ DOMAIN Source \subseteq DOMAIN cands
  BY <1>0, SetupFacts DEF TypeInv, Source
<1>f. \A d : Flows(d)' = Flows(d) /\ 0 \notin Flows(d)
  <2> TAKE d
  <2>1. Flows(d)' = Flows(d)
    BY <1>0, FlowsSame
  <2>2. 0 \notin Flows(d)
    BY <1>l DEF Flows
  <2> QED BY <2>1, <2>2
<1>1. ASSUME NEW d \in Clients, d # c PROVE HonestTo(d)'
  <2>1. answer'[d] = answer[d] /\ HonestTo(d)
    BY <1>0, <1>1, HonestParts DEF Own
  <2>2. \A e \in Clients : served[e] # 0 => served'[e] = served[e]
    BY ServedStays
  <2> QED BY <1>0, <1>f, <2>1, <2>2 DEF HonestTo
<1>2. HonestTo(c)'
  <2>1. CASE answer'[c] \notin {404, 409}
    BY <2>1 DEF HonestTo
  <2>2. CASE answer'[c] \in {404, 409}
    <3>1. ~AppendMode /\ Pick(c)
      BY <2>2, AppendVerdicts, SealedOther
    <3>2. /\ UNCHANGED served
          /\ \/ MatchSet(c) = {} /\ answer'[c] = 404
             \/ /\ MatchSet(c) # {} /\ answer'[c] = 409
                /\ \A i \in MatchSet(c) : \E d \in Clients \ {c} : served[d] = i
      BY <2>2, <3>1, SealedPick
    <3>3. DOMAIN cands = DOMAIN Source /\ \A i \in DOMAIN Source : cands[i].flow = Source[i].flow
      BY <1>0, <1>l, <3>1 DEF ServeInv, Consumption, SourceKept
    <3>4. Flows(c) \ lost \subseteq MatchSet(c)
      BY <3>3 DEF Flows, MatchSet, Hits
    <3>5. MatchSet(c) \subseteq Flows(c)
      <4> SUFFICES ASSUME NEW i \in MatchSet(c) PROVE i \in Flows(c)
        OBVIOUS
      <4>1. i \in DOMAIN Source /\ <<setup, c, Source[i].flow, i \notin lost>> \in MatchTable
        BY <3>3 DEF MatchSet, Hits
      <4>2. <<setup, c, Source[i].flow, TRUE>> \in MatchTable
        BY <4>1, HitsReadable
      <4> QED BY <4>1, <4>2 DEF Flows, Hits
    <3> QED BY <1>0, <1>f, <3>2, <3>4, <3>5 DEF HonestTo
  <2> QED BY <2>1, <2>2
<1>3. \A d \in Clients : HonestTo(d)'
  BY <1>1, <1>2
<1> QED BY <1>3 DEF HonestVerdict, HonestTo, Flows

(* An answer of append-new, by the step that gives it.                      *)
LEMMA StepReplayed ==
  ASSUME TypeInv, ServeInv, ReplayedIsRecorded, NEW c \in Clients, Step(c) \/ Cancel(c)
  PROVE  ReplayedIsRecorded'
<1>0. /\ Own(c) /\ Shared /\ setup' = setup /\ setup \in DOMAIN Setups
      /\ served \in [Clients -> 0..Len(cands)] /\ answer \in [Clients -> Statuses]
      /\ pc \in [Clients -> Labels] /\ served'[c] \in 0..Len(cands')
      /\ Len(cands) \in Nat /\ DOMAIN cands = 1..Len(cands)
  BY StepOwn, StepShared DEF TypeInv, Own, TypeOK, Statuses, Labels
<1>l. DOMAIN Source = 1..Len(Source) /\ Len(Source) \in Nat /\ DOMAIN Source \subseteq DOMAIN cands
  BY <1>0, SetupFacts DEF TypeInv, Source
<1> DEFINE By(d) == IF served'[d] = 0 THEN d ELSE cands'[served'[d]].by
           Good(d) == \/ By(d) = NoClient
                      \/ Setups[setup].scene /\ served'[d] = 0
                      \/ \E f \in ToSet(recorded') : f.by = By(d) /\ f.outcome = "response"
<1>1. ASSUME NEW d \in Clients, d # c, AppendMode, answer'[d] = 200 PROVE Good(d)
  <2>1. answer[d] = 200 /\ served'[d] = served[d]
    BY <1>0, <1>1 DEF Own
  <2>2. By(d) = IF served[d] = 0 THEN d ELSE cands[served[d]].by
    BY <1>0, <2>1 DEF Shared
  <2> HIDE DEF By
  <2> QED BY <1>0, <1>1, <2>1, <2>2 DEF ReplayedIsRecorded, Shared
<1>2. ASSUME NEW i \in DOMAIN cands, cands[i].outcome = "response", served'[c] = i, cands' = cands, recorded' = recorded
      PROVE  Good(c)
  <2>1. By(c) = cands[i].by
    BY <1>0, <1>2
  <2>2. CASE i \in DOMAIN Source
    BY <2>1, <2>2 DEF ServeInv, SourceKept
  <2>3. CASE i \notin DOMAIN Source
    BY <1>2, <2>1, <2>3 DEF ServeInv, Appended
  <2> QED BY <2>2, <2>3
<1>3. ASSUME AppendMode, answer'[c] = 200 PROVE Good(c)
  <2>0. pc[c] # "done" /\ answer[c] = 0
    BY <1>0 DEF Own, ServeInv, Progress
  <2>1. CASE Scene(c) \/ DelayOver(c)
    <3>1. Setups[setup].scene /\ served'[c] = 0
      BY <2>1 DEF Scene, DelayOver, ServeInv, Progress
    <3> QED BY <3>1
  <2>2. CASE Render(c)
    <3>1. /\ served'[c] = served[c] /\ cands' = cands /\ recorded' = recorded
          /\ served[c] \in DOMAIN cands /\ cands[served[c]].outcome # "error"
      BY <1>0, <2>2 DEF Render, ServeInv, Progress
    <3>2. cands[served[c]].outcome # "upgrade"
      BY <1>0, <1>3, <2>2 DEF Render, Answer
    <3>3. cands[served[c]].outcome = "response"
      <4>1. cands[served[c]] \in Candidate
        BY <3>1 DEF TypeInv
      <4> QED BY <3>1, <3>2, <4>1 DEF Candidate
    <3> QED BY <1>2, <3>1, <3>3
  <2>3. CASE Recheck(c)
    <3>1. PICK i \in DOMAIN cands : /\ served' = [served EXCEPT ![c] = i] /\ cands[i].inAppend
                                    /\ Answer(c, IF cands[i].outcome = "error" THEN 502 ELSE 200)
      BY <1>0, <1>3, <2>0, <2>3 DEF Recheck, Goto
    <3>2. cands' = cands /\ recorded' = recorded /\ served'[c] = i /\ cands[i].outcome # "error"
      BY <1>0, <1>3, <2>3, <3>1 DEF Recheck, Answer
    <3>3. cands[i].outcome = "response"
      <4>1. i \notin DOMAIN Source
        BY <3>1 DEF ServeInv, SourceKept
      <4>2. \E f \in ToSet(recorded) : f.outcome = cands[i].outcome
        BY <4>1 DEF ServeInv, Appended
      <4>3. \A f \in ToSet(recorded) : f \in Recording
        BY DEF TypeInv, ToSet
      <4> QED BY <3>2, <4>2, <4>3 DEF Recording
    <3> QED BY <1>2, <3>2, <3>3
  <2>4. CASE Push(c)
    <3> DEFINE mine == CHOOSE f \in ToSet(recorded) : f.by = c
    <3>1. mine \in ToSet(recorded) /\ mine.by = c
      BY <2>4 DEF Push, TypeInv
    <3>2. /\ Answer(c, IF mine.outcome = "error" THEN 502 ELSE 200)
          /\ recorded' = recorded /\ served' = served
      BY <2>4 DEF Push
    <3> HIDE DEF mine
    <3>3. mine \in Recording
      BY <3>1 DEF TypeInv, ToSet
    <3>4. mine.outcome = "response"
      BY <1>0, <1>3, <3>2, <3>3 DEF Answer, Recording
    <3>5. served[c] = 0
      BY <2>4 DEF Push, ServeInv, Progress
    <3> QED BY <3>1, <3>2, <3>4, <3>5
  <2>5. CASE ~Scene(c) /\ ~DelayOver(c) /\ ~Render(c) /\ ~Recheck(c) /\ ~Push(c)
    BY <1>0, <1>3, <2>0, <2>5 DEF Step, Cancel, Receive, Pick, LockFor, Acquire, Exchange, Goto, Answer
  <2> QED BY <2>1, <2>2, <2>3, <2>4, <2>5
<1>4. \A d \in Clients : AppendMode /\ answer'[d] = 200 => Good(d)
  BY <1>1, <1>3
<1> QED BY <1>0, <1>4 DEF ReplayedIsRecorded, AppendMode

Promises == ServeInv /\ FlowServedOnce /\ HonestVerdict /\ ReplayedIsRecorded

LEMMA NextServe == TypeInv /\ Promises /\ [Next]_vars => Promises'
<1> SUFFICES ASSUME TypeInv, Promises, [Next]_vars PROVE Promises'
  OBVIOUS
<1> USE DEF Promises
<1>1. CASE UNCHANGED vars \/ \E i \in DOMAIN Source : Damage(i)
  <2>1. /\ UNCHANGED <<setup, cands, session, runtime, locks, arc, recorded, served, answer, pc>>
        /\ lost \subseteq lost'
    BY <1>1 DEF vars, Damage
  <2>2. ServeInv' /\ FlowServedOnce' /\ ReplayedIsRecorded'
    <3>1. SourceKept' /\ Appended'
      BY <2>1 DEF ServeInv, SourceKept, Appended, Source, Ask
    <3>2. Progress' /\ Consumption'
      BY <2>1 DEF ServeInv, Progress, Consumption, Source, Ask, AppendMode
    <3>3. FlowServedOnce' /\ ReplayedIsRecorded'
      BY <2>1 DEF FlowServedOnce, ReplayedIsRecorded, AppendMode
    <3> QED BY <3>1, <3>2, <3>3 DEF ServeInv
  <2>3. ASSUME NEW c \in Clients PROVE HonestTo(c)'
    <3>1. Flows(c)' = Flows(c) /\ HonestTo(c)
      BY <2>1, FlowsSame, HonestParts
    <3> QED BY <2>1, <3>1 DEF HonestTo
  <2>4. HonestVerdict'
    BY <2>3 DEF HonestVerdict, HonestTo, Flows
  <2> QED BY <2>2, <2>4
<1>3. ASSUME NEW c \in Clients, Step(c) \/ Cancel(c) PROVE Promises'
  BY <1>3, StepCandidates, StepProgress, StepServedOnce, StepHonest, StepReplayed DEF ServeInv
<1> QED BY <1>1, <1>3 DEF Next

(* "Each recorded flow serves once", for any number of concurrent requests  *)
(* against any fixture: the scan and the consumption are one step under the *)
(* state lock, and a served index never leaves the session.                 *)
THEOREM FlowsServedOnce == Spec => []FlowServedOnce
BY InitTypes, InitServe, NextTypes, NextServe, PTL DEF Spec, Promises

(* 404 and 409 of a sealed server mean what they say, although stored       *)
(* bodies may become unreadable between the requests.                       *)
THEOREM VerdictsHonest == Spec => []HonestVerdict
BY InitTypes, InitServe, NextTypes, NextServe, PTL DEF Spec, Promises

(* What append-new answers it also keeps, through any interleaving of       *)
(* misses, cancelled clients and failed exchanges.                          *)
THEOREM AnswersAreRecorded == Spec => []ReplayedIsRecorded
BY InitTypes, InitServe, NextTypes, NextServe, PTL DEF Spec, Promises

-----------------------------------------------------------------------------
(* The miss locks.                                                          *)

Queued == {"wait"} \cup Holding

(* A handler refers to a lock exactly while it waits for or holds it, and   *)
(* the registry knows that lock under the request's key.                    *)
Registered ==
  \A c \in Clients :
    /\ arc[c] # NoClient <=> pc[c] \in Queued
    /\ arc[c] # NoClient => [key |-> Key(c), id |-> arc[c]] \in locks

(* A lock is named by the client that made it, for its own key.             *)
Named == \A l \in locks : l.key = Key(l.id) /\ pc[l.id] \in Queued \cup {"done"}

(* One live lock per key, and one holder per lock.                          *)
OneLock == \A c, d \in Clients : arc[c] # NoClient /\ arc[d] # NoClient /\ Key(c) = Key(d) => arc[c] = arc[d]
OneHolder == \A c, d \in Clients : c # d /\ pc[c] \in Holding /\ pc[d] \in Holding => arc[c] # arc[d]

LockInv == Registered /\ Named /\ OneLock /\ OneHolder

LEMMA InitLock == Init => LockInv
BY DEF Init, LockInv, Registered, Named, OneLock, OneHolder, Queued, Holding

(* The lock c refers to is the lock of its key.                             *)
LEMMA ArcKey ==
  ASSUME LockInv, NEW c \in Clients, arc[c] # NoClient
  PROVE  Key(arc[c]) = Key(c)
BY DEF LockInv, Registered, Named

(* A handler that lets go of its lock, or moves on while it keeps it.       *)
LEMMA LockLeave ==
  ASSUME TypeInv, LockInv, NEW c \in Clients, Own(c), locks' = locks,
         \/ arc'[c] = NoClient /\ pc'[c] \notin Queued
            /\ (pc[c] \in Queued \cup {"done"} => pc'[c] = "done")
         \/ arc'[c] = arc[c] /\ pc[c] \in Queued /\ pc'[c] \in Holding
            /\ (pc[c] = "wait" => \A d \in Clients : arc[d] = arc[c] => pc[d] \notin Holding)
  PROVE  LockInv'
<1>0. /\ arc \in [Clients -> Clients \cup {NoClient}] /\ pc \in [Clients -> Labels]
      /\ setup' = setup /\ NoClient \notin Clients /\ Holding \subseteq Queued /\ "done" \notin Queued
      /\ \A l \in locks : l.id \in Clients
  BY ReplayAssumption DEF TypeInv, TypeOK, Labels, Own, Queued, Holding
<1>1. /\ \A d \in Clients : d # c => pc'[d] = pc[d] /\ arc'[d] = arc[d]
      /\ \A d : Key(d)' = Key(d)
  BY <1>0 DEF Own, Key, Ask
<1>2. arc'[c] = NoClient \/ arc'[c] = arc[c]
  OBVIOUS
<1>3. Registered'
  BY <1>0, <1>1 DEF LockInv, Registered, Key, Ask, Queued
<1>4. Named'
  BY <1>0, <1>1 DEF LockInv, Named, Key, Ask, Queued
<1>5. OneLock'
  BY <1>0, <1>1, <1>2 DEF LockInv, OneLock, Key, Ask
<1>6. OneHolder'
  BY <1>0, <1>1 DEF LockInv, OneHolder, Queued, Holding
<1> QED BY <1>3, <1>4, <1>5, <1>6 DEF LockInv

(* lock_for: the registry drops dead entries only, so the lock of a key     *)
(* that anyone waits for or holds is found again.                           *)
LEMMA LockJoin ==
  ASSUME TypeInv, LockInv, NEW c \in Clients, LockFor(c)
  PROVE  LockInv'
<1> DEFINE live == {l \in locks : \E d \in Clients : arc[d] = l.id}
           mine == {l \in live : l.key = Key(c)}
           new == [key |-> Key(c), id |-> c]
<1>0. /\ arc \in [Clients -> Clients \cup {NoClient}] /\ pc \in [Clients -> Labels]
      /\ setup' = setup /\ NoClient \notin Clients /\ Holding \subseteq Queued /\ "done" \notin Queued
      /\ \A l \in locks : l.id \in Clients
  BY ReplayAssumption DEF TypeInv, TypeOK, Labels, LockFor, Queued, Holding
<1>1. /\ pc[c] = "miss" /\ arc[c] = NoClient /\ \A d : Key(d)' = Key(d)
  BY <1>0 DEF LockFor, LockInv, Registered, Queued, Holding, Key, Ask
<1>2. ASSUME NEW d \in Clients, arc[d] # NoClient
      PROVE  [key |-> Key(d), id |-> arc[d]] \in live
  BY <1>2 DEF LockInv, Registered
<1>3. ASSUME NEW l \in mine, locks' = live, arc' = [arc EXCEPT ![c] = l.id], pc' = [pc EXCEPT ![c] = "wait"]
      PROVE  LockInv'
  <2>1. l \in locks /\ l.key = Key(c) /\ l.id \in Clients /\ l = [key |-> Key(c), id |-> l.id]
    BY <1>0 DEF TypeInv, TypeOK
  <2>2. PICK d \in Clients : arc[d] = l.id
    OBVIOUS
  <2>3. Key(d) = Key(c) /\ arc[d] # NoClient
    BY <1>0, <2>1, <2>2, ArcKey DEF LockInv, Named
  <2>4. /\ \A e \in Clients : e # c => pc'[e] = pc[e] /\ arc'[e] = arc[e]
        /\ pc'[c] = "wait" /\ arc'[c] = l.id /\ arc'[c] # NoClient
    BY <1>0, <1>3, <2>1
  <2>5. Registered'
    <3>1. ASSUME NEW e \in Clients
          PROVE  /\ arc'[e] # NoClient <=> pc'[e] \in Queued
                 /\ arc'[e] # NoClient => [key |-> Key(e), id |-> arc'[e]] \in locks'
      <4>1. CASE e = c
        BY <1>3, <2>1, <2>4, <4>1 DEF Queued
      <4>2. CASE e # c
        BY <1>2, <1>3, <2>4, <4>2 DEF LockInv, Registered
      <4> QED BY <4>1, <4>2
    <3> QED BY <1>1, <3>1 DEF Registered, Key, Ask, Queued
  <2>6. Named'
    BY <1>0, <1>1, <1>3, <2>4 DEF LockInv, Named, Key, Ask, Queued
  <2>7. OneLock'
    BY <1>0, <1>1, <2>2, <2>3, <2>4 DEF LockInv, OneLock, Key, Ask
  <2>8. OneHolder'
    BY <1>0, <2>4 DEF LockInv, OneHolder, Holding
  <2> QED BY <2>5, <2>6, <2>7, <2>8 DEF LockInv
<1>4. ASSUME mine = {}, locks' = live \cup {new}, arc' = [arc EXCEPT ![c] = c], pc' = [pc EXCEPT ![c] = "wait"]
      PROVE  LockInv'
  <2>1. \A d \in Clients : arc[d] # NoClient => Key(d) # Key(c)
    <3> SUFFICES ASSUME NEW d \in Clients, arc[d] # NoClient, Key(d) = Key(c) PROVE FALSE
      OBVIOUS
    <3>1. [key |-> Key(d), id |-> arc[d]] \in mine
      BY <1>2
    <3> QED BY <1>4, <3>1
  <2>2. /\ \A e \in Clients : e # c => pc'[e] = pc[e] /\ arc'[e] = arc[e]
        /\ pc'[c] = "wait" /\ arc'[c] = c /\ arc'[c] # NoClient
    BY <1>0, <1>4
  <2>3. Registered'
    <3>1. ASSUME NEW e \in Clients
          PROVE  /\ arc'[e] # NoClient <=> pc'[e] \in Queued
                 /\ arc'[e] # NoClient => [key |-> Key(e), id |-> arc'[e]] \in locks'
      <4>1. CASE e = c
        BY <1>4, <2>2, <4>1 DEF Queued
      <4>2. CASE e # c
        BY <1>2, <1>4, <2>2, <4>2 DEF LockInv, Registered
      <4> QED BY <4>1, <4>2
    <3> QED BY <1>1, <3>1 DEF Registered, Key, Ask, Queued
  <2>4. Named'
    BY <1>0, <1>1, <1>4, <2>2 DEF LockInv, Named, Key, Ask, Queued
  <2>5. OneLock'
    BY <1>0, <1>1, <2>1, <2>2 DEF LockInv, OneLock, Key, Ask
  <2>6. OneHolder'
    BY <1>0, <2>2 DEF LockInv, OneHolder, Holding
  <2> QED BY <2>3, <2>4, <2>5, <2>6 DEF LockInv
<1>5. ASSUME locks' = live, arc' = arc, pc' = [pc EXCEPT ![c] = "done"] PROVE LockInv'
  <2>2. /\ \A e \in Clients : e # c => pc'[e] = pc[e]
        /\ pc'[c] = "done"
    BY <1>0, <1>5
  <2>3. Registered'
    <3>1. ASSUME NEW e \in Clients
          PROVE  /\ arc'[e] # NoClient <=> pc'[e] \in Queued
                 /\ arc'[e] # NoClient => [key |-> Key(e), id |-> arc'[e]] \in locks'
      BY <1>0, <1>1, <1>2, <1>5, <2>2 DEF LockInv, Registered
    <3> QED BY <1>1, <3>1 DEF Registered, Key, Ask, Queued
  <2>4. Named'
    BY <1>0, <1>1, <1>5, <2>2 DEF LockInv, Named, Key, Ask, Queued
  <2>5. OneLock'
    BY <1>0, <1>1, <1>5 DEF LockInv, OneLock, Key, Ask
  <2>6. OneHolder'
    BY <1>0, <1>5, <2>2 DEF LockInv, OneHolder, Holding
  <2> QED BY <2>3, <2>4, <2>5, <2>6 DEF LockInv
<1> QED BY <1>3, <1>4, <1>5 DEF LockFor, Goto, Answer

LEMMA NextLock == TypeInv /\ LockInv /\ [Next]_vars => LockInv'
<1> SUFFICES ASSUME TypeInv, LockInv, [Next]_vars PROVE LockInv'
  OBVIOUS
<1>1. CASE UNCHANGED vars \/ \E i \in DOMAIN Source : Damage(i)
  <2>1. UNCHANGED <<setup, locks, arc, pc>>
    BY <1>1 DEF vars, Damage
  <2> QED BY <2>1 DEF LockInv, Registered, Named, OneLock, OneHolder, Key, Ask, Queued
<1>2. ASSUME NEW c \in Clients, Step(c) \/ Cancel(c) PROVE LockInv'
  <2>0. /\ Own(c) /\ pc \in [Clients -> Labels] /\ arc \in [Clients -> Clients \cup {NoClient}]
    BY <1>2, StepOwn DEF TypeInv, TypeOK, Labels
  <2>1. CASE Receive(c) \/ Scene(c) \/ DelayOver(c) \/ Pick(c) \/ Render(c)
    <3>1. /\ pc[c] \in {"idle", "scenario", "delay", "select", "render"} /\ UNCHANGED <<locks, arc>>
          /\ pc'[c] \notin Queued
      BY <2>0, <2>1 DEF Receive, Scene, DelayOver, Pick, Render, Goto, Answer, Queued, Holding
    <3>2. arc[c] = NoClient
      BY <3>1 DEF LockInv, Registered, Queued, Holding
    <3> QED BY <2>0, <3>1, <3>2, LockLeave DEF Queued, Holding
  <2>2. CASE Acquire(c)
    <3>1. /\ pc[c] = "wait" /\ UNCHANGED <<locks, arc>> /\ pc'[c] = "recheck"
          /\ \A d \in Clients : arc[d] = arc[c] => pc[d] \notin Holding
      BY <2>0, <2>2 DEF Acquire, Goto
    <3> QED BY <2>0, <3>1, LockLeave DEF Queued, Holding
  <2>3. CASE Recheck(c) \/ Exchange(c) \/ Push(c)
    <3>1. /\ pc[c] \in Holding /\ UNCHANGED locks
          /\ \/ pc'[c] = "done" /\ arc'[c] = NoClient
             \/ pc'[c] \in Holding /\ arc'[c] = arc[c]
      BY <2>0, <2>3 DEF Recheck, Exchange, Push, Goto, Answer, DropArc, Holding
    <3> QED BY <2>0, <3>1, LockLeave DEF Queued, Holding
  <2>4. CASE Cancel(c)
    <3>1. UNCHANGED locks /\ pc'[c] = "done" /\ arc'[c] = NoClient
      BY <2>0, <2>4 DEF Cancel, DropArc
    <3> QED BY <2>0, <3>1, LockLeave DEF Queued, Holding
  <2> QED BY <1>2, <2>1, <2>2, <2>3, <2>4, LockJoin DEF Step
<1> QED BY <1>1, <1>2 DEF Next

LEMMA LocksExclude == LockInv => MissExclusive
<1> SUFFICES ASSUME LockInv, NEW c \in Clients, NEW d \in Clients, c # d,
                    pc[c] \in Holding, pc[d] \in Holding, Key(c) = Key(d)
             PROVE  FALSE
  BY DEF MissExclusive
<1>1. arc[c] # NoClient /\ arc[d] # NoClient
  BY DEF LockInv, Registered, Queued
<1> QED BY <1>1 DEF LockInv, OneLock, OneHolder

-----------------------------------------------------------------------------
(* One recording per miss.                                                  *)

(* A request that can be recorded is matched by its own recording.          *)
SelfMatching ==
  \A n \in DOMAIN Setups : \A c \in DOMAIN Setups[n].req :
    Recordable(Setups[n].req[c]) => Matches(Setups[n].req[c], Recorded(Setups[n].req[c]), TRUE)

(* The fixture has nothing readable for a request that missed.              *)
Missed ==
  \A c \in Clients : pc[c] \in {"miss"} \cup Queued =>
    \A i \in DOMAIN Source : ~Hits(c, Source[i].flow, i \notin lost)

(* Past the second look, nobody has recorded the request.                   *)
Fresh ==
  \A c \in Clients : pc[c] \in {"upstream", "push"} =>
    \A i \in DOMAIN cands : cands[i].inAppend => Key(cands[i].by) # Key(c)

MissInv == Missed /\ Fresh /\ OneCandidatePerKey

LEMMA InitMiss == Init => MissInv
BY DEF Init, MissInv, Missed, Fresh, OneCandidatePerKey, Queued, Holding

LEMMA StepMissed ==
  ASSUME TypeInv, ServeInv, MissInv, [Next]_vars
  PROVE  Missed'
<1>1. CASE UNCHANGED vars \/ \E i \in DOMAIN Source : Damage(i)
  <2>1. UNCHANGED <<setup, pc>> /\ lost \subseteq lost'
    BY <1>1 DEF vars, Damage
  <2> SUFFICES ASSUME NEW c \in Clients, pc[c] \in {"miss"} \cup Queued, NEW i \in DOMAIN Source,
                      <<setup, c, Source[i].flow, i \notin lost'>> \in MatchTable
               PROVE  FALSE
    BY <2>1 DEF Missed, Source, Hits, Queued
  <2>2. <<setup, c, Source[i].flow, i \notin lost>> \notin MatchTable
    BY DEF MissInv, Missed, Hits
  <2>3. i \in lost' /\ i \notin lost
    BY <2>1, <2>2
  <2>4. <<setup, c, Source[i].flow, FALSE>> \in MatchTable
    BY <2>3
  <2>5. <<setup, c, Source[i].flow, TRUE>> \in MatchTable
    BY <2>4, HitsReadable
  <2> QED BY <2>2, <2>3, <2>5
<1>2. ASSUME NEW c \in Clients, Step(c) \/ Cancel(c) PROVE Missed'
  <2>0. /\ Own(c) /\ pc \in [Clients -> Labels] /\ setup' = setup /\ lost' = lost /\ Source' = Source
        /\ DOMAIN Source \subseteq DOMAIN cands /\ Len(cands) \in Nat /\ DOMAIN cands = 1..Len(cands)
    BY <1>2, StepOwn, SetupFacts DEF TypeInv, TypeOK, Labels, Own, Source
  <2>1. ASSUME pc'[c] \in {"miss"} \cup Queued, NEW i \in DOMAIN Source
        PROVE  <<setup, c, Source[i].flow, i \notin lost>> \notin MatchTable
    <3>1. CASE pc[c] \in {"miss"} \cup Queued
      BY <3>1 DEF MissInv, Missed, Hits
    <3>2. CASE pc[c] \notin {"miss"} \cup Queued
      <4> DEFINE res == Select(MatchSet(c), Mode, session)
      <4>1. Pick(c)
        BY <1>2, <2>0, <2>1, <3>2 DEF Step, Cancel, Receive, Scene, DelayOver, Render, LockFor, Acquire,
           Recheck, Exchange, Push, Goto, Answer, Queued, Holding
      <4>2. res.verdict = "NoMatch"
        BY <2>0, <2>1, <4>1 DEF Pick, Goto, Answer, Queued, Holding
      <4>3. MatchSet(c) \in SUBSET Nat
        BY <2>0 DEF MatchSet
      <4>4. MatchSet(c) = {}
        BY <4>2, <4>3, SelectSound
      <4>5. cands[i].flow = Source[i].flow /\ i \in DOMAIN cands
        BY <2>0 DEF ServeInv, SourceKept
      <4> QED BY <4>4, <4>5 DEF MatchSet, Hits
    <3> QED BY <3>1, <3>2
  <2>2. ASSUME NEW d \in Clients, d # c, pc'[d] \in {"miss"} \cup Queued, NEW i \in DOMAIN Source
        PROVE  <<setup, d, Source[i].flow, i \notin lost>> \notin MatchTable
    BY <2>0, <2>2 DEF Own, MissInv, Missed, Hits
  <2>3. \A d \in Clients : pc'[d] \in {"miss"} \cup Queued =>
          \A i \in DOMAIN Source : <<setup, d, Source[i].flow, i \notin lost>> \notin MatchTable
    BY <2>1, <2>2
  <2> QED BY <2>0, <2>3 DEF Missed, Hits, Queued
<1> QED BY <1>1, <1>2 DEF Next

(* The second look under the miss lock finds what another request of the    *)
(* same key recorded meanwhile.                                             *)
LEMMA RecheckFinds ==
  ASSUME TypeInv, ServeInv, MissInv, SelfMatching, NEW c \in Clients, Recheck(c), pc'[c] = "upstream",
         NEW i \in DOMAIN cands, cands[i].inAppend, Key(cands[i].by) = Key(c)
  PROVE  FALSE
<1> DEFINE res == Select(MatchSet(c), "Unlimited", session)
<1>0. /\ setup \in DOMAIN Setups /\ c \in DOMAIN Setups[setup].req /\ pc[c] = "recheck"
      /\ Len(cands) \in Nat /\ DOMAIN cands = 1..Len(cands) /\ lost \subseteq DOMAIN Source
      /\ pc \in [Clients -> Labels]
  BY DEF TypeInv, TypeOK, Recheck, Labels
<1>1. i \notin DOMAIN Source
  BY DEF ServeInv, SourceKept
<1>2. cands[i].flow = Recorded(Ask(c)) /\ Recordable(Ask(c))
  BY <1>1 DEF ServeInv, Appended, Key
<1>3. Matches(Ask(c), cands[i].flow, TRUE) /\ cands[i].flow \in FlowsOf(setup)
  BY <1>0, <1>2, SetupFacts DEF SelfMatching, Ask
<1>4. <<setup, c, cands[i].flow, TRUE>> \in MatchTable
  BY <1>0, <1>3, TableMeaning DEF Ask
<1>5. i \notin lost
  BY <1>0, <1>1
<1>6. i \in MatchSet(c)
  BY <1>4, <1>5 DEF MatchSet, Hits
<1>7. MatchSet(c) \in SUBSET Nat /\ MatchSet(c) \subseteq DOMAIN cands
  BY <1>0 DEF MatchSet
<1>8. IsAvailable(session, i, "Unlimited")
  BY DEF IsAvailable
<1>9. res.index \in MatchSet(c)
  BY <1>6, <1>7, <1>8, SelectSound
<1>10. res.index \notin DOMAIN Source
  <2>1. <<setup, c, cands[res.index].flow, res.index \notin lost>> \in MatchTable
    BY <1>9 DEF MatchSet, Hits
  <2>2. \A j \in DOMAIN Source : <<setup, c, cands[j].flow, j \notin lost>> \notin MatchTable
    BY <1>0 DEF MissInv, Missed, ServeInv, SourceKept, Hits, Queued, Holding
  <2> QED BY <2>1, <2>2
<1>11. res.index \in DOMAIN cands /\ cands[res.index].inAppend
  BY <1>7, <1>9, <1>10 DEF ServeInv, Appended
<1>12. {j \in DOMAIN cands : j = res.index /\ cands[j].inAppend} # {}
  BY <1>11
<1> QED BY <1>0, <1>12 DEF Recheck, Answer

LEMMA StepMiss ==
  ASSUME TypeInv, ServeInv, LockInv, MissInv, SelfMatching, NEW c \in Clients, Step(c) \/ Cancel(c)
  PROVE  Fresh' /\ OneCandidatePerKey'
<1>0. /\ Own(c) /\ Shared /\ pc \in [Clients -> Labels] /\ setup' = setup
      /\ Len(cands) \in Nat /\ DOMAIN cands = 1..Len(cands)
      /\ \A d : Key(d)' = Key(d)
  BY StepOwn, StepShared DEF TypeInv, TypeOK, Labels, Own, Key, Ask
<1>1. \A d \in Clients : d # c => pc'[d] = pc[d]
  BY <1>0 DEF Own
<1>2. CASE cands' = cands
  <2>1. OneCandidatePerKey'
    BY <1>0, <1>2 DEF MissInv, OneCandidatePerKey, Key, Ask
  <2>2. ASSUME NEW d \in Clients, pc'[d] \in {"upstream", "push"}, NEW i \in DOMAIN cands, cands[i].inAppend
        PROVE  Key(cands[i].by) # Key(d)
    <3>1. CASE pc[d] \in {"upstream", "push"}
      BY <2>2, <3>1 DEF MissInv, Fresh
    <3>2. CASE pc[d] \notin {"upstream", "push"}
      <4>1. d = c
        BY <1>1, <2>2, <3>2
      <4>2. Recheck(c) /\ pc'[c] = "upstream"
        BY <1>0, <2>2, <3>2, <4>1 DEF Step, Cancel, Receive, Scene, DelayOver, Pick, Render, LockFor, Acquire,
           Recheck, Exchange, Push, Goto, Answer
      <4> QED BY <2>2, <4>1, <4>2, RecheckFinds
    <3> QED BY <3>1, <3>2
  <2>3. Fresh'
    BY <1>0, <1>2, <2>2 DEF Fresh, Key, Ask
  <2> QED BY <2>1, <2>3
<1>3. CASE Push(c)
  <2> DEFINE n == Len(cands) + 1
  <2>1. /\ pc[c] = "push" /\ pc'[c] = "done"
        /\ DOMAIN cands' = DOMAIN cands \cup {n} /\ n \notin DOMAIN cands
        /\ \A i \in DOMAIN cands : cands'[i] = cands[i]
        /\ cands'[n].by = c
    BY <1>0, <1>3 DEF Push, Answer, TypeInv
  <2>2. \A i \in DOMAIN cands : cands[i].inAppend => Key(cands[i].by) # Key(c)
    BY <2>1 DEF MissInv, Fresh
  <2>3. OneCandidatePerKey'
    BY <1>0, <2>1, <2>2 DEF MissInv, OneCandidatePerKey, Key, Ask
  <2>4. ASSUME NEW d \in Clients, pc'[d] \in {"upstream", "push"} PROVE d # c /\ Key(c) # Key(d)
    <3>1. d # c /\ pc[d] \in Holding /\ pc[c] \in Holding
      BY <1>1, <2>1, <2>4 DEF Holding
    <3> QED BY <3>1, LocksExclude DEF MissExclusive
  <2>5. Fresh'
    BY <1>0, <1>1, <2>1, <2>4 DEF MissInv, Fresh, Key, Ask
  <2> QED BY <2>3, <2>5
<1>4. cands' = cands \/ Push(c)
  BY DEF Step, Cancel, Receive, Scene, DelayOver, Pick, Render, LockFor, Acquire, Recheck, Exchange
<1> QED BY <1>2, <1>3, <1>4

LEMMA NextMiss ==
  ASSUME SelfMatching
  PROVE  TypeInv /\ ServeInv /\ LockInv /\ MissInv /\ [Next]_vars => MissInv'
<1> SUFFICES ASSUME TypeInv, ServeInv, LockInv, MissInv, [Next]_vars PROVE MissInv'
  OBVIOUS
<1>1. Missed'
  BY StepMissed
<1>2. CASE UNCHANGED vars \/ \E i \in DOMAIN Source : Damage(i)
  <2>1. UNCHANGED <<setup, cands, pc>>
    BY <1>2 DEF vars, Damage
  <2> QED BY <1>1, <2>1 DEF MissInv, Fresh, OneCandidatePerKey, Key, Ask
<1> QED BY <1>1, <1>2, StepMiss DEF Next, MissInv

(* "Prevents duplicate same-key concurrent misses": the miss locks exclude, *)
(* although the registry forgets the locks nobody refers to and a client    *)
(* may go away while it waits or holds.                                     *)
THEOREM MissesExclude == Spec => []MissExclusive
BY InitTypes, NextTypes, InitLock, NextLock, LocksExclude, PTL DEF Spec

(* "append-new records exactly one miss and reuses it subsequently", for    *)
(* requests that their own recording matches: the look at the candidates    *)
(* under the miss lock makes up for the one before it.                      *)
THEOREM MissesRecordedOnce == ASSUME SelfMatching PROVE Spec => []MissRecordedOnce
<1>1. LockInv /\ MissInv => MissRecordedOnce
  BY LocksExclude DEF MissInv, MissRecordedOnce
<1>2. Init => Promises
  BY InitServe DEF Promises
<1>3. Promises => ServeInv
  BY DEF Promises
<1> QED BY <1>1, <1>2, <1>3, InitTypes, NextTypes, NextServe, InitLock, NextLock, InitMiss, NextMiss, PTL DEF Spec

(* A request as clients send it when nothing is redacted: its pairs are     *)
(* sequences, and it is addressed to the upstream that append-new records.  *)
Request(r) ==
  /\ r = [method |-> r.method, scheme |-> Upstream.scheme, authority |-> Upstream.authority, path |-> r.path,
          query |-> r.query, headers |-> r.headers, body |-> r.body]
  /\ r.headers \in Seq(ToSet(r.headers)) /\ r.query \in Seq(ToSet(r.query))

LEMMA UnredactedMatches ==
  ASSUME NEW r, Request(r), Policy.headers = {}, Policy.query = {}, Policy.json = <<>>
  PROVE  Matches(r, Recorded(r), TRUE)
<1>1. ASSUME NEW pairs \in Seq(ToSet(r.headers)) \cup Seq(ToSet(r.query)) PROVE RedactAt(pairs, {}) = pairs
  BY DEF RedactAt
<1>2. RedactHeaders(r.headers) = r.headers /\ RedactQuery(r.query) = r.query
  <2>1. {i \in DOMAIN r.headers : Lower(r.headers[i].key) \in Policy.headers} = {}
    OBVIOUS
  <2>2. {i \in DOMAIN r.query : r.query[i].key \in Policy.query} = {}
    OBVIOUS
  <2> QED BY <1>1, <2>1, <2>2 DEF RedactHeaders, RedactQuery, Request
<1>3. TransformBody(r.body) = [body |-> r.body, json |-> <<>>, form |-> {}]
  BY DEF TransformBody
<1>4. /\ Recorded(r).request = r /\ Recorded(r).json = <<>> /\ Recorded(r).form = {}
  <2>1. PICK m, p, q, h, b : r = [method |-> m, scheme |-> Upstream.scheme, authority |-> Upstream.authority,
                                  path |-> p, query |-> q, headers |-> h, body |-> b]
    BY DEF Request
  <2>2. [r EXCEPT !.scheme = Upstream.scheme, !.authority = Upstream.authority, !.headers = r.headers,
                  !.query = r.query, !.body = r.body] = r
    <3>1. r.headers = h /\ r.query = q /\ r.body = b
      BY <2>1
    <3>2. DOMAIN r = {"method", "scheme", "authority", "path", "query", "headers", "body"}
      BY <2>1
    <3>3. r.scheme = Upstream.scheme /\ r.authority = Upstream.authority
      BY <2>1
    <3>4. /\ [r EXCEPT !.scheme = Upstream.scheme] = r
          /\ [r EXCEPT !.authority = Upstream.authority] = r
          /\ [r EXCEPT !.headers = r.headers] = r
          /\ [r EXCEPT !.query = r.query] = r
          /\ [r EXCEPT !.body = r.body] = r
      BY <2>1, <3>2, <3>3
    <3> QED BY <3>4
  <2>3. Recorded(r).request =
          [r EXCEPT !.scheme = Upstream.scheme, !.authority = Upstream.authority, !.headers = r.headers,
                    !.query = r.query, !.body = r.body]
    BY <1>2, <1>3 DEF Recorded
  <2>4. Recorded(r).json = <<>> /\ Recorded(r).form = {}
    BY <1>3 DEF Recorded
  <2> QED BY <2>2, <2>3, <2>4
<1>5. Dimensions(r, Recorded(r)) = {}
  BY <1>4 DEF Dimensions
<1>6. BodyMatches(r, Recorded(r), TRUE)
  BY <1>4 DEF BodyMatches
<1> QED BY <1>5, <1>6 DEF Matches

(* When nothing is redacted and requests are addressed to the upstream, the *)
(* promise holds without a condition on the matcher.                        *)
THEOREM UnredactedMissesRecordedOnce ==
  ASSUME Policy.headers = {}, Policy.query = {}, Policy.json = <<>>,
         \A n \in DOMAIN Setups : \A c \in DOMAIN Setups[n].req : Request(Setups[n].req[c])
  PROVE  Spec => []MissRecordedOnce
<1>1. SelfMatching
  BY UnredactedMatches DEF SelfMatching
<1> QED BY <1>1, MissesRecordedOnce
=============================================================================
