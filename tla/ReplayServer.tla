----------------------------- MODULE ReplayServer -----------------------------
(***************************************************************************)
(* The replay server (eggreplay-http, replay.rs): concurrent requests       *)
(* against one loaded fixture, a scenario in front of it and, in append-new *)
(* mode, an upstream behind it.  Every step between two awaits or two       *)
(* acquisitions of the state lock is one action.                            *)
(***************************************************************************)
EXTENDS Scenario

CONSTANTS
  Clients,     \* requests in flight, each made once
  Setups,      \* Setups[n], a way a server is started and used: req[c], the request c
               \* makes, and shape[c], its form; source, the fixture, a sequence of
               \* [flow, outcome]; append, whether there is an AppendContext; scene,
               \* whether a scenario is selected
  MaxKeys,     \* bound on concurrent miss keys
  NoClient

ASSUME ReplayAssumption ==
  /\ ValidRules /\ NoClient \notin Clients /\ MaxKeys \in Nat
  /\ \A s \in Range(Setups) :
       /\ DOMAIN s.req \subseteq Clients /\ s.append \in BOOLEAN /\ s.scene \in BOOLEAN
       /\ s.shape \in [DOMAIN s.req -> {"plain", "oversized", "upgrade", "badupgrade"}]
       /\ s.source \in Seq(ToSet(s.source))
       /\ \A i \in DOMAIN s.source : s.source[i].outcome \in {"response", "error", "upgrade"}

VARIABLES
  setup,      \* how the server was started
  cands,      \* candidates: [flow, outcome, inAppend, by]
  lost,       \* source candidates whose stored request body no longer
              \* verifies; their response body may not either
  session,    \* MatcherSession
  runtime,    \* ScenarioRuntime
  locks,      \* MissLocks registry: [key, id], a weak reference to lock id
  arc,        \* arc[c]: id of the lock c holds a strong reference to
  recorded,   \* flows appended to the recording session, by client
  served,     \* served[c]: index of the candidate selected for c, or 0
  answer,     \* answer[c]: status given to c, 0 while none
  pc

vars == <<setup, cands, lost, session, runtime, locks, arc, recorded, served, answer, pc>>

AppendMode == Setups[setup].append
Source == Setups[setup].source
Ask(c) == Setups[setup].req[c]
Form(c) == Setups[setup].shape[c]
Mode == IF AppendMode THEN "Unlimited" ELSE "Once"
Holding == {"recheck", "upstream", "push"}
Key(c) == Ask(c)
(* The flows a server with setup n may hold.                                *)
FlowsOf(n) == {Setups[n].source[i].flow : i \in DOMAIN Setups[n].source}
              \cup {Recorded(Setups[n].req[c]) : c \in DOMAIN Setups[n].req}

(* Which request matches which flow, when the stored body can (TRUE) and    *)
(* when it cannot be loaded; a set, for TLC to compute once.                *)
MatchTable ==
  UNION {{t \in {n} \X (DOMAIN Setups[n].req) \X FlowsOf(n) \X BOOLEAN :
            Matches(Setups[n].req[t[2]], t[3], t[4])} : n \in DOMAIN Setups}

Hits(c, flow, loadable) == <<setup, c, flow, loadable>> \in MatchTable

MatchSet(c) == {i \in DOMAIN cands : Hits(c, cands[i].flow, i \notin lost)}

Init ==
  /\ setup \in DOMAIN Setups
  /\ cands = [i \in DOMAIN Source |->
                [flow |-> Source[i].flow, outcome |-> Source[i].outcome, inAppend |-> FALSE, by |-> NoClient]]
  /\ lost = {} /\ session = NewSession /\ runtime = InitialRuntime
  /\ locks = {} /\ recorded = <<>>
  /\ arc = [c \in Clients |-> NoClient]
  /\ served = [c \in Clients |-> 0]
  /\ answer = [c \in Clients |-> 0]
  /\ pc = [c \in Clients |-> IF c \in DOMAIN Setups[setup].req THEN "idle" ELSE "done"]

Goto(c, l) == pc' = [pc EXCEPT ![c] = l] /\ UNCHANGED answer

(* The handler returns: its miss guard and its lock reference are dropped.  *)
Answer(c, status) ==
  /\ answer' = [answer EXCEPT ![c] = status]
  /\ pc' = [pc EXCEPT ![c] = "done"]

DropArc(c) == arc' = [arc EXCEPT ![c] = NoClient]

-----------------------------------------------------------------------------
(* handle_request up to the body: refusals that touch no state; reading the *)
(* body may fail.                                                           *)
Receive(c) ==
  /\ pc[c] = "idle"
  /\ \/ Form(c) = "oversized" /\ Answer(c, 413)
     \/ Form(c) = "badupgrade" /\ Answer(c, 400)
     \/ Form(c) \in {"plain", "upgrade"} /\ Goto(c, IF Setups[setup].scene THEN "scenario" ELSE "select")
     \/ Form(c) \in {"plain", "upgrade"} /\ Answer(c, 500)
  /\ UNCHANGED <<setup, cands, lost, session, runtime, locks, arc, recorded, served>>

(* scenario_fault_response, of a response that is not delayed: a truncated  *)
(* one keeps its status.                                                    *)
FaultStatus(fault) == IF fault = "error" THEN 502 ELSE 200

(* The scenario under the state lock; no transition falls through.          *)
Scene(c) ==
  LET step == Advance(runtime, Ask(c)) IN
  /\ pc[c] = "scenario"
  /\ runtime' = step.runtime
  /\ \/ step.verdict = "step" /\ step.fault = "delay" /\ Goto(c, "delay")
     \/ step.verdict = "step" /\ step.fault # "delay" /\ Answer(c, FaultStatus(step.fault))
     \/ step.verdict = "none" /\ Goto(c, "select")
     \/ step.verdict \in {"error", "limit"} /\ Answer(c, 500)
  /\ UNCHANGED <<setup, cands, lost, session, locks, arc, recorded, served>>

(* The delay before a scenario's response, awaited without the lock.        *)
DelayOver(c) ==
  /\ pc[c] = "delay"
  /\ Answer(c, 200)
  /\ UNCHANGED <<setup, cands, lost, session, runtime, locks, arc, recorded, served>>

(* Mutant: the lock is dropped between the scan and the consumption.        *)
PickRacy(c) ==
  LET result == Select(MatchSet(c), Mode, session) IN
  /\ pc[c] = "select"
  /\ result.verdict = "Matched"
  /\ served' = [served EXCEPT ![c] = result.index]
  /\ Goto(c, "render")
  /\ UNCHANGED <<setup, cands, lost, session, runtime, locks, arc, recorded>>

(* Mutant: an exhausted request is reported as a miss.                      *)
PickMiss(c) ==
  LET result == Select(MatchSet(c), Mode, session) IN
  /\ pc[c] = "select"
  /\ session' = result.session
  /\ served' = [served EXCEPT ![c] = result.index]
  /\ IF result.verdict = "Matched" THEN Goto(c, "render") ELSE Answer(c, 404)
  /\ UNCHANGED <<setup, cands, lost, runtime, locks, arc, recorded>>

(* Selection and consumption under one state lock.                          *)
Pick(c) ==
  LET result == Select(MatchSet(c), Mode, session) IN
  /\ pc[c] = "select"
  /\ session' = result.session
  /\ served' = [served EXCEPT ![c] = result.index]
  /\ \/ result.verdict = "Matched" /\ cands[result.index].outcome = "error" /\ Answer(c, 502)
     \/ result.verdict = "Matched" /\ cands[result.index].outcome # "error" /\ Goto(c, "render")
     \/ result.verdict = "Exhausted" /\ Answer(c, 409)
     \/ result.verdict = "NoMatch" /\ ~AppendMode /\ Answer(c, 404)
     \/ result.verdict = "NoMatch" /\ AppendMode /\ Goto(c, "miss")
  /\ UNCHANGED <<setup, cands, lost, runtime, locks, arc, recorded>>

(* The selected response, rendered after the lock was released.             *)
Render(c) ==
  LET cand == cands[served[c]] IN
  /\ pc[c] = "render"
  /\ \/ cand.outcome = "upgrade" /\ Answer(c, IF Form(c) = "upgrade" THEN 101 ELSE 400)
     \/ cand.outcome # "upgrade" /\ Answer(c, 200)
     \/ cand.outcome # "upgrade" /\ served[c] \in lost /\ Answer(c, 500)
  /\ UNCHANGED <<setup, cands, lost, session, runtime, locks, arc, recorded, served>>

-----------------------------------------------------------------------------
(* append_miss.                                                             *)

(* Mutant: an entry is dropped from the registry when no one holds its      *)
(* guard, although others wait for it.                                      *)
LockForUnheld(c) ==
  LET live == {l \in locks : \E d \in Clients : arc[d] = l.id /\ pc[d] \in Holding}
      mine == {l \in live : l.key = Key(c)}
      id == IF mine = {} THEN c ELSE (CHOOSE l \in mine : TRUE).id
  IN /\ pc[c] = "miss"
     /\ locks' = live \cup {[key |-> Key(c), id |-> id]}
     /\ arc' = [arc EXCEPT ![c] = id]
     /\ Goto(c, "wait")
     /\ UNCHANGED <<setup, cands, lost, session, runtime, recorded, served>>

(* MissLocks::lock_for: entries without a strong reference are dropped, and *)
(* the lock of the request's key is shared or created.                      *)
LockFor(c) ==
  LET live == {l \in locks : \E d \in Clients : arc[d] = l.id}
      mine == {l \in live : l.key = Key(c)}
  IN /\ pc[c] = "miss"
     /\ \/ /\ mine # {}
           /\ \E l \in mine : arc' = [arc EXCEPT ![c] = l.id]
           /\ locks' = live
           /\ Goto(c, "wait")
        \/ /\ mine = {} /\ Cardinality(live) >= MaxKeys
           /\ locks' = live
           /\ Answer(c, 503)
           /\ UNCHANGED arc
        \/ /\ mine = {} /\ Cardinality(live) < MaxKeys
           /\ locks' = live \cup {[key |-> Key(c), id |-> c]}
           /\ arc' = [arc EXCEPT ![c] = c]
           /\ Goto(c, "wait")
     /\ UNCHANGED <<setup, cands, lost, session, runtime, recorded, served>>

(* Mutant: a waiter waits to be the only one that refers to the lock.       *)
AcquireUnique(c) ==
  /\ pc[c] = "wait"
  /\ \A d \in Clients \ {c} : arc[d] # arc[c]
  /\ Goto(c, "recheck")
  /\ UNCHANGED <<setup, cands, lost, session, runtime, locks, arc, recorded, served>>

(* The guard is held by at most one of those that refer to the lock.        *)
Acquire(c) ==
  /\ pc[c] = "wait"
  /\ \A d \in Clients : arc[d] = arc[c] => pc[d] \notin Holding
  /\ Goto(c, "recheck")
  /\ UNCHANGED <<setup, cands, lost, session, runtime, locks, arc, recorded, served>>

(* Another request of the same key may have filled the miss.                *)
Recheck(c) ==
  LET hit == Select(MatchSet(c), "Unlimited", session).index
      filled == {i \in DOMAIN cands : i = hit /\ cands[i].inAppend}
  IN
  /\ pc[c] = "recheck"
  /\ \/ \E i \in filled :
        /\ served' = [served EXCEPT ![c] = i]
        /\ Answer(c, IF cands[i].outcome = "error" THEN 502 ELSE 200)
        /\ DropArc(c)
     \/ /\ filled = {}
        /\ Goto(c, "upstream")
        /\ UNCHANGED <<arc, served>>
  /\ UNCHANGED <<setup, cands, lost, session, runtime, locks, recorded>>

(* record_request_with_session (see RecordingSession): it records a         *)
(* response or a transport error, or fails before or after the flow is      *)
(* appended; a body that cannot be redacted always fails.                   *)
Exchange(c) ==
  /\ pc[c] = "upstream"
  /\ \/ /\ Recordable(Ask(c))
        /\ \E o \in {"response", "error"} : recorded' = Append(recorded, [by |-> c, outcome |-> o])
        /\ \/ Goto(c, "push") /\ UNCHANGED arc
           \/ Answer(c, 502) /\ DropArc(c)
     \/ /\ Answer(c, 502)
        /\ DropArc(c)
        /\ UNCHANGED recorded
  /\ UNCHANGED <<setup, cands, lost, session, runtime, locks, served>>

(* Mutant: a recorded upstream error is answered as a response.             *)
PushAsResponse(c) ==
  /\ pc[c] = "push"
  /\ cands' = Append(cands, [flow |-> Recorded(Ask(c)), outcome |-> "response", inAppend |-> TRUE, by |-> c])
  /\ Answer(c, 200)
  /\ DropArc(c)
  /\ UNCHANGED <<setup, lost, session, runtime, locks, recorded, served>>

(* The recorded flow becomes a candidate and answers the request.           *)
Push(c) ==
  LET mine == CHOOSE f \in ToSet(recorded) : f.by = c IN
  /\ pc[c] = "push"
  /\ cands' = Append(cands, [flow |-> Recorded(Ask(c)), outcome |-> mine.outcome, inAppend |-> TRUE, by |-> c])
  /\ Answer(c, IF mine.outcome = "error" THEN 502 ELSE 200)
  /\ DropArc(c)
  /\ UNCHANGED <<setup, lost, session, runtime, locks, recorded, served>>

-----------------------------------------------------------------------------
(* Environment: a client goes away while its handler awaits the body, a     *)
(* delay, the miss lock or the upstream; a stored body is damaged under the *)
(* server.                                                                  *)
Cancel(c) ==
  /\ pc[c] \in {"idle", "delay", "wait", "upstream"}
  /\ pc' = [pc EXCEPT ![c] = "done"]
  /\ DropArc(c)
  /\ UNCHANGED <<setup, cands, lost, session, runtime, locks, recorded, served, answer>>

Damage(i) ==
  /\ i \in DOMAIN Source \ lost
  /\ lost' = lost \cup {i}
  /\ UNCHANGED <<setup, cands, session, runtime, locks, arc, recorded, served, answer, pc>>

Step(c) ==
  \/ Receive(c) \/ Scene(c) \/ DelayOver(c) \/ Pick(c) \/ Render(c)
  \/ LockFor(c) \/ Acquire(c) \/ Recheck(c) \/ Exchange(c) \/ Push(c)

Next ==
  \/ \E c \in Clients : Step(c) \/ Cancel(c)
  \/ \E i \in DOMAIN Source : Damage(i)

(* The runtime polls every handler, and an upstream exchange ends, if only  *)
(* by the outbound timeout.                                                 *)
Fairness == \A c \in Clients : WF_vars(Step(c))

Spec == Init /\ [][Next]_vars /\ Fairness

-----------------------------------------------------------------------------
(* Every variable has its type.                                             *)
TypeOK ==
  /\ lost \subseteq DOMAIN Source
  /\ session.consumed \subseteq DOMAIN cands /\ session.last = 0
  /\ runtime.state \in States
  /\ locks \subseteq [key : Range(Setups[setup].req), id : Clients]
  /\ arc \in [Clients -> Clients \cup {NoClient}]
  /\ served \in [Clients -> 0..Len(cands)]
  /\ answer \in [Clients -> {0, 101, 200, 400, 404, 409, 413, 500, 502, 503}]
  /\ pc \in [Clients -> {"idle", "scenario", "delay", "select", "render", "miss", "wait", "done"} \cup Holding]

(* "Each recorded flow serves once": no two requests of a sealed server are *)
(* given the same flow, however their handlers interleave.                  *)
FlowServedOnce ==
  ~AppendMode => \A c, d \in Clients : c # d /\ served[c] # 0 => served[c] # served[d]

(* "The request did match, but its single-use flow was already served.      *)
(* That distinction is preserved": a sealed server says 409 only if every   *)
(* readable flow the request matches has gone to another request, and 404   *)
(* only if no readable flow matches it at all.                              *)
HonestVerdict ==
  \A c \in Clients :
    LET flows == {i \in DOMAIN Source : Hits(c, Source[i].flow, TRUE)} IN
    /\ answer[c] = 404 => flows \subseteq lost
    /\ answer[c] = 409 => /\ flows # {}
                          /\ \A i \in flows \ lost : \E d \in Clients \ {c} : served[d] = i

(* "Both failure modes leave the runtime untouched": the scenario moves     *)
(* only with a request that it answers, at once or after a delay.           *)
FailedAdvanceKeepsState ==
  [][ runtime' # runtime =>
        \E c \in Clients : pc[c] = "scenario" /\ (answer'[c] \in {200, 502} \/ pc'[c] = "delay") ]_vars

(* "A cumulative variable map can exceed the per-transition limit": it      *)
(* never holds more than the configured number of variables.                *)
VariablesBounded == Cardinality(DOMAIN runtime.variables) <= MaxVariables

(* The state behind the server's one mutex stays what its types and the     *)
(* scenario's limits say, over any number of transitions.                   *)
StateSound ==
  /\ TypeOK
  /\ VariablesBounded

(* "Prevents duplicate same-key concurrent misses": at most one handler per *)
(* key is past its miss lock, although the registry forgets locks.          *)
MissExclusive ==
  \A c, d \in Clients : c # d /\ pc[c] \in Holding /\ pc[d] \in Holding => Key(c) # Key(d)

(* "append-new records exactly one miss and reuses it subsequently": no two *)
(* appended candidates answer the same request.                             *)
OneCandidatePerKey ==
  \A i, j \in DOMAIN cands : i # j /\ cands[i].inAppend /\ cands[j].inAppend
    => Key(cands[i].by) # Key(cands[j].by)

(* Concurrent misses of one key exclude each other and leave one recording. *)
MissRecordedOnce ==
  /\ MissExclusive
  /\ OneCandidatePerKey

(* What append-new answers it also keeps: every answer that does not come   *)
(* from the fixture's flows or its scenario, whether the client recorded it *)
(* or another request did, is a response of the recording.                  *)
ReplayedIsRecorded ==
  \A c \in Clients : AppendMode /\ answer[c] = 200 =>
    LET by == IF served[c] = 0 THEN c ELSE cands[served[c]].by
    IN \/ by = NoClient
       \/ Setups[setup].scene /\ served[c] = 0
       \/ \E f \in ToSet(recorded) : f.by = by /\ f.outcome = "response"

(* No handler waits for ever: cancelled holders, failed exchanges and       *)
(* forgotten locks never strand the requests queued behind them.            *)
EveryRequestEnds == <>[](\A c \in Clients : pc[c] = "done")

(* "A malformed fixture ... must not silently become network fallback": a   *)
(* request goes upstream only if the fixture has no flow for it.            *)
NoFallbackOnDamage ==
  \A c \in Clients : pc[c] = "upstream" =>
    \A i \in DOMAIN Source : ~Hits(c, Source[i].flow, TRUE)
=============================================================================
