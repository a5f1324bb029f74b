-------------------------- MODULE InterceptionProofs --------------------------
(***************************************************************************)
(* Proofs about Interception, for any number of clients, any requests,      *)
(* policies, limits and outcomes of dials and handshakes.                   *)
(***************************************************************************)
EXTENDS Interception, FiniteSetTheorems, WellFoundedInduction, TLAPS

-----------------------------------------------------------------------------
(* Connections.                                                             *)

AllRequests == Requests \cup InnerRequests

\* What a request may be for.
Hosts == UNION {ResolveAbsoluteTarget(r) \cup ResolveConnectTarget(r) : r \in Requests}

TunnelOutcomes == {"duration_limit", "idle_timeout", "byte_limit", "relay_error", "completed", "shutdown"}

Codes == {0, 200, 400, 403, 500, 502, 503, 504}
Ends == {"", "eof", "error", "stopped"}
Endings == {""} \cup TunnelOutcomes

ConnRecord == [st : States, req : SUBSET AllRequests, target : SUBSET Hosts,
         answer : Codes, poisoned : BOOLEAN,
         inner : 0..MaxInner, up : Nat, down : Nat, sent : Nat, last : Nat,
         quiet : 0..IdleTimeout, still : 0..IdleTimeout, age : 0..MaxDuration,
         limitHit : BOOLEAN, end : Ends, outcome : Endings, cancelled : BOOLEAN]

OpenStates == {"relaying", "ended", "handshake", "decrypted", "exchange", "closing"}

\* What a relay forwarded it has counted, and never beyond the budget.
Metered(x) == x.sent <= x.up + x.down /\ x.sent <= MaxBytes

\* The idle watch never runs ahead of the time since the last byte.
Watched(x) ==
    /\ x.last <= x.up + x.down
    /\ x.up + x.down = x.last => x.quiet <= x.still
    /\ x.st = "ended" /\ x.outcome = "idle_timeout" => x.still >= IdleTimeout

\* The answer and the outcome follow the state.
Staged(x) ==
    /\ x.st = "idle" => x = Idle
    /\ x.st \in {"plain", "dialing", "leaf"} => x.answer = 0
    /\ x.st \in OpenStates \cup {"detached", "orphan"} => x.answer = 200
    /\ x.st \in {"plain", "dialing", "leaf"} \cup (OpenStates \ {"ended"}) => x.outcome = ""
    /\ x.st \in {"ended", "detached", "orphan"} => x.outcome # ""
    /\ x.st \in {"dialing", "leaf", "relaying"} => x.end # "stopped"

ConnOK(x) == x \in ConnRecord /\ Metered(x) /\ Watched(x) /\ Staged(x)

\* A tunnel that holds a permit, one that is over, and one that is counted.
Holds(x) == x.st \in OpenStates \cup {"dialing", "leaf"}
IsOver(x) == x.answer = 200 /\ x.outcome # "" /\ x.st \notin OpenStates
IsCounted(x) == x.st = "leaf" \/ (x.answer = 200 /\ (x.outcome # "" \/ x.st \in OpenStates))

Holders == {c \in Clients : Holds(conn[c])}
Over == {c \in Clients : IsOver(conn[c])}
CountedOnes == {c \in Clients : IsCounted(conn[c])}

ConnInv == conn \in [Clients -> ConnRecord] /\ \A c \in Clients : ConnOK(conn[c])

PermitInv == permits \in Nat /\ permits + Cardinality(Holders) = MaxConcurrent

EventInv ==
    /\ events \in Seq([client : Clients, outcome : TunnelOutcomes])
    /\ Len(events) = IF Cardinality(Over) <= MaxEvents THEN Cardinality(Over) ELSE MaxEvents
    /\ \A i, j \in DOMAIN events : i # j => events[i].client # events[j].client
    /\ \A i \in DOMAIN events : /\ events[i].client \in Over
                                /\ conn[events[i].client].outcome = events[i].outcome

\* The flows are a list.
Listed == \E T : flows \in Seq(T)

StatNames == {"accepted", "rejected", "tunneled", "intercepted", "flows"}

StatInv ==
    /\ stats \in [StatNames -> Nat]
    /\ stats["flows"] = Cardinality(LoggedFlows)
    /\ stats["accepted"] >= stats["tunneled"] + stats["intercepted"]
    /\ Cardinality(CountedOnes) <= stats["tunneled"] + stats["intercepted"]

PhaseInv ==
    /\ setup \in Setups
    /\ phase \in {"starting", "refused", "running", "draining", "finished"}
    /\ disk \in {"none", "old", "new"}
    /\ phase \in {"running", "draining", "finished"} <=> policy # {}
    /\ \A p \in policy : p.default \in ConnectActions

-----------------------------------------------------------------------------
(* Counting.                                                                *)

LEMMA FiniteClients == ASSUME NEW S \in SUBSET Clients PROVE IsFiniteSet(S) /\ Cardinality(S) \in Nat
BY FS_Subset, FS_CardinalityType, TunnelBounds

\* One connection becomes y.
Becomes(c, y) == conn' = [conn EXCEPT ![c] = y] /\ ConnOK(y)

\* The effect of one connection's step on the sets that are counted.
LEMMA SetsMove ==
  ASSUME ConnInv, NEW c \in Clients, NEW y, Becomes(c, y)
  PROVE  /\ Holders' = IF Holds(y) THEN Holders \cup {c} ELSE Holders \ {c}
         /\ Over' = IF IsOver(y) THEN Over \cup {c} ELSE Over \ {c}
         /\ CountedOnes' = IF IsCounted(y) THEN CountedOnes \cup {c} ELSE CountedOnes \ {c}
         /\ (c \in Holders <=> Holds(conn[c])) /\ (c \in Over <=> IsOver(conn[c]))
         /\ (c \in CountedOnes <=> IsCounted(conn[c]))
<1>1. conn'[c] = y /\ \A d \in Clients : d # c => conn'[d] = conn[d]  BY DEF ConnInv, Becomes
<1>2. Holders' = IF Holds(y) THEN Holders \cup {c} ELSE Holders \ {c}
  <2>1. Holders' = {d \in Clients : Holds(conn'[d])}  BY DEF Holders, Holds
  <2> QED  BY <1>1, <2>1 DEF Holders
<1>3. Over' = IF IsOver(y) THEN Over \cup {c} ELSE Over \ {c}
  <2>1. Over' = {d \in Clients : IsOver(conn'[d])}  BY DEF Over, IsOver
  <2> QED  BY <1>1, <2>1 DEF Over
<1>4. CountedOnes' = IF IsCounted(y) THEN CountedOnes \cup {c} ELSE CountedOnes \ {c}
  <2>1. CountedOnes' = {d \in Clients : IsCounted(conn'[d])}  BY DEF CountedOnes, IsCounted
  <2> QED  BY <1>1, <2>1 DEF CountedOnes
<1> QED  BY <1>2, <1>3, <1>4 DEF Holders, Over, CountedOnes


LEMMA ConnStep ==
  ASSUME ConnInv, NEW c \in Clients, NEW y, Becomes(c, y) PROVE ConnInv'
<1>1. y \in ConnRecord  BY DEF Becomes, ConnOK
<1>2. conn' \in [Clients -> ConnRecord]  BY <1>1 DEF ConnInv, Becomes
<1>3. \A d \in Clients : conn'[d] = y \/ conn'[d] = conn[d]  BY DEF ConnInv, Becomes
<1>4. \A d \in Clients : ConnOK(conn'[d])  BY <1>3 DEF ConnInv, Becomes
<1>5. \A d \in Clients : ConnOK(conn[d])'
  BY <1>4 DEF ConnOK, Metered, Watched, Staged
<1> QED  BY <1>2, <1>5 DEF ConnInv

LEMMA PermitStill ==
  ASSUME ConnInv, PermitInv, NEW c \in Clients, NEW y, Becomes(c, y), Holds(y) <=> Holds(conn[c]),
         permits' = permits
  PROVE  PermitInv'
<1>1. Holders' = Holders  BY SetsMove
<1> QED  BY <1>1 DEF PermitInv

LEMMA PermitTaken ==
  ASSUME ConnInv, PermitInv, NEW c \in Clients, NEW y, Becomes(c, y), Holds(y), ~Holds(conn[c]),
         permits # 0, permits' = permits - 1
  PROVE  PermitInv'
<1>1. Holders' = Holders \cup {c} /\ c \notin Holders  BY SetsMove
<1>2. IsFiniteSet(Holders) /\ Cardinality(Holders) \in Nat  BY FiniteClients DEF Holders
<1>3. Cardinality(Holders') = Cardinality(Holders) + 1  BY <1>1, <1>2, FS_AddElement
<1>4. MaxConcurrent \in Nat  BY TunnelBounds
<1> QED  BY <1>2, <1>3, <1>4 DEF PermitInv

LEMMA PermitFreed ==
  ASSUME ConnInv, PermitInv, NEW c \in Clients, NEW y, Becomes(c, y), ~Holds(y), Holds(conn[c]),
         permits' = permits + 1
  PROVE  PermitInv'
<1>1. Holders' = Holders \ {c} /\ c \in Holders  BY SetsMove
<1>2. IsFiniteSet(Holders) /\ Cardinality(Holders) \in Nat  BY FiniteClients DEF Holders
<1>3. Cardinality(Holders') = Cardinality(Holders) - 1  BY <1>1, <1>2, FS_RemoveElement
<1>4. MaxConcurrent \in Nat  BY TunnelBounds
<1> QED  BY <1>2, <1>3, <1>4 DEF PermitInv

\* A tunnel that is over stays so, with its outcome.
LEMMA EventStill ==
  ASSUME ConnInv, EventInv, NEW c \in Clients, NEW y, Becomes(c, y), IsOver(y) <=> IsOver(conn[c]),
         IsOver(y) => y.outcome = conn[c].outcome, events' = events
  PROVE  EventInv'
<1>1. Over' = Over /\ (c \in Over <=> IsOver(conn[c]))  BY SetsMove
<1>2. \A d \in Clients : d \in Over => conn'[d].outcome = conn[d].outcome
  BY <1>1 DEF ConnInv, Becomes
<1>3. Over \subseteq Clients  BY DEF Over
<1> QED  BY <1>1, <1>2, <1>3 DEF EventInv

\* A tunnel that ends is logged; a full log loses its oldest entry.
LEMMA EventPushed ==
  ASSUME ConnInv, EventInv, NEW c \in Clients, NEW y, Becomes(c, y), IsOver(y), ~IsOver(conn[c]),
         y.outcome \in TunnelOutcomes, Push(c, y.outcome)
  PROVE  EventInv'
<1> DEFINE E == [client : Clients, outcome : TunnelOutcomes]
           e == [client |-> c, outcome |-> y.outcome]
           kept == IF Len(events) >= MaxEvents THEN Tail(events) ELSE events
           skip == IF Len(events) >= MaxEvents THEN 1 ELSE 0
<1>1. Over' = Over \cup {c} /\ c \notin Over  BY SetsMove
<1>2. IsFiniteSet(Over) /\ Cardinality(Over) \in Nat  BY FiniteClients DEF Over
<1>3. Cardinality(Over') = Cardinality(Over) + 1  BY <1>1, <1>2, FS_AddElement
<1>4. events \in Seq(E) /\ Len(events) \in Nat /\ DOMAIN events = 1..Len(events) /\ MaxEvents \in Nat /\ MaxEvents # 0
  BY TunnelBounds DEF EventInv
<1>5. events' = Append(kept, e) /\ e \in E /\ e.client = c /\ e.outcome = y.outcome  BY DEF Push
<1>6. Len(events) = IF Cardinality(Over) <= MaxEvents THEN Cardinality(Over) ELSE MaxEvents  BY DEF EventInv
<1>7. kept \in Seq(E) /\ Len(kept) = Len(events) - skip /\ \A i \in 1..Len(kept) : kept[i] = events[i + skip]
  <2>1. CASE Len(events) >= MaxEvents
    <3>1. events # << >>  BY <1>4, <2>1
    <3> QED  BY <1>4, <2>1, <3>1
  <2>2. CASE ~(Len(events) >= MaxEvents)  BY <1>4, <2>2
  <2> QED  BY <2>1, <2>2
<1>8. skip \in 0..1  OBVIOUS
<1> HIDE DEF kept, e, skip
<1>9. /\ events' \in Seq(E) /\ Len(events') = Len(kept) + 1 /\ DOMAIN events' = 1..(Len(kept) + 1)
      /\ Len(kept) \in Nat
      /\ events'[Len(kept) + 1] = e /\ \A i \in 1..Len(kept) : events'[i] = kept[i]
  BY <1>5, <1>7
<1>10. Len(events') = IF Cardinality(Over') <= MaxEvents THEN Cardinality(Over') ELSE MaxEvents
  BY <1>2, <1>3, <1>4, <1>6, <1>7, <1>9 DEF skip
<1>11. conn'[c] = y /\ \A d \in Clients : d # c => conn'[d] = conn[d]  BY DEF ConnInv, Becomes
<1>12. ASSUME NEW i \in 1..Len(kept)
       PROVE  i + skip \in DOMAIN events /\ events'[i] = events[i + skip] /\ events'[i].client \in Over
  <2>1. i + skip \in 1..Len(events)  BY <1>4, <1>7, <1>8, <1>9
  <2>2. events'[i] = events[i + skip]  BY <1>7, <1>9
  <2> QED  BY <1>4, <2>1, <2>2 DEF EventInv
<1>13. ASSUME NEW i \in DOMAIN events', NEW j \in DOMAIN events', i # j
       PROVE  events'[i].client # events'[j].client
  <2>1. CASE i \in 1..Len(kept) /\ j \in 1..Len(kept)
    <3>1. i + skip # j + skip  BY <1>9, <1>13, <1>8, <2>1
    <3> QED  BY <1>12, <2>1, <3>1 DEF EventInv
  <2>2. CASE i = Len(kept) + 1 /\ j \in 1..Len(kept)  BY <1>1, <1>5, <1>9, <1>12, <2>2
  <2>3. CASE j = Len(kept) + 1 /\ i \in 1..Len(kept)  BY <1>1, <1>5, <1>9, <1>12, <2>3
  <2> QED  BY <1>9, <1>13, <2>1, <2>2, <2>3
<1>14. ASSUME NEW i \in DOMAIN events'
       PROVE  events'[i].client \in Over' /\ conn'[events'[i].client].outcome = events'[i].outcome
  <2>1. CASE i \in 1..Len(kept)
    <3>1. events'[i].client \in Clients /\ events'[i].client # c  BY <1>1, <1>12, <2>1 DEF Over
    <3> QED  BY <1>1, <1>11, <1>12, <2>1, <3>1 DEF EventInv
  <2>2. CASE i = Len(kept) + 1  BY <1>1, <1>5, <1>9, <1>11, <2>2
  <2> QED  BY <1>9, <2>1, <2>2
<1> QED  BY <1>9, <1>10, <1>13, <1>14 DEF EventInv

LEMMA LoggedFinite == ASSUME Listed PROVE IsFiniteSet(LoggedFlows) /\ Cardinality(LoggedFlows) \in Nat
<1>1. PICK T : flows \in Seq(T)  BY DEF Listed
<1>2. LoggedFlows \subseteq 1..Len(flows) /\ Len(flows) \in Nat  BY <1>1 DEF LoggedFlows
<1>3. IsFiniteSet(1..Len(flows))  BY <1>2, FS_Interval
<1> QED  BY <1>2, <1>3, FS_Subset, FS_CardinalityType

LEMMA LoggedStill ==
  ASSUME Listed, UNCHANGED flows PROVE LoggedFlows' = LoggedFlows /\ Listed'
<1>1. PICK T : flows \in Seq(T)  BY DEF Listed
<1>2. Listed'  BY <1>1 DEF Listed
<1>3. LoggedFlows' = {i \in DOMAIN flows' : flows'[i].logged}  BY DEF LoggedFlows
<1> QED  BY <1>2, <1>3 DEF LoggedFlows

LEMMA LoggedAppend ==
  ASSUME Listed, NEW f, flows' = Append(flows, f)
  PROVE  /\ Listed'
         /\ f.logged => Cardinality(LoggedFlows') = Cardinality(LoggedFlows) + 1
         /\ ~f.logged => LoggedFlows' = LoggedFlows
<1>1. PICK T : flows \in Seq(T)  BY DEF Listed
<1>2. flows \in Seq(T \cup {f})  BY <1>1
<1> DEFINE n == Len(flows) + 1
<1>3. /\ Len(flows) \in Nat /\ DOMAIN flows = 1..Len(flows) /\ DOMAIN flows' = 1..n
      /\ flows'[n] = f /\ \A i \in 1..Len(flows) : flows'[i] = flows[i]
      /\ flows' \in Seq(T \cup {f})
  BY <1>2
<1>4. Listed'  BY <1>3 DEF Listed
<1>5. n \notin LoggedFlows /\ DOMAIN flows' = DOMAIN flows \cup {n} /\ n \notin DOMAIN flows
  BY <1>3 DEF LoggedFlows
<1> HIDE DEF n
<1>6. LoggedFlows' = {i \in DOMAIN flows' : flows'[i].logged}  BY DEF LoggedFlows
<1>7. \A i \in DOMAIN flows : flows'[i] = flows[i]  BY <1>3
<1>8. f.logged => LoggedFlows' = LoggedFlows \cup {n}  BY <1>3, <1>5, <1>6, <1>7 DEF LoggedFlows
<1>9. ~f.logged => LoggedFlows' = LoggedFlows  BY <1>3, <1>5, <1>6, <1>7 DEF LoggedFlows
<1>10. Cardinality(LoggedFlows \cup {n}) = Cardinality(LoggedFlows) + 1
  BY <1>5, LoggedFinite, FS_AddElement
<1> QED  BY <1>4, <1>8, <1>9, <1>10

\* The counters a step advances cover what it opens, and the flows it logs.
StatsMove(c, y, names) ==
    /\ stats' = Counted(names)
    /\ ~({"tunneled", "intercepted"} \subseteq names)
    /\ names \cap {"tunneled", "intercepted"} # {} => "accepted" \in names
    /\ IsCounted(y) => IsCounted(conn[c]) \/ names \cap {"tunneled", "intercepted"} # {}
    /\ Cardinality(LoggedFlows') = Cardinality(LoggedFlows) + (IF "flows" \in names THEN 1 ELSE 0)

LEMMA StatStep ==
  ASSUME ConnInv, StatInv, NEW c \in Clients, NEW y, Becomes(c, y),
         NEW names \in SUBSET StatNames, StatsMove(c, y, names)
  PROVE  StatInv'
<1>1. /\ stats' \in [StatNames -> Nat]
      /\ \A n \in StatNames : stats'[n] = stats[n] + (IF n \in names THEN 1 ELSE 0)
  BY SMTT(60) DEF Counted, StatInv, StatsMove
<1>2. \/ CountedOnes' \subseteq CountedOnes
      \/ CountedOnes' = CountedOnes \cup {c} /\ names \cap {"tunneled", "intercepted"} # {}
  BY SetsMove DEF StatsMove
<1>3. IsFiniteSet(CountedOnes) /\ Cardinality(CountedOnes) \in Nat  BY FiniteClients DEF CountedOnes
<1>4. Cardinality(CountedOnes') \in Nat
      /\ Cardinality(CountedOnes') <= Cardinality(CountedOnes)
           + (IF names \cap {"tunneled", "intercepted"} # {} THEN 1 ELSE 0)
  <2>1. CASE CountedOnes' \subseteq CountedOnes
    <3>1. IsFiniteSet(CountedOnes') /\ Cardinality(CountedOnes') <= Cardinality(CountedOnes)
      BY <1>3, <2>1, FS_Subset
    <3>2. Cardinality(CountedOnes') \in Nat  BY <3>1, FS_CardinalityType
    <3> QED  BY <1>3, <3>1, <3>2
  <2>2. CASE CountedOnes' = CountedOnes \cup {c} /\ names \cap {"tunneled", "intercepted"} # {}
    <3>1. Cardinality(CountedOnes \cup {c}) = Cardinality(CountedOnes)
          \/ Cardinality(CountedOnes \cup {c}) = Cardinality(CountedOnes) + 1
      BY <1>3, FS_AddElement
    <3> QED  BY <1>3, <2>2, <3>1
  <2> QED  BY <1>2, <2>1, <2>2
<1> DEFINE t == stats["tunneled"]  i == stats["intercepted"]  a == stats["accepted"]
<1>5. t \in Nat /\ i \in Nat /\ a \in Nat /\ a >= t + i /\ Cardinality(CountedOnes) <= t + i
  BY DEF StatInv, StatNames
<1>6. /\ stats'["tunneled"] = t + (IF "tunneled" \in names THEN 1 ELSE 0)
      /\ stats'["intercepted"] = i + (IF "intercepted" \in names THEN 1 ELSE 0)
      /\ stats'["accepted"] = a + (IF "accepted" \in names THEN 1 ELSE 0)
      /\ stats'["flows"] = stats["flows"] + (IF "flows" \in names THEN 1 ELSE 0)
  BY <1>1 DEF StatNames
<1> HIDE DEF t, i, a
<1>7. stats'["accepted"] >= stats'["tunneled"] + stats'["intercepted"]  BY <1>5, <1>6 DEF StatsMove
<1>8. Cardinality(CountedOnes') <= stats'["tunneled"] + stats'["intercepted"]  BY <1>3, <1>4, <1>5, <1>6 DEF StatsMove
<1>9. stats'["flows"] = Cardinality(LoggedFlows')  BY <1>6 DEF StatInv, StatsMove
<1> QED  BY <1>1, <1>7, <1>8, <1>9 DEF StatInv

Core == ConnInv /\ PermitInv /\ EventInv /\ StatInv /\ Listed

\* A permit is taken by a tunnel that is admitted and freed by one that closes.
PermitsMove(c, y) ==
    \/ (Holds(y) <=> Holds(conn[c])) /\ permits' = permits
    \/ Holds(y) /\ ~Holds(conn[c]) /\ permits # 0 /\ permits' = permits - 1
    \/ ~Holds(y) /\ Holds(conn[c]) /\ permits' = permits + 1

\* An event is pushed when a tunnel gets to its end, and only then.
EventsMove(c, y) ==
    \/ (IsOver(y) <=> IsOver(conn[c])) /\ (IsOver(y) => y.outcome = conn[c].outcome) /\ events' = events
    \/ IsOver(y) /\ ~IsOver(conn[c]) /\ y.outcome \in TunnelOutcomes /\ Push(c, y.outcome)

LEMMA Moves ==
  ASSUME Core, NEW c \in Clients, NEW y, Becomes(c, y), PermitsMove(c, y), EventsMove(c, y),
         NEW names \in SUBSET StatNames, StatsMove(c, y, names), Listed'
  PROVE  Core'
<1> USE DEF Core
<1>1. ConnInv'  BY ConnStep
<1>2. PermitInv'
  <2>1. CASE (Holds(y) <=> Holds(conn[c])) /\ permits' = permits  BY <2>1, PermitStill
  <2>2. CASE Holds(y) /\ ~Holds(conn[c]) /\ permits # 0 /\ permits' = permits - 1  BY <2>2, PermitTaken
  <2>3. CASE ~Holds(y) /\ Holds(conn[c]) /\ permits' = permits + 1  BY <2>3, PermitFreed
  <2> QED  BY <2>1, <2>2, <2>3 DEF PermitsMove
<1>3. EventInv'
  <2>1. CASE (IsOver(y) <=> IsOver(conn[c])) /\ (IsOver(y) => y.outcome = conn[c].outcome) /\ events' = events
    BY <2>1, EventStill
  <2>2. CASE IsOver(y) /\ ~IsOver(conn[c]) /\ y.outcome \in TunnelOutcomes /\ Push(c, y.outcome)
    BY <2>2, EventPushed
  <2> QED  BY <2>1, <2>2 DEF EventsMove
<1>4. StatInv'  BY StatStep
<1> QED  BY <1>1, <1>2, <1>3, <1>4

\* A step that neither counts nor records.
LEMMA Uncounted ==
  ASSUME Core, NEW c \in Clients, NEW y, IsCounted(y) => IsCounted(conn[c]), UNCHANGED <<stats, flows>>
  PROVE  StatsMove(c, y, {}) /\ {} \in SUBSET StatNames /\ Listed'
<1>1. stats \in [StatNames -> Nat]  BY DEF Core, StatInv
<1>2. Counted({}) = stats  BY <1>1 DEF Counted
<1>3. Listed /\ Cardinality(LoggedFlows) \in Nat  BY LoggedFinite DEF Core
<1>4. LoggedFlows' = LoggedFlows  BY <1>3, LoggedStill
<1>5. Listed'  BY <1>3, LoggedStill
<1>6. Cardinality(LoggedFlows') = Cardinality(LoggedFlows) + (IF "flows" \in {} THEN 1 ELSE 0)  BY <1>3, <1>4
<1> QED  BY <1>2, <1>5, <1>6 DEF StatsMove

\* A step of a connection that changes neither what it holds nor what it owes.
LEMMA Quiet ==
  ASSUME Core, NEW c \in Clients, NEW y, Becomes(c, y), Holds(y) <=> Holds(conn[c]),
         IsOver(y) <=> IsOver(conn[c]), IsOver(y) => y.outcome = conn[c].outcome,
         IsCounted(y) => IsCounted(conn[c]), UNCHANGED <<permits, events, flows, stats>>
  PROVE  Core'
<1>1. PermitsMove(c, y) /\ EventsMove(c, y)  BY DEF PermitsMove, EventsMove
<1>2. StatsMove(c, y, {}) /\ {} \in SUBSET StatNames /\ Listed'  BY Uncounted
<1> QED  BY <1>1, <1>2, Moves

-----------------------------------------------------------------------------
(* The actions.                                                             *)

LEMMA OfConn ==
  ASSUME Core, NEW c \in Clients
  PROVE  /\ conn \in [Clients -> ConnRecord] /\ conn[c] \in ConnRecord
         /\ ConnOK(conn[c])
BY DEF Core, ConnInv, ConnOK

\* The fields that say how a tunnel stands are as they were.
Like(y, x) ==
    /\ y.answer = x.answer /\ y.outcome = x.outcome /\ y.end = x.end
    /\ y.up = x.up /\ y.down = x.down /\ y.sent = x.sent /\ y.last = x.last
    /\ y.quiet = x.quiet /\ y.still = x.still

\* The stages of a decrypted tunnel.
Inside == {"handshake", "decrypted", "exchange", "closing"}

Passes(a, b) == (a = b /\ a # "idle") \/ (a \in Inside /\ b \in Inside) \/ (a = "orphan" /\ b = "closed")

SameStanding(y, x) ==
    /\ Holds(y) <=> Holds(x)
    /\ IsOver(y) <=> IsOver(x)
    /\ IsCounted(y) <=> IsCounted(x)
    /\ y.outcome = x.outcome

LEMMA Restaged ==
  ASSUME NEW x, NEW y, ConnOK(x), y \in ConnRecord, Like(y, x), Passes(x.st, y.st)
  PROVE  ConnOK(y) /\ SameStanding(y, x)
<1>1. Metered(y) /\ Watched(y)
  BY DEF ConnOK, Metered, Watched, Like, Passes, Inside
<1>2. Staged(y)
  BY ZenonT(60) DEF ConnOK, Staged, Like, Passes, Inside, OpenStates
<1>3. x.st \in OpenStates <=> y.st \in OpenStates  BY DEF Passes, Inside, OpenStates
<1>4. (Holds(y) <=> Holds(x)) /\ (y.st = "leaf" <=> x.st = "leaf")  BY <1>3 DEF Passes, Inside, OpenStates, Holds
<1> QED  BY ZenonT(60), <1>1, <1>2, <1>3, <1>4 DEF ConnOK, SameStanding, IsOver, IsCounted, Like

LEMMA CancelKeeps == ASSUME Core, NEW c \in Clients, Cancel(c) PROVE Core'
<1> DEFINE x == conn[c]
           y == [x EXCEPT !.cancelled = TRUE]
<1>1. conn \in [Clients -> ConnRecord] /\ x \in ConnRecord /\ ConnOK(x)  BY OfConn
<1>2. conn' = [conn EXCEPT ![c] = y] /\ UNCHANGED <<permits, events, flows, stats>>  BY <1>1 DEF Cancel
<1>3. x.st # "idle"  BY DEF Cancel, Open
<1> HIDE DEF x
<1>4. y \in ConnRecord /\ Like(y, x) /\ y.st = x.st  BY <1>1 DEF ConnRecord, Like
<1> HIDE DEF y
<1>5. ConnOK(y) /\ SameStanding(y, x)  BY <1>1, <1>3, <1>4, Restaged DEF Passes
<1> QED  BY <1>2, <1>5, Quiet DEF Becomes, SameStanding, x

LEMMA SignalDriverKeeps == ASSUME Core, NEW c \in Clients, SignalDriver(c) PROVE Core'
<1> DEFINE x == conn[c]
           y == [x EXCEPT !.st = "closing", !.req = IF x.st = "exchange" THEN x.req ELSE {}]
<1>1. conn \in [Clients -> ConnRecord] /\ x \in ConnRecord /\ ConnOK(x)  BY OfConn
<1>2. conn' = [conn EXCEPT ![c] = y] /\ UNCHANGED <<permits, events, flows, stats>>
  BY <1>1 DEF SignalDriver, ConnRecord
<1>3. x.st \in {"decrypted", "exchange"}  BY DEF SignalDriver
<1> HIDE DEF x
<1>4. y \in ConnRecord /\ Like(y, x) /\ y.st = "closing"  BY <1>1 DEF ConnRecord, Like, States
<1> HIDE DEF y
<1>5. ConnOK(y) /\ SameStanding(y, x)  BY <1>1, <1>3, <1>4, Restaged DEF Passes, Inside
<1> QED  BY <1>2, <1>5, Quiet DEF Becomes, SameStanding, x

LEMMA InnerCallKeeps == ASSUME Core, NEW c \in Clients, NEW r \in InnerRequests, InnerCall(c, r) PROVE Core'
<1> DEFINE x == conn[c]
           x1 == [x EXCEPT !.inner = @ + 1]
           x2 == [x1 EXCEPT !.poisoned = TRUE]
           x3 == [x1 EXCEPT !.st = "exchange", !.req = {r}]
<1>1. conn \in [Clients -> ConnRecord] /\ x \in ConnRecord /\ ConnOK(x)  BY OfConn
<1>2. /\ \E y \in {x1, x2, x3} : conn' = [conn EXCEPT ![c] = y]
      /\ UNCHANGED <<permits, events, flows, stats>>  BY DEF InnerCall
<1>3. x.st = "decrypted" /\ x.inner < MaxInner /\ MaxInner \in Nat  BY TunnelBounds DEF InnerCall
<1>4. {r} \in SUBSET AllRequests  BY DEF AllRequests
<1> HIDE DEF x
<1>5. x1 \in ConnRecord /\ Like(x1, x) /\ x1.st = "decrypted"
  <2>1. x.inner \in 0..MaxInner  BY <1>1 DEF ConnRecord
  <2>2. x.inner + 1 \in 0..MaxInner  BY <1>3, <2>1
  <2> QED  BY <1>1, <1>3, <2>2 DEF ConnRecord, Like
<1> HIDE DEF x1
<1>6. x2 \in ConnRecord /\ Like(x2, x) /\ x2.st = "decrypted"  BY <1>5 DEF ConnRecord, Like
<1>7. x3 \in ConnRecord /\ Like(x3, x) /\ x3.st = "exchange"  BY <1>4, <1>5 DEF ConnRecord, Like, States
<1> HIDE DEF x2, x3
<1>8. PICK y \in {x1, x2, x3} : conn' = [conn EXCEPT ![c] = y]  BY <1>2
<1>9. y \in ConnRecord /\ Like(y, x) /\ y.st \in Inside  BY <1>5, <1>6, <1>7, <1>8 DEF Inside
<1>10. ConnOK(y) /\ SameStanding(y, x)  BY <1>1, <1>3, <1>9, Restaged DEF Passes, Inside
<1> QED  BY <1>2, <1>8, <1>10, Quiet DEF Becomes, SameStanding, x

LEMMA RelayStopsKeeps ==
  ASSUME Core, NEW c \in Clients, NEW how \in {"eof", "error"}, RelayStops(c, how) PROVE Core'
<1> DEFINE x == conn[c]
           y == [x EXCEPT !.end = how]
<1>1. conn \in [Clients -> ConnRecord] /\ x \in ConnRecord /\ ConnOK(x)  BY OfConn
<1>2. conn' = [conn EXCEPT ![c] = y] /\ UNCHANGED <<permits, events, flows, stats>>  BY <1>1 DEF RelayStops
<1>3. x.st \in {"relaying", "detached"}  BY DEF RelayStops
<1> HIDE DEF x
<1>4. /\ y \in ConnRecord /\ y.st = x.st /\ y.answer = x.answer /\ y.outcome = x.outcome /\ y.end = how
      /\ y.up = x.up /\ y.down = x.down /\ y.sent = x.sent /\ y.last = x.last
      /\ y.quiet = x.quiet /\ y.still = x.still
  BY <1>1 DEF ConnRecord, Ends
<1> HIDE DEF y
<1>5. Metered(y) /\ Watched(y)  BY <1>1, <1>4 DEF ConnOK, Metered, Watched
<1>6. Staged(y)  BY <1>1, <1>3, <1>4 DEF ConnOK, Staged, OpenStates
<1>7. SameStanding(y, x)  BY <1>4 DEF SameStanding, Holds, IsOver, IsCounted
<1> QED  BY <1>2, <1>4, <1>5, <1>6, <1>7, Quiet DEF Becomes, ConnOK, SameStanding, x

\* What is read is counted before it is forwarded, and forwarded within the budget.
LEMMA RelayKeeps ==
  ASSUME Core, NEW c \in Clients, NEW way \in {"up", "down"}, NEW n \in Chunks, Relay(c, way, n) PROVE Core'
<1> DEFINE x == conn[c]
           u == IF way = "up" THEN n ELSE 0
           d == IF way = "down" THEN n ELSE 0
           z == [x EXCEPT !.up = @ + u, !.down = @ + d, !.still = 0]
           z1 == [z EXCEPT !.limitHit = TRUE, !.end = "error"]
           z2 == [z EXCEPT !.sent = @ + n]
           y == IF OverLimit(z) THEN z1 ELSE z2
<1>1. conn \in [Clients -> ConnRecord] /\ x \in ConnRecord /\ ConnOK(x)  BY OfConn
<1>2. conn' = [conn EXCEPT ![c] = y] /\ UNCHANGED <<permits, events, flows, stats>>  BY <1>1 DEF Relay
<1>3. x.st \in {"relaying", "detached"}  BY DEF Relay
<1>4. n \in Nat /\ n # 0 /\ u \in Nat /\ d \in Nat /\ u + d = n /\ MaxBytes \in Nat /\ IdleTimeout \in Nat
  BY TunnelBounds
<1> HIDE DEF x, u, d
<1>5. x.up \in Nat /\ x.down \in Nat /\ x.sent \in Nat /\ x.last \in Nat /\ x.end \in Ends  BY <1>1 DEF ConnRecord
<1>6. x.up + u \in Nat /\ x.down + d \in Nat /\ x.sent + n \in Nat /\ 0 \in 0..IdleTimeout  BY <1>4, <1>5
<1>7. /\ z \in ConnRecord /\ z.st = x.st /\ z.answer = x.answer /\ z.outcome = x.outcome /\ z.end = x.end
      /\ z.up = x.up + u /\ z.down = x.down + d /\ z.sent = x.sent /\ z.last = x.last /\ z.quiet = x.quiet
  BY <1>1, <1>6 DEF ConnRecord
<1> HIDE DEF z
<1>8. /\ z1 \in ConnRecord /\ z1.st = z.st /\ z1.answer = z.answer /\ z1.outcome = z.outcome /\ z1.end = "error"
      /\ z1.up = z.up /\ z1.down = z.down /\ z1.sent = z.sent /\ z1.last = z.last /\ z1.quiet = z.quiet
  BY <1>7 DEF ConnRecord, Ends
<1>9. /\ z2 \in ConnRecord /\ z2.st = z.st /\ z2.answer = z.answer /\ z2.outcome = z.outcome /\ z2.end = z.end
      /\ z2.up = z.up /\ z2.down = z.down /\ z2.sent = z.sent + n /\ z2.last = z.last /\ z2.quiet = z.quiet
  BY <1>6, <1>7 DEF ConnRecord
<1> HIDE DEF z1, z2
<1>10. /\ y \in ConnRecord /\ y.st = x.st /\ y.answer = x.answer /\ y.outcome = x.outcome
       /\ y.end \in {x.end, "error"} /\ y.up = x.up + u /\ y.down = x.down + d /\ y.last = x.last
       /\ y.sent = x.sent \/ (y.sent = x.sent + n /\ ~(x.up + u + (x.down + d) > MaxBytes))
  BY <1>7, <1>8, <1>9 DEF OverLimit
<1> HIDE DEF y
<1>11. x.sent <= x.up + x.down /\ x.sent <= MaxBytes /\ x.last <= x.up + x.down
  BY <1>1 DEF ConnOK, Metered, Watched
<1>12. y.up + y.down = x.up + x.down + n  BY <1>4, <1>5, <1>10
<1>13. Metered(y)
  <2>1. CASE y.sent = x.sent  BY <2>1, <1>4, <1>5, <1>11, <1>12 DEF Metered
  <2>2. CASE y.sent = x.sent + n /\ ~(x.up + u + (x.down + d) > MaxBytes)
    BY <2>2, <1>4, <1>5, <1>10, <1>11, <1>12 DEF Metered
  <2> QED  BY <1>10, <2>1, <2>2
<1>14. Watched(y)  BY <1>3, <1>4, <1>5, <1>10, <1>11, <1>12 DEF Watched
<1>15. Staged(y)  BY <1>1, <1>3, <1>10 DEF ConnOK, Staged, OpenStates
<1>16. SameStanding(y, x)  BY <1>10 DEF SameStanding, Holds, IsOver, IsCounted
<1> QED  BY <1>2, <1>10, <1>13, <1>14, <1>15, <1>16, Quiet DEF Becomes, ConnOK, SameStanding, x

\* The idle watch was behind the time since the last byte, so its verdict holds.
LEMMA RelayEndsKeeps ==
  ASSUME Core, NEW c \in Clients, NEW why \in {"joined", "long", "quiet"}, RelayEnds(c, why) PROVE Core'
<1> DEFINE x == conn[c]
           o == CASE why = "long"  -> "duration_limit"
                  [] why = "quiet" -> "idle_timeout"
                  [] why = "joined" /\ x.limitHit -> "byte_limit"
                  [] why = "joined" /\ ~x.limitHit /\ x.end = "error" -> "relay_error"
                  [] why = "joined" /\ ~x.limitHit /\ x.end = "eof" -> "completed"
           y == [x EXCEPT !.st = "ended", !.end = "stopped", !.last = 0, !.quiet = 0, !.age = 0, !.outcome = o]
<1>1. conn \in [Clients -> ConnRecord] /\ x \in ConnRecord /\ ConnOK(x)  BY OfConn
<1>2. /\ conn' = [conn EXCEPT ![c].st = "ended", ![c].end = "stopped", ![c].last = 0,
                               ![c].quiet = 0, ![c].age = 0, ![c].outcome = o]
       /\ UNCHANGED <<permits, events, flows, stats>>
  BY DEF RelayEnds
<1>3. conn' = [conn EXCEPT ![c] = y] /\ UNCHANGED <<permits, events, flows, stats>>
  <2> HIDE DEF o
  <2> QED  BY <1>1, <1>2
<1>4. /\ x.st = "relaying"
      /\ why = "joined" => x.end # ""
      /\ why = "quiet" => x.quiet >= IdleTimeout /\ x.up + x.down = x.last
  BY DEF RelayEnds
<1> HIDE DEF x
<1>5. x.end \in Ends /\ x.end # "stopped"  BY <1>1, <1>4 DEF ConnRecord, ConnOK, Staged
<1>6. o \in TunnelOutcomes /\ (o = "idle_timeout" => why = "quiet")
  BY <1>4, <1>5 DEF TunnelOutcomes, Ends
<1> HIDE DEF o
<1>7. o \in Endings /\ o # ""  BY <1>6 DEF Endings, TunnelOutcomes
<1>8. x.up \in Nat /\ x.down \in Nat /\ x.sent \in Nat /\ x.quiet \in 0..IdleTimeout /\ x.still \in 0..IdleTimeout
  BY <1>1 DEF ConnRecord
<1>9. 0 \in 0..IdleTimeout /\ 0 \in 0..MaxDuration /\ IdleTimeout \in Nat  BY TunnelBounds
<1>10. /\ y \in ConnRecord /\ y.st = "ended" /\ y.answer = x.answer /\ y.outcome = o /\ y.end = "stopped"
      /\ y.up = x.up /\ y.down = x.down /\ y.sent = x.sent /\ y.last = 0 /\ y.quiet = 0 /\ y.still = x.still
  BY <1>1, <1>7, <1>9 DEF ConnRecord, Ends, States
<1> HIDE DEF y
<1>11. Metered(y)  BY <1>1, <1>10 DEF ConnOK, Metered
<1>12. why = "quiet" => x.still >= IdleTimeout
  <2>1. x.up + x.down = x.last => x.quiet <= x.still  BY <1>1 DEF ConnOK, Watched
  <2> QED  BY <1>4, <1>8, <1>9, <2>1
<1>13. Watched(y)
  <2>1. 0 <= x.up + x.down /\ 0 <= x.still  BY <1>8, <1>9
  <2> QED  BY <1>6, <1>10, <1>12, <2>1 DEF Watched
<1>14. Staged(y)  BY <1>1, <1>4, <1>7, <1>10 DEF ConnOK, Staged, OpenStates
<1>15. /\ Holds(y) /\ Holds(x) /\ ~IsOver(y) /\ ~IsOver(x) /\ IsCounted(x)
  BY <1>1, <1>4, <1>10 DEF Holds, IsOver, IsCounted, OpenStates, ConnOK, Staged
<1> QED  BY <1>3, <1>10, <1>11, <1>13, <1>14, <1>15, Quiet DEF Becomes, ConnOK, x

LEMMA IdleOK ==
  /\ Idle \in ConnRecord /\ Idle.st = "idle" /\ Idle.answer = 0 /\ Idle.outcome = "" /\ Idle.end = ""
  /\ Idle.up = 0 /\ Idle.down = 0 /\ Idle.sent = 0 /\ Idle.last = 0 /\ Idle.quiet = 0 /\ Idle.still = 0
<1>1. 0 \in 0..MaxInner /\ 0 \in 0..IdleTimeout /\ 0 \in 0..MaxDuration  BY TunnelBounds
<1> QED  BY <1>1 DEF Idle, ConnRecord, States, Codes, Ends, Endings

LEMMA Zero == 0 <= 0 + 0 /\ 0 <= MaxBytes /\ 0 + 0 = 0
<1>1. MaxBytes \in Nat  BY TunnelBounds
<1>2. 0 <= MaxBytes  BY <1>1
<1>3. 0 <= 0 + 0 /\ 0 + 0 = 0  OBVIOUS
<1> QED  BY <1>2, <1>3

\* A connection that starts afresh from Idle in another state.
LEMMA FromIdle ==
  ASSUME NEW y \in ConnRecord, y.st # "idle", y.up = 0, y.down = 0, y.sent = 0, y.last = 0, y.quiet = 0,
         y.still = 0, y.end = "", y.st \in {"plain", "dialing", "leaf", "closed"},
         y.st # "closed" => y.answer = 0 /\ y.outcome = ""
  PROVE  ConnOK(y)
<1>1. 0 <= 0 + 0 /\ 0 <= MaxBytes /\ 0 + 0 = 0  BY Zero
<1>2. Metered(y) /\ Watched(y)  BY <1>1 DEF Metered, Watched
<1>3. Staged(y)  BY DEF Staged, OpenStates
<1> QED  BY <1>2, <1>3 DEF ConnOK

\* The end of a tunnel: its event is pushed and its permit free.
LEMMA ClosedKeeps ==
  ASSUME Core, NEW c \in Clients, NEW st \in {"closed", "detached", "orphan"}, NEW outcome \in TunnelOutcomes,
         conn[c].st \in OpenStates, Closed(c, st, outcome)
  PROVE  Core'
<1> DEFINE x == conn[c]
           y1 == [Idle EXCEPT !.st = st, !.answer = 200, !.outcome = outcome]
           y2 == [x EXCEPT !.st = st, !.outcome = outcome, !.last = 0, !.quiet = 0, !.still = 0, !.age = 0]
           y == IF st = "closed" THEN y1 ELSE y2
<1>1. conn \in [Clients -> ConnRecord] /\ x \in ConnRecord /\ ConnOK(x)  BY OfConn
<1>2. /\ conn' = [conn EXCEPT ![c] = y] /\ UNCHANGED <<flows, stats>>
      /\ permits' = permits + 1 /\ Push(c, outcome)
  BY <1>1 DEF Closed
<1>3. x.st \in OpenStates  OBVIOUS
<1> HIDE DEF x
<1>4. outcome \in Endings /\ outcome # "" /\ st \in States /\ 200 \in Codes
  <2>1. outcome \in Endings /\ outcome # ""  BY DEF Endings, TunnelOutcomes
  <2>2. st \in States  BY DEF States
  <2>3. 200 \in Codes  BY DEF Codes
  <2> QED  BY <2>1, <2>2, <2>3
<1>5. 0 \in 0..IdleTimeout /\ 0 \in 0..MaxDuration  BY TunnelBounds
<1>6. x.answer = 200 /\ Holds(x) /\ ~IsOver(x) /\ IsCounted(x)
  BY <1>1, <1>3 DEF ConnOK, Staged, Holds, IsOver, IsCounted
<1>7. /\ y1 \in ConnRecord /\ y1.st = st /\ y1.answer = 200 /\ y1.outcome = outcome
      /\ y1.up = 0 /\ y1.down = 0 /\ y1.sent = 0 /\ y1.last = 0 /\ y1.quiet = 0 /\ y1.still = 0 /\ y1.end = ""
  BY ZenonT(60), <1>4, IdleOK DEF ConnRecord
<1>8. /\ y2 \in ConnRecord /\ y2.st = st /\ y2.answer = 200 /\ y2.outcome = outcome
      /\ y2.up = x.up /\ y2.down = x.down /\ y2.sent = x.sent /\ y2.last = 0 /\ y2.quiet = 0 /\ y2.still = 0
  BY <1>1, <1>4, <1>6, <1>5 DEF ConnRecord
<1> HIDE DEF y1, y2
<1>9. ConnOK(y) /\ y.st = st /\ y.answer = 200 /\ y.outcome = outcome
  <2>1. CASE st = "closed"  BY ZenonT(60), <1>7, <2>1, FromIdle
  <2>2. CASE st # "closed"
    <3>1. x.up \in Nat /\ x.down \in Nat  BY <1>1 DEF ConnRecord
    <3>2. Metered(y2)  BY <1>1, <1>8 DEF ConnOK, Metered
    <3>3. 0 <= x.up + x.down  BY <3>1
    <3>4. Watched(y2)  BY <1>8, <3>3 DEF Watched
    <3>5. Staged(y2)  BY <1>4, <1>8, <2>2 DEF Staged, OpenStates
    <3> QED  BY <1>8, <2>2, <3>2, <3>4, <3>5 DEF ConnOK
  <2> QED  BY <2>1, <2>2
<1> HIDE DEF y
<1>10. ~Holds(y) /\ IsOver(y)  BY <1>4, <1>9 DEF Holds, IsOver, OpenStates
<1>11. PermitsMove(c, y) /\ EventsMove(c, y)
  BY <1>2, <1>6, <1>9, <1>10 DEF PermitsMove, EventsMove, x
<1>12. StatsMove(c, y, {}) /\ {} \in SUBSET StatNames /\ Listed'  BY <1>2, <1>6, Uncounted DEF x
<1> QED  BY <1>2, <1>9, <1>11, <1>12, Moves DEF Becomes

LEMMA EndingsKeep ==
  ASSUME Core, NEW c \in Clients,
         \/ RelayNoticed(c)
         \/ RelayAborted(c)
         \/ \E o \in {"completed", "relay_error"} : DriverEnds(c, o)
         \/ \E graceful \in BOOLEAN : DriverStopped(c, graceful)
  PROVE  Core'
<1>1. ConnOK(conn[c])  BY OfConn
<1>2. CASE RelayNoticed(c)
  <2>1. conn[c].outcome \in TunnelOutcomes
    BY <1>1, <1>2 DEF RelayNoticed, ConnOK, ConnRecord, Staged, Endings
  <2> QED  BY <1>2, <2>1, ClosedKeeps DEF RelayNoticed, OpenStates
<1>3. CASE RelayAborted(c)
  <2> DEFINE st == IF conn[c].end = "" THEN "detached" ELSE "closed"
  <2>1. st \in {"closed", "detached", "orphan"} /\ "shutdown" \in TunnelOutcomes /\ conn[c].st \in OpenStates
    BY <1>3 DEF TunnelOutcomes, RelayAborted, OpenStates
  <2>2. Closed(c, st, "shutdown")  BY <1>3 DEF RelayAborted
  <2> HIDE DEF st
  <2> QED  BY <2>1, <2>2, ClosedKeeps
<1>4. CASE \E o \in {"completed", "relay_error"} : DriverEnds(c, o)
  <2>1. PICK o \in {"completed", "relay_error"} : DriverEnds(c, o)  BY <1>4
  <2>2. o \in TunnelOutcomes /\ conn[c].st \in OpenStates /\ Closed(c, "closed", o)
    BY <2>1 DEF TunnelOutcomes, DriverEnds, OpenStates
  <2> QED  BY <2>2, ClosedKeeps
<1>5. CASE \E graceful \in BOOLEAN : DriverStopped(c, graceful)
  <2> DEFINE st == IF conn[c].req = {} THEN "closed" ELSE "orphan"
  <2>1. st \in {"closed", "detached", "orphan"} /\ "shutdown" \in TunnelOutcomes /\ conn[c].st \in OpenStates
    BY <1>5 DEF TunnelOutcomes, DriverStopped, OpenStates
  <2>2. Closed(c, st, "shutdown")  BY <1>5 DEF DriverStopped
  <2> HIDE DEF st
  <2> QED  BY <2>1, <2>2, ClosedKeeps
<1> QED  BY <1>2, <1>3, <1>4, <1>5

LEMMA AcceptTlsKeeps ==
  ASSUME Core, NEW c \in Clients, NEW h \in Handshakes, AcceptTls(c, h) PROVE Core'
<1>1. conn[c].st = "handshake"  BY DEF AcceptTls
<1>2. CASE Closed(c, "closed", "relay_error")
  BY <1>1, <1>2, ClosedKeeps DEF OpenStates, TunnelOutcomes
<1>3. CASE conn' = [conn EXCEPT ![c].st = "decrypted"] /\ UNCHANGED <<permits, events>>
  <2> DEFINE x == conn[c]
             y == [x EXCEPT !.st = "decrypted"]
  <2>1. conn \in [Clients -> ConnRecord] /\ x \in ConnRecord /\ ConnOK(x)  BY OfConn
  <2>2. conn' = [conn EXCEPT ![c] = y] /\ UNCHANGED <<permits, events, flows, stats>>
    BY <1>3, <2>1 DEF AcceptTls
  <2>3. x.st = "handshake"  BY <1>1
  <2> HIDE DEF x
  <2>4. y \in ConnRecord /\ Like(y, x) /\ y.st = "decrypted"  BY <2>1 DEF ConnRecord, Like, States
  <2> HIDE DEF y
  <2>5. ConnOK(y) /\ SameStanding(y, x)  BY <2>1, <2>3, <2>4, Restaged DEF Passes, Inside
  <2> QED  BY <2>2, <2>5, Quiet DEF Becomes, SameStanding, x
<1> QED  BY <1>2, <1>3 DEF AcceptTls

\* The sets of counters that some step advances.
Tallies == {{}, {"rejected"}, {"accepted"}, {"flows"}, {"accepted", "rejected"},
            {"accepted", "tunneled"}, {"accepted", "intercepted"}}

LEMMA TalliesOK ==
  ASSUME NEW names \in Tallies
  PROVE  /\ names \in SUBSET StatNames
         /\ ~({"tunneled", "intercepted"} \subseteq names)
         /\ names \cap {"tunneled", "intercepted"} # {} => "accepted" \in names
BY DEF Tallies, StatNames

\* Tallied: the counters in names are advanced, the logged flows with theirs.
Tallied(names) ==
    /\ stats' = Counted(names)
    /\ Cardinality(LoggedFlows') = Cardinality(LoggedFlows) + (IF "flows" \in names THEN 1 ELSE 0)
    /\ Listed'

LEMMA Untallied ==
  ASSUME Core, UNCHANGED flows, NEW names, "flows" \notin names, stats' = Counted(names) PROVE Tallied(names)
<1>1. Listed /\ Cardinality(LoggedFlows) \in Nat  BY LoggedFinite DEF Core
<1>2. LoggedFlows' = LoggedFlows /\ Listed'  BY <1>1, LoggedStill
<1>3. Cardinality(LoggedFlows') = Cardinality(LoggedFlows) + (IF "flows" \in names THEN 1 ELSE 0)
  BY <1>1, <1>2
<1> QED  BY <1>2, <1>3 DEF Tallied

LEMMA Unchanged == ASSUME Core, UNCHANGED stats PROVE stats' = Counted({})
<1>1. stats \in [StatNames -> Nat]  BY DEF Core, StatInv
<1> QED  BY <1>1 DEF Counted

LEMMA RecordedTallies ==
  ASSUME Core, NEW c, NEW r, NEW named, NEW outcome, Recorded(c, r, named, outcome)
  PROVE  \E names \in {{}, {"flows"}} : Tallied(names)
<1>1. CASE UNCHANGED flows /\ UNCHANGED stats
  <2>1. Tallied({})  BY <1>1, Unchanged, Untallied
  <2> QED  BY <2>1
<1>2. CASE ~(outcome = "failed" \/ phase = "finished")
  <2> DEFINE f == [client |-> c, via |-> conn[c].st, target |-> CHOOSE t \in conn[c].target : TRUE,
                   named |-> named, request |-> r, headers |-> FilterProxyHeaders(r.headers),
                   logged |-> outcome # "unlogged"]
  <2>1. flows' = Append(flows, f)  BY <1>2 DEF Recorded
  <2>2. f.logged <=> outcome # "unlogged"  OBVIOUS
  <2>3. Listed /\ Cardinality(LoggedFlows) \in Nat  BY LoggedFinite DEF Core
  <2> HIDE DEF f
  <2>4. CASE outcome = "unlogged"
    <3>1. stats' = stats  BY <1>2, <2>4 DEF Recorded
    <3>2. LoggedFlows' = LoggedFlows /\ Listed'  BY <2>1, <2>2, <2>3, <2>4, LoggedAppend
    <3>3. Tallied({})  BY <2>3, <3>1, <3>2, Unchanged DEF Tallied
    <3> QED  BY <3>3
  <2>5. CASE outcome # "unlogged"
    <3>1. stats' = Counted({"flows"})  BY <1>2, <2>5 DEF Recorded
    <3>2. Cardinality(LoggedFlows') = Cardinality(LoggedFlows) + 1 /\ Listed'
      BY <2>1, <2>2, <2>3, <2>5, LoggedAppend
    <3>3. Tallied({"flows"})  BY <3>1, <3>2 DEF Tallied
    <3> QED  BY <3>3
  <2> QED  BY <2>4, <2>5
<1> QED  BY <1>1, <1>2 DEF Recorded

\* The connection is answered, and over without an event.
LEMMA AnsweredKeeps ==
  ASSUME Core, NEW c \in Clients, NEW code \in Codes, Answered(c, code), ~IsOver(conn[c]), events' = events,
         \/ ~Holds(conn[c]) /\ permits' = permits
         \/ Holds(conn[c]) /\ permits' = permits + 1,
         NEW names \in Tallies, Tallied(names)
  PROVE  Core'
<1> DEFINE y == [Idle EXCEPT !.st = "closed", !.answer = code]
<1>1. conn' = [conn EXCEPT ![c] = y]  BY DEF Answered
<1>2. "closed" \in States  BY DEF States
<1>3. /\ y \in ConnRecord /\ y.st = "closed" /\ y.outcome = ""
      /\ y.up = 0 /\ y.down = 0 /\ y.sent = 0 /\ y.last = 0 /\ y.quiet = 0 /\ y.still = 0 /\ y.end = ""
  BY <1>2, IdleOK DEF ConnRecord
<1> HIDE DEF y
<1>4. ConnOK(y)  BY <1>3, FromIdle
<1>5. ~Holds(y) /\ ~IsOver(y) /\ ~IsCounted(y)  BY <1>3 DEF Holds, IsOver, IsCounted, OpenStates
<1>6. PermitsMove(c, y) /\ EventsMove(c, y)  BY <1>5 DEF PermitsMove, EventsMove
<1>7. StatsMove(c, y, names) /\ names \in SUBSET StatNames /\ Listed'
  BY <1>5, TalliesOK DEF StatsMove, Tallied
<1> QED  BY <1>1, <1>4, <1>6, <1>7, Moves DEF Becomes

\* The connection is taken on: a plain request, or a tunnel with its permit.
LEMMA AdmittedKeeps ==
  ASSUME Core, NEW c \in Clients, NEW r \in Requests, NEW t \in Hosts, NEW st \in {"plain", "dialing", "leaf"},
         conn[c].st = "idle", events' = events,
         conn' = [conn EXCEPT ![c].st = st, ![c].req = {r}, ![c].target = {t}],
         IF st = "plain" THEN permits' = permits ELSE permits # 0 /\ permits' = permits - 1,
         NEW names \in Tallies, Tallied(names), st = "leaf" => "intercepted" \in names
  PROVE  Core'
<1> DEFINE x == conn[c]
           y == [x EXCEPT !.st = st, !.req = {r}, !.target = {t}]
<1>1. conn \in [Clients -> ConnRecord] /\ x \in ConnRecord /\ ConnOK(x)  BY OfConn
<1>2. conn' = [conn EXCEPT ![c] = y]  BY <1>1
<1>3. x = Idle  BY <1>1 DEF ConnOK, Staged
<1>4. st \in States /\ {r} \in SUBSET AllRequests /\ {t} \in SUBSET Hosts  BY DEF States, AllRequests
<1> HIDE DEF x
<1>5. /\ y \in ConnRecord /\ y.st = st /\ y.outcome = "" /\ y.answer = 0
      /\ y.up = 0 /\ y.down = 0 /\ y.sent = 0 /\ y.last = 0 /\ y.quiet = 0 /\ y.still = 0 /\ y.end = ""
  BY <1>1, <1>3, <1>4, IdleOK DEF ConnRecord
<1> HIDE DEF y
<1>6. ConnOK(y)  BY <1>5, FromIdle
<1>7. (Holds(y) <=> st # "plain") /\ ~IsOver(y) /\ (IsCounted(y) => st = "leaf")
  BY <1>5 DEF Holds, IsOver, IsCounted, OpenStates
<1>8. ~Holds(x) /\ ~IsOver(x)  BY <1>3, IdleOK DEF Holds, IsOver, OpenStates
<1>9. PermitsMove(c, y) /\ EventsMove(c, y)  BY <1>7, <1>8 DEF PermitsMove, EventsMove, x
<1>10. StatsMove(c, y, names) /\ names \in SUBSET StatNames /\ Listed'
  BY <1>7, TalliesOK DEF StatsMove, Tallied
<1> QED  BY <1>2, <1>6, <1>9, <1>10, Moves DEF Becomes

LEMMA CodesAre == /\ 200 \in Codes /\ 400 \in Codes /\ 403 \in Codes /\ 500 \in Codes
                  /\ 502 \in Codes /\ 503 \in Codes /\ 504 \in Codes
BY DEF Codes

LEMMA IdleStands ==
  ASSUME Core, NEW c \in Clients, conn[c].st \in {"idle", "plain"} PROVE ~Holds(conn[c]) /\ ~IsOver(conn[c])
<1>1. ConnOK(conn[c])  BY OfConn
<1>2. conn[c].st = "idle" => conn[c].answer = 0
  <2>1. conn[c].st = "idle" => conn[c] = Idle  BY <1>1 DEF ConnOK, Staged
  <2> QED  BY <2>1, IdleOK
<1>3. conn[c].answer = 0  BY <1>1, <1>2 DEF ConnOK, Staged
<1> QED  BY <1>3 DEF Holds, IsOver, OpenStates

LEMMA RejectKeeps ==
  ASSUME Core, NEW c \in Clients, NEW code \in Codes, conn[c].st = "idle", Reject(c, code),
         UNCHANGED <<events, flows>>
  PROVE  Core'
<1> DEFINE names == {"rejected"}
<1>1. ~Holds(conn[c]) /\ ~IsOver(conn[c])  BY IdleStands
<1>2. names \in Tallies /\ "flows" \notin names  BY DEF Tallies
<1>3. stats' = Counted(names) /\ permits' = permits /\ Answered(c, code)  BY DEF Reject
<1> HIDE DEF names
<1>4. Tallied(names)  BY <1>2, <1>3, Untallied
<1> QED  BY <1>1, <1>2, <1>3, <1>4, AnsweredKeeps

LEMMA TakePermitKeeps ==
  ASSUME Core, NEW c \in Clients, NEW r \in Requests, NEW t \in Hosts, conn[c].st = "idle",
         UNCHANGED <<events, flows>>, NEW st \in {"dialing", "leaf"}, NEW names \in Tallies, "flows" \notin names,
         st = "leaf" => "intercepted" \in names, TakePermit(c, r, t, st, names)
  PROVE  Core'
<1>1. CASE permits = 0
  <2>1. Reject(c, 503)  BY <1>1 DEF TakePermit
  <2> QED  BY <2>1, RejectKeeps, CodesAre
<1>2. CASE permits # 0
  <2>1. /\ permits' = permits - 1 /\ stats' = Counted(names)
        /\ conn' = [conn EXCEPT ![c].st = st, ![c].req = {r}, ![c].target = {t}]
    BY <1>2 DEF TakePermit
  <2>2. Tallied(names)  BY <2>1, Untallied
  <2>3. st \in {"plain", "dialing", "leaf"} /\ st # "plain"  OBVIOUS
  <2> QED  BY <1>2, <2>1, <2>2, <2>3, AdmittedKeeps
<1> QED  BY <1>1, <1>2

LEMMA HandleConnectKeeps ==
  ASSUME Core, PhaseInv, phase = "running", NEW c \in Clients, NEW r \in Requests, conn[c].st = "idle",
         UNCHANGED <<events, flows>>, HandleConnect(c, r)
  PROVE  Core'
<1> DEFINE T == ResolveConnectTarget(r)
           t == CHOOSE x \in T : TRUE
           a == ResolveConnect(Policy, t.host, t.port)
<1>1. CASE ~r.tunnel \/ T = {}
  <2>1. Reject(c, 400)  BY <1>1 DEF HandleConnect
  <2> QED  BY <2>1, RejectKeeps, CodesAre
<1>2. CASE ~(~r.tunnel \/ T = {})
  <2>1. t \in T  BY <1>2
  <2>2. t \in Hosts  BY <2>1 DEF Hosts
  <2>3. Policy.default \in ConnectActions
    <3>1. Policy \in policy  BY DEF PhaseInv, Policy
    <3> QED  BY <3>1 DEF PhaseInv
  <2>4. a \in {"deny", "tunnel", "intercept"}  BY <2>3 DEF ResolveConnect, ConnectActions
  <2>5. /\ a = "deny" => Reject(c, 403)
        /\ a = "intercept" => HandleIntercept(c, r, t)
        /\ a = "tunnel" => HandleTunnel(c, r, t)
    BY <1>2 DEF HandleConnect
  <2> HIDE DEF t, a
  <2>6. CASE a = "deny"  BY <2>5, <2>6, RejectKeeps, CodesAre
  <2>7. CASE HandleIntercept(c, r, t)
    <3> DEFINE names == {"accepted", "intercepted"}
               st == "leaf"
    <3>1. Reject(c, 500) \/ TakePermit(c, r, t, st, names)  BY <2>7 DEF HandleIntercept
    <3>2. names \in Tallies /\ "flows" \notin names /\ "intercepted" \in names /\ st \in {"dialing", "leaf"}
      BY DEF Tallies
    <3> HIDE DEF names, st
    <3> QED  BY <2>2, <3>1, <3>2, RejectKeeps, CodesAre, TakePermitKeeps
  <2>8. CASE HandleTunnel(c, r, t)
    <3> DEFINE names == {}
               st == "dialing"
    <3>1. TakePermit(c, r, t, st, names)  BY <2>8 DEF HandleTunnel
    <3>2. names \in Tallies /\ "flows" \notin names /\ st \in {"dialing", "leaf"} /\ st # "leaf"
      BY DEF Tallies
    <3> HIDE DEF names, st
    <3> QED  BY <2>2, <3>1, <3>2, TakePermitKeeps
  <2> QED  BY <2>4, <2>5, <2>6, <2>7, <2>8
<1> QED  BY <1>1, <1>2

LEMMA HandlePlainKeeps ==
  ASSUME Core, NEW c \in Clients, NEW r \in Requests, conn[c].st = "idle",
         UNCHANGED <<events, flows>>, HandlePlain(c, r)
  PROVE  Core'
<1> DEFINE T == ResolveAbsoluteTarget(r)
           t == CHOOSE x \in T : TRUE
<1>1. CASE T = {}
  <2>1. Reject(c, 400)  BY <1>1 DEF HandlePlain
  <2> QED  BY <2>1, RejectKeeps, CodesAre
<1>2. CASE T # {} /\ ~AllowsPlain(Policy, t.host, t.port)
  <2>1. Reject(c, 403)  BY <1>2 DEF HandlePlain
  <2> QED  BY <2>1, RejectKeeps, CodesAre
<1>3. CASE T # {} /\ AllowsPlain(Policy, t.host, t.port)
  <2>1. t \in T  BY <1>3
  <2>2. t \in Hosts  BY <2>1 DEF Hosts
  <2>3. /\ permits' = permits
        /\ \/ Answered(c, 400) /\ stats' = Counted({"accepted", "rejected"})
           \/ /\ conn' = [conn EXCEPT ![c].st = "plain", ![c].req = {r}, ![c].target = {t}]
              /\ stats' = Counted({"accepted"})
    BY <1>3 DEF HandlePlain
  <2> HIDE DEF t
  <2>4. CASE Answered(c, 400) /\ stats' = Counted({"accepted", "rejected"})
    <3> DEFINE names == {"accepted", "rejected"}
    <3>1. names \in Tallies /\ "flows" \notin names /\ stats' = Counted(names)  BY <2>4 DEF Tallies
    <3> HIDE DEF names
    <3>2. Tallied(names)  BY <3>1, Untallied
    <3>3. ~Holds(conn[c]) /\ ~IsOver(conn[c])  BY IdleStands
    <3> QED  BY <2>3, <2>4, <3>1, <3>2, <3>3, AnsweredKeeps, CodesAre
  <2>5. CASE /\ conn' = [conn EXCEPT ![c].st = "plain", ![c].req = {r}, ![c].target = {t}]
             /\ stats' = Counted({"accepted"})
    <3> DEFINE names == {"accepted"}
               st == "plain"
    <3>1. names \in Tallies /\ "flows" \notin names /\ stats' = Counted(names)  BY <2>5 DEF Tallies
    <3>2. conn' = [conn EXCEPT ![c].st = st, ![c].req = {r}, ![c].target = {t}]  BY <2>5
    <3>3. st \in {"plain", "dialing", "leaf"} /\ st = "plain" /\ st # "leaf"  OBVIOUS
    <3> HIDE DEF names, st
    <3>4. Tallied(names)  BY <3>1, Untallied
    <3> QED  BY <2>2, <2>3, <3>1, <3>2, <3>3, <3>4, AdmittedKeeps
  <2> QED  BY <2>3, <2>4, <2>5
<1> QED  BY <1>1, <1>2, <1>3

LEMMA DispatchKeeps ==
  ASSUME Core, PhaseInv, NEW c \in Clients, NEW r \in Requests, Dispatch(c, r) PROVE Core'
<1>1. phase = "running" /\ conn[c].st = "idle" /\ UNCHANGED <<events, flows>>  BY DEF Dispatch
<1>2. CASE HandleConnect(c, r)  BY <1>1, <1>2, HandleConnectKeeps
<1>3. CASE HandlePlain(c, r)  BY <1>1, <1>3, HandlePlainKeeps
<1>4. CASE Answered(c, 403) /\ UNCHANGED <<permits, stats>>
  <2> DEFINE names == {}
  <2>1. names \in Tallies /\ "flows" \notin names  BY DEF Tallies
  <2>2. stats' = Counted(names)  BY <1>4, Unchanged
  <2> HIDE DEF names
  <2>3. Tallied(names)  BY <1>1, <2>1, <2>2, Untallied
  <2>4. ~Holds(conn[c]) /\ ~IsOver(conn[c])  BY <1>1, IdleStands
  <2> QED  BY <1>1, <1>4, <2>1, <2>3, <2>4, AnsweredKeeps, CodesAre
<1> QED  BY <1>2, <1>3, <1>4 DEF Dispatch

LEMMA PlainDoneKeeps ==
  ASSUME Core, NEW c \in Clients, NEW outcome \in Outcomes, PlainDone(c, outcome) PROVE Core'
<1> DEFINE code == IF outcome = "response" THEN 200 ELSE 502
<1>1. PICK r \in conn[c].req : Recorded(c, r, conn[c].target, outcome) /\ Answered(c, code)  BY DEF PlainDone
<1>2. PICK names \in {{}, {"flows"}} : Tallied(names)  BY <1>1, RecordedTallies
<1>3. names \in Tallies  BY DEF Tallies
<1>4. code \in Codes  BY CodesAre
<1> HIDE DEF code
<1>5. ~Holds(conn[c]) /\ ~IsOver(conn[c])  BY IdleStands DEF PlainDone
<1>6. permits' = permits /\ events' = events  BY DEF PlainDone
<1> QED  BY <1>1, <1>2, <1>3, <1>4, <1>5, <1>6, AnsweredKeeps

\* A tunnel that is being set up holds a permit and is not over.
LEMMA SettingUp ==
  ASSUME Core, NEW c \in Clients, conn[c].st \in {"dialing", "leaf"}
  PROVE  Holds(conn[c]) /\ ~IsOver(conn[c]) /\ conn[c].answer = 0 /\ conn[c].outcome = ""
<1>1. ConnOK(conn[c])  BY OfConn
<1>2. conn[c].answer = 0 /\ conn[c].outcome = ""  BY <1>1 DEF ConnOK, Staged
<1> QED  BY <1>2 DEF Holds, IsOver

LEMMA ReleasedKeeps ==
  ASSUME Core, NEW c \in Clients, conn[c].st \in {"dialing", "leaf"}, NEW code \in Codes, Released(c, code),
         UNCHANGED <<events, flows>>, NEW names \in Tallies, "flows" \notin names, stats' = Counted(names)
  PROVE  Core'
<1>1. Holds(conn[c]) /\ ~IsOver(conn[c])  BY SettingUp
<1>2. Tallied(names)  BY Untallied
<1>3. permits' = permits + 1 /\ Answered(c, code)  BY DEF Released
<1> QED  BY <1>1, <1>2, <1>3, AnsweredKeeps

\* The tunnel is accepted: it has its answer and keeps its permit.
LEMMA OpenedKeeps ==
  ASSUME Core, NEW c \in Clients, conn[c].st \in {"dialing", "leaf"}, NEW st \in {"relaying", "handshake"},
         conn' = [conn EXCEPT ![c].st = st, ![c].answer = 200, ![c].req = {}],
         UNCHANGED <<permits, events, flows>>, NEW names \in Tallies, "flows" \notin names,
         stats' = Counted(names), conn[c].st = "dialing" => "tunneled" \in names, conn[c].end # "stopped"
  PROVE  Core'
<1> DEFINE x == conn[c]
           y == [x EXCEPT !.st = st, !.answer = 200, !.req = {}]
<1>1. conn \in [Clients -> ConnRecord] /\ x \in ConnRecord /\ ConnOK(x)  BY OfConn
<1>2. conn' = [conn EXCEPT ![c] = y]  BY ZenonT(60), <1>1
<1>3. Holds(x) /\ ~IsOver(x) /\ x.answer = 0 /\ x.outcome = ""  BY SettingUp
<1>4. st \in States /\ {} \in SUBSET AllRequests /\ 200 \in Codes  BY CodesAre DEF States
<1>5. x.end # "stopped" /\ x.st \in {"dialing", "leaf"} /\ (x.st = "dialing" => "tunneled" \in names)  OBVIOUS
<1> HIDE DEF x
<1>6. y \in ConnRecord  BY ZenonT(60), <1>1, <1>4 DEF ConnRecord
<1>7. /\ y \in ConnRecord /\ y.st = st /\ y.outcome = "" /\ y.answer = 200
      /\ y.up = x.up /\ y.down = x.down /\ y.sent = x.sent /\ y.last = x.last
      /\ y.quiet = x.quiet /\ y.still = x.still /\ y.end = x.end
  <2>1. y.st = st /\ y.outcome = x.outcome /\ y.answer = 200  BY <1>1 DEF ConnRecord
  <2>2. y.up = x.up /\ y.down = x.down /\ y.sent = x.sent /\ y.last = x.last  BY <1>1 DEF ConnRecord
  <2>3. y.quiet = x.quiet /\ y.still = x.still /\ y.end = x.end  BY <1>1 DEF ConnRecord
  <2> HIDE DEF y
  <2> QED  BY <1>3, <1>6, <2>1, <2>2, <2>3
<1> HIDE DEF y
<1>8. Metered(y) /\ Watched(y)  BY <1>1, <1>7 DEF ConnOK, Metered, Watched
<1>9. Staged(y)  BY <1>5, <1>7 DEF Staged, OpenStates
<1>10. Holds(y) /\ ~IsOver(y) /\ (x.st = "leaf" => IsCounted(x))  BY <1>7 DEF Holds, IsOver, IsCounted, OpenStates
<1>11. PermitsMove(c, y) /\ EventsMove(c, y)  BY <1>3, <1>10 DEF PermitsMove, EventsMove, x
<1>12. Tallied(names)  BY Untallied
<1>13. StatsMove(c, y, names) /\ names \in SUBSET StatNames /\ Listed'
  BY <1>5, <1>10, <1>12, TalliesOK DEF StatsMove, Tallied, x
<1> QED  BY <1>2, <1>7, <1>8, <1>9, <1>11, <1>13, Moves DEF Becomes, ConnOK

LEMMA DialKeeps ==
  ASSUME Core, NEW c \in Clients, NEW result \in {"ok", "refused", "timeout", "gone"}, Dial(c, result)
  PROVE  Core'
<1> DEFINE none == {}
           both == {"accepted", "tunneled"}
<1>1. conn[c].st = "dialing" /\ UNCHANGED <<events, flows>>  BY DEF Dial
<1>2. /\ none \in Tallies /\ "flows" \notin none
      /\ both \in Tallies /\ "flows" \notin both /\ "tunneled" \in both
  BY DEF Tallies
<1>3. UNCHANGED stats => stats' = Counted(none)  BY Unchanged
<1>4. CASE result = "ok"
  <2> DEFINE st == "relaying"
  <2>1. /\ conn' = [conn EXCEPT ![c].st = st, ![c].answer = 200, ![c].req = {}]
        /\ stats' = Counted(both) /\ permits' = permits
    BY <1>4 DEF Dial
  <2>2. st \in {"relaying", "handshake"}  OBVIOUS
  <2>3. conn[c].end # "stopped"  BY <1>1, OfConn DEF ConnOK, Staged
  <2> HIDE DEF both, none, st
  <2> QED  BY <1>1, <1>2, <2>1, <2>2, <2>3, OpenedKeeps
<1>5. CASE result = "gone"
  <2>1. Released(c, 500) /\ stats' = Counted(both)  BY <1>5 DEF Dial
  <2> HIDE DEF both, none
  <2> QED  BY <1>1, <1>2, <2>1, ReleasedKeeps, CodesAre
<1>6. CASE result \in {"timeout", "refused"}
  <2>1. (Released(c, 504) \/ Released(c, 502)) /\ stats' = Counted(none)  BY ZenonT(60), <1>3, <1>6 DEF Dial
  <2> HIDE DEF both, none
  <2> QED  BY <1>1, <1>2, <2>1, ReleasedKeeps, CodesAre
<1> QED  BY <1>4, <1>5, <1>6

LEMMA IssueKeeps ==
  ASSUME Core, NEW c \in Clients, NEW result \in {"ok", "failed", "gone"}, Issue(c, result) PROVE Core'
<1> DEFINE none == {}
<1>1. conn[c].st = "leaf" /\ UNCHANGED <<events, flows, stats>>  BY DEF Issue
<1>2. none \in Tallies /\ "flows" \notin none /\ stats' = Counted(none)  BY <1>1, Unchanged DEF Tallies
<1>3. CASE result = "ok"
  <2> DEFINE st == "handshake"
  <2>1. /\ conn' = [conn EXCEPT ![c].st = st, ![c].answer = 200, ![c].req = {}]
        /\ permits' = permits
    BY <1>3 DEF Issue
  <2>2. st \in {"relaying", "handshake"}  OBVIOUS
  <2>3. conn[c].end # "stopped"  BY <1>1, OfConn DEF ConnOK, Staged
  <2> HIDE DEF none, st
  <2> QED  BY <1>1, <1>2, <2>1, <2>2, <2>3, OpenedKeeps
<1>4. CASE result \in {"failed", "gone"}
  <2>1. Released(c, 502) \/ Released(c, 500)  BY <1>4 DEF Issue
  <2> HIDE DEF none
  <2> QED  BY <1>1, <1>2, <2>1, ReleasedKeeps, CodesAre
<1> QED  BY <1>3, <1>4

LEMMA InnerDoneKeeps ==
  ASSUME Core, NEW c \in Clients, NEW outcome \in Outcomes, InnerDone(c, outcome) PROVE Core'
<1> DEFINE x == conn[c]
           st == CASE x.st = "exchange" -> "decrypted" [] x.st = "closing" -> "closing" [] x.st = "orphan" -> "closed"
           y == [x EXCEPT !.req = {}, !.st = st]
<1>1. conn \in [Clients -> ConnRecord] /\ x \in ConnRecord /\ ConnOK(x)  BY OfConn
<1>2. conn' = [conn EXCEPT ![c].req = {}, ![c].st = st] /\ UNCHANGED <<permits, events>>  BY DEF InnerDone
<1>3. conn' = [conn EXCEPT ![c] = y] /\ UNCHANGED <<permits, events>>
  <2> HIDE DEF st
  <2> QED  BY <1>1, <1>2
<1>4. x.st \in {"exchange", "closing", "orphan"}  BY DEF InnerDone
<1>5. PICK names \in {{}, {"flows"}} : Tallied(names)  BY RecordedTallies DEF InnerDone
<1>6. names \in Tallies  BY DEF Tallies
<1> HIDE DEF x
<1>7. st \in States /\ Passes(x.st, st) /\ {} \in SUBSET AllRequests  BY <1>4 DEF States, Passes, Inside
<1> HIDE DEF st
<1>8. y \in ConnRecord /\ Like(y, x) /\ y.st = st  BY <1>1, <1>7 DEF ConnRecord, Like
<1> HIDE DEF y
<1>9. ConnOK(y) /\ SameStanding(y, x)  BY <1>1, <1>7, <1>8, Restaged
<1>10. PermitsMove(c, y) /\ EventsMove(c, y)  BY <1>3, <1>9 DEF PermitsMove, EventsMove, SameStanding, x
<1>11. StatsMove(c, y, names) /\ names \in SUBSET StatNames /\ Listed'
  BY <1>5, <1>6, <1>9, TalliesOK DEF StatsMove, Tallied, SameStanding, x
<1> QED  BY <1>3, <1>9, <1>10, <1>11, Moves DEF Becomes

\* A step that leaves the stage, the answer and the outcome of every connection.
LEMMA StageStill ==
  ASSUME Core, ConnInv', UNCHANGED <<permits, events, flows, stats>>,
         \A c \in Clients : /\ conn'[c].st = conn[c].st
                            /\ conn'[c].answer = conn[c].answer
                            /\ conn'[c].outcome = conn[c].outcome
  PROVE  Core'
<1>1. Holders' = Holders
  <2>1. Holders' = {c \in Clients : Holds(conn'[c])}  BY DEF Holders, Holds
  <2>2. \A c \in Clients : Holds(conn'[c]) <=> Holds(conn[c])  BY DEF Holds
  <2> QED  BY <2>1, <2>2 DEF Holders
<1>2. Over' = Over
  <2>1. Over' = {c \in Clients : IsOver(conn'[c])}  BY DEF Over, IsOver
  <2>2. \A c \in Clients : IsOver(conn'[c]) <=> IsOver(conn[c])  BY DEF IsOver
  <2> QED  BY <2>1, <2>2 DEF Over
<1>3. CountedOnes' = CountedOnes
  <2>1. CountedOnes' = {c \in Clients : IsCounted(conn'[c])}  BY DEF CountedOnes, IsCounted
  <2>2. \A c \in Clients : IsCounted(conn'[c]) <=> IsCounted(conn[c])  BY ZenonT(60) DEF IsCounted
  <2> QED  BY <2>1, <2>2 DEF CountedOnes
<1>4. PermitInv'  BY <1>1 DEF Core, PermitInv
<1>5. EventInv'
  <2>1. \A c \in Over : conn'[c].outcome = conn[c].outcome  BY DEF Over
  <2> QED  BY <1>2, <2>1 DEF Core, EventInv
<1>6. StatInv'  BY <1>3, LoggedStill DEF Core, StatInv
<1>7. Listed'  BY LoggedStill DEF Core
<1> QED  BY <1>4, <1>5, <1>6, <1>7 DEF Core

LEMMA MinOfTwo == ASSUME NEW a \in Int, NEW b \in Int PROVE Min({a, b}) = IF a <= b THEN a ELSE b
<1> DEFINE m == IF a <= b THEN a ELSE b
<1>1. m \in {a, b} /\ \A z \in {a, b} : m <= z  OBVIOUS
<1>2. \A z \in {a, b} : (\A w \in {a, b} : z <= w) => z = m  OBVIOUS
<1> QED  BY <1>1, <1>2 DEF Min

\* One look of the idle watch at a relay.
Ticked(x) ==
    [Sample(x) EXCEPT !.age = Min({@ + 1, MaxDuration}), !.still = Min({@ + 1, IdleTimeout})]

\* The watch and the time since the last byte advance together.
LEMMA TickedOK ==
  ASSUME NEW x, ConnOK(x), x.st = "relaying"
  PROVE  ConnOK(Ticked(x)) /\ Ticked(x).st = x.st /\ Ticked(x).answer = x.answer /\ Ticked(x).outcome = x.outcome
<1> DEFINE z1 == [x EXCEPT !.last = x.up + x.down, !.quiet = 0]
           z2 == [x EXCEPT !.quiet = Min({@ + 1, IdleTimeout})]
           z == Sample(x)
           y == [z EXCEPT !.age = Min({@ + 1, MaxDuration}), !.still = Min({@ + 1, IdleTimeout})]
<1>1. x \in ConnRecord  BY DEF ConnOK
<1>2. /\ x.up \in Nat /\ x.down \in Nat /\ x.sent \in Nat /\ x.last \in Nat
      /\ x.quiet \in 0..IdleTimeout /\ x.still \in 0..IdleTimeout /\ x.age \in 0..MaxDuration
  BY <1>1 DEF ConnRecord
<1>3. IdleTimeout \in Nat /\ IdleTimeout # 0 /\ MaxDuration \in Nat /\ MaxBytes \in Nat  BY TunnelBounds
<1>4. /\ Min({x.quiet + 1, IdleTimeout}) = IF x.quiet + 1 <= IdleTimeout THEN x.quiet + 1 ELSE IdleTimeout
      /\ Min({x.still + 1, IdleTimeout}) = IF x.still + 1 <= IdleTimeout THEN x.still + 1 ELSE IdleTimeout
      /\ Min({x.age + 1, MaxDuration}) = IF x.age + 1 <= MaxDuration THEN x.age + 1 ELSE MaxDuration
  BY <1>2, <1>3, MinOfTwo
<1>5. /\ Min({x.quiet + 1, IdleTimeout}) \in 0..IdleTimeout
      /\ Min({x.still + 1, IdleTimeout}) \in 0..IdleTimeout
      /\ Min({x.age + 1, MaxDuration}) \in 0..MaxDuration
  BY <1>2, <1>3, <1>4
<1>6. 0 \in 0..IdleTimeout /\ x.up + x.down \in Nat  BY <1>2, <1>3
<1>7. /\ z1 \in ConnRecord /\ z1.last = x.up + x.down /\ z1.quiet = 0
      /\ z1.st = x.st /\ z1.answer = x.answer /\ z1.outcome = x.outcome /\ z1.end = x.end
      /\ z1.up = x.up /\ z1.down = x.down /\ z1.sent = x.sent /\ z1.age = x.age /\ z1.still = x.still
  BY <1>1, <1>6 DEF ConnRecord
<1>8. /\ z2 \in ConnRecord /\ z2.last = x.last /\ z2.quiet = Min({x.quiet + 1, IdleTimeout})
      /\ z2.st = x.st /\ z2.answer = x.answer /\ z2.outcome = x.outcome /\ z2.end = x.end
      /\ z2.up = x.up /\ z2.down = x.down /\ z2.sent = x.sent /\ z2.age = x.age /\ z2.still = x.still
  BY <1>1, <1>5 DEF ConnRecord
<1>9. z = IF x.up + x.down # x.last THEN z1 ELSE z2  BY DEF Sample
<1> HIDE DEF z1, z2, z
<1>10. /\ z \in ConnRecord /\ z.st = x.st /\ z.answer = x.answer /\ z.outcome = x.outcome /\ z.end = x.end
       /\ z.up = x.up /\ z.down = x.down /\ z.sent = x.sent /\ z.age = x.age /\ z.still = x.still
       /\ \/ z.last = x.up + x.down /\ z.quiet = 0
          \/ x.up + x.down = x.last /\ z.last = x.last /\ z.quiet = Min({x.quiet + 1, IdleTimeout})
  BY <1>7, <1>8, <1>9
<1>11. /\ y \in ConnRecord /\ y.st = z.st /\ y.answer = z.answer /\ y.outcome = z.outcome /\ y.end = z.end
       /\ y.up = z.up /\ y.down = z.down /\ y.sent = z.sent /\ y.last = z.last /\ y.quiet = z.quiet
       /\ y.still = Min({z.still + 1, IdleTimeout})
  BY <1>5, <1>10 DEF ConnRecord
<1>12. Ticked(x) = y  BY DEF Ticked, z
<1> HIDE DEF y
<1>13. Metered(y)  BY <1>10, <1>11 DEF ConnOK, Metered
<1>14. x.last <= x.up + x.down /\ (x.up + x.down = x.last => x.quiet <= x.still)  BY DEF ConnOK, Watched
<1>15. y.last <= y.up + y.down  BY <1>2, <1>10, <1>11, <1>14
<1>16. y.up + y.down = y.last => y.quiet <= y.still
  <2>1. y.still = IF x.still + 1 <= IdleTimeout THEN x.still + 1 ELSE IdleTimeout  BY <1>4, <1>10, <1>11
  <2>2. CASE z.quiet = 0  BY <1>2, <1>3, <1>11, <2>1, <2>2
  <2>3. CASE x.up + x.down = x.last /\ z.quiet = Min({x.quiet + 1, IdleTimeout})
    <3>1. y.quiet = IF x.quiet + 1 <= IdleTimeout THEN x.quiet + 1 ELSE IdleTimeout  BY <1>4, <1>11, <2>3
    <3>2. x.quiet <= x.still  BY <1>14, <2>3
    <3> QED  BY <1>2, <1>3, <2>1, <3>1, <3>2
  <2> QED  BY <1>10, <2>2, <2>3
<1>17. Watched(y)  BY <1>10, <1>11, <1>15, <1>16 DEF Watched
<1>18. Staged(y)  BY <1>10, <1>11 DEF ConnOK, Staged, OpenStates
<1> QED  BY <1>10, <1>11, <1>12, <1>13, <1>17, <1>18 DEF ConnOK

LEMMA TickKeeps == ASSUME Core, Tick PROVE Core'
<1>1. conn \in [Clients -> ConnRecord] /\ \A c \in Clients : ConnOK(conn[c])  BY DEF Core, ConnInv
<1>2. conn' = [c \in Clients |-> IF conn[c].st # "relaying" THEN conn[c] ELSE Ticked(conn[c])]
  BY DEF Tick, Ticked
<1>3. ASSUME NEW c \in Clients
      PROVE  ConnOK(conn'[c]) /\ conn'[c].st = conn[c].st /\ conn'[c].answer = conn[c].answer
             /\ conn'[c].outcome = conn[c].outcome
  <2>1. CASE conn[c].st # "relaying"  BY <1>1, <1>2, <2>1
  <2>2. CASE conn[c].st = "relaying"
    <3>1. conn'[c] = Ticked(conn[c])  BY <1>2, <2>2
    <3> QED  BY <1>1, <2>2, <3>1, TickedOK
  <2> QED  BY <2>1, <2>2
<1>4. conn' \in [Clients -> ConnRecord]
  <2>1. \A c \in Clients : conn'[c] \in ConnRecord  BY <1>3 DEF ConnOK
  <2>2. DOMAIN conn' = Clients /\ conn' = [c \in Clients |-> conn'[c]]  BY <1>2
  <2> QED  BY <2>1, <2>2
<1>5. ConnInv'
  <2>1. \A c \in Clients : ConnOK(conn[c])'  BY ZenonT(60), <1>3 DEF ConnOK, Metered, Watched, Staged
  <2> QED  BY <1>4, <2>1 DEF ConnInv
<1>6. UNCHANGED <<permits, events, flows, stats>>  BY DEF Tick
<1> QED  BY <1>3, <1>5, <1>6, StageStill

-----------------------------------------------------------------------------
(* The phases of the command.                                               *)

\* Every policy that is loaded has one of the three default actions.
LEMMA LoadedDefault ==
  ASSUME NEW s \in Setups, NEW p \in LoadRecordPolicy(s) PROVE p.default \in ConnectActions
<1> DEFINE F == IF s.policyFile THEN ParseJson(s.document)
                ELSE PolicyFromFlags(s.default, s.allowHosts, s.denyHosts)
<1>1. PICK f \in F : p \in ToTargetPolicy(f)  BY DEF LoadRecordPolicy
<1>2. p.default = f.default  BY <1>1 DEF ToTargetPolicy, NewPolicy
<1>3. f.default \in ConnectActions
  <2>1. CASE s.policyFile
    BY <1>1, <2>1 DEF ParseJson, FromDocument, ParseConnectAction
  <2>2. CASE ~s.policyFile
    <3> DEFINE rule(q, a) == {[host |-> h, ports |-> AnyPort, kind |-> "any", action |-> a] :
                                 h \in IF "empty" \in q.host.marks THEN {}
                                       ELSE ParseHostPattern(q.host, q.wild)}
               act == IF s.default = "intercept" THEN "intercept" ELSE "tunnel"
               parsed == [i \in DOMAIN s.allowHosts |-> rule(s.allowHosts[i], act)]
                         \o [i \in DOMAIN s.denyHosts |-> rule(s.denyHosts[i], "deny")]
               rules == [i \in DOMAIN parsed |-> CHOOSE r \in parsed[i] : TRUE]
               file == [default |-> s.default, rules |-> rules]
    <3>1. PolicyFromFlags(s.default, s.allowHosts, s.denyHosts)
            = IF Len(parsed) > MaxPolicyRules \/ \E i \in DOMAIN parsed : parsed[i] = {} THEN {}
              ELSE {g \in {file} : Coherent(g)}
      BY Zenon DEF PolicyFromFlags
    <3> HIDE DEF parsed, rules
    <3>2. f = file  BY <1>1, <2>2, <3>1
    <3> QED  BY <3>2, SetupShape
  <2> QED  BY <2>1, <2>2
<1> QED  BY <1>2, <1>3

LEMMA PhaseStep == ASSUME PhaseInv, [Next]_vars PROVE PhaseInv'
<1>1. CASE UNCHANGED <<setup, phase, disk, policy>>  BY <1>1 DEF PhaseInv
<1>2. CASE Start
  <2> DEFINE usable == {p \in LoadRecordPolicy(setup) : /\ setup.routeOk /\ CaUsable(setup, p)
                                                     /\ LimitsValid(setup.limits)
                                                     /\ setup.limits.connections \in 1..4096}
             refused == ~BindAllowed(setup) \/ (setup.existing /\ ~setup.overwrite)
  <2>1. /\ setup' = setup /\ disk' = IF refused THEN disk ELSE "none"
        /\ policy' = IF refused THEN {} ELSE usable
        /\ phase' = IF refused \/ usable = {} THEN "refused" ELSE "running"
    BY ZenonT(60), <1>2 DEF Start
  <2>2. \A p \in usable : p.default \in ConnectActions  BY LoadedDefault DEF PhaseInv
  <2> HIDE DEF usable, refused
  <2> QED  BY <2>1, <2>2 DEF PhaseInv
<1>3. CASE Shutdown  BY <1>3 DEF Shutdown, PhaseInv
<1>4. CASE Finish  BY <1>4 DEF Finish, PhaseInv
<1>5. ASSUME Next, ~Start, ~Shutdown, ~Finish PROVE UNCHANGED <<setup, phase, disk, policy>>
  <2>1. CASE Tick  BY <2>1 DEF Tick
  <2>2. ASSUME NEW c \in Clients, NEW r \in Requests, Dispatch(c, r) PROVE UNCHANGED <<setup, phase, disk, policy>>
    BY <2>2 DEF Dispatch
  <2>3. ASSUME NEW c \in Clients, NEW o \in Outcomes, PlainDone(c, o) \/ InnerDone(c, o)
        PROVE  UNCHANGED <<setup, phase, disk, policy>>
    BY <2>3 DEF PlainDone, InnerDone
  <2>4. ASSUME NEW c \in Clients, NEW o, Dial(c, o) PROVE UNCHANGED <<setup, phase, disk, policy>>
    BY <2>4 DEF Dial
  <2>5. ASSUME NEW c \in Clients, NEW w, NEW n, Relay(c, w, n) PROVE UNCHANGED <<setup, phase, disk, policy>>
    BY <2>5 DEF Relay
  <2>6. ASSUME NEW c \in Clients, NEW h, RelayStops(c, h) PROVE UNCHANGED <<setup, phase, disk, policy>>
    BY <2>6 DEF RelayStops
  <2>7. ASSUME NEW c \in Clients, NEW y, RelayEnds(c, y) PROVE UNCHANGED <<setup, phase, disk, policy>>
    BY <2>7 DEF RelayEnds
  <2>8. ASSUME NEW c \in Clients, RelayNoticed(c) \/ RelayAborted(c) PROVE UNCHANGED <<setup, phase, disk, policy>>
    BY <2>8 DEF RelayNoticed, RelayAborted, Closed
  <2>9. ASSUME NEW c \in Clients, NEW ok, Issue(c, ok) \/ DriverStopped(c, ok)
        PROVE  UNCHANGED <<setup, phase, disk, policy>>
    BY <2>9 DEF Issue, DriverStopped, Closed
  <2>10. ASSUME NEW c \in Clients, NEW h, AcceptTls(c, h) PROVE UNCHANGED <<setup, phase, disk, policy>>
    BY <2>10 DEF AcceptTls
  <2>11. ASSUME NEW c \in Clients, NEW r, InnerCall(c, r) PROVE UNCHANGED <<setup, phase, disk, policy>>
    BY <2>11 DEF InnerCall
  <2>12. ASSUME NEW c \in Clients, NEW o, DriverEnds(c, o) PROVE UNCHANGED <<setup, phase, disk, policy>>
    BY <2>12 DEF DriverEnds, Closed
  <2>13. ASSUME NEW c \in Clients, SignalDriver(c) \/ Cancel(c) PROVE UNCHANGED <<setup, phase, disk, policy>>
    BY <2>13 DEF SignalDriver, Cancel
  <2> QED  BY <1>5, <2>1, <2>2, <2>3, <2>4, <2>5, <2>6, <2>7, <2>8, <2>9, <2>10, <2>11, <2>12, <2>13 DEF Next
<1> QED  BY <1>1, <1>2, <1>3, <1>4, <1>5 DEF vars

-----------------------------------------------------------------------------
(* The invariant.                                                           *)

TunnelInv == Core /\ PhaseInv

LEMMA TunnelInit == ASSUME Init PROVE TunnelInv
<1>1. \A c \in Clients : conn[c] = Idle  BY DEF Init
<1>2. Metered(Idle) /\ Watched(Idle) /\ Staged(Idle)
  <2>1. Metered(Idle)  BY IdleOK, Zero DEF Metered
  <2>2. Watched(Idle)  BY IdleOK, Zero DEF Watched
  <2>3. Staged(Idle)  BY IdleOK DEF Staged, OpenStates
  <2> QED  BY <2>1, <2>2, <2>3
<1>3. ConnInv
  <2>1. conn \in [Clients -> ConnRecord]  BY IdleOK DEF Init
  <2> QED  BY <1>1, <1>2, <2>1, IdleOK DEF ConnInv, ConnOK
<1>4. ~Holds(Idle) /\ ~IsOver(Idle) /\ ~IsCounted(Idle)  BY IdleOK DEF Holds, IsOver, IsCounted, OpenStates
<1>5. Holders = {} /\ Over = {} /\ CountedOnes = {} /\ Cardinality({}) = 0
  BY <1>1, <1>4, FS_EmptySet DEF Holders, Over, CountedOnes
<1>6. MaxConcurrent \in Nat /\ MaxEvents \in Nat  BY TunnelBounds
<1>7. PermitInv  BY <1>5, <1>6 DEF PermitInv, Init
<1>8. EventInv
  <2>1. events = << >>  BY DEF Init
  <2>2. events \in Seq([client : Clients, outcome : TunnelOutcomes]) /\ Len(events) = 0 /\ DOMAIN events = {}
    BY <2>1
  <2>3. 0 <= MaxEvents  BY <1>6
  <2> QED  BY <1>5, <2>2, <2>3 DEF EventInv
<1>9. StatInv /\ Listed
  <2>1. stats \in [StatNames -> Nat]  BY DEF Init, NoStats, StatNames
  <2>2. stats["flows"] = 0 /\ stats["accepted"] = 0 /\ stats["tunneled"] = 0 /\ stats["intercepted"] = 0
    BY DEF Init, NoStats
  <2>3. flows = << >>  BY DEF Init
  <2>4. flows \in Seq({}) /\ LoggedFlows = {}  BY <2>3 DEF LoggedFlows
  <2>5. StatInv  BY <1>5, <2>1, <2>2, <2>4, Zero DEF StatInv
  <2> QED  BY <2>4, <2>5 DEF Listed
<1>10. PhaseInv
  BY DEF PhaseInv, Init
<1> QED  BY <1>3, <1>7, <1>8, <1>9, <1>10 DEF TunnelInv, Core

LEMMA TunnelStep == ASSUME TunnelInv, [Next]_vars PROVE TunnelInv'
<1> USE DEF TunnelInv
<1>1. PhaseInv'  BY PhaseStep
<1>2. ASSUME UNCHANGED <<conn, permits, events, flows, stats>> PROVE Core'
  <2>1. ConnInv'  BY ZenonT(60), <1>2 DEF Core, ConnInv, ConnOK, Metered, Watched, Staged
  <2> QED  BY <1>2, <2>1, StageStill
<1>3. UNCHANGED vars => Core'  BY <1>2 DEF vars
<1>4. Start \/ Shutdown \/ Finish => Core'  BY <1>2 DEF Start, Shutdown, Finish
<1>5. Tick => Core'  BY TickKeeps
<1>6. ASSUME NEW c \in Clients,
             \/ \E r \in Requests : Dispatch(c, r)
             \/ \E o \in Outcomes : PlainDone(c, o) \/ InnerDone(c, o)
             \/ \E o \in {"ok", "refused", "timeout", "gone"} : Dial(c, o)
             \/ \E w \in {"up", "down"}, n \in Chunks : Relay(c, w, n)
             \/ \E h \in {"eof", "error"} : RelayStops(c, h)
             \/ \E y \in {"joined", "long", "quiet"} : RelayEnds(c, y)
             \/ RelayNoticed(c) \/ RelayAborted(c)
             \/ \E o \in {"ok", "failed", "gone"} : Issue(c, o)
             \/ \E graceful \in BOOLEAN : DriverStopped(c, graceful)
             \/ \E h \in Handshakes : AcceptTls(c, h)
             \/ \E r \in InnerRequests : InnerCall(c, r)
             \/ \E o \in {"completed", "relay_error"} : DriverEnds(c, o)
             \/ SignalDriver(c) \/ Cancel(c)
      PROVE  Core'
  <2>1. CASE \E r \in Requests : Dispatch(c, r)  BY <2>1, DispatchKeeps
  <2>2. CASE \E o \in Outcomes : PlainDone(c, o) \/ InnerDone(c, o)  BY <2>2, PlainDoneKeeps, InnerDoneKeeps
  <2>3. CASE \E o \in {"ok", "refused", "timeout", "gone"} : Dial(c, o)  BY <2>3, DialKeeps
  <2>4. CASE \E w \in {"up", "down"}, n \in Chunks : Relay(c, w, n)  BY <2>4, RelayKeeps
  <2>5. CASE \E h \in {"eof", "error"} : RelayStops(c, h)  BY <2>5, RelayStopsKeeps
  <2>6. CASE \E y \in {"joined", "long", "quiet"} : RelayEnds(c, y)  BY <2>6, RelayEndsKeeps
  <2>7. CASE \E o \in {"ok", "failed", "gone"} : Issue(c, o)  BY <2>7, IssueKeeps
  <2>8. CASE \E h \in Handshakes : AcceptTls(c, h)  BY <2>8, AcceptTlsKeeps
  <2>9. CASE \E r \in InnerRequests : InnerCall(c, r)  BY <2>9, InnerCallKeeps
  <2>10. CASE SignalDriver(c)  BY <2>10, SignalDriverKeeps
  <2>11. CASE Cancel(c)  BY <2>11, CancelKeeps
  <2>12. CASE \/ RelayNoticed(c)
              \/ RelayAborted(c)
              \/ \E o \in {"completed", "relay_error"} : DriverEnds(c, o)
              \/ \E graceful \in BOOLEAN : DriverStopped(c, graceful)
    BY <2>12, EndingsKeep
  <2> QED  BY <1>6, <2>1, <2>2, <2>3, <2>4, <2>5, <2>6, <2>7, <2>8, <2>9, <2>10, <2>11, <2>12
<1>7. Core'  BY <1>3, <1>4, <1>5, <1>6 DEF Next
<1> QED  BY <1>1, <1>7

\* Whatever ends a tunnel, its bytes, its permit, its event and its counters are
\* settled once: no more than max_bytes forwarded, a permit free or held by one
\* tunnel, one event for each tunnel that is over until newer ones push it out, and
\* counters that cover what was accepted (relay_tunnel, handle_tunnel,
\* serve_intercepted_connect, TunnelEventLog::push, ProxyStats).
THEOREM TunnelsStayAccounted == Spec => []TunnelsAccounted
<1>1. Init => TunnelInv  BY TunnelInit
<1>2. TunnelInv /\ [Next]_vars => TunnelInv'  BY TunnelStep
<1>3. TunnelInv => TunnelsAccounted
  <2> SUFFICES ASSUME TunnelInv PROVE TunnelsAccounted  OBVIOUS
  <2>1. \A c \in Clients : conn[c] \in ConnRecord /\ ConnOK(conn[c])  BY DEF TunnelInv, Core, ConnInv, ConnOK
  <2>2. /\ IsFiniteSet(Holders) /\ Cardinality(Holders) \in Nat
        /\ IsFiniteSet(Over) /\ Cardinality(Over) \in Nat
        /\ IsFiniteSet(CountedOnes) /\ Cardinality(CountedOnes) \in Nat
    BY FiniteClients DEF Holders, Over, CountedOnes
  <2>3. MaxConcurrent \in Nat /\ MaxEvents \in Nat  BY TunnelBounds
  <2>4. permits \in Nat /\ permits + Cardinality(Holders) = MaxConcurrent  BY DEF TunnelInv, Core, PermitInv
  <2>5. permits \in 0..MaxConcurrent  BY <2>2, <2>3, <2>4
  <2>6. Len(events) = IF Cardinality(Over) <= MaxEvents THEN Cardinality(Over) ELSE MaxEvents
    BY DEF TunnelInv, Core, EventInv
  <2>7. Len(events) <= MaxEvents  BY <2>2, <2>3, <2>6
  <2>8. TypeOK
    <3>1. ASSUME NEW c \in Clients
          PROVE  /\ conn[c].st \in States
                 /\ conn[c].answer \in {0, 200, 400, 403, 500, 502, 503, 504}
                 /\ conn[c].inner \in 0..MaxInner
                 /\ conn[c].age \in 0..MaxDuration /\ conn[c].quiet \in 0..IdleTimeout
      <4>1. conn[c] \in ConnRecord  BY <2>1
      <4>2. conn[c].answer \in Codes  BY <4>1 DEF ConnRecord
      <4> QED  BY <4>1, <4>2 DEF ConnRecord, Codes
    <3> QED  BY <2>5, <2>7, <3>1 DEF TypeOK, TunnelInv, PhaseInv
  <2>9. RelayedWithinBudget  BY <2>1 DEF RelayedWithinBudget, ConnOK, Metered
  <2>10. PermitsConserved
    <3>1. {c \in Clients : Open(c) \/ conn[c].st \in {"dialing", "leaf"}} = Holders
      BY DEF Open, Holders, Holds, OpenStates
    <3> QED  BY <2>4, <3>1 DEF PermitsConserved
  <2>11. IdleHonest  BY <2>1 DEF IdleHonest, ConnOK, Watched
  <2>12. EventPerTunnel
    <3>1. {c \in Clients : conn[c].answer = 200 /\ conn[c].outcome # "" /\ ~Open(c)} = Over
      BY DEF Open, Over, IsOver, OpenStates
    <3>2. Min({MaxEvents, Cardinality(Over)}) = IF MaxEvents <= Cardinality(Over) THEN MaxEvents ELSE Cardinality(Over)
      BY <2>2, <2>3, MinOfTwo
    <3>3. Len(events) = Min({MaxEvents, Cardinality(Over)})  BY <2>2, <2>3, <2>6, <3>2
    <3> QED  BY <3>1, <3>3 DEF EventPerTunnel, TunnelInv, Core, EventInv
  <2>13. StatsHonest
    <3> DEFINE established == {c \in Clients : conn[c].answer = 200 /\ (conn[c].outcome # "" \/ Open(c))}
    <3>1. established \subseteq CountedOnes  BY DEF Open, CountedOnes, IsCounted, OpenStates
    <3>2. Cardinality(established) <= Cardinality(CountedOnes) /\ Cardinality(established) \in Nat
      BY <2>2, <3>1, FS_Subset, FS_CardinalityType
    <3>3. /\ stats["flows"] = Cardinality(LoggedFlows) /\ stats["accepted"] >= stats["tunneled"] + stats["intercepted"]
          /\ Cardinality(CountedOnes) <= stats["tunneled"] + stats["intercepted"]
          /\ stats["tunneled"] \in Nat /\ stats["intercepted"] \in Nat
      BY DEF TunnelInv, Core, StatInv, StatNames
    <3> HIDE DEF established
    <3>4. Cardinality(established) <= stats["tunneled"] + stats["intercepted"]  BY <2>2, <3>2, <3>3
    <3> QED  BY <3>3, <3>4 DEF StatsHonest, established
  <2> QED  BY <2>8, <2>9, <2>10, <2>11, <2>12, <2>13 DEF TunnelsAccounted
<1> QED  BY <1>1, <1>2, <1>3, PTL DEF Spec

-----------------------------------------------------------------------------
(* Loops.  A loop over the positions of a list is a function on 0..L whose  *)
(* value at n is one step from its value at n - 1.                          *)

(* Induction over the naturals, in terms of a set.                          *)
LEMMA LoopInduction ==
  ASSUME NEW S \in SUBSET Nat, 0 \in S, \A n \in S : n + 1 \in S
  PROVE  S = Nat
<1> DEFINE T == Nat \ S
           R == {ss \in Nat \X Nat : ss[1] < ss[2]}
<1> SUFFICES ASSUME T # {} PROVE FALSE  OBVIOUS
<1>1. IsWellFoundedOn(R, Nat)  BY NatLessThanWellFounded DEF OpToRel
<1> HIDE DEF R
<1>2. PICK x \in T : \A y \in T : ~(<<y, x>> \in R)  BY <1>1, WFMin
<1>3. \A y \in T : ~(y < x)  BY <1>2 DEF R
<1>4. x - 1 \in Nat /\ x - 1 < x  OBVIOUS
<1>5. x - 1 \in S  BY <1>3, <1>4
<1> QED  BY <1>4, <1>5

\* A run of a loop of L steps over values V.
IsRun(g, L, V, base, step) ==
    g \in [0..L -> V] /\ g[0] = base /\ \A n \in 1..L : g[n] = step[n][g[n - 1]]

HasRun(L, V, base, step) == \E g : IsRun(g, L, V, base, step)

(* Such a function exists.                                                  *)
LEMMA LoopExists ==
  ASSUME NEW L \in Nat, NEW V, NEW base \in V, NEW step \in [1..L -> [V -> V]]
  PROVE  HasRun(L, V, base, step)
<1> DEFINE Runs(g, m) == g \in [0..m -> V] /\ g[0] = base /\ \A n \in 1..m : g[n] = step[n][g[n - 1]]
           S == {m \in Nat : m <= L => \E g : Runs(g, m)}
<1>1. 0 \in S
  <2>1. Runs([n \in 0..0 |-> base], 0)  OBVIOUS
  <2> QED  BY <2>1
<1>2. ASSUME NEW m \in S PROVE m + 1 \in S
  <2> SUFFICES ASSUME m + 1 <= L PROVE \E g : Runs(g, m + 1)  OBVIOUS
  <2>1. PICK g : Runs(g, m)  OBVIOUS
  <2> DEFINE last == step[m + 1][g[m]]
             h == [n \in 0..(m + 1) |-> IF n = m + 1 THEN last ELSE g[n]]
  <2>2. g[m] \in V /\ m + 1 \in 1..L  BY <2>1
  <2>3. last \in V  BY <2>2
  <2>4. h \in [0..(m + 1) -> V]  BY <2>1, <2>3
  <2>5. h[0] = base  BY <2>1
  <2>6. ASSUME NEW n \in 1..(m + 1) PROVE h[n] = step[n][h[n - 1]]
    <3>1. CASE n = m + 1
      <4>1. h[n] = last /\ n - 1 = m /\ h[n - 1] = g[m]  BY <3>1
      <4> QED  BY <3>1, <4>1
    <3>2. CASE n # m + 1
      <4>1. n \in 1..m /\ n - 1 \in 0..m /\ n - 1 # m + 1  BY <3>2
      <4>2. h[n] = g[n] /\ h[n - 1] = g[n - 1]  BY <4>1
      <4> QED  BY <2>1, <4>1, <4>2
    <3> QED  BY <3>1, <3>2
  <2> QED  BY <2>4, <2>5, <2>6
<1>3. S = Nat
  <2> HIDE DEF S
  <2>1. S \in SUBSET Nat  BY DEF S
  <2> QED  BY <1>1, <1>2, <2>1, LoopInduction
<1>4. L \in S  BY <1>3
<1>5. PICK g : Runs(g, L)  BY <1>4
<1> QED  BY <1>5 DEF HasRun, IsRun

-----------------------------------------------------------------------------
(* Names and their lengths.                                                 *)

Labels == DOMAIN LabelLength

LEMMA NameLengthInt == ASSUME NEW name \in Seq(Labels) PROVE NameLength(name) \in Int
<1> DEFINE L == Len(name)
           Rule(g, n) == IF n = 0 THEN L - 1 ELSE g[n - 1] + LabelLength[name[n]]
           Unrolled(g) == g = [n \in 0..L |-> Rule(g, n)]
           step == [n \in 1..L |-> [v \in Int |-> v + LabelLength[name[n]]]]
<1>1. L \in Nat /\ L - 1 \in Int  OBVIOUS
<1>2. \A n \in 1..L : name[n] \in Labels  OBVIOUS
<1>3. \A n \in 1..L : LabelLength[name[n]] \in Int  BY <1>2, SetupShape DEF Labels
<1>4. step \in [1..L -> [Int -> Int]]  BY <1>3
<1>5. PICK g \in [0..L -> Int] : g[0] = L - 1 /\ \A n \in 1..L : g[n] = step[n][g[n - 1]]
  <2> DEFINE base == L - 1
             V == Int
  <2> HIDE DEF step, base, V, L
  <2>1. L \in Nat /\ base \in V /\ step \in [1..L -> [V -> V]]  BY <1>1, <1>4 DEF base, V
  <2>2. HasRun(L, V, base, step)  BY <2>1, LoopExists
  <2> QED  BY <2>2 DEF base, V, HasRun, IsRun
<1>6. Unrolled(g)
  <2>1. ASSUME NEW n \in 0..L PROVE g[n] = Rule(g, n)
    <3>1. CASE n = 0  BY <3>1, <1>5
    <3>2. CASE n # 0
      <4>1. n \in 1..L /\ n - 1 \in 0..L  BY <3>2
      <4> QED  BY <1>5, <3>2, <4>1
    <3> QED  BY <3>1, <3>2
  <2> QED  BY <2>1
<1> DEFINE c == CHOOSE h : Unrolled(h)
<1>7. Unrolled(c)  BY <1>6
<1>8. NameLength(name) = c[L]  BY DEF NameLength
<1> HIDE DEF c
<1> DEFINE S == {n \in Nat : n <= L => c[n] \in Int}
<1>9. 0 \in S  BY <1>1, <1>7
<1>10. ASSUME NEW n \in S PROVE n + 1 \in S
  <2> SUFFICES ASSUME n + 1 <= L PROVE c[n + 1] \in Int  OBVIOUS
  <2>1. n + 1 \in 0..L /\ n + 1 # 0 /\ (n + 1) - 1 = n /\ n + 1 \in 1..L  OBVIOUS
  <2>2. c[n + 1] = c[n] + LabelLength[name[n + 1]]  BY <1>7, <2>1
  <2> QED  BY <1>3, <2>1, <2>2
<1>11. S = Nat  BY <1>9, <1>10, LoopInduction
<1> QED  BY <1>1, <1>8, <1>11

-----------------------------------------------------------------------------
(* Evaluation.                                                              *)

RuleOK(r) == Specificity(r) \in Int /\ r.action \in {"allow", "deny"}

\* What the loop knows after the rules with the indices M matched: the highest
\* specificity, and whether a rule that specific denies.
Tops(score, action, M, rules) ==
    /\ \E i \in M : score = Specificity(rules[i])
    /\ \A i \in M : Specificity(rules[i]) <= score
    /\ action \in {"allow", "deny"}
    /\ action = "deny" <=> \E i \in M : Specificity(rules[i]) = score /\ rules[i].action = "deny"

Sums(v, M, rules) ==
    \/ M = {} /\ v = {}
    \/ \E b : v = {b} /\ Tops(b.score, b.action, M, rules)

LEMMA PreferKeeps ==
  ASSUME NEW rules, NEW M, NEW n, NEW v, Sums(v, M, rules), \A i \in M \cup {n} : RuleOK(rules[i])
  PROVE  Sums(Prefer(v, rules[n]), M \cup {n}, rules)
<1> DEFINE sp(i) == Specificity(rules[i])
           ac(i) == rules[i].action
           new == [score |-> sp(n), action |-> ac(n)]
           Higher(b) == sp(n) > b.score \/ (sp(n) = b.score /\ ac(n) = "deny" /\ b.action = "allow")
           N == M \cup {n}
<1> SUFFICES Sums(Prefer(v, rules[n]), N, rules)  OBVIOUS
<1>1. \A i \in N : sp(i) \in Int /\ ac(i) \in {"allow", "deny"}  BY DEF RuleOK
<1>2. new.score = sp(n) /\ new.action = ac(n)  OBVIOUS
<1>3. Prefer(v, rules[n]) = IF \A b \in v : Higher(b) THEN {new} ELSE v  BY Zenon DEF Prefer
<1>4. ASSUME Tops(sp(n), ac(n), N, rules) PROVE Sums({new}, N, rules)  BY <1>2, <1>4 DEF Sums
<1>5. Tops(sp(n), ac(n), N, rules) <=>
        /\ \E i \in N : sp(n) = sp(i)
        /\ \A i \in N : sp(i) <= sp(n)
        /\ ac(n) \in {"allow", "deny"}
        /\ ac(n) = "deny" <=> \E i \in N : sp(i) = sp(n) /\ ac(i) = "deny"
  BY DEF Tops
<1>6. CASE M = {} /\ v = {}
  <2>1. Prefer(v, rules[n]) = {new}
    <3> HIDE DEF new, Higher
    <3> QED  BY <1>3, <1>6
  <2>2. N = {n}  BY <1>6
  <2>3. Tops(sp(n), ac(n), N, rules)
    <3> HIDE DEF sp, ac, N
    <3> QED  BY <1>1, <1>5, <2>2
  <2> QED  BY <1>4, <2>1, <2>3
<1>7. CASE \E b : v = {b} /\ Tops(b.score, b.action, M, rules)
  <2>1. PICK b : v = {b} /\ Tops(b.score, b.action, M, rules)  BY <1>7
  <2> DEFINE top == b.score
             act == b.action
  <2>2. /\ \E i \in M : top = sp(i)
        /\ \A i \in M : sp(i) <= top
        /\ act \in {"allow", "deny"}
        /\ act = "deny" <=> \E i \in M : sp(i) = top /\ ac(i) = "deny"
    BY <2>1 DEF Tops
  <2>3. Prefer(v, rules[n]) = IF Higher(b) THEN {new} ELSE {b}
    <3> HIDE DEF Higher, new
    <3> QED  BY <1>3, <2>1
  <2>4. Higher(b) <=> sp(n) > top \/ (sp(n) = top /\ ac(n) = "deny" /\ act = "allow")  OBVIOUS
  <2>5. ASSUME /\ \E i \in N : top = sp(i)
               /\ \A i \in N : sp(i) <= top
               /\ act \in {"allow", "deny"}
               /\ act = "deny" <=> \E i \in N : sp(i) = top /\ ac(i) = "deny"
        PROVE  Sums({b}, N, rules)
    <3>1. Tops(b.score, b.action, N, rules)  BY <2>5 DEF Tops
    <3> QED  BY <3>1 DEF Sums
  <2>6. \A i : i \in N <=> i \in M \/ i = n  OBVIOUS
  <2> HIDE DEF top, act, Higher, sp, ac, N, new
  <2>7. top \in Int /\ sp(n) \in Int /\ n \in N  BY <1>1, <2>2, <2>6
  <2>8. CASE sp(n) > top
    <3>1. \A i \in M : sp(i) <= sp(n) /\ sp(i) # sp(n)  BY <1>1, <2>2, <2>6, <2>7, <2>8
    <3>2. Tops(sp(n), ac(n), N, rules)  BY <1>1, <1>5, <2>6, <2>7, <3>1
    <3> QED  BY <1>4, <2>3, <2>4, <2>8, <3>2
  <2>9. CASE sp(n) = top /\ ac(n) = "deny" /\ act = "allow"
    <3>1. Tops(sp(n), ac(n), N, rules)  BY <1>1, <1>5, <2>2, <2>6, <2>7, <2>9
    <3> QED  BY <1>4, <2>3, <2>4, <2>9, <3>1
  <2>10. CASE ~(sp(n) > top) /\ ~(sp(n) = top /\ ac(n) = "deny" /\ act = "allow")
    <3>1. sp(n) <= top  BY <2>7, <2>10
    <3>2. sp(n) = top /\ ac(n) = "deny" => act = "deny"  BY <2>2, <2>10
    <3>3. Sums({b}, N, rules)  BY <2>2, <2>5, <2>6, <3>1, <3>2
    <3> QED  BY <2>3, <2>4, <2>10, <3>3
  <2> QED  BY <2>8, <2>9, <2>10
<1> QED  BY <1>6, <1>7 DEF Sums

(* What evaluate decides, whatever the order of the rules.                  *)
LEMMA EvaluateExact ==
  ASSUME NEW policy0, NEW host, NEW port, NEW kind, Len(policy0.rules) \in Nat,
         DOMAIN policy0.rules = 1..Len(policy0.rules),
         \A i \in DOMAIN policy0.rules : RuleOK(policy0.rules[i])
  PROVE  /\ Evaluate(policy0, host, port, kind) = "allow" <=> Allowed(policy0.rules, host, port, kind)
         /\ Evaluate(policy0, host, port, kind) \in {"allow", "deny"}
<1> DEFINE rules == policy0.rules
           L == Len(rules)
           Met(i) == RuleMatches(rules[i], host, port, kind)
           Unrolled(g) == g = [n \in 0..L |-> IF n = 0 THEN {} ELSE IF Met(n) THEN Prefer(g[n - 1], rules[n])
                                             ELSE g[n - 1]]
           V == {{}} \cup {{[score |-> Specificity(rules[n]), action |-> rules[n].action]} : n \in 1..L}
           step == [n \in 1..L |-> [v \in V |-> IF Met(n) THEN Prefer(v, rules[n]) ELSE v]]
           base == {}
           c == CHOOSE h : Unrolled(h)
<1>1. PICK g \in [0..L -> V] : g[0] = base /\ \A n \in 1..L : g[n] = step[n][g[n - 1]]
  <2>1. \A n \in 1..L : \A v \in V : Prefer(v, rules[n]) \in V  BY DEF Prefer
  <2>2. step \in [1..L -> [V -> V]]
    <3> HIDE DEF V, Met
    <3> QED  BY <2>1
  <2> HIDE DEF step, base, V, L
  <2>3. L \in Nat /\ base \in V  BY DEF L, base, V
  <2>4. HasRun(L, V, base, step)  BY <2>2, <2>3, LoopExists
  <2> QED  BY <2>4 DEF HasRun, IsRun
<1>2. Unrolled(g)
  <2>1. ASSUME NEW n \in 0..L PROVE g[n] = IF n = 0 THEN {} ELSE IF Met(n) THEN Prefer(g[n - 1], rules[n]) ELSE g[n - 1]
    <3> HIDE DEF V, Met
    <3>1. CASE n = 0  BY <3>1, <1>1
    <3>2. CASE n # 0
      <4>1. n \in 1..L /\ n - 1 \in 0..L  BY <3>2
      <4>2. g[n] = step[n][g[n - 1]] /\ g[n - 1] \in V  BY <1>1, <4>1
      <4> QED  BY <3>2, <4>1, <4>2
    <3> QED  BY <3>1, <3>2
  <2> HIDE DEF V, Met
  <2> QED  BY <2>1, <1>1
<1>3. Unrolled(c)  BY <1>2
<1>4. Evaluate(policy0, host, port, kind) = IF \E b \in c[L] : b.action = "allow" THEN "allow" ELSE "deny"
  BY DEF Evaluate
<1> HIDE DEF c, Met
<1> DEFINE M(n) == {i \in 1..n : Met(i)}
           S == {n \in Nat : n <= L => Sums(c[n], M(n), rules)}
<1>5. 0 \in S
  <2>1. c[0] = {} /\ M(0) = {}  BY <1>3
  <2> QED  BY <2>1 DEF Sums
<1>6. ASSUME NEW n \in S PROVE n + 1 \in S
  <2> SUFFICES ASSUME n + 1 <= L PROVE Sums(c[n + 1], M(n + 1), rules)  OBVIOUS
  <2>1. n + 1 \in 0..L /\ n + 1 # 0 /\ (n + 1) - 1 = n /\ n + 1 \in 1..L /\ n <= L  OBVIOUS
  <2>2. Sums(c[n], M(n), rules)  BY <2>1
  <2>3. c[n + 1] = IF Met(n + 1) THEN Prefer(c[n], rules[n + 1]) ELSE c[n]  BY <1>3, <2>1
  <2>4. M(n + 1) = IF Met(n + 1) THEN M(n) \cup {n + 1} ELSE M(n)  OBVIOUS
  <2>5. \A i \in M(n) \cup {n + 1} : RuleOK(rules[i])  BY <2>1
  <2> HIDE DEF M
  <2>6. CASE Met(n + 1)
    <3>1. Sums(Prefer(c[n], rules[n + 1]), M(n) \cup {n + 1}, rules)  BY <2>2, <2>5, PreferKeeps
    <3> QED  BY <2>3, <2>4, <2>6, <3>1
  <2> QED  BY <2>2, <2>3, <2>4, <2>6
<1>7. S = Nat
  <2> HIDE DEF S
  <2>1. S \in SUBSET Nat  BY DEF S
  <2> QED  BY <1>5, <1>6, <2>1, LoopInduction
<1>8. Sums(c[L], M(L), rules)
  <2> HIDE DEF M
  <2>1. L \in S /\ L <= L  BY <1>7
  <2> HIDE DEF L
  <2> QED  BY <2>1
<1>9. Allowed(rules, host, port, kind) <=>
        /\ {j \in M(L) : \A k \in M(L) : Specificity(rules[k]) <= Specificity(rules[j])} # {}
        /\ \A j \in M(L) : (\A k \in M(L) : Specificity(rules[k]) <= Specificity(rules[j])) => rules[j].action # "deny"
  <2> DEFINE B == {j \in M(L) : \A k \in M(L) : Specificity(rules[k]) <= Specificity(rules[j])}
  <2>1. {i \in DOMAIN rules : RuleMatches(rules[i], host, port, kind)} = M(L)  BY DEF Met
  <2> HIDE DEF M
  <2>2. Deciding(rules, host, port, kind) = {rules[i] : i \in B}  BY <2>1 DEF Deciding
  <2>3. (Deciding(rules, host, port, kind) # {}) <=> (B # {})
    <3> HIDE DEF B
    <3> QED  BY <2>2
  <2>4. (\A r \in Deciding(rules, host, port, kind) : r.action # "deny") <=> (\A j \in B : rules[j].action # "deny")
    <3> HIDE DEF B
    <3> QED  BY <2>2
  <2>5. Allowed(rules, host, port, kind) <=> (B # {} /\ \A j \in B : rules[j].action # "deny")
    <3> HIDE DEF B
    <3> QED  BY <2>3, <2>4 DEF Allowed
  <2> QED  BY <2>5
<1> DEFINE sp(i) == Specificity(rules[i])
           ac(i) == rules[i].action
           W == M(L)
<1>10. \A i \in W : sp(i) \in Int /\ ac(i) \in {"allow", "deny"}  BY DEF RuleOK
<1>11. \/ W = {} /\ c[L] = {}
       \/ \E b : /\ c[L] = {b}
                 /\ \E i \in W : b.score = sp(i)
                 /\ \A i \in W : sp(i) <= b.score
                 /\ b.action \in {"allow", "deny"}
                 /\ b.action = "deny" <=> \E i \in W : sp(i) = b.score /\ ac(i) = "deny"
  BY <1>8 DEF Sums, Tops
<1> HIDE DEF W, sp, ac
<1>12. (\E b \in c[L] : b.action = "allow") <=>
           /\ \E j \in W : \A k \in W : sp(k) <= sp(j)
           /\ \A j \in W : (\A k \in W : sp(k) <= sp(j)) => ac(j) # "deny"
  <2>1. CASE W = {} /\ c[L] = {}  BY <2>1
  <2>2. CASE ~(W = {} /\ c[L] = {})
    <3>1. PICK b : /\ c[L] = {b}
                   /\ \E i \in W : b.score = sp(i)
                   /\ \A i \in W : sp(i) <= b.score
                   /\ b.action \in {"allow", "deny"}
                   /\ b.action = "deny" <=> \E i \in W : sp(i) = b.score /\ ac(i) = "deny"
      BY <1>11, <2>2
    <3>2. PICK i0 \in W : b.score = sp(i0)  BY <3>1
    <3> DEFINE top == b.score
    <3>a. top \in Int /\ top = sp(i0) /\ \A i \in W : sp(i) \in Int /\ sp(i) <= top  BY <1>10, <3>1, <3>2
    <3>3. \A j \in W : (\A k \in W : sp(k) <= sp(j)) <=> sp(j) = b.score
      <4> HIDE DEF top
      <4>1. \A j \in W : (\A k \in W : sp(k) <= sp(j)) <=> sp(j) = top  BY <3>a
      <4> QED  BY <4>1 DEF top
    <3>4. (\E x \in c[L] : x.action = "allow") <=> b.action # "deny"  BY <3>1
    <3> QED  BY <3>1, <3>2, <3>3, <3>4
  <2> QED  BY <2>1, <2>2
<1>13. Allowed(rules, host, port, kind) <=> \E b \in c[L] : b.action = "allow"
  BY <1>9, <1>12 DEF W, sp, ac
<1> QED  BY <1>4, <1>13
-----------------------------------------------------------------------------
(* Rules as they are parsed.                                                *)

HostOK(m) == m.form \in {"exact", "suffix", "ip"} /\ (m.form = "suffix" => m.name \in Seq(Labels))

PortsOK(m) == m.form \in {"exact", "set", "range", "any"} /\ (m.form = "set" => m.entries \in Nat)

LEMMA SpecificityInt ==
  ASSUME NEW r, HostOK(r.host), PortsOK(r.ports) PROVE Specificity(r) \in Int
<1>1. HostSpecificity(r.host) \in Int
  <2>1. CASE r.host.form = "suffix"
    <3>1. NameLength(r.host.name) \in Int /\ MaxHostPattern \in Int  BY <2>1, NameLengthInt DEF HostOK, MaxHostPattern
    <3> DEFINE a == NameLength(r.host.name)
               b == MaxHostPattern
               m == Min({a, b})
    <3>2. HostSpecificity(r.host) = 1000 + m
      BY <2>1 DEF HostSpecificity
    <3> HIDE DEF a, b
    <3>3. m = IF a <= b THEN a ELSE b
      <4>1. a \in Int /\ b \in Int  BY <3>1 DEF a, b
      <4> QED  BY <4>1, MinOfTwo
    <3>4. m \in Int  BY <3>1, <3>3 DEF a, b
    <3> HIDE DEF m
    <3> QED  BY <3>2, <3>4
  <2>2. CASE r.host.form # "suffix"
    <3> QED  BY <2>2 DEF HostOK, HostSpecificity
  <2> QED  BY <2>1, <2>2
<1>2. PortSpecificity(r.ports) \in Int  BY PolicyBounds DEF PortsOK, PortSpecificity
<1>3. KindSpecificity(r.kind) \in Int  BY DEF KindSpecificity
<1> HIDE DEF HostSpecificity, PortSpecificity, KindSpecificity
<1> QED  BY <1>1, <1>2, <1>3 DEF Specificity

LEMMA ParsedHost ==
  ASSUME NEW t, NEW wild, t.name \in Seq(Labels), NEW h \in ParseHostPattern(t, wild) PROVE HostOK(h)
<1>1. \A x \in NormalizeHost(t) : x.name = t.name  BY DEF NormalizeHost, NormalizeDns, Normalized
<1>2. \A x \in ExactDns(t) : HostOK(x)  BY DEF ExactDns, HostOK
<1>3. \A x \in SuffixDns(t) : HostOK(x)
  <2>1. ASSUME NEW x \in SuffixDns(t) PROVE HostOK(x)
    <3>1. PICK y \in NormalizeHost(t) : x = [form |-> "suffix", name |-> y.name]  BY DEF SuffixDns
    <3>2. x.form = "suffix" /\ x.name = t.name  BY <1>1, <3>1
    <3> QED  BY <3>2 DEF HostOK
  <2> QED  BY <2>1
<1>4. \A x \in ExactIp(t) : HostOK(x)  BY DEF ExactIp, HostOK
<1>5. h \in ExactDns(t) \cup SuffixDns(t) \cup ExactIp(t)  BY DEF ParseHostPattern
<1> QED  BY <1>2, <1>3, <1>4, <1>5

LEMMA ParsedPorts ==
  ASSUME NEW v, v.ports \in Seq(Int), NEW m \in ParsePorts(v) PROVE PortsOK(m)
<1> DEFINE forms == {"any", "one", "range", "array"}
<1>1. CASE v.form = "any"
  <2>1. m = AnyPort  BY <1>1 DEF ParsePorts
  <2> QED  BY <2>1 DEF AnyPort, PortsOK
<1>2. CASE v.form = "one"
  <2>1. m \in UNION {PortExact(p) : p \in ParsePort(v.ports[1])}  BY <1>2 DEF ParsePorts
  <2>2. PICK p : m \in PortExact(p)  BY <2>1
  <2>3. m = [form |-> "exact", ports |-> {p}]  BY <2>2 DEF PortExact
  <2> QED  BY <2>3 DEF PortsOK
<1>3. CASE v.form = "range"
  <2>1. m \in PortSpan(v.ports[1], v.ports[2])  BY <1>3 DEF ParsePorts
  <2>2. PICK lo, hi : m \in PortRange(lo, hi)  BY <2>1 DEF PortSpan
  <2>3. m = [form |-> "range", ports |-> lo..hi]  BY <2>2 DEF PortRange
  <2> QED  BY <2>3 DEF PortsOK
<1>4. CASE v.form = "array"
  <2>0. m \in PortList(v.ports)  BY SMTT(60), <1>4 DEF ParsePorts
  <2>1. m \in PortSet(v.ports)  BY <2>0 DEF PortList
  <2>2. m = [form |-> "set", ports |-> Range(v.ports), entries |-> Len(v.ports)]  BY <2>1 DEF PortSet
  <2>3. Len(v.ports) \in Nat  OBVIOUS
  <2> HIDE DEF Range
  <2> QED  BY <2>2, <2>3 DEF PortsOK
<1>5. CASE v.form \notin forms
  <2>0. v.form # "any" /\ v.form # "one" /\ v.form # "range" /\ v.form # "array"  BY <1>5
  <2> QED  BY <2>0 DEF ParsePorts
<1> QED  BY <1>1, <1>2, <1>3, <1>4, <1>5

\* A rule of a policy file.
FileRuleOK(r) ==
    /\ r = [host |-> r.host, ports |-> r.ports, kind |-> r.kind, action |-> r.action]
    /\ HostOK(r.host) /\ PortsOK(r.ports) /\ r.action \in ConnectActions

LEMMA ParsedRule ==
  ASSUME NEW d, d.host.name \in Seq(Labels), d.ports.ports \in Seq(Int), NEW r \in ParseRule(d)
  PROVE  FileRuleOK(r)
<1>1. PICK h \in ParseHostPattern(d.host, d.wild), p \in ParsePorts(d.ports), k \in ParseKind(d.kind),
           a \in ParseAction(d.action) : r = [host |-> h, ports |-> p, kind |-> k, action |-> a]
  BY DEF ParseRule
<1>2. HostOK(h)  BY ParsedHost
<1>3. PortsOK(p)  BY ParsedPorts
<1>4. a \in ConnectActions  BY DEF ParseAction
<1>5. r.host = h /\ r.ports = p /\ r.kind = k /\ r.action = a  BY <1>1
<1> QED  BY <1>1, <1>2, <1>3, <1>4, <1>5 DEF FileRuleOK

FileOK(f) ==
    /\ f.default \in ConnectActions
    /\ \E n \in Nat : DOMAIN f.rules = 1..n
    /\ \A i \in DOMAIN f.rules : FileRuleOK(f.rules[i])
    /\ Coherent(f)

LEMMA DocumentParsed == ASSUME NEW s \in Setups, NEW f \in ParseJson(s.document) PROVE FileOK(f)
<1> DEFINE d == s.document
           parsed == [i \in DOMAIN d.rules |-> ParseRule(d.rules[i])]
           chosen == [i \in DOMAIN parsed |-> CHOOSE r \in parsed[i] : TRUE]
           file(default) == [default |-> default, rules |-> chosen]
<1>1. f \in FromDocument(d)  BY DEF ParseJson
<1>2. /\ \A i \in DOMAIN parsed : parsed[i] # {}
      /\ f \in {file(a) : a \in ParseConnectAction(d.default)}
      /\ Coherent(f)
  BY <1>1 DEF FromDocument
<1>3. f.rules = chosen /\ f.default \in ConnectActions
  <2>1. PICK a \in ParseConnectAction(d.default) : f = file(a)  BY <1>2
  <2>2. a \in ConnectActions  BY DEF ParseConnectAction
  <2> HIDE DEF chosen
  <2> QED  BY <2>1, <2>2
<1>4. d.rules \in Seq(Range(d.rules)) /\ \A x \in Range(d.rules) : x.host.name \in Seq(Labels) /\ x.ports.ports \in Seq(Int)
  BY SetupShape DEF Labels
<1>5. DOMAIN d.rules = 1..Len(d.rules) /\ Len(d.rules) \in Nat  BY <1>4
<1>6. ASSUME NEW i \in DOMAIN f.rules PROVE FileRuleOK(f.rules[i])
  <2>1. i \in DOMAIN d.rules /\ parsed[i] = ParseRule(d.rules[i])  BY <1>3
  <2>2. f.rules[i] = CHOOSE r \in parsed[i] : TRUE  BY <1>3
  <2>3. f.rules[i] \in ParseRule(d.rules[i])  BY <1>2, <2>1, <2>2
  <2>4. d.rules[i] \in Range(d.rules)  BY <2>1 DEF Range
  <2> DEFINE x == d.rules[i]
  <2>5. x.host.name \in Seq(Labels) /\ x.ports.ports \in Seq(Int)  BY <1>4, <2>4
  <2> HIDE DEF x
  <2>6. f.rules[i] \in ParseRule(x)  BY <2>3 DEF x
  <2> QED  BY <2>5, <2>6, ParsedRule
<1>7. DOMAIN f.rules = 1..Len(d.rules)  BY <1>3, <1>5
<1> QED  BY <1>2, <1>3, <1>5, <1>6, <1>7 DEF FileOK

LEMMA FlagsParsed ==
  ASSUME NEW s \in Setups, NEW f \in PolicyFromFlags(s.default, s.allowHosts, s.denyHosts) PROVE FileOK(f)
<1> DEFINE A == s.allowHosts
           D == s.denyHosts
           rule(p, a) == {[host |-> h, ports |-> AnyPort, kind |-> "any", action |-> a] :
                             h \in IF "empty" \in p.host.marks THEN {} ELSE ParseHostPattern(p.host, p.wild)}
           act == IF s.default = "intercept" THEN "intercept" ELSE "tunnel"
           As == [i \in DOMAIN A |-> rule(A[i], act)]
           Ds == [i \in DOMAIN D |-> rule(D[i], "deny")]
           parsed == As \o Ds
           chosen == [i \in DOMAIN parsed |-> CHOOSE r \in parsed[i] : TRUE]
           file == [default |-> s.default, rules |-> chosen]
<1>1. /\ \A i \in DOMAIN parsed : parsed[i] # {}
      /\ f \in {file} /\ Coherent(f)
  <2> DEFINE G(x) == IF Len(parsed) > MaxPolicyRules \/ \E i \in DOMAIN parsed : parsed[i] = {} THEN {}
                     ELSE {g \in {file} : Coherent(g)}
  <2>1. PolicyFromFlags(s.default, s.allowHosts, s.denyHosts) = G(0)  BY ZenonT(60) DEF PolicyFromFlags
  <2> HIDE DEF parsed, file
  <2> QED  BY <2>1
<1>2. f = file  BY <1>1
<1>3. f.rules = chosen /\ f.default \in ConnectActions
  <2>1. s.default \in ConnectActions  BY SetupShape
  <2> HIDE DEF chosen
  <2> QED  BY <1>2, <2>1
<1>4. /\ A \in Seq(Range(A)) /\ \A x \in Range(A) : x.host.name \in Seq(Labels)
      /\ D \in Seq(Range(D)) /\ \A x \in Range(D) : x.host.name \in Seq(Labels)
  BY SetupShape DEF Labels
<1>5. /\ Len(A) \in Nat /\ DOMAIN A = 1..Len(A) /\ \A i \in DOMAIN A : A[i] \in Range(A)
      /\ Len(D) \in Nat /\ DOMAIN D = 1..Len(D) /\ \A i \in DOMAIN D : D[i] \in Range(D)
  BY <1>4 DEF Range
<1>a. Len(A) \in Nat /\ Len(D) \in Nat  BY <1>4
<1>6. ASSUME NEW p, p.host.name \in Seq(Labels), NEW a \in ConnectActions, NEW r \in rule(p, a) PROVE FileRuleOK(r)
  <2>1. PICK h \in ParseHostPattern(p.host, p.wild) : r = [host |-> h, ports |-> AnyPort, kind |-> "any", action |-> a]
    OBVIOUS
  <2> DEFINE t == p.host
             w == p.wild
  <2>2. HostOK(h)
    <3>1. t.name \in Seq(Labels) /\ h \in ParseHostPattern(t, w)  BY <1>6, <2>1
    <3> HIDE DEF t, w
    <3> QED  BY <3>1, ParsedHost
  <2>3. PortsOK(AnyPort)  BY DEF AnyPort, PortsOK
  <2>4. r.host = h /\ r.ports = AnyPort /\ r.kind = "any" /\ r.action = a  BY <2>1
  <2> QED  BY <2>1, <2>2, <2>3, <2>4 DEF FileRuleOK
<1>7. act \in ConnectActions /\ "deny" \in ConnectActions  BY DEF ConnectActions
<1>8. ASSUME NEW i \in DOMAIN A, NEW r \in rule(A[i], act) PROVE FileRuleOK(r)
  <2>1. A[i].host.name \in Seq(Labels)  BY <1>4, <1>5
  <2> DEFINE p == A[i]
  <2> HIDE DEF p, rule, act
  <2> QED  BY <1>6, <1>7, <1>8, <2>1 DEF p
<1>9. ASSUME NEW i \in DOMAIN D, NEW r \in rule(D[i], "deny") PROVE FileRuleOK(r)
  <2>1. D[i].host.name \in Seq(Labels)  BY <1>4, <1>5
  <2> DEFINE p == D[i]
  <2> HIDE DEF p, rule, act
  <2> QED  BY <1>6, <1>7, <1>9, <2>1 DEF p
<1> DEFINE T == SUBSET (UNION (Range(As) \cup Range(Ds)))
<1> HIDE DEF rule, act
<1>10. /\ As \in Seq(Range(As)) /\ Len(As) = Len(A)
       /\ Ds \in Seq(Range(Ds)) /\ Len(Ds) = Len(D)
       /\ \A i \in 1..Len(A) : As[i] = rule(A[i], act)
       /\ \A i \in 1..Len(D) : Ds[i] = rule(D[i], "deny")
  BY <1>5 DEF Range
<1>11. /\ DOMAIN parsed = 1..(Len(A) + Len(D))
       /\ \A i \in 1..Len(A) : parsed[i] = rule(A[i], act)
       /\ \A i \in (Len(A) + 1)..(Len(A) + Len(D)) : parsed[i] = rule(D[i - Len(A)], "deny")
  <2> DEFINE RA == Range(As)
             RD == Range(Ds)
             U == RA \cup RD
  <2> HIDE DEF RA, RD, As, Ds
  <2>1. As \in Seq(RA) /\ Ds \in Seq(RD)  BY <1>10 DEF RA, RD
  <2>2. As \in Seq(U) /\ Ds \in Seq(U)  BY <2>1
  <2> HIDE DEF U
  <2>3. /\ DOMAIN parsed = 1..(Len(As) + Len(Ds))
        /\ \A i \in 1..Len(As) : parsed[i] = As[i]
        /\ \A i \in (Len(As) + 1)..(Len(As) + Len(Ds)) : parsed[i] = Ds[i - Len(As)]
    BY <2>2
  <2>4. \A i \in (Len(As) + 1)..(Len(As) + Len(Ds)) : i - Len(As) \in 1..Len(Ds)  BY <2>2
  <2> HIDE DEF parsed
  <2> QED  BY <2>3, <2>4, <1>10
<1> HIDE DEF A, D
<1>12. Len(A) + Len(D) \in Nat  BY <1>a
<1> HIDE DEF parsed
<1>13. ASSUME NEW i \in DOMAIN f.rules PROVE FileRuleOK(f.rules[i])
  <2>1. i \in DOMAIN parsed /\ f.rules[i] \in parsed[i]  BY <1>1, <1>3
  <2>2. CASE i \in 1..Len(A)
    <3>1. f.rules[i] \in rule(A[i], act)  BY <1>11, <2>1, <2>2
    <3>2. i \in DOMAIN A  BY <1>5, <2>2
    <3> QED  BY <1>8, <3>1, <3>2
  <2>3. CASE i \notin 1..Len(A)
    <3>1. i \in (Len(A) + 1)..(Len(A) + Len(D)) /\ i - Len(A) \in 1..Len(D)  BY <1>a, <1>11, <2>1, <2>3
    <3>2. f.rules[i] \in rule(D[i - Len(A)], "deny")  BY <1>11, <2>1, <3>1
    <3> DEFINE j == i - Len(A)
    <3>3. j \in DOMAIN D  BY <1>5, <3>1
    <3> QED  BY <1>9, <3>2, <3>3
  <2> QED  BY <2>2, <2>3
<1>14. DOMAIN f.rules = 1..(Len(A) + Len(D))  BY <1>3, <1>11
<1> QED  BY <1>1, <1>3, <1>12, <1>13, <1>14 DEF FileOK

-----------------------------------------------------------------------------
(* The policy in force.                                                     *)

PolicyOK(p) ==
    /\ Len(p.rules) \in Nat /\ DOMAIN p.rules = 1..Len(p.rules)
    /\ \A i \in DOMAIN p.rules : RuleOK(p.rules[i])
    /\ p.default \in ConnectActions

\* The policy made of a file has its rules, an allow for every action but deny.
LEMMA Converts ==
  ASSUME NEW f, FileOK(f), NEW p \in ToTargetPolicy(f)
  PROVE  /\ PolicyOK(p) /\ p.default = f.default /\ DOMAIN p.rules = DOMAIN f.rules
         /\ \A i \in DOMAIN f.rules : /\ p.rules[i].host = f.rules[i].host /\ p.rules[i].ports = f.rules[i].ports
                                      /\ p.rules[i].kind = f.rules[i].kind
                                      /\ p.rules[i].action = RuleAction(f.rules[i].action)
<1> DEFINE rules == [i \in DOMAIN f.rules |-> [f.rules[i] EXCEPT !.action = RuleAction(@)]]
<1>1. p = [rules |-> rules, default |-> f.default]  BY DEF ToTargetPolicy, NewPolicy
<1>2. p.rules = rules /\ p.default = f.default
  <2> HIDE DEF rules
  <2> QED  BY <1>1
<1>3. PICK n \in Nat : DOMAIN f.rules = 1..n  BY DEF FileOK
<1>4. DOMAIN rules = 1..n  BY <1>3
<1>5. Len(rules) = n
  <2> DEFINE T == {rules[i] : i \in 1..n}
  <2>1. rules \in [1..n -> T]  BY <1>4
  <2> HIDE DEF rules, T
  <2> QED  BY <2>1, <1>3, <1>4
<1>6. ASSUME NEW i \in DOMAIN f.rules
      PROVE  /\ p.rules[i].host = f.rules[i].host /\ p.rules[i].ports = f.rules[i].ports
             /\ p.rules[i].kind = f.rules[i].kind /\ p.rules[i].action = RuleAction(f.rules[i].action)
             /\ RuleOK(p.rules[i])
  <2> DEFINE x == f.rules[i]
             y == p.rules[i]
  <2>1. y = [x EXCEPT !.action = RuleAction(@)]  BY <1>2
  <2>2. FileRuleOK(x)  BY DEF FileOK
  <2> HIDE DEF x, y
  <2>3. x = [host |-> x.host, ports |-> x.ports, kind |-> x.kind, action |-> x.action]  BY <2>2 DEF FileRuleOK
  <2>4. y = [host |-> x.host, ports |-> x.ports, kind |-> x.kind, action |-> RuleAction(x.action)]
    BY <2>1, <2>3
  <2>5. y.host = x.host /\ y.ports = x.ports /\ y.kind = x.kind /\ y.action = RuleAction(x.action)  BY <2>4
  <2>6. Specificity(y) \in Int  BY <2>2, <2>5, SpecificityInt DEF FileRuleOK
  <2>7. RuleOK(y)  BY <2>5, <2>6 DEF RuleOK, RuleAction
  <2> QED  BY <2>5, <2>7 DEF x, y
<1>7. f.default \in ConnectActions  BY DEF FileOK
<1> HIDE DEF rules
<1>8. Len(p.rules) = n /\ DOMAIN p.rules = 1..n  BY <1>2, <1>4, <1>5
<1> QED  BY <1>2, <1>3, <1>6, <1>7, <1>8 DEF PolicyOK

LEMMA LoadedOK == ASSUME NEW s \in Setups, NEW p \in LoadRecordPolicy(s) PROVE PolicyOK(p)
<1>1. PICK f \in (IF s.policyFile THEN ParseJson(s.document)
                  ELSE PolicyFromFlags(s.default, s.allowHosts, s.denyHosts)) : p \in ToTargetPolicy(f)
  BY DEF LoadRecordPolicy
<1>2. FileOK(f)  BY <1>1, DocumentParsed, FlagsParsed
<1> QED  BY <1>1, <1>2, Converts

\* The files of the policies that are converted, and what they are converted to, say
\* the same of every CONNECT.
LEMMA ConversionExact ==
  ASSUME NEW f, FileOK(f), NEW p \in ToTargetPolicy(f), NEW host, NEW port
  PROVE  {ResolveConnect(p, host, port)} = FileConnect(f, host, port)
<1> DEFINE D == DOMAIN f.rules
           fr(i) == f.rules[i]
           pr(i) == p.rules[i]
           M == {i \in D : RuleMatches(f.rules[i], host, port, "connect")}
           T == {j \in M : \A k \in M : Specificity(f.rules[k]) <= Specificity(f.rules[j])}
<1>1. /\ PolicyOK(p) /\ p.default = f.default /\ DOMAIN p.rules = D
      /\ \A i \in D : /\ p.rules[i].host = f.rules[i].host /\ p.rules[i].ports = f.rules[i].ports
                      /\ p.rules[i].kind = f.rules[i].kind
                      /\ p.rules[i].action = RuleAction(f.rules[i].action)
  BY Converts
<1>2. \A i \in D : /\ RuleMatches(p.rules[i], host, port, "connect") <=> RuleMatches(f.rules[i], host, port, "connect")
                   /\ Specificity(p.rules[i]) = Specificity(f.rules[i])
  BY <1>1 DEF RuleMatches, Specificity
<1>3. Deciding(f.rules, host, port, "connect") = {f.rules[i] : i \in T}  BY DEF Deciding
<1>4. Deciding(p.rules, host, port, "connect") = {p.rules[i] : i \in T}
  <2>1. {i \in DOMAIN p.rules : RuleMatches(p.rules[i], host, port, "connect")} = M  BY <1>1, <1>2
  <2>2. \A j \in M : (\A k \in M : Specificity(p.rules[k]) <= Specificity(p.rules[j]))
                 <=> (\A k \in M : Specificity(f.rules[k]) <= Specificity(f.rules[j]))
    BY <1>2
  <2>3. {j \in M : \A k \in M : Specificity(p.rules[k]) <= Specificity(p.rules[j])} = T
    <3> HIDE DEF M
    <3> QED  BY <2>2
  <2> HIDE DEF M, T
  <2> QED  BY <2>1, <2>3 DEF Deciding
<1>5. T \subseteq M /\ M \subseteq D  OBVIOUS
<1>6. \A i \in M : KindCovers(f.rules[i].kind, "connect")  BY DEF RuleMatches
<1> HIDE DEF T, M
<1>7. \A i \in T : p.rules[i].action = "deny" <=> f.rules[i].action = "deny"  BY <1>1, <1>5 DEF RuleAction
<1>8. Allowed(p.rules, host, port, "connect") <=> Allowed(f.rules, host, port, "connect")
  <2>1. Allowed(p.rules, host, port, "connect") <=> T # {} /\ \A i \in T : p.rules[i].action # "deny"
    BY <1>4 DEF Allowed
  <2>2. Allowed(f.rules, host, port, "connect") <=> T # {} /\ \A i \in T : f.rules[i].action # "deny"
    BY <1>3 DEF Allowed
  <2> QED  BY <1>7, <2>1, <2>2
<1>9. Evaluate(p, host, port, "connect") = "allow" <=> Allowed(p.rules, host, port, "connect")
  BY <1>1, EvaluateExact DEF PolicyOK
<1>10. Evaluate(p, host, port, "connect") \in {"allow", "deny"}
  BY <1>1, EvaluateExact DEF PolicyOK
<1>11. CASE ~Allowed(f.rules, host, port, "connect")
  <2>1. ResolveConnect(p, host, port) = "deny"  BY <1>8, <1>9, <1>10, <1>11 DEF ResolveConnect
  <2> QED  BY <1>11, <2>1 DEF FileConnect
<1>12. CASE Allowed(f.rules, host, port, "connect")
  <2>1. ResolveConnect(p, host, port) = f.default  BY <1>1, <1>8, <1>9, <1>12 DEF ResolveConnect
  <2>2. FileConnect(f, host, port) = {r.action : r \in Deciding(f.rules, host, port, "connect")}
    BY <1>12 DEF FileConnect
  <2>3. T # {} /\ \A i \in T : f.rules[i].action # "deny"  BY <1>3, <1>12 DEF Allowed
  <2>4. \A i \in T : f.rules[i].action = f.default  BY <1>5, <1>6, <2>3 DEF FileOK, Coherent
  <2> QED  BY <1>3, <2>1, <2>2, <2>3, <2>4
<1> QED  BY <1>11, <1>12

-----------------------------------------------------------------------------
(* Headers.                                                                 *)

\* The loop of Retain.
Keeps(c, list, set) ==
    c = [n \in 0..Len(list) |-> IF n = 0 THEN << >>
                                ELSE IF list[n] \in set THEN Append(c[n - 1], list[n]) ELSE c[n - 1]]

LEMMA RetainLoop ==
  ASSUME NEW T, NEW list \in Seq(T), NEW set
  PROVE  \E c : Keeps(c, list, set) /\ Retain(list, set) = c[Len(list)]
<1> DEFINE L == Len(list)
           V == Seq(T)
           base == << >>
           step == [n \in 1..L |-> [v \in V |-> IF list[n] \in set THEN Append(v, list[n]) ELSE v]]
           c == CHOOSE h : Keeps(h, list, set)
<1>1. PICK g \in [0..L -> V] : g[0] = base /\ \A n \in 1..L : g[n] = step[n][g[n - 1]]
  <2>1. \A n \in 1..L : list[n] \in T  OBVIOUS
  <2>2. \A n \in 1..L : \A v \in V : Append(v, list[n]) \in V  BY <2>1
  <2>3. step \in [1..L -> [V -> V]]
    <3> HIDE DEF V
    <3> QED  BY <2>2
  <2>4. L \in Nat /\ base \in V  OBVIOUS
  <2> HIDE DEF step, base, V, L
  <2>5. HasRun(L, V, base, step)  BY <2>3, <2>4, LoopExists
  <2> QED  BY <2>5 DEF HasRun, IsRun
<1>2. Keeps(g, list, set)
  <2> DEFINE R(n) == IF n = 0 THEN << >> ELSE IF list[n] \in set THEN Append(g[n - 1], list[n]) ELSE g[n - 1]
  <2>1. ASSUME NEW n \in 0..L PROVE g[n] = R(n)
    <3> HIDE DEF V
    <3>1. CASE n = 0  BY <3>1, <1>1
    <3>2. CASE n # 0
      <4>1. n \in 1..L /\ n - 1 \in 0..L  BY <3>2
      <4>2. g[n] = step[n][g[n - 1]] /\ g[n - 1] \in V  BY <1>1, <4>1
      <4> QED  BY <3>2, <4>1, <4>2
    <3> QED  BY <3>1, <3>2
  <2> HIDE DEF R, V
  <2>2. g = [n \in 0..L |-> R(n)]  BY <1>1, <2>1
  <2> QED  BY <2>2 DEF R, Keeps
<1>3. Keeps(c, list, set)  BY <1>2
<1>4. Retain(list, set) = c[L]  BY Zenon DEF Retain, Keeps
<1> QED  BY <1>3, <1>4

LEMMA RetainEmpty == ASSUME NEW set PROVE Retain(<< >>, set) = << >>
<1>1. << >> \in Seq({})  OBVIOUS
<1>2. PICK c : Keeps(c, << >>, set) /\ Retain(<< >>, set) = c[Len(<< >>)]  BY <1>1, RetainLoop
<1>3. Len(<< >>) = 0 /\ 0 \in 0..0  OBVIOUS
<1>4. c[0] = << >>  BY <1>2, <1>3 DEF Keeps
<1> QED  BY <1>2, <1>3, <1>4

LEMMA RetainAppend ==
  ASSUME NEW T, NEW s \in Seq(T), NEW x \in T, NEW set
  PROVE  Retain(Append(s, x), set) = IF x \in set THEN Append(Retain(s, set), x) ELSE Retain(s, set)
<1> DEFINE t == Append(s, x)
           L == Len(s)
<1>1. t \in Seq(T) /\ Len(t) = L + 1 /\ L \in Nat /\ t[L + 1] = x /\ \A n \in 1..L : t[n] = s[n]  OBVIOUS
<1> HIDE DEF t
<1>2. PICK c : Keeps(c, s, set) /\ Retain(s, set) = c[L]  BY RetainLoop
<1>3. PICK d : Keeps(d, t, set) /\ Retain(t, set) = d[L + 1]  BY <1>1, RetainLoop
<1> HIDE DEF L
<1>4. \A n \in 0..L : c[n] = IF n = 0 THEN << >> ELSE IF s[n] \in set THEN Append(c[n - 1], s[n]) ELSE c[n - 1]
  BY <1>2 DEF Keeps, L
<1>5. \A n \in 0..(L + 1) : d[n] = IF n = 0 THEN << >> ELSE IF t[n] \in set THEN Append(d[n - 1], t[n]) ELSE d[n - 1]
  BY <1>1, <1>3 DEF Keeps
<1> DEFINE S == {n \in Nat : n <= L => d[n] = c[n]}
<1>6. 0 \in S
  <2>1. 0 \in 0..L /\ 0 \in 0..(L + 1)  BY <1>1
  <2> QED  BY <1>4, <1>5, <2>1
<1>7. ASSUME NEW n \in S PROVE n + 1 \in S
  <2> SUFFICES ASSUME n + 1 <= L PROVE d[n + 1] = c[n + 1]  OBVIOUS
  <2>1. n + 1 \in 0..L /\ n + 1 \in 0..(L + 1) /\ n + 1 \in 1..L /\ n + 1 # 0 /\ (n + 1) - 1 = n  BY <1>1
  <2>2. d[n] = c[n]  BY <1>1
  <2> QED  BY <1>1, <1>4, <1>5, <2>1, <2>2
<1>8. S = Nat
  <2> HIDE DEF S
  <2>1. S \in SUBSET Nat  BY DEF S
  <2> QED  BY <1>6, <1>7, <2>1, LoopInduction
<1>9. d[L] = c[L]  BY <1>1, <1>8
<1>10. L + 1 \in 0..(L + 1) /\ L + 1 # 0 /\ (L + 1) - 1 = L  BY <1>1
<1>11. d[L + 1] = IF x \in set THEN Append(d[L], x) ELSE d[L]  BY <1>1, <1>5, <1>10
<1> QED  BY <1>2, <1>3, <1>9, <1>11 DEF t

\* Every sequence is empty or one entry longer than another.
LEMMA LastEntry ==
  ASSUME NEW T, NEW s \in Seq(T), NEW n \in Nat, Len(s) = n + 1
  PROVE  \E f \in Seq(T), x \in T : Len(f) = n /\ s = Append(f, x)
<1> DEFINE f == SubSeq(s, 1, n)
           x == s[n + 1]
<1>1. f \in Seq(T) /\ Len(f) = n /\ x \in T /\ \A i \in 1..n : f[i] = s[i]  OBVIOUS
<1> HIDE DEF f
<1>2. s = Append(f, x)
  <2>1. Append(f, x) \in Seq(T) /\ Len(Append(f, x)) = n + 1  BY <1>1
  <2>2. \A i \in 1..(n + 1) : Append(f, x)[i] = s[i]  BY <1>1
  <2> QED  BY <2>1, <2>2
<1> QED  BY <1>1, <1>2

\* What a list is after one filter, and after another.
Filtered(q, A, B, C, T) ==
    /\ Retain(q, A) \in Seq(T)
    /\ Retain(Retain(q, A), B) = Retain(q, C)
    /\ \A i \in 1..Len(q) : q[i] \in A => \E j \in 1..Len(Retain(q, A)) : Retain(q, A)[j] = q[i]

\* A list that was filtered twice was filtered once by both.
LEMMA RetainTwice ==
  ASSUME NEW T, NEW A, NEW B, NEW C, \A h \in T : h \in C <=> h \in A /\ h \in B, NEW s \in Seq(T)
  PROVE  Filtered(s, A, B, C, T)
<1> DEFINE Good(q) == Filtered(q, A, B, C, T)
           S == {n \in Nat : \A q \in Seq(T) : Len(q) = n => Good(q)}
<1>1. 0 \in S
  <2>1. ASSUME NEW q \in Seq(T), Len(q) = 0 PROVE Good(q)
    <3>1. q = << >>  BY <2>1
    <3>2. Retain(q, A) = << >> /\ Retain(<< >>, B) = << >> /\ Retain(q, C) = << >>  BY <3>1, RetainEmpty
    <3>3. Len(q) = 0 /\ << >> \in Seq(T)  BY <2>1
    <3> QED  BY <3>2, <3>3 DEF Filtered
  <2> QED  BY <2>1
<1>2. ASSUME NEW n \in S PROVE n + 1 \in S
  <2>1. ASSUME NEW q \in Seq(T), Len(q) = n + 1 PROVE Good(q)
    <3>0. n \in Nat /\ \A f \in Seq(T) : Len(f) = n => Good(f)  OBVIOUS
    <3> HIDE DEF S, Good
    <3>1. PICK f \in Seq(T), x \in T : Len(f) = n /\ q = Append(f, x)  BY <2>1, <3>0, LastEntry
    <3>2. Good(f)  BY <3>0, <3>1
    <3>3. /\ Retain(q, A) = IF x \in A THEN Append(Retain(f, A), x) ELSE Retain(f, A)
          /\ Retain(q, C) = IF x \in C THEN Append(Retain(f, C), x) ELSE Retain(f, C)
      BY <3>1, RetainAppend
    <3> DEFINE a == Retain(f, A)
               z == Retain(q, A)
    <3>a. /\ a \in Seq(T) /\ Retain(a, B) = Retain(f, C)
          /\ \A i \in 1..Len(f) : f[i] \in A => \E j \in 1..Len(a) : a[j] = f[i]
      BY <3>2 DEF Good, Filtered
    <3>6. z = (IF x \in A THEN Append(a, x) ELSE a)  BY <3>3
    <3> HIDE DEF a, z
    <3>4. Retain(Append(a, x), B) = IF x \in B THEN Append(Retain(a, B), x) ELSE Retain(a, B)
      BY <3>a, RetainAppend
    <3>5. Retain(z, B) = Retain(q, C)
      <4>1. CASE x \in A  BY <3>3, <3>4, <3>6, <3>a, <4>1
      <4>2. CASE x \notin A  BY <3>3, <3>6, <3>a, <4>2
      <4> QED  BY <4>1, <4>2
    <3>8. z \in Seq(T)  BY <3>a, <3>6
    <3>9. ASSUME NEW i \in 1..Len(q), q[i] \in A PROVE \E j \in 1..Len(z) : z[j] = q[i]
      <4>1. CASE i \in 1..Len(f)
        <5>1. q[i] = f[i]  BY <3>1, <4>1
        <5>2. PICK j \in 1..Len(a) : a[j] = f[i]  BY <3>a, <3>9, <4>1, <5>1
        <5>3. j \in 1..Len(z) /\ z[j] = a[j]  BY <3>a, <3>6, <5>2
        <5> QED  BY <5>1, <5>2, <5>3
      <4>2. CASE i \notin 1..Len(f)
        <5>1. i = Len(f) + 1 /\ q[i] = x  BY <3>1, <4>2
        <5>2. z = Append(a, x)  BY <3>6, <3>9, <5>1
        <5>3. Len(a) + 1 \in 1..Len(z) /\ z[Len(a) + 1] = x  BY <3>a, <5>2
        <5> QED  BY <5>1, <5>3
      <4> QED  BY <4>1, <4>2
    <3> QED  BY <3>5, <3>8, <3>9 DEF Good, Filtered, z
  <2> HIDE DEF Good
  <2> QED  BY <2>1
<1>3. S = Nat
  <2> HIDE DEF S
  <2>1. S \in SUBSET Nat  BY DEF S
  <2> QED  BY <1>1, <1>2, <2>1, LoopInduction
<1>4. Len(s) \in Nat  OBVIOUS
<1>5. Good(s)
  <2> HIDE DEF Good
  <2> QED  BY <1>3, <1>4
<1> QED  BY <1>5 DEF Good

\* What is forwarded of a request's headers.
LEMMA HeadersStripped ==
  ASSUME NEW sent, sent \in Seq(Range(sent)), NEW headers, headers = FilterProxyHeaders(sent)
  PROVE  LET hop == ProxyOnly \cup {"connection", "upgrade", "te"}
                    \cup {n \in {h.name : h \in Range(sent)} :
                             \E h \in Range(sent) : h.name = "connection" /\ n \in Range(h.tokens)}
         IN Retain(headers, {h \in Range(headers) : h.name # "te"})
              = Retain(sent, {h \in Range(sent) : h.name \notin hop})
<1> DEFINE T == Range(sent)
           named == {n \in {h.name : h \in T} : \E h \in T : h.name = "connection" /\ n \in Range(h.tokens)}
           hop == ProxyOnly \cup {"connection", "upgrade", "te"} \cup named
           A == {h \in T : Classify(h.name, sent)}
           B == {h \in Range(headers) : h.name # "te"}
           C == {h \in T : h.name \notin hop}
<1>1. headers = Retain(sent, A)  BY DEF FilterProxyHeaders
<1>2. \A h \in T : h.name \in named <=> h.name \in Nominated(sent)
  <2>1. ASSUME NEW n PROVE (\E h \in T : h.name = "connection" /\ n \in Range(h.tokens)) <=> n \in Nominated(sent)
    BY DEF Nominated, Range
  <2> HIDE DEF T
  <2> QED  BY <2>1
<1>3. \A h \in T : h.name # "te" => (Classify(h.name, sent) <=> h.name \notin hop)  BY <1>2 DEF Classify
<1>4. /\ \A i \in 1..Len(sent) : sent[i] \in A => \E j \in 1..Len(headers) : headers[j] = sent[i]
      /\ headers \in Seq(T)
  <2> HIDE DEF A, T
  <2>1. sent \in Seq(T)  BY DEF T
  <2>2. Filtered(sent, A, A, A, T)  BY <2>1, RetainTwice
  <2> QED  BY <1>1, <2>2 DEF Filtered
<1>6. \A h \in T : h \in A => h \in Range(headers)
  <2>1. ASSUME NEW h \in T, h \in A PROVE h \in Range(headers)
    <3>1. PICK i \in 1..Len(sent) : sent[i] = h  BY DEF Range
    <3> HIDE DEF A, T
    <3>2. PICK j \in 1..Len(headers) : headers[j] = h  BY <1>4, <2>1, <3>1
    <3>3. DOMAIN headers = 1..Len(headers)  BY <1>4
    <3> QED  BY <3>2, <3>3 DEF Range
  <2> QED  BY <2>1
<1>7. \A h \in T : h \in C <=> h \in A /\ h \in B
  <2> HIDE DEF T
  <2>1. "te" \in hop  OBVIOUS
  <2> HIDE DEF hop
  <2> QED  BY <1>3, <1>6, <2>1
<1> SUFFICES Retain(headers, B) = Retain(sent, C)  OBVIOUS
<1> HIDE DEF A, B, C, T
<1>8. sent \in Seq(T)  BY DEF T
<1>9. Filtered(sent, A, B, C, T)  BY <1>7, <1>8, RetainTwice
<1> QED  BY <1>1, <1>9 DEF Filtered

-----------------------------------------------------------------------------
(* What the policy and the origin allow.                                    *)

TunnelStates == {"dialing", "relaying", "ended", "detached"}
MitmStates == {"leaf", "handshake", "decrypted", "exchange", "closing", "orphan"}
InnerStates == {"exchange", "closing", "orphan"}

\* The policy allows what a connection is for, in the way it is served.
Authorised(p, x) ==
    \A t \in x.target :
        /\ Allowed(p.rules, t.host, t.port, IF x.st = "plain" THEN "plain" ELSE "connect")
        /\ x.st \in TunnelStates => p.default = "tunnel"
        /\ x.st \in MitmStates => p.default = "intercept"

\* A connection is for one target, a request that is answered inside a tunnel names
\* it, and a poisoned tunnel answers none.
Pinned(x) ==
    /\ \A t, u \in x.target : t = u
    /\ x.req # {} /\ x.st \in InnerStates \cup {"plain"} => x.target # {}
    /\ x.poisoned => x.req = {}
    /\ x.st \in {"handshake", "decrypted"} => x.req = {}
    /\ x.st \in InnerStates => \A r \in x.req : \A t \in x.target : CheckHttpAuthority(t, r.host)

Secure(p, x) == Authorised(p, x) /\ Pinned(x)

FlowOK(f) ==
    /\ f.named = {f.target} /\ f.request \in AllRequests
    /\ f.headers = FilterProxyHeaders(f.request.headers)

SecureInv == \A c \in Clients : Secure(Policy, conn[c])

StartInv ==
    /\ phase = "starting" => conn = [c \in Clients |-> Idle]
    /\ \A p \in policy : PolicyOK(p)

FlowInv == \A i \in DOMAIN flows : FlowOK(flows[i])

AuthInv == SecureInv /\ StartInv /\ FlowInv

\* A connection that goes on for the same target, in the same way.
Continues(x, y) ==
    /\ y.target = x.target /\ y.req \in {x.req, {}} /\ y.poisoned = x.poisoned
    /\ y.st = "plain" <=> x.st = "plain"
    /\ y.st \in TunnelStates => x.st \in TunnelStates
    /\ y.st \in MitmStates => x.st \in MitmStates
    /\ y.st \in InnerStates /\ y.req # {} => x.st \in InnerStates
    /\ y.st \in {"handshake", "decrypted"} => y.req = {}

LEMMA ContinuesSecure == ASSUME NEW p, NEW x, NEW y, Secure(p, x), Continues(x, y) PROVE Secure(p, y)
<1>1. Authorised(p, y)
  <2>1. ASSUME NEW t \in y.target
        PROVE  /\ Allowed(p.rules, t.host, t.port, IF y.st = "plain" THEN "plain" ELSE "connect")
               /\ y.st \in TunnelStates => p.default = "tunnel"
               /\ y.st \in MitmStates => p.default = "intercept"
    <3>1. t \in x.target  BY DEF Continues
    <3>2. (IF y.st = "plain" THEN "plain" ELSE "connect") = (IF x.st = "plain" THEN "plain" ELSE "connect")
      BY DEF Continues
    <3> QED  BY <3>1, <3>2 DEF Continues, Secure, Authorised
  <2> QED  BY <2>1 DEF Authorised
<1>2. Pinned(y)
  <2>1. \A t, u \in y.target : t = u  BY DEF Continues, Secure, Pinned
  <2>2. y.req # {} => y.req = x.req  BY DEF Continues
  <2>3. y.req # {} /\ y.st \in InnerStates \cup {"plain"} => y.target # {}
    BY <2>2 DEF Continues, Secure, Pinned
  <2>4. y.poisoned => y.req = {}  BY <2>2 DEF Continues, Secure, Pinned
  <2>5. y.st \in {"handshake", "decrypted"} => y.req = {}  BY DEF Continues
  <2>6. y.st \in InnerStates => \A r \in y.req : \A t \in y.target : CheckHttpAuthority(t, r.host)
    BY <2>2 DEF Continues, Secure, Pinned
  <2> QED  BY <2>1, <2>3, <2>4, <2>5, <2>6 DEF Pinned
<1> QED  BY <1>1, <1>2 DEF Secure

LEMMA ClearedSecure == ASSUME NEW p, NEW y, y.target = {}, y.req = {} PROVE Secure(p, y)
BY DEF Secure, Authorised, Pinned

\* One connection changes and is as the policy wants it.
LEMMA OneSecure ==
  ASSUME SecureInv, policy' = policy, conn \in [Clients -> ConnRecord], NEW c \in Clients, NEW y,
         conn' = [conn EXCEPT ![c] = y], Secure(Policy, y)
  PROVE  SecureInv'
<1>1. Policy' = Policy  BY DEF Policy
<1>2. \A d \in Clients : conn'[d] = y \/ conn'[d] = conn[d]  OBVIOUS
<1>3. \A d \in Clients : Secure(Policy, conn'[d])  BY <1>2 DEF SecureInv
<1>4. \A d \in Clients : Secure(Policy, conn[d])'
  BY <1>1, <1>3 DEF Secure, Authorised, Pinned
<1> QED  BY <1>4 DEF SecureInv

LEMMA SecureContinues ==
  ASSUME SecureInv, policy' = policy, conn \in [Clients -> ConnRecord], NEW c \in Clients, NEW y,
         conn' = [conn EXCEPT ![c] = y], Continues(conn[c], y)
  PROVE  SecureInv'
<1>1. Secure(Policy, conn[c])  BY DEF SecureInv
<1>2. Secure(Policy, y)  BY <1>1, ContinuesSecure
<1> QED  BY <1>2, OneSecure

LEMMA IdleFields == Idle.target = {} /\ Idle.req = {} /\ Idle.st = "idle" /\ Idle.poisoned = FALSE
BY DEF Idle

LEMMA AnsweredSecure ==
  ASSUME SecureInv, policy' = policy, conn \in [Clients -> ConnRecord], NEW c \in Clients, NEW code, Answered(c, code)
  PROVE  SecureInv'
<1> DEFINE y == [Idle EXCEPT !.st = "closed", !.answer = code]
<1>1. conn' = [conn EXCEPT ![c] = y]  BY DEF Answered
<1>2. y.target = {} /\ y.req = {}
  BY IdleOK, IdleFields DEF ConnRecord
<1> HIDE DEF y
<1>3. Secure(Policy, y)  BY <1>2, ClearedSecure
<1> QED  BY <1>1, <1>3, OneSecure

LEMMA ClosedSecure ==
  ASSUME SecureInv, policy' = policy, conn \in [Clients -> ConnRecord], NEW c \in Clients,
         NEW st, NEW outcome, Closed(c, st, outcome),
         \/ st = "closed"
         \/ st = "detached" /\ conn[c].st = "relaying"
         \/ st = "orphan" /\ conn[c].st = "closing"
  PROVE  SecureInv'
<1> DEFINE x == conn[c]
           y1 == [Idle EXCEPT !.st = st, !.answer = 200, !.outcome = outcome]
           y2 == [x EXCEPT !.st = st, !.outcome = outcome, !.last = 0, !.quiet = 0, !.still = 0, !.age = 0]
           y == IF st = "closed" THEN y1 ELSE y2
<1>1. conn' = [conn EXCEPT ![c] = y]  BY DEF Closed
<1>2. y1.target = {} /\ y1.req = {}  BY IdleOK, IdleFields DEF ConnRecord
<1>3. x \in ConnRecord  OBVIOUS
<1>4. Secure(Policy, x)  BY DEF SecureInv
<1>a. \/ st = "closed"
      \/ st = "detached" /\ x.st = "relaying"
      \/ st = "orphan" /\ x.st = "closing"  OBVIOUS
<1> HIDE DEF x
<1>5. y2.target = x.target /\ y2.req = x.req /\ y2.poisoned = x.poisoned /\ y2.st = st  BY <1>3 DEF ConnRecord
<1> HIDE DEF y1, y2
<1>6. CASE st = "closed"
  <2>1. y = y1  BY <1>6
  <2>2. Secure(Policy, y)  BY <1>2, <2>1, ClearedSecure
  <2> HIDE DEF y
  <2> QED  BY <1>1, <2>2, OneSecure
<1>7. CASE st # "closed"
  <2>1. y = y2  BY <1>7
  <2> HIDE DEF y
  <2>2. Continues(x, y)
    BY <1>5, <1>7, <1>a, <2>1 DEF Continues, TunnelStates, MitmStates, InnerStates
  <2>3. Secure(Policy, y)  BY <1>4, <2>2, ContinuesSecure
  <2> QED  BY <1>1, <2>3, OneSecure
<1> QED  BY <1>6, <1>7

LEMMA StagesSecure ==
  ASSUME Core, SecureInv, policy' = policy, NEW c \in Clients,
         \/ \E w \in {"up", "down"}, n \in Chunks : Relay(c, w, n)
         \/ \E h \in {"eof", "error"} : RelayStops(c, h)
         \/ \E y \in {"joined", "long", "quiet"} : RelayEnds(c, y)
         \/ SignalDriver(c) \/ Cancel(c)
  PROVE  SecureInv'
<1> DEFINE x == conn[c]
           Same(y) == y.target = x.target /\ y.poisoned = x.poisoned
<1>1. conn \in [Clients -> ConnRecord] /\ x \in ConnRecord  BY OfConn
<1>2. SecureInv /\ Secure(Policy, x)  BY DEF SecureInv
<1>3. CASE \E w \in {"up", "down"}, n \in Chunks : Relay(c, w, n)
  <2>1. PICK w \in {"up", "down"}, n \in Chunks : Relay(c, w, n)  BY <1>3
  <2> DEFINE z == [x EXCEPT !.up = @ + IF w = "up" THEN n ELSE 0, !.down = @ + IF w = "down" THEN n ELSE 0, !.still = 0]
             z1 == [z EXCEPT !.limitHit = TRUE, !.end = "error"]
             z2 == [z EXCEPT !.sent = @ + n]
             y == IF OverLimit(z) THEN z1 ELSE z2
  <2>2. conn' = [conn EXCEPT ![c] = y] /\ x.st \in {"relaying", "detached"}  BY <1>1, <2>1 DEF Relay
  <2> HIDE DEF x
  <2>3. y.target = x.target /\ y.req = x.req /\ y.poisoned = x.poisoned /\ y.st = x.st
    <3>1. /\ z.target = x.target /\ z.req = x.req /\ z.poisoned = x.poisoned /\ z.st = x.st
          /\ DOMAIN z = DOMAIN x
      BY <1>1 DEF ConnRecord
    <3>2. DOMAIN x = {"st", "req", "target", "answer", "poisoned", "inner", "up", "down", "sent", "last", "quiet",
                      "still", "age", "limitHit", "end", "outcome", "cancelled"}
      BY <1>1 DEF ConnRecord
    <3> HIDE DEF z
    <3>3. z1.target = z.target /\ z1.req = z.req /\ z1.poisoned = z.poisoned /\ z1.st = z.st  BY <3>1, <3>2
    <3>4. z2.target = z.target /\ z2.req = z.req /\ z2.poisoned = z.poisoned /\ z2.st = z.st  BY <3>1, <3>2
    <3> HIDE DEF z1, z2
    <3> QED  BY <3>1, <3>3, <3>4
  <2> HIDE DEF y
  <2>4. Continues(x, y)  BY <2>2, <2>3 DEF Continues, TunnelStates, MitmStates, InnerStates
  <2> QED  BY <1>1, <2>2, <2>4, SecureContinues DEF x
<1>4. CASE \E h \in {"eof", "error"} : RelayStops(c, h)
  <2>1. PICK h \in {"eof", "error"} : RelayStops(c, h)  BY <1>4
  <2> DEFINE y == [x EXCEPT !.end = h]
  <2>2. conn' = [conn EXCEPT ![c] = y] /\ x.st \in {"relaying", "detached"}  BY <1>1, <2>1 DEF RelayStops
  <2> HIDE DEF x
  <2>3. y.target = x.target /\ y.req = x.req /\ y.poisoned = x.poisoned /\ y.st = x.st  BY <1>1 DEF ConnRecord
  <2> HIDE DEF y
  <2>4. Continues(x, y)  BY <2>2, <2>3 DEF Continues, TunnelStates, MitmStates, InnerStates
  <2> QED  BY <1>1, <2>2, <2>4, SecureContinues DEF x
<1>5. CASE \E why \in {"joined", "long", "quiet"} : RelayEnds(c, why)
  <2>1. PICK why \in {"joined", "long", "quiet"} : RelayEnds(c, why)  BY <1>5
  <2> DEFINE o == CASE why = "long"  -> "duration_limit"
                    [] why = "quiet" -> "idle_timeout"
                    [] why = "joined" /\ x.limitHit -> "byte_limit"
                    [] why = "joined" /\ ~x.limitHit /\ x.end = "error" -> "relay_error"
                    [] why = "joined" /\ ~x.limitHit /\ x.end = "eof" -> "completed"
             y == [x EXCEPT !.st = "ended", !.end = "stopped", !.last = 0, !.quiet = 0, !.age = 0, !.outcome = o]
  <2>2. /\ conn' = [conn EXCEPT ![c].st = "ended", ![c].end = "stopped", ![c].last = 0,
                                 ![c].quiet = 0, ![c].age = 0, ![c].outcome = o]
        /\ x.st = "relaying"
    BY <2>1 DEF RelayEnds
  <2> HIDE DEF o
  <2>3. conn' = [conn EXCEPT ![c] = y]  BY <1>1, <2>2
  <2> HIDE DEF x
  <2>4. y.target = x.target /\ y.req = x.req /\ y.poisoned = x.poisoned /\ y.st = "ended"  BY <1>1 DEF ConnRecord
  <2> HIDE DEF y
  <2>5. Continues(x, y)  BY <2>2, <2>4 DEF Continues, TunnelStates, MitmStates, InnerStates
  <2> QED  BY <1>1, <2>3, <2>5, SecureContinues DEF x
<1>6. CASE SignalDriver(c)
  <2> DEFINE q == IF x.st = "exchange" THEN x.req ELSE {}
             y == [x EXCEPT !.st = "closing", !.req = q]
  <2>1. conn' = [conn EXCEPT ![c] = y] /\ x.st \in {"decrypted", "exchange"}
    BY <1>1, <1>6 DEF SignalDriver, ConnRecord
  <2> HIDE DEF x, q
  <2>2. y.target = x.target /\ y.req = q /\ y.poisoned = x.poisoned /\ y.st = "closing"
    BY <1>1 DEF ConnRecord
  <2> HIDE DEF y
  <2>3. Continues(x, y)  BY <2>1, <2>2 DEF Continues, TunnelStates, MitmStates, InnerStates, q
  <2> QED  BY <1>1, <2>1, <2>3, SecureContinues DEF x
<1>7. CASE Cancel(c)
  <2> DEFINE y == [x EXCEPT !.cancelled = TRUE]
  <2>1. conn' = [conn EXCEPT ![c] = y]  BY <1>1, <1>7 DEF Cancel
  <2> HIDE DEF x
  <2>2. y.target = x.target /\ y.req = x.req /\ y.poisoned = x.poisoned /\ y.st = x.st
    BY <1>1 DEF ConnRecord
  <2>3. x.st \in {"handshake", "decrypted"} => x.req = {}  BY <1>2 DEF Secure, Pinned
  <2> HIDE DEF y
  <2>4. Continues(x, y)  BY <2>2, <2>3 DEF Continues
  <2> QED  BY <1>1, <2>1, <2>4, SecureContinues DEF x
<1> QED  BY <1>3, <1>4, <1>5, <1>6, <1>7

LEMMA EndingsSecure ==
  ASSUME Core, SecureInv, policy' = policy, NEW c \in Clients,
         \/ RelayNoticed(c) \/ RelayAborted(c)
         \/ \E ok \in BOOLEAN : DriverStopped(c, ok)
         \/ \E o \in {"completed", "relay_error"} : DriverEnds(c, o)
  PROVE  SecureInv'
<1>1. conn \in [Clients -> ConnRecord]  BY OfConn
<1>2. CASE RelayNoticed(c)
  <2>1. Closed(c, "closed", conn[c].outcome)  BY <1>2 DEF RelayNoticed
  <2> QED  BY <1>1, <2>1, ClosedSecure
<1>3. CASE RelayAborted(c)
  <2> DEFINE st == IF conn[c].end = "" THEN "detached" ELSE "closed"
  <2>1. Closed(c, st, "shutdown") /\ conn[c].st = "relaying"  BY <1>3 DEF RelayAborted
  <2>2. st = "closed" \/ (st = "detached" /\ conn[c].st = "relaying")  BY <2>1
  <2> HIDE DEF st
  <2> QED  BY <1>1, <2>1, <2>2, ClosedSecure
<1>4. CASE \E ok \in BOOLEAN : DriverStopped(c, ok)
  <2> DEFINE st == IF conn[c].req = {} THEN "closed" ELSE "orphan"
  <2>1. Closed(c, st, "shutdown") /\ conn[c].st = "closing"  BY <1>4 DEF DriverStopped
  <2>2. st = "closed" \/ (st = "orphan" /\ conn[c].st = "closing")  BY <2>1
  <2> HIDE DEF st
  <2> QED  BY <1>1, <2>1, <2>2, ClosedSecure
<1>5. CASE \E o \in {"completed", "relay_error"} : DriverEnds(c, o)
  <2>1. PICK o : Closed(c, "closed", o)  BY <1>5 DEF DriverEnds
  <2> QED  BY <1>1, <2>1, ClosedSecure
<1> QED  BY <1>2, <1>3, <1>4, <1>5

\* A tunnel that is accepted, or given up.
LEMMA OpeningsSecure ==
  ASSUME Core, SecureInv, policy' = policy, NEW c \in Clients,
         \/ \E o \in {"ok", "refused", "timeout", "gone"} : Dial(c, o)
         \/ \E o \in {"ok", "failed", "gone"} : Issue(c, o)
         \/ \E h \in Handshakes : AcceptTls(c, h)
  PROVE  SecureInv'
<1> DEFINE x == conn[c]
<1>1. conn \in [Clients -> ConnRecord] /\ x \in ConnRecord  BY OfConn
<1>2. Secure(Policy, x)  BY DEF SecureInv
<1>3. ASSUME NEW code, Released(c, code) PROVE SecureInv'
  <2>1. Answered(c, code)  BY <1>3 DEF Released
  <2> QED  BY <1>1, <2>1, AnsweredSecure
<1>4. ASSUME NEW st, \/ st = "relaying" /\ x.st = "dialing"
                     \/ st = "handshake" /\ x.st = "leaf",
             conn' = [conn EXCEPT ![c].st = st, ![c].answer = 200, ![c].req = {}]
      PROVE  SecureInv'
  <2> DEFINE y == [x EXCEPT !.st = st, !.answer = 200, !.req = {}]
  <2>1. conn' = [conn EXCEPT ![c] = y]  BY ZenonT(60), <1>1, <1>4
  <2>a. \/ st = "relaying" /\ x.st = "dialing"
        \/ st = "handshake" /\ x.st = "leaf"  BY <1>4
  <2> HIDE DEF x
  <2>2. y.target = x.target /\ y.req = {} /\ y.poisoned = x.poisoned /\ y.st = st  BY <1>1 DEF ConnRecord
  <2> HIDE DEF y
  <2>3. Continues(x, y)  BY <2>a, <2>2 DEF Continues, TunnelStates, MitmStates, InnerStates
  <2> QED  BY <1>1, <2>1, <2>3, SecureContinues DEF x
<1>5. CASE \E o \in {"ok", "refused", "timeout", "gone"} : Dial(c, o)
  <2>1. PICK o \in {"ok", "refused", "timeout", "gone"} : Dial(c, o)  BY <1>5
  <2>2. x.st = "dialing"  BY <2>1 DEF Dial
  <2>3. \/ Released(c, 504) \/ Released(c, 502) \/ Released(c, 500)
        \/ conn' = [conn EXCEPT ![c].st = "relaying", ![c].answer = 200, ![c].req = {}]
    BY <2>1 DEF Dial
  <2> HIDE DEF x
  <2> QED  BY ZenonT(60), <1>3, <1>4, <2>2, <2>3
<1>6. CASE \E o \in {"ok", "failed", "gone"} : Issue(c, o)
  <2>1. PICK o \in {"ok", "failed", "gone"} : Issue(c, o)  BY <1>6
  <2>2. x.st = "leaf"  BY <2>1 DEF Issue
  <2>3. \/ Released(c, 502) \/ Released(c, 500)
        \/ conn' = [conn EXCEPT ![c].st = "handshake", ![c].answer = 200, ![c].req = {}]
    BY <2>1 DEF Issue
  <2> HIDE DEF x
  <2> QED  BY <1>3, <1>4, <2>2, <2>3
<1>7. CASE \E h \in Handshakes : AcceptTls(c, h)
  <2>1. PICK h \in Handshakes : AcceptTls(c, h)  BY <1>7
  <2>2. x.st = "handshake"  BY <2>1 DEF AcceptTls
  <2>3. CASE Closed(c, "closed", "relay_error")  BY <1>1, <2>3, ClosedSecure
  <2>4. CASE conn' = [conn EXCEPT ![c].st = "decrypted"]
    <3> DEFINE y == [x EXCEPT !.st = "decrypted"]
    <3>1. conn' = [conn EXCEPT ![c] = y]  BY <1>1, <2>4
    <3> HIDE DEF x
    <3>2. y.target = x.target /\ y.req = x.req /\ y.poisoned = x.poisoned /\ y.st = "decrypted"  BY <1>1 DEF ConnRecord
    <3>3. x.req = {}  BY <1>2, <2>2 DEF Secure, Pinned
    <3> HIDE DEF y
    <3>4. Continues(x, y)  BY <2>2, <3>2, <3>3 DEF Continues, TunnelStates, MitmStates, InnerStates
    <3> QED  BY <1>1, <3>1, <3>4, SecureContinues DEF x
  <2> QED  BY <2>1, <2>3, <2>4 DEF AcceptTls
<1> QED  BY <1>5, <1>6, <1>7

\* A request inside a tunnel is answered when it names the tunnel's target and no
\* earlier one poisoned the tunnel.
LEMMA InnerCallSecure ==
  ASSUME Core, SecureInv, policy' = policy, NEW c \in Clients, NEW r \in InnerRequests, InnerCall(c, r)
  PROVE  SecureInv'
<1> DEFINE x == conn[c]
           x1 == [x EXCEPT !.inner = @ + 1]
           x2 == [x1 EXCEPT !.poisoned = TRUE]
           x3 == [x1 EXCEPT !.st = "exchange", !.req = {r}]
<1>1. conn \in [Clients -> ConnRecord] /\ x \in ConnRecord  BY OfConn
<1>2. Secure(Policy, x) /\ x.st = "decrypted"  BY DEF SecureInv, InnerCall
<1>3. PICK t \in x.target : \/ conn' = [conn EXCEPT ![c] = x1]
                            \/ conn' = [conn EXCEPT ![c] = x2]
                            \/ /\ conn' = [conn EXCEPT ![c] = x3]
                               /\ ~x1.poisoned /\ CheckHttpAuthority(t, r.host)
  BY DEF InnerCall, Serves
<1> HIDE DEF x
<1>4. /\ x1.target = x.target /\ x1.req = x.req /\ x1.poisoned = x.poisoned /\ x1.st = x.st
      /\ DOMAIN x1 = DOMAIN x
  BY <1>1 DEF ConnRecord
<1>5. DOMAIN x = {"st", "req", "target", "answer", "poisoned", "inner", "up", "down", "sent", "last", "quiet",
                  "still", "age", "limitHit", "end", "outcome", "cancelled"}
  BY <1>1 DEF ConnRecord
<1> HIDE DEF x1
<1>6. x2.target = x.target /\ x2.req = x.req /\ x2.st = x.st  BY <1>4, <1>5
<1>7. x3.target = x.target /\ x3.req = {r} /\ x3.poisoned = x.poisoned /\ x3.st = "exchange"  BY <1>4, <1>5
<1> HIDE DEF x2, x3
<1>8. x.req = {} /\ \A u \in x.target : u = t  BY <1>2, <1>3 DEF Secure, Pinned
<1>9. Authorised(Policy, x) /\ \A u, v \in x.target : u = v  BY <1>2 DEF Secure, Pinned
<1>10. ASSUME NEW y, y.target = x.target, y.req = {}, y.st = "decrypted" PROVE Secure(Policy, y)
  BY <1>2, <1>9, <1>10 DEF Secure, Authorised, Pinned, InnerStates
<1>11. CASE conn' = [conn EXCEPT ![c] = x1] \/ conn' = [conn EXCEPT ![c] = x2]
  <2>1. Secure(Policy, x1) /\ Secure(Policy, x2)  BY <1>2, <1>4, <1>6, <1>8, <1>10
  <2> QED  BY <1>1, <1>11, <2>1, OneSecure
<1>12. CASE conn' = [conn EXCEPT ![c] = x3] /\ ~x1.poisoned /\ CheckHttpAuthority(t, r.host)
  <2>1. Authorised(Policy, x3)
    BY <1>2, <1>7, <1>9 DEF Authorised, TunnelStates, MitmStates
  <2>2. Pinned(x3)  BY <1>3, <1>4, <1>7, <1>8, <1>9, <1>12 DEF Pinned
  <2>3. Secure(Policy, x3)  BY <2>1, <2>2 DEF Secure
  <2> QED  BY <1>1, <1>12, <2>3, OneSecure
<1> QED  BY <1>3, <1>11, <1>12

LEMMA InnerDoneSecure ==
  ASSUME Core, SecureInv, policy' = policy, NEW c \in Clients, NEW outcome \in Outcomes, InnerDone(c, outcome)
  PROVE  SecureInv'
<1> DEFINE x == conn[c]
           st == CASE x.st = "exchange" -> "decrypted" [] x.st = "closing" -> "closing" [] x.st = "orphan" -> "closed"
           y == [x EXCEPT !.req = {}, !.st = st]
<1>1. conn \in [Clients -> ConnRecord] /\ x \in ConnRecord  BY OfConn
<1>2. conn' = [conn EXCEPT ![c].req = {}, ![c].st = st]  BY DEF InnerDone
<1>3. conn' = [conn EXCEPT ![c] = y]
  <2> HIDE DEF st
  <2> QED  BY <1>1, <1>2
<1>4. x.st \in {"exchange", "closing", "orphan"}  BY DEF InnerDone
<1> HIDE DEF x
<1>5. st \in {"decrypted", "closing", "closed"}  BY <1>4
<1> HIDE DEF st
<1>6. y.target = x.target /\ y.req = {} /\ y.poisoned = x.poisoned /\ y.st = st  BY <1>1 DEF ConnRecord
<1> HIDE DEF y
<1>7. Continues(x, y)  BY <1>4, <1>5, <1>6 DEF Continues, TunnelStates, MitmStates, InnerStates
<1> QED  BY <1>1, <1>3, <1>7, SecureContinues DEF x

\* A connection is taken on for a target that the policy in force allows.
LEMMA AdmittedSecure ==
  ASSUME Core, SecureInv, policy' = policy, NEW c \in Clients, NEW r, NEW t, conn[c].st = "idle",
         NEW st \in {"plain", "dialing", "leaf"},
         conn' = [conn EXCEPT ![c].st = st, ![c].req = {r}, ![c].target = {t}],
         Allowed(Policy.rules, t.host, t.port, IF st = "plain" THEN "plain" ELSE "connect"),
         st = "dialing" => Policy.default = "tunnel", st = "leaf" => Policy.default = "intercept"
  PROVE  SecureInv'
<1> DEFINE x == conn[c]
           y == [x EXCEPT !.st = st, !.req = {r}, !.target = {t}]
<1>1. conn \in [Clients -> ConnRecord] /\ x \in ConnRecord /\ ConnOK(x)  BY OfConn
<1>2. conn' = [conn EXCEPT ![c] = y]  BY <1>1
<1>3. x = Idle  BY <1>1 DEF ConnOK, Staged
<1> HIDE DEF x
<1>4. y.st = st /\ y.req = {r} /\ y.target = {t} /\ y.poisoned = FALSE  BY <1>1, <1>3, IdleFields DEF ConnRecord
<1> HIDE DEF y
<1>5. Authorised(Policy, y)
  <2>1. ASSUME NEW u \in y.target
        PROVE  /\ Allowed(Policy.rules, u.host, u.port, IF y.st = "plain" THEN "plain" ELSE "connect")
               /\ y.st \in TunnelStates => Policy.default = "tunnel"
               /\ y.st \in MitmStates => Policy.default = "intercept"
    <3>1. u = t  BY <1>4
    <3>2. Allowed(Policy.rules, u.host, u.port, IF y.st = "plain" THEN "plain" ELSE "connect")  BY <1>4, <3>1
    <3> QED  BY <1>4, <3>2 DEF TunnelStates, MitmStates
  <2> QED  BY <2>1 DEF Authorised
<1>6. Pinned(y)  BY <1>4 DEF Pinned, InnerStates
<1>7. Secure(Policy, y)  BY <1>5, <1>6 DEF Secure
<1> QED  BY <1>1, <1>2, <1>7, OneSecure

LEMMA DispatchSecure ==
  ASSUME Core, PhaseInv, SecureInv, StartInv, policy' = policy, NEW c \in Clients, NEW r \in Requests, Dispatch(c, r)
  PROVE  SecureInv'
<1>1. phase = "running" /\ conn[c].st = "idle" /\ conn \in [Clients -> ConnRecord]  BY OfConn DEF Dispatch
<1>2. PolicyOK(Policy)
  <2>1. Policy \in policy  BY <1>1 DEF PhaseInv, Policy
  <2> QED  BY <2>1 DEF StartInv
<1>3. ASSUME NEW code, Reject(c, code) PROVE SecureInv'
  <2>1. Answered(c, code)  BY <1>3 DEF Reject
  <2> QED  BY <1>1, <2>1, AnsweredSecure
<1>4. ASSUME NEW t, NEW st \in {"dialing", "leaf"}, NEW names, TakePermit(c, r, t, st, names),
             Allowed(Policy.rules, t.host, t.port, "connect"),
             st = "dialing" => Policy.default = "tunnel", st = "leaf" => Policy.default = "intercept"
      PROVE  SecureInv'
  <2>1. CASE Reject(c, 503)  BY <1>3, <2>1
  <2>2. CASE conn' = [conn EXCEPT ![c].st = st, ![c].req = {r}, ![c].target = {t}]
    <3>1. st \in {"plain", "dialing", "leaf"} /\ (IF st = "plain" THEN "plain" ELSE "connect") = "connect"  BY <1>4
    <3> QED  BY <1>1, <1>4, <2>2, <3>1, AdmittedSecure
  <2> QED  BY <1>4, <2>1, <2>2 DEF TakePermit
<1>5. CASE HandleConnect(c, r)
  <2> DEFINE T == ResolveConnectTarget(r)
             t == CHOOSE x \in T : TRUE
             a == ResolveConnect(Policy, t.host, t.port)
  <2>1. CASE ~r.tunnel \/ T = {}
    <3>1. Reject(c, 400)  BY <1>5, <2>1 DEF HandleConnect
    <3> QED  BY <1>3, <3>1
  <2>2. CASE ~(~r.tunnel \/ T = {})
    <3>1. Policy.default \in ConnectActions  BY <1>2 DEF PolicyOK
    <3>2. a \in {"deny", "tunnel", "intercept"}  BY <3>1 DEF ResolveConnect, ConnectActions
    <3>3. /\ a = "deny" => Reject(c, 403)
          /\ a = "intercept" => HandleIntercept(c, r, t)
          /\ a = "tunnel" => HandleTunnel(c, r, t)
      BY <1>5, <2>2 DEF HandleConnect
    <3>4. a # "deny" => a = Policy.default /\ Evaluate(Policy, t.host, t.port, "connect") # "deny"
      BY DEF ResolveConnect
    <3> HIDE DEF t
    <3>5. a # "deny" => a = Policy.default /\ Allowed(Policy.rules, t.host, t.port, "connect")
      BY <1>2, <3>4, EvaluateExact DEF PolicyOK
    <3> HIDE DEF a
    <3>6. CASE a = "deny"  BY <1>3, <3>3, <3>6
    <3>7. CASE a = "intercept"
      <4>1. Reject(c, 500) \/ TakePermit(c, r, t, "leaf", {"accepted", "intercepted"})  BY <3>3, <3>7 DEF HandleIntercept
      <4> QED  BY <1>3, <1>4, <3>5, <3>7, <4>1
    <3>8. CASE a = "tunnel"
      <4>1. TakePermit(c, r, t, "dialing", {})  BY <3>3, <3>8 DEF HandleTunnel
      <4> QED  BY <1>4, <3>5, <3>8, <4>1
    <3> QED  BY <3>2, <3>6, <3>7, <3>8
  <2> QED  BY <2>1, <2>2
<1>6. CASE HandlePlain(c, r)
  <2> DEFINE T == ResolveAbsoluteTarget(r)
             t == CHOOSE x \in T : TRUE
  <2>1. \/ Reject(c, 400) \/ Reject(c, 403) \/ Answered(c, 400)
        \/ /\ conn' = [conn EXCEPT ![c].st = "plain", ![c].req = {r}, ![c].target = {t}]
           /\ AllowsPlain(Policy, t.host, t.port)
    BY <1>6 DEF HandlePlain
  <2> HIDE DEF t
  <2>2. CASE Reject(c, 400) \/ Reject(c, 403)  BY <1>3, <2>2
  <2>3. CASE Answered(c, 400)  BY <1>1, <2>3, AnsweredSecure
  <2>4. CASE /\ conn' = [conn EXCEPT ![c].st = "plain", ![c].req = {r}, ![c].target = {t}]
             /\ AllowsPlain(Policy, t.host, t.port)
    <3> DEFINE st == "plain"
    <3>1. Allowed(Policy.rules, t.host, t.port, "plain")
      BY <1>2, <2>4, EvaluateExact DEF PolicyOK, AllowsPlain
    <3>2. /\ st \in {"plain", "dialing", "leaf"} /\ (IF st = "plain" THEN "plain" ELSE "connect") = "plain"
          /\ st # "dialing" /\ st # "leaf" /\ conn' = [conn EXCEPT ![c].st = st, ![c].req = {r}, ![c].target = {t}]
      BY <2>4
    <3> HIDE DEF st
    <3> QED  BY <1>1, <3>1, <3>2, AdmittedSecure
  <2> QED  BY <2>1, <2>2, <2>3, <2>4
<1>7. CASE Answered(c, 403)  BY <1>1, <1>7, AnsweredSecure
<1> QED  BY <1>5, <1>6, <1>7 DEF Dispatch

LEMMA TickSecure == ASSUME Core, SecureInv, policy' = policy, Tick PROVE SecureInv'
<1>1. conn \in [Clients -> ConnRecord]  BY DEF Core, ConnInv
<1>2. conn' = [c \in Clients |-> IF conn[c].st # "relaying" THEN conn[c] ELSE Ticked(conn[c])]
  BY DEF Tick, Ticked
<1>3. Policy' = Policy  BY DEF Policy
<1>4. ASSUME NEW c \in Clients PROVE Secure(Policy, conn'[c])
  <2> DEFINE x == conn[c]
             z1 == [x EXCEPT !.last = x.up + x.down, !.quiet = 0]
             z2 == [x EXCEPT !.quiet = Min({@ + 1, IdleTimeout})]
             z == IF x.up + x.down # x.last THEN z1 ELSE z2
             y == [z EXCEPT !.age = Min({@ + 1, MaxDuration}), !.still = Min({@ + 1, IdleTimeout})]
  <2>1. Secure(Policy, x) /\ x \in ConnRecord  BY <1>1 DEF SecureInv
  <2>2. CASE x.st # "relaying"
    <3>1. conn'[c] = x  BY <1>2, <2>2
    <3> QED  BY <2>1, <3>1
  <2>3. CASE x.st = "relaying"
    <3>1. conn'[c] = Ticked(x)  BY <1>2, <2>3
    <3>2. Ticked(x) = y  BY DEF Ticked, Sample
    <3> HIDE DEF x
    <3>3. DOMAIN x = {"st", "req", "target", "answer", "poisoned", "inner", "up", "down", "sent", "last", "quiet",
                      "still", "age", "limitHit", "end", "outcome", "cancelled"}
      BY <2>1 DEF ConnRecord
    <3>4. /\ z1.target = x.target /\ z1.req = x.req /\ z1.poisoned = x.poisoned /\ z1.st = x.st /\ DOMAIN z1 = DOMAIN x
      BY <3>3
    <3>5. /\ z2.target = x.target /\ z2.req = x.req /\ z2.poisoned = x.poisoned /\ z2.st = x.st /\ DOMAIN z2 = DOMAIN x
      <4> DEFINE q == Min({x.quiet + 1, IdleTimeout})
      <4>1. z2 = [x EXCEPT !.quiet = q]  BY <3>3
      <4> HIDE DEF z2, q
      <4> QED  BY <3>3, <4>1
    <3> HIDE DEF z1, z2
    <3>6. /\ z.target = x.target /\ z.req = x.req /\ z.poisoned = x.poisoned /\ z.st = x.st /\ DOMAIN z = DOMAIN x
      BY <3>4, <3>5
    <3> HIDE DEF z
    <3>7. y.target = x.target /\ y.req = x.req /\ y.poisoned = x.poisoned /\ y.st = x.st
      <4> DEFINE q == Min({z.age + 1, MaxDuration})
                 w == Min({z.still + 1, IdleTimeout})
      <4>1. y = [z EXCEPT !.age = q, !.still = w]  BY <3>3, <3>6
      <4> HIDE DEF y, q, w
      <4> QED  BY <3>3, <3>6, <4>1
    <3> HIDE DEF y
    <3>8. Continues(x, y)  BY <2>3, <3>7 DEF Continues, TunnelStates, MitmStates, InnerStates
    <3>9. Secure(Policy, y)  BY <2>1, <3>8, ContinuesSecure
    <3> QED  BY <3>1, <3>2, <3>9
  <2> QED  BY <2>2, <2>3
<1>5. \A c \in Clients : Secure(Policy, conn[c])'  BY <1>3, <1>4 DEF Secure, Authorised, Pinned
<1> QED  BY <1>5 DEF SecureInv

-----------------------------------------------------------------------------
(* What is recorded.                                                        *)

\* An authority has one reading.
LEMMA NormalizeOne ==
  ASSUME NEW a, NEW d, \A p, q \in a.port : p = q, NEW x \in NormalizeAuthority(a, d), NEW y \in NormalizeAuthority(a, d)
  PROVE  x = y
<1> DEFINE t == a.host
           ports == IF a.port = {} THEN {d} ELSE UNION {ParsePort(p) : p \in a.port}
           hosts == IF t.marks \cap {"empty", "@", "/", "["} # {} THEN {}
                    ELSE IF "[]" \in t.marks
                    THEN IF t.kind = "v6" /\ "suffix" \notin t.marks
                         THEN {Normalized("v6", t.name)} ELSE {}
                    ELSE IF t.marks \cap {"space", ":"} # {} \/ t.kind = "v6" THEN {}
                    ELSE NormalizeHost(t)
<1>1. NormalizeAuthority(a, d) = {[host |-> h, port |-> p] : h \in hosts, p \in ports}  BY DEF NormalizeAuthority
<1>2. \A p, q \in ports : p = q
  <2>1. \A p : \A q \in ParsePort(p) : q = p  BY DEF ParsePort
  <2>2. CASE a.port = {}  BY <2>2
  <2>3. CASE a.port # {}
    <3>1. \A q \in ports : \E p \in a.port : q \in ParsePort(p)  BY <2>3
    <3> HIDE DEF ports
    <3> QED  BY <2>1, <3>1
  <2> QED  BY SMTT(60), <2>2, <2>3
<1>3. \A g, h \in NormalizeHost(t) : g = h  BY DEF NormalizeHost, NormalizeDns
<1>4. \A g, h \in hosts : g = h  BY <1>3
<1> HIDE DEF hosts, ports
<1>5. PICK h1 \in hosts, p1 \in ports : x = [host |-> h1, port |-> p1]  BY <1>1
<1>6. PICK h2 \in hosts, p2 \in ports : y = [host |-> h2, port |-> p2]  BY <1>1
<1> QED  BY <1>2, <1>4, <1>5, <1>6

\* A step appends at most one flow, of a connection that is not poisoned.
Records == \E c \in Clients : \E f : FlowOK(f) /\ f.client = c /\ ~conn[c].poisoned /\ flows' = Append(flows, f)

LEMMA RecordedFlow ==
  ASSUME Core, SecureInv, NEW c \in Clients, NEW r \in conn[c].req, NEW named, NEW outcome,
         Recorded(c, r, named, outcome), NEW t, conn[c].target = {t}, named = {t}
  PROVE  flows' = flows \/ Records
<1> DEFINE f == [client |-> c, via |-> conn[c].st, target |-> CHOOSE u \in conn[c].target : TRUE,
                 named |-> named, request |-> r, headers |-> FilterProxyHeaders(r.headers),
                 logged |-> outcome # "unlogged"]
<1>1. flows' = flows \/ flows' = Append(flows, f)  BY DEF Recorded
<1>2. (CHOOSE u \in conn[c].target : TRUE) = t  OBVIOUS
<1>3. f.client = c /\ f.target = t /\ f.named = {t} /\ f.request = r /\ f.headers = FilterProxyHeaders(r.headers)
  BY <1>2
<1>4. conn[c] \in ConnRecord  BY OfConn
<1>5. r \in AllRequests  BY <1>4 DEF ConnRecord
<1> HIDE DEF f
<1>6. FlowOK(f)  BY <1>3, <1>5 DEF FlowOK
<1>7. ~conn[c].poisoned
  <2>1. Secure(Policy, conn[c])  BY DEF SecureInv
  <2> QED  BY <2>1 DEF Secure, Pinned
<1> QED  BY <1>1, <1>3, <1>6, <1>7 DEF Records

LEMMA PlainDoneRecords ==
  ASSUME Core, SecureInv, NEW c \in Clients, NEW outcome, PlainDone(c, outcome) PROVE flows' = flows \/ Records
<1>1. PICK r \in conn[c].req : Recorded(c, r, conn[c].target, outcome)  BY DEF PlainDone
<1>2. Secure(Policy, conn[c]) /\ conn[c].st = "plain"  BY DEF SecureInv, PlainDone
<1>3. PICK t : conn[c].target = {t}
  <2>1. conn[c].target # {} /\ \A t, u \in conn[c].target : t = u  BY <1>1, <1>2 DEF Secure, Pinned
  <2> QED  BY <2>1
<1> QED  BY <1>1, <1>3, RecordedFlow

LEMMA InnerDoneRecords ==
  ASSUME Core, SecureInv, NEW c \in Clients, NEW outcome, InnerDone(c, outcome) PROVE flows' = flows \/ Records
<1> DEFINE Named(r) == NamedOrigins(r, conn[c].target)
<1>1. PICK r \in conn[c].req : Recorded(c, r, Named(r), outcome)  BY DEF InnerDone
<1>2. Secure(Policy, conn[c]) /\ conn[c].st \in InnerStates  BY DEF SecureInv, InnerDone, InnerStates
<1>3. PICK t : conn[c].target = {t}
  <2>1. conn[c].target # {} /\ \A t, u \in conn[c].target : t = u  BY <1>1, <1>2 DEF Secure, Pinned
  <2> QED  BY <2>1
<1>4. PICK a \in r.host : t \in NormalizeAuthority(a, t.port)
  <2>1. CheckHttpAuthority(t, r.host)  BY <1>1, <1>2, <1>3 DEF Secure, Pinned
  <2> QED  BY <2>1 DEF CheckHttpAuthority
<1>5. r \in Requests \cup InnerRequests
  <2>1. conn[c] \in ConnRecord  BY OfConn
  <2> QED  BY <2>1 DEF ConnRecord, AllRequests
<1>6. (\A b \in r.host : b = a) /\ \A p, q \in a.port : p = q  BY <1>4, <1>5, RequestShape
<1>7. Named(r) = {t}
  <2>1. \A x \in NormalizeAuthority(a, t.port) : x = t  BY <1>4, <1>6, NormalizeOne
  <2>2. ASSUME NEW x \in Named(r) PROVE x = t
    <3>1. PICK b \in r.host, u \in conn[c].target : x \in NormalizeAuthority(b, u.port)
      BY DEF NamedOrigins
    <3>2. b = a /\ u = t  BY <1>3, <1>6, <3>1
    <3> QED  BY <2>1, <3>1, <3>2
  <2>3. t \in Named(r)  BY <1>3, <1>4 DEF NamedOrigins
  <2> QED  BY <2>2, <2>3
<1> HIDE DEF Named
<1> QED  BY <1>1, <1>3, <1>7, RecordedFlow

LEMMA FlowStep == ASSUME Core, SecureInv, [Next]_vars PROVE flows' = flows \/ Records
<1>1. ASSUME NEW c \in Clients, NEW r, Dispatch(c, r) PROVE flows' = flows  BY <1>1 DEF Dispatch
<1>2. ASSUME NEW c \in Clients, NEW o, Dial(c, o) PROVE flows' = flows  BY <1>2 DEF Dial
<1>3. ASSUME NEW c \in Clients, NEW w, NEW n, Relay(c, w, n) PROVE flows' = flows  BY <1>3 DEF Relay
<1>4. ASSUME NEW c \in Clients, NEW h, RelayStops(c, h) PROVE flows' = flows  BY <1>4 DEF RelayStops
<1>5. ASSUME NEW c \in Clients, NEW y, RelayEnds(c, y) PROVE flows' = flows  BY <1>5 DEF RelayEnds
<1>6. ASSUME NEW c \in Clients, RelayNoticed(c) \/ RelayAborted(c) PROVE flows' = flows
  BY <1>6 DEF RelayNoticed, RelayAborted, Closed
<1>7. ASSUME NEW c \in Clients, NEW ok, Issue(c, ok) \/ DriverStopped(c, ok) PROVE flows' = flows
  BY <1>7 DEF Issue, DriverStopped, Closed
<1>8. ASSUME NEW c \in Clients, NEW h, AcceptTls(c, h) PROVE flows' = flows  BY <1>8 DEF AcceptTls
<1>9. ASSUME NEW c \in Clients, NEW r, InnerCall(c, r) PROVE flows' = flows  BY <1>9 DEF InnerCall
<1>10. ASSUME NEW c \in Clients, NEW o, DriverEnds(c, o) PROVE flows' = flows  BY <1>10 DEF DriverEnds, Closed
<1>11. ASSUME NEW c \in Clients, SignalDriver(c) \/ Cancel(c) PROVE flows' = flows  BY SMTT(60), <1>11 DEF SignalDriver, Cancel
<1>12. Start \/ Tick \/ Shutdown \/ Finish => flows' = flows  BY DEF Start, Tick, Shutdown, Finish
<1>13. UNCHANGED vars => flows' = flows  BY DEF vars
<1> QED
  BY <1>1, <1>2, <1>3, <1>4, <1>5, <1>6, <1>7, <1>8, <1>9, <1>10, <1>11, <1>12, <1>13,
     PlainDoneRecords, InnerDoneRecords DEF Next

LEMMA FlowsKeep == ASSUME Core, FlowInv, flows' = flows \/ Records PROVE FlowInv'
<1>1. CASE flows' = flows  BY <1>1 DEF FlowInv, FlowOK
<1>2. CASE Records
  <2>1. PICK f : FlowOK(f) /\ flows' = Append(flows, f)  BY <1>2 DEF Records
  <2>2. PICK T : flows \in Seq(T)  BY DEF Core, Listed
  <2>3. \A i \in DOMAIN flows' : flows'[i] = f \/ (i \in DOMAIN flows /\ flows'[i] = flows[i])
    BY <2>1, <2>2
  <2>4. \A i \in DOMAIN flows' : FlowOK(flows'[i])  BY <2>1, <2>3 DEF FlowInv
  <2> QED  BY <2>4 DEF FlowInv, FlowOK
<1> QED  BY <1>1, <1>2

-----------------------------------------------------------------------------
(* The invariant.                                                           *)

LEMMA AuthInit == ASSUME Init PROVE AuthInv
<1>1. SecureInv
  <2>1. Secure(Policy, Idle)  BY IdleFields, ClearedSecure
  <2> QED  BY <2>1 DEF Init, SecureInv
<1>2. StartInv  BY DEF StartInv, Init
<1>3. FlowInv
  <2>1. flows = << >> /\ DOMAIN << >> = {}  BY DEF Init
  <2> QED  BY <2>1 DEF FlowInv
<1> QED  BY <1>1, <1>2, <1>3 DEF AuthInv

\* Before the listener runs no connection does anything.
LEMMA StartingStill ==
  ASSUME StartInv, phase = "starting", [Next]_vars PROVE Start \/ UNCHANGED vars
<1>1. ASSUME NEW c \in Clients PROVE conn[c].st = "idle"
  <2>1. conn[c] = Idle  BY DEF StartInv
  <2> QED  BY <2>1, IdleFields
<1>2. ASSUME NEW c \in Clients, NEW r, Dispatch(c, r) PROVE FALSE  BY <1>2 DEF Dispatch
<1>3. ASSUME NEW c \in Clients, NEW o, PlainDone(c, o) \/ InnerDone(c, o) PROVE FALSE
  BY <1>1, <1>3 DEF PlainDone, InnerDone
<1>4. ASSUME NEW c \in Clients, NEW o, Dial(c, o) PROVE FALSE  BY <1>1, <1>4 DEF Dial
<1>5. ASSUME NEW c \in Clients, NEW w, NEW n, Relay(c, w, n) PROVE FALSE  BY <1>1, <1>5 DEF Relay
<1>6. ASSUME NEW c \in Clients, NEW h, RelayStops(c, h) PROVE FALSE  BY <1>1, <1>6 DEF RelayStops
<1>7. ASSUME NEW c \in Clients, NEW y, RelayEnds(c, y) PROVE FALSE  BY <1>1, <1>7 DEF RelayEnds
<1>8. ASSUME NEW c \in Clients, RelayNoticed(c) \/ RelayAborted(c) PROVE FALSE
  BY <1>1, <1>8 DEF RelayNoticed, RelayAborted
<1>9. ASSUME NEW c \in Clients, NEW ok, Issue(c, ok) \/ DriverStopped(c, ok) PROVE FALSE
  BY <1>1, <1>9 DEF Issue, DriverStopped
<1>10. ASSUME NEW c \in Clients, NEW h, AcceptTls(c, h) PROVE FALSE  BY <1>1, <1>10 DEF AcceptTls
<1>11. ASSUME NEW c \in Clients, NEW r, InnerCall(c, r) PROVE FALSE  BY <1>1, <1>11 DEF InnerCall
<1>12. ASSUME NEW c \in Clients, NEW o, DriverEnds(c, o) PROVE FALSE  BY <1>1, <1>12 DEF DriverEnds
<1>13. ASSUME NEW c \in Clients, SignalDriver(c) \/ Cancel(c) PROVE FALSE
  BY <1>1, <1>13 DEF SignalDriver, Cancel, Open
<1>14. ~Tick /\ ~Shutdown /\ ~Finish  BY <1>1 DEF Tick, Shutdown, Finish
<1> QED
  BY <1>2, <1>3, <1>4, <1>5, <1>6, <1>7, <1>8, <1>9, <1>10, <1>11, <1>12, <1>13, <1>14 DEF Next

LEMMA StartSecure == ASSUME PhaseInv, AuthInv, Start PROVE SecureInv' /\ StartInv'
<1>1. conn = [c \in Clients |-> Idle] /\ conn' = conn  BY DEF Start, AuthInv, StartInv
<1>2. SecureInv'
  <2>1. \A p : Secure(p, Idle)  BY IdleFields, ClearedSecure
  <2>2. \A c \in Clients : conn'[c] = Idle  BY <1>1
  <2>3. \A c \in Clients : Secure(Policy, conn[c])'
    BY SMTT(60), <2>1, <2>2 DEF Secure, Authorised, Pinned
  <2> QED  BY <2>3 DEF SecureInv
<1>3. policy' \subseteq LoadRecordPolicy(setup) /\ phase' # "starting"  BY DEF Start
<1>4. \A p \in policy' : PolicyOK(p)  BY <1>3, LoadedOK DEF PhaseInv
<1> QED  BY SMTT(60), <1>2, <1>3, <1>4 DEF StartInv

\* Nothing but Start touches the policy, and nothing leads back to "starting".
LEMMA PolicyKept == ASSUME [Next]_vars, ~Start PROVE policy' = policy /\ (phase' = "starting" => phase = "starting")
<1>1. UNCHANGED vars => policy' = policy /\ phase' = phase  BY DEF vars
<1>2. ASSUME NEW c \in Clients, NEW r, Dispatch(c, r) PROVE policy' = policy /\ phase' = phase  BY <1>2 DEF Dispatch
<1>3. ASSUME NEW c \in Clients, NEW o, PlainDone(c, o) \/ InnerDone(c, o) PROVE policy' = policy /\ phase' = phase
  BY <1>3 DEF PlainDone, InnerDone
<1>4. ASSUME NEW c \in Clients, NEW o, Dial(c, o) PROVE policy' = policy /\ phase' = phase  BY <1>4 DEF Dial
<1>5. ASSUME NEW c \in Clients, NEW w, NEW n, Relay(c, w, n) PROVE policy' = policy /\ phase' = phase  BY <1>5 DEF Relay
<1>6. ASSUME NEW c \in Clients, NEW h, RelayStops(c, h) PROVE policy' = policy /\ phase' = phase  BY <1>6 DEF RelayStops
<1>7. ASSUME NEW c \in Clients, NEW y, RelayEnds(c, y) PROVE policy' = policy /\ phase' = phase  BY <1>7 DEF RelayEnds
<1>8. ASSUME NEW c \in Clients, RelayNoticed(c) \/ RelayAborted(c) PROVE policy' = policy /\ phase' = phase
  BY <1>8 DEF RelayNoticed, RelayAborted, Closed
<1>9. ASSUME NEW c \in Clients, NEW ok, Issue(c, ok) \/ DriverStopped(c, ok) PROVE policy' = policy /\ phase' = phase
  BY <1>9 DEF Issue, DriverStopped, Closed
<1>10. ASSUME NEW c \in Clients, NEW h, AcceptTls(c, h) PROVE policy' = policy /\ phase' = phase  BY <1>10 DEF AcceptTls
<1>11. ASSUME NEW c \in Clients, NEW r, InnerCall(c, r) PROVE policy' = policy /\ phase' = phase  BY <1>11 DEF InnerCall
<1>12. ASSUME NEW c \in Clients, NEW o, DriverEnds(c, o) PROVE policy' = policy /\ phase' = phase
  BY <1>12 DEF DriverEnds, Closed
<1>13. ASSUME NEW c \in Clients, SignalDriver(c) \/ Cancel(c) PROVE policy' = policy /\ phase' = phase
  BY <1>13 DEF SignalDriver, Cancel
<1>14. Tick => policy' = policy /\ phase' = phase  BY DEF Tick
<1>15. Shutdown \/ Finish => policy' = policy /\ phase' # "starting"  BY DEF Shutdown, Finish
<1> QED
  BY <1>1, <1>2, <1>3, <1>4, <1>5, <1>6, <1>7, <1>8, <1>9, <1>10, <1>11, <1>12, <1>13, <1>14, <1>15 DEF Next

LEMMA AuthStep == ASSUME TunnelInv, AuthInv, [Next]_vars PROVE AuthInv'
<1>1. Core /\ PhaseInv /\ SecureInv /\ StartInv /\ FlowInv  BY DEF TunnelInv, AuthInv
<1>2. FlowInv'  BY <1>1, FlowStep, FlowsKeep
<1>3. CASE Start  BY <1>1, <1>2, <1>3, StartSecure DEF AuthInv
<1>4. CASE ~Start
  <2>1. policy' = policy /\ (phase' = "starting" => phase = "starting")  BY <1>4, PolicyKept
  <2>2. StartInv'
    <3>1. CASE phase = "starting"
      <4>1. UNCHANGED vars  BY <1>1, <1>4, <3>1, StartingStill
      <4> QED  BY <1>1, <4>1 DEF vars, StartInv
    <3>2. CASE phase # "starting"  BY <1>1, <2>1, <3>2 DEF StartInv
    <3> QED  BY <3>1, <3>2
  <2>3. ASSUME conn' = conn PROVE SecureInv'
    <3>1. Policy' = Policy  BY <2>1 DEF Policy
    <3> QED  BY <1>1, <2>3, <3>1 DEF SecureInv, Secure, Authorised, Pinned
  <2>4. UNCHANGED vars \/ Shutdown \/ Finish => SecureInv'  BY <2>3 DEF vars, Shutdown, Finish
  <2>5. Tick => SecureInv'  BY <1>1, <2>1, TickSecure
  <2>6. ASSUME NEW c \in Clients, NEW o \in Outcomes, PlainDone(c, o) PROVE SecureInv'
    <3>1. PICK code : Answered(c, code)  BY <2>6 DEF PlainDone
    <3>2. conn \in [Clients -> ConnRecord]  BY <1>1, OfConn
    <3> QED  BY <1>1, <2>1, <3>1, <3>2, AnsweredSecure
  <2>7. ASSUME NEW c \in Clients,
             \/ \E r \in Requests : Dispatch(c, r)
             \/ \E o \in Outcomes : PlainDone(c, o) \/ InnerDone(c, o)
             \/ \E o \in {"ok", "refused", "timeout", "gone"} : Dial(c, o)
             \/ \E w \in {"up", "down"}, n \in Chunks : Relay(c, w, n)
             \/ \E h \in {"eof", "error"} : RelayStops(c, h)
             \/ \E y \in {"joined", "long", "quiet"} : RelayEnds(c, y)
             \/ RelayNoticed(c) \/ RelayAborted(c)
             \/ \E o \in {"ok", "failed", "gone"} : Issue(c, o)
             \/ \E graceful \in BOOLEAN : DriverStopped(c, graceful)
             \/ \E h \in Handshakes : AcceptTls(c, h)
             \/ \E r \in InnerRequests : InnerCall(c, r)
             \/ \E o \in {"completed", "relay_error"} : DriverEnds(c, o)
             \/ SignalDriver(c) \/ Cancel(c)
        PROVE  SecureInv'
    <3>1. CASE \E r \in Requests : Dispatch(c, r)  BY <1>1, <2>1, <3>1, DispatchSecure
    <3>2. CASE \E o \in Outcomes : PlainDone(c, o) \/ InnerDone(c, o)  BY <1>1, <2>1, <2>6, <3>2, InnerDoneSecure
    <3>3. CASE \/ \E o \in {"ok", "refused", "timeout", "gone"} : Dial(c, o)
               \/ \E o \in {"ok", "failed", "gone"} : Issue(c, o)
               \/ \E h \in Handshakes : AcceptTls(c, h)
      BY <1>1, <2>1, <3>3, OpeningsSecure
    <3>4. CASE \/ \E w \in {"up", "down"}, n \in Chunks : Relay(c, w, n)
               \/ \E h \in {"eof", "error"} : RelayStops(c, h)
               \/ \E y \in {"joined", "long", "quiet"} : RelayEnds(c, y)
               \/ SignalDriver(c) \/ Cancel(c)
      BY <1>1, <2>1, <3>4, StagesSecure
    <3>5. CASE \/ RelayNoticed(c) \/ RelayAborted(c)
               \/ \E ok \in BOOLEAN : DriverStopped(c, ok)
               \/ \E o \in {"completed", "relay_error"} : DriverEnds(c, o)
      BY <1>1, <2>1, <3>5, EndingsSecure
    <3>6. CASE \E r \in InnerRequests : InnerCall(c, r)  BY <1>1, <2>1, <3>6, InnerCallSecure
    <3> QED  BY <2>7, <3>1, <3>2, <3>3, <3>4, <3>5, <3>6
  <2>8. SecureInv'  BY <1>4, <2>4, <2>5, <2>7 DEF Next
  <2> QED  BY <1>2, <2>2, <2>8 DEF AuthInv
<1> QED  BY <1>3, <1>4

\* The proxy reaches only what its policy allows: a plain request, a tunnel and a leaf
\* are for targets that the most specific rules all allow, in the configured way; a
\* policy file and the policy made of it agree on every CONNECT; a flow inside a
\* tunnel is for the tunnel's own target; and no hop-by-hop header goes upstream or
\* into the recording (evaluate, to_target_policy, handle_plain, handle_connect,
\* check_http_authority_coherence, filter_proxy_headers).
THEOREM TargetsStayAuthorised == Spec => []TargetsAuthorised
<1> DEFINE I == TunnelInv /\ AuthInv
<1>1. Init => I  BY TunnelInit, AuthInit
<1>2. I /\ [Next]_vars => I'  BY TunnelStep, AuthStep
<1>3. I => TargetsAuthorised
  <2> SUFFICES ASSUME TunnelInv, AuthInv PROVE TargetsAuthorised  OBVIOUS
  <2>1. PolicyHonoured
    <3>1. ASSUME NEW c \in Clients, NEW t \in conn[c].target
          PROVE  /\ Allowed(Policy.rules, t.host, t.port, IF conn[c].st = "plain" THEN "plain" ELSE "connect")
                 /\ conn[c].st \in TunnelStates => Policy.default = "tunnel"
                 /\ conn[c].st \in MitmStates => Policy.default = "intercept"
      BY DEF AuthInv, SecureInv, Secure, Authorised
    <3> QED  BY <3>1 DEF PolicyHonoured, TunnelStates, MitmStates
  <2>2. ConversionAgrees
    <3>1. setup \in Setups  BY DEF TunnelInv, PhaseInv
    <3>2. ASSUME NEW f \in ParseJson(setup.document), NEW p \in ToTargetPolicy(f), NEW t
          PROVE  {ResolveConnect(p, t.host, t.port)} = FileConnect(f, t.host, t.port)
      <4>1. FileOK(f)  BY <3>1, DocumentParsed
      <4> QED  BY <4>1, ConversionExact
    <3> QED  BY <3>2 DEF ConversionAgrees
  <2>3. OriginPinned  BY DEF OriginPinned, AuthInv, FlowInv, FlowOK
  <2>4. HopByHopStripped
    <3>1. ASSUME NEW i \in DOMAIN flows
          PROVE  LET sent == flows[i].request.headers
                     hop  == ProxyOnly \cup {"connection", "upgrade", "te"}
                             \cup {n \in {h.name : h \in Range(sent)} :
                                      \E h \in Range(sent) : h.name = "connection" /\ n \in Range(h.tokens)}
                 IN Retain(flows[i].headers, {h \in Range(flows[i].headers) : h.name # "te"})
                       = Retain(sent, {h \in Range(sent) : h.name \notin hop})
      <4> DEFINE s == flows[i].request.headers
                 g == flows[i].headers
      <4>1. FlowOK(flows[i])  BY DEF AuthInv, FlowInv
      <4>2. s \in Seq(Range(s)) /\ g = FilterProxyHeaders(s)
        BY <4>1, RequestShape DEF FlowOK, AllRequests
      <4> HIDE DEF s, g
      <4>3. LET hop == ProxyOnly \cup {"connection", "upgrade", "te"}
                       \cup {n \in {h.name : h \in Range(s)} :
                                \E h \in Range(s) : h.name = "connection" /\ n \in Range(h.tokens)}
            IN Retain(g, {h \in Range(g) : h.name # "te"}) = Retain(s, {h \in Range(s) : h.name \notin hop})
        BY <4>2, HeadersStripped
      <4> QED  BY <4>3 DEF s, g
    <3> QED  BY <3>1 DEF HopByHopStripped
  <2> QED  BY <2>1, <2>2, <2>3, <2>4 DEF TargetsAuthorised
<1> QED  BY <1>1, <1>2, <1>3, PTL DEF Spec

\* A tunnel whose client named another authority records nothing more: what is
\* recorded stays, and only connections that are not poisoned add to it
\* (MitmService::call, `poisoned').
THEOREM PoisonedTunnelsSilent == Spec => PoisonedSilent
<1> DEFINE I == TunnelInv /\ AuthInv
           Grows == /\ IsPrefix(flows, flows')
                    /\ \A i \in DOMAIN flows' \ DOMAIN flows : ~conn[flows'[i].client].poisoned
<1>1. Init => I  BY TunnelInit, AuthInit
<1>2. I /\ [Next]_vars => I'  BY TunnelStep, AuthStep
<1>3. I /\ [Next]_vars => [Grows]_vars
  <2> SUFFICES ASSUME TunnelInv, AuthInv, [Next]_vars PROVE Grows  OBVIOUS
  <2>1. Core /\ SecureInv  BY DEF TunnelInv, AuthInv
  <2>2. PICK T : flows \in Seq(T)  BY <2>1 DEF Core, Listed
  <2>3. flows' = flows \/ Records  BY <2>1, FlowStep
  <2>4. CASE flows' = flows
    <3>1. IsPrefix(flows, flows')  BY <2>2, <2>4 DEF IsPrefix
    <3> QED  BY <2>4, <3>1
  <2>5. CASE Records
    <3> DEFINE Adds(c, f) == f.client = c /\ ~conn[c].poisoned /\ flows' = Append(flows, f)
    <3>0. PICK c \in Clients : \E f : Adds(c, f)  BY <2>5 DEF Records
    <3>1. PICK f : Adds(c, f)  BY <3>0
    <3>2. flows \in Seq(T \cup {f})  BY <2>2
    <3>3. /\ Len(flows) \in Nat /\ DOMAIN flows = 1..Len(flows) /\ Len(flows') = Len(flows) + 1
          /\ DOMAIN flows' = 1..(Len(flows) + 1) /\ flows'[Len(flows) + 1] = f
          /\ \A i \in 1..Len(flows) : flows'[i] = flows[i]
      BY <3>1, <3>2
    <3>4. \A i \in DOMAIN flows' \ DOMAIN flows : flows'[i] = f
      <4>1. \A i \in DOMAIN flows' \ DOMAIN flows : i = Len(flows) + 1  BY <3>3
      <4> QED  BY <3>3, <4>1
    <3>5. IsPrefix(flows, flows')  BY <3>1, <3>2, <3>3 DEF IsPrefix
    <3> QED  BY <3>1, <3>4, <3>5
  <2> QED  BY <2>3, <2>4, <2>5
<1>4. [Grows]_vars <=> [/\ IsPrefix(flows, flows')
                        /\ \A i \in DOMAIN flows' \ DOMAIN flows : ~conn[flows'[i].client].poisoned]_vars
  OBVIOUS
<1> QED  BY <1>1, <1>2, <1>3, PTL DEF Spec, PoisonedSilent
=============================================================================
