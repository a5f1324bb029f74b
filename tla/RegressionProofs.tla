-------------------------- MODULE RegressionProofs --------------------------
(***************************************************************************)
(* Proofs about Regression, for any fixtures, policies, bounds and answers  *)
(* of the candidate.                                                        *)
(***************************************************************************)
EXTENDS Regression, FiniteSetTheorems, SequenceTheorems, WellFoundedInduction, TLAPS

-----------------------------------------------------------------------------
(* Loops.  A loop over the positions of a list is a function on 0..L whose  *)
(* value at n is one step from its value at n - 1.                          *)

(* Induction over the naturals, in terms of a set.                          *)
LEMMA LoopInduction ==
  ASSUME NEW S \in SUBSET Nat, 0 \in S, \A n \in S : n + 1 \in S
  PROVE  S = Nat
<1> DEFINE T == Nat \ S
           R == {ss \in Nat \X Nat : ss[1] < ss[2]}
<1> SUFFICES ASSUME T # {} PROVE FALSE  OBVIOUS
<1>1. IsWellFoundedOn(R, Nat)  BY NatLessThanWellFounded DEF OpToRel
<1> HIDE DEF R
<1>2. PICK x \in T : \A y \in T : ~(<<y, x>> \in R)  BY <1>1, WFMin
<1>3. \A y \in T : ~(y < x)  BY <1>2 DEF R
<1>4. x - 1 \in Nat /\ x - 1 < x  OBVIOUS
<1>5. x - 1 \in S  BY <1>3, <1>4
<1> QED  BY <1>4, <1>5

\* A run of a loop of L steps over values V.
IsRun(g, L, V, base, step) ==
    g \in [0..L -> V] /\ g[0] = base /\ \A n \in 1..L : g[n] = step[n][g[n - 1]]

HasRun(L, V, base, step) == \E g : IsRun(g, L, V, base, step)

(* Such a function exists.                                                  *)
LEMMA LoopExists ==
  ASSUME NEW L \in Nat, NEW V, NEW base \in V, NEW step \in [1..L -> [V -> V]]
  PROVE  HasRun(L, V, base, step)
<1> DEFINE Runs(g, m) == g \in [0..m -> V] /\ g[0] = base /\ \A n \in 1..m : g[n] = step[n][g[n - 1]]
           S == {m \in Nat : m <= L => \E g : Runs(g, m)}
<1>1. 0 \in S
  <2>1. Runs([n \in 0..0 |-> base], 0)  OBVIOUS
  <2> QED  BY <2>1
<1>2. ASSUME NEW m \in S PROVE m + 1 \in S
  <2> SUFFICES ASSUME m + 1 <= L PROVE \E g : Runs(g, m + 1)  OBVIOUS
  <2>1. PICK g : Runs(g, m)  OBVIOUS
  <2> DEFINE last == step[m + 1][g[m]]
             h == [n \in 0..(m + 1) |-> IF n = m + 1 THEN last ELSE g[n]]
  <2>2. g[m] \in V /\ m + 1 \in 1..L  BY <2>1
  <2>3. last \in V  BY <2>2
  <2>4. h \in [0..(m + 1) -> V]  BY <2>1, <2>3
  <2>5. h[0] = base  BY <2>1
  <2>6. ASSUME NEW n \in 1..(m + 1) PROVE h[n] = step[n][h[n - 1]]
    <3>1. CASE n = m + 1
      <4>1. h[n] = last /\ n - 1 = m /\ h[n - 1] = g[m]  BY <3>1
      <4> QED  BY <3>1, <4>1
    <3>2. CASE n # m + 1
      <4>1. n \in 1..m /\ n - 1 \in 0..m /\ n - 1 # m + 1  BY <3>2
      <4>2. h[n] = g[n] /\ h[n - 1] = g[n - 1]  BY <4>1
      <4> QED  BY <2>1, <4>1, <4>2
    <3> QED  BY <3>1, <3>2
  <2> QED  BY <2>4, <2>5, <2>6
<1>3. S = Nat
  <2> HIDE DEF S
  <2>1. S \in SUBSET Nat  BY DEF S
  <2> QED  BY <1>1, <1>2, <2>1, LoopInduction
<1>4. L \in S  BY <1>3
<1>5. PICK g : Runs(g, L)  BY <1>4
<1> QED  BY <1>5 DEF HasRun, IsRun

-----------------------------------------------------------------------------
(* Server-Sent Events.                                                      *)

Texts(T) == {l.value : l \in T}
SseEvent(T) == [data : Seq(Texts(T)), event : Texts(T) \cup {None}, id : Texts(T) \cup {None},
                retry : Texts(T) \cup {None}, comments : Seq(Texts(T))]
SseState(T) == [events : Seq(SseEvent(T)), cur : SseEvent(T), error : BOOLEAN, stop : BOOLEAN]
IsLines(T) == \A l \in T : l.field \in LineFields

\* The parser stops only on an error.
Sane(s) == s.stop => s.error

(* The parser's steps keep its state well formed, and an error once found.  *)
LEMMA DispatchType ==
  ASSUME NEW T, NEW s \in SseState(T), Sane(s)
  PROVE  /\ Dispatch(s) \in SseState(T) /\ Sane(Dispatch(s))
         /\ s.error => Dispatch(s).error
         /\ ~Dispatch(s).error => Dispatch(s).cur = NoEvent
<1> DEFINE E == SseEvent(T)
<1>1. NoEvent \in E  BY DEF NoEvent, SseEvent
<1> HIDE DEF E
<1>2. s \in [events : Seq(E), cur : E, error : BOOLEAN, stop : BOOLEAN]  BY DEF SseState, E
<1>3. CASE s.cur = NoEvent  BY <1>3 DEF Dispatch
<1>4. CASE s.cur # NoEvent /\ Len(s.events) >= MaxSseEvents
  <2>1. Dispatch(s) = [s EXCEPT !.error = TRUE, !.stop = TRUE]  BY <1>4 DEF Dispatch
  <2> QED  BY <1>2, <2>1 DEF Sane, SseState, E
<1>5. CASE s.cur # NoEvent /\ ~(Len(s.events) >= MaxSseEvents)
  <2>1. Dispatch(s) = [s EXCEPT !.events = Append(s.events, s.cur), !.cur = NoEvent]
    BY <1>5 DEF Dispatch
  <2>2. Append(s.events, s.cur) \in Seq(E)  BY <1>2
  <2> QED  BY <1>1, <1>2, <2>1, <2>2 DEF Sane, SseState, E
<1> QED  BY <1>3, <1>4, <1>5

LEMMA SseLineType ==
  ASSUME NEW T, IsLines(T), NEW s \in SseState(T), Sane(s), NEW l \in T
  PROVE  /\ SseLine(s, l) \in SseState(T) /\ Sane(SseLine(s, l))
         /\ s.error => SseLine(s, l).error
<1> DEFINE E == SseEvent(T)
           X == Texts(T)
<1>1. l.value \in X /\ l.field \in LineFields  BY DEF Texts, IsLines
<1> HIDE DEF X
<1>2. E = [data : Seq(X), event : X \cup {None}, id : X \cup {None}, retry : X \cup {None},
           comments : Seq(X)]  BY DEF SseEvent, X
<1>3. s.cur \in E /\ s.events \in Seq(E) /\ s.error \in BOOLEAN  BY DEF SseState
<1> DEFINE With(e) == [s EXCEPT !.cur = e]
<1>4. ASSUME NEW e \in E PROVE /\ With(e) \in SseState(T) /\ Sane(With(e))
                               /\ s.error => With(e).error
  <2> HIDE DEF E
  <2> QED  BY DEF SseState, Sane, E
<1> DEFINE c == s.cur
           R == [data : Seq(X), event : X \cup {None}, id : X \cup {None}, retry : X \cup {None},
                 comments : Seq(X)]
<1>7. c \in R  BY <1>2, <1>3
<1>5. CASE s.stop  BY <1>5 DEF SseLine, Sane
<1>6. CASE ~s.stop
  <2>1. CASE l.field = "long"
    <3>1. SseLine(s, l) = [s EXCEPT !.error = TRUE, !.stop = TRUE]  BY <1>6, <2>1 DEF SseLine
    <3> QED  BY <3>1 DEF Sane, SseState
  <2>2. CASE l.field = "blank"
    <3>1. SseLine(s, l) = Dispatch(s)  BY <1>6, <2>2 DEF SseLine
    <3> QED  BY <3>1, DispatchType
  <2>3. CASE l.field = "other"
    <3>1. SseLine(s, l) = s  BY <1>6, <2>3 DEF SseLine
    <3> QED  BY <3>1
  <2>4. CASE l.field \in {"id", "retry"} /\ l.value = "bad"
    <3>1. SseLine(s, l) = [s EXCEPT !.error = TRUE]  BY <1>6, <2>4 DEF SseLine
    <3> QED  BY <3>1 DEF Sane, SseState
  <2>5. CASE l.field = "comment"
    <3> DEFINE e == [c EXCEPT !.comments = Append(c.comments, l.value)]
    <3>1. SseLine(s, l) = With(e)  BY <1>6, <2>5 DEF SseLine
    <3>2. e \in E
      <4>1. Append(c.comments, l.value) \in Seq(X)  BY <1>1, <1>7
      <4>2. e \in R  BY <1>7, <4>1
      <4> QED  BY <1>2, <4>2
    <3> QED  BY <3>1, <3>2, <1>4
  <2>6. CASE l.field = "data"
    <3> DEFINE e == [c EXCEPT !.data = Append(c.data, l.value)]
    <3>1. SseLine(s, l) = With(e)  BY <1>6, <2>6 DEF SseLine
    <3>2. e \in E
      <4>1. Append(c.data, l.value) \in Seq(X)  BY <1>1, <1>7
      <4>2. e \in R  BY <1>7, <4>1
      <4> QED  BY <1>2, <4>2
    <3> QED  BY <3>1, <3>2, <1>4
  <2>7. CASE l.field = "event"
    <3> DEFINE e == [c EXCEPT !.event = l.value]
    <3>1. SseLine(s, l) = With(e)  BY <1>6, <2>7 DEF SseLine
    <3>2. e \in E
      <4>1. e \in R  BY <1>1, <1>7
      <4> QED  BY <1>2, <4>1
    <3> QED  BY <3>1, <3>2, <1>4
  <2>8. CASE l.field = "id" /\ l.value # "bad"
    <3> DEFINE e == [c EXCEPT !.id = l.value]
    <3>1. SseLine(s, l) = With(e)  BY <1>6, <2>8 DEF SseLine
    <3>2. e \in E
      <4>1. e \in R  BY <1>1, <1>7
      <4> QED  BY <1>2, <4>1
    <3> QED  BY <3>1, <3>2, <1>4
  <2>9. CASE l.field = "retry" /\ l.value # "bad"
    <3> DEFINE e == [c EXCEPT !.retry = l.value]
    <3>1. SseLine(s, l) = With(e)  BY <1>6, <2>9 DEF SseLine
    <3>2. e \in E
      <4>1. e \in R  BY <1>1, <1>7
      <4> QED  BY <1>2, <4>1
    <3> QED  BY <3>1, <3>2, <1>4
  <2> QED  BY <1>1, <2>1, <2>2, <2>3, <2>4, <2>5, <2>6, <2>7, <2>8, <2>9 DEF LineFields
<1> QED  BY <1>3, <1>5, <1>6 DEF SseState

\* r holds the states of the parser over the lines.
Reads(r, lines, T) ==
    /\ r \in [0 .. Len(lines) -> SseState(T)]
    /\ r[0] = SseStart
    /\ \A n \in 1 .. Len(lines) : r[n] = SseLine(r[n - 1], lines[n])
    /\ \A n \in 0 .. Len(lines) : Sane(r[n])

(* The parser's states exist and are read one line after the other.         *)
LEMMA SseLoop ==
  ASSUME NEW T, IsLines(T), NEW lines \in Seq(T)
  PROVE  Reads(SseStates(lines), lines, T)
<1> DEFINE L == Len(lines)
           V == {s \in SseState(T) : Sane(s)}
           base == SseStart
           step == [n \in 1..L |-> [s \in V |-> SseLine(s, lines[n])]]
           Rule(g, n) == IF n = 0 THEN SseStart ELSE SseLine(g[n - 1], lines[n])
           Unrolled(g) == g = [n \in 0..L |-> Rule(g, n)]
           r == CHOOSE g : Unrolled(g)
<1>1. L \in Nat /\ \A n \in 1..L : lines[n] \in T  OBVIOUS
<1>2. base \in V  BY DEF SseStart, NoEvent, SseState, SseEvent, Sane
<1>3. \A n \in 1..L : \A s \in V : SseLine(s, lines[n]) \in V  BY <1>1, SseLineType
<1>4. step \in [1..L -> [V -> V]]
  <2> HIDE DEF V
  <2> QED  BY <1>3
<1>5. PICK g \in [0..L -> V] : g[0] = base /\ \A n \in 1..L : g[n] = step[n][g[n - 1]]
  <2> HIDE DEF step, base, V, L
  <2>1. HasRun(L, V, base, step)  BY <1>1, <1>2, <1>4, LoopExists
  <2> QED  BY <2>1 DEF HasRun, IsRun
<1>6. Unrolled(g)
  <2>1. ASSUME NEW n \in 0..L PROVE g[n] = Rule(g, n)
    <3>1. CASE n = 0  BY <3>1, <1>5
    <3>2. CASE n # 0
      <4> HIDE DEF V
      <4>1. n \in 1..L /\ n - 1 \in 0..L  BY <3>2
      <4>2. g[n] = step[n][g[n - 1]] /\ g[n - 1] \in V  BY <1>5, <4>1
      <4> QED  BY <3>2, <4>1, <4>2
    <3> QED  BY <3>1, <3>2
  <2> HIDE DEF Rule, V
  <2> QED  BY <1>5, <2>1
<1>7. Unrolled(r)
  <2> HIDE DEF Unrolled
  <2> QED  BY <1>6
<1>8. SseStates(lines) = r  BY Zenon DEF SseStates
<1> HIDE DEF r
<1>9. \A n \in 0..L : r[n] = Rule(r, n)  BY <1>7
<1> DEFINE S == {n \in Nat : n <= L => r[n] \in V}
<1>10. 0 \in S  BY <1>1, <1>2, <1>9
<1>11. ASSUME NEW n \in S PROVE n + 1 \in S
  <2> SUFFICES ASSUME n + 1 <= L PROVE r[n + 1] \in V  OBVIOUS
  <2> HIDE DEF V
  <2>1. n + 1 \in 1..L /\ n + 1 \in 0..L /\ n + 1 # 0 /\ (n + 1) - 1 = n  BY <1>1
  <2>2. r[n] \in V  BY <1>1
  <2>3. r[n + 1] = SseLine(r[n], lines[n + 1])  BY <1>9, <2>1
  <2> QED  BY <1>3, <2>1, <2>2, <2>3
<1>12. S = Nat
  <2> HIDE DEF S
  <2>1. S \in SUBSET Nat  BY DEF S
  <2> QED  BY <1>10, <1>11, <2>1, LoopInduction
<1>13. \A n \in 0..L : r[n] \in V  BY <1>12
<1>14. r \in [0..L -> SseState(T)]
  <2>1. \A n \in 0..L : r[n] \in SseState(T)  BY <1>13
  <2> HIDE DEF Rule, V
  <2> QED  BY <1>7, <2>1
<1>15. r[0] = SseStart  BY <1>1, <1>9
<1>16. ASSUME NEW n \in 1..L PROVE r[n] = SseLine(r[n - 1], lines[n])
  <2>1. n \in 0..L /\ n # 0  OBVIOUS
  <2> QED  BY <1>9, <2>1
<1>17. \A n \in 0..L : Sane(r[n])  BY <1>13
<1> HIDE DEF L
<1>18. Reads(r, lines, T)  BY <1>14, <1>15, <1>16, <1>17 DEF Reads, L
<1> QED  BY <1>8, <1>18

(* The parsed view of well-formed lines.                                    *)
LEMMA ParseType ==
  ASSUME NEW T, IsLines(T), NEW lines \in Seq(T)
  PROVE  ParseSse(lines) \in SseState(T)
<1> DEFINE r == SseStates(lines)
           s == r[Len(lines)]
<1>1. Reads(r, lines, T)  BY SseLoop
<1>2. Len(lines) \in Nat  OBVIOUS
<1> HIDE DEF r
<1>3. s \in SseState(T) /\ Sane(s)  BY <1>1, <1>2 DEF Reads
<1>4. ParseSse(lines) = IF s.error THEN s ELSE Dispatch(s)  BY DEF ParseSse, r
<1> QED  BY <1>3, <1>4, DispatchType

(* An error stays.                                                          *)
LEMMA ErrorStays ==
  ASSUME NEW T, IsLines(T), NEW lines \in Seq(T), NEW r, Reads(r, lines, T), ~r[Len(lines)].error
  PROVE  \A n \in 0 .. Len(lines) : ~r[n].error
<1> DEFINE L == Len(lines)
<1> SUFFICES ASSUME NEW m \in 0..L, r[m].error PROVE FALSE  OBVIOUS
<1>1. L \in Nat /\ m \in Nat /\ m <= L /\ \A n \in 1..L : lines[n] \in T  OBVIOUS
<1>2. /\ r \in [0..L -> SseState(T)]
      /\ \A n \in 1..L : r[n] = SseLine(r[n - 1], lines[n])
      /\ \A n \in 0..L : Sane(r[n])  BY DEF Reads
<1> HIDE DEF L
<1> DEFINE S == {d \in Nat : m + d <= L => r[m + d].error}
<1>3. 0 \in S
  <2>1. m + 0 = m  BY <1>1
  <2> QED  BY <2>1
<1>4. ASSUME NEW d \in S PROVE d + 1 \in S
  <2> SUFFICES ASSUME m + (d + 1) <= L PROVE r[m + (d + 1)].error  OBVIOUS
  <2> DEFINE n == m + (d + 1)
  <2>1. n \in 1..L /\ n - 1 = m + d /\ n - 1 \in 0..L  BY <1>1
  <2>2. r[n - 1].error  BY <1>1, <2>1
  <2>3. r[n - 1] \in SseState(T) /\ Sane(r[n - 1]) /\ lines[n] \in T /\ r[n] = SseLine(r[n - 1], lines[n])
    BY <1>1, <1>2, <2>1
  <2> HIDE DEF n
  <2>4. r[n].error  BY <2>2, <2>3, SseLineType
  <2> QED  BY <2>4 DEF n
<1>5. S = Nat
  <2> HIDE DEF S
  <2>1. S \in SUBSET Nat  BY DEF S
  <2> QED  BY <1>3, <1>4, <2>1, LoopInduction
<1>6. L - m \in Nat /\ m + (L - m) = L  BY <1>1
<1>7. L - m \in S  BY <1>5, <1>6
<1> QED  BY <1>1, <1>6, <1>7 DEF L

\* What a parser s has read after E is what a fresh one, q, has.
After(E, s, q) ==
    /\ s.cur = q.cur /\ s.events = E \o q.events
    /\ ~s.error /\ ~q.error /\ ~s.stop /\ ~q.stop

(* A parser that goes on from a dispatch reads what a fresh one reads.      *)
LEMMA DispatchAfter ==
  ASSUME NEW T, NEW s \in SseState(T), NEW q \in SseState(T), NEW E \in Seq(SseEvent(T)),
         After(E, s, q), ~Dispatch(s).error
  PROVE  After(E, Dispatch(s), Dispatch(q))
<1> DEFINE X == SseEvent(T)
<1> HIDE DEF X
<1>1. /\ s \in [events : Seq(X), cur : X, error : BOOLEAN, stop : BOOLEAN]
      /\ q \in [events : Seq(X), cur : X, error : BOOLEAN, stop : BOOLEAN]
      /\ E \in Seq(X)  BY DEF SseState, X
<1>2. MaxSseEvents \in Nat  BY SseAssumption
<1>3. CASE s.cur = NoEvent
  <2>1. Dispatch(s) = s /\ Dispatch(q) = q  BY <1>3 DEF Dispatch, After
  <2> QED  BY <2>1
<1>4. CASE s.cur # NoEvent
  <2>1. ~(Len(s.events) >= MaxSseEvents)
    <3> SUFFICES ASSUME Len(s.events) >= MaxSseEvents PROVE FALSE  OBVIOUS
    <3>1. Dispatch(s) = [s EXCEPT !.error = TRUE, !.stop = TRUE]  BY <1>4 DEF Dispatch
    <3> QED  BY <1>1, <3>1
  <2>2. Len(s.events) = Len(E) + Len(q.events)  BY <1>1 DEF After
  <2>3. ~(Len(q.events) >= MaxSseEvents)  BY <1>1, <1>2, <2>1, <2>2
  <2>4. Dispatch(s) = [s EXCEPT !.events = Append(s.events, s.cur), !.cur = NoEvent]
    BY <1>4, <2>1 DEF Dispatch
  <2>5. Dispatch(q) = [q EXCEPT !.events = Append(q.events, q.cur), !.cur = NoEvent]
    BY <1>4, <2>3 DEF Dispatch, After
  <2>6. Append(E \o q.events, q.cur) = E \o Append(q.events, q.cur)
    <3>1. q.events \in Seq(X) /\ q.cur \in X /\ <<q.cur>> \in Seq(X)  BY <1>1
    <3>2. E \o q.events \in Seq(X)  BY <1>1, <3>1
    <3>3. Append(E \o q.events, q.cur) = (E \o q.events) \o <<q.cur>>  BY <3>1, <3>2, AppendIsConcat
    <3>4. Append(q.events, q.cur) = q.events \o <<q.cur>>  BY <3>1, AppendIsConcat
    <3> QED  BY <1>1, <3>1, <3>3, <3>4, ConcatAssociative
  <2> QED  BY <1>1, <2>4, <2>5, <2>6 DEF After
<1> QED  BY <1>3, <1>4

LEMMA SseLineAfter ==
  ASSUME NEW T, IsLines(T), NEW s \in SseState(T), NEW q \in SseState(T), NEW l \in T,
         NEW E \in Seq(SseEvent(T)), After(E, s, q), ~SseLine(s, l).error
  PROVE  After(E, SseLine(s, l), SseLine(q, l))
<1> DEFINE X == SseEvent(T)
<1> HIDE DEF X
<1>1. /\ s \in [events : Seq(X), cur : X, error : BOOLEAN, stop : BOOLEAN]
      /\ q \in [events : Seq(X), cur : X, error : BOOLEAN, stop : BOOLEAN]
      /\ E \in Seq(X)  BY DEF SseState, X
<1>2. ~s.stop /\ ~q.stop /\ s.cur = q.cur  BY DEF After
<1>3. l.field \in LineFields  BY DEF IsLines
<1> DEFINE With(p, e) == [p EXCEPT !.cur = e]
<1>4. ASSUME NEW e, SseLine(s, l) = With(s, e), SseLine(q, l) = With(q, e)
      PROVE  After(E, SseLine(s, l), SseLine(q, l))
  BY <1>1, <1>4 DEF After
<1>5. CASE l.field = "long"
  <2>1. SseLine(s, l) = [s EXCEPT !.error = TRUE, !.stop = TRUE]  BY <1>2, <1>5 DEF SseLine
  <2> QED  BY <1>1, <2>1
<1>6. CASE l.field = "blank"
  <2>1. SseLine(s, l) = Dispatch(s) /\ SseLine(q, l) = Dispatch(q)  BY <1>2, <1>6 DEF SseLine
  <2> QED  BY <2>1, DispatchAfter
<1>7. CASE l.field = "other"
  <2>1. SseLine(s, l) = s /\ SseLine(q, l) = q  BY <1>2, <1>7 DEF SseLine
  <2> QED  BY <2>1
<1>8. CASE l.field \in {"id", "retry"} /\ l.value = "bad"
  <2>1. SseLine(s, l) = [s EXCEPT !.error = TRUE]  BY <1>2, <1>8 DEF SseLine
  <2> QED  BY <1>1, <2>1
<1>9. CASE l.field = "comment"
  <2> DEFINE e == [s.cur EXCEPT !.comments = Append(s.cur.comments, l.value)]
  <2>1. SseLine(s, l) = With(s, e) /\ SseLine(q, l) = With(q, e)  BY <1>2, <1>9 DEF SseLine
  <2> QED  BY <2>1, <1>4
<1>10. CASE l.field = "data"
  <2> DEFINE e == [s.cur EXCEPT !.data = Append(s.cur.data, l.value)]
  <2>1. SseLine(s, l) = With(s, e) /\ SseLine(q, l) = With(q, e)  BY <1>2, <1>10 DEF SseLine
  <2> QED  BY <2>1, <1>4
<1>11. CASE l.field = "event"
  <2> DEFINE e == [s.cur EXCEPT !.event = l.value]
  <2>1. SseLine(s, l) = With(s, e) /\ SseLine(q, l) = With(q, e)  BY <1>2, <1>11 DEF SseLine
  <2> QED  BY <2>1, <1>4
<1>12. CASE l.field = "id" /\ l.value # "bad"
  <2> DEFINE e == [s.cur EXCEPT !.id = l.value]
  <2>1. SseLine(s, l) = With(s, e) /\ SseLine(q, l) = With(q, e)  BY <1>2, <1>12 DEF SseLine
  <2> QED  BY <2>1, <1>4
<1>13. CASE l.field = "retry" /\ l.value # "bad"
  <2> DEFINE e == [s.cur EXCEPT !.retry = l.value]
  <2>1. SseLine(s, l) = With(s, e) /\ SseLine(q, l) = With(q, e)  BY <1>2, <1>13 DEF SseLine
  <2> QED  BY <2>1, <1>4
<1> QED  BY <1>3, <1>5, <1>6, <1>7, <1>8, <1>9, <1>10, <1>11, <1>12, <1>13 DEF LineFields

(* A prefix is read as the beginning of the whole.                          *)
LEMMA PrefixRead ==
  ASSUME NEW T, NEW lines \in Seq(T), NEW prefix \in Seq(T), NEW r, Reads(r, lines, T),
         NEW p, Reads(p, prefix, T), Len(prefix) <= Len(lines),
         \A n \in 1 .. Len(prefix) : prefix[n] = lines[n]
  PROVE  \A n \in 0 .. Len(prefix) : p[n] = r[n]
<1> DEFINE L == Len(lines)
           K == Len(prefix)
           S == {n \in Nat : n <= K => p[n] = r[n]}
<1>1. L \in Nat /\ K \in Nat /\ K <= L  OBVIOUS
<1>2. /\ r[0] = SseStart /\ p[0] = SseStart
      /\ \A n \in 1..L : r[n] = SseLine(r[n - 1], lines[n])
      /\ \A n \in 1..K : p[n] = SseLine(p[n - 1], prefix[n])
      /\ \A n \in 1..K : prefix[n] = lines[n]  BY DEF Reads
<1> HIDE DEF L, K
<1>3. 0 \in S  BY <1>2
<1>4. ASSUME NEW n \in S PROVE n + 1 \in S
  <2> SUFFICES ASSUME n + 1 <= K PROVE p[n + 1] = r[n + 1]  OBVIOUS
  <2>1. n + 1 \in 1..K /\ n + 1 \in 1..L /\ (n + 1) - 1 = n  BY <1>1
  <2>2. p[n] = r[n]  BY <1>1
  <2> QED  BY <1>2, <2>1, <2>2
<1>5. S = Nat
  <2> HIDE DEF S
  <2>1. S \in SUBSET Nat  BY DEF S
  <2> QED  BY <1>3, <1>4, <2>1, LoopInduction
<1> QED  BY <1>1, <1>5 DEF K

(* A suffix that begins after a dispatch is read as the whole is from there. *)
LEMMA SuffixRead ==
  ASSUME NEW T, IsLines(T), NEW lines \in Seq(T), NEW suffix \in Seq(T), NEW r, Reads(r, lines, T),
         NEW q, Reads(q, suffix, T), NEW k \in 0 .. Len(lines), Len(lines) = k + Len(suffix),
         \A n \in 1 .. Len(suffix) : suffix[n] = lines[k + n],
         r[k].cur = NoEvent, ~r[Len(lines)].error
  PROVE  After(r[k].events, r[Len(lines)], q[Len(suffix)])
<1> DEFINE L == Len(lines)
           M == Len(suffix)
           E == r[k].events
           S == {n \in Nat : n <= M => After(E, r[k + n], q[n])}
<1>1. L \in Nat /\ M \in Nat /\ L = k + M /\ k \in Nat /\ \A n \in 1..L : lines[n] \in T  OBVIOUS
<1>2. /\ q[0] = SseStart
      /\ r \in [0..L -> SseState(T)] /\ q \in [0..M -> SseState(T)]
      /\ \A n \in 1..L : r[n] = SseLine(r[n - 1], lines[n])
      /\ \A n \in 1..M : q[n] = SseLine(q[n - 1], suffix[n])
      /\ \A n \in 0..L : Sane(r[n])
      /\ \A n \in 1..M : suffix[n] = lines[k + n]  BY DEF Reads
<1>3. \A n \in 0..L : ~r[n].error  BY ErrorStays
<1> HIDE DEF L, M
<1>4. r[k] \in SseState(T) /\ k \in 0..L  BY <1>1, <1>2
<1>5. E \in Seq(SseEvent(T))  BY <1>4 DEF SseState
<1>6. 0 \in S
  <2>1. k + 0 = k  BY <1>1
  <2>2. ~r[k].error /\ ~r[k].stop  BY <1>2, <1>3, <1>4 DEF Sane
  <2>3. E \o <<>> = E  BY <1>5
  <2>4. q[0].cur = NoEvent /\ q[0].events = <<>> /\ ~q[0].error /\ ~q[0].stop  BY <1>2 DEF SseStart
  <2>5. r[k].events = E \o q[0].events  BY <2>3, <2>4
  <2> HIDE DEF E
  <2>6. After(E, r[k], q[0])  BY <2>2, <2>4, <2>5 DEF After
  <2> QED  BY <2>1, <2>6
<1> HIDE DEF E
<1>7. ASSUME NEW n \in S PROVE n + 1 \in S
  <2> SUFFICES ASSUME n + 1 <= M PROVE After(E, r[k + (n + 1)], q[n + 1])  OBVIOUS
  <2> DEFINE m == k + (n + 1)
  <2>1. m \in 1..L /\ m \in 0..L /\ m - 1 = k + n /\ m - 1 \in 0..L  BY <1>1
  <2>2. n + 1 \in 1..M /\ (n + 1) - 1 = n /\ n \in 0..M /\ k + (n + 1) = m  BY <1>1
  <2>3. After(E, r[m - 1], q[n])  BY <1>1, <2>1
  <2> HIDE DEF m
  <2>4. r[m] = SseLine(r[m - 1], lines[m]) /\ ~r[m].error /\ lines[m] \in T
    BY <1>1, <1>2, <1>3, <2>1
  <2>5. q[n + 1] = SseLine(q[n], lines[m])  BY <1>2, <2>2
  <2>6. r[m - 1] \in SseState(T) /\ q[n] \in SseState(T)  BY <1>2, <2>1, <2>2
  <2>7. After(E, SseLine(r[m - 1], lines[m]), SseLine(q[n], lines[m]))
    BY <1>5, <2>3, <2>4, <2>6, SseLineAfter
  <2> QED  BY <2>2, <2>4, <2>5, <2>7
<1>8. S = Nat
  <2> HIDE DEF S
  <2>1. S \in SUBSET Nat  BY DEF S
  <2> QED  BY <1>6, <1>7, <2>1, LoopInduction
<1>9. After(E, r[k + M], q[M])  BY <1>1, <1>8
<1> QED  BY <1>1, <1>9 DEF E, L, M

(* An event is what its own lines say: a list of lines that parses is cut   *)
(* at a blank line into two lists that parse to its events, in turn.        *)
LEMMA EventsLocal ==
  ASSUME NEW T, IsLines(T), NEW lines \in Seq(T), NEW k \in 1 .. Len(lines),
         lines[k].field = "blank", ~ParseSse(lines).error
  PROVE  ParseSse(lines).events = ParseSse(SubSeq(lines, 1, k)).events
                                  \o ParseSse(SubSeq(lines, k + 1, Len(lines))).events
<1> DEFINE L == Len(lines)
           prefix == SubSeq(lines, 1, k)
           suffix == SubSeq(lines, k + 1, L)
           M == Len(suffix)
           r == SseStates(lines)
           p == SseStates(prefix)
           q == SseStates(suffix)
<1>1. L \in Nat /\ k \in Nat /\ k \in 1..L /\ k - 1 \in 0..L /\ k \in 0..L  OBVIOUS
<1>2. prefix \in Seq(T) /\ Len(prefix) = k /\ \A n \in 1..k : prefix[n] = lines[n]  OBVIOUS
<1>3. suffix \in Seq(T) /\ M \in Nat /\ L = k + M
  <2>1. suffix \in Seq(T) /\ Len(suffix) = L - k  OBVIOUS
  <2> QED  BY <1>1, <2>1
<1>4. ASSUME NEW n \in 1..M PROVE suffix[n] = lines[k + n]
  <2>1. n \in 1..(L - (k + 1) + 1)  BY <1>1, <1>3
  <2>2. suffix[n] = lines[(k + 1) + n - 1]  BY SMTT(60), <2>1
  <2> QED  BY <1>1, <2>2
<1> HIDE DEF prefix, suffix
<1>5. Reads(r, lines, T) /\ Reads(p, prefix, T) /\ Reads(q, suffix, T)  BY <1>2, <1>3, SseLoop
<1>6. /\ ParseSse(lines) = IF r[L].error THEN r[L] ELSE Dispatch(r[L])
      /\ ParseSse(prefix) = IF p[k].error THEN p[k] ELSE Dispatch(p[k])
      /\ ParseSse(suffix) = IF q[M].error THEN q[M] ELSE Dispatch(q[M])
  BY <1>2 DEF ParseSse
<1> HIDE DEF r, p, q
<1>7. /\ r \in [0..L -> SseState(T)] /\ q \in [0..M -> SseState(T)]
      /\ r[k] = SseLine(r[k - 1], lines[k])
      /\ \A n \in 0..L : Sane(r[n])  BY <1>1, <1>5 DEF Reads
<1>8. ~r[L].error /\ ~Dispatch(r[L]).error  BY <1>6
<1>9. \A n \in 0..L : ~r[n].error  BY <1>5, <1>8, ErrorStays
<1>10. p[k] = r[k]  BY <1>1, <1>2, <1>5, PrefixRead
<1>11. r[k].cur = NoEvent
  <2>1. r[k - 1] \in SseState(T) /\ Sane(r[k - 1]) /\ ~r[k - 1].error  BY <1>1, <1>7, <1>9
  <2>2. r[k] = Dispatch(r[k - 1])  BY <1>7, <2>1 DEF SseLine, Sane
  <2> QED  BY <1>1, <1>9, <2>1, <2>2, DispatchType
<1>12. ParseSse(prefix).events = r[k].events
  <2>1. Dispatch(r[k]) = r[k]  BY <1>11 DEF Dispatch
  <2> QED  BY <1>1, <1>6, <1>9, <1>10, <2>1
<1>13. After(r[k].events, r[L], q[M])  BY <1>1, <1>3, <1>4, <1>5, <1>8, <1>11, SuffixRead
<1>14. r[L] \in SseState(T) /\ q[M] \in SseState(T) /\ r[k] \in SseState(T)
  <2>1. L \in 0..L /\ M \in 0..M  BY <1>1, <1>3
  <2> QED  BY <1>1, <1>7, <2>1
<1>15. r[k].events \in Seq(SseEvent(T))  BY <1>14 DEF SseState
<1>16. After(r[k].events, Dispatch(r[L]), Dispatch(q[M]))  BY <1>8, <1>13, <1>14, <1>15, DispatchAfter
<1>17. ~q[M].error  BY <1>13 DEF After
<1>18. ParseSse(lines).events = r[k].events \o ParseSse(suffix).events
  BY <1>6, <1>8, <1>16, <1>17 DEF After
<1> HIDE DEF L
<1> QED  BY <1>12, <1>18 DEF prefix, suffix, L

-----------------------------------------------------------------------------
(* What a comparison finds.                                                 *)

(* Headers are found different exactly when a field is.                     *)
LEMMA HeadersFind ==
  ASSUME NEW kind, NEW a, NEW b, IsHeaders(a), IsHeaders(b)
  PROVE  CompareHeaders(kind, a, b) = {} <=> SameFields(a, b)
<1> DEFINE N == {x \in DOMAIN a \cup DOMAIN b : ~Volatile(a, b, x) /\ Values(a, x) # Values(b, x)}
<1>1. CompareHeaders(kind, a, b) = {Finding(kind, n) : n \in N}  BY DEF CompareHeaders
<1>2. CompareHeaders(kind, a, b) = {} <=> N = {}  BY <1>1
<1>3. \A n \in DOMAIN a : Values(a, n) = a[n] /\ a[n] # <<>>  BY DEF Values, IsHeaders
<1>4. \A n \in DOMAIN b : Values(b, n) = b[n] /\ b[n] # <<>>  BY DEF Values, IsHeaders
<1>5. \A n : (n \notin DOMAIN a => Values(a, n) = <<>>) /\ (n \notin DOMAIN b => Values(b, n) = <<>>)
  BY DEF Values
<1>6. ASSUME N = {} PROVE SameFields(a, b)
  <2>1. \A x \in DOMAIN a \cup DOMAIN b : Volatile(a, b, x) \/ Values(a, x) = Values(b, x)
    BY <1>6
  <2>2. DOMAIN a = DOMAIN b  BY <1>3, <1>4, <1>5, <2>1 DEF Volatile
  <2>3. \A n \in DOMAIN a \ VolatileHeaders : a[n] = b[n]
    BY <1>3, <1>4, <2>1, <2>2 DEF Volatile
  <2> QED  BY <2>2, <2>3 DEF SameFields
<1>7. ASSUME SameFields(a, b) PROVE N = {}
  <2>1. DOMAIN a = DOMAIN b /\ \A n \in DOMAIN a \ VolatileHeaders : a[n] = b[n]
    BY <1>7 DEF SameFields
  <2>2. ASSUME NEW x \in DOMAIN a PROVE Volatile(a, b, x) \/ Values(a, x) = Values(b, x)
    BY <1>3, <1>4, <2>1, <2>2 DEF Volatile
  <2> QED  BY <2>1, <2>2
<1> QED  BY <1>2, <1>6, <1>7

\* A plain comparison, without the Server-Sent-Events view.
Alike(b, c, bound) ==
    /\ b.kind = c.kind
    /\ b.kind = "response" =>
          /\ b.status = c.status /\ b.body = c.body
          /\ SameFields(b.headers, c.headers) /\ SameFields(b.trailers, c.trailers)
    /\ b.kind = "error" => b.category = c.category /\ b.phase = c.phase
    /\ \A most \in bound : \A e \in c.elapsed : ~(e > most)

(* A comparison is empty exactly when the two flows are alike.              *)
LEMMA FlowsFind ==
  ASSUME NEW b, NEW c, NEW policy, NEW bound,
         b.kind \in {"response", "error"}, c.kind \in {"response", "error"},
         IsHeaders(b.headers), IsHeaders(b.trailers),
         c.kind = "response" => IsHeaders(c.headers) /\ IsHeaders(c.trailers)
  PROVE  CompareFlows(b, c, policy, bound) = {} <=>
            /\ Alike(b, c, bound)
            /\ b.kind = "response" /\ c.kind = "response" => SseFindings(b, c, policy) = {}
<1>1. TimingFindings(c, bound) = {} <=> \A most \in bound : \A e \in c.elapsed : ~(e > most)
  BY DEF TimingFindings
<1>2. CASE b.kind = "response" /\ c.kind = "response"
  <2>1. CompareFlows(b, c, policy, bound) =
           ((IF b.status # c.status THEN {Finding("status", "response.status")} ELSE {})
             \cup CompareHeaders("header", b.headers, c.headers)
             \cup CompareHeaders("trailer", b.trailers, c.trailers)
             \cup BodyFindings(b, c)
             \cup SseFindings(b, c, policy)) \cup TimingFindings(c, bound)
    BY <1>2 DEF CompareFlows
  <2>2. CompareFlows(b, c, policy, bound) = {} <=>
           /\ b.status = c.status
           /\ CompareHeaders("header", b.headers, c.headers) = {}
           /\ CompareHeaders("trailer", b.trailers, c.trailers) = {}
           /\ b.body = c.body
           /\ SseFindings(b, c, policy) = {}
           /\ TimingFindings(c, bound) = {}
    BY <2>1 DEF BodyFindings
  <2>3. /\ CompareHeaders("header", b.headers, c.headers) = {} <=> SameFields(b.headers, c.headers)
        /\ CompareHeaders("trailer", b.trailers, c.trailers) = {} <=> SameFields(b.trailers, c.trailers)
    BY <1>2, HeadersFind
  <2> QED  BY <1>1, <1>2, <2>2, <2>3 DEF Alike
<1>3. CASE b.kind = "error" /\ c.kind = "error"
  <2>1. CompareFlows(b, c, policy, bound) =
           (IF b.category # c.category \/ b.phase # c.phase
            THEN {Finding("outcome", "outcome.error")} ELSE {})
             \cup TimingFindings(c, bound)
    BY <1>3 DEF CompareFlows
  <2> QED  BY <1>1, <1>3, <2>1 DEF Alike
<1>4. CASE b.kind # c.kind
  <2>1. CompareFlows(b, c, policy, bound) = {Finding("outcome", "outcome.kind")} \cup TimingFindings(c, bound)
    BY <1>4 DEF CompareFlows
  <2> QED  BY <1>4, <2>1 DEF Alike
<1> QED  BY <1>2, <1>3, <1>4

-----------------------------------------------------------------------------
(* Comparison is symmetric.                                                 *)

LEMMA SseSymmetric ==
  ASSUME NEW b, NEW c, NEW policy, IsFlow(b), IsFlow(c)
  PROVE  SseFindings(b, c, policy) = {} <=> SseFindings(c, b, policy) = {}
<1> DEFINE pb == ParseSse(b.body)
           pc == ParseSse(c.body)
           T == Range(b.body)
           U == Range(c.body)
<1>1. /\ b.body \in Seq(T) /\ IsLines(T)
      /\ c.body \in Seq(U) /\ IsLines(U)  BY DEF IsFlow, IsList, IsLines
<1> HIDE DEF T, U
<1>2. pb \in SseState(T) /\ pc \in SseState(U)  BY <1>1, ParseType
<1> HIDE DEF pb, pc
<1>3. pb.events \in Seq(SseEvent(T)) /\ pc.events \in Seq(SseEvent(U))  BY <1>2 DEF SseState
<1>4. SameSse(pb.events, pc.events, policy.ignored) <=> SameSse(pc.events, pb.events, policy.ignored)
  <2> DEFINE x == pb.events
             y == pc.events
             F == SseFields \ policy.ignored
  <2>1. DOMAIN x = 1..Len(x) /\ DOMAIN y = 1..Len(y)  BY SMTT(60), <1>3
  <2> HIDE DEF x, y, F
  <2>2. (Len(x) = Len(y) /\ \A i \in DOMAIN x : \A f \in F : x[i][f] = y[i][f]) <=>
        (Len(y) = Len(x) /\ \A i \in DOMAIN y : \A f \in F : y[i][f] = x[i][f])
    BY Zenon, <2>1
  <2> QED  BY <2>2 DEF SameSse, x, y, F
<1>5. SseFindings(b, c, policy) = {} <=>
        ~(SseEnabled(policy) /\ b.media = "sse" /\ c.media = "sse"
          /\ (pb.error \/ pc.error \/ ~SameSse(pb.events, pc.events, policy.ignored)))
  BY DEF SseFindings, pb, pc
<1>6. SseFindings(c, b, policy) = {} <=>
        ~(SseEnabled(policy) /\ c.media = "sse" /\ b.media = "sse"
          /\ (pc.error \/ pb.error \/ ~SameSse(pc.events, pb.events, policy.ignored)))
  BY DEF SseFindings, pb, pc
<1> QED  BY <1>4, <1>5, <1>6

LEMMA FlowsSymmetric ==
  ASSUME NEW b, NEW c, NEW policy, IsFlow(b), IsFlow(c)
  PROVE  CompareFlows(b, c, policy, {}) = {} <=> CompareFlows(c, b, policy, {}) = {}
<1>1. /\ b.kind \in {"response", "error"} /\ c.kind \in {"response", "error"}
      /\ IsHeaders(b.headers) /\ IsHeaders(b.trailers)
      /\ IsHeaders(c.headers) /\ IsHeaders(c.trailers)  BY DEF IsFlow
<1>2. \A x, y : SameFields(x, y) <=> SameFields(y, x)  BY DEF SameFields
<1>3. Alike(b, c, {}) <=> Alike(c, b, {})  BY <1>1, <1>2 DEF Alike
<1>4. CompareFlows(b, c, policy, {}) = {} <=>
            /\ Alike(b, c, {})
            /\ b.kind = "response" /\ c.kind = "response" => SseFindings(b, c, policy) = {}
  BY <1>1, FlowsFind
<1>5. CompareFlows(c, b, policy, {}) = {} <=>
            /\ Alike(c, b, {})
            /\ c.kind = "response" /\ b.kind = "response" => SseFindings(c, b, policy) = {}
  BY <1>1, FlowsFind
<1> QED  BY <1>3, <1>4, <1>5, SseSymmetric

LEMMA AbsDiffSymmetric == ASSUME NEW x \in Int, NEW y \in Int PROVE AbsDiff(x, y) = AbsDiff(y, x)
BY DEF AbsDiff

IsEvents(a) == IsList(a) /\ \A e \in Range(a) : e.at \in Nat

LEMMA ListElements == ASSUME NEW s, IsList(s) PROVE DOMAIN s = 1 .. Len(s) /\ Len(s) \in Nat /\ \A i \in DOMAIN s : s[i] \in Range(s)
BY DEF IsList, Range

LEMMA GapType ==
  ASSUME NEW a, IsEvents(a), NEW i \in DOMAIN a
  PROVE  Gap(a, i) \in Int
<1>1. DOMAIN a = 1..Len(a) /\ Len(a) \in Nat /\ \A k \in DOMAIN a : a[k].at \in Nat
  BY ListElements DEF IsEvents
<1>2. i = 1 \/ i - 1 \in DOMAIN a  BY <1>1
<1> DEFINE before == IF i = 1 THEN 0 ELSE a[i - 1].at
<1>3. before \in Nat /\ a[i].at \in Nat  BY <1>1, <1>2
<1>4. Gap(a, i) = IF a[i].at > before THEN a[i].at - before ELSE 0  BY DEF Gap
<1> HIDE DEF before
<1> QED  BY <1>3, <1>4

LEMMA StreamsSymmetric ==
  ASSUME NEW a, NEW b, NEW tolerance, IsEvents(a), IsEvents(b)
  PROVE  CompareStreams(a, b, tolerance) = {} <=> CompareStreams(b, a, tolerance) = {}
<1> DEFINE C == {i \in DOMAIN a : i \in DOMAIN b}
           D == {i \in DOMAIN b : i \in DOMAIN a}
           Shape(x, y, S) == Len(x) # Len(y) \/ \E i \in S : x[i].ev # y[i].ev
           Late(x, y, S) == {j \in S : \E t \in tolerance : AbsDiff(Gap(x, j), Gap(y, j)) > t}
           Found(x, y, S) == (IF Shape(x, y, S) THEN {Finding("stream", "stream.response.events")} ELSE {})
                             \cup {FindingAt("timing", "cadence", i) : i \in Late(x, y, S)}
<1>1. CompareStreams(a, b, tolerance) = Found(a, b, C)  BY DEF CompareStreams
<1>2. CompareStreams(b, a, tolerance) = Found(b, a, D)  BY DEF CompareStreams
<1>3. C = D  OBVIOUS
<1>4. \A i \in C : AbsDiff(Gap(a, i), Gap(b, i)) = AbsDiff(Gap(b, i), Gap(a, i))
  BY GapType, AbsDiffSymmetric
<1>5. Late(a, b, C) = Late(b, a, D)  BY <1>3, <1>4
<1>6. Shape(a, b, C) <=> Shape(b, a, D)  BY <1>3
<1> HIDE DEF Late, Shape, C, D
<1> QED  BY <1>1, <1>2, <1>5, <1>6

LEMMA MessagesSymmetric ==
  ASSUME NEW i, NEW a, NEW b, NEW tolerance, a.at \in Nat, b.at \in Nat
  PROVE  MessageFindings(i, a, b, tolerance) = {} <=> MessageFindings(i, b, a, tolerance) = {}
<1> DEFINE Late(x, y) == \E t \in tolerance : AbsDiff(x.at, y.at) > t
           Hidden(x, y) == {x.red, y.red} \cap {"reason", "whole"} = {}
           Apart(x, y) == ~Wild(x, y) /\ x.mkind # "close" /\ ~SamePayload(x, y)
           Clear(x, y) == /\ x.dir = y.dir /\ x.mkind = y.mkind /\ x.code = y.code
                          /\ ~(x.reason # y.reason /\ Hidden(x, y))
                          /\ ~Late(x, y) /\ ~Apart(x, y)
<1>1. ASSUME NEW x, NEW y PROVE MessageFindings(i, x, y, tolerance) = {} <=> Clear(x, y)
  <2> DEFINE part(f, differs) == IF differs THEN {FindingAt("websocket", f, i)} ELSE {}
  <2>1. MessageFindings(i, x, y, tolerance) =
          part("direction", x.dir # y.dir)
          \cup IF x.mkind # y.mkind THEN part("kind", TRUE)
               ELSE part("close_code", x.code # y.code)
                    \cup part("reason", x.reason # y.reason /\ Hidden(x, y))
                    \cup part("cadence", Late(x, y))
                    \cup part("payload", Apart(x, y))
    BY Zenon DEF MessageFindings
  <2> HIDE DEF Late, Hidden, Apart
  <2> QED  BY <2>1
<1>2. AbsDiff(a.at, b.at) = AbsDiff(b.at, a.at)  BY AbsDiffSymmetric
<1>3. Late(a, b) <=> Late(b, a)  BY <1>2
<1>4. {a.red, b.red} = {b.red, a.red} /\ {a.payload, b.payload} = {b.payload, a.payload}  OBVIOUS
<1>5. Hidden(a, b) <=> Hidden(b, a)  BY <1>4
<1>6. Wild(a, b) <=> Wild(b, a)  BY <1>4 DEF Wild
<1>7. SamePayload(a, b) <=> SamePayload(b, a)  BY <1>4 DEF SamePayload
<1> HIDE DEF Late, Hidden
<1>8. Clear(a, b) <=> Clear(b, a)  BY <1>3, <1>5, <1>6, <1>7
<1> HIDE DEF Clear
<1> QED  BY <1>1, <1>8

IsConversation(l) == IsEvents(l.messages)

LEMMA ConversationsSymmetric ==
  ASSUME NEW l, NEW r, NEW tolerance, IsConversation(l), IsConversation(r)
  PROVE  CompareConversations(l, r, tolerance) = {} <=> CompareConversations(r, l, tolerance) = {}
<1> DEFINE Each(x, y) == \A i \in DOMAIN x.messages \cap DOMAIN y.messages :
                            MessageFindings(i, x.messages[i], y.messages[i], tolerance) = {}
           Clear(x, y) == /\ x.subprotocol = y.subprotocol /\ x.terminal = y.terminal
                          /\ Len(x.messages) = Len(y.messages)
                          /\ Each(x, y)
<1>1. ASSUME NEW x, NEW y PROVE CompareConversations(x, y, tolerance) = {} <=> Clear(x, y)
  <2> DEFINE M(i) == MessageFindings(i, x.messages[i], y.messages[i], tolerance)
             K == DOMAIN x.messages \cap DOMAIN y.messages
             All == UNION {M(i) : i \in K}
  <2>1. CompareConversations(x, y, tolerance) =
          (IF x.subprotocol # y.subprotocol
           THEN {Finding("websocket", "handshake.subprotocol")} ELSE {})
          \cup (IF x.terminal # y.terminal THEN {Finding("websocket", "terminal")} ELSE {})
          \cup (IF Len(x.messages) # Len(y.messages)
                THEN {Finding("websocket", "messages.count")} ELSE {})
          \cup All
    BY DEF CompareConversations
  <2>2. All = {} <=> \A i \in K : M(i) = {}
    <3> HIDE DEF M, K
    <3> QED  OBVIOUS
  <2> HIDE DEF All
  <2>3. CompareConversations(x, y, tolerance) = {} <=>
           /\ x.subprotocol = y.subprotocol /\ x.terminal = y.terminal
           /\ Len(x.messages) = Len(y.messages) /\ All = {}
    BY <2>1
  <2> QED  BY <2>2, <2>3
<1>2. /\ \A i \in DOMAIN l.messages : l.messages[i].at \in Nat
      /\ \A i \in DOMAIN r.messages : r.messages[i].at \in Nat
  BY ListElements DEF IsConversation, IsEvents
<1>3. Each(l, r) <=> Each(r, l)  BY <1>2, MessagesSymmetric
<1> HIDE DEF Each
<1>4. Clear(l, r) <=> Clear(r, l)  BY <1>3
<1> HIDE DEF Clear
<1> QED  BY <1>1, <1>4

(* A flow whose body cannot be read is still a flow.                        *)
LEMMA BodiedFlow == ASSUME NEW f, IsFlow(f) PROVE IsFlow(Bodied(f))
<1>1. CASE f.readable  BY <1>1 DEF Bodied
<1>2. CASE ~f.readable
  <2> DEFINE g == [f EXCEPT !.body = <<>>]
  <2>1. Bodied(f) = g  BY <1>2 DEF Bodied
  <2>2. /\ g.kind = f.kind /\ g.offset = f.offset /\ g.headers = f.headers
        /\ g.trailers = f.trailers /\ g.events = f.events
        /\ g.conversation = f.conversation /\ g.elapsed = f.elapsed
    OBVIOUS
  <2>3. "body" \in DOMAIN f => g.body = <<>>  OBVIOUS
  <2> QED  BY <2>1, <2>2, <2>3 DEF IsFlow, IsList, Range
<1> QED  BY <1>1, <1>2

LEMMA PairSymmetric ==
  ASSUME NEW b, NEW c, NEW policy, IsFlow(b), IsFlow(c)
  PROVE  DiffFindings(b, c, policy, {}) = {} <=> DiffFindings(c, b, policy, {}) = {}
<1>1. IsEvents(b.events) /\ IsEvents(c.events)  BY DEF IsFlow, IsEvents
<1>2. IsConversation(b.conversation) /\ IsConversation(c.conversation)
  BY DEF IsFlow, IsConversation, IsEvents
<1>3. CompareFlows(Bodied(b), Bodied(c), policy, {}) = {}
        <=> CompareFlows(Bodied(c), Bodied(b), policy, {}) = {}
  BY BodiedFlow, FlowsSymmetric
<1>4. CompareStreams(b.events, c.events, policy.tolerance) = {}
        <=> CompareStreams(c.events, b.events, policy.tolerance) = {}  BY <1>1, StreamsSymmetric
<1>5. CompareConversations(b.conversation, c.conversation, policy.wsTolerance) = {}
        <=> CompareConversations(c.conversation, b.conversation, policy.wsTolerance) = {}
  BY <1>2, ConversationsSymmetric
<1> QED  BY <1>3, <1>4, <1>5 DEF DiffFindings

(* The two fixtures of a diff can be exchanged.                             *)
LEMMA SuccessSymmetric ==
  ASSUME NEW l, NEW r, NEW policy, IsList(l), IsList(r), \A f \in Range(l) \cup Range(r) : IsFlow(f)
  PROVE  DiffSuccess(l, r, policy, {}) <=> DiffSuccess(r, l, policy, {})
<1>1. /\ DOMAIN l = 1..Len(l) /\ Len(l) \in Nat /\ \A i \in DOMAIN l : l[i] \in Range(l)
      /\ DOMAIN r = 1..Len(r) /\ Len(r) \in Nat /\ \A i \in DOMAIN r : r[i] \in Range(r)
  BY ListElements
<1> SUFFICES ASSUME Len(l) = Len(r) PROVE DiffSuccess(l, r, policy, {}) <=> DiffSuccess(r, l, policy, {})
  BY DEF DiffSuccess
<1>2. Paired(l, r) = DOMAIN l /\ Paired(r, l) = DOMAIN l /\ DOMAIN l = DOMAIN r  BY <1>1 DEF Paired
<1>3. ASSUME NEW i \in DOMAIN l
      PROVE  DiffFindings(l[i], r[i], policy, {}) = {} <=> DiffFindings(r[i], l[i], policy, {}) = {}
  <2>1. IsFlow(l[i]) /\ IsFlow(r[i])  BY <1>1, <1>2
  <2> QED  BY <2>1, PairSymmetric
<1> QED  BY <1>2, <1>3 DEF DiffSuccess

-----------------------------------------------------------------------------
(* The timeline order.                                                      *)

\* What is recorded of the invocation.
InvOK == inv \in Invocations

(* What the assumptions say of the invocation's flows.                      *)
LEMMA FixtureOK ==
  ASSUME InvOK
  PROVE  /\ Indices = 1 .. Len(Flows) /\ Len(Flows) \in Nat
         /\ \A i \in Indices : IsFlow(Flows[i]) /\ Flows[i].offset \in Nat
         /\ \A i \in Indices : \A c \in Answers(Flows[i]) : IsAnswer(Flows[i], c)
         /\ inv.cmd \in {"replay", "test", "diff"} /\ inv.scheduler \in {"sequential", "timeline"}
         /\ inv.bound \subseteq Nat
<1>1. IsList(Flows)  BY FixtureAssumption DEF InvOK, Flows
<1>2. /\ Indices = 1 .. Len(Flows) /\ Len(Flows) \in Nat
      /\ \A i \in Indices : Flows[i] \in Range(Flows)  BY <1>1, ListElements DEF Indices
<1>3. \A f \in Range(Flows) : IsFlow(f) /\ \A c \in Answers(f) : IsAnswer(f, c)
  BY FixtureAssumption DEF InvOK, Flows
<1> QED  BY <1>2, <1>3, RegressionAssumption DEF InvOK, IsFlow

(* Before is a strict order of the flows, and a total one.                  *)
LEMMA BeforeOrder ==
  ASSUME InvOK
  PROVE  /\ \A i \in Indices : ~Before(i, i)
         /\ \A i, j \in Indices : i # j => Before(i, j) \/ Before(j, i)
         /\ \A i, j, k \in Indices : Before(i, j) /\ Before(j, k) => Before(i, k)
<1>1. Indices \subseteq Nat /\ \A i \in Indices : Flows[i].offset \in Nat  BY FixtureOK
<1> QED  BY <1>1 DEF Before

IsOrder(o) == o \in [Indices -> Indices] /\ \A k, m \in Indices : k < m => Before(o[k], o[m])

(* Ranking the flows by what precedes them sorts them.                      *)
LEMMA OrderExists == ASSUME InvOK PROVE \E o : IsOrder(o)
<1> DEFINE Upto(i) == {j \in Indices : j = i \/ Before(j, i)}
           Rank == [i \in Indices |-> Cardinality(Upto(i))]
           o == [k \in Indices |-> CHOOSE i \in Indices : Rank[i] = k]
<1>1. Indices = 1 .. Len(Flows) /\ Len(Flows) \in Nat  BY FixtureOK
<1>2. IsFiniteSet(Indices) /\ Cardinality(Indices) = Len(Flows)  BY SMTT(60), <1>1, FS_Interval
<1>3. ASSUME NEW i \in Indices
      PROVE  IsFiniteSet(Upto(i)) /\ Cardinality(Upto(i)) \in Indices
  <2>1. Upto(i) \in SUBSET Indices /\ i \in Upto(i)  OBVIOUS
  <2> HIDE DEF Upto
  <2>2. IsFiniteSet(Upto(i)) /\ Cardinality(Upto(i)) <= Cardinality(Indices)  BY <1>2, <2>1, FS_Subset
  <2>3. Cardinality(Upto(i)) \in Nat  BY <2>2, FS_CardinalityType
  <2>4. Cardinality(Upto(i)) # 0  BY <2>1, <2>2, FS_EmptySet
  <2> QED  BY <1>1, <1>2, <2>2, <2>3, <2>4
<1>4. ASSUME NEW i \in Indices, NEW j \in Indices, Before(i, j) PROVE Rank[i] < Rank[j]
  <2>1. Upto(i) \subseteq Upto(j) /\ j \in Upto(j) /\ j \notin Upto(i)  BY <1>4, BeforeOrder
  <2>2. IsFiniteSet(Upto(i)) /\ IsFiniteSet(Upto(j))  BY <1>3
  <2>3. Rank[i] = Cardinality(Upto(i)) /\ Rank[j] = Cardinality(Upto(j))  OBVIOUS
  <2> HIDE DEF Upto, Rank
  <2>4. Cardinality(Upto(i)) \in Nat /\ Cardinality(Upto(j)) \in Nat  BY <2>2, FS_CardinalityType
  <2>5. Upto(i) \in SUBSET Upto(j) /\ Upto(i) # Upto(j)  BY <2>1
  <2>6. Cardinality(Upto(i)) <= Cardinality(Upto(j)) /\ Cardinality(Upto(i)) # Cardinality(Upto(j))
    BY <2>2, <2>5, FS_Subset
  <2> QED  BY <2>3, <2>4, <2>6
<1>5. Rank \in [Indices -> Indices]  BY <1>3
<1> HIDE DEF Rank
<1>6. \A i, j \in Indices : i # j => Rank[i] # Rank[j]
  <2> SUFFICES ASSUME NEW i \in Indices, NEW j \in Indices, i # j PROVE Rank[i] # Rank[j]  OBVIOUS
  <2>1. Before(i, j) \/ Before(j, i)  BY BeforeOrder
  <2>2. Rank[i] \in Nat /\ Rank[j] \in Nat  BY <1>1, <1>5
  <2> QED  BY <1>4, <2>1, <2>2
<1>7. Rank \in Surjection(Indices, Indices)
  <2>1. Rank \in Injection(Indices, Indices)  BY <1>5, <1>6 DEF Injection, IsInjective
  <2> QED  BY <1>2, <2>1, FS_Injection
<1>8. \A k \in Indices : \E i \in Indices : Rank[i] = k  BY <1>7 DEF Surjection
<1>9. \A k \in Indices : o[k] \in Indices /\ Rank[o[k]] = k  BY <1>8
<1>10. o \in [Indices -> Indices]  BY <1>9
<1> HIDE DEF o
<1>11. ASSUME NEW k \in Indices, NEW m \in Indices, k < m PROVE Before(o[k], o[m])
  <2>1. o[k] # o[m]  BY <1>1, <1>9, <1>11
  <2>2. Before(o[k], o[m]) \/ Before(o[m], o[k])  BY <1>9, <2>1, BeforeOrder
  <2>3. ~Before(o[m], o[k])
    <3> SUFFICES ASSUME Before(o[m], o[k]) PROVE FALSE  OBVIOUS
    <3>1. Rank[o[m]] < Rank[o[k]]  BY <1>4, <1>9
    <3>2. m < k  BY <1>9, <3>1
    <3> QED  BY <1>1, <1>11, <3>2
  <2> QED  BY <2>2, <2>3
<1> QED  BY <1>10, <1>11 DEF IsOrder

(* The order is a list of all the flows, each once, the earlier first.      *)
LEMMA TimelineOrderOK ==
  ASSUME InvOK
  PROVE  /\ IsOrder(TimelineOrder)
         /\ Len(TimelineOrder) = Len(Flows)
         /\ \A k, m \in Indices : TimelineOrder[k] = TimelineOrder[m] => k = m
         /\ \A i \in Indices : \E k \in Indices : TimelineOrder[k] = i
<1> DEFINE o == TimelineOrder
<1>1. IsOrder(o)  BY OrderExists DEF TimelineOrder, IsOrder
<1> HIDE DEF o
<1>2. Indices = 1 .. Len(Flows) /\ Len(Flows) \in Nat  BY FixtureOK
<1>3. o \in [Indices -> Indices] /\ \A k, m \in Indices : k < m => Before(o[k], o[m])
  BY <1>1 DEF IsOrder
<1>4. o \in Seq(Indices) /\ Len(o) = Len(Flows)  BY <1>2, <1>3
<1>5. \A k, m \in Indices : k # m => o[k] # o[m]
  <2> SUFFICES ASSUME NEW k \in Indices, NEW m \in Indices, k < m PROVE o[k] # o[m]  BY <1>2
  <2>1. Before(o[k], o[m]) /\ o[k] \in Indices  BY <1>3
  <2> QED  BY <2>1, BeforeOrder
<1>6. o \in Surjection(Indices, Indices)
  <2>1. o \in Injection(Indices, Indices)  BY <1>3, <1>5 DEF Injection, IsInjective
  <2>2. IsFiniteSet(Indices)  BY <1>2, FS_Interval
  <2> QED  BY <2>1, <2>2, FS_Injection
<1>7. \A i \in Indices : \E k \in Indices : o[k] = i  BY <1>6 DEF Surjection
<1> QED  BY <1>1, <1>4, <1>5, <1>7 DEF o

-----------------------------------------------------------------------------
(* The invariant.                                                           *)

\* A flow that has no answer, one whose answer was reported, and one whose
\* answer was not.
Unseen(a, r) == a = <<>> /\ r = NoReport
Seen(i, a, r) == \E c \in Answers(Flows[i]) : a = <<c>> /\ r = CandidateReport(Flows[i], c) /\ r.ok
Lost(i, a, r) == r = NoReport /\ \E c \in Answers(Flows[i]) : a = <<c>>

FlowState(i, a, r) == Unseen(a, r) \/ Seen(i, a, r) \/ Lost(i, a, r)

TaskStates == {"asleep", "sent", "done"}

BaseInv ==
    /\ InvOK
    /\ phase \in {"open", "sequential", "timeline", "exit"}
    /\ exit \in {NotYet} \cup 0 .. 4
    /\ phase # "exit" => exit = NotYet
    /\ phase = "open" => next = 1
    /\ phase # "timeline" => Live = {}
    /\ next \in 1 .. Len(Flows) + 1
    /\ Live \subseteq Indices
    /\ \A i \in Live : tasks[i].state \in TaskStates
    /\ inv.cmd = "diff" => phase \in {"open", "exit"}

FlowInv == inv.cmd # "diff" =>
    /\ DOMAIN reports = Indices /\ DOMAIN answered = Indices /\ DOMAIN startedAt = Indices
    /\ \A i \in Indices : FlowState(i, answered[i], reports[i])
    /\ phase = "open" => \A i \in Indices : Unseen(answered[i], reports[i]) /\ startedAt[i] = NotYet

SeqInv == phase = "sequential" =>
    \A i \in Indices : IF i < next THEN Seen(i, answered[i], reports[i])
                       ELSE Unseen(answered[i], reports[i])

\* The flow has been given a task.
Placed(i) == \E k \in Indices : k < next /\ order[k] = i

\* What a finished task holds.
Finished(i, a, r, t) ==
    /\ r = NoReport
    /\ \E c \in Answers(Flows[i]) : a = <<c>> /\ t = CandidateReport(Flows[i], c)

TaskOK(i) ==
    IF i \in Live
    THEN /\ Placed(i)
         /\ IF tasks[i].state = "done"
            THEN Finished(i, answered[i], reports[i], tasks[i].report)
            ELSE Unseen(answered[i], reports[i])
    ELSE IF Placed(i) THEN Seen(i, answered[i], reports[i])
         ELSE Unseen(answered[i], reports[i]) /\ startedAt[i] = NotYet

TimelineInv == phase = "timeline" =>
    /\ order = TimelineOrder
    /\ inv.concurrency \in Nat /\ Cardinality(Live) <= inv.concurrency
    /\ \A i \in Indices : TaskOK(i)
    /\ \A i \in Indices : startedAt[i] # NotYet => startedAt[i] >= Flows[i].offset

\* The exit code follows the reports.
EndInv == exit \in {0, 1} =>
    /\ inv.cmd # "diff" => \A i \in Indices : Seen(i, answered[i], reports[i])
    /\ inv.cmd = "test" => (exit = 0 <=> \A i \in Indices : reports[i].findings = {})
    /\ inv.cmd = "diff" => (exit = 0 <=> DiffSuccess(Flows, inv.candidate, inv.policy, inv.bound))

RunInv == BaseInv /\ FlowInv /\ SeqInv /\ TimelineInv /\ EndInv

-----------------------------------------------------------------------------
(* The steps.                                                               *)

LEMMA RunInit == Init => RunInv
<1> SUFFICES ASSUME Init PROVE RunInv  OBVIOUS
<1>1. InvOK /\ phase = "open" /\ exit = NotYet /\ next = 1 /\ Live = {} /\ inv \in Invocations
  BY DEF Init, InvOK, NoTasks, Live
<1>2. Len(Flows) \in Nat /\ Indices = 1 .. Len(Flows)  BY <1>1, FixtureOK
<1>3. BaseInv  BY <1>1, <1>2 DEF BaseInv
<1>4. /\ DOMAIN reports = Indices /\ DOMAIN answered = Indices /\ DOMAIN startedAt = Indices
      /\ \A i \in Indices : answered[i] = <<>> /\ reports[i] = NoReport /\ startedAt[i] = NotYet
  BY DEF Init, Indices, Flows
<1>5. FlowInv  BY <1>4 DEF FlowInv, FlowState, Unseen
<1>6. SeqInv /\ TimelineInv /\ EndInv  BY <1>1 DEF SeqInv, TimelineInv, EndInv, NotYet
<1> QED  BY <1>3, <1>5, <1>6 DEF RunInv

(* Nothing that is read of the invocation changes.                          *)
LEMMA Rigid ==
  ASSUME inv' = inv
  PROVE  /\ Flows' = Flows /\ Indices' = Indices /\ (InvOK' <=> InvOK)
         /\ \A b, c : CandidateReport(b, c)' = CandidateReport(b, c)
         /\ \A i, a, r : /\ Seen(i, a, r)' <=> Seen(i, a, r)
                         /\ Lost(i, a, r)' <=> Lost(i, a, r)
                         /\ FlowState(i, a, r)' <=> FlowState(i, a, r)
         /\ \A i, a, r, t : Finished(i, a, r, t)' <=> Finished(i, a, r, t)
         /\ TimelineOrder' = TimelineOrder
<1>1. Flows' = Flows /\ Indices' = Indices /\ (InvOK' <=> InvOK)  BY DEF Flows, Indices, InvOK
<1>2. NeedsStreams' <=> NeedsStreams  BY DEF NeedsStreams
<1>3. ASSUME NEW b, NEW c PROVE CandidateReport(b, c)' = CandidateReport(b, c)
  BY <1>2 DEF CandidateReport
<1>4. \A i, j : Before(i, j)' <=> Before(i, j)  BY <1>1 DEF Before
<1>5. TimelineOrder' = TimelineOrder  BY <1>1, <1>4, Zenon DEF TimelineOrder
<1> QED  BY <1>1, <1>3, <1>5 DEF Seen, Lost, FlowState, Finished

LEMMA OpenErrors ==
  ASSUME InvOK
  PROVE  /\ OpenError \in {None, "fixture", "configuration"}
         /\ OpenError = None /\ inv.scheduler = "timeline" => inv.concurrency \in 1 .. MaxConcurrency
<1>1. inv.scheduler \in {"sequential", "timeline"}  BY FixtureOK
<1>2. CASE NeedsStreams /\ ~Extension  BY <1>2 DEF OpenError, None
<1>3. CASE ~(NeedsStreams /\ ~Extension) /\ inv.scheduler = "sequential"  BY <1>3 DEF OpenError, None
<1>4. CASE ~(NeedsStreams /\ ~Extension) /\ inv.scheduler = "timeline"
  <2> DEFINE e == CASE inv.concurrency \notin 1 .. MaxConcurrency -> "configuration"
                    [] inv.concurrency \in 1 .. MaxConcurrency /\ ~Extension -> "configuration"
                    [] inv.concurrency \in 1 .. MaxConcurrency /\ Extension ->
                         IF \E i \in Indices : ~Flows[i].timed THEN "fixture"
                         ELSE IF \E i \in Indices : Flows[i].offset > MaxOffset
                         THEN "configuration" ELSE None
  <2>1. OpenError = e  BY <1>4 DEF OpenError
  <2>2. e \in {None, "fixture", "configuration"}  OBVIOUS
  <2>3. e = None => inv.concurrency \in 1 .. MaxConcurrency  BY DEF None
  <2> QED  BY <2>1, <2>2, <2>3
<1> QED  BY <1>1, <1>2, <1>3, <1>4

(* A step that ends the command with an error.                              *)
LEMMA AbortStep ==
  ASSUME RunInv, NEW class \in {"configuration", "fixture", "runtime"}, Abort(class),
         UNCHANGED <<inv, next>>, phase # "exit",
         inv.cmd # "diff" =>
            /\ DOMAIN reports' = Indices /\ DOMAIN answered' = Indices /\ DOMAIN startedAt' = Indices
            /\ \A i \in Indices : FlowState(i, answered'[i], reports'[i])
  PROVE  RunInv'
<1>1. exit' \in {2, 3, 4} /\ phase' = "exit" /\ Live' = {}  BY DEF Abort, ExitCode, NoTasks, Live
<1>2. BaseInv'  BY <1>1, Rigid DEF RunInv, BaseInv, InvOK, Flows
<1>3. FlowInv'  BY <1>1, Rigid DEF FlowInv
<1>4. SeqInv' /\ TimelineInv' /\ EndInv'  BY <1>1 DEF SeqInv, TimelineInv, EndInv
<1> QED  BY <1>2, <1>3, <1>4 DEF RunInv

LEMMA OpenStep == ASSUME RunInv, Open PROVE RunInv'
<1>1. /\ InvOK /\ inv.cmd # "diff" /\ phase = "open" /\ next = 1 /\ exit = NotYet /\ Live = {}
      /\ inv' = inv /\ UNCHANGED <<next, now, reports, answered, startedAt>>
  BY DEF RunInv, BaseInv, Open
<1>2. /\ DOMAIN reports = Indices /\ DOMAIN answered = Indices /\ DOMAIN startedAt = Indices
      /\ \A i \in Indices : FlowState(i, answered[i], reports[i])
      /\ \A i \in Indices : Unseen(answered[i], reports[i]) /\ startedAt[i] = NotYet
  BY <1>1 DEF RunInv, FlowInv
<1>3. CASE OpenError # None
  <2>1. Abort(OpenError) /\ OpenError \in {"configuration", "fixture", "runtime"}
    BY <1>1, <1>3, OpenErrors DEF Open
  <2> QED  BY <1>1, <1>2, <2>1, AbortStep
<1>4. CASE OpenError = None
  <2>1. /\ phase' = inv.scheduler
        /\ order' = IF inv.scheduler = "timeline" THEN TimelineOrder ELSE <<>>
        /\ UNCHANGED <<exit, tasks>>
    BY <1>4 DEF Open
  <2>2. inv.scheduler \in {"sequential", "timeline"} /\ Indices = 1 .. Len(Flows) /\ Len(Flows) \in Nat
    BY <1>1, FixtureOK
  <2>3. Live' = Live  BY <2>1 DEF Live
  <2>4. BaseInv'  BY <1>1, <2>1, <2>2, <2>3, Rigid DEF RunInv, BaseInv
  <2>5. FlowInv'  BY <1>1, <1>2, <2>1, <2>2, Rigid DEF FlowInv, Unseen
  <2>6. SeqInv'
    <3>1. \A i \in Indices : ~(i < next)  BY <1>1, <2>2
    <3> QED  BY <1>1, <1>2, <3>1, Rigid DEF SeqInv, Unseen
  <2>7. TimelineInv'
    <3> SUFFICES ASSUME phase' = "timeline" PROVE TimelineInv'  BY DEF TimelineInv
    <3>1. order' = TimelineOrder' /\ inv.concurrency \in Nat
      BY <1>1, <1>4, <2>1, OpenErrors, RegressionAssumption, Rigid
    <3>2. Cardinality(Live') <= inv'.concurrency  BY <1>1, <2>3, <3>1, FS_EmptySet
    <3>3. \A i \in Indices : ~Placed(i)'  BY <1>1, <2>2, Rigid DEF Placed
    <3>4. \A i \in Indices : TaskOK(i)'  BY <1>1, <1>2, <2>3, <3>3 DEF TaskOK, Unseen
    <3> QED  BY <1>1, <1>2, <3>1, <3>2, <3>4, Rigid DEF TimelineInv
  <2>8. EndInv'  BY <1>1, <2>1 DEF EndInv, NotYet
  <2> QED  BY <2>4, <2>5, <2>6, <2>7, <2>8 DEF RunInv
<1> QED  BY <1>3, <1>4

LEMMA TickStep == ASSUME RunInv, Tick PROVE RunInv'
<1>1. UNCHANGED <<inv, phase, order, next, tasks, reports, answered, startedAt, exit, junit>>  BY DEF Tick
<1>2. Live' = Live  BY <1>1 DEF Live
<1>3. BaseInv'  BY <1>1, <1>2, Rigid DEF RunInv, BaseInv
<1>4. FlowInv'  BY <1>1, Rigid DEF RunInv, FlowInv, Unseen
<1>5. SeqInv'  BY <1>1, Rigid DEF RunInv, SeqInv, Unseen
<1>6. \A i : Placed(i)' <=> Placed(i)  BY <1>1, Rigid DEF Placed
<1>7. \A i : TaskOK(i)' <=> TaskOK(i)  BY <1>1, <1>2, <1>6, Rigid DEF TaskOK, Unseen
<1>8. TimelineInv'  BY <1>1, <1>2, <1>7, Rigid DEF RunInv, TimelineInv
<1>9. EndInv'  BY <1>1, <1>3, Rigid DEF RunInv, EndInv, BaseInv, NotYet, Tick
<1> QED  BY <1>3, <1>4, <1>5, <1>8, <1>9 DEF RunInv

(* A report that is not there is NoReport.                                  *)
LEMMA ReportShape ==
  ASSUME InvOK, NEW i \in Indices, NEW c \in Answers(Flows[i])
  PROVE  /\ CandidateReport(Flows[i], c).ok \in BOOLEAN
         /\ ~CandidateReport(Flows[i], c).ok => CandidateReport(Flows[i], c) = NoReport
         /\ CandidateReport(Flows[i], c).ok => c.kind # "refused"
<1> DEFINE b == Flows[i]
           f == CandidateReport(b, c)
<1>1. f = NoReport \/ (c.kind # "refused" /\ \E s : f = Reported(s))
  <2>1. CASE c.kind = "refused"  BY <2>1 DEF CandidateReport
  <2>2. CASE c.kind # "refused" /\ b.kind = "response" /\ b.status = 101
    <3>1. f = IF b.conversation = NoConversation THEN NoReport ELSE Reported(c.found)
      BY <2>2 DEF CandidateReport
    <3> QED  BY <2>2, <3>1
  <2>3. CASE c.kind # "refused" /\ ~(b.kind = "response" /\ b.status = 101)
    <3> DEFINE s == CompareFlows(b, c, inv.policy, inv.bound)
                    \cup IF NeedsStreams
                         THEN CompareStreams(b.events, c.events, inv.policy.tolerance) ELSE {}
    <3>1. f = IF NeedsStreams /\ ~b.timed THEN NoReport ELSE Reported(s)
      BY <2>3, Zenon DEF CandidateReport
    <3> HIDE DEF s
    <3> QED  BY <2>3, <3>1
  <2> QED  BY <2>1, <2>2, <2>3
<1> HIDE DEF f, b
<1>2. f.ok \in BOOLEAN /\ (~f.ok => f = NoReport) /\ (f.ok => c.kind # "refused")
  <2>1. CASE f = NoReport
    <3>1. f.ok = FALSE  BY <2>1 DEF NoReport
    <3> QED  BY <2>1, <3>1
  <2>2. CASE c.kind # "refused" /\ \E s : f = Reported(s)
    <3>1. f.ok = TRUE  BY <2>2 DEF Reported
    <3> QED  BY <2>2, <3>1
  <2> QED  BY <1>1, <2>1, <2>2
<1> QED  BY <1>2 DEF f, b

LEMMA SequentialStep == ASSUME RunInv, NEW c, Sequential(c) PROVE RunInv'
<1> DEFINE f == CandidateReport(Flows[next], c)
<1>1. /\ phase = "sequential" /\ next <= Len(Flows) /\ c \in Answers(Flows[next])
      /\ answered' = [answered EXCEPT ![next] = Append(@, c)]
      /\ startedAt' = [startedAt EXCEPT ![next] = now]
      /\ inv' = inv
      /\ IF ~f.ok THEN Abort("runtime") /\ UNCHANGED <<reports, next>>
         ELSE /\ reports' = [reports EXCEPT ![next] = f]
              /\ next' = next + 1
              /\ UNCHANGED <<phase, exit, tasks>>
  BY DEF Sequential
<1>2. /\ InvOK /\ inv.cmd # "diff" /\ exit = NotYet /\ Live = {} /\ next \in 1 .. Len(Flows) + 1
  BY <1>1 DEF RunInv, BaseInv
<1>3. Indices = 1 .. Len(Flows) /\ Len(Flows) \in Nat /\ next \in Indices  BY <1>1, <1>2, FixtureOK
<1>4. /\ DOMAIN reports = Indices /\ DOMAIN answered = Indices /\ DOMAIN startedAt = Indices
      /\ \A i \in Indices : FlowState(i, answered[i], reports[i])
  BY <1>2 DEF RunInv, FlowInv
<1>5. /\ \A i \in Indices : IF i < next THEN Seen(i, answered[i], reports[i])
                            ELSE Unseen(answered[i], reports[i])
  BY <1>1 DEF RunInv, SeqInv
<1>6. answered[next] = <<>> /\ reports[next] = NoReport  BY <1>3, <1>5 DEF Unseen
<1>7. answered'[next] = <<c>> /\ \A i \in Indices : i # next => answered'[i] = answered[i]
  BY <1>1, <1>3, <1>4, <1>6
<1>8. DOMAIN answered' = Indices /\ DOMAIN startedAt' = Indices  BY <1>1, <1>4
<1>9. CASE ~f.ok
  <2>1. Abort("runtime") /\ UNCHANGED <<reports, next>>  BY <1>1, <1>9
  <2>2. Lost(next, answered'[next], reports'[next])  BY <1>1, <1>6, <1>7, <2>1 DEF Lost
  <2>3. \A i \in Indices : FlowState(i, answered'[i], reports'[i])
    BY <1>4, <1>7, <2>1, <2>2 DEF FlowState
  <2> QED  BY <1>1, <1>4, <1>8, <2>1, <2>3, AbortStep
<1>10. CASE f.ok
  <2>1. /\ reports' = [reports EXCEPT ![next] = f]
        /\ next' = next + 1
        /\ UNCHANGED <<phase, exit, tasks>>
    BY <1>1, <1>10
  <2>2. /\ DOMAIN reports' = Indices /\ reports'[next] = f
        /\ \A i \in Indices : i # next => reports'[i] = reports[i]
    BY <1>3, <1>4, <2>1
  <2>3. Seen(next, answered'[next], reports'[next])  BY <1>1, <1>7, <1>10, <2>2 DEF Seen
  <2>4. ASSUME NEW i \in Indices
        PROVE  IF i < next' THEN Seen(i, answered'[i], reports'[i]) ELSE Unseen(answered'[i], reports'[i])
    <3>1. CASE i = next  BY <1>3, <2>1, <2>3, <3>1
    <3>2. CASE i # next
      <4>1. i < next' <=> i < next  BY <1>3, <2>1, <3>2
      <4> QED  BY <1>5, <1>7, <2>2, <3>2, <4>1
    <3> QED  BY <3>1, <3>2
  <2>5. SeqInv'  BY <1>1, <2>4, Rigid DEF SeqInv, Unseen
  <2>6. \A i \in Indices : FlowState(i, answered'[i], reports'[i])  BY <2>4 DEF FlowState
  <2>7. FlowInv'  BY <1>1, <1>8, <2>1, <2>2, <2>6, Rigid DEF FlowInv, Unseen
  <2>8. Live' = Live  BY <2>1 DEF Live
  <2>9. BaseInv'  BY <1>1, <1>2, <1>3, <2>1, <2>8, Rigid DEF RunInv, BaseInv
  <2>10. TimelineInv' /\ EndInv'  BY <1>1, <1>2, <2>1 DEF TimelineInv, EndInv, NotYet
  <2> QED  BY <2>5, <2>7, <2>9, <2>10 DEF RunInv
<1> QED  BY <1>9, <1>10

(* What holds of a running timeline.                                        *)
LEMMA Running ==
  ASSUME RunInv, phase = "timeline"
  PROVE  /\ InvOK /\ inv.cmd # "diff" /\ exit = NotYet
         /\ Indices = 1 .. Len(Flows) /\ Len(Flows) \in Nat /\ Live \subseteq Indices
         /\ next \in 1 .. Len(Flows) + 1
         /\ \A i \in Live : tasks[i].state \in TaskStates
         /\ DOMAIN reports = Indices /\ DOMAIN answered = Indices /\ DOMAIN startedAt = Indices
         /\ \A i \in Indices : FlowState(i, answered[i], reports[i])
         /\ order = TimelineOrder /\ Len(order) = Len(Flows)
         /\ inv.concurrency \in Nat /\ Cardinality(Live) <= inv.concurrency
         /\ \A i \in Indices : TaskOK(i)
         /\ \A i \in Indices : startedAt[i] # NotYet => startedAt[i] >= Flows[i].offset
         /\ IsFiniteSet(Live) /\ Cardinality(Live) \in Nat
<1>1. /\ InvOK /\ inv.cmd # "diff" /\ exit = NotYet /\ Live \subseteq Indices
      /\ next \in 1 .. Len(Flows) + 1 /\ \A i \in Live : tasks[i].state \in TaskStates
  BY DEF RunInv, BaseInv
<1>2. Indices = 1 .. Len(Flows) /\ Len(Flows) \in Nat  BY <1>1, FixtureOK
<1>3. IsFiniteSet(Live) /\ Cardinality(Live) \in Nat
  <2>1. IsFiniteSet(Indices) /\ Live \in SUBSET Indices  BY <1>1, <1>2, FS_Interval
  <2> QED  BY <2>1, FS_Subset, FS_CardinalityType
<1>4. order = TimelineOrder /\ Len(order) = Len(Flows)  BY <1>1, TimelineOrderOK DEF RunInv, TimelineInv
<1> QED  BY <1>1, <1>2, <1>3, <1>4 DEF RunInv, TimelineInv, FlowInv

(* A step of the timeline that changes only what is kept of flow i.         *)
LEMMA TimelineStep ==
  ASSUME RunInv, phase = "timeline", NEW i \in Indices,
         UNCHANGED <<inv, phase, exit, order>>, next' \in 1 .. Len(Flows) + 1,
         Live' \subseteq Indices, \A j \in Live' : tasks'[j].state \in TaskStates,
         Cardinality(Live') <= inv.concurrency,
         DOMAIN reports' = Indices, DOMAIN answered' = Indices, DOMAIN startedAt' = Indices,
         FlowState(i, answered'[i], reports'[i]), TaskOK(i)',
         startedAt'[i] # NotYet => startedAt'[i] >= Flows[i].offset,
         \A j \in Indices \ {i} :
            /\ reports'[j] = reports[j] /\ answered'[j] = answered[j] /\ startedAt'[j] = startedAt[j]
            /\ (j \in Live' <=> j \in Live) /\ (Placed(j)' <=> Placed(j))
            /\ j \in Live => tasks'[j] = tasks[j]
  PROVE  RunInv'
<1>1. BaseInv'
  BY Running, Rigid DEF BaseInv
<1>2. FlowInv'
  BY Running, Rigid DEF FlowInv
<1>3. ASSUME NEW j \in Indices \ {i} PROVE TaskOK(j)'
  <2>1. TaskOK(j)  BY Running
  <2> QED  BY <2>1, Rigid DEF TaskOK, Unseen
<1>4. \A j \in Indices : TaskOK(j)'  BY <1>3
<1>5. TimelineInv'  BY <1>4, Running, Rigid DEF TimelineInv
<1>6. SeqInv' /\ EndInv'  BY Running DEF SeqInv, EndInv, NotYet
<1> QED  BY <1>1, <1>2, <1>5, <1>6 DEF RunInv

LEMMA SpawnStep == ASSUME RunInv, Spawn PROVE RunInv'
<1> DEFINE asleep == [state |-> "asleep", report |-> NoReport]
<1>1. /\ phase = "timeline" /\ next <= Len(order) /\ HasSlot
      /\ tasks' = SetTask(order[next], asleep)
      /\ next' = next + 1
      /\ UNCHANGED <<inv, phase, order, now, reports, answered, startedAt, exit, junit>>
  BY DEF Spawn
<1>2. /\ next \in Indices /\ order[next] \in Indices
      /\ \A k, m \in Indices : order[k] = order[m] => k = m
  BY <1>1, Running, TimelineOrderOK DEF IsOrder
<1>3. Indices = 1 .. Len(Flows) /\ Len(Flows) \in Nat /\ Len(order) = Len(Flows)  BY <1>1, Running
<1> PICK i \in Indices : i = order[next]  BY <1>2
<1>4. ~Placed(i)  BY <1>2, <1>3 DEF Placed
<1>5. TaskOK(i)  BY <1>1, <1>2, Running
<1>6. i \notin Live /\ Unseen(answered[i], reports[i]) /\ startedAt[i] = NotYet
  BY <1>4, <1>5 DEF TaskOK
<1>7. /\ Live' = Live \cup {i} /\ tasks'[i] = asleep
      /\ \A j \in Live : tasks'[j] = tasks[j]
  BY <1>1, <1>6 DEF Live, SetTask
<1> HIDE DEF asleep
<1>8. Cardinality(Live') <= inv.concurrency
  <2>1. Cardinality(Live') = Cardinality(Live) + 1  BY <1>1, <1>6, <1>7, Running, FS_AddElement
  <2> QED  BY <1>1, <2>1, Running DEF HasSlot
<1>9. Placed(i)' /\ \A j \in Indices \ {i} : Placed(j)' <=> Placed(j)
  <2>1. \A j : Placed(j)' <=> \E k \in Indices : k < next + 1 /\ order[k] = j
    BY <1>1, Rigid DEF Placed
  <2>2. \A k \in Indices : k < next + 1 <=> k < next \/ k = next  BY <1>2, <1>3
  <2> QED  BY <1>2, <1>3, <2>1, <2>2 DEF Placed
<1>10. TaskOK(i)'
  BY <1>1, <1>6, <1>7, <1>9 DEF TaskOK, Unseen, asleep
<1>11. FlowState(i, answered'[i], reports'[i])  BY <1>1, <1>6 DEF FlowState
<1>12. \A j \in Live' : tasks'[j].state \in TaskStates
  <2>1. asleep.state \in TaskStates  BY DEF asleep, TaskStates
  <2> QED  BY <1>1, <1>7, <2>1, Running
<1>13. next' \in 1 .. Len(Flows) + 1  BY <1>1, <1>3, Running
<1>14. Live' \subseteq Indices  BY <1>1, <1>2, <1>7, Running
<1>15. /\ DOMAIN reports' = Indices /\ DOMAIN answered' = Indices /\ DOMAIN startedAt' = Indices
       /\ startedAt'[i] = NotYet
  BY <1>1, <1>6, Running
<1>16. \A j \in Indices \ {i} :
          /\ reports'[j] = reports[j] /\ answered'[j] = answered[j] /\ startedAt'[j] = startedAt[j]
          /\ (j \in Live' <=> j \in Live) /\ (Placed(j)' <=> Placed(j))
          /\ j \in Live => tasks'[j] = tasks[j]
  BY <1>1, <1>7, <1>9
<1> QED  BY <1>1, <1>2, <1>8, <1>10, <1>11, <1>12, <1>13, <1>14, <1>15, <1>16, TimelineStep

(* A task that stays changes its state.                                     *)
LEMMA TaskMoves ==
  ASSUME RunInv, phase = "timeline", NEW i \in Live, NEW t, tasks' = SetTask(i, t), t.state \in TaskStates,
         UNCHANGED <<inv, phase, exit, order, next, reports>>,
         DOMAIN answered' = Indices, DOMAIN startedAt' = Indices,
         \A j \in Indices \ {i} : answered'[j] = answered[j] /\ startedAt'[j] = startedAt[j],
         startedAt'[i] # NotYet => startedAt'[i] >= Flows[i].offset,
         IF t.state = "done" THEN Finished(i, answered'[i], reports[i], t.report)
         ELSE Unseen(answered'[i], reports[i])
  PROVE  RunInv'
<1>1. i \in Indices  BY Running
<1>2. /\ Live' = Live /\ tasks'[i] = t
      /\ \A j \in Live \ {i} : tasks'[j] = tasks[j]
  BY DEF Live, SetTask
<1>3. \A j : Placed(j)' <=> Placed(j)  BY Rigid DEF Placed
<1>4. Placed(i)  BY <1>1, Running DEF TaskOK
<1>5. TaskOK(i)'  BY <1>2, <1>3, <1>4, Rigid DEF TaskOK, Unseen
<1>6. FlowState(i, answered'[i], reports'[i])  BY DEF FlowState, Finished, Lost
<1>7. \A j \in Live' : tasks'[j].state \in TaskStates  BY <1>2, Running
<1>8. Live' \subseteq Indices /\ Cardinality(Live') <= inv.concurrency /\ next' \in 1 .. Len(Flows) + 1
      /\ DOMAIN reports' = Indices
  BY <1>2, Running
<1>9. \A j \in Indices \ {i} :
          /\ reports'[j] = reports[j] /\ answered'[j] = answered[j] /\ startedAt'[j] = startedAt[j]
          /\ (j \in Live' <=> j \in Live) /\ (Placed(j)' <=> Placed(j))
          /\ j \in Live => tasks'[j] = tasks[j]
  BY <1>2, <1>3
<1> QED  BY <1>1, <1>5, <1>6, <1>7, <1>8, <1>9, TimelineStep

LEMMA SendStep == ASSUME RunInv, NEW i \in Indices, Send(i) PROVE RunInv'
<1> DEFINE t == [state |-> "sent", report |-> NoReport]
<1>1. /\ phase = "timeline" /\ i \in Live /\ tasks[i].state = "asleep" /\ now >= Flows[i].offset
      /\ tasks' = SetTask(i, t)
      /\ startedAt' = [startedAt EXCEPT ![i] = now]
      /\ UNCHANGED <<inv, phase, order, next, now, reports, answered, exit, junit>>
  BY DEF Send, Wakes
<1>2. t.state \in TaskStates /\ t.state # "done"  BY DEF TaskStates
<1> HIDE DEF t
<1>3. Unseen(answered[i], reports[i])  BY <1>1, Running DEF TaskOK
<1>4. /\ DOMAIN answered' = Indices /\ DOMAIN startedAt' = Indices /\ startedAt'[i] = now
      /\ \A j \in Indices \ {i} : answered'[j] = answered[j] /\ startedAt'[j] = startedAt[j]
  BY <1>1, Running
<1> QED  BY <1>1, <1>2, <1>3, <1>4, TaskMoves

LEMMA ObserveStep == ASSUME RunInv, NEW i \in Indices, NEW c, Observe(i, c) PROVE RunInv'
<1> DEFINE t == [state |-> "done", report |-> CandidateReport(Flows[i], c)]
<1>1. /\ phase = "timeline" /\ i \in Live /\ tasks[i].state = "sent" /\ c \in Answers(Flows[i])
      /\ answered' = [answered EXCEPT ![i] = Append(@, c)]
      /\ tasks' = SetTask(i, t)
      /\ UNCHANGED <<inv, phase, order, next, now, reports, startedAt, exit, junit>>
  BY DEF Observe
<1>2. t.state = "done" /\ t.state \in TaskStates /\ t.report = CandidateReport(Flows[i], c)  BY DEF TaskStates
<1> HIDE DEF t
<1>3. answered[i] = <<>> /\ reports[i] = NoReport  BY <1>1, Running DEF TaskOK, Unseen
<1>4. /\ DOMAIN answered' = Indices /\ DOMAIN startedAt' = Indices /\ answered'[i] = <<c>>
      /\ \A j \in Indices \ {i} : answered'[j] = answered[j] /\ startedAt'[j] = startedAt[j]
      /\ startedAt'[i] # NotYet => startedAt'[i] >= Flows[i].offset
  BY <1>1, <1>3, Running
<1>5. Finished(i, answered'[i], reports[i], t.report)  BY <1>1, <1>2, <1>3, <1>4 DEF Finished
<1> QED  BY <1>1, <1>2, <1>4, <1>5, TaskMoves

LEMMA JoinStep == ASSUME RunInv, NEW i \in Indices, Join(i) PROVE RunInv'
<1>1. /\ phase = "timeline" /\ i \in Live /\ tasks[i].state = "done"
      /\ IF ~tasks[i].report.ok
         THEN Abort("runtime") /\ UNCHANGED reports
         ELSE /\ reports' = [reports EXCEPT ![i] = tasks[i].report]
              /\ tasks' = [j \in Live \ {i} |-> tasks[j]]
              /\ UNCHANGED <<phase, exit>>
      /\ UNCHANGED <<inv, order, next, now, answered, startedAt, junit>>
  BY DEF Join, Slot
<1>2. CASE ~tasks[i].report.ok
  <2>1. Abort("runtime") /\ UNCHANGED reports  BY <1>1, <1>2
  <2>2. /\ DOMAIN reports' = Indices /\ DOMAIN answered' = Indices /\ DOMAIN startedAt' = Indices
        /\ \A j \in Indices : FlowState(j, answered'[j], reports'[j])
    BY <1>1, <2>1, Running
  <2> QED  BY <1>1, <2>1, <2>2, AbortStep
<1>3. CASE tasks[i].report.ok
  <2>1. /\ reports' = [reports EXCEPT ![i] = tasks[i].report]
        /\ tasks' = [j \in Live \ {i} |-> tasks[j]]
        /\ UNCHANGED <<phase, exit>>
    BY <1>1, <1>3
  <2>2. Placed(i) /\ Finished(i, answered[i], reports[i], tasks[i].report)  BY <1>1, Running DEF TaskOK
  <2>3. /\ DOMAIN reports' = Indices /\ reports'[i] = tasks[i].report
        /\ \A j \in Indices \ {i} : reports'[j] = reports[j]
    BY <1>1, <2>1, Running
  <2>4. Seen(i, answered'[i], reports'[i])  BY <1>1, <1>3, <2>2, <2>3 DEF Finished, Seen
  <2>5. /\ Live' = Live \ {i} /\ \A j \in Live \ {i} : tasks'[j] = tasks[j]  BY <2>1 DEF Live
  <2>6. \A j : Placed(j)' <=> Placed(j)  BY <1>1, Rigid DEF Placed
  <2>7. TaskOK(i)'  BY <1>1, <2>2, <2>4, <2>5, <2>6, Rigid DEF TaskOK
  <2>8. FlowState(i, answered'[i], reports'[i])  BY <2>4 DEF FlowState
  <2>9. Cardinality(Live') <= inv.concurrency
    <3>1. IsFiniteSet(Live) /\ Cardinality(Live) \in Nat /\ inv.concurrency \in Nat
          /\ Cardinality(Live) <= inv.concurrency
      BY <1>1, Running
    <3>2. Cardinality(Live \ {i}) = Cardinality(Live) - 1  BY <1>1, <3>1, FS_RemoveElement
    <3> QED  BY <2>5, <3>1, <3>2
  <2>10. /\ Live' \subseteq Indices /\ next' \in 1 .. Len(Flows) + 1
         /\ \A j \in Live' : tasks'[j].state \in TaskStates
         /\ DOMAIN answered' = Indices /\ DOMAIN startedAt' = Indices
         /\ startedAt'[i] # NotYet => startedAt'[i] >= Flows[i].offset
    BY <1>1, <2>5, Running
  <2>11. \A j \in Indices \ {i} :
            /\ reports'[j] = reports[j] /\ answered'[j] = answered[j] /\ startedAt'[j] = startedAt[j]
            /\ (j \in Live' <=> j \in Live) /\ (Placed(j)' <=> Placed(j))
            /\ j \in Live' => tasks'[j] = tasks[j]
    BY <1>1, <2>3, <2>5, <2>6
  <2> QED  BY <1>1, <2>1, <2>3, <2>7, <2>8, <2>9, <2>10, <2>11, TimelineStep
<1> QED  BY <1>2, <1>3

LEMMA ReportStep == ASSUME RunInv, Report PROVE RunInv'
<1>1. /\ AllRun /\ phase' = "exit"
      /\ exit' = IF Verdict.class = None THEN 0 ELSE ExitCode(Verdict.class)
      /\ UNCHANGED <<inv, order, next, tasks, now, reports, answered, startedAt>>
  BY DEF Report
<1>2. InvOK /\ inv.cmd # "diff" /\ phase \in {"sequential", "timeline"} /\ Live = {}
  BY <1>1 DEF RunInv, BaseInv, AllRun
<1>3. Indices = 1 .. Len(Flows) /\ Len(Flows) \in Nat /\ next \in 1 .. Len(Flows) + 1
  BY <1>2, FixtureOK DEF RunInv, BaseInv
<1>4. ASSUME NEW i \in Indices PROVE Seen(i, answered[i], reports[i])
  <2>1. CASE phase = "sequential"
    <3>1. i < next  BY <1>1, <1>3, <2>1 DEF AllRun
    <3> QED  BY <2>1, <3>1 DEF RunInv, SeqInv
  <2>2. CASE phase = "timeline"
    <3>1. PICK k \in Indices : order[k] = i  BY <1>2, <2>2, Running, TimelineOrderOK
    <3>2. k < next  BY <1>1, <1>3, <2>2, Running DEF AllRun
    <3>3. Placed(i)  BY <3>1, <3>2 DEF Placed
    <3> QED  BY <1>2, <2>2, <3>3, Running DEF TaskOK
  <2> QED  BY <1>2, <2>1, <2>2
<1>5. \A i \in Indices : reports[i].ok  BY <1>4 DEF Seen
<1>6. /\ exit' \in {0, 1}
      /\ inv.cmd = "test" => (exit' = 0 <=> \A i \in Indices : reports[i].findings = {})
  <2> DEFINE found == inv.cmd = "test" /\ \E i \in Indices : reports[i].findings # {}
  <2>1. Verdict.class = IF found THEN "regression" ELSE None  BY <1>5 DEF Verdict
  <2>2. exit' = IF found THEN 1 ELSE 0
    <3> HIDE DEF found
    <3> QED  BY <1>1, <2>1 DEF ExitCode, None
  <2> QED  BY <2>2
<1>7. Live' = {}  BY <1>1, <1>2 DEF Live
<1>8. BaseInv'  BY <1>1, <1>2, <1>3, <1>6, <1>7, Rigid DEF BaseInv
<1>9. FlowInv'
  <2>1. \A i \in Indices : FlowState(i, answered[i], reports[i])  BY <1>4 DEF FlowState
  <2> QED  BY <1>1, <1>2, <2>1, Rigid DEF RunInv, FlowInv
<1>10. EndInv'  BY <1>1, <1>2, <1>4, <1>6, Rigid DEF EndInv
<1>11. SeqInv' /\ TimelineInv'  BY <1>1 DEF SeqInv, TimelineInv
<1> QED  BY <1>8, <1>9, <1>10, <1>11 DEF RunInv

LEMMA DiffStep == ASSUME RunInv, Diff PROVE RunInv'
<1>1. /\ phase = "open" /\ inv.cmd = "diff" /\ phase' = "exit"
      /\ \/ exit' = ExitCode("fixture")
         \/ exit' = IF DiffSuccess(Flows, inv.candidate, inv.policy, inv.bound)
                    THEN 0 ELSE ExitCode("diff")
      /\ UNCHANGED <<inv, order, next, tasks, now, answered, startedAt>>
  BY Zenon DEF Diff
<1>2. exit' = 3 \/ exit' = IF DiffSuccess(Flows, inv.candidate, inv.policy, inv.bound) THEN 0 ELSE 1
  BY <1>1 DEF ExitCode
<1>3. Live' = {} /\ Live = {}  BY <1>1 DEF Live, RunInv, BaseInv
<1>4. BaseInv'  BY <1>1, <1>2, <1>3, Rigid DEF RunInv, BaseInv
<1>5. FlowInv' /\ SeqInv' /\ TimelineInv'  BY <1>1 DEF FlowInv, SeqInv, TimelineInv
<1>6. DiffSuccess(Flows, inv.candidate, inv.policy, inv.bound)'
        <=> DiffSuccess(Flows, inv.candidate, inv.policy, inv.bound)
  BY <1>1, Rigid DEF DiffSuccess
<1>7. EndInv'  BY <1>1, <1>2, <1>6 DEF EndInv
<1> QED  BY <1>4, <1>5, <1>7 DEF RunInv

LEMMA RunStep == RunInv /\ [Next]_vars => RunInv'
<1> SUFFICES ASSUME RunInv, [Next]_vars PROVE RunInv'  OBVIOUS
<1>1. CASE Open  BY <1>1, OpenStep
<1>2. CASE Tick  BY <1>2, TickStep
<1>3. CASE Spawn  BY <1>3, SpawnStep
<1>4. CASE Report  BY <1>4, ReportStep
<1>5. CASE Diff  BY <1>5, DiffStep
<1>6. CASE \E c : Sequential(c)  BY <1>6, SequentialStep
<1>7. CASE \E c : \E i \in Indices : Observe(i, c)  BY <1>7, ObserveStep
<1>8. CASE \E i \in Indices : Send(i)  BY <1>8, SendStep
<1>9. CASE \E i \in Indices : Join(i)  BY <1>9, JoinStep
<1>10. CASE UNCHANGED vars
  <2>1. UNCHANGED <<inv, phase, order, next, tasks, reports, answered, startedAt, exit>>
    BY <1>10 DEF vars
  <2>2. Live' = Live  BY <2>1 DEF Live
  <2>3. BaseInv'  BY <2>1, <2>2, Rigid DEF RunInv, BaseInv
  <2>4. FlowInv'  BY <2>1, Rigid DEF RunInv, FlowInv, Unseen
  <2>5. SeqInv'  BY <2>1, Rigid DEF RunInv, SeqInv, Unseen
  <2>6. \A i : TaskOK(i)' <=> TaskOK(i)  BY <2>1, <2>2, Rigid DEF TaskOK, Unseen, Placed
  <2>7. TimelineInv'  BY <2>1, <2>2, <2>6, Rigid DEF RunInv, TimelineInv
  <2>8. DiffSuccess(Flows, inv.candidate, inv.policy, inv.bound)'
          <=> DiffSuccess(Flows, inv.candidate, inv.policy, inv.bound)
    BY <2>1, Rigid DEF DiffSuccess
  <2>9. EndInv'  BY <2>1, <2>8, Rigid DEF RunInv, EndInv
  <2> QED  BY <2>3, <2>4, <2>5, <2>7, <2>9 DEF RunInv
<1> QED  BY <1>1, <1>2, <1>3, <1>4, <1>5, <1>6, <1>7, <1>8, <1>9, <1>10 DEF Next

LEMMA RunAlways == Spec => []RunInv
BY RunInit, RunStep, PTL DEF Spec

-----------------------------------------------------------------------------
(* The properties.                                                          *)

LEMMA RunTypeOK == RunInv => TypeOK
BY DEF RunInv, BaseInv, TypeOK, TaskStates

LEMMA RunReports == RunInv => ReportsInFixtureOrder
<1> SUFFICES ASSUME RunInv, inv.cmd # "diff", NEW i \in Indices, reports[i].ok
             PROVE  answered[i] # <<>> /\ reports[i] = CandidateReport(Flows[i], Last(answered[i]))
  BY DEF ReportsInFixtureOrder
<1>1. FlowState(i, answered[i], reports[i])  BY DEF RunInv, FlowInv
<1>2. Seen(i, answered[i], reports[i])  BY <1>1 DEF FlowState, Unseen, Lost, NoReport
<1>3. PICK c : answered[i] = <<c>> /\ reports[i] = CandidateReport(Flows[i], c)  BY <1>2 DEF Seen
<1>4. Last(answered[i]) = c  BY <1>3 DEF Last
<1> QED  BY <1>3, <1>4

LEMMA RunBounded == RunInv => ConcurrencyBounded
<1> SUFFICES ASSUME RunInv PROVE ConcurrencyBounded  OBVIOUS
<1> DEFINE InFlight == {i \in Live : tasks[i].state = "sent"}
<1>1. CASE phase = "timeline"
  <2>1. /\ IsFiniteSet(Live) /\ Cardinality(Live) \in Nat /\ inv.concurrency \in Nat
        /\ Cardinality(Live) <= inv.concurrency
    BY <1>1, Running
  <2>2. Cardinality(InFlight) <= Cardinality(Live) /\ Cardinality(InFlight) \in Nat
    <3>1. InFlight \in SUBSET Live  OBVIOUS
    <3> HIDE DEF InFlight
    <3> QED  BY <2>1, <3>1, FS_Subset, FS_CardinalityType
  <2>3. Cardinality(InFlight) <= inv.concurrency
    <3> HIDE DEF InFlight
    <3> QED  BY <2>1, <2>2
  <2> QED  BY <1>1, <2>3 DEF ConcurrencyBounded
<1>2. CASE phase # "timeline"
  <2>1. InFlight = {}  BY <1>2 DEF RunInv, BaseInv
  <2>2. Cardinality(InFlight) = 0  BY <2>1, FS_EmptySet
  <2> QED  BY <1>2, <2>2 DEF ConcurrencyBounded
<1> QED  BY <1>1, <1>2

LEMMA RunNotEarly == RunInv => NotEarly
<1> SUFFICES ASSUME RunInv, phase = "timeline", NEW i \in Indices, startedAt[i] # NotYet
             PROVE  /\ startedAt[i] >= Flows[i].offset
                    /\ \A j \in Indices : Before(j, i) => j \in Live \/ answered[j] # <<>>
  BY DEF NotEarly
<1>1. /\ InvOK /\ TaskOK(i) /\ startedAt[i] >= Flows[i].offset
      /\ Indices = 1 .. Len(Flows) /\ Len(Flows) \in Nat /\ next \in 1 .. Len(Flows) + 1
      /\ order = TimelineOrder
  BY Running
<1>2. PICK m \in Indices : m < next /\ order[m] = i  BY <1>1 DEF TaskOK, Placed
<1>3. ASSUME NEW j \in Indices, Before(j, i) PROVE j \in Live \/ answered[j] # <<>>
  <2>1. PICK k \in Indices : order[k] = j  BY <1>1, TimelineOrderOK
  <2>2. ~Before(i, j) /\ i # j
    <3>1. ~Before(i, i) /\ (Before(i, j) /\ Before(j, i) => Before(i, i))  BY <1>1, BeforeOrder
    <3> QED  BY <1>3, <3>1
  <2>3. ~(m < k) /\ m # k  BY <1>1, <1>2, <2>1, <2>2, TimelineOrderOK DEF IsOrder
  <2>4. k < next  BY <1>1, <1>2, <2>3
  <2>5. Placed(j)  BY <2>1, <2>4 DEF Placed
  <2>6. j \in Live \/ Seen(j, answered[j], reports[j])  BY <2>5, Running DEF TaskOK
  <2>7. Seen(j, answered[j], reports[j]) => \E c : answered[j] = <<c>>  BY DEF Seen
  <2>8. \A c : <<c>> # <<>>  OBVIOUS
  <2> QED  BY <2>6, <2>7, <2>8
<1> QED  BY <1>1, <1>3

(* The timeline scheduler keeps max_concurrency, sends no request before its  *)
(* recorded offset or ahead of a flow that precedes it, and puts every report *)
(* in its flow's place, in whatever order the tasks of its JoinSet complete.  *)
THEOREM SchedulesSound == Spec => []ScheduleSound
<1>1. RunInv => ScheduleSound
  BY RunTypeOK, RunReports, RunBounded, RunNotEarly DEF ScheduleSound
<1> QED  BY <1>1, RunAlways, PTL

(* A flow's report is empty exactly when the answer is what was recorded.   *)
LEMMA ReportFinds ==
  ASSUME InvOK, NEW i \in Indices, NEW c \in Answers(Flows[i]), Plain(Flows[i]),
         CandidateReport(Flows[i], c).ok
  PROVE  /\ CandidateReport(Flows[i], c).findings = {} => SameObservation(Flows[i], c)
         /\ SameObservation(Flows[i], c) /\ ~NeedsStreams /\ ~SseEnabled(inv.policy)
              => CandidateReport(Flows[i], c).findings = {}
<1> DEFINE b == Flows[i]
           F == CompareFlows(b, c, inv.policy, inv.bound)
           G == IF NeedsStreams THEN CompareStreams(b.events, c.events, inv.policy.tolerance) ELSE {}
<1>1. IsFlow(b) /\ IsAnswer(b, c) /\ inv.bound \subseteq Nat  BY FixtureOK
<1>2. c.kind # "refused"  BY ReportShape
<1>3. ~IsUpgrade(b)  BY DEF Plain
<1>4. /\ b.kind \in {"response", "error"} /\ c.kind \in {"response", "error"} /\ c.elapsed \subseteq Nat
      /\ IsHeaders(b.headers) /\ IsHeaders(b.trailers)
      /\ c.kind = "response" => IsHeaders(c.headers) /\ IsHeaders(c.trailers)
  BY <1>1, <1>2, <1>3 DEF IsFlow, IsAnswer
<1>5. CandidateReport(b, c) = IF NeedsStreams /\ ~b.timed THEN NoReport ELSE Reported(F \cup G)
  BY <1>2, <1>3, Zenon DEF CandidateReport, IsUpgrade
<1>6. CandidateReport(b, c).findings = F \cup G
  <2> HIDE DEF F, G
  <2> QED  BY <1>5 DEF NoReport, Reported
<1>7. F = {} <=> /\ Alike(b, c, inv.bound)
                 /\ b.kind = "response" /\ c.kind = "response" => SseFindings(b, c, inv.policy) = {}
  BY <1>4, FlowsFind
<1>8. Alike(b, c, inv.bound) <=> SameObservation(b, c)
  <2>1. \A most \in inv.bound : \A e \in c.elapsed : ~(e > most) <=> e <= most
    BY <1>1, <1>4
  <2> HIDE DEF b
  <2> QED  BY <2>1 DEF Alike, SameObservation
<1>9. ~NeedsStreams => G = {}  OBVIOUS
<1>10. ~SseEnabled(inv.policy) => SseFindings(b, c, inv.policy) = {}  BY DEF SseFindings
<1> HIDE DEF b, F, G
<1>11. /\ CandidateReport(b, c).findings = {} => SameObservation(b, c)
       /\ SameObservation(b, c) /\ ~NeedsStreams /\ ~SseEnabled(inv.policy)
            => CandidateReport(b, c).findings = {}
  BY <1>6, <1>7, <1>8, <1>9, <1>10
<1> QED  BY <1>11 DEF b

LEMMA RunHonest == RunInv => VerdictHonest
<1> SUFFICES ASSUME RunInv, inv.cmd = "test", exit \in {0, 1} PROVE VerdictHonest
  BY DEF VerdictHonest
<1> DEFINE same == \A i \in Indices : Plain(Flows[i]) => SameObservation(Flows[i], answered[i][1])
<1>1. InvOK  BY DEF RunInv, BaseInv
<1>2. \A i \in Indices : Seen(i, answered[i], reports[i])  BY DEF RunInv, EndInv
<1>3. exit = 0 <=> \A i \in Indices : reports[i].findings = {}  BY DEF RunInv, EndInv
<1>4. ASSUME NEW i \in Indices
      PROVE  /\ Len(answered[i]) = 1 /\ answered[i][1] \in Answers(Flows[i])
             /\ reports[i] = CandidateReport(Flows[i], answered[i][1]) /\ reports[i].ok
  <2>1. PICK c \in Answers(Flows[i]) :
           answered[i] = <<c>> /\ reports[i] = CandidateReport(Flows[i], c) /\ reports[i].ok
    BY <1>2 DEF Seen
  <2>2. Len(answered[i]) = 1 /\ answered[i][1] = c  BY <2>1
  <2> QED  BY <2>1, <2>2
<1>5. exit = 0 => same
  <2> SUFFICES ASSUME exit = 0, NEW i \in Indices, Plain(Flows[i])
               PROVE  SameObservation(Flows[i], answered[i][1])
    OBVIOUS
  <2> QED  BY <1>1, <1>3, <1>4, ReportFinds
<1>6. same /\ ~NeedsStreams /\ ~SseEnabled(inv.policy) /\ (\A i \in Indices : Plain(Flows[i])) => exit = 0
  <2> SUFFICES ASSUME same, ~NeedsStreams, ~SseEnabled(inv.policy), NEW i \in Indices, Plain(Flows[i])
               PROVE  reports[i].findings = {}
    BY <1>3
  <2>1. SameObservation(Flows[i], answered[i][1])  OBVIOUS
  <2> QED  BY <1>1, <1>4, <2>1, ReportFinds
<1> QED  BY <1>4, <1>5, <1>6 DEF VerdictHonest

LEMMA RunComplete == RunInv => NoPartialVerdict
<1> SUFFICES ASSUME RunInv, inv.cmd # "diff", exit \in {0, 1}, NEW i \in Indices
             PROVE  answered[i] # <<>> /\ Last(answered[i]).kind # "refused"
  BY DEF NoPartialVerdict
<1>1. InvOK /\ Seen(i, answered[i], reports[i])  BY DEF RunInv, BaseInv, EndInv
<1>2. PICK c \in Answers(Flows[i]) :
         answered[i] = <<c>> /\ reports[i] = CandidateReport(Flows[i], c) /\ reports[i].ok
  BY <1>1 DEF Seen
<1>3. Last(answered[i]) = c  BY <1>2 DEF Last
<1> QED  BY <1>1, <1>2, <1>3, ReportShape

LEMMA RunSymmetric == RunInv => DiffSymmetric
<1> SUFFICES ASSUME RunInv, inv.cmd = "diff", exit \in {0, 1}, inv.bound = {}
             PROVE  (exit = 0) = DiffSuccess(inv.candidate, Flows, inv.policy, {})
  BY DEF DiffSymmetric
<1>1. exit = 0 <=> DiffSuccess(Flows, inv.candidate, inv.policy, {})  BY DEF RunInv, EndInv
<1>2. IsList(Flows) /\ IsList(inv.candidate) /\ \A f \in Range(Flows) \cup Range(inv.candidate) : IsFlow(f)
  BY FixtureAssumption DEF RunInv, BaseInv, InvOK, Flows
<1>3. DiffSuccess(Flows, inv.candidate, inv.policy, {}) <=> DiffSuccess(inv.candidate, Flows, inv.policy, {})
  BY <1>2, SuccessSymmetric
<1>4. DiffSuccess(inv.candidate, Flows, inv.policy, {}) \in BOOLEAN  BY DEF DiffSuccess
<1> QED  BY <1>1, <1>3, <1>4

LEMMA RunDiffHonest == RunInv => DiffHonest
<1> SUFFICES ASSUME RunInv, inv.cmd = "diff", exit = 0 PROVE DiffHonest  BY DEF DiffHonest
<1> DEFINE c == inv.candidate
<1>1. DiffSuccess(Flows, c, inv.policy, inv.bound)  BY DEF RunInv, EndInv
<1>2. IsList(c) /\ \A f \in Range(Flows) \cup Range(c) : IsFlow(f)
  BY FixtureAssumption DEF RunInv, BaseInv, InvOK, Flows
<1>3. Indices = 1 .. Len(Flows) /\ Len(Flows) \in Nat  BY FixtureOK DEF RunInv, BaseInv
<1>4. \A i \in Indices : IsFlow(Flows[i])  BY FixtureOK DEF RunInv, BaseInv
<1>5. Len(Flows) = Len(c)  BY <1>1 DEF DiffSuccess
<1>6. DOMAIN c = 1 .. Len(c) /\ \A i \in DOMAIN c : c[i] \in Range(c)  BY <1>2, ListElements
<1>7. ASSUME NEW i \in Indices PROVE SameObservation(Bodied(Flows[i]), Bodied(c[i]))
  <2> DEFINE x == Bodied(Flows[i])
             y == Bodied(c[i])
  <2>1. i \in Paired(Flows, c)  BY <1>3, <1>5 DEF Paired
  <2>2. DiffFindings(Flows[i], c[i], inv.policy, inv.bound) = {}  BY <1>1, <2>1 DEF DiffSuccess
  <2>3. CompareFlows(x, y, inv.policy, inv.bound) = {}  BY <2>2 DEF DiffFindings
  <2>4. IsFlow(x) /\ IsFlow(y)  BY <1>2, <1>3, <1>4, <1>5, <1>6, BodiedFlow
  <2>5. /\ x.kind \in {"response", "error"} /\ y.kind \in {"response", "error"}
        /\ IsHeaders(x.headers) /\ IsHeaders(x.trailers)
        /\ IsHeaders(y.headers) /\ IsHeaders(y.trailers)  BY <2>4 DEF IsFlow
  <2> HIDE DEF x, y
  <2>6. Alike(x, y, inv.bound)  BY <2>3, <2>5, FlowsFind
  <2>7. inv.bound \subseteq Nat /\ y.elapsed \subseteq Nat
    BY <2>4, FixtureOK DEF RunInv, BaseInv, IsFlow
  <2>8. \A most \in inv.bound : \A e \in y.elapsed : ~(e > most) <=> e <= most  BY <2>7
  <2>9. SameObservation(x, y)  BY <2>6, <2>8 DEF Alike, SameObservation
  <2> QED  BY <2>9 DEF x, y
<1> QED  BY <1>5, <1>7 DEF DiffHonest

LEMMA RunLocal == RunInv => SseEventsLocal
<1> SUFFICES ASSUME RunInv, NEW i \in Indices, NEW k \in DOMAIN Flows[i].body,
                    Flows[i].body[k].field = "blank", ~ParseSse(Flows[i].body).error
             PROVE  ParseSse(Flows[i].body).events
                      = ParseSse(SubSeq(Flows[i].body, 1, k)).events
                        \o ParseSse(SubSeq(Flows[i].body, k + 1, Len(Flows[i].body))).events
  BY Zenon DEF SseEventsLocal
<1>1. IsFlow(Flows[i])  BY FixtureOK DEF RunInv, BaseInv
<1>2. Flows[i].body \in Seq(Range(Flows[i].body)) /\ IsLines(Range(Flows[i].body))
  BY <1>1 DEF IsFlow, IsList, IsLines
<1>3. k \in 1 .. Len(Flows[i].body)  BY <1>2
<1> QED  BY <1>2, <1>3, EventsLocal

(* An exit code 0 or 1 judges every flow by its one observation: test passes  *)
(* only on the recorded ones and, under the default policy, on all of those;  *)
(* diff passes only pairs that are the same as far as they can be read, and   *)
(* decides the same with its two fixtures exchanged; and parse_sse reads each *)
(* event from its own lines.                                                  *)
THEOREM VerdictsSound == Spec => []VerdictSound
<1>1. RunInv => VerdictSound
  BY RunHonest, RunComplete, RunDiffHonest, RunSymmetric, RunLocal DEF VerdictSound
<1> QED  BY <1>1, RunAlways, PTL

=============================================================================
