------------------------ MODULE StreamTimelineProofs ------------------------
(***************************************************************************)
(* Proofs about StreamTimeline, for any caps, limits, frames, redactions    *)
(* and timing modes.                                                        *)
(***************************************************************************)
EXTENDS StreamTimeline, FiniteSetTheorems, SequenceTheorems, WellFoundedInduction, TLAPS

-----------------------------------------------------------------------------
(* Loops.  A loop over a list is a function on 0..L whose value at n is one *)
(* step from its value at n - 1.                                            *)

(* Induction over the naturals, in terms of a set.                          *)
LEMMA LoopInduction ==
  ASSUME NEW S \in SUBSET Nat, 0 \in S, \A n \in S : n + 1 \in S
  PROVE  S = Nat
<1> DEFINE T == Nat \ S
           R == {ss \in Nat \X Nat : ss[1] < ss[2]}
<1> SUFFICES ASSUME T # {} PROVE FALSE  OBVIOUS
<1>1. IsWellFoundedOn(R, Nat)  BY NatLessThanWellFounded DEF OpToRel
<1> HIDE DEF R
<1>2. PICK x \in T : \A y \in T : ~(<<y, x>> \in R)  BY <1>1, WFMin
<1>3. \A y \in T : ~(y < x)  BY <1>2 DEF R
<1>4. x - 1 \in Nat /\ x - 1 < x  OBVIOUS
<1>5. x - 1 \in S  BY <1>3, <1>4
<1> QED  BY <1>4, <1>5

\* A run of a loop of L steps over values V.
IsRun(g, L, V, base, step) ==
    g \in [0..L -> V] /\ g[0] = base /\ \A n \in 1..L : g[n] = step[n][g[n - 1]]

HasRun(L, V, base, step) == \E g : IsRun(g, L, V, base, step)

(* Such a function exists.                                                  *)
LEMMA LoopExists ==
  ASSUME NEW L \in Nat, NEW V, NEW base \in V, NEW step \in [1..L -> [V -> V]]
  PROVE  HasRun(L, V, base, step)
<1> DEFINE Runs(g, m) == g \in [0..m -> V] /\ g[0] = base /\ \A n \in 1..m : g[n] = step[n][g[n - 1]]
           S == {m \in Nat : m <= L => \E g : Runs(g, m)}
<1>1. 0 \in S
  <2>1. Runs([n \in 0..0 |-> base], 0)  OBVIOUS
  <2> QED  BY <2>1
<1>2. ASSUME NEW m \in S PROVE m + 1 \in S
  <2> SUFFICES ASSUME m + 1 <= L PROVE \E g : Runs(g, m + 1)  OBVIOUS
  <2>1. PICK g : Runs(g, m)  OBVIOUS
  <2> DEFINE last == step[m + 1][g[m]]
             h == [n \in 0..(m + 1) |-> IF n = m + 1 THEN last ELSE g[n]]
  <2>2. g[m] \in V /\ m + 1 \in 1..L  BY <2>1
  <2>3. last \in V  BY <2>2
  <2>4. h \in [0..(m + 1) -> V]  BY <2>1, <2>3
  <2>5. h[0] = base  BY <2>1
  <2>6. ASSUME NEW n \in 1..(m + 1) PROVE h[n] = step[n][h[n - 1]]
    <3>1. CASE n = m + 1
      <4>1. h[n] = last /\ n - 1 = m /\ h[n - 1] = g[m]  BY <3>1
      <4> QED  BY <3>1, <4>1
    <3>2. CASE n # m + 1
      <4>1. n \in 1..m /\ n - 1 \in 0..m /\ n - 1 # m + 1  BY <3>2
      <4>2. h[n] = g[n] /\ h[n - 1] = g[n - 1]  BY <4>1
      <4> QED  BY <2>1, <4>1, <4>2
    <3> QED  BY <3>1, <3>2
  <2> QED  BY <2>4, <2>5, <2>6
<1>3. S = Nat
  <2> HIDE DEF S
  <2>1. S \in SUBSET Nat  BY DEF S
  <2> QED  BY <1>1, <1>2, <2>1, LoopInduction
<1>4. L \in S  BY <1>3
<1>5. PICK g : Runs(g, L)  BY <1>4
<1> QED  BY <1>5 DEF HasRun, IsRun


(* Induction up to the length of a loop.                                    *)
LEMMA UpTo ==
  ASSUME NEW L \in Nat, NEW S, 0 \in S, \A n \in 1..L : n - 1 \in S => n \in S
  PROVE  \A n \in 0..L : n \in S
<1> DEFINE T == {n \in Nat : n <= L => n \in S}
<1>1. 0 \in T  OBVIOUS
<1>2. ASSUME NEW n \in T PROVE n + 1 \in T
  <2> SUFFICES ASSUME n + 1 <= L PROVE n + 1 \in S  OBVIOUS
  <2>1. n + 1 \in 1..L /\ (n + 1) - 1 = n /\ n \in S  OBVIOUS
  <2> QED  BY <2>1
<1>3. T = Nat
  <2>1. T \in SUBSET Nat  OBVIOUS
  <2> HIDE DEF T
  <2> QED  BY <1>1, <1>2, <2>1, LoopInduction
<1> QED  BY <1>3

-----------------------------------------------------------------------------
(* The bytes of a list of events.                                           *)

Kinds == {"data", "trailers", "end", "error"}
Event == [kind : Kinds, at : Nat, off : Nat, len : Nat]

\* What the sums of a list are.
Sums(s) ==
    /\ Covered(s) \in [0..Len(s) -> Nat]
    /\ Covered(s)[0] = 0
    /\ \A n \in 1..Len(s) : Covered(s)[n] = Covered(s)[n - 1] + s[n].len

(* The sums of a list are numbers, each the one before and an event more.   *)
LEMMA CoveredSums ==
  ASSUME NEW s \in Seq(Event)
  PROVE  Sums(s)
<1> DEFINE L == Len(s)
           step == [n \in 1..L |-> [v \in Nat |-> v + s[n].len]]
           Rule(g, n) == IF n = 0 THEN 0 ELSE g[n - 1] + s[n].len
           Unrolled(g) == g = [n \in 0..L |-> Rule(g, n)]
           r == CHOOSE g : Unrolled(g)
<1>1. L \in Nat /\ \A n \in 1..L : s[n].len \in Nat
  <2>1. \A n \in 1..L : s[n] \in Event  OBVIOUS
  <2> QED  BY <2>1 DEF Event
<1>2. step \in [1..L -> [Nat -> Nat]]  BY <1>1
<1>3. PICK g \in [0..L -> Nat] : g[0] = 0 /\ \A n \in 1..L : g[n] = step[n][g[n - 1]]
  <2> HIDE DEF step, L
  <2>1. HasRun(L, Nat, 0, step)  BY <1>1, <1>2, LoopExists
  <2> QED  BY <2>1 DEF HasRun, IsRun
<1>4. Unrolled(g)
  <2>1. ASSUME NEW n \in 0..L PROVE g[n] = Rule(g, n)
    <3>1. CASE n = 0  BY <3>1, <1>3
    <3>2. CASE n # 0
      <4>1. n \in 1..L /\ n - 1 \in 0..L  BY <3>2
      <4>2. g[n] = step[n][g[n - 1]] /\ g[n - 1] \in Nat  BY <1>3, <4>1
      <4> QED  BY <3>2, <4>1, <4>2
    <3> QED  BY <3>1, <3>2
  <2> HIDE DEF Rule
  <2> QED  BY <1>3, <2>1
<1>5. Unrolled(r)
  <2> HIDE DEF Unrolled
  <2> QED  BY <1>4
<1>6. Covered(s) = r  BY Zenon DEF Covered
<1> HIDE DEF r
<1>7. \A n \in 0..L : r[n] = Rule(r, n)  BY <1>5
<1>8. r[0] = 0  BY <1>1, <1>7
<1>9. \A n \in 1..L : r[n] = r[n - 1] + s[n].len  BY <1>1, <1>7
<1> DEFINE S == {n \in Nat : r[n] \in Nat}
<1>10. \A n \in 0..L : n \in S
  <2>1. 0 \in S  BY <1>8
  <2>2. \A n \in 1..L : n - 1 \in S => n \in S  BY <1>1, <1>9
  <2> HIDE DEF S, L
  <2> QED  BY <1>1, <2>1, <2>2, UpTo
<1>11. r \in [0..L -> Nat]
  <2>1. \A n \in 0..L : r[n] \in Nat  BY <1>10
  <2> HIDE DEF Rule
  <2> QED  BY <1>5, <2>1
<1> QED  BY <1>6, <1>8, <1>9, <1>11 DEF Sums

(* The sums only depend on the lengths.                                     *)
LEMMA SameSums ==
  ASSUME NEW s \in Seq(Event), NEW t \in Seq(Event), NEW m \in Nat, m <= Len(s), m <= Len(t),
         \A i \in 1..m : s[i].len = t[i].len
  PROVE  \A n \in 0..m : Covered(s)[n] = Covered(t)[n]
<1> DEFINE S == {n \in Nat : n <= m => Covered(s)[n] = Covered(t)[n]}
<1>1. Sums(s) /\ Sums(t)  BY CoveredSums
<1>2. 0 \in S  BY <1>1 DEF Sums
<1>3. ASSUME NEW n \in 1..m, n - 1 \in S PROVE n \in S
  <2>1. n \in 1..Len(s) /\ n \in 1..Len(t)  OBVIOUS
  <2>2. /\ Covered(s)[n] = Covered(s)[n - 1] + s[n].len
        /\ Covered(t)[n] = Covered(t)[n - 1] + t[n].len
    BY <1>1, <2>1 DEF Sums
  <2>3. Covered(s)[n - 1] = Covered(t)[n - 1]  BY <1>3
  <2> QED  BY <2>2, <2>3
<1>4. \A n \in 0..m : n \in S
  <2> HIDE DEF S
  <2> QED  BY <1>2, <1>3, UpTo
<1> QED  BY <1>4

(* They grow along the list.                                                *)
LEMMA SumsGrow ==
  ASSUME NEW s \in Seq(Event), NEW i \in 0..Len(s), NEW j \in 0..Len(s), i <= j
  PROVE  Covered(s)[i] <= Covered(s)[j]
<1> DEFINE S == {n \in Nat : n <= Len(s) /\ i <= n => Covered(s)[i] <= Covered(s)[n]}
<1>1. Sums(s)  BY CoveredSums
<1>0. Covered(s)[i] \in Nat  BY <1>1 DEF Sums
<1>2. 0 \in S
  <2>1. i <= 0 => i = 0  OBVIOUS
  <2> QED  BY <1>0, <2>1
<1>3. ASSUME NEW n \in 1..Len(s), n - 1 \in S PROVE n \in S
  <2> SUFFICES ASSUME i <= n PROVE Covered(s)[i] <= Covered(s)[n]  OBVIOUS
  <2>1. CASE i = n  BY <1>0, <2>1
  <2>2. CASE i <= n - 1
    <3>1. Covered(s)[i] <= Covered(s)[n - 1]  BY <1>3, <2>2
    <3>2. Covered(s)[n] = Covered(s)[n - 1] + s[n].len /\ Covered(s)[n - 1] \in Nat
      BY <1>1 DEF Sums
    <3>3. s[n].len \in Nat
      <4>1. s[n] \in Event  OBVIOUS
      <4> QED  BY <4>1 DEF Event
    <3> QED  BY <1>0, <3>1, <3>2, <3>3
  <2> QED  BY <2>1, <2>2
<1>4. \A n \in 0..Len(s) : n \in S
  <2>1. Len(s) \in Nat  OBVIOUS
  <2> HIDE DEF S
  <2> QED  BY <1>2, <1>3, <2>1, UpTo
<1> QED  BY <1>4

(* An event appended leaves the sums before it, and adds its bytes.         *)
LEMMA SumsAppend ==
  ASSUME NEW s \in Seq(Event), NEW e \in Event
  PROVE  /\ \A n \in 0..Len(s) : Covered(Append(s, e))[n] = Covered(s)[n]
         /\ DataLength(Append(s, e)) = DataLength(s) + e.len
<1> DEFINE t == Append(s, e)
<1>1. t \in Seq(Event) /\ Len(t) = Len(s) + 1 /\ \A i \in 1..Len(s) : t[i] = s[i]  OBVIOUS
<1>2. t[Len(t)] = e /\ Len(s) \in Nat  BY <1>1
<1> HIDE DEF t
<1>3. Sums(t)  BY <1>1, CoveredSums
<1>4. \A n \in 0..Len(s) : Covered(t)[n] = Covered(s)[n]
  <2>1. \A i \in 1..Len(s) : t[i].len = s[i].len  BY <1>1
  <2> QED  BY <1>1, <1>2, <2>1, SameSums
<1>5. Covered(t)[Len(t)] = Covered(t)[Len(s)] + e.len  BY <1>1, <1>2, <1>3 DEF Sums
<1>6. DataLength(t) = DataLength(s) + e.len  BY <1>2, <1>4, <1>5 DEF DataLength
<1> QED  BY <1>4, <1>6 DEF t

Terminal(e) == e.kind \in {"end", "error"}

\* An event is where the validation wants it, but for its time's limit.
WellPlaced(s, i) ==
    /\ \A j \in 1..(i - 1) : ~Terminal(s[j])
    /\ i > 1 => s[i].at >= s[i - 1].at
    /\ s[i].kind \in {"data", "error"} => s[i].off = Covered(s)[i - 1]
    /\ s[i].kind \in {"trailers", "end"} => s[i].off = 0
    /\ s[i].kind = "data" => s[i].len > 0
    /\ s[i].kind # "data" => s[i].len = 0
    /\ s[i].kind \in {"data", "trailers"} => \A j \in 1..(i - 1) : s[j].kind # "trailers"

Ordered(s) == s \in Seq(Event) /\ \A i \in 1..Len(s) : WellPlaced(s, i)

\* What a list can be extended with.
Extends(s, e) ==
    /\ e \in Event
    /\ \A i \in 1..Len(s) : ~Terminal(s[i]) /\ s[i].at <= e.at
    /\ e.kind \in {"data", "error"} => e.off = DataLength(s)
    /\ e.kind \in {"trailers", "end"} => e.off = 0
    /\ e.kind # "data" => e.len = 0
    /\ e.kind \in {"data", "trailers"} => \A i \in 1..Len(s) : s[i].kind # "trailers"

(* An event that extends an ordered list can be appended to it.             *)
LEMMA OrderedAppend ==
  ASSUME NEW s, Ordered(s), NEW e, Extends(s, e), e.kind = "data" => e.len > 0
  PROVE  Ordered(Append(s, e))
<1> DEFINE t == Append(s, e)
           L == Len(s)
<1>1. s \in Seq(Event) /\ e \in Event  BY DEF Ordered, Extends
<1>2. t \in Seq(Event) /\ L \in Nat /\ Len(t) = L + 1 /\ t[L + 1] = e /\ \A i \in 1..L : t[i] = s[i]
  BY <1>1
<1>3. \A n \in 0..L : Covered(t)[n] = Covered(s)[n]  BY <1>1, SumsAppend
<1> HIDE DEF t, L
<1>4. ASSUME NEW i \in 1..L PROVE WellPlaced(t, i)
  <2>1. WellPlaced(s, i)  BY <1>4 DEF Ordered, L
  <2>2. t[i] = s[i] /\ (i > 1 => i - 1 \in 1..L) /\ i - 1 \in 0..L /\ \A j \in 1..(i - 1) : j \in 1..L
    BY <1>2
  <2>3. (i > 1 => t[i - 1] = s[i - 1]) /\ Covered(t)[i - 1] = Covered(s)[i - 1]
        /\ \A j \in 1..(i - 1) : t[j] = s[j]
    BY <1>2, <1>3, <2>2
  <2> QED  BY <2>1, <2>2, <2>3 DEF WellPlaced
<1>5. WellPlaced(t, L + 1)
  <2>1. (L + 1) - 1 = L /\ Covered(t)[L] = DataLength(s)  BY <1>2, <1>3 DEF DataLength, L
  <2>2. \A j \in 1..L : ~Terminal(t[j]) /\ t[j].at <= e.at  BY <1>2 DEF Extends, L
  <2>3. e.kind \in {"data", "trailers"} => \A j \in 1..L : t[j].kind # "trailers"
    BY <1>2 DEF Extends, L
  <2>4. L + 1 > 1 => e.at >= t[L].at
    <3>1. L + 1 > 1 => L \in 1..L  BY <1>2
    <3>2. L \in 1..L => t[L] \in Event
      <4>1. L \in 1..Len(t) <=> L >= 1  BY <1>2
      <4> QED  BY <1>2, <4>1
    <3>3. e.at \in Nat /\ (L \in 1..L => t[L].at \in Nat)  BY <1>1, <3>2 DEF Event
    <3> QED  BY <2>2, <3>1, <3>3
  <2> QED  BY <1>2, <2>1, <2>2, <2>3, <2>4 DEF WellPlaced, Extends
<1>6. \A i \in 1..Len(t) : i \in 1..L \/ i = L + 1  BY <1>2
<1>7. \A i \in 1..Len(t) : WellPlaced(t, i)  BY <1>4, <1>5, <1>6
<1>8. Ordered(t)  BY <1>2, <1>7 DEF Ordered
<1> QED  BY <1>8 DEF t

\* The last event of a list with n more bytes.
Grown(s, n) == [s EXCEPT ![Len(s)].len = @ + n]

(* The last event of an ordered list can grow: the sums before it stay.     *)
LEMMA OrderedGrown ==
  ASSUME NEW s, Ordered(s), Len(s) > 0, s[Len(s)].kind = "data", NEW n \in Nat
  PROVE  /\ Ordered(Grown(s, n))
         /\ DataLength(Grown(s, n)) = DataLength(s) + n
         /\ Len(Grown(s, n)) = Len(s)
         /\ \A i \in 1..Len(s) : Grown(s, n)[i].kind = s[i].kind /\ Grown(s, n)[i].at = s[i].at
<1> DEFINE t == Grown(s, n)
           L == Len(s)
<1>1. s \in Seq(Event) /\ L \in Nat /\ L \in 1..L  BY DEF Ordered
<1>2. s[L] \in [kind : Kinds, at : Nat, off : Nat, len : Nat]
  <2>1. s[L] \in Event  BY <1>1
  <2> QED  BY <2>1 DEF Event
<1> DEFINE e == [s[L] EXCEPT !.len = @ + n]
<1>3. e \in Event /\ e.kind = s[L].kind /\ e.at = s[L].at /\ e.off = s[L].off /\ e.len = s[L].len + n
  BY <1>2 DEF Event
<1>4. t = [s EXCEPT ![L] = e]  BY DEF Grown
<1> HIDE DEF e
<1>5. t \in Seq(Event) /\ Len(t) = L /\ t[L] = e /\ \A i \in 1..L : i # L => t[i] = s[i]
  BY <1>1, <1>3, <1>4
<1> HIDE DEF t
<1>6. \A i \in 1..L : t[i].kind = s[i].kind /\ t[i].at = s[i].at /\ t[i].off = s[i].off  BY <1>3, <1>5
<1>7. \A m \in 0..(L - 1) : Covered(t)[m] = Covered(s)[m]
  <2>1. L - 1 \in Nat /\ L - 1 <= Len(s) /\ L - 1 <= Len(t)  BY <1>1, <1>5
  <2>2. \A i \in 1..(L - 1) : s[i].len = t[i].len
    <3>1. \A i \in 1..(L - 1) : i \in 1..L /\ i # L  BY <1>1
    <3> QED  BY <1>5, <3>1
  <2> HIDE DEF L
  <2>3. \A m \in 0..(L - 1) : Covered(s)[m] = Covered(t)[m]  BY <1>1, <1>5, <2>1, <2>2, SameSums
  <2> QED  BY <2>3
<1>8. DataLength(t) = DataLength(s) + n
  <2>1. Sums(s) /\ Sums(t)  BY <1>1, <1>5, CoveredSums
  <2>2. Covered(t)[L] = Covered(t)[L - 1] + e.len /\ Covered(s)[L] = Covered(s)[L - 1] + s[L].len
    BY <1>1, <1>5, <2>1 DEF Sums
  <2>3. L - 1 \in 0..(L - 1) /\ L - 1 \in 0..L /\ Covered(s)[L - 1] \in Nat /\ s[L].len \in Nat
    <3>1. L - 1 \in 0..(L - 1) /\ L - 1 \in 0..L  BY <1>1
    <3>2. Covered(s)[L - 1] \in Nat  BY <2>1, <3>1 DEF Sums
    <3> QED  BY <1>2, <3>1, <3>2
  <2> HIDE DEF L
  <2>4. Covered(t)[L - 1] = Covered(s)[L - 1]  BY <1>7, <2>3
  <2>5. Covered(t)[L] = Covered(s)[L] + n  BY <1>3, <2>2, <2>3, <2>4
  <2> QED  BY <1>5, <2>5 DEF DataLength, L
<1>9. ASSUME NEW i \in 1..L PROVE WellPlaced(t, i)
  <2>1. WellPlaced(s, i)  BY <1>9 DEF Ordered
  <2>2. (i > 1 => i - 1 \in 1..L) /\ i - 1 \in 0..(L - 1) /\ \A j \in 1..(i - 1) : j \in 1..L
    BY <1>1
  <2>3. t[i].kind = "data" => t[i].len > 0
    <3>1. CASE i = L
      <4>1. s[L].len \in Nat /\ (s[L].kind = "data" => s[L].len > 0)  BY <1>2, <2>1, <3>1 DEF WellPlaced
      <4> QED  BY <1>3, <1>5, <3>1, <4>1
    <3>2. CASE i # L  BY <1>5, <2>1, <3>2 DEF WellPlaced
    <3> QED  BY <3>1, <3>2
  <2>4. t[i].kind # "data" => t[i].len = 0
    <3>1. CASE i = L  BY <1>6, <3>1
    <3>2. CASE i # L  BY <1>5, <2>1, <3>2 DEF WellPlaced
    <3> QED  BY <3>1, <3>2
  <2>5. Covered(t)[i - 1] = Covered(s)[i - 1]  BY <1>7, <2>2
  <2> HIDE DEF L
  <2> QED  BY <1>6, <2>1, <2>2, <2>3, <2>4, <2>5 DEF WellPlaced, Terminal
<1>10. Ordered(t)  BY <1>5, <1>9 DEF Ordered
<1> QED  BY <1>5, <1>6, <1>8, <1>10 DEF t

\* What a push does to a list it may extend.
PushedTo(s, e, p) ==
    /\ Ordered(p.events) /\ Len(p.events) <= Cap
    /\ ~p.ok => p.events = s
    /\ p.ok => DataLength(p.events) = DataLength(s) + e.len
    /\ p.ok /\ e.kind # "data" => p.events = Append(s, e)
    /\ \A i \in 1..Len(p.events) : p.events[i].at <= e.at
    /\ e.kind = "data" => \A i \in 1..Len(p.events) : p.events[i].kind = "data"

(* Only DATA and trailers come before an event that is not the first.       *)
LEMMA AllData ==
  ASSUME NEW s, Ordered(s), NEW e, Extends(s, e), e.kind = "data"
  PROVE  \A i \in 1..Len(s) : s[i].kind = "data"
<1> SUFFICES ASSUME NEW i \in 1..Len(s) PROVE s[i].kind = "data"  OBVIOUS
<1>1. s[i] \in Event  BY DEF Ordered
<1>2. ~Terminal(s[i]) /\ s[i].kind # "trailers"  BY DEF Extends
<1> QED  BY <1>1, <1>2 DEF Event, Kinds, Terminal

(* Below the cap an event is appended.                                      *)
LEMMA AppendPushed ==
  ASSUME NEW s, Ordered(s), NEW e, Extends(s, e), e.kind = "data" => e.len > 0,
         Len(s) < Cap, Cap \in Nat
  PROVE  PushedTo(s, e, [ok |-> TRUE, events |-> Append(s, e)])
<1> DEFINE t == Append(s, e)
           L == Len(s)
<1>1. s \in Seq(Event) /\ e \in Event  BY DEF Ordered, Extends
<1>2. L \in Nat /\ Len(t) = L + 1 /\ t[L + 1] = e /\ \A i \in 1..L : t[i] = s[i]  BY <1>1
<1>3. Ordered(t)  BY OrderedAppend
<1>4. DataLength(t) = DataLength(s) + e.len  BY <1>1, SumsAppend
<1> HIDE DEF t
<1>5. \A i \in 1..Len(t) : i \in 1..L \/ i = L + 1  BY <1>2
<1>6. e.at \in Nat  BY <1>1 DEF Event
<1>7. \A i \in 1..Len(t) : t[i].at <= e.at
  <2>1. \A i \in 1..L : s[i].at <= e.at  BY DEF Extends
  <2> QED  BY <1>2, <1>5, <1>6, <2>1
<1>8. e.kind = "data" => \A i \in 1..Len(t) : t[i].kind = "data"  BY <1>2, <1>5, AllData
<1>9. Len(t) <= Cap  BY <1>2
<1>10. t = Append(s, e)  BY DEF t
<1> DEFINE p == [ok |-> TRUE, events |-> t]
<1>11. p.ok = TRUE /\ p.events = t  OBVIOUS
<1> HIDE DEF p
<1>12. PushedTo(s, e, p)  BY <1>3, <1>4, <1>7, <1>8, <1>9, <1>10, <1>11 DEF PushedTo
<1> QED  BY <1>12 DEF p, t

(* A push that is refused, or of no bytes, leaves the list as it is.        *)
LEMMA SamePushed ==
  ASSUME NEW s, Ordered(s), NEW e, Extends(s, e), Len(s) <= Cap, NEW p,
         p.events = s, ~p.ok \/ (e.kind = "data" /\ e.len = 0)
  PROVE  PushedTo(s, e, p)
<1>1. DataLength(s) \in Nat
  <2>1. s \in Seq(Event)  BY DEF Ordered
  <2>2. Len(s) \in 0..Len(s) /\ Sums(s)  BY <2>1, CoveredSums
  <2> QED  BY <2>2 DEF Sums, DataLength
<1>2. \A i \in 1..Len(s) : s[i].at <= e.at  BY DEF Extends
<1>3. e.kind = "data" => \A i \in 1..Len(s) : s[i].kind = "data"  BY AllData
<1> QED  BY <1>1, <1>2, <1>3 DEF PushedTo

(* In each of its three cases a push keeps a list ordered and in its cap.   *)
LEMMA PushPushed ==
  ASSUME NEW s, Ordered(s), NEW e, Extends(s, e), Len(s) <= Cap, Cap \in Nat, Cap > 0
  PROVE  PushedTo(s, e, Push(s, e))
<1> DEFINE p == Push(s, e)
           L == Len(s)
<1>1. s \in Seq(Event) /\ L \in Nat /\ e \in Event  BY DEF Ordered, Extends
<1>2. e.len \in Nat /\ e.kind \in Kinds  BY <1>1 DEF Event
<1>3. CASE e.kind = "data" /\ e.len = 0
  <2>1. p = [ok |-> TRUE, events |-> s]  BY <1>3 DEF Push, IsData
  <2> HIDE DEF p
  <2>2. p.events = s  BY <2>1
  <2> QED  BY <1>3, <2>2, SamePushed DEF p
<1>4. CASE ~(e.kind = "data" /\ e.len = 0) /\ L < Cap
  <2>1. p = [ok |-> TRUE, events |-> Append(s, e)]
    <3>1. ~(L >= Cap)  BY <1>1, <1>4
    <3> QED  BY <1>4, <3>1 DEF Push, IsData
  <2>2. e.kind = "data" => e.len > 0  BY <1>2, <1>4
  <2> QED  BY <1>4, <2>1, <2>2, AppendPushed
<1>5. CASE ~(e.kind = "data" /\ e.len = 0) /\ L >= Cap
  <2> DEFINE l == Last(s)
             merge == e.kind = "data" /\ l.kind = "data" /\ l.off + l.len = e.off
  <2>0. ~(L < Cap)  BY <1>1, <1>5
  <2>1. p = IF merge THEN [ok |-> TRUE, events |-> [s EXCEPT ![Len(s)].len = @ + e.len]]
            ELSE Refused(s)
    BY <1>5, <2>0 DEF Push, IsData
  <2>2. CASE merge
    <3>1. L = Cap /\ L > 0 /\ L \in 1..L /\ l = s[L]  BY <1>1, <1>5, <2>0 DEF Last
    <3> DEFINE t == Grown(s, e.len)
    <3>2. p = [ok |-> TRUE, events |-> t]  BY <2>1, <2>2 DEF Grown
    <3>3. s[L].kind = "data" /\ e.kind = "data"  BY <2>2, <3>1
    <3>4. /\ Ordered(t) /\ DataLength(t) = DataLength(s) + e.len /\ Len(t) = L
          /\ \A i \in 1..L : t[i].kind = s[i].kind /\ t[i].at = s[i].at
      <4> HIDE DEF t, L
      <4> QED  BY <1>2, <3>1, <3>3, OrderedGrown DEF t, L
    <3>5. \A i \in 1..L : s[i].at <= e.at  BY DEF Extends
    <3>6. \A i \in 1..L : s[i].kind = "data"  BY <3>3, AllData
    <3> HIDE DEF p, t, L
    <3>7. p.ok = TRUE /\ p.events = t  BY <3>2
    <3>8. PushedTo(s, e, p)  BY <3>1, <3>3, <3>4, <3>5, <3>6, <3>7 DEF PushedTo
    <3> QED  BY <3>8 DEF p
  <2>3. CASE ~merge
    <3>1. p = [ok |-> FALSE, events |-> s]  BY <2>1, <2>3 DEF Refused
    <3> HIDE DEF p
    <3>2. p.events = s /\ ~p.ok  BY <3>1
    <3> QED  BY <3>2, SamePushed DEF p
  <2> QED  BY <2>2, <2>3
<1> QED  BY <1>1, <1>3, <1>4, <1>5

-----------------------------------------------------------------------------
(* Validation.                                                              *)

\* No event is later than the delay limit.
InTime(s) == \A i \in 1..Len(s) : s[i].at <= MaxDelay

(* An ordered list validates when it is in time.                            *)
LEMMA OrderedValid ==
  ASSUME NEW s, Ordered(s), InTime(s)
  PROVE  ValidEvents(s)
<1>1. DOMAIN s = 1..Len(s)  BY DEF Ordered
<1>2. ASSUME NEW i \in 1..Len(s)
      PROVE  /\ \A j \in 1 .. i - 1 : s[j].kind \notin {"end", "error"}
             /\ s[i].at <= MaxDelay
             /\ i > 1 => s[i].at >= s[i - 1].at
             /\ IsData(s[i]) => s[i].off = Covered(s)[i - 1] /\ s[i].len > 0
             /\ s[i].kind = "error" => s[i].off = Covered(s)[i - 1]
             /\ s[i].kind \in {"data", "trailers"} =>
                    \A j \in 1 .. i - 1 : s[j].kind # "trailers"
  <2>1. WellPlaced(s, i)  BY DEF Ordered
  <2>2. s[i].at <= MaxDelay  BY DEF InTime
  <2> QED  BY <2>1, <2>2 DEF WellPlaced, Terminal, IsData
<1> QED  BY <1>1, <1>2 DEF ValidEvents

\* The list with its times left out.
Untimed(s) == [i \in DOMAIN s |-> [s[i] EXCEPT !.at = 0]]

(* An ordered list validates when its times are left out.                   *)
LEMMA OrderedUntimed ==
  ASSUME NEW s, Ordered(s), MaxDelay \in Nat
  PROVE  ValidEvents(Untimed(s))
<1> DEFINE t == Untimed(s)
           L == Len(s)
<1>1. s \in Seq(Event) /\ DOMAIN s = 1..L /\ L \in Nat  BY DEF Ordered
<1>2. ASSUME NEW i \in 1..L
      PROVE  t[i] \in Event /\ t[i].kind = s[i].kind /\ t[i].at = 0 /\ t[i].off = s[i].off
             /\ t[i].len = s[i].len
  <2>0. s[i] \in Event  BY <1>1
  <2>1. s[i] \in [kind : Kinds, at : Nat, off : Nat, len : Nat]  BY <2>0 DEF Event
  <2>2. t[i] = [s[i] EXCEPT !.at = 0]  BY <1>1 DEF Untimed
  <2> HIDE DEF t
  <2> QED  BY <2>1, <2>2 DEF Event
<1>3. t \in Seq(Event) /\ Len(t) = L
  <2>1. t = [i \in 1..L |-> t[i]]  BY <1>1 DEF Untimed
  <2> HIDE DEF t
  <2>2. t \in [1..L -> Event]  BY <1>2, <2>1
  <2> QED  BY <1>1, <2>2
<1> HIDE DEF t
<1>4. \A n \in 0..L : Covered(t)[n] = Covered(s)[n]
  <2>1. \A i \in 1..L : t[i].len = s[i].len  BY <1>2
  <2> QED  BY <1>1, <1>3, <2>1, SameSums
<1>5. ASSUME NEW i \in 1..L PROVE WellPlaced(t, i)
  <2>1. WellPlaced(s, i)  BY DEF Ordered
  <2>2. (i > 1 => i - 1 \in 1..L) /\ i - 1 \in 0..L /\ \A j \in 1..(i - 1) : j \in 1..L  BY <1>1
  <2>3. i > 1 => t[i].at >= t[i - 1].at  BY <1>2, <2>2
  <2> QED  BY <1>2, <1>4, <2>1, <2>2, <2>3 DEF WellPlaced, Terminal
<1>6. Ordered(t)  BY <1>3, <1>5 DEF Ordered
<1>7. InTime(t)  BY <1>2, <1>3 DEF InTime
<1>8. ValidEvents(t)  BY <1>6, <1>7, OrderedValid
<1> QED  BY <1>8 DEF t

(* Times only grow along an ordered list.                                   *)
LEMMA TimesGrow ==
  ASSUME NEW s, Ordered(s), NEW i \in 1..Len(s), NEW j \in 1..Len(s), i <= j
  PROVE  s[i].at <= s[j].at
<1> DEFINE L == Len(s)
           S == {n \in Nat : n >= i => s[i].at <= s[n].at}
<1>0. s \in Seq(Event) /\ L \in Nat  BY DEF Ordered
<1>1. \A n \in 1..L : s[n].at \in Nat
  <2>1. \A n \in 1..L : s[n] \in Event  BY <1>0
  <2> QED  BY <2>1 DEF Event
<1>2. 0 \in S  OBVIOUS
<1>3. ASSUME NEW n \in 1..L, n - 1 \in S PROVE n \in S
  <2> SUFFICES ASSUME n >= i PROVE s[i].at <= s[n].at  OBVIOUS
  <2>1. CASE n = i  BY <1>1, <2>1
  <2>2. CASE n > i
    <3>1. n - 1 \in 1..L /\ n - 1 >= i /\ n > 1  BY <2>2
    <3>2. s[i].at <= s[n - 1].at  BY <1>3, <3>1
    <3>3. s[n].at >= s[n - 1].at  BY <3>1 DEF Ordered, WellPlaced
    <3> QED  BY <1>1, <3>1, <3>2, <3>3
  <2> QED  BY <2>1, <2>2
<1>4. \A n \in 0..L : n \in S
  <2> HIDE DEF S, L
  <2> QED  BY <1>0, <1>2, <1>3, UpTo
<1> QED  BY <1>4

-----------------------------------------------------------------------------
(* Redaction.                                                               *)

Keep(k, e) == IF IsData(e) THEN k ELSE Append(k, e)

\* What Others reads, event by event.
Keeps(k, s) ==
    /\ k \in [0..Len(s) -> Seq(Event)]
    /\ k[0] = << >>
    /\ \A n \in 1..Len(s) : k[n] = Keep(k[n - 1], s[n])
    /\ Others(s) = k[Len(s)]

(* What Others computes, event by event.                                    *)
LEMMA OthersLoop ==
  ASSUME NEW s \in Seq(Event)
  PROVE  \E k : Keeps(k, s)
<1> DEFINE L == Len(s)
           V == Seq(Event)
           step == [n \in 1..L |-> [v \in V |-> Keep(v, s[n])]]
           Rule(g, n) == IF n = 0 THEN << >>
                         ELSE IF IsData(s[n]) THEN g[n - 1] ELSE Append(g[n - 1], s[n])
           Unrolled(g) == g = [n \in 0..L |-> Rule(g, n)]
           r == CHOOSE g : Unrolled(g)
<1>1. L \in Nat /\ \A n \in 1..L : s[n] \in Event  OBVIOUS
<1>2. << >> \in V  OBVIOUS
<1>3. \A n \in 1..L : \A v \in V : Keep(v, s[n]) \in V  BY <1>1 DEF Keep
<1>4. step \in [1..L -> [V -> V]]
  <2> HIDE DEF V
  <2> QED  BY <1>3
<1>5. PICK g \in [0..L -> V] : g[0] = << >> /\ \A n \in 1..L : g[n] = step[n][g[n - 1]]
  <2> HIDE DEF step, V, L
  <2>1. HasRun(L, V, << >>, step)  BY <1>1, <1>2, <1>4, LoopExists
  <2> QED  BY <2>1 DEF HasRun, IsRun
<1>6. Unrolled(g)
  <2>1. ASSUME NEW n \in 0..L PROVE g[n] = Rule(g, n)
    <3>1. CASE n = 0  BY <3>1, <1>5
    <3>2. CASE n # 0
      <4> HIDE DEF V
      <4>1. n \in 1..L /\ n - 1 \in 0..L  BY <3>2
      <4>2. g[n] = step[n][g[n - 1]] /\ g[n - 1] \in V  BY <1>5, <4>1
      <4> QED  BY <3>2, <4>1, <4>2 DEF Keep
    <3> QED  BY <3>1, <3>2
  <2> HIDE DEF Rule, V
  <2> QED  BY <1>5, <2>1
<1>7. Unrolled(r)
  <2> HIDE DEF Unrolled
  <2> QED  BY <1>6
<1>8. Others(s) = r[L]  BY Zenon DEF Others
<1> HIDE DEF r
<1>9. \A n \in 0..L : r[n] = Rule(r, n)  BY <1>7
<1>10. r[0] = << >>  BY <1>1, <1>9
<1>11. ASSUME NEW n \in 1..L PROVE r[n] = Keep(r[n - 1], s[n])
  <2>1. n \in 0..L /\ n # 0  OBVIOUS
  <2>2. r[n] = Rule(r, n)  BY <1>9, <2>1
  <2> QED  BY <2>1, <2>2 DEF Keep
<1> DEFINE S == {n \in Nat : r[n] \in V}
<1>12. \A n \in 0..L : n \in S
  <2>1. 0 \in S  BY <1>2, <1>10
  <2>2. ASSUME NEW n \in 1..L, n - 1 \in S PROVE n \in S
    <3> HIDE DEF V
    <3>1. r[n] \in V  BY <1>3, <1>11, <2>2
    <3> QED  BY <3>1
  <2> HIDE DEF S, L
  <2> QED  BY <1>1, <2>1, <2>2, UpTo
<1>13. r \in [0..L -> V]
  <2>1. \A n \in 0..L : r[n] \in V  BY <1>12
  <2> HIDE DEF Rule, V
  <2> QED  BY <1>7, <2>1
<1>14. Keeps(r, s)  BY <1>8, <1>10, <1>11, <1>13 DEF Keeps
<1> QED  BY <1>14

\* The events after the DATA of a finished list.
Ends(tr) == IF tr THEN 2 ELSE 1

\* A finished list: DATA, the trailers if there were any, and how it ended.
Whole(s, tr) ==
    /\ Ordered(s)
    /\ Len(s) >= Ends(tr)
    /\ s[Len(s)].kind \in (IF tr THEN {"end"} ELSE {"end", "error"})
    /\ tr => s[Len(s) - 1].kind = "trailers"
    /\ \A i \in 1..(Len(s) - Ends(tr)) : s[i].kind = "data"

\* The events of a finished list that are not DATA.
Ending(s, tr, o) ==
    /\ o \in Seq(Event) /\ Len(o) = Ends(tr)
    /\ o[Ends(tr)] = s[Len(s)]
    /\ tr => o[1] = s[Len(s) - 1]

(* What is left without the DATA.                                           *)
LEMMA OthersWhole ==
  ASSUME NEW s, NEW tr \in BOOLEAN, Whole(s, tr)
  PROVE  Ending(s, tr, Others(s))
<1> DEFINE L == Len(s)
           d == L - Ends(tr)
<1>1. s \in Seq(Event) /\ L \in Nat  BY DEF Whole, Ordered
<1>2. PICK k : Keeps(k, s)  BY <1>1, OthersLoop
<1>3. d \in Nat /\ L = d + Ends(tr)  BY <1>1 DEF Whole, Ends
<1> DEFINE S == {n \in Nat : k[n] = << >>}
<1>4. \A n \in 0..d : n \in S
  <2>1. 0 \in S  BY <1>2 DEF Keeps
  <2>2. ASSUME NEW n \in 1..d, n - 1 \in S PROVE n \in S
    <3>1. n \in 1..L  BY <1>3 DEF Ends
    <3>2. s[n].kind = "data"  BY DEF Whole
    <3>3. k[n] = k[n - 1]  BY <1>2, <3>1, <3>2 DEF Keeps, Keep, IsData
    <3> QED  BY <2>2, <3>3
  <2> HIDE DEF S, d
  <2> QED  BY <1>3, <2>1, <2>2, UpTo
<1>5. k[d] = << >>  BY <1>3, <1>4
<1> HIDE DEF d
<1>6. CASE tr
  <2>1. L = d + 2 /\ d + 1 \in 1..L /\ d + 2 \in 1..L /\ (d + 1) - 1 = d /\ (d + 2) - 1 = d + 1 /\ L - 1 = d + 1
    BY <1>3, <1>6 DEF Ends
  <2>2. s[d + 1].kind = "trailers" /\ s[d + 2].kind = "end"  BY <1>6, <2>1 DEF Whole
  <2>3. k[d + 1] = Append(k[d], s[d + 1]) /\ k[d + 2] = Append(k[d + 1], s[d + 2])
    BY <1>2, <2>1, <2>2 DEF Keeps, Keep, IsData
  <2>4. Others(s) = k[d + 2]  BY <1>2, <2>1 DEF Keeps
  <2>5. s[d + 1] \in Event /\ s[d + 2] \in Event  BY <1>1, <2>1
  <2>6. k[d + 1] \in Seq(Event) /\ Len(k[d + 1]) = 1 /\ k[d + 1][1] = s[d + 1]  BY <1>5, <2>3, <2>5
  <2>7. k[d + 2] \in Seq(Event) /\ Len(k[d + 2]) = 2 /\ k[d + 2][1] = s[d + 1] /\ k[d + 2][2] = s[d + 2]
    BY <2>3, <2>5, <2>6
  <2> QED  BY <1>6, <2>1, <2>4, <2>7 DEF Ending, Ends
<1>7. CASE ~tr
  <2>1. L = d + 1 /\ d + 1 \in 1..L /\ (d + 1) - 1 = d  BY <1>3, <1>7 DEF Ends
  <2>2. s[d + 1].kind # "data"  BY <1>7, <2>1 DEF Whole
  <2>3. k[d + 1] = Append(k[d], s[d + 1])  BY <1>2, <2>1, <2>2 DEF Keeps, Keep, IsData
  <2>4. Others(s) = k[d + 1] /\ s[d + 1] \in Event  BY <1>1, <1>2, <2>1 DEF Keeps
  <2>5. k[d + 1] \in Seq(Event) /\ Len(k[d + 1]) = 1 /\ k[d + 1][1] = s[d + 1]  BY <1>5, <2>3, <2>4
  <2> QED  BY <1>7, <2>1, <2>4, <2>5 DEF Ending, Ends
<1> QED  BY <1>6, <1>7

(* The empty list is ordered and covers nothing.                            *)
LEMMA EmptySum == Ordered(<< >>) /\ DataLength(<< >>) = 0
<1>1. << >> \in Seq(Event) /\ Len(<< >>) = 0  OBVIOUS
<1>2. Sums(<< >>)  BY <1>1, CoveredSums
<1> QED  BY <1>1, <1>2 DEF Sums, DataLength, Ordered

\* The start of a redacted list: nothing, or all the bytes in one event.
Lumped(n, t) == IF n = 0 THEN << >> ELSE << Data(t, 0, n) >>

(* All the bytes in one event are an ordered list.                          *)
LEMMA LumpedOrdered ==
  ASSUME NEW n \in Nat, NEW t \in Nat
  PROVE  /\ Ordered(Lumped(n, t)) /\ DataLength(Lumped(n, t)) = n
         /\ \A i \in 1..Len(Lumped(n, t)) : Lumped(n, t)[i].kind = "data" /\ Lumped(n, t)[i].at = t
         /\ Len(Lumped(n, t)) = IF n = 0 THEN 0 ELSE 1
<1>1. CASE n = 0  BY <1>1, EmptySum DEF Lumped
<1>2. CASE n # 0
  <2> DEFINE e == Data(t, 0, n)
  <2>1. e \in Event /\ e.kind = "data" /\ e.at = t /\ e.off = 0 /\ e.len = n  BY DEF Data, Event, Kinds
  <2> HIDE DEF e
  <2>2. Append(<< >>, e) = << e >> /\ << >> \in Seq(Event) /\ Len(<< >>) = 0  OBVIOUS
  <2> DEFINE o == << >>
  <2>a. o \in Seq(Event) /\ Ordered(o) /\ DataLength(o) = 0 /\ Len(o) = 0  BY EmptySum
  <2>b. e.len > 0  BY <1>2, <2>1
  <2> HIDE DEF o
  <2>3. Extends(o, e)  BY <2>1, <2>a DEF Extends
  <2>4. Ordered(Append(o, e))  BY <2>3, <2>a, <2>b, OrderedAppend
  <2>c. DataLength(Append(o, e)) = DataLength(o) + e.len  BY <2>1, <2>a, SumsAppend
  <2>5. DataLength(Append(o, e)) = n  BY <2>1, <2>a, <2>c
  <2>6. Lumped(n, t) = << e >>  BY <1>2 DEF Lumped, e
  <2> QED  BY <1>2, <2>1, <2>2, <2>4, <2>5, <2>6 DEF o
<1> QED  BY <1>1, <1>2

(* A list of DATA with the ending of a whole one is whole.                  *)
LEMMA WholeAgain ==
  ASSUME NEW b, Ordered(b), NEW t \in Nat, \A i \in 1..Len(b) : b[i].kind = "data" /\ b[i].at <= t,
         NEW x \in Event, x.kind = "trailers", x.off = 0, x.len = 0, t <= x.at,
         NEW y \in Event, y.kind = "end", y.off = 0, y.len = 0, x.at <= y.at
  PROVE  /\ Whole(Append(Append(b, x), y), TRUE)
         /\ DataLength(Append(Append(b, x), y)) = DataLength(b)
         /\ Len(Append(Append(b, x), y)) = Len(b) + 2
<1> DEFINE c == Append(b, x)
           z == Append(c, y)
           L == Len(b)
<1>1. b \in Seq(Event) /\ L \in Nat  BY DEF Ordered
<1>2. x.at \in Nat /\ y.at \in Nat  BY DEF Event
<1>3. \A i \in 1..L : b[i].at \in Nat
  <2>1. \A i \in 1..L : b[i] \in Event  BY <1>1
  <2> QED  BY <2>1 DEF Event
<1>4. Extends(b, x)  BY <1>2, <1>3 DEF Extends, Terminal
<1>5. Ordered(c) /\ DataLength(c) = DataLength(b) + 0  BY <1>1, <1>4, OrderedAppend, SumsAppend
<1>6. Len(c) = L + 1 /\ c[L + 1] = x /\ \A i \in 1..L : c[i] = b[i]  BY <1>1
<1> HIDE DEF c
<1>7. c \in Seq(Event) /\ \A i \in 1..Len(c) : i \in 1..L \/ i = L + 1  BY <1>1, <1>5, <1>6 DEF Ordered
<1>8. Extends(c, y)
  <2>1. \A i \in 1..Len(c) : ~Terminal(c[i]) /\ c[i].at <= y.at
    BY <1>2, <1>3, <1>6, <1>7 DEF Terminal
  <2> QED  BY <2>1 DEF Extends
<1>9. Ordered(z) /\ DataLength(z) = DataLength(c) + 0  BY <1>5, <1>7, <1>8, OrderedAppend, SumsAppend
<1>10. Len(z) = L + 2 /\ z[L + 2] = y /\ z[L + 1] = x /\ \A i \in 1..L : z[i] = b[i]
  BY <1>1, <1>6, <1>7
<1> HIDE DEF z
<1>11. DataLength(b) \in Nat
  <2>1. Sums(b) /\ L \in 0..L  BY <1>1, CoveredSums
  <2> QED  BY <2>1 DEF Sums, DataLength
<1>12. Whole(z, TRUE)
  <2>1. Len(z) - Ends(TRUE) = L /\ Len(z) - 1 = L + 1 /\ Len(z) >= Ends(TRUE)  BY <1>1, <1>10 DEF Ends
  <2>2. \A i \in 1..L : z[i].kind = "data"  BY <1>10
  <2> HIDE DEF L
  <2>3. Ordered(z) /\ z[Len(z)].kind = "end" /\ z[Len(z) - 1].kind = "trailers"  BY <1>9, <1>10, <2>1
  <2> QED  BY <2>1, <2>2, <2>3 DEF Whole
<1>13. DataLength(z) = DataLength(b) /\ Len(z) = Len(b) + 2  BY <1>5, <1>9, <1>10, <1>11
<1> QED  BY <1>12, <1>13 DEF z, c

(* A finished list ends once, after its DATA and its trailers.              *)
LEMMA WholeOnce ==
  ASSUME NEW b, Ordered(b), NEW t \in Nat, \A i \in 1..Len(b) : b[i].kind = "data" /\ b[i].at <= t,
         NEW y \in Event, Terminal(y), y.len = 0, t <= y.at,
         y.kind = "end" => y.off = 0, y.kind = "error" => y.off = DataLength(b)
  PROVE  /\ Whole(Append(b, y), FALSE)
         /\ DataLength(Append(b, y)) = DataLength(b)
         /\ Len(Append(b, y)) = Len(b) + 1
<1> DEFINE z == Append(b, y)
           L == Len(b)
<1>1. b \in Seq(Event) /\ L \in Nat  BY DEF Ordered
<1>2. y.at \in Nat  BY DEF Event
<1>3. \A i \in 1..L : b[i].at \in Nat
  <2>1. \A i \in 1..L : b[i] \in Event  BY <1>1
  <2> QED  BY <2>1 DEF Event
<1>4. Extends(b, y)  BY <1>2, <1>3 DEF Extends, Terminal
<1>5. Ordered(z) /\ DataLength(z) = DataLength(b) + 0
  BY <1>1, <1>4, OrderedAppend, SumsAppend DEF Terminal
<1>6. Len(z) = L + 1 /\ z[L + 1] = y /\ \A i \in 1..L : z[i] = b[i]  BY <1>1
<1> HIDE DEF z
<1>7. DataLength(b) \in Nat
  <2>1. Sums(b) /\ L \in 0..L  BY <1>1, CoveredSums
  <2> QED  BY <2>1 DEF Sums, DataLength
<1>8. Whole(z, FALSE)
  <2>1. Len(z) - Ends(FALSE) = L /\ Len(z) >= Ends(FALSE)  BY <1>1, <1>6 DEF Ends
  <2>2. \A i \in 1..L : z[i].kind = "data"  BY <1>6
  <2> HIDE DEF L
  <2>3. Ordered(z) /\ z[Len(z)].kind \in {"end", "error"}  BY <1>5, <1>6 DEF Terminal
  <2> QED  BY <2>1, <2>2, <2>3 DEF Whole
<1>9. DataLength(z) = DataLength(b) /\ Len(z) = Len(b) + 1  BY <1>5, <1>6, <1>7
<1> QED  BY <1>8, <1>9 DEF z

(* A finished list with bytes starts with DATA.                             *)
LEMMA WholeStarts ==
  ASSUME NEW s, NEW tr \in BOOLEAN, Whole(s, tr), DataLength(s) # 0
  PROVE  Len(s) > Ends(tr) /\ s[1].kind = "data" /\ SelectInSeq(s, IsData) = 1
<1> DEFINE L == Len(s)
<1>1. s \in Seq(Event) /\ L \in Nat  BY DEF Whole, Ordered
<1>2. Sums(s)  BY <1>1, CoveredSums
<1>3. L > Ends(tr)
  <2> SUFFICES ASSUME ~(L > Ends(tr)) PROVE FALSE  OBVIOUS
  <2>a. PICK e \in {1, 2} : Ends(tr) = e  BY DEF Ends
  <2>b. L >= e /\ ~(L > e)  BY <2>a DEF Whole
  <2>c. L = e /\ e \in {1, 2}
    <3> HIDE DEF L
    <3> QED  BY <1>1, <2>b
  <2>1. L = Ends(tr) /\ L \in {1, 2}  BY <2>a, <2>c
  <2>2. \A i \in 1..L : s[i].len = 0
    <3>1. ASSUME NEW i \in 1..L PROVE s[i].kind # "data"
      <4>1. CASE tr
        <5>1. L = 2 /\ L - 1 = 1  BY <2>1, <4>1 DEF Ends
        <5>2. i = L \/ i = L - 1  BY <5>1
        <5> QED  BY <4>1, <5>2 DEF Whole
      <4>2. CASE ~tr
        <5>1. i = L  BY <2>1, <4>2 DEF Ends
        <5> QED  BY <4>2, <5>1 DEF Whole
      <4> QED  BY <4>1, <4>2
    <3> QED  BY <3>1 DEF Whole, Ordered, WellPlaced
  <2>3. Covered(s)[0] = 0 /\ Covered(s)[1] = Covered(s)[0] + s[1].len
        /\ (L = 2 => Covered(s)[2] = Covered(s)[1] + s[2].len)
    <3>1. 1 \in 1..L /\ (L = 2 => 2 \in 1..L)  BY <2>1
    <3>2. 1 - 1 = 0 /\ 2 - 1 = 1  OBVIOUS
    <3> QED  BY <1>2, <3>1, <3>2 DEF Sums
  <2>4. Covered(s)[L] = 0
    <3>1. 1 \in 1..L /\ (L = 2 => 2 \in 1..L)  BY <2>1
    <3>2. s[1].len = 0 /\ (L = 2 => s[2].len = 0)  BY <2>2, <3>1
    <3> QED  BY <2>1, <2>3, <3>2
  <2> QED  BY <2>4 DEF DataLength
<1>4. s[1].kind = "data"
  <2>1. 1 \in 1..(L - Ends(tr))  BY <1>1, <1>3 DEF Ends
  <2> QED  BY <2>1 DEF Whole
<1> DEFINE I == {i \in 1..L : IsData(s[i])}
<1>5. 1 \in I /\ \A y \in I : 1 =< y  BY <1>1, <1>3, <1>4 DEF IsData, Ends
<1>6. \A x \in I : (\A y \in I : x =< y) => x = 1  BY <1>5
<1>7. SelectInSeq(s, IsData) = IF I # {} THEN Min(I) ELSE 0  BY DEF SelectInSeq
<1> HIDE DEF I
<1>8. Min(I) = 1  BY <1>5, <1>6 DEF Min
<1> QED  BY <1>3, <1>4, <1>5, <1>7, <1>8

(* Two entries appended one by one or as a list.                            *)
LEMMA AppendTwo ==
  ASSUME NEW T, NEW b \in Seq(T), NEW x \in T, NEW y \in T, NEW m \in Seq(T),
         Len(m) = 2, m[1] = x, m[2] = y
  PROVE  b \o m = Append(Append(b, x), y)
<1> DEFINE c == Append(b, x)
           z == Append(c, y)
           L == Len(b)
<1>1. L \in Nat /\ c \in Seq(T) /\ Len(c) = L + 1 /\ c[L + 1] = x /\ \A i \in 1..L : c[i] = b[i]
  OBVIOUS
<1> HIDE DEF c
<1>2. z \in Seq(T) /\ Len(z) = L + 2 /\ z[L + 2] = y /\ \A i \in 1..(L + 1) : z[i] = c[i]  BY <1>1
<1> HIDE DEF z
<1> DEFINE w == b \o m
<1>3. w \in Seq(T) /\ Len(w) = L + 2 /\ \A i \in 1..(L + 2) : w[i] = IF i <= L THEN b[i] ELSE m[i - L]
  <2>1. L + Len(m) = L + 2  BY <1>1
  <2> QED  BY ZenonT(60), <2>1, ConcatProperties
<1> HIDE DEF w
<1>4. ASSUME NEW i \in 1..(L + 2) PROVE z[i] = w[i]
  <2>1. CASE i <= L
    <3>1. i \in 1..L /\ i \in 1..(L + 1)  BY <1>1, <2>1
    <3> QED  BY <1>1, <1>2, <1>3, <2>1, <3>1
  <2>2. CASE i = L + 1
    <3>1. i - L = 1 /\ ~(i <= L) /\ i \in 1..(L + 1)  BY <1>1, <2>2
    <3> QED  BY <1>1, <1>2, <1>3, <2>2, <3>1
  <2>3. CASE i = L + 2
    <3>1. i - L = 2 /\ ~(i <= L)  BY <1>1, <2>3
    <3> QED  BY <1>2, <1>3, <2>3, <3>1
  <2>4. i <= L \/ i = L + 1 \/ i = L + 2  BY <1>1
  <2> QED  BY <2>1, <2>2, <2>3, <2>4
<1>5. z = w
  <2> HIDE DEF L
  <2> QED  BY <1>2, <1>3, <1>4, SeqEqual
<1> QED  BY <1>5 DEF c, z, w

\* What redaction leaves of a finished list.
Reconciled(s, tr, n, r) ==
    /\ Whole(r, tr) /\ DataLength(r) = n
    /\ Len(r) <= Len(s)
    /\ \A i \in 1..Len(r) : \E j \in 1..Len(s) : r[i].at = s[j].at

(* Reconciliation makes a finished list one for the redacted body.          *)
LEMMA ReconcileWhole ==
  ASSUME NEW s, NEW tr \in BOOLEAN, Whole(s, tr), NEW n \in Nat, DataLength(s) = 0 => n = 0
  PROVE  Reconciled(s, tr, n, Reconcile(s, n))
<1> DEFINE L == Len(s)
           r == Reconcile(s, n)
           o == Others(s)
           E == Ends(tr)
           moved == [i \in DOMAIN o |->
                        IF o[i].kind = "error" THEN [o[i] EXCEPT !.off = n] ELSE o[i]]
           t == s[1].at
           b == Lumped(n, t)
<1>1. s \in Seq(Event) /\ L \in Nat  BY DEF Whole, Ordered
<1>2. CASE DataLength(s) = n
  <2>1. r = s  BY <1>2 DEF Reconcile
  <2>2. \A i \in 1..L : s[i].at = s[i].at  OBVIOUS
  <2> QED  BY <1>1, <1>2, <2>1, <2>2 DEF Reconciled
<1>3. CASE DataLength(s) # n
  <2>1. DataLength(s) # 0  BY <1>3
  <2>2. L > E /\ s[1].kind = "data" /\ SelectInSeq(s, IsData) = 1  BY <2>1, WholeStarts
  <2>3. E \in {1, 2} /\ E = (IF tr THEN 2 ELSE 1)  BY DEF Ends
  <2>4. 1 \in 1..L /\ L \in 1..L /\ (tr => L - 1 \in 1..L)  BY <1>1, <2>2, <2>3
  <2>5. s[1] \in Event /\ s[L] \in Event /\ (tr => s[L - 1] \in Event)  BY <1>1, <2>4
  <2>6. t \in Nat /\ s[L].at \in Nat /\ (tr => s[L - 1].at \in Nat)  BY <2>5 DEF Event
  <2>7. /\ t <= s[L].at
        /\ tr => t <= s[L - 1].at /\ s[L - 1].at <= s[L].at
    <3>1. Ordered(s)  BY DEF Whole
    <3>2. 1 <= L /\ (tr => 1 <= L - 1 /\ L - 1 <= L)  BY <1>1, <2>2, <2>3
    <3> QED  BY <2>4, <3>1, <3>2, TimesGrow
  <2>8. o \in Seq(Event) /\ Len(o) = E /\ o[E] = s[L] /\ (tr => o[1] = s[L - 1])
    BY OthersWhole DEF Ending
  <2>9. /\ s[L].len = 0 /\ (s[L].kind = "end" => s[L].off = 0) /\ s[L].kind \in {"end", "error"}
        /\ tr => s[L].kind = "end" /\ s[L - 1].kind = "trailers" /\ s[L - 1].len = 0 /\ s[L - 1].off = 0
    <3>1. WellPlaced(s, L) /\ (tr => WellPlaced(s, L - 1))  BY <2>4 DEF Whole, Ordered
    <3>2. s[L].kind \in {"end", "error"} /\ (tr => s[L].kind = "end" /\ s[L - 1].kind = "trailers")
      BY DEF Whole
    <3> QED  BY <3>1, <3>2 DEF WellPlaced
  <2> DEFINE y == IF s[L].kind = "error" THEN [s[L] EXCEPT !.off = n] ELSE s[L]
             x == s[L - 1]
  <2>10. y \in Event /\ y.kind = s[L].kind /\ y.at = s[L].at /\ y.len = 0
         /\ (y.kind = "end" => y.off = 0) /\ (y.kind = "error" => y.off = n)
    <3>1. s[L] \in [kind : Kinds, at : Nat, off : Nat, len : Nat]  BY <2>5 DEF Event
    <3>2. CASE s[L].kind = "error"
      <4>1. y = [s[L] EXCEPT !.off = n]  BY <3>2
      <4> HIDE DEF y
      <4> QED  BY <2>9, <3>1, <3>2, <4>1 DEF Event
    <3>3. CASE s[L].kind # "error"  BY <2>5, <2>9, <3>3
    <3> QED  BY <3>2, <3>3
  <2> HIDE DEF y
  <2>11. /\ Ordered(b) /\ DataLength(b) = n
         /\ \A i \in 1..Len(b) : b[i].kind = "data" /\ b[i].at = t
         /\ Len(b) = IF n = 0 THEN 0 ELSE 1
    BY <2>6, LumpedOrdered
  <2>12. /\ DOMAIN o = 1..E /\ DOMAIN moved = 1..E /\ moved[E] = y /\ (tr => moved[1] = x)
    <3>1. DOMAIN o = 1..E  BY <2>8
    <3>2. moved[E] = y  BY <2>3, <2>8, <3>1 DEF y
    <3>3. tr => moved[1] = x
      <4>1. ASSUME tr PROVE moved[1] = o[1]
        <5>1. 1 \in DOMAIN o  BY <2>3, <3>1
        <5>2. o[1].kind # "error"  BY <2>8, <2>9, <4>1
        <5> QED  BY <5>1, <5>2
      <4> QED  BY <2>8, <4>1
    <3> QED  BY <3>1, <3>2, <3>3
  <2> DEFINE m == moved
             c == IF tr THEN Append(Append(b, x), y) ELSE Append(b, y)
  <2>13. m \in Seq(Event) /\ Len(m) = E
    <3>1. \A i \in 1..E : i = E \/ (tr /\ i = 1)  BY <2>3
    <3>2. \A i \in 1..E : m[i] \in Event  BY <2>5, <2>10, <2>12, <3>1
    <3>3. m = [i \in 1..E |-> m[i]] /\ E \in Nat  BY <2>3, <2>12
    <3> HIDE DEF m, E
    <3>4. m \in [1..E -> Event]  BY <3>2, <3>3
    <3> QED  BY <3>3, <3>4
  <2>14. r = IF n = 0 THEN m ELSE InsertAt(m, 1, Data(t, 0, n))
    <3>1. ~(1 = 0 \/ 1 > Len(m) + 1) /\ 1 # 0  BY <2>3, <2>13
    <3> HIDE DEF b
    <3> QED  BY <1>3, <2>2, <3>1 DEF Reconcile
  <2> HIDE DEF m
  <2>15. b \in Seq(Event)  BY <2>11 DEF Ordered
  <2>16. r = b \o m
    <3>1. CASE n = 0  BY <2>13, <2>14, <3>1 DEF Lumped
    <3>2. CASE n # 0
      <4>1. b = << Data(t, 0, n) >>  BY <3>2 DEF Lumped
      <4>2. InsertAt(m, 1, Data(t, 0, n)) = SubSeq(m, 1, 0) \o b \o SubSeq(m, 1, Len(m))
        <5>1. 1 - 1 = 0  OBVIOUS
        <5> HIDE DEF b
        <5> QED  BY <4>1, <5>1 DEF InsertAt
      <4> HIDE DEF b
      <4>3. SubSeq(m, 1, 0) = << >> /\ SubSeq(m, 1, Len(m)) = m  BY <2>13
      <4>4. << >> \o b = b  BY <2>15
      <4> QED  BY <2>14, <3>2, <4>2, <4>3, <4>4
    <3> QED  BY <3>1, <3>2
  <2> HIDE DEF b, r
  <2>17. c = b \o m
    <3>1. x \in Event \/ ~tr  BY <2>5
    <3> HIDE DEF x
    <3>2. CASE tr
      <4>1. E = 2 /\ m[1] = x /\ m[2] = y  BY <2>3, <2>12, <3>2 DEF m
      <4>3. c = Append(Append(b, x), y)  BY <3>2
      <4>4. m \in Seq(Event) /\ Len(m) = 2  BY <2>13, <4>1
      <4> HIDE DEF c
      <4> QED  BY ZenonT(60), <2>10, <2>15, <3>1, <3>2, <4>1, <4>3, <4>4, AppendTwo
    <3>3. CASE ~tr
      <4>1. E = 1 /\ m[1] = y  BY <2>3, <2>12, <3>3 DEF m
      <4>2. c = Append(b, y)  BY <3>3
      <4>3. m = << y >>  BY <2>13, <4>1
      <4> QED  BY <2>10, <2>15, <4>2, <4>3, AppendIsConcat
    <3> QED  BY <3>2, <3>3
  <2>18. r = c  BY <2>16, <2>17
  <2>19. \A i \in 1..Len(b) : b[i].kind = "data" /\ b[i].at <= t  BY <2>6, <2>11
  <2>20. Whole(c, tr) /\ DataLength(c) = n /\ Len(c) = Len(b) + E
    <3>1. CASE tr
      <4>1. c = Append(Append(b, x), y) /\ E = 2  BY <2>3, <3>1
      <4>2. x \in Event /\ x.kind = "trailers" /\ x.off = 0 /\ x.len = 0 /\ t <= x.at /\ x.at <= y.at
            /\ y.kind = "end" /\ y.off = 0
        BY <2>5, <2>7, <2>9, <2>10, <3>1
      <4> HIDE DEF x, c
      <4> QED  BY ZenonT(60), <2>6, <2>10, <2>11, <2>19, <3>1, <4>1, <4>2, WholeAgain
    <3>2. CASE ~tr
      <4>1. c = Append(b, y) /\ E = 1  BY <2>3, <3>2
      <4>2. Terminal(y) /\ t <= y.at  BY <2>7, <2>9, <2>10 DEF Terminal
      <4> HIDE DEF c
      <4>3. Whole(c, FALSE) /\ DataLength(c) = n /\ Len(c) = Len(b) + 1
        BY <2>6, <2>10, <2>11, <2>19, <4>1, <4>2, WholeOnce
      <4> QED  BY <3>2, <4>1, <4>3
    <3> QED  BY <3>1, <3>2
  <2>21. Len(c) <= L  BY <1>1, <2>2, <2>3, <2>11, <2>20
  <2>22. ASSUME NEW i \in 1..Len(c) PROVE \E j \in 1..L : c[i].at = s[j].at
    <3>1. Len(b) \in Nat  BY <2>15
    <3>2. Len(m) = E /\ c = b \o m /\ m \in Seq(Event)  BY <2>13, <2>17
    <3> HIDE DEF c
    <3>3. c[i] = IF i <= Len(b) THEN b[i] ELSE m[i - Len(b)]  BY <2>15, <2>20, <3>1, <3>2
    <3>4. CASE i <= Len(b)
      <4>1. c[i].at = s[1].at  BY <2>11, <3>1, <3>3, <3>4
      <4> QED  BY <2>4, <4>1
    <3>5. CASE ~(i <= Len(b))
      <4>1. i - Len(b) = E \/ (tr /\ i - Len(b) = 1)  BY <2>3, <2>20, <3>1, <3>5
      <4>2. CASE i - Len(b) = E
        <5>1. c[i].at = s[L].at  BY <2>10, <2>12, <3>3, <3>5, <4>2 DEF m
        <5> QED  BY <2>4, <5>1
      <4>3. CASE tr /\ i - Len(b) = 1
        <5>1. c[i].at = s[L - 1].at  BY <2>12, <3>3, <3>5, <4>3 DEF m
        <5> QED  BY <2>4, <4>3, <5>1
      <4> QED  BY <4>1, <4>2, <4>3
    <3> QED  BY <3>4, <3>5
  <2> HIDE DEF c
  <2>23. Reconciled(s, tr, n, c)  BY <2>20, <2>21, <2>22 DEF Reconciled
  <2> QED  BY <2>18, <2>23 DEF r
<1> QED  BY <1>2, <1>3

-----------------------------------------------------------------------------
(* Delays.                                                                  *)

IsMode(m) == m.num \in Nat /\ m.den \in Nat /\ m.den > 0

(* A scaled delay is rounded up.                                            *)
LEMMA DelayUp ==
  ASSUME NEW m, IsMode(m), NEW gap \in Nat
  PROVE  Delay(m, gap) \in Nat /\ Delay(m, gap) * m.den >= gap * m.num
<1> DEFINE a == gap * m.num
           b == m.den
           q == (a + b - 1) \div b
<1>1. a \in Nat /\ b \in Nat /\ b > 0  BY DEF IsMode
<1>2. Delay(m, gap) = q  BY DEF Delay
<1> HIDE DEF a, b
<1>3. q \in Nat /\ q * b >= a
  <2> DEFINE x == a + b - 1
  <2>1. x \in Nat  BY <1>1
  <2>2. x \div b \in Nat /\ x = b * (x \div b) + (x % b) /\ x % b \in 0..(b - 1)
    <3> HIDE DEF x
    <3> QED  BY <1>1, <2>1
  <2> DEFINE d == x \div b
             e == x % b
             w == b * d
  <2>3. d \in Nat /\ x = w + e /\ e <= b - 1 /\ e \in Nat  BY <1>1, <2>2
  <2>4. w \in Nat /\ w = d * b  BY <1>1, <2>3
  <2>5. w >= a
    <3> HIDE DEF d, e, w
    <3> QED  BY <1>1, <2>3, <2>4
  <2> QED  BY <2>3, <2>4, <2>5
<1> QED  BY <1>2, <1>3 DEF a, b

(* Recorded timing takes a gap as it is.                                    *)
LEMMA DelayRecorded ==
  ASSUME NEW gap \in Nat
  PROVE  IsMode(RecordedMode) /\ Delay(RecordedMode, gap) = gap
BY DEF Delay, RecordedMode, IsMode

-----------------------------------------------------------------------------
(* The schedule of a replay.                                                *)

Step == [kind : Kinds, delay : Nat, len : Nat]
Schedule == [bad : BOOLEAN, prev : Nat, total : Nat, trailerDelay : Nat,
             endDelay : Nat, failing : BOOLEAN, steps : Seq(Step)]

Gap(s, e) == IF e.at > s.prev THEN e.at - s.prev ELSE 0
TooLate(m, s, e) == s.bad \/ Gap(s, e) > MaxDelay \/ s.total + Delay(m, Gap(s, e)) > MaxTotal

\* What one event adds to a schedule.
Scheduled(m, s, e, r) ==
    /\ r \in Schedule
    /\ TooLate(m, s, e) => r.bad
    /\ ~TooLate(m, s, e) =>
          /\ r.bad = s.bad /\ r.prev = e.at /\ r.total = s.total + Delay(m, Gap(s, e))
          /\ e.kind \in {"data", "error"} =>
                r.steps = Append(s.steps, [kind |-> e.kind, delay |-> Delay(m, Gap(s, e)), len |-> e.len])
          /\ e.kind \notin {"data", "error"} => r.steps = s.steps

(* What an event adds to a schedule that is not refused.                    *)
LEMMA ScheduleOne ==
  ASSUME NEW m, IsMode(m), NEW s \in Schedule, NEW e \in Event
  PROVE  Scheduled(m, s, e, ScheduleEvent(m, s, e))
<1> DEFINE r == ScheduleEvent(m, s, e)
           gap == Gap(s, e)
           d == Delay(m, gap)
<1>1. s.prev \in Nat /\ s.total \in Nat /\ s.steps \in Seq(Step) /\ s.failing \in BOOLEAN /\ s.bad \in BOOLEAN
  BY DEF Schedule
<1>2. e.kind \in Kinds /\ e.at \in Nat /\ e.len \in Nat  BY DEF Event
<1>3. gap \in Nat  BY <1>1, <1>2 DEF Gap
<1>4. d \in Nat  BY <1>3, DelayUp
<1>5. s \in [bad : BOOLEAN, prev : Nat, total : Nat, trailerDelay : Nat,
             endDelay : Nat, failing : BOOLEAN, steps : Seq(Step)]
  BY DEF Schedule
<1> DEFINE step == [kind |-> e.kind, delay |-> d, len |-> e.len]
           steps == IF e.kind \in {"data", "error"} THEN Append(s.steps, step) ELSE s.steps
           td == IF e.kind = "trailers" THEN d ELSE s.trailerDelay
           ed == IF e.kind = "end" THEN d ELSE s.endDelay
           fl == s.failing \/ e.kind = "error"
           tt == s.total + d
           at == e.at
<1>6. step \in Step  BY <1>2, <1>4 DEF Step
<1>7. r = IF TooLate(m, s, e) THEN [s EXCEPT !.bad = TRUE]
          ELSE [s EXCEPT !.prev = at, !.total = tt, !.trailerDelay = td, !.endDelay = ed,
                         !.failing = fl, !.steps = steps]
  BY DEF ScheduleEvent, TooLate, Gap
<1> HIDE DEF step
<1>8. steps \in Seq(Step)  BY <1>1, <1>6
<1>9. td \in Nat /\ ed \in Nat /\ fl \in BOOLEAN /\ tt \in Nat /\ at \in Nat  BY <1>1, <1>2, <1>4, <1>5
<1>10. (e.kind \in {"data", "error"} => steps = Append(s.steps, step)) /\ (e.kind \notin {"data", "error"} => steps = s.steps)
  OBVIOUS
<1>11. CASE TooLate(m, s, e)
  <2>1. r = [s EXCEPT !.bad = TRUE]  BY <1>7, <1>11
  <2> HIDE DEF r
  <2>2. r \in Schedule /\ r.bad = TRUE  BY <1>5, <2>1 DEF Schedule
  <2>3. Scheduled(m, s, e, r)  BY <1>11, <2>2 DEF Scheduled
  <2> QED  BY <2>3 DEF r
<1>12. CASE ~TooLate(m, s, e)
  <2> HIDE DEF steps, td, ed, fl, tt, at
  <2>1. r = [s EXCEPT !.prev = at, !.total = tt, !.trailerDelay = td, !.endDelay = ed,
                      !.failing = fl, !.steps = steps]
    BY <1>7, <1>12
  <2> HIDE DEF r
  <2>2. r \in Schedule /\ r.bad = s.bad /\ r.prev = at /\ r.total = tt /\ r.steps = steps
    BY <1>5, <1>8, <1>9, <2>1 DEF Schedule
  <2>3. Scheduled(m, s, e, r)  BY <1>10, <1>12, <2>2 DEF Scheduled, at, tt, step
  <2> QED  BY <2>3 DEF r
<1> QED  BY <1>11, <1>12

\* What the schedules of the first events are.
Plans(m, E) ==
    /\ Schedules(m, E) \in [0..Len(E) -> Schedule]
    /\ Schedules(m, E)[0] = NoSchedule
    /\ \A n \in 1..Len(E) : Scheduled(m, Schedules(m, E)[n - 1], E[n], Schedules(m, E)[n])

(* The empty schedule is one.                                               *)
LEMMA NoScheduleType == NoSchedule \in Schedule
BY DEF NoSchedule, Schedule

(* What Schedules computes, event by event.                                 *)
LEMMA SchedulesLoop ==
  ASSUME NEW m, IsMode(m), NEW E \in Seq(Event)
  PROVE  Plans(m, E)
<1> DEFINE L == Len(E)
           V == Schedule
           step == [n \in 1..L |-> [v \in V |-> ScheduleEvent(m, v, E[n])]]
           Rule(g, n) == IF n = 0 THEN NoSchedule ELSE ScheduleEvent(m, g[n - 1], E[n])
           Unrolled(g) == g = [n \in 0..L |-> Rule(g, n)]
           r == CHOOSE g : Unrolled(g)
<1>1. L \in Nat /\ \A n \in 1..L : E[n] \in Event  OBVIOUS
<1>2. NoSchedule \in V  BY NoScheduleType
<1>3. \A n \in 1..L : \A v \in V : ScheduleEvent(m, v, E[n]) \in V  BY <1>1, ScheduleOne DEF Scheduled
<1>4. step \in [1..L -> [V -> V]]
  <2> HIDE DEF V
  <2> QED  BY <1>3
<1>5. PICK g \in [0..L -> V] : g[0] = NoSchedule /\ \A n \in 1..L : g[n] = step[n][g[n - 1]]
  <2> HIDE DEF step, V, L
  <2>1. HasRun(L, V, NoSchedule, step)  BY <1>1, <1>2, <1>4, LoopExists
  <2> QED  BY <2>1 DEF HasRun, IsRun
<1> HIDE DEF V
<1>6. Unrolled(g)
  <2>1. ASSUME NEW n \in 0..L PROVE g[n] = Rule(g, n)
    <3>1. CASE n = 0  BY <3>1, <1>5
    <3>2. CASE n # 0
      <4>1. n \in 1..L /\ n - 1 \in 0..L  BY <3>2
      <4>2. g[n] = step[n][g[n - 1]] /\ g[n - 1] \in V  BY <1>5, <4>1
      <4> QED  BY <3>2, <4>1, <4>2
    <3> QED  BY <3>1, <3>2
  <2> HIDE DEF Rule
  <2> QED  BY <1>5, <2>1
<1>7. Unrolled(r)
  <2> HIDE DEF Unrolled
  <2> QED  BY <1>6
<1>8. Schedules(m, E) = r  BY Zenon DEF Schedules
<1> HIDE DEF r
<1>9. \A n \in 0..L : r[n] = Rule(r, n)  BY <1>7
<1>10. r[0] = NoSchedule  BY <1>1, <1>9
<1>11. ASSUME NEW n \in 1..L PROVE r[n] = ScheduleEvent(m, r[n - 1], E[n])
  <2>1. n \in 0..L /\ n # 0  OBVIOUS
  <2> QED  BY <1>9, <2>1
<1> DEFINE S == {n \in Nat : r[n] \in V}
<1>12. \A n \in 0..L : n \in S
  <2>1. 0 \in S  BY <1>2, <1>10
  <2>2. ASSUME NEW n \in 1..L, n - 1 \in S PROVE n \in S
    <3>1. r[n] \in V  BY <1>3, <1>11, <2>2
    <3> QED  BY <3>1
  <2> HIDE DEF S, L
  <2> QED  BY <1>1, <2>1, <2>2, UpTo
<1>13. r \in [0..L -> V]
  <2>1. \A n \in 0..L : r[n] \in V  BY <1>12
  <2> HIDE DEF Rule
  <2> QED  BY <1>7, <2>1
<1>14. ASSUME NEW n \in 1..L PROVE Scheduled(m, r[n - 1], E[n], r[n])
  <2>1. n - 1 \in 0..L  OBVIOUS
  <2>2. r[n - 1] \in Schedule /\ E[n] \in Event  BY <1>1, <1>13, <2>1 DEF V
  <2>3. Scheduled(m, r[n - 1], E[n], ScheduleEvent(m, r[n - 1], E[n]))  BY <2>2, ScheduleOne
  <2> QED  BY <1>11, <2>3
<1> QED  BY <1>8, <1>10, <1>13, <1>14 DEF Plans, V

(* Scaled delays add up to no less than their scaled sum.                   *)
LEMMA ScaledSum ==
  ASSUME NEW a \in Nat, NEW d \in Nat, NEW p \in Nat, NEW g \in Nat, NEW x \in Nat, NEW y \in Nat,
         a * x >= p * y, d * x >= g * y
  PROVE  (a + d) * x >= (p + g) * y
<1>1. (a + d) * x = a * x + d * x  OBVIOUS
<1>2. (p + g) * y = p * y + g * y  OBVIOUS
<1> DEFINE ax == a * x
           dx == d * x
           py == p * y
           gy == g * y
<1>3. ax \in Nat /\ dx \in Nat /\ py \in Nat /\ gy \in Nat  OBVIOUS
<1>4. ax + dx >= py + gy
  <2>1. ax >= py /\ dx >= gy  OBVIOUS
  <2> HIDE DEF ax, dx, py, gy
  <2> QED  BY <1>3, <2>1
<1> QED  BY <1>1, <1>2, <1>4

\* How many events of a finished list are steps of its replay.
Count(E, tr) == IF E[Len(E)].kind = "error" THEN Len(E) ELSE Len(E) - Ends(tr)

(* The steps of a finished list are its DATA and its failure.               *)
LEMMA CountSteps ==
  ASSUME NEW E, NEW tr \in BOOLEAN, Whole(E, tr)
  PROVE  /\ Count(E, tr) \in Nat /\ Count(E, tr) <= Len(E) /\ Len(E) \in Nat /\ Len(E) > 0
         /\ \A n \in 1..Len(E) : (n <= Count(E, tr)) <=> E[n].kind \in {"data", "error"}
         /\ \A n \in 1..Len(E) : E[n].kind = "error" => n = Len(E)
         /\ E[Len(E)].kind \in {"end", "error"}
<1> DEFINE L == Len(E)
           K == Count(E, tr)
<1>0. PICK e \in {1, 2} : Ends(tr) = e /\ (e = 2 <=> tr) /\ (e = 1 <=> ~tr)  BY DEF Ends
<1>1. E \in Seq(Event) /\ L \in Nat  BY DEF Whole, Ordered
<1>2. L >= e /\ L \in 1..L /\ L > 0
  <2>1. L >= e  BY <1>0 DEF Whole
  <2> HIDE DEF L
  <2> QED  BY <1>1, <2>1
<1>3. E[L].kind \in {"end", "error"} /\ (tr => E[L].kind = "end" /\ E[L - 1].kind = "trailers")
  BY DEF Whole
<1>4. \A n \in 1..(L - e) : E[n].kind = "data"  BY <1>0 DEF Whole
<1>5. K = IF E[L].kind = "error" THEN L ELSE L - e  BY <1>0 DEF Count
<1>6. \A n \in 1..L : n = L \/ (tr /\ n = L - 1) \/ n \in 1..(L - e)
  <2> HIDE DEF L
  <2> QED  BY <1>0, <1>1
<1> HIDE DEF K
<1>7. ASSUME NEW n \in 1..L PROVE (n <= K) <=> E[n].kind \in {"data", "error"}
  <2>1. CASE n = L
    <3> HIDE DEF L
    <3> QED  BY <1>0, <1>1, <1>2, <1>3, <1>5, <2>1
  <2>2. CASE tr /\ n = L - 1
    <3>1. e = 2 /\ E[L].kind = "end" /\ E[n].kind = "trailers"  BY <1>0, <1>3, <2>2
    <3> HIDE DEF L
    <3> QED  BY <1>0, <1>1, <1>5, <2>2, <3>1
  <2>3. CASE n \in 1..(L - e)
    <3>1. E[n].kind = "data"  BY <1>4, <2>3
    <3> HIDE DEF L
    <3> QED  BY <1>1, <1>5, <2>3, <3>1
  <2> QED  BY <1>6, <2>1, <2>2, <2>3
<1>8. K \in Nat /\ K <= L
  <2> HIDE DEF L
  <2> QED  BY <1>0, <1>1, <1>2, <1>5
<1>9. \A n \in 1..L : E[n].kind = "error" => n = L  BY <1>3, <1>4, <1>6
<1> QED  BY <1>1, <1>2, <1>3, <1>7, <1>8, <1>9 DEF K

\* The schedule of the first n events.
Planned(m, E, tr, n) ==
    LET S == Schedules(m, E)
        s == S[n]
    IN  /\ ~s.bad =>
              /\ \A j \in 0..n : ~S[j].bad
              /\ s.prev = IF n = 0 THEN 0 ELSE E[n].at
              /\ s.total * m.den >= s.prev * m.num
              /\ Len(s.steps) = IF n <= Count(E, tr) THEN n ELSE Count(E, tr)
              /\ \A i \in 1..Len(s.steps) :
                    /\ s.steps[i].kind = E[i].kind /\ s.steps[i].len = E[i].len
                    /\ S[i].total = S[i - 1].total + s.steps[i].delay
        /\ m = RecordedMode => ~s.bad /\ s.total = s.prev

(* One more event keeps a schedule in step with the list.                   *)
LEMMA PlannedStep ==
  ASSUME NEW m, IsMode(m), NEW E, NEW tr \in BOOLEAN, Whole(E, tr), InTime(E),
         MaxDelay \in Nat, MaxTotal \in Nat, MaxDelay <= MaxTotal,
         NEW n \in 1..Len(E), Planned(m, E, tr, n - 1)
  PROVE  Planned(m, E, tr, n)
<1> DEFINE L == Len(E)
           S == Schedules(m, E)
           K == Count(E, tr)
           p == S[n - 1]
           s == S[n]
           e == E[n]
           gap == Gap(p, e)
           d == Delay(m, gap)
<1>1. E \in Seq(Event) /\ L \in Nat  BY DEF Whole, Ordered
<1>2. Plans(m, E)  BY <1>1, SchedulesLoop
<1>3. n - 1 \in 0..L /\ n \in 0..L /\ n \in Nat /\ n - 1 \in Nat  BY <1>1
<1>4. p \in Schedule /\ s \in Schedule /\ Scheduled(m, p, e, s)  BY <1>2, <1>3 DEF Plans
<1>5. e \in Event  BY <1>1
<1>6. e.at \in Nat /\ e.kind \in Kinds /\ e.len \in Nat  BY <1>5 DEF Event
<1>7. p.prev \in Nat /\ p.total \in Nat /\ p.steps \in Seq(Step) /\ p.bad \in BOOLEAN
  BY <1>4 DEF Schedule
<1>8. e.at <= MaxDelay  BY DEF InTime
<1>9. gap \in Nat /\ d \in Nat /\ d * m.den >= gap * m.num
  <2>1. gap \in Nat  BY <1>6, <1>7 DEF Gap
  <2> HIDE DEF gap
  <2> QED  BY <2>1, DelayUp
<1>10. ASSUME ~p.bad PROVE p.prev <= e.at /\ e.at = p.prev + gap
  <2>1. p.prev = IF n - 1 = 0 THEN 0 ELSE E[n - 1].at  BY <1>10 DEF Planned
  <2>2. p.prev <= e.at
    <3>1. CASE n - 1 = 0  BY <1>6, <2>1, <3>1
    <3>2. CASE n - 1 # 0
      <4>1. n > 1 /\ n - 1 \in 1..L  BY <1>3, <3>2
      <4>2. E[n].at >= E[n - 1].at  BY <4>1 DEF Whole, Ordered, WellPlaced
      <4> QED  BY <1>6, <1>7, <2>1, <3>2, <4>2
    <3> QED  BY <3>1, <3>2
  <2> QED  BY <1>6, <1>7, <2>2 DEF Gap
<1>11. ASSUME TooLate(m, p, e), ~s.bad PROVE FALSE  BY <1>4, <1>11 DEF Scheduled
<1>12. ASSUME ~s.bad
       PROVE  /\ ~TooLate(m, p, e) /\ ~p.bad /\ s.prev = e.at /\ s.total = p.total + d
              /\ e.kind \in {"data", "error"} =>
                    s.steps = Append(p.steps, [kind |-> e.kind, delay |-> d, len |-> e.len])
              /\ e.kind \notin {"data", "error"} => s.steps = p.steps
  <2>1. ~TooLate(m, p, e)  BY <1>11, <1>12
  <2> QED  BY <1>4, <1>12, <2>1 DEF Scheduled, TooLate
<1>13. ASSUME ~s.bad
       PROVE  /\ \A j \in 0..n : ~S[j].bad
              /\ s.prev = IF n = 0 THEN 0 ELSE E[n].at
              /\ s.total * m.den >= s.prev * m.num
              /\ Len(s.steps) = IF n <= K THEN n ELSE K
              /\ \A i \in 1..Len(s.steps) :
                    /\ s.steps[i].kind = E[i].kind /\ s.steps[i].len = E[i].len
                    /\ S[i].total = S[i - 1].total + s.steps[i].delay
  <2>0. /\ ~p.bad /\ s.prev = e.at /\ s.total = p.total + d
        /\ e.kind \in {"data", "error"} =>
              s.steps = Append(p.steps, [kind |-> e.kind, delay |-> d, len |-> e.len])
        /\ e.kind \notin {"data", "error"} => s.steps = p.steps
    BY <1>12, <1>13
  <2>1. /\ \A j \in 0..(n - 1) : ~S[j].bad
        /\ p.total * m.den >= p.prev * m.num
        /\ Len(p.steps) = IF n - 1 <= K THEN n - 1 ELSE K
        /\ \A i \in 1..Len(p.steps) :
              /\ p.steps[i].kind = E[i].kind /\ p.steps[i].len = E[i].len
              /\ S[i].total = S[i - 1].total + p.steps[i].delay
    BY <2>0 DEF Planned
  <2>2. \A j \in 0..n : ~S[j].bad
    <3>1. \A j \in 0..n : j \in 0..(n - 1) \/ j = n  BY <1>3
    <3> QED  BY <1>13, <2>1, <3>1
  <2>3. s.prev = IF n = 0 THEN 0 ELSE E[n].at  BY <2>0
  <2>4. s.total * m.den >= s.prev * m.num
    <3>1. m.num \in Nat /\ m.den \in Nat  BY DEF IsMode
    <3>2. e.at = p.prev + gap  BY <1>10, <2>0
    <3> HIDE DEF gap, d, p, e
    <3>3. (p.total + d) * m.den >= (p.prev + gap) * m.num  BY <1>7, <1>9, <2>1, <3>1, ScaledSum
    <3> QED  BY <2>0, <3>2, <3>3
  <2>5. K \in Nat /\ K <= L /\ ((n <= K) <=> e.kind \in {"data", "error"})  BY CountSteps
  <2>6. CASE n <= K
    <3>1. n - 1 <= K /\ Len(p.steps) = n - 1  BY <1>3, <2>1, <2>5, <2>6
    <3> DEFINE x == [kind |-> e.kind, delay |-> d, len |-> e.len]
    <3>2. s.steps = Append(p.steps, x) /\ x \in Step  BY <1>6, <1>9, <2>0, <2>5, <2>6 DEF Step
    <3>3. x.kind = E[n].kind /\ x.len = E[n].len /\ x.delay = d  OBVIOUS
    <3>4. Len(s.steps) = n /\ s.steps[n] = x /\ \A i \in 1..(n - 1) : s.steps[i] = p.steps[i]
      <4> HIDE DEF x
      <4> QED  BY <1>3, <1>7, <3>1, <3>2
    <3>5. ASSUME NEW i \in 1..n
          PROVE  /\ s.steps[i].kind = E[i].kind /\ s.steps[i].len = E[i].len
                 /\ S[i].total = S[i - 1].total + s.steps[i].delay
      <4>1. CASE i = n  BY <2>0, <3>3, <3>4, <4>1
      <4>2. CASE i # n
        <5>1. i \in 1..(n - 1)  BY <1>3, <4>2
        <5> QED  BY <2>1, <3>1, <3>4, <5>1
      <4> QED  BY <4>1, <4>2
    <3> QED  BY <2>2, <2>3, <2>4, <2>6, <3>4, <3>5
  <2>7. CASE ~(n <= K)
    <3>1. s.steps = p.steps /\ Len(p.steps) = K  BY <1>3, <2>0, <2>1, <2>5, <2>7
    <3> QED  BY <2>1, <2>2, <2>3, <2>4, <2>7, <3>1
  <2> QED  BY <2>6, <2>7
<1>14. ASSUME m = RecordedMode PROVE ~s.bad /\ s.total = s.prev
  <2>1. ~p.bad /\ p.total = p.prev  BY <1>14 DEF Planned
  <2>2. d = gap  BY <1>9, <1>14, DelayRecorded
  <2>3. e.at = p.prev + gap  BY <1>10, <2>1
  <2>4. gap <= MaxDelay /\ p.total + d <= MaxTotal
    <3> HIDE DEF gap, d, p, e
    <3> QED  BY <1>6, <1>7, <1>8, <1>9, <2>1, <2>2, <2>3
  <2>5. ~TooLate(m, p, e)
    <3>1. ~(gap > MaxDelay) /\ ~(p.total + d > MaxTotal)
      <4> HIDE DEF gap, d
      <4> QED  BY <1>7, <1>9, <2>4
    <3> QED  BY <2>1, <3>1 DEF TooLate
  <2>6. s.bad = p.bad /\ s.prev = e.at /\ s.total = p.total + d  BY <1>4, <2>5 DEF Scheduled
  <2> HIDE DEF gap, d, s, p, e
  <2> QED  BY <2>1, <2>2, <2>3, <2>6
<1> HIDE DEF K
<1> QED  BY <1>13, <1>14 DEF Planned, K

\* What the replay of a finished timeline is scheduled as.
Paced(m, E, tr) ==
    LET S == Schedules(m, E)
        B == BuildSchedule(m, E)
    IN  /\ S \in [0..Len(E) -> Schedule] /\ S[0].total = 0
        /\ ~B.bad => /\ Len(B.steps) = Count(E, tr)
                     /\ \A i \in 1..Count(E, tr) :
                           /\ B.steps[i].kind = E[i].kind /\ B.steps[i].len = E[i].len
                           /\ S[i].total = S[i - 1].total + B.steps[i].delay
                     /\ \A n \in 1..Len(E) : /\ S[n].total * m.den >= E[n].at * m.num
                                             /\ m = RecordedMode => S[n].total = E[n].at
        /\ m = RecordedMode => ~B.bad

(* A finished timeline is replayed step by step, none of them early.        *)
LEMMA TimelinePaced ==
  ASSUME NEW m, IsMode(m), NEW E, NEW tr \in BOOLEAN, Whole(E, tr), InTime(E),
         MaxDelay \in Nat, MaxTotal \in Nat, MaxDelay <= MaxTotal
  PROVE  Paced(m, E, tr)
<1> DEFINE L == Len(E)
           S == Schedules(m, E)
           K == Count(E, tr)
           P == {n \in Nat : Planned(m, E, tr, n)}
<1>1. E \in Seq(Event) /\ L \in Nat  BY DEF Whole, Ordered
<1>2. Plans(m, E)  BY <1>1, SchedulesLoop
<1>3. K \in Nat /\ K <= L  BY CountSteps
<1>4. 0 \in P
  <2>1. S[0] = NoSchedule  BY <1>2 DEF Plans
  <2>2. NoSchedule.bad = FALSE /\ NoSchedule.prev = 0 /\ NoSchedule.total = 0 /\ NoSchedule.steps = << >>
    BY DEF NoSchedule
  <2>3. m.den \in Nat /\ m.num \in Nat  BY DEF IsMode
  <2>4. 0 * m.den >= 0 * m.num  BY <2>3
  <2> HIDE DEF K
  <2>5. Len(<< >>) = 0 /\ (0 <= K) /\ 1..0 = {} /\ \A j \in 0..0 : j = 0  BY <1>3
  <2>6. Planned(m, E, tr, 0)  BY <2>1, <2>2, <2>4, <2>5 DEF Planned, K
  <2> QED  BY <2>6
<1>5. \A n \in 1..L : n - 1 \in P => n \in P
  <2> SUFFICES ASSUME NEW n \in 1..L, n - 1 \in P PROVE n \in P  OBVIOUS
  <2>1. Planned(m, E, tr, n - 1)  OBVIOUS
  <2>2. Planned(m, E, tr, n)  BY <2>1, PlannedStep
  <2> QED  BY <2>2
<1>6. \A n \in 0..L : Planned(m, E, tr, n)
  <2>1. \A n \in 0..L : n \in P
    <3> HIDE DEF P, L
    <3> QED  BY <1>1, <1>4, <1>5, UpTo
  <2> QED  BY <2>1
<1>7. L \in 0..L /\ BuildSchedule(m, E) = S[L]  BY <1>1 DEF BuildSchedule
<1>8. S \in [0..L -> Schedule] /\ S[0].total = 0  BY <1>2 DEF Plans, NoSchedule
<1>9. Planned(m, E, tr, L)  BY <1>6, <1>7
<1>10. m = RecordedMode => ~S[L].bad  BY <1>9 DEF Planned
<1>11. ASSUME ~S[L].bad
       PROVE  /\ Len(S[L].steps) = K
              /\ \A i \in 1..K : /\ S[L].steps[i].kind = E[i].kind /\ S[L].steps[i].len = E[i].len
                                 /\ S[i].total = S[i - 1].total + S[L].steps[i].delay
              /\ \A n \in 1..L : /\ S[n].total * m.den >= E[n].at * m.num
                                 /\ m = RecordedMode => S[n].total = E[n].at
  <2>1. /\ \A j \in 0..L : ~S[j].bad
        /\ Len(S[L].steps) = IF L <= K THEN L ELSE K
        /\ \A i \in 1..Len(S[L].steps) :
              /\ S[L].steps[i].kind = E[i].kind /\ S[L].steps[i].len = E[i].len
              /\ S[i].total = S[i - 1].total + S[L].steps[i].delay
    BY <1>9, <1>11 DEF Planned
  <2>2. Len(S[L].steps) = K
    <3> HIDE DEF K, L
    <3> QED  BY <1>1, <1>3, <2>1
  <2>3. ASSUME NEW n \in 1..L
        PROVE  /\ S[n].total * m.den >= E[n].at * m.num
               /\ m = RecordedMode => S[n].total = E[n].at
    <3>1. n \in 0..L /\ n # 0  OBVIOUS
    <3>2. Planned(m, E, tr, n) /\ ~S[n].bad  BY <1>6, <2>1, <3>1
    <3> QED  BY <3>1, <3>2 DEF Planned
  <2> HIDE DEF K, L, S
  <2> QED  BY <2>1, <2>2, <2>3
<1> QED  BY <1>7, <1>8, <1>10, <1>11 DEF Paced

-----------------------------------------------------------------------------
(* The invariant of the recorder.                                           *)

By(s, t) == \A i \in 1..Len(s) : s[i].at <= t

\* A list that is not finished: DATA, then at most the trailers.
Growing(s, tr) ==
    IF tr THEN Len(s) > 0 /\ s[Len(s)].kind = "trailers" /\ \A i \in 1..(Len(s) - 1) : s[i].kind = "data"
    ELSE \A i \in 1..Len(s) : s[i].kind = "data"

\* A list for n bytes kept.
ListOK(s, n) ==
    Ordered(s) /\ Len(s) <= Cap /\ By(s, MaxClock) /\ DataLength(s) <= n /\ n \in 0..MaxBlob

Phases == {"request", "response", "complete", "failed", "stored", "untimed", "loaded",
           "unloadable", "serving", "served"}

ClockInv ==
    /\ phase \in Phases /\ via \in {"session", "writer"}
    /\ clock \in 0..MaxClock /\ trailers \in BOOLEAN

RequestInv ==
    /\ ListOK(reqEvents, reqLen)
    /\ phase = "request" => /\ Growing(reqEvents, FALSE) /\ By(reqEvents, clock)
                            /\ via = "session" => DataLength(reqEvents) = reqLen

ResponseInv ==
    /\ ListOK(respEvents, respLen)
    /\ phase = "request" => respEvents = << >> /\ respLen = 0 /\ trailers = FALSE
    /\ phase = "response" => /\ outcome = "response" /\ Growing(respEvents, trailers)
                             /\ By(respEvents, clock) /\ DataLength(respEvents) = respLen
    /\ phase = "complete" => /\ DataLength(respEvents) = respLen
                             /\ outcome = "response" => Whole(respEvents, trailers)
                             /\ outcome # "response" => respEvents = << >>

\* A timeline the store refused has an event that is too late.
RefusedInv ==
    phase = "untimed" => \E e \in Range(reqEvents) \cup Range(respEvents) : e.at > MaxDelay

RecInv == ClockInv /\ RequestInv /\ ResponseInv /\ RefusedInv

(* What the assumption says of each constant.                               *)
LEMMA Bounds ==
  /\ Cap \in Nat /\ MaxDelay \in Nat /\ MaxTotal \in Nat /\ MaxBlob \in Nat /\ MaxFrames \in Nat
  /\ MaxClock \in Nat /\ Cap > 0 /\ Chunk \in Nat /\ Chunk > 0 /\ MaxDelay <= MaxTotal
  /\ FrameSizes \subseteq Nat /\ RequestSizes \subseteq Nat
  /\ \A m \in Modes : IsMode(m)
<1>1. /\ {Cap, MaxDelay, MaxTotal, MaxBlob, MaxFrames, MaxClock} \subseteq Nat
      /\ Cap > 0 /\ Chunk \in Nat \ {0} /\ MaxDelay <= MaxTotal
      /\ FrameSizes \subseteq Nat /\ RequestSizes \subseteq Nat
      /\ \A m \in Modes : m.num \in Nat /\ m.den \in Nat \ {0}
  BY TimelineAssumption DEF TimelineAssumption
<1>2. /\ Cap \in Nat /\ MaxDelay \in Nat /\ MaxTotal \in Nat /\ MaxBlob \in Nat /\ MaxFrames \in Nat
      /\ MaxClock \in Nat
  BY <1>1
<1>3. \A m \in Modes : IsMode(m)
  <2>1. \A d \in Nat \ {0} : d \in Nat /\ d > 0  OBVIOUS
  <2> QED  BY <1>1, <2>1 DEF IsMode
<1>4. Chunk \in Nat /\ Chunk > 0  BY <1>1
<1> QED  BY <1>1, <1>2, <1>3, <1>4

(* An ordered list is a sequence, and covers a number of bytes.             *)
LEMMA DataLengthNat ==
  ASSUME NEW s, Ordered(s)
  PROVE  DataLength(s) \in Nat /\ Len(s) \in Nat /\ s \in Seq(Event) /\ DOMAIN s = 1..Len(s)
<1>1. s \in Seq(Event)  BY DEF Ordered
<1>2. Sums(s) /\ Len(s) \in 0..Len(s)  BY <1>1, CoveredSums
<1> QED  BY <1>1, <1>2 DEF Sums, DataLength

(* The empty list is one for any body, at any time.                         *)
LEMMA EmptyList ==
  ASSUME NEW n \in 0..MaxBlob
  PROVE  ListOK(<< >>, n) /\ Growing(<< >>, FALSE) /\ \A t : By(<< >>, t)
<1>1. Len(<< >>) = 0 /\ 1..0 = {}  OBVIOUS
<1> QED  BY <1>1, EmptySum, Bounds DEF ListOK, Growing, By

(* A push keeps a list within its bounds.                                   *)
LEMMA PushList ==
  ASSUME NEW s, NEW n, ListOK(s, n), NEW e, Extends(s, e), e.at <= MaxClock,
         NEW k \in 0..MaxBlob, n <= k, DataLength(s) + e.len <= k
  PROVE  LET p == Push(s, e)
         IN  /\ ListOK(p.events, k) /\ By(p.events, e.at)
             /\ PushedTo(s, e, p)
<1> DEFINE p == Push(s, e)
<1>0. Ordered(s) /\ Len(s) <= Cap /\ DataLength(s) <= n /\ n \in Nat /\ k \in Nat
  BY Bounds DEF ListOK
<1>1. PushedTo(s, e, p)
  <2> HIDE DEF p
  <2> QED  BY <1>0, Bounds, PushPushed DEF p
<1> HIDE DEF p
<1>2. Ordered(p.events) /\ Len(p.events) <= Cap /\ \A i \in 1..Len(p.events) : p.events[i].at <= e.at
  BY <1>1 DEF PushedTo
<1>3. DataLength(s) \in Nat /\ DataLength(p.events) \in Nat  BY <1>0, <1>2, DataLengthNat
<1>4. DataLength(p.events) <= k
  <2>1. p.ok => DataLength(p.events) = DataLength(s) + e.len  BY <1>1 DEF PushedTo
  <2>2. ~p.ok => DataLength(p.events) = DataLength(s)  BY <1>1 DEF PushedTo
  <2> QED  BY <1>0, <1>3, <2>1, <2>2
<1>5. By(p.events, MaxClock)
  <2>1. e.at \in Nat  BY DEF Extends, Event
  <2>2. \A i \in 1..Len(p.events) : p.events[i].at \in Nat
    <3>1. p.events \in Seq(Event)  BY <1>2 DEF Ordered
    <3>2. \A i \in 1..Len(p.events) : p.events[i] \in Event  BY <3>1
    <3> QED  BY <3>2 DEF Event
  <2> QED  BY <1>2, <2>1, <2>2, Bounds DEF By
<1>6. ListOK(p.events, k) /\ By(p.events, e.at)  BY <1>2, <1>4, <1>5 DEF ListOK, By
<1> QED  BY <1>1, <1>6 DEF p

(* What the events pushed are.                                              *)
LEMMA Pushable ==
  ASSUME NEW s, Ordered(s), NEW t \in Nat, By(s, t), NEW n \in Nat, DataLength(s) = n
  PROVE  /\ Growing(s, FALSE) => \A k \in Nat : Extends(s, Data(t, n, k))
         /\ Growing(s, FALSE) => Extends(s, ErrorEvent(t, n))
         /\ Growing(s, FALSE) => Extends(s, Trailers(t))
         /\ \A tr \in BOOLEAN : Growing(s, tr) => Extends(s, EndEvent(t))
<1>1. ASSUME Growing(s, FALSE)
      PROVE  \A i \in 1..Len(s) : ~Terminal(s[i]) /\ s[i].at <= t /\ s[i].kind # "trailers"
  BY <1>1 DEF Growing, By, Terminal
<1>2. ASSUME NEW tr \in BOOLEAN, Growing(s, tr)
      PROVE  \A i \in 1..Len(s) : ~Terminal(s[i]) /\ s[i].at <= t
  <2>1. CASE tr
    <3>1. Len(s) \in Nat  BY DataLengthNat
    <3>2. \A i \in 1..Len(s) : i = Len(s) \/ i \in 1..(Len(s) - 1)  BY <3>1
    <3>3. s[Len(s)].kind = "trailers" /\ \A i \in 1..(Len(s) - 1) : s[i].kind = "data"
      BY <1>2, <2>1 DEF Growing
    <3>4. \A i \in 1..Len(s) : ~Terminal(s[i])  BY <3>2, <3>3 DEF Terminal
    <3> QED  BY <3>4 DEF By
  <2>2. CASE ~tr  BY <1>2, <2>2 DEF Growing, By, Terminal
  <2> QED  BY <2>1, <2>2
<1>3. \A k \in Nat : Data(t, n, k) \in Event /\ Data(t, n, k).at = t /\ Data(t, n, k).kind = "data" /\ Data(t, n, k).off = n
  BY DEF Data, Event, Kinds
<1>4. LET x == ErrorEvent(t, n) IN x \in Event /\ x.at = t /\ x.kind = "error" /\ x.off = n /\ x.len = 0
  BY DEF ErrorEvent, Event, Kinds
<1>5. LET x == Trailers(t) IN x \in Event /\ x.at = t /\ x.kind = "trailers" /\ x.off = 0 /\ x.len = 0
  BY DEF Trailers, Event, Kinds
<1>6. LET x == EndEvent(t) IN x \in Event /\ x.at = t /\ x.kind = "end" /\ x.off = 0 /\ x.len = 0
  BY DEF EndEvent, Event, Kinds
<1>7. ASSUME Growing(s, FALSE) PROVE \A k \in Nat : Extends(s, Data(t, n, k))
  BY <1>1, <1>3, <1>7 DEF Extends
<1>8. ASSUME Growing(s, FALSE) PROVE Extends(s, ErrorEvent(t, n))  BY <1>1, <1>4, <1>8 DEF Extends
<1>9. ASSUME Growing(s, FALSE) PROVE Extends(s, Trailers(t))  BY <1>1, <1>5, <1>9 DEF Extends
<1>10. ASSUME NEW tr \in BOOLEAN, Growing(s, tr) PROVE Extends(s, EndEvent(t))
  BY <1>2, <1>6, <1>10 DEF Extends
<1> QED  BY <1>7, <1>8, <1>9, <1>10

(* A list recorded by a time is recorded by a later one.                    *)
LEMMA ByLater ==
  ASSUME NEW s, Ordered(s), NEW t \in Nat, NEW u \in Nat, t <= u, By(s, t)
  PROVE  By(s, u)
<1>1. \A i \in 1..Len(s) : s[i].at \in Nat
  <2>1. \A i \in 1..Len(s) : s[i] \in Event  BY DEF Ordered
  <2> QED  BY <2>1 DEF Event
<1> QED  BY <1>1 DEF By

(* A list for a body is one for a longer body.                              *)
LEMMA ListMore ==
  ASSUME NEW s, NEW n, ListOK(s, n), NEW k \in 0..MaxBlob, n <= k
  PROVE  ListOK(s, k)
<1>1. DataLength(s) \in Nat /\ n \in Nat /\ k \in Nat  BY DataLengthNat, Bounds DEF ListOK
<1> QED  BY <1>1 DEF ListOK

(* A recorder starts with two empty lists.                                  *)
LEMMA RecInit ==
  ASSUME Init
  PROVE  RecInv
<1>1. 0 \in 0..MaxBlob /\ 0 \in 0..MaxClock  BY Bounds
<1>2. ListOK(<< >>, 0) /\ Growing(<< >>, FALSE) /\ By(<< >>, 0)  BY <1>1, EmptyList
<1>3. DataLength(<< >>) = 0  BY EmptySum
<1> QED  BY <1>1, <1>2, <1>3 DEF Init, RecInv, ClockInv, RequestInv, ResponseInv, RefusedInv, Phases

(* What leaves the request's events alone keeps their invariant.            *)
LEMMA RequestSame ==
  ASSUME RecInv, reqEvents' = reqEvents, reqLen' = reqLen, phase' # "request"
  PROVE  RequestInv'
BY DEF RecInv, RequestInv

(* No response event is recorded before the response begins.                *)
LEMMA ResponseSame ==
  ASSUME RecInv, phase = "request", phase' \in {"request", "response", "complete"},
         UNCHANGED <<respEvents, respLen, trailers>>,
         phase' = "response" => outcome' = "response",
         phase' = "complete" => outcome' = "error"
  PROVE  ResponseInv'
<1>1. respEvents = << >> /\ respLen = 0 /\ trailers = FALSE  BY DEF RecInv, ResponseInv
<1>2. 0 \in 0..MaxBlob  BY Bounds
<1>3. ListOK(<< >>, 0) /\ Growing(<< >>, FALSE) /\ \A t : By(<< >>, t)  BY <1>2, EmptyList
<1>4. DataLength(<< >>) = 0  BY EmptySum
<1>5. respEvents' = << >> /\ respLen' = 0 /\ trailers' = FALSE  BY <1>1
<1> QED  BY <1>3, <1>4, <1>5 DEF ResponseInv

(* Time that passes leaves the lists recorded by the clock.                 *)
LEMMA RecTick ==
  ASSUME RecInv, Tick
  PROVE  RecInv'
<1>1. clock \in Nat /\ clock' = clock + 1 /\ clock' \in 0..MaxClock /\ clock' \in Nat /\ clock <= clock'
  BY Bounds DEF RecInv, ClockInv, Tick
<1>2. UNCHANGED <<phase, via, reqEvents, reqLen, respEvents, respLen, trailers, outcome>>  BY DEF Tick
<1>3. By(reqEvents, clock) => By(reqEvents, clock')
  <2>1. Ordered(reqEvents)  BY DEF RecInv, RequestInv, ListOK
  <2> QED  BY <1>1, <2>1, ByLater
<1>4. By(respEvents, clock) => By(respEvents, clock')
  <2>1. Ordered(respEvents)  BY DEF RecInv, ResponseInv, ListOK
  <2> QED  BY <1>1, <2>1, ByLater
<1>5. ClockInv'  BY <1>1, <1>2 DEF RecInv, ClockInv
<1>6. RequestInv'  BY <1>2, <1>3 DEF RecInv, RequestInv
<1>7. ResponseInv'  BY <1>2, <1>4 DEF RecInv, ResponseInv
<1>8. RefusedInv'  BY <1>2 DEF RecInv, RefusedInv
<1> QED  BY <1>5, <1>6, <1>7, <1>8 DEF RecInv

(* A request frame: kept by the session recorder, counted by the plain one. *)
LEMMA RecRequestFrame ==
  ASSUME RecInv, NEW n \in Nat, RequestFrame(n)
  PROVE  RecInv'
<1>1. phase = "request" /\ UNCHANGED <<via, clock, respEvents, respLen, trailers>>  BY DEF RequestFrame
<1>2. /\ ListOK(reqEvents, reqLen) /\ Growing(reqEvents, FALSE) /\ By(reqEvents, clock)
      /\ via = "session" => DataLength(reqEvents) = reqLen
  BY <1>1 DEF RecInv, RequestInv
<1>3. reqLen \in Nat /\ clock \in Nat /\ clock <= MaxClock /\ Ordered(reqEvents) /\ reqLen \in 0..MaxBlob
  BY <1>2, Bounds DEF RecInv, ClockInv, ListOK
<1>4. CASE TeePlain(n)
  <2>1. reqLen + n <= MaxBlob /\ reqLen' = reqLen + n /\ UNCHANGED <<reqEvents, phase>> /\ via = "writer"
    BY <1>4 DEF TeePlain
  <2>2. reqLen' \in 0..MaxBlob /\ reqLen <= reqLen'  BY <1>3, <2>1, Bounds
  <2>3. ListOK(reqEvents, reqLen')  BY <1>2, <2>2, ListMore
  <2>4. RequestInv'  BY <1>1, <1>2, <2>1, <2>3 DEF RequestInv
  <2>5. ResponseInv'  BY <1>1, <2>1, ResponseSame
  <2> QED  BY <1>1, <2>1, <2>4, <2>5 DEF RecInv, ClockInv, RefusedInv
<1>5. CASE TeeSession(n)
  <2> DEFINE e == Data(clock, reqLen, n)
             p == Push(reqEvents, e)
  <2>1. /\ via = "session" /\ reqLen + n <= MaxBlob
        /\ reqEvents' = p.events /\ reqLen' = (IF p.ok THEN reqLen + n ELSE reqLen)
        /\ phase' = (IF p.ok THEN "request" ELSE "complete")
        /\ outcome' = (IF p.ok THEN outcome ELSE "error")
    BY <1>5 DEF TeeSession
  <2>2. e.kind = "data" /\ e.at = clock /\ e.len = n  BY DEF Data
  <2>3. Extends(reqEvents, e)  BY <1>2, <1>3, <2>1, Pushable
  <2>4. reqLen + n \in 0..MaxBlob /\ reqLen <= reqLen + n /\ DataLength(reqEvents) + n <= reqLen + n
    BY <1>2, <1>3, <2>1, Bounds
  <2> HIDE DEF e
  <2>5. ListOK(p.events, reqLen + n) /\ By(p.events, clock) /\ PushedTo(reqEvents, e, p)
    BY <1>2, <1>3, <2>2, <2>3, <2>4, PushList
  <2> HIDE DEF p
  <2>6. CASE p.ok
    <3>1. Growing(p.events, FALSE)  BY <2>2, <2>5 DEF PushedTo, Growing
    <3>2. DataLength(p.events) = reqLen + n  BY <1>2, <2>1, <2>2, <2>5, <2>6 DEF PushedTo
    <3>3. RequestInv'  BY <1>1, <2>1, <2>5, <2>6, <3>1, <3>2 DEF RequestInv
    <3>4. ResponseInv'  BY <1>1, <2>1, <2>6, ResponseSame
    <3> QED  BY <1>1, <2>1, <2>6, <3>3, <3>4 DEF RecInv, ClockInv, RefusedInv, Phases
  <2>7. CASE ~p.ok
    <3>1. p.events = reqEvents  BY <2>5, <2>7 DEF PushedTo
    <3>2. RequestInv'
      <4>1. reqEvents' = reqEvents /\ reqLen' = reqLen /\ phase' # "request"  BY <2>1, <2>7, <3>1
      <4> QED  BY <4>1, RequestSame
    <3>3. ResponseInv'  BY <1>1, <2>1, <2>7, ResponseSame
    <3> QED  BY <1>1, <2>1, <2>7, <3>2, <3>3 DEF RecInv, ClockInv, RefusedInv, Phases
  <2> QED  BY <2>6, <2>7
<1> QED  BY <1>4, <1>5 DEF RequestFrame

(* A frame over the blob limit fails the request, and is not an event.      *)
LEMMA RecRequestTooLong ==
  ASSUME RecInv, NEW n, RequestTooLong(n)
  PROVE  RecInv'
<1>1. /\ phase = "request" /\ phase' = "complete" /\ outcome' = "error"
      /\ UNCHANGED <<via, clock, reqEvents, reqLen, respEvents, respLen, trailers>>
  BY DEF RequestTooLong
<1>2. RequestInv'  BY <1>1, RequestSame
<1>3. ResponseInv'  BY <1>1, ResponseSame
<1> QED  BY <1>1, <1>2, <1>3 DEF RecInv, ClockInv, RefusedInv, Phases

(* The list a request ends with.                                            *)
LEMMA RequestEnded ==
  ASSUME RecInv, phase = "request", NEW e \in {EndEvent(clock), ErrorEvent(clock, reqLen)},
         RequestTerminal(e), reqLen' = reqLen, phase' # "request"
  PROVE  RequestInv'
<1>1. /\ ListOK(reqEvents, reqLen) /\ Growing(reqEvents, FALSE) /\ By(reqEvents, clock)
      /\ via = "session" => DataLength(reqEvents) = reqLen
  BY DEF RecInv, RequestInv
<1>2. reqLen \in Nat /\ clock \in Nat /\ clock <= MaxClock /\ Ordered(reqEvents) /\ reqLen \in 0..MaxBlob
  BY <1>1, Bounds DEF RecInv, ClockInv, ListOK
<1>3. CASE via = "session"
  <2>1. reqEvents' = Push(reqEvents, e).events  BY <1>3 DEF RequestTerminal
  <2>2. Extends(reqEvents, e)  BY <1>1, <1>2, <1>3, Pushable
  <2>3. e.len = 0 /\ e.at = clock  BY DEF EndEvent, ErrorEvent
  <2>4. reqLen <= reqLen /\ DataLength(reqEvents) + e.len <= reqLen  BY <1>1, <1>2, <1>3, <2>3
  <2>5. ListOK(Push(reqEvents, e).events, reqLen)  BY <1>1, <1>2, <2>2, <2>3, <2>4, PushList
  <2> QED  BY <2>1, <2>5 DEF RequestInv
<1>4. CASE via # "session"
  <2>1. reqEvents' = << >>  BY <1>4 DEF RequestTerminal
  <2> QED  BY <1>2, <2>1, EmptyList DEF RequestInv
<1> QED  BY <1>3, <1>4

(* The upstream answers or fails, after the whole request body or before.   *)
LEMMA RecUpstream ==
  ASSUME RecInv, NEW whole \in BOOLEAN, UpstreamResult(whole)
  PROVE  RecInv'
<1>1. /\ phase = "request" /\ UNCHANGED <<via, reqLen, respEvents, respLen, trailers>>
      /\ IF whole THEN RequestTerminal(EndEvent(clock)) ELSE UNCHANGED reqEvents
      /\ ResponseBegins \/ Fails
  BY DEF UpstreamResult
<1>2. \/ phase' = "response" /\ outcome' = "response"
      \/ phase' = "complete" /\ outcome' = "error"
  BY <1>1 DEF ResponseBegins, Fails
<1>3. clock' \in 0..MaxClock
  <2>1. clock' = 0 \/ clock' = clock  BY <1>1 DEF ResponseBegins, Fails
  <2> QED  BY <2>1, Bounds DEF RecInv, ClockInv
<1>4. RequestInv'
  <2>1. CASE whole  BY <1>1, <1>2, <2>1, RequestEnded
  <2>2. CASE ~whole
    <3>1. reqEvents' = reqEvents /\ reqLen' = reqLen /\ phase' # "request"  BY <1>1, <1>2, <2>2
    <3> QED  BY <3>1, RequestSame
  <2> QED  BY <2>1, <2>2
<1>5. ResponseInv'  BY <1>1, <1>2, ResponseSame
<1> QED  BY <1>1, <1>2, <1>3, <1>4, <1>5 DEF RecInv, ClockInv, RefusedInv, Phases

(* The client fails its body: the error is the last event, if it fits.      *)
LEMMA RecRequestBroken ==
  ASSUME RecInv, RequestBroken
  PROVE  RecInv'
<1>1. /\ phase = "request" /\ UNCHANGED <<via, clock, reqLen, respEvents, respLen, trailers>>
      /\ RequestTerminal(ErrorEvent(clock, reqLen)) /\ phase' = "complete" /\ outcome' = "error"
  BY DEF RequestBroken, Fails
<1>2. RequestInv'  BY <1>1, RequestEnded
<1>3. ResponseInv'  BY <1>1, ResponseSame
<1> QED  BY <1>1, <1>2, <1>3 DEF RecInv, ClockInv, RefusedInv, Phases

(* What a recorded response event leaves.                                   *)
LEMMA RecordedList ==
  ASSUME RecInv, phase = "response", NEW e, Extends(respEvents, e), e.at = clock,
         NEW next, Recorded(e, next), respLen + e.len <= MaxBlob, respLen' = respLen + e.len
  PROVE  LET p == Push(respEvents, e)
         IN  /\ ListOK(p.events, respLen') /\ By(p.events, clock) /\ PushedTo(respEvents, e, p)
             /\ respEvents' = p.events /\ phase' = (IF p.ok THEN next ELSE "failed")
             /\ p.ok => DataLength(p.events) = respLen'
<1> DEFINE p == Push(respEvents, e)
<1>1. ListOK(respEvents, respLen) /\ DataLength(respEvents) = respLen  BY DEF RecInv, ResponseInv
<1>2. respLen \in Nat /\ clock <= MaxClock /\ e.len \in Nat
  BY <1>1, Bounds DEF RecInv, ClockInv, ListOK, Extends, Event
<1>3. respLen' \in 0..MaxBlob /\ respLen <= respLen' /\ DataLength(respEvents) + e.len <= respLen'
  BY <1>1, <1>2, Bounds
<1>4. ListOK(p.events, respLen') /\ By(p.events, clock) /\ PushedTo(respEvents, e, p)
  <2> DEFINE k == respLen'
  <2>1. k \in 0..MaxBlob /\ respLen <= k /\ DataLength(respEvents) + e.len <= k  BY <1>3
  <2> HIDE DEF k
  <2>2. ListOK(Push(respEvents, e).events, k)
        /\ By(Push(respEvents, e).events, e.at) /\ PushedTo(respEvents, e, Push(respEvents, e))
    BY <1>1, <1>2, <2>1, PushList
  <2> QED  BY <2>2 DEF k
<1>5. respEvents' = p.events /\ phase' = (IF p.ok THEN next ELSE "failed")  BY DEF Recorded
<1>6. p.ok => DataLength(p.events) = respLen'  BY <1>1, <1>4 DEF PushedTo
<1> QED  BY <1>4, <1>5, <1>6

(* A failed exchange has only its bounds to keep.                           *)
LEMMA ResponseFailed ==
  ASSUME RecInv, ListOK(respEvents', respLen'), phase' = "failed"
  PROVE  ResponseInv'
BY DEF ResponseInv

(* A response frame: over the limit, refused, appended or merged.           *)
LEMMA RecResponseFrame ==
  ASSUME RecInv, NEW n \in Nat, ResponseFrame(n)
  PROVE  RecInv'
<1>1. /\ phase = "response" /\ trailers = FALSE
      /\ UNCHANGED <<via, clock, reqEvents, reqLen, trailers, outcome>>
  BY DEF ResponseFrame, RecInv, ClockInv
<1>2. /\ ListOK(respEvents, respLen) /\ Growing(respEvents, FALSE) /\ By(respEvents, clock)
      /\ DataLength(respEvents) = respLen /\ outcome = "response"
  BY <1>1 DEF RecInv, ResponseInv
<1>3. respLen \in Nat /\ clock \in Nat /\ Ordered(respEvents)
  BY <1>2, Bounds DEF RecInv, ClockInv, ListOK
<1>4. CASE respLen + n > MaxBlob
  <2>1. phase' = "failed" /\ UNCHANGED <<respEvents, respLen>>  BY <1>4 DEF ResponseFrame
  <2>2. RequestInv'  BY <1>1, <2>1, RequestSame
  <2>3. ResponseInv'  BY <1>2, <2>1, ResponseFailed
  <2> QED  BY <1>1, <2>1, <2>2, <2>3 DEF RecInv, ClockInv, RefusedInv, Phases
<1>5. CASE ~(respLen + n > MaxBlob)
  <2> DEFINE e == Data(clock, respLen, n)
             p == Push(respEvents, e)
  <2>1. Recorded(e, "response") /\ respLen' = respLen + n  BY <1>5 DEF ResponseFrame
  <2>2. e.kind = "data" /\ e.at = clock /\ e.len = n  BY DEF Data
  <2>3. Extends(respEvents, e)  BY <1>2, <1>3, Pushable
  <2>4. respLen + n <= MaxBlob  BY <1>3, <1>5, Bounds
  <2> HIDE DEF e
  <2>5. /\ ListOK(p.events, respLen') /\ By(p.events, clock) /\ PushedTo(respEvents, e, p)
        /\ respEvents' = p.events /\ phase' = (IF p.ok THEN "response" ELSE "failed")
        /\ p.ok => DataLength(p.events) = respLen'
    BY <1>1, <2>1, <2>2, <2>3, <2>4, RecordedList
  <2> HIDE DEF p
  <2>6. Growing(p.events, FALSE)  BY <2>2, <2>5 DEF PushedTo, Growing
  <2>7. RequestInv'
    <3>1. phase' # "request"  BY <2>5
    <3> QED  BY <1>1, <3>1, RequestSame
  <2>8. ResponseInv'
    <3>1. CASE p.ok  BY <1>1, <1>2, <2>5, <2>6, <3>1 DEF ResponseInv
    <3>2. CASE ~p.ok  BY <2>5, <3>2, ResponseFailed
    <3> QED  BY <3>1, <3>2
  <2>9. phase' \in {"response", "failed"}  BY <2>5
  <2> QED  BY <1>1, <2>7, <2>8, <2>9 DEF RecInv, ClockInv, RefusedInv, Phases
<1> QED  BY <1>4, <1>5

(* An event without bytes that is not refused is appended.                  *)
LEMMA RecordedLast ==
  ASSUME RecInv, phase = "response", NEW e, Extends(respEvents, e), e.at = clock, e.kind # "data",
         NEW next, Recorded(e, next), respLen' = respLen
  PROVE  /\ \/ phase' = "failed"
            \/ /\ phase' = next /\ respEvents' = Append(respEvents, e)
               /\ DataLength(respEvents') = respLen'
         /\ ListOK(respEvents', respLen') /\ By(respEvents', clock)
<1> DEFINE p == Push(respEvents, e)
<1>1. e.len = 0  BY DEF Extends
<1>2. respLen \in Nat /\ respLen <= MaxBlob  BY Bounds DEF RecInv, ResponseInv, ListOK
<1>3. respLen + e.len <= MaxBlob /\ respLen' = respLen + e.len  BY <1>1, <1>2
<1>4. /\ ListOK(p.events, respLen') /\ By(p.events, clock) /\ PushedTo(respEvents, e, p)
      /\ respEvents' = p.events /\ phase' = (IF p.ok THEN next ELSE "failed")
      /\ p.ok => DataLength(p.events) = respLen'
  BY <1>3, RecordedList
<1> HIDE DEF p
<1>5. p.ok => p.events = Append(respEvents, e)  BY <1>4 DEF PushedTo
<1> QED  BY <1>4, <1>5

(* The trailers are recorded after the DATA, or fail the exchange.          *)
LEMMA RecResponseTrailers ==
  ASSUME RecInv, ResponseTrailers
  PROVE  RecInv'
<1> DEFINE e == Trailers(clock)
<1>1. /\ phase = "response" /\ trailers = FALSE /\ trailers' = TRUE /\ Recorded(e, "response")
      /\ UNCHANGED <<via, clock, reqEvents, reqLen, respLen, outcome>>
  BY DEF ResponseTrailers, RecInv, ClockInv
<1>2. /\ ListOK(respEvents, respLen) /\ Growing(respEvents, FALSE) /\ By(respEvents, clock)
      /\ DataLength(respEvents) = respLen /\ outcome = "response"
  BY <1>1 DEF RecInv, ResponseInv
<1>3. respLen \in Nat /\ clock \in Nat /\ Ordered(respEvents)
  BY <1>2, Bounds DEF RecInv, ClockInv, ListOK
<1>4. Extends(respEvents, e)  BY <1>2, <1>3, Pushable
<1>5. e.kind = "trailers" /\ e.at = clock  BY DEF Trailers
<1>6. e \in Event /\ respEvents \in Seq(Event)  BY <1>3, <1>4 DEF Extends, Ordered
<1> HIDE DEF e
<1>7. /\ \/ phase' = "failed"
         \/ /\ phase' = "response" /\ respEvents' = Append(respEvents, e)
            /\ DataLength(respEvents') = respLen'
      /\ ListOK(respEvents', respLen') /\ By(respEvents', clock)
  BY <1>1, <1>4, <1>5, RecordedLast
<1>8. phase' # "request" /\ phase' # "complete" /\ phase' # "untimed" /\ phase' \in Phases
  BY <1>7 DEF Phases
<1>9. RequestInv'  BY <1>1, <1>8, RequestSame
<1>10. ResponseInv'
  <2>1. CASE phase' = "failed"  BY <1>7, <2>1, ResponseFailed
  <2>2. CASE phase' # "failed"
    <3>1. Growing(Append(respEvents, e), TRUE)
      <4> DEFINE t == Append(respEvents, e)
                 L == Len(respEvents)
      <4>1. L \in Nat /\ Len(t) = L + 1 /\ t[L + 1] = e /\ \A i \in 1..L : t[i] = respEvents[i]
        BY <1>6
      <4> HIDE DEF t
      <4>2. Len(t) - 1 = L /\ Len(t) > 0  BY <4>1
      <4>3. \A i \in 1..L : t[i].kind = "data"  BY <1>2, <4>1 DEF Growing
      <4>4. Growing(t, TRUE)  BY <1>5, <4>1, <4>2, <4>3 DEF Growing
      <4> QED  BY <4>4 DEF t
    <3>2. respEvents' = Append(respEvents, e) /\ DataLength(respEvents') = respLen' /\ phase' = "response"
      BY <1>7, <2>2
    <3>3. Growing(respEvents', trailers')  BY <1>1, <3>1, <3>2
    <3> QED  BY <1>1, <1>2, <1>7, <3>2, <3>3 DEF ResponseInv
  <2> QED  BY <2>1, <2>2
<1> QED  BY <1>1, <1>8, <1>9, <1>10 DEF RecInv, ClockInv, RefusedInv

(* How a response ends.                                                     *)
LEMMA ResponseFinished ==
  ASSUME RecInv, phase = "response", NEW e, Extends(respEvents, e), e.at = clock, Terminal(e),
         trailers => e.kind = "end",
         Recorded(e, "complete"),
         UNCHANGED <<via, clock, reqEvents, reqLen, respLen, trailers, outcome>>
  PROVE  RecInv'
<1>1. /\ ListOK(respEvents, respLen) /\ Growing(respEvents, trailers) /\ outcome = "response"
      /\ trailers \in BOOLEAN
  BY DEF RecInv, ResponseInv, ClockInv
<1>2. e \in Event /\ respEvents \in Seq(Event)  BY <1>1 DEF Extends, ListOK, Ordered
<1>3. /\ \/ phase' = "failed"
         \/ /\ phase' = "complete" /\ respEvents' = Append(respEvents, e)
            /\ DataLength(respEvents') = respLen'
      /\ ListOK(respEvents', respLen') /\ By(respEvents', clock)
  <2>1. e.kind # "data"  BY DEF Terminal
  <2> QED  BY <2>1, RecordedLast
<1>4. phase' \in {"failed", "complete"}  BY <1>3
<1>5. RequestInv'  BY <1>4, RequestSame
<1>6. ResponseInv'
  <2>1. CASE phase' = "failed"  BY <1>3, <2>1, ResponseFailed
  <2>2. CASE phase' # "failed"
    <3>1. respEvents' = Append(respEvents, e) /\ DataLength(respEvents') = respLen' /\ phase' = "complete"
          /\ trailers' = trailers /\ outcome' = "response"
      BY <1>1, <1>3, <2>2
    <3>2. ASSUME Ordered(Append(respEvents, e)) PROVE Whole(Append(respEvents, e), trailers)
      <4> DEFINE t == Append(respEvents, e)
                 L == Len(respEvents)
      <4>1. L \in Nat /\ Len(t) = L + 1 /\ t[L + 1] = e /\ \A i \in 1..L : t[i] = respEvents[i]
        BY <1>2
      <4>0. Ordered(t)  BY <3>2
      <4> HIDE DEF t
      <4>2. CASE trailers
        <5>1. L > 0 /\ respEvents[L].kind = "trailers" /\ \A i \in 1..(L - 1) : respEvents[i].kind = "data"
          BY <1>1, <4>2 DEF Growing
        <5>2. Len(t) - Ends(TRUE) = L - 1 /\ Len(t) >= Ends(TRUE) /\ Len(t) - 1 = L /\ L \in 1..L
          BY <4>1, <5>1 DEF Ends
        <5>3. \A i \in 1..(L - 1) : t[i].kind = "data"  BY <4>1, <5>1
        <5>4. Whole(t, TRUE)  BY <4>0, <4>1, <4>2, <5>1, <5>2, <5>3 DEF Whole
        <5> QED  BY <1>1, <4>2, <5>4 DEF t
      <4>3. CASE ~trailers
        <5>1. \A i \in 1..L : t[i].kind = "data"  BY <1>1, <4>1, <4>3 DEF Growing
        <5>2. Len(t) - Ends(FALSE) = L /\ Len(t) >= Ends(FALSE)  BY <4>1 DEF Ends
        <5>3. Whole(t, FALSE)  BY <4>0, <4>1, <5>1, <5>2 DEF Whole, Terminal
        <5> QED  BY <1>1, <4>3, <5>3 DEF t
      <4> QED  BY <4>2, <4>3
    <3>3. Ordered(Append(respEvents, e))  BY <1>3, <3>1 DEF ListOK
    <3>4. Whole(respEvents', trailers')  BY <3>1, <3>2, <3>3
    <3> QED  BY <1>3, <3>1, <3>4 DEF ResponseInv
  <2> QED  BY <2>1, <2>2
<1> QED  BY <1>4, <1>5, <1>6 DEF RecInv, ClockInv, RefusedInv, Phases

(* The end of a response finishes its list, or fails the exchange.          *)
LEMMA RecResponseEnd ==
  ASSUME RecInv, ResponseEnd
  PROVE  RecInv'
<1>1. /\ phase = "response" /\ Recorded(EndEvent(clock), "complete")
      /\ UNCHANGED <<via, clock, reqEvents, reqLen, respLen, trailers, outcome>>
  BY DEF ResponseEnd
<1>2. /\ ListOK(respEvents, respLen) /\ Growing(respEvents, trailers) /\ By(respEvents, clock)
      /\ DataLength(respEvents) = respLen
  BY <1>1 DEF RecInv, ResponseInv
<1>3. respLen \in Nat /\ clock \in Nat /\ Ordered(respEvents) /\ trailers \in BOOLEAN
  BY <1>2, Bounds DEF RecInv, ClockInv, ListOK
<1>4. Extends(respEvents, EndEvent(clock))  BY <1>2, <1>3, Pushable
<1>5. EndEvent(clock).at = clock /\ EndEvent(clock).kind = "end" /\ Terminal(EndEvent(clock))
  BY DEF EndEvent, Terminal
<1> QED  BY <1>1, <1>4, <1>5, ResponseFinished

(* The failure of a response finishes its list at the byte it reached.      *)
LEMMA RecResponseError ==
  ASSUME RecInv, ResponseError
  PROVE  RecInv'
<1> DEFINE e == ErrorEvent(clock, respLen)
<1>1. /\ phase = "response" /\ trailers = FALSE /\ Recorded(e, "complete")
      /\ UNCHANGED <<via, clock, reqEvents, reqLen, respLen, trailers, outcome>>
  BY DEF ResponseError, RecInv, ClockInv
<1>2. /\ ListOK(respEvents, respLen) /\ Growing(respEvents, FALSE) /\ By(respEvents, clock)
      /\ DataLength(respEvents) = respLen
  BY <1>1 DEF RecInv, ResponseInv
<1>3. respLen \in Nat /\ clock \in Nat /\ Ordered(respEvents)
  BY <1>2, Bounds DEF RecInv, ClockInv, ListOK
<1>4. Extends(respEvents, e)  BY <1>2, <1>3, Pushable
<1>5. e.at = clock /\ Terminal(e)  BY DEF ErrorEvent, Terminal
<1> HIDE DEF e
<1> QED  BY <1>1, <1>4, <1>5, ResponseFinished

-----------------------------------------------------------------------------
(* The fixture.                                                             *)

Recorder == {"request", "response", "complete", "failed"}

\* A timeline a fixture holds for a response body of n bytes.
Timeline(E, n, tr) == Whole(E, tr) /\ InTime(E) /\ DataLength(E) = n /\ Len(E) <= Cap

StoredOK ==
    /\ stored.body \in 0..MaxBlob /\ stored.timed \in BOOLEAN /\ stored.trailers \in BOOLEAN
    /\ ~stored.timed => stored.events = << >>
    /\ stored.outcome = "response" /\ stored.timed =>
           Timeline(stored.events, stored.body, stored.trailers)

Replaying == {"loaded", "serving", "served"}

FixtureInv ==
    /\ phase \notin Recorder => StoredOK
    /\ phase \in Replaying \cup {"unloadable"} =>
           stored.outcome = "response" /\ mode \in Modes /\ (Loads(mode) <=> phase # "unloadable")
    /\ phase \in Replaying => /\ file.len \in Nat /\ file.good \in BOOLEAN
                              /\ file.len <= stored.body + 1
                              /\ file.good => file.len = stored.body
    /\ phase \notin {"serving", "served"} => play = NoPlay

(* Nothing is stored or replayed at first.                                  *)
LEMMA FixtureInit ==
  ASSUME Init
  PROVE  FixtureInv
BY DEF Init, FixtureInv, Recorder, Replaying

(* A step of the recorder leaves the fixture as it is.                      *)
LEMMA FixtureRecorder ==
  ASSUME FixtureInv, phase \in Recorder, phase' \in Recorder, UNCHANGED <<stored, mode, file, play>>
  PROVE  FixtureInv'
BY DEF FixtureInv, Recorder, Replaying

(* A list that is not accepted is too late.                                 *)
LEMMA RefusedLate ==
  ASSUME NEW q, Ordered(q), Len(q) <= Cap, NEW p, Ordered(p), Len(p) <= Cap, ~ValidTimeline(q, p)
  PROVE  ~InTime(q) \/ ~InTime(p)
<1>1. Len(q) \in Nat /\ Len(p) \in Nat  BY DataLengthNat
<1>2. Len(q) + Len(p) <= 2 * Cap  BY <1>1, Bounds
<1>3. InTime(q) => ValidEvents(q)  BY OrderedValid
<1>4. InTime(p) => ValidEvents(p)  BY OrderedValid
<1> QED  BY <1>2, <1>3, <1>4 DEF ValidTimeline

(* A list that validates has no event later than the delay limit.           *)
LEMMA ValidInTime ==
  ASSUME NEW p, Ordered(p), ValidEvents(p)
  PROVE  InTime(p)
<1>1. DOMAIN p = 1..Len(p)  BY DataLengthNat
<1>2. \A i \in DOMAIN p : p[i].at <= MaxDelay  BY DEF ValidEvents
<1> QED  BY <1>1, <1>2 DEF InTime

(* A flow is stored with a finished timeline, unless it is too late.        *)
LEMMA AppendKeeps ==
  ASSUME RecInv, FixtureInv, NEW r, NEW k \in 0..MaxBlob, AppendRecording(r, k)
  PROVE  RecInv' /\ FixtureInv'
<1> DEFINE response == IF outcome = "response" THEN Reconcile(respEvents, k) ELSE respEvents
           accepted == ValidTimeline(reqEvents, response)
<1>1. /\ phase = "complete"
      /\ k \in (IF outcome = "response" THEN BodyLengths(respLen) ELSE {0})
      /\ stored' = [outcome |-> outcome, body |-> k, trailers |-> trailers, reqBody |-> r,
                    reqHeader |-> RequestHeaderLength(r), timed |-> accepted,
                    events |-> IF accepted THEN response ELSE << >>]
      /\ phase' = (IF accepted THEN "stored" ELSE "untimed")
      /\ UNCHANGED <<via, clock, frames, reqEvents, reqLen, respEvents, respLen, trailers, outcome>>
      /\ UNCHANGED <<mode, file, play>>
  BY DEF AppendRecording, recVars
<1>2. /\ ListOK(reqEvents, reqLen) /\ ListOK(respEvents, respLen) /\ DataLength(respEvents) = respLen
      /\ outcome = "response" => Whole(respEvents, trailers)
      /\ trailers \in BOOLEAN
  BY <1>1 DEF RecInv, RequestInv, ResponseInv, ClockInv
<1>3. accepted \in BOOLEAN  BY DEF ValidTimeline
<1>4. k \in Nat /\ (outcome = "response" /\ DataLength(respEvents) = 0 => k = 0)
  BY <1>1, <1>2, Bounds DEF BodyLengths
<1>5. ASSUME outcome = "response" PROVE Reconciled(respEvents, trailers, k, response)
  <2>1. response = Reconcile(respEvents, k)  BY <1>5
  <2> HIDE DEF response
  <2> QED  BY <1>2, <1>4, <1>5, <2>1, ReconcileWhole
<1>6. /\ Ordered(response) /\ Len(response) <= Cap
      /\ \A i \in 1..Len(response) : \E j \in 1..Len(respEvents) : response[i].at = respEvents[j].at
  <2>1. CASE outcome = "response"
    <3> HIDE DEF response
    <3>1. /\ Whole(response, trailers) /\ Len(response) <= Len(respEvents)
          /\ \A i \in 1..Len(response) : \E j \in 1..Len(respEvents) : response[i].at = respEvents[j].at
      BY <1>5, <2>1 DEF Reconciled
    <3>2. Ordered(response)  BY <3>1 DEF Whole
    <3>3. Len(response) \in Nat /\ Len(respEvents) \in Nat /\ Len(respEvents) <= Cap
      BY <1>2, <3>2, DataLengthNat DEF ListOK
    <3> QED  BY <3>1, <3>2, <3>3, Bounds
  <2>2. CASE outcome # "response"
    <3>1. response = respEvents  BY <2>2
    <3> QED  BY <1>2, <3>1 DEF ListOK
  <2> QED  BY <2>1, <2>2
<1>7. stored'.outcome = outcome /\ stored'.body = k /\ stored'.trailers = trailers
      /\ stored'.timed = accepted /\ stored'.events = (IF accepted THEN response ELSE << >>)
  BY <1>1
<1> HIDE DEF accepted
<1>8. ASSUME accepted PROVE InTime(response)
  <2> HIDE DEF response
  <2>1. ValidEvents(response)  BY <1>8 DEF accepted, ValidTimeline
  <2> QED  BY <1>6, <2>1, ValidInTime
<1>9. ASSUME ~accepted PROVE \E e \in Range(reqEvents) \cup Range(respEvents) : e.at > MaxDelay
  <2> HIDE DEF response
  <2>1. ~InTime(reqEvents) \/ ~InTime(response)
    BY <1>2, <1>6, <1>9, RefusedLate DEF accepted, ListOK
  <2>2. DOMAIN reqEvents = 1..Len(reqEvents) /\ DOMAIN respEvents = 1..Len(respEvents)
        /\ reqEvents \in Seq(Event) /\ respEvents \in Seq(Event)
    BY <1>2, DataLengthNat DEF ListOK
  <2>3. ASSUME NEW s \in {reqEvents, respEvents}, NEW i \in 1..Len(s), ~(s[i].at <= MaxDelay)
        PROVE  \E e \in Range(reqEvents) \cup Range(respEvents) : e.at > MaxDelay
    <3>1. s[i] \in Event  BY <2>2
    <3>2. s[i].at > MaxDelay
      <4>1. s[i].at \in Nat  BY <3>1 DEF Event
      <4> QED  BY <2>3, <4>1, Bounds
    <3>3. s[i] \in Range(reqEvents) \cup Range(respEvents)  BY <2>2 DEF Range
    <3> QED  BY <3>2, <3>3
  <2>4. CASE ~InTime(reqEvents)  BY <2>3, <2>4 DEF InTime
  <2>5. CASE ~InTime(response)
    <3>1. PICK i \in 1..Len(response) : ~(response[i].at <= MaxDelay)  BY <2>5 DEF InTime
    <3>2. PICK j \in 1..Len(respEvents) : response[i].at = respEvents[j].at  BY <1>6
    <3> QED  BY <2>3, <3>1, <3>2
  <2> QED  BY <2>1, <2>4, <2>5
<1>10. phase' \in {"stored", "untimed"} /\ (phase' = "untimed" => ~accepted)  BY <1>1
<1>11. RecInv'
  <2>1. RequestInv'
    <3>1. phase' # "request"  BY <1>10
    <3> QED  BY <1>1, <3>1, RequestSame
  <2>2. ResponseInv'  BY <1>1, <1>2, <1>10 DEF ResponseInv
  <2>3. RefusedInv'  BY <1>1, <1>9, <1>10 DEF RefusedInv
  <2>4. ClockInv'  BY <1>1, <1>10 DEF RecInv, ClockInv, Phases
  <2> QED  BY <2>1, <2>2, <2>3, <2>4 DEF RecInv
<1>12. FixtureInv'
  <2>1. ASSUME stored'.outcome = "response", stored'.timed
        PROVE  Timeline(stored'.events, stored'.body, stored'.trailers)
    <3>1. accepted /\ outcome = "response" /\ stored'.events = response  BY <1>3, <1>7, <2>1
    <3> HIDE DEF response
    <3>2. Whole(response, trailers) /\ DataLength(response) = k  BY <1>5, <3>1 DEF Reconciled
    <3> QED  BY <1>6, <1>7, <1>8, <3>1, <3>2 DEF Timeline
  <2>2. StoredOK'  BY <1>2, <1>3, <1>7, <2>1 DEF StoredOK
  <2>3. play' = NoPlay  BY <1>1 DEF FixtureInv, Recorder
  <2> QED  BY <1>10, <2>2, <2>3 DEF FixtureInv, Recorder, Replaying
<1> QED  BY <1>11, <1>12

(* A fixture that loads is one that can be replayed.                        *)
LEMMA LoadKeeps ==
  ASSUME RecInv, FixtureInv, NEW m \in Modes, Load(m)
  PROVE  RecInv' /\ FixtureInv'
<1>1. /\ phase \in {"stored", "untimed"} /\ stored.outcome = "response"
      /\ mode' = m /\ phase' = (IF Loads(m) THEN "loaded" ELSE "unloadable")
      /\ via' = "session" /\ outcome' = "none" /\ trailers' = FALSE
      /\ clock' = 0 /\ frames' = 0 /\ reqLen' = 0 /\ respLen' = 0
      /\ reqEvents' = << >> /\ respEvents' = << >>
      /\ UNCHANGED <<stored, play>>
      /\ file' \in {[len |-> stored.body, good |-> TRUE],
                    [len |-> stored.body, good |-> FALSE],
                    [len |-> stored.body + 1, good |-> FALSE]}
                   \cup IF stored.body > 0
                        THEN {[len |-> stored.body - 1, good |-> FALSE]} ELSE {}
  BY DEF Load
<1>2. 0 \in 0..MaxBlob /\ 0 \in 0..MaxClock  BY Bounds
<1>3. phase' \in {"loaded", "unloadable"} /\ (Loads(m) <=> phase' # "unloadable")  BY <1>1
<1>4. RecInv'
  <2>1. ClockInv'  BY <1>1, <1>2, <1>3 DEF ClockInv, Phases
  <2>2. RequestInv' /\ ResponseInv' /\ RefusedInv'
    BY <1>1, <1>2, <1>3, EmptyList DEF RequestInv, ResponseInv, RefusedInv
  <2> QED  BY <2>1, <2>2 DEF RecInv
<1>5. StoredOK /\ play = NoPlay  BY <1>1 DEF FixtureInv, Recorder
<1>6. StoredOK'  BY <1>1, <1>5 DEF StoredOK
<1>7. stored.body \in Nat  BY <1>5, Bounds DEF StoredOK
<1>8. /\ file'.len \in Nat /\ file'.good \in BOOLEAN /\ file'.len <= stored.body + 1
      /\ file'.good => file'.len = stored.body
  <2>1. PICK b \in Nat : b = stored.body  BY <1>7
  <2>2. PICK f : f = file'  OBVIOUS
  <2>a. f \in {[len |-> b, good |-> TRUE], [len |-> b, good |-> FALSE], [len |-> b + 1, good |-> FALSE]}
               \cup IF b > 0 THEN {[len |-> b - 1, good |-> FALSE]} ELSE {}
    BY <2>1, <2>2, Zenon DEF Load
  <2>3. \/ f = [len |-> b, good |-> TRUE] \/ f = [len |-> b, good |-> FALSE]
        \/ f = [len |-> b + 1, good |-> FALSE] \/ (b > 0 /\ f = [len |-> b - 1, good |-> FALSE])
    <3> DEFINE x == [len |-> b, good |-> TRUE]
               y == [len |-> b, good |-> FALSE]
               z == [len |-> b + 1, good |-> FALSE]
               w == [len |-> b - 1, good |-> FALSE]
    <3>1. f \in {x, y, z} \cup IF b > 0 THEN {w} ELSE {}  BY <2>a
    <3> HIDE DEF x, y, z, w
    <3>2. f = x \/ f = y \/ f = z \/ (b > 0 /\ f = w)  BY <3>1
    <3> QED  BY <3>2 DEF x, y, z, w
  <2>4. f.len \in Nat /\ f.good \in BOOLEAN /\ f.len <= b + 1 /\ (f.good => f.len = b)
    <3>1. CASE f = [len |-> b, good |-> TRUE]  BY <3>1
    <3>2. CASE f = [len |-> b, good |-> FALSE]  BY <3>2
    <3>3. CASE f = [len |-> b + 1, good |-> FALSE]  BY <3>3
    <3>4. CASE b > 0 /\ f = [len |-> b - 1, good |-> FALSE]
      <4>1. b - 1 \in Nat /\ b - 1 <= b + 1  BY <3>4
      <4> QED  BY <3>4, <4>1
    <3> QED  BY <2>3, <3>1, <3>2, <3>3, <3>4
  <2> QED  BY <2>1, <2>2, <2>4
<1>9. Loads(m) <=> Loads(mode)'  BY <1>1 DEF Loads
<1> QED  BY <1>1, <1>3, <1>4, <1>5, <1>6, <1>8, <1>9 DEF FixtureInv, Recorder, Replaying

(* What a replay does leaves the recorder and the fixture alone.            *)
LEMMA ReplayKeeps ==
  ASSUME RecInv, FixtureInv, phase \in {"loaded", "serving"}, phase' \in {"serving", "served"},
         UNCHANGED <<recVars, stored, mode, file>>
  PROVE  RecInv' /\ FixtureInv'
<1>1. UNCHANGED <<via, clock, frames, reqEvents, reqLen, respEvents, respLen, trailers, outcome>>
  BY DEF recVars
<1>2. RequestInv'
  <2>1. phase' # "request"  OBVIOUS
  <2> QED  BY <1>1, <2>1, RequestSame
<1>3. ResponseInv'  BY <1>1 DEF RecInv, ResponseInv
<1>4. ClockInv' /\ RefusedInv'  BY <1>1 DEF RecInv, ClockInv, RefusedInv, Phases
<1>5. StoredOK' /\ (Loads(mode)' <=> Loads(mode))
  <2>1. StoredOK  BY DEF FixtureInv, Recorder
  <2> QED  BY <2>1 DEF StoredOK, Loads
<1>6. FixtureInv'  BY <1>5 DEF FixtureInv, Recorder, Replaying
<1> QED  BY <1>2, <1>3, <1>4, <1>6 DEF RecInv

-----------------------------------------------------------------------------
(* A replayed body, for a mode m, a stored flow st and a file f.            *)

Setting(m, st, f) ==
    /\ IsMode(m)
    /\ st.body \in Nat /\ st.body <= MaxBlob /\ st.timed \in BOOLEAN /\ st.trailers \in BOOLEAN
    /\ ~st.timed => st.events = << >>
    /\ st.timed => Timeline(st.events, st.body, st.trailers)
    /\ f.len \in Nat /\ f.good \in BOOLEAN /\ f.len <= st.body + 1
    /\ f.good => f.len = st.body

Sample == [t : Nat, off : Nat, len : Nat]
Endings == {"none", "open", "clean", "error", "integrity", "500"}
Play == [schedule : Seq(Step), idx : Nat, seg : Nat, read : Nat, t : Nat, out : Seq(Sample),
         trailerDelay : Nat, endDelay : Nat, trailers : BOOLEAN, end : Endings]

\* A chunk is of one of the first n events, at its time.
Taken(m, E, c, n) ==
    \E j \in 1..n : /\ c.t = Schedules(m, E)[j].total /\ E[j].kind = "data"
                    /\ Covered(E)[j - 1] <= c.off /\ c.off < Covered(E)[j]

Fits(E) == \A i \in 1..Len(E) : E[i].len <= Chunk

\* The chunks are the first n events.
Exact(E, out, n) ==
    /\ Len(out) = n
    /\ \A i \in 1..n : out[i].off = Covered(E)[i - 1] /\ out[i].len = E[i].len

Polled(m, st, f, p) ==
    /\ p \in Play /\ st.body > 0 /\ p.end = "open"
    /\ ~BuildSchedule(m, st.events).bad /\ p.schedule = BuildSchedule(m, st.events).steps
    /\ p.idx \in 1..(Len(p.schedule) + 1)
    /\ p.read <= st.body /\ p.read <= f.len
    /\ p.t = Schedules(m, st.events)[p.idx - 1].total
    /\ \A j \in 1..(p.idx - 1) : p.schedule[j].kind = "data"
    /\ ~st.timed => p.seg = 0
    /\ st.timed => /\ p.read + p.seg = Covered(st.events)[p.idx - 1]
                   /\ p.seg > 0 => p.idx > 1 /\ Covered(st.events)[p.idx - 2] <= p.read
                   /\ \A i \in 1..Len(p.out) : Taken(m, st.events, p.out[i], p.idx - 1)

\* Between two polls.
Serving(m, st, f, p) ==
    /\ Polled(m, st, f, p)
    /\ st.timed /\ Fits(st.events) /\ f.good => p.seg = 0 /\ Exact(st.events, p.out, p.idx - 1)

\* Before a read: there are bytes of an event to read, or no more events.
Reading(m, st, f, p) ==
    /\ Polled(m, st, f, p)
    /\ p.seg > 0 \/ p.idx = Len(p.schedule) + 1
    /\ st.timed /\ Fits(st.events) /\ f.good =>
          \/ p.seg = 0 /\ Exact(st.events, p.out, p.idx - 1)
          \/ p.idx > 1 /\ p.seg = st.events[p.idx - 1].len /\ Exact(st.events, p.out, p.idx - 2)

Served(m, st, f, p) ==
    LET E == st.events
    IN  /\ p \in Play /\ p.end # "open" /\ p.read <= MaxBlob + 1
        /\ p.end = "integrity" => ~f.good
        /\ p.end = "clean" /\ st.body > 0 => f.good /\ p.read = st.body
        /\ \A i \in 1..Len(p.schedule) :
              p.schedule[i].kind = "error" /\ f.good => p.end = "error" /\ p.read = st.body
        /\ m = RecordedMode => p.end # "500"
        /\ st.timed => \A i \in 1..Len(p.out) : Taken(m, E, p.out[i], Len(E))
        /\ Len(p.out) > 0 => ~BuildSchedule(m, E).bad
        /\ ~st.timed => E = << >>
        /\ p.end = "clean" /\ st.body > 0 /\ st.timed =>
              /\ p.trailers = st.trailers /\ E[Len(E)].kind = "end"
              /\ Fits(E) => Exact(E, p.out, Len(E) - Ends(st.trailers))

\* What the schedule of a timed flow is.
Aligned(m, st) ==
    LET E == st.events
        S == Schedules(m, E)
        B == BuildSchedule(m, E)
        K == Count(E, st.trailers)
        C == Covered(E)
    IN  /\ S \in [0..Len(E) -> Schedule] /\ S[0].total = 0
        /\ C \in [0..Len(E) -> Nat] /\ C[0] = 0 /\ C[Len(E)] = st.body
        /\ E \in Seq(Event) /\ Len(E) \in Nat
        /\ K \in Nat /\ K <= Len(E) /\ C[K] = st.body
        /\ \A n \in 1..Len(E) : C[n] = C[n - 1] + E[n].len /\ C[n] <= st.body
        /\ ~B.bad =>
              /\ Len(B.steps) = K
              /\ \A i \in 1..K : /\ B.steps[i].kind = E[i].kind /\ B.steps[i].len = E[i].len
                                 /\ S[i].total = S[i - 1].total + B.steps[i].delay
        /\ m = RecordedMode => ~B.bad

(* The events that are not steps of the replay have no bytes.               *)
LEMMA SumsStop ==
  ASSUME NEW E, NEW tr \in BOOLEAN, Whole(E, tr)
  PROVE  Covered(E)[Count(E, tr)] = DataLength(E)
<1> DEFINE L == Len(E)
           K == Count(E, tr)
           C == Covered(E)
           S == {n \in Nat : n >= K => C[n] = C[K]}
<1>1. E \in Seq(Event) /\ L \in Nat  BY DEF Whole, Ordered
<1>2. Sums(E)  BY <1>1, CoveredSums
<1>3. K \in Nat /\ K <= L /\ \A n \in 1..L : (n <= K) <=> E[n].kind \in {"data", "error"}
  BY CountSteps
<1> HIDE DEF K
<1>4. 0 \in S
  <2>1. 0 >= K => K = 0  BY <1>3
  <2> QED  BY <2>1
<1>5. \A n \in 1..L : n - 1 \in S => n \in S
  <2> SUFFICES ASSUME NEW n \in 1..L, n - 1 \in S, n >= K PROVE C[n] = C[K]  OBVIOUS
  <2>1. CASE n = K  BY <2>1
  <2>2. CASE n > K
    <3>1. n - 1 >= K /\ ~(n <= K) /\ n - 1 \in 0..L  BY <1>3, <2>2
    <3>2. E[n].kind # "data"  BY <1>3, <3>1
    <3>3. E[n].len = 0  BY <3>2 DEF Whole, Ordered, WellPlaced
    <3>4. C[n] = C[n - 1] + E[n].len /\ C[n - 1] \in Nat  BY <1>2, <3>1 DEF Sums
    <3>5. C[n - 1] = C[K]  BY <3>1
    <3> HIDE DEF C
    <3> QED  BY <3>3, <3>4, <3>5
  <2> QED  BY <1>3, <2>1, <2>2
<1>6. \A n \in 0..L : n \in S
  <2> HIDE DEF S, L
  <2> QED  BY <1>1, <1>4, <1>5, UpTo
<1>7. L \in 0..L /\ L >= K  BY <1>1, <1>3
<1>8. C[L] = C[K]  BY <1>6, <1>7
<1> QED  BY <1>8 DEF DataLength, K

(* The schedule of a timed flow goes with its events.                       *)
LEMMA SettingAligned ==
  ASSUME NEW m, NEW st, NEW f, Setting(m, st, f), st.timed
  PROVE  Aligned(m, st)
<1> DEFINE E == st.events
           tr == st.trailers
           K == Count(E, tr)
           C == Covered(E)
<1>1. Whole(E, tr) /\ InTime(E) /\ DataLength(E) = st.body /\ tr \in BOOLEAN /\ IsMode(m)
  BY DEF Setting, Timeline
<1> HIDE DEF E, tr
<1>2. E \in Seq(Event) /\ Len(E) \in Nat  BY <1>1 DEF Whole, Ordered
<1>3. Paced(m, E, tr)  BY <1>1, Bounds, TimelinePaced
<1>4. K \in Nat /\ K <= Len(E)  BY <1>1, CountSteps
<1>5. Sums(E)  BY <1>2, CoveredSums
<1>6. C[K] = st.body  BY <1>1, SumsStop
<1>7. C[Len(E)] = st.body  BY <1>1 DEF DataLength
<1>8. \A n \in 1..Len(E) : C[n] <= st.body
  <2> SUFFICES ASSUME NEW n \in 1..Len(E) PROVE C[n] <= st.body  OBVIOUS
  <2>1. n \in 0..Len(E) /\ Len(E) \in 0..Len(E) /\ n <= Len(E)  BY <1>2
  <2> QED  BY <1>2, <1>7, <2>1, SumsGrow
<1> QED  BY <1>2, <1>3, <1>4, <1>5, <1>6, <1>7, <1>8 DEF Aligned, Paced, Sums, E, tr

(* A flow without events has an empty schedule.                             *)
LEMMA UntimedSchedule ==
  ASSUME NEW m, NEW st, NEW f, Setting(m, st, f), ~st.timed
  PROVE  /\ Schedules(m, st.events) \in [0..0 -> Schedule] /\ Schedules(m, st.events)[0].total = 0
         /\ BuildSchedule(m, st.events).steps = << >> /\ ~BuildSchedule(m, st.events).bad
<1> DEFINE E == << >>
<1>1. st.events = E /\ IsMode(m)  BY DEF Setting
<1>2. E \in Seq(Event) /\ Len(E) = 0  OBVIOUS
<1> HIDE DEF E
<1>3. Plans(m, E)  BY <1>1, <1>2, SchedulesLoop
<1>4. Schedules(m, E) \in [0..0 -> Schedule] /\ Schedules(m, E)[0] = NoSchedule
  BY <1>2, <1>3 DEF Plans
<1>5. BuildSchedule(m, E) = NoSchedule  BY <1>2, <1>4 DEF BuildSchedule
<1> QED  BY <1>1, <1>4, <1>5 DEF NoSchedule

\* The first state of a replay.
Opening(s) == [NoPlay EXCEPT !.schedule = s.steps, !.idx = 1, !.end = "open",
                             !.trailerDelay = IF s.failing THEN 0 ELSE s.trailerDelay,
                             !.endDelay = IF s.failing THEN 0 ELSE s.endDelay]

(* The reply before any is one.                                             *)
LEMMA NoPlayType == NoPlay \in Play
<1>1. << >> \in Seq(Step) /\ << >> \in Seq(Sample)  OBVIOUS
<1> QED  BY <1>1 DEF NoPlay, Play, Endings

(* A reply that begins has sent none of its events.                         *)
LEMMA OpeningServes ==
  ASSUME NEW m, NEW st, NEW f, Setting(m, st, f), st.body > 0, ~BuildSchedule(m, st.events).bad
  PROVE  Serving(m, st, f, Opening(BuildSchedule(m, st.events)))
<1> DEFINE E == st.events
           S == Schedules(m, E)
           B == BuildSchedule(m, E)
           p == Opening(B)
           td == IF B.failing THEN 0 ELSE B.trailerDelay
           ed == IF B.failing THEN 0 ELSE B.endDelay
<1>1. B \in Schedule /\ S[0].total = 0 /\ (st.timed => Covered(E)[0] = 0)
  <2>1. CASE st.timed
    <3>1. Aligned(m, st)  BY <2>1, SettingAligned
    <3>2. S \in [0..Len(E) -> Schedule] /\ Len(E) \in 0..Len(E) /\ S[0].total = 0 /\ Covered(E)[0] = 0
      BY <3>1 DEF Aligned
    <3> QED  BY <3>2 DEF BuildSchedule
  <2>2. CASE ~st.timed
    <3>1. S \in [0..0 -> Schedule] /\ S[0].total = 0  BY <2>2, UntimedSchedule
    <3>2. E = << >>  BY <2>2 DEF Setting
    <3>3. Len(E) = 0  BY <3>2
    <3> QED  BY <2>2, <3>1, <3>3 DEF BuildSchedule
  <2> QED  BY <2>1, <2>2 DEF Setting
<1>2. B.steps \in Seq(Step) /\ td \in Nat /\ ed \in Nat  BY <1>1 DEF Schedule
<1> DEFINE b == B.steps
<1> HIDE DEF B, td, ed
<1>3. /\ NoPlay \in [schedule : Seq(Step), idx : Nat, seg : Nat, read : Nat, t : Nat, out : Seq(Sample),
                     trailerDelay : Nat, endDelay : Nat, trailers : BOOLEAN, end : Endings]
      /\ NoPlay.seg = 0 /\ NoPlay.read = 0 /\ NoPlay.t = 0 /\ NoPlay.out = << >>
  <2>1. NoPlay \in Play  BY NoPlayType
  <2> QED  BY <2>1 DEF NoPlay, Play
<1>4. p = [NoPlay EXCEPT !.schedule = b, !.idx = 1, !.end = "open", !.trailerDelay = td, !.endDelay = ed]
  BY DEF Opening, B, td, ed
<1> HIDE DEF p, b
<1>5. /\ p \in Play
      /\ p.schedule = b /\ p.idx = 1 /\ p.seg = 0 /\ p.read = 0 /\ p.t = 0 /\ p.out = << >>
      /\ p.end = "open"
  <2>1. b \in Seq(Step) /\ "open" \in Endings  BY <1>2 DEF b, Endings
  <2> QED  BY <1>2, <1>3, <1>4, <2>1 DEF Play
<1>6. Len(p.schedule) \in Nat /\ 1 - 1 = 0 /\ 1..0 = {} /\ Len(p.out) = 0  BY <1>2, <1>5 DEF b
<1>7. p.idx \in 1..(Len(p.schedule) + 1)  BY <1>5, <1>6
<1>8. 0 <= st.body /\ 0 <= f.len  BY DEF Setting
<1>9. p.seg > 0 => FALSE  BY <1>5
<1>10. st.timed => p.read + p.seg = Covered(E)[p.idx - 1]  BY <1>1, <1>5, <1>6
<1>11. p.t = S[p.idx - 1].total  BY <1>1, <1>5, <1>6
<1>12. Polled(m, st, f, p)
  BY <1>5, <1>6, <1>7, <1>8, <1>9, <1>10, <1>11 DEF Polled, B, b
<1>13. Exact(E, p.out, 0)  BY <1>6 DEF Exact
<1>14. p.seg = 0 /\ Exact(E, p.out, p.idx - 1)  BY <1>5, <1>6, <1>13
<1>15. Serving(m, st, f, p)  BY <1>12, <1>14 DEF Serving
<1> QED  BY <1>15 DEF p, B

(* A reply without a body: an empty body, or a refused schedule.            *)
LEMMA UnservedServed ==
  ASSUME NEW m, NEW st, NEW f, Setting(m, st, f),
         NEW e \in {"clean", "500"}, e = "clean" => st.body = 0, e = "500" => m # RecordedMode
  PROVE  Served(m, st, f, [NoPlay EXCEPT !.end = e])
<1> DEFINE p == [NoPlay EXCEPT !.end = e]
<1>1. /\ NoPlay \in [schedule : Seq(Step), idx : Nat, seg : Nat, read : Nat, t : Nat, out : Seq(Sample),
                     trailerDelay : Nat, endDelay : Nat, trailers : BOOLEAN, end : Endings]
      /\ NoPlay.schedule = << >> /\ NoPlay.read = 0 /\ NoPlay.out = << >>
  <2>1. NoPlay \in Play  BY NoPlayType
  <2> QED  BY <2>1 DEF NoPlay, Play
<1>2. p = [NoPlay EXCEPT !.end = e] /\ e \in Endings  BY DEF Endings
<1> HIDE DEF p
<1>3. p \in Play /\ p.schedule = << >> /\ p.read = 0 /\ p.out = << >> /\ p.end = e
  BY <1>1, <1>2 DEF Play
<1>4. Len(p.schedule) = 0 /\ Len(p.out) = 0 /\ 1..0 = {}  BY <1>3
<1>5. p.read <= MaxBlob + 1  BY <1>3, Bounds
<1>6. st.body > 0 => st.body # 0  BY DEF Setting
<1>7. Served(m, st, f, p)  BY <1>3, <1>4, <1>5, <1>6 DEF Served, Setting
<1> QED  BY <1>7 DEF p

-----------------------------------------------------------------------------
(* One poll.                                                                *)

Due(p) == p.seg = 0 /\ p.idx <= Len(p.schedule)
Next1(p) == LET step == p.schedule[p.idx]
            IN [p EXCEPT !.idx = @ + 1, !.t = @ + step.delay, !.seg = step.len]

(* When nothing is due the next read is of the event begun, or the last.    *)
LEMMA NotDueReads ==
  ASSUME NEW m, NEW st, NEW f, Setting(m, st, f), NEW p, Serving(m, st, f, p), ~Due(p)
  PROVE  Reading(m, st, f, p)
<1>1. p.seg \in Nat /\ p.idx \in Nat /\ p.schedule \in Seq(Step)  BY DEF Serving, Polled, Play
<1>2. p.seg > 0 \/ p.idx = Len(p.schedule) + 1
  <2>1. Len(p.schedule) \in Nat /\ p.idx \in 1..(Len(p.schedule) + 1)  BY <1>1 DEF Serving, Polled
  <2> QED  BY <1>1, <2>1 DEF Due
<1> QED  BY <1>2 DEF Serving, Reading

(* A due step begins its event, or is the recorded failure.                 *)
LEMMA DueReads ==
  ASSUME NEW m, NEW st, NEW f, Setting(m, st, f), NEW p, Serving(m, st, f, p), Due(p)
  PROVE  /\ p.schedule[p.idx].kind # "error" => Reading(m, st, f, Next1(p))
         /\ p.schedule[p.idx].kind = "error" => p.read = st.body
         /\ Next1(p) \in Play /\ Next1(p).read = p.read /\ Next1(p).out = p.out
         /\ Next1(p).schedule = p.schedule /\ st.timed /\ p.idx \in Nat /\ p.idx <= Len(st.events)
<1> DEFINE E == st.events
           S == Schedules(m, E)
           C == Covered(E)
           K == Count(E, st.trailers)
           n == p.idx
           step == p.schedule[n]
           q == Next1(p)
<1>1. Polled(m, st, f, p)  BY DEF Serving
<1>2. /\ p.schedule \in Seq(Step) /\ p.seg = 0 /\ n \in Nat /\ p.t \in Nat /\ p.out \in Seq(Sample)
      /\ p.trailerDelay \in Nat /\ p.endDelay \in Nat /\ p.trailers \in BOOLEAN /\ p.end \in Endings
      /\ p.read \in Nat
      /\ p \in [schedule : Seq(Step), idx : Nat, seg : Nat, read : Nat, t : Nat, out : Seq(Sample),
                trailerDelay : Nat, endDelay : Nat, trailers : BOOLEAN, end : Endings]
  BY <1>1 DEF Polled, Play, Due
<1>3. n \in 1..Len(p.schedule)
  <2>1. n \in 1..(Len(p.schedule) + 1) /\ n <= Len(p.schedule)  BY <1>1 DEF Polled, Due
  <2> QED  BY <1>2, <2>1
<1>4. step \in Step  BY <1>2, <1>3
<1>5. step.delay \in Nat /\ step.len \in Nat  BY <1>4 DEF Step
<1>6. st.timed
  <2>1. ~st.timed => p.schedule = << >>  BY <1>1, UntimedSchedule DEF Polled
  <2>2. p.schedule # << >>  BY <1>3
  <2> QED  BY <2>1, <2>2
<1>7. Aligned(m, st)  BY <1>6, SettingAligned
<1>8. /\ Len(p.schedule) = K /\ K \in Nat /\ K <= Len(E) /\ Len(E) \in Nat /\ C[K] = st.body
      /\ \A i \in 1..K : /\ p.schedule[i].kind = E[i].kind /\ p.schedule[i].len = E[i].len
                         /\ S[i].total = S[i - 1].total + p.schedule[i].delay
      /\ \A i \in 1..Len(E) : C[i] = C[i - 1] + E[i].len
      /\ C \in [0..Len(E) -> Nat]
  BY <1>1, <1>7 DEF Aligned, Polled
<1>9. n \in 1..K /\ n \in 1..Len(E)  BY <1>3, <1>8
<1>10. p.read + 0 = C[n - 1] /\ p.t = S[n - 1].total  BY <1>1, <1>2, <1>6 DEF Polled
<1>11. q \in Play /\ q.schedule = p.schedule /\ q.idx = n + 1 /\ q.t = p.t + step.delay /\ q.seg = step.len
       /\ q.read = p.read /\ q.out = p.out /\ q.end = p.end
  <2>1. q = [p EXCEPT !.idx = @ + 1, !.t = @ + step.delay, !.seg = step.len]  BY DEF Next1
  <2> DEFINE i == n + 1
             t == p.t + step.delay
             l == step.len
  <2>2. i \in Nat /\ t \in Nat /\ l \in Nat  BY SMTT(60), <1>2, <1>5
  <2>3. q = [p EXCEPT !.idx = i, !.t = t, !.seg = l]  BY <2>1
  <2> HIDE DEF i, t, l, q
  <2>4. q \in Play /\ q.schedule = p.schedule /\ q.idx = i /\ q.t = t /\ q.seg = l
        /\ q.read = p.read /\ q.out = p.out /\ q.end = p.end
    BY <1>2, <2>2, <2>3 DEF Play
  <2> QED  BY <2>4 DEF i, t, l
<1> HIDE DEF q
<1>12. q.idx - 1 = n /\ q.idx - 2 = n - 1 /\ n - 1 \in 0..Len(E) /\ q.idx \in 1..(K + 1) /\ q.idx > 1
  <2>1. PICK i \in Nat : i = n  BY <1>2
  <2>2. PICK k \in Nat : k = K  BY <1>8
  <2>3. PICK l \in Nat : l = Len(E)  BY <1>8
  <2>4. i \in 1..k /\ i \in 1..l /\ q.idx = i + 1  BY <1>9, <1>11, <2>1, <2>2, <2>3
  <2>5. (i + 1) - 1 = i /\ (i + 1) - 2 = i - 1 /\ i - 1 \in 0..l /\ i + 1 \in 1..(k + 1) /\ i + 1 > 1
    BY <2>4
  <2> QED  BY <2>1, <2>2, <2>3, <2>4, <2>5
<1>13. ASSUME step.kind = "error" PROVE p.read = st.body
  <2>1. E[n].kind = "error"  BY <1>8, <1>9, <1>13
  <2>2. Whole(E, st.trailers)  BY <1>6 DEF Setting, Timeline
  <2>3. E[n].len = 0  BY <1>9, <2>1, <2>2 DEF Whole, Ordered, WellPlaced
  <2>4. n = Len(E) /\ st.trailers \in BOOLEAN
    <3>1. st.trailers \in BOOLEAN  BY DEF Setting
    <3> QED  BY <1>9, <2>1, <2>2, <3>1, CountSteps
  <2>5. C[n] = C[n - 1] + 0  BY <1>8, <1>9, <2>3
  <2>6. C[n] = st.body  BY <1>7, <2>4 DEF Aligned
  <2>7. C[n - 1] \in Nat  BY <1>8, <1>12
  <2> QED  BY <1>2, <1>10, <2>5, <2>6, <2>7
<1>14. ASSUME step.kind # "error" PROVE Reading(m, st, f, q)
  <2>1. E[n].kind \in {"data", "error"} /\ E[n].kind = step.kind /\ E[n].len = step.len
    <3>1. Whole(E, st.trailers) /\ st.trailers \in BOOLEAN  BY <1>6 DEF Setting, Timeline
    <3>2. n <= K  BY <1>9
    <3> QED  BY <1>8, <1>9, <3>1, <3>2, CountSteps
  <2>2. E[n].kind = "data" /\ Whole(E, st.trailers)  BY <1>6, <1>14, <2>1 DEF Setting, Timeline
  <2>3. q.seg > 0  BY <1>9, <1>11, <2>1, <2>2 DEF Whole, Ordered, WellPlaced
  <2>4. C[n - 1] \in Nat /\ C[n] = C[n - 1] + step.len  BY <1>8, <1>9, <1>12, <2>1
  <2>5. q.read + q.seg = C[q.idx - 1]
    <3>1. p.read = C[n - 1]  BY <1>2, <1>10
    <3>2. q.read + q.seg = p.read + step.len  BY <1>11
    <3>3. C[q.idx - 1] = C[n]  BY <1>12
    <3> QED  BY <2>4, <3>1, <3>2, <3>3
  <2>6. q.idx > 1 /\ C[q.idx - 2] <= q.read  BY SMTT(60), <1>2, <1>10, <1>11, <1>12, <2>4
  <2>7. q.t = S[q.idx - 1].total  BY <1>8, <1>9, <1>10, <1>11, <1>12
  <2>8. \A j \in 1..(q.idx - 1) : q.schedule[j].kind = "data"
    <3>1. \A j \in 1..n : j = n \/ j \in 1..(n - 1)  BY <1>2
    <3>2. \A j \in 1..(n - 1) : p.schedule[j].kind = "data"  BY <1>1 DEF Polled
    <3> QED  BY <1>11, <1>12, <2>1, <2>2, <3>1, <3>2
  <2>9. \A i \in 1..Len(q.out) : Taken(m, E, q.out[i], q.idx - 1)
    <3> SUFFICES ASSUME NEW i \in 1..Len(q.out) PROVE Taken(m, E, q.out[i], n)  BY <1>11, <1>12
    <3>1. Taken(m, E, p.out[i], n - 1)  BY <1>1, <1>6, <1>11 DEF Polled
    <3>2. \A j \in 1..(n - 1) : j \in 1..n  BY <1>2
    <3> QED  BY <1>11, <3>1, <3>2 DEF Taken
  <2>10. Polled(m, st, f, q)
    <3>1. q.idx \in 1..(Len(q.schedule) + 1)  BY <1>8, <1>11, <1>12
    <3> HIDE DEF E, S, C
    <3> QED  BY <1>1, <1>6, <1>11, <2>5, <2>6, <2>7, <2>8, <2>9, <3>1 DEF Polled, E, S, C
  <2>11. ASSUME st.timed, Fits(E), f.good
         PROVE  q.idx > 1 /\ q.seg = E[q.idx - 1].len /\ Exact(E, q.out, q.idx - 2)
    <3>1. Exact(E, p.out, n - 1)  BY <2>11 DEF Serving
    <3> QED  BY <1>11, <1>12, <2>1, <2>6, <3>1
  <2> QED  BY <2>3, <2>10, <2>11 DEF Reading
<1>15. p.idx <= Len(st.events)  BY <1>9
<1> QED  BY <1>2, <1>6, <1>11, <1>13, <1>14, <1>15 DEF q

\* The bytes one read of the file f returns.
Amount(f, p) ==
    LET want == IF p.seg > 0 /\ p.seg < Chunk THEN p.seg ELSE Chunk
    IN  IF want < f.len - p.read THEN want ELSE f.len - p.read

(* A read stays in its event and in the file, and is empty only at its end. *)
LEMMA ReadAmount ==
  ASSUME NEW m, NEW st, NEW f, Setting(m, st, f), NEW p, Polled(m, st, f, p)
  PROVE  LET n == Amount(f, p)
         IN  /\ n \in Nat /\ p.read \in Nat /\ p.seg \in Nat /\ p.read + n <= f.len
             /\ p.seg > 0 => n <= p.seg
             /\ n = 0 <=> p.read = f.len
             /\ p.seg > 0 /\ p.seg <= Chunk /\ p.read + p.seg <= f.len => n = p.seg
<1>1. p.read \in Nat /\ p.seg \in Nat /\ p.read <= f.len /\ f.len \in Nat  BY DEF Polled, Play, Setting
<1>2. Chunk \in Nat /\ Chunk > 0  BY Bounds
<1>3. PICK r \in Nat : r = p.read  BY <1>1
<1>4. PICK g \in Nat : g = p.seg  BY <1>1
<1>5. PICK l \in Nat : l = f.len  BY <1>1
<1>6. PICK w \in Nat : w = IF g > 0 /\ g < Chunk THEN g ELSE Chunk  BY <1>2
<1>7. w > 0 /\ (g > 0 => w <= g \/ w = Chunk) /\ (g > 0 => w <= g) /\ (g > 0 /\ g <= Chunk => w = g)
  BY <1>2, <1>6
<1>8. PICK d \in Nat : d = l - r /\ l = r + d  BY <1>1, <1>3, <1>5
<1>9. PICK n \in Nat : n = IF w < d THEN w ELSE d  OBVIOUS
<1>10. Amount(f, p) = n  BY <1>3, <1>4, <1>5, <1>6, <1>8, <1>9 DEF Amount
<1>11. r + n <= l /\ (g > 0 => n <= g) /\ (n = 0 <=> r = l)
       /\ (g > 0 /\ g <= Chunk /\ r + g <= l => n = g)
  BY <1>7, <1>8, <1>9
<1> QED  BY <1>3, <1>4, <1>5, <1>10, <1>11

\* What is known before a read of a timed flow.
Begun(m, st, p) ==
    LET E == st.events
        C == Covered(E)
    IN  /\ p.idx - 1 \in 0..Len(E) /\ Len(E) \in Nat /\ C[p.idx - 1] \in Nat /\ C[p.idx - 1] <= st.body
        /\ p.read + p.seg = C[p.idx - 1]
        /\ p.read < st.body => p.seg > 0
        /\ p.seg > 0 => /\ p.idx > 1 /\ p.idx - 1 \in 1..Len(E) /\ C[p.idx - 2] <= p.read
                        /\ E[p.idx - 1].kind = "data"
        /\ p.seg = 0 => p.idx - 1 = Len(p.schedule)
        /\ \A i \in 1..(p.idx - 1) : E[i].kind = "data" /\ E[i].len > 0
        /\ Len(p.schedule) = Count(E, st.trailers)
        /\ p.idx \in Nat

(* The bytes read and the rest of the event begun are a sum of the list.    *)
LEMMA ReadingBegun ==
  ASSUME NEW m, NEW st, NEW f, Setting(m, st, f), st.timed, NEW p, Reading(m, st, f, p)
  PROVE  Begun(m, st, p)
<1> DEFINE E == st.events
           C == Covered(E)
           K == Count(E, st.trailers)
<1>1. Aligned(m, st) /\ Polled(m, st, f, p)  BY SettingAligned DEF Reading
<1>2. /\ Len(p.schedule) = K /\ K \in Nat /\ K <= Len(E) /\ Len(E) \in Nat /\ C[K] = st.body
      /\ \A i \in 1..K : p.schedule[i].kind = E[i].kind /\ p.schedule[i].len = E[i].len
      /\ C \in [0..Len(E) -> Nat] /\ C[0] = 0
      /\ \A i \in 1..Len(E) : C[i] <= st.body
  BY <1>1 DEF Aligned, Polled
<1>3. PICK k \in Nat : k = K  BY <1>2
<1>4. PICK l \in Nat : l = Len(E) /\ k <= l  BY <1>2, <1>3
<1>5. PICK j \in 0..k : p.idx = j + 1
  <2>1. p.idx \in 1..(k + 1)  BY <1>1, <1>2, <1>3 DEF Polled
  <2>2. p.idx - 1 \in 0..k /\ p.idx = (p.idx - 1) + 1  BY <2>1
  <2> QED  BY <2>2
<1>6. p.idx - 1 = j /\ j \in 0..l /\ j \in Nat /\ p.idx - 2 = j - 1  BY <1>4, <1>5
<1>7. C[j] \in Nat /\ C[j] <= st.body /\ st.body \in Nat
  <2>1. C[j] \in Nat  BY <1>2, <1>4, <1>6
  <2>2. st.body \in Nat  BY DEF Setting
  <2>3. j = 0 \/ j \in 1..Len(E)  BY <1>4, <1>6
  <2> QED  BY <1>2, <2>1, <2>2, <2>3
<1>8. p.read + p.seg = C[j] /\ p.read \in Nat /\ p.seg \in Nat  BY <1>1, <1>6 DEF Polled, Play
<1>9. p.seg > 0 \/ j = k
  <2>1. p.seg > 0 \/ p.idx = k + 1  BY <1>2, <1>3 DEF Reading
  <2> QED  BY <1>5, <2>1
<1>10. p.seg = 0 => j = k /\ p.read = st.body
  <2> SUFFICES ASSUME p.seg = 0 PROVE j = k /\ p.read = st.body  OBVIOUS
  <2>1. j = k  BY <1>9
  <2>2. C[j] = st.body  BY <1>2, <1>3, <2>1
  <2> QED  BY <1>7, <1>8, <2>1, <2>2
<1>11. p.read < st.body => p.seg > 0  BY <1>7, <1>8, <1>10
<1>12. ASSUME NEW i \in 1..j PROVE E[i].kind = "data" /\ E[i].len > 0
  <2>1. i \in 1..k /\ i \in 1..l  BY <1>5, <1>4
  <2>2. p.schedule[i].kind = "data"  BY <1>1, <1>6 DEF Polled
  <2>3. E[i].kind = "data"  BY <1>2, <1>3, <2>1, <2>2
  <2>4. Ordered(E)  BY DEF Setting, Timeline, Whole
  <2> QED  BY <1>4, <2>1, <2>3, <2>4 DEF Ordered, WellPlaced
<1>13. ASSUME p.seg > 0
       PROVE  p.idx > 1 /\ j \in 1..l /\ C[p.idx - 2] <= p.read /\ E[j].kind = "data"
  <2>1. p.idx > 1 /\ C[p.idx - 2] <= p.read  BY <1>1, <1>13 DEF Polled
  <2>2. j \in 1..l /\ j \in 1..j  BY <1>5, <1>6, <2>1
  <2> QED  BY <1>12, <2>1, <2>2
<1>14. p.idx \in Nat  BY <1>5
<1> HIDE DEF C, K
<1> QED  BY <1>2, <1>3, <1>4, <1>6, <1>7, <1>8, <1>10, <1>11, <1>12, <1>13, <1>14 DEF Begun, C, K

(* A chunk of the first events is one of more events.                       *)
LEMMA TakenWider ==
  ASSUME NEW m, NEW E, NEW c, NEW n \in Nat, NEW l \in Nat, n <= l, Taken(m, E, c, n)
  PROVE  Taken(m, E, c, l)
<1>1. \A j \in 1..n : j \in 1..l  OBVIOUS
<1> QED  BY <1>1 DEF Taken

\* The chunks of a reply are of its events.
OutOK(m, st, p) ==
    /\ st.timed => \A i \in 1..Len(p.out) : Taken(m, st.events, p.out[i], Len(st.events))
    /\ ~st.timed => st.events = << >>

(* All chunks of a reply are of its events.                                 *)
LEMMA PolledOut ==
  ASSUME NEW m, NEW st, NEW f, Setting(m, st, f), NEW p, Polled(m, st, f, p)
  PROVE  OutOK(m, st, p)
<1>1. ASSUME st.timed, NEW i \in 1..Len(p.out) PROVE Taken(m, st.events, p.out[i], Len(st.events))
  <2>1. Aligned(m, st)  BY <1>1, SettingAligned
  <2>2. Len(p.schedule) <= Len(st.events) /\ Len(st.events) \in Nat /\ Len(p.schedule) \in Nat
    BY <2>1 DEF Aligned, Polled
  <2>3. PICK k \in Nat : k = Len(p.schedule)  BY <2>2
  <2>4. p.idx \in 1..(k + 1)  BY <2>3 DEF Polled
  <2>5. p.idx - 1 \in Nat /\ p.idx - 1 <= Len(st.events)  BY <2>2, <2>3, <2>4
  <2>6. Taken(m, st.events, p.out[i], p.idx - 1)  BY <1>1 DEF Polled
  <2> QED  BY <2>2, <2>5, <2>6, TakenWider
<1> QED  BY <1>1 DEF OutOK, Setting

(* A stop that is not a clean end.                                          *)
LEMMA StopServed ==
  ASSUME NEW m, NEW st, NEW f, Setting(m, st, f), NEW p, Polled(m, st, f, p),
         NEW q \in Play, q.schedule = p.schedule, q.out = p.out, q.read <= MaxBlob + 1,
         \/ q.end = "integrity" /\ ~f.good
         \/ q.end = "error" /\ q.read = st.body
  PROVE  Served(m, st, f, q)
<1>1. OutOK(m, st, q)
  <2>1. OutOK(m, st, p)  BY PolledOut
  <2> QED  BY <2>1 DEF OutOK
<1>2. ~BuildSchedule(m, st.events).bad  BY DEF Polled
<1>3. /\ q.end # "open" /\ q.end # "clean" /\ q.end # "500"
      /\ q.end = "integrity" => ~f.good
      /\ f.good => q.end = "error" /\ q.read = st.body
  OBVIOUS
<1> QED  BY <1>1, <1>2, <1>3 DEF Served, OutOK

(* A clean end comes after every byte of an intact file.                    *)
LEMMA CleanServed ==
  ASSUME NEW m, NEW st, NEW f, Setting(m, st, f), NEW p, Reading(m, st, f, p),
         f.good, p.read = st.body,
         NEW q \in Play, q.schedule = p.schedule, q.out = p.out, q.read = p.read,
         q.end = "clean", q.trailers = st.trailers
  PROVE  Served(m, st, f, q)
<1> DEFINE E == st.events
           tr == st.trailers
<1>1. Polled(m, st, f, p)  BY DEF Reading
<1>2. OutOK(m, st, q)
  <2>1. OutOK(m, st, p)  BY <1>1, PolledOut
  <2> QED  BY <2>1 DEF OutOK
<1>3. ~BuildSchedule(m, E).bad  BY <1>1 DEF Polled
<1>4. st.body \in Nat /\ q.read <= MaxBlob + 1
  <2>1. st.body \in Nat /\ st.body <= MaxBlob  BY DEF Setting
  <2> QED  BY <2>1, Bounds
<1>5. ASSUME st.timed
      PROVE  /\ \A i \in 1..Len(p.schedule) : p.schedule[i].kind # "error"
             /\ E[Len(E)].kind = "end"
             /\ Fits(E) => Exact(E, q.out, Len(E) - Ends(tr))
  <2>1. Begun(m, st, p)  BY <1>5, ReadingBegun
  <2>2. p.seg \in Nat /\ p.read \in Nat /\ p.idx \in Nat  BY <1>1, <2>1 DEF Polled, Play, Begun
  <2>3. p.seg = 0
    <3>1. p.read + p.seg <= st.body  BY <2>1 DEF Begun
    <3> QED  BY <2>2, <3>1
  <2>4. p.idx - 1 = Count(E, tr) /\ Len(p.schedule) = Count(E, tr)  BY <2>1, <2>3 DEF Begun
  <2>5. \A i \in 1..Len(p.schedule) : p.schedule[i].kind # "error"
    <3>1. \A i \in 1..(p.idx - 1) : p.schedule[i].kind = "data"  BY <1>1 DEF Polled
    <3> QED  BY <2>4, <3>1
  <2>6. \A i \in 1..Count(E, tr) : E[i].kind = "data" /\ E[i].len > 0  BY <2>1, <2>4 DEF Begun
  <2>7. Whole(E, tr) /\ tr \in BOOLEAN  BY <1>5 DEF Setting, Timeline
  <2>8. /\ Count(E, tr) \in Nat /\ Count(E, tr) <= Len(E) /\ Len(E) \in Nat /\ Len(E) > 0
        /\ E[Len(E)].kind \in {"end", "error"}
    BY <2>7, CountSteps
  <2>9. E[Len(E)].kind = "end"
    <3> SUFFICES ASSUME E[Len(E)].kind = "error" PROVE FALSE  BY <2>8
    <3>1. Count(E, tr) = Len(E)  BY DEF Count
    <3>2. Len(E) \in 1..Count(E, tr)  BY <2>8, <3>1
    <3> QED  BY <2>6, <3>2
  <2>10. Count(E, tr) = Len(E) - Ends(tr)  BY <2>9 DEF Count
  <2>11. ASSUME Fits(E) PROVE Exact(E, q.out, Len(E) - Ends(tr))
    <3>1. \/ Exact(E, p.out, p.idx - 1)
          \/ p.idx > 1 /\ p.seg = E[p.idx - 1].len
      BY <1>5, <2>11 DEF Reading
    <3>2. ~(p.idx > 1 /\ p.seg = E[p.idx - 1].len)
      <4> SUFFICES ASSUME p.idx > 1, p.seg = E[p.idx - 1].len PROVE FALSE  OBVIOUS
      <4>1. p.idx - 1 \in 1..(p.idx - 1)  BY <2>2
      <4>2. E[p.idx - 1].len > 0  BY <2>1, <4>1 DEF Begun
      <4> QED  BY <2>3, <4>2
    <3> QED  BY <2>4, <2>10, <3>1, <3>2
  <2> QED  BY <2>5, <2>9, <2>11
<1>6. ~st.timed => p.schedule = << >>  BY <1>1, UntimedSchedule DEF Polled
<1>7. \A i \in 1..Len(q.schedule) : q.schedule[i].kind # "error"
  <2>1. CASE st.timed  BY <1>5, <2>1
  <2>2. CASE ~st.timed
    <3>1. Len(q.schedule) = 0 /\ 1..0 = {}  BY <1>6, <2>2
    <3> QED  BY <3>1
  <2> QED  BY <2>1, <2>2
<1>8. ~st.timed => E = << >>  BY DEF Setting
<1> QED  BY <1>2, <1>3, <1>4, <1>5, <1>7, <1>8 DEF Served, OutOK

\* A reply with n more bytes.
More(p, n) == [p EXCEPT !.read = @ + n,
                        !.seg = IF @ > n THEN @ - n ELSE 0,
                        !.out = Append(@, [t |-> p.t, off |-> p.read, len |-> n])]

(* What n more bytes change in a reply.                                     *)
LEMMA MoreType ==
  ASSUME NEW p \in Play, NEW n \in Nat
  PROVE  LET q == More(p, n)
         IN  /\ q \in Play /\ q.read = p.read + n /\ q.schedule = p.schedule /\ q.idx = p.idx
             /\ q.seg = (IF p.seg > n THEN p.seg - n ELSE 0)
             /\ q.t = p.t /\ q.end = p.end
             /\ Len(q.out) = Len(p.out) + 1 /\ Len(p.out) \in Nat
             /\ q.out[Len(p.out) + 1] = [t |-> p.t, off |-> p.read, len |-> n]
             /\ \A i \in 1..Len(p.out) : q.out[i] = p.out[i]
<1> DEFINE c == [t |-> p.t, off |-> p.read, len |-> n]
           r == p.read + n
           s == IF p.seg > n THEN p.seg - n ELSE 0
           o == Append(p.out, c)
           q == More(p, n)
<1>1. /\ p \in [schedule : Seq(Step), idx : Nat, seg : Nat, read : Nat, t : Nat, out : Seq(Sample),
                trailerDelay : Nat, endDelay : Nat, trailers : BOOLEAN, end : Endings]
      /\ p.read \in Nat /\ p.seg \in Nat /\ p.out \in Seq(Sample) /\ p.t \in Nat
  BY DEF Play
<1>2. c \in Sample /\ r \in Nat /\ s \in Nat  BY <1>1 DEF Sample
<1>3. q = [p EXCEPT !.read = r, !.seg = s, !.out = o]  BY DEF More
<1>4. o \in Seq(Sample) /\ Len(o) = Len(p.out) + 1 /\ Len(p.out) \in Nat /\ o[Len(p.out) + 1] = c
      /\ \A i \in 1..Len(p.out) : o[i] = p.out[i]
  <2> HIDE DEF c
  <2> QED  BY <1>1, <1>2
<1> HIDE DEF c, r, s, o, q
<1>5. /\ q \in Play /\ q.read = r /\ q.seg = s /\ q.out = o /\ q.schedule = p.schedule /\ q.idx = p.idx
      /\ q.t = p.t /\ q.end = p.end
  BY <1>1, <1>2, <1>3, <1>4 DEF Play
<1> QED  BY <1>4, <1>5 DEF q, r, s, o, c

(* A read that is not the last leaves the reply between two polls.          *)
LEMMA ReadOn ==
  ASSUME NEW m, NEW st, NEW f, Setting(m, st, f), NEW p, Reading(m, st, f, p),
         NEW n \in Nat, n = Amount(f, p), n > 0, p.read + n <= st.body
  PROVE  Serving(m, st, f, More(p, n))
<1> DEFINE E == st.events
           C == Covered(E)
           S == Schedules(m, E)
           q == More(p, n)
           x == [t |-> p.t, off |-> p.read, len |-> n]
<1>1. Polled(m, st, f, p) /\ p \in Play  BY DEF Reading, Polled
<1>2. p.read \in Nat /\ p.seg \in Nat /\ p.read + n <= f.len
      /\ (p.seg > 0 => n <= p.seg)
      /\ (p.seg > 0 /\ p.seg <= Chunk /\ p.read + p.seg <= f.len => n = p.seg)
  BY <1>1, ReadAmount
<1>3. /\ q \in Play /\ q.read = p.read + n /\ q.schedule = p.schedule /\ q.idx = p.idx
      /\ q.seg = (IF p.seg > n THEN p.seg - n ELSE 0)
      /\ q.t = p.t /\ q.end = p.end
      /\ Len(q.out) = Len(p.out) + 1 /\ Len(p.out) \in Nat
      /\ q.out[Len(p.out) + 1] = x
      /\ \A i \in 1..Len(p.out) : q.out[i] = p.out[i]
  BY <1>1, MoreType
<1>4. x.t = p.t /\ x.off = p.read /\ x.len = n  OBVIOUS
<1> HIDE DEF q, x
<1>5. st.body \in Nat /\ p.read < st.body
  <2>1. st.body \in Nat  BY DEF Setting
  <2> QED  BY <1>2, <2>1
<1>6. ASSUME ~st.timed PROVE q.seg = 0
  <2>1. p.seg = 0  BY <1>1, <1>6 DEF Polled
  <2> QED  BY <1>3, <2>1
<1>7. ASSUME st.timed
      PROVE  /\ q.read + q.seg = C[q.idx - 1]
             /\ q.seg > 0 => q.idx > 1 /\ C[q.idx - 2] <= q.read
             /\ \A i \in 1..Len(q.out) : Taken(m, E, q.out[i], q.idx - 1)
             /\ Fits(E) /\ f.good => q.seg = 0 /\ Exact(E, q.out, q.idx - 1)
  <2>1. Begun(m, st, p)  BY <1>7, ReadingBegun
  <2>2. p.seg > 0  BY <1>5, <2>1 DEF Begun
  <2>3. PICK g \in Nat : g = p.seg  BY <1>2
  <2>4. PICK r \in Nat : r = p.read  BY <1>2
  <2>5. n <= g /\ q.seg = g - n /\ g - n \in Nat
    <3>1. n <= g  BY <1>2, <2>2, <2>3
    <3>2. q.seg = IF g > n THEN g - n ELSE 0  BY <1>3, <2>3
    <3> QED  BY <3>1, <3>2
  <2>6. PICK c \in Nat : c = C[p.idx - 1] /\ r + g = c  BY <2>1, <2>3, <2>4 DEF Begun
  <2>7. PICK j \in Nat : j = p.idx - 1 /\ p.idx = j + 1 /\ j >= 1 /\ p.idx - 2 = j - 1 /\ j <= Len(E)
    <3>1. p.idx > 1 /\ p.idx - 1 \in 1..Len(E) /\ p.idx \in Nat /\ Len(E) \in Nat
      BY <2>1, <2>2 DEF Begun
    <3>2. p.idx - 1 \in Nat /\ p.idx = (p.idx - 1) + 1 /\ p.idx - 1 >= 1
          /\ p.idx - 2 = (p.idx - 1) - 1 /\ p.idx - 1 <= Len(E)
      BY <3>1
    <3> QED  BY <3>2
  <2>8. q.read + q.seg = C[q.idx - 1]
    <3>1. (r + n) + (g - n) = c  BY <2>5, <2>6
    <3> QED  BY <1>3, <2>4, <2>5, <2>6, <3>1
  <2>9. C[j - 1] <= r /\ E[j].kind = "data"  BY <2>1, <2>2, <2>4, <2>7 DEF Begun
  <2>10. j \in 1..Len(E) /\ j - 1 \in 0..Len(E) /\ Len(E) \in Nat  BY <2>1, <2>7 DEF Begun
  <2>11. Aligned(m, st)  BY <1>7, SettingAligned
  <2>12. C[j - 1] \in Nat  BY <2>10, <2>11 DEF Aligned
  <2>13. q.seg > 0 => q.idx > 1 /\ C[q.idx - 2] <= q.read
    <3>1. C[j - 1] <= r + n  BY <2>9, <2>12
    <3>2. j + 1 > 1  BY <2>7
    <3> QED  BY <1>3, <2>4, <2>7, <3>1, <3>2
  <2>14. Taken(m, E, x, j)
    <3>1. p.t = S[j].total  BY <1>1, <2>7 DEF Polled
    <3>2. r < c /\ c = C[j]  BY SMTT(60), <2>2, <2>3, <2>6, <2>7
    <3>3. j \in 1..j  BY <2>7
    <3> QED  BY <1>4, <2>4, <2>9, <3>1, <3>2, <3>3 DEF Taken
  <2>15. \A i \in 1..Len(q.out) : Taken(m, E, q.out[i], q.idx - 1)
    <3> SUFFICES ASSUME NEW i \in 1..Len(q.out) PROVE Taken(m, E, q.out[i], j)  BY <1>3, <2>7
    <3>1. i = Len(p.out) + 1 \/ i \in 1..Len(p.out)  BY <1>3
    <3>2. \A k \in 1..Len(p.out) : Taken(m, E, p.out[k], j)  BY <1>1, <1>7, <2>7 DEF Polled
    <3> QED  BY <1>3, <2>14, <3>1, <3>2
  <2>16. ASSUME Fits(E), f.good PROVE q.seg = 0 /\ Exact(E, q.out, j)
    <3>1. p.seg = E[j].len /\ Exact(E, p.out, j - 1)  BY <1>7, <2>2, <2>7, <2>16 DEF Reading
    <3>2. p.seg <= Chunk  BY <2>10, <2>16, <3>1 DEF Fits
    <3>3. p.read + p.seg <= f.len
      <4>1. c <= st.body  BY <2>1, <2>6 DEF Begun
      <4>2. f.len = st.body  BY <2>16 DEF Setting
      <4> QED  BY <2>3, <2>4, <2>6, <4>1, <4>2
    <3>4. n = g  BY <1>2, <2>2, <2>3, <3>2, <3>3
    <3>5. q.seg = 0  BY <2>5, <3>4
    <3>6. C[j] = C[j - 1] + E[j].len  BY <2>10, <2>11 DEF Aligned
    <3>7. r = C[j - 1]
      <4>1. c = C[j - 1] + g  BY <2>3, <2>6, <2>7, <3>1, <3>6
      <4> QED  BY <2>6, <2>12, <4>1
    <3>8. Len(p.out) = j - 1 /\ \A i \in 1..(j - 1) : p.out[i].off = C[i - 1] /\ p.out[i].len = E[i].len
      BY <3>1 DEF Exact
    <3>a. PICK lo \in Nat : lo = Len(p.out)  BY <1>3
    <3>b. lo = j - 1  BY <3>8, <3>a
    <3>c. lo + 1 = j  BY <3>b
    <3>9. Len(q.out) = j /\ \A i \in 1..j : i = j \/ i \in 1..(j - 1)
      <4>1. Len(q.out) = lo + 1  BY <1>3, <3>a
      <4> QED  BY <2>7, <3>c, <4>1
    <3>10. q.out[j] = x
      <4>1. Len(p.out) + 1 = j  BY <3>a, <3>c
      <4> QED  BY <1>3, <4>1
    <3>11. x.off = C[j - 1] /\ x.len = E[j].len  BY <1>4, <2>3, <2>4, <3>1, <3>4, <3>7
    <3>12. \A i \in 1..(j - 1) : q.out[i] = p.out[i]  BY <1>3, <3>8
    <3>13. \A i \in 1..j : q.out[i].off = C[i - 1] /\ q.out[i].len = E[i].len
      BY <3>8, <3>9, <3>10, <3>11, <3>12
    <3> QED  BY <3>5, <3>9, <3>13 DEF Exact
  <2> HIDE DEF E, C
  <2> QED  BY <1>3, <2>7, <2>8, <2>13, <2>15, <2>16
<1>8. q.read <= st.body /\ q.read <= f.len  BY <1>2, <1>3
<1>9. Polled(m, st, f, q)  BY <1>1, <1>3, <1>6, <1>7, <1>8 DEF Polled
<1>10. Serving(m, st, f, q)  BY <1>7, <1>9 DEF Serving
<1> QED  BY <1>10 DEF q

-----------------------------------------------------------------------------
(* The invariant.                                                           *)

PlayInv ==
    /\ phase = "serving" => Serving(mode, stored, file, play)
    /\ phase = "served" => Served(mode, stored, file, play)

StreamInv == RecInv /\ FixtureInv /\ PlayInv

(* A loaded fixture can be replayed.                                        *)
LEMMA LoadedSetting ==
  ASSUME FixtureInv, phase \in Replaying
  PROVE  Setting(mode, stored, file)
<1>1. StoredOK /\ stored.outcome = "response" /\ mode \in Modes
      /\ file.len \in Nat /\ file.good \in BOOLEAN /\ file.len <= stored.body + 1
      /\ (file.good => file.len = stored.body)
  BY DEF FixtureInv, Replaying, Recorder
<1>2. IsMode(mode)  BY <1>1, Bounds
<1>3. stored.body \in Nat /\ stored.body <= MaxBlob  BY <1>1, Bounds DEF StoredOK
<1> QED  BY <1>1, <1>2, <1>3 DEF Setting, StoredOK

(* The answer begins: empty, refused, or open before its first event.       *)
LEMMA ServeKeeps ==
  ASSUME StreamInv, Serve
  PROVE  StreamInv'
<1> DEFINE s == BuildSchedule(mode, stored.events)
<1>1. phase = "loaded" /\ UNCHANGED <<recVars, stored, mode, file>>  BY DEF Serve
<1>2. Setting(mode, stored, file)  BY <1>1, LoadedSetting DEF StreamInv, Replaying
<1>3. \/ /\ stored.body = 0
         /\ play' = [NoPlay EXCEPT !.end = "clean"] /\ phase' = "served"
      \/ /\ stored.body # 0 /\ s.bad
         /\ play' = [NoPlay EXCEPT !.end = "500"] /\ phase' = "served"
      \/ /\ stored.body # 0 /\ ~s.bad
         /\ play' = Opening(s) /\ phase' = "serving"
  BY DEF Serve, Opening
<1>4. mode = RecordedMode => ~s.bad
  <2>1. CASE stored.timed
    <3>1. Aligned(mode, stored)  BY <1>2, <2>1, SettingAligned
    <3> QED  BY <3>1 DEF Aligned
  <2>2. CASE ~stored.timed  BY <1>2, <2>2, UntimedSchedule
  <2> QED  BY <2>1, <2>2
<1>5. stored.body \in Nat  BY <1>2 DEF Setting
<1> HIDE DEF s
<1>6. /\ phase' = "served" => Served(mode, stored, file, play')
      /\ phase' = "serving" => Serving(mode, stored, file, play')
      /\ phase' \in {"serving", "served"}
  <2>1. CASE stored.body = 0 /\ play' = [NoPlay EXCEPT !.end = "clean"] /\ phase' = "served"
    <3>1. Served(mode, stored, file, [NoPlay EXCEPT !.end = "clean"])
      <4>1. "clean" # "500"  OBVIOUS
      <4> QED  BY <1>2, <2>1, <4>1, UnservedServed
    <3> QED  BY <2>1, <3>1
  <2>2. CASE s.bad /\ play' = [NoPlay EXCEPT !.end = "500"] /\ phase' = "served"
    <3>1. Served(mode, stored, file, [NoPlay EXCEPT !.end = "500"])
      <4>1. "clean" # "500"  OBVIOUS
      <4> QED  BY <1>2, <1>4, <2>2, <4>1, UnservedServed
    <3> QED  BY <2>2, <3>1
  <2>3. CASE stored.body # 0 /\ ~s.bad /\ play' = Opening(s) /\ phase' = "serving"
    <3>1. stored.body > 0  BY <1>5, <2>3
    <3>2. Serving(mode, stored, file, Opening(s))  BY <1>2, <2>3, <3>1, OpeningServes DEF s
    <3> QED  BY <2>3, <3>2
  <2> QED  BY <1>3, <2>1, <2>2, <2>3
<1>7. RecInv' /\ FixtureInv'
  <2>1. RecInv /\ FixtureInv  BY DEF StreamInv
  <2> QED  BY <1>1, <1>6, <2>1, ReplayKeeps
<1>8. PlayInv'  BY <1>1, <1>6 DEF PlayInv
<1> QED  BY <1>7, <1>8 DEF StreamInv

(* A read of the body file.                                                 *)
LEMMA ReadKeeps ==
  ASSUME phase = "serving", UNCHANGED <<recVars, stored, mode, file>>,
         Setting(mode, stored, file), NEW p, Reading(mode, stored, file, p), ReadChunk(p)
  PROVE  /\ phase' = "served" => Served(mode, stored, file, play')
         /\ phase' = "serving" => Serving(mode, stored, file, play')
         /\ phase' \in {"serving", "served"}
<1> DEFINE n == Amount(file, p)
<1>1. Polled(mode, stored, file, p) /\ p \in Play  BY DEF Reading, Polled
<1>2. n \in Nat /\ p.read \in Nat /\ p.read + n <= file.len /\ (n = 0 <=> p.read = file.len)
  BY <1>1, ReadAmount
<1>3. n = ChunkSize(p)  BY DEF Amount, ChunkSize
<1>4. /\ stored.body \in Nat /\ stored.body <= MaxBlob /\ file.len \in Nat /\ file.len <= stored.body + 1
      /\ file.good \in BOOLEAN /\ (file.good => file.len = stored.body)
      /\ p.read <= stored.body
  BY <1>1 DEF Setting, Polled
<1>5. p \in [schedule : Seq(Step), idx : Nat, seg : Nat, read : Nat, t : Nat, out : Seq(Sample),
             trailerDelay : Nat, endDelay : Nat, trailers : BOOLEAN, end : Endings]
  BY <1>1 DEF Play
<1> HIDE DEF n
<1>6. CASE n = 0
  <2>1. EndOfFile(p)  BY <1>3, <1>6 DEF ReadChunk
  <2>2. CASE p.read = stored.body /\ file.good
    <3> DEFINE t == p.t + p.trailerDelay + p.endDelay
               q == [[p EXCEPT !.t = @ + p.trailerDelay + p.endDelay,
                               !.trailers = stored.trailers] EXCEPT !.end = "clean"]
    <3>1. play' = q /\ phase' = "served"  BY <2>1, <2>2 DEF EndOfFile, Stop
    <3>2. t \in Nat /\ stored.trailers \in BOOLEAN /\ "clean" \in Endings
      BY <1>5 DEF Setting, Endings
    <3>3. q = [p EXCEPT !.t = t, !.trailers = stored.trailers, !.end = "clean"]  BY <1>5
    <3> HIDE DEF q, t
    <3>4. q \in Play /\ q.schedule = p.schedule /\ q.out = p.out /\ q.read = p.read /\ q.end = "clean"
          /\ q.trailers = stored.trailers
      BY <1>5, <3>2, <3>3 DEF Play
    <3>5. Served(mode, stored, file, q)  BY <2>2, <3>4, CleanServed
    <3> QED  BY <3>1, <3>5
  <2>3. CASE ~(p.read = stored.body /\ file.good)
    <3> DEFINE q == [p EXCEPT !.end = "integrity"]
    <3>1. play' = q /\ phase' = "served"  BY <2>1, <2>3 DEF EndOfFile, Stop
    <3>2. "integrity" \in Endings  BY DEF Endings
    <3> HIDE DEF q
    <3>3. q \in Play /\ q.schedule = p.schedule /\ q.out = p.out /\ q.read = p.read /\ q.end = "integrity"
      BY <1>5, <3>2 DEF Play, q
    <3>4. ~file.good  BY <1>2, <1>4, <1>6, <2>3
    <3>5. q.read <= MaxBlob + 1  BY <1>2, <1>4, <3>3, Bounds
    <3>6. Served(mode, stored, file, q)  BY <1>1, <3>3, <3>4, <3>5, StopServed
    <3> QED  BY <3>1, <3>6
  <2> QED  BY <2>2, <2>3
<1>7. CASE n # 0 /\ p.read + n > stored.body
  <2> DEFINE r == p.read + n
             q == [[p EXCEPT !.read = @ + n] EXCEPT !.end = "integrity"]
  <2>1. play' = q /\ phase' = "served"  BY <1>3, <1>7 DEF ReadChunk, Stop
  <2>2. r \in Nat /\ "integrity" \in Endings  BY <1>2 DEF Endings
  <2>3. q = [p EXCEPT !.read = r, !.end = "integrity"]  BY <1>5
  <2>4. r <= MaxBlob + 1 /\ ~file.good  BY <1>2, <1>4, <1>7, Bounds
  <2> HIDE DEF q, r
  <2>5. q \in Play /\ q.schedule = p.schedule /\ q.out = p.out /\ q.read = r /\ q.end = "integrity"
    BY <1>5, <2>2, <2>3 DEF Play
  <2>6. Served(mode, stored, file, q)  BY <1>1, <2>4, <2>5, StopServed
  <2> QED  BY <2>1, <2>6
<1>8. CASE n # 0 /\ ~(p.read + n > stored.body)
  <2>1. play' = More(p, n) /\ phase' = "serving"  BY <1>3, <1>8 DEF ReadChunk, More
  <2>2. n > 0 /\ p.read + n <= stored.body  BY <1>2, <1>4, <1>8
  <2>3. Serving(mode, stored, file, More(p, n))  BY <1>2, <2>2, ReadOn DEF n
  <2> QED  BY <2>1, <2>3
<1> QED  BY <1>6, <1>7, <1>8

(* A poll takes the step that is due, then reads once.                      *)
LEMMA PollKeeps ==
  ASSUME StreamInv, PollBody
  PROVE  StreamInv'
<1>1. phase = "serving" /\ UNCHANGED <<recVars, stored, mode, file>>  BY DEF PollBody
<1>2. Setting(mode, stored, file)  BY <1>1, LoadedSetting DEF StreamInv, Replaying
<1>3. Serving(mode, stored, file, play)  BY <1>1 DEF StreamInv, PlayInv
<1>4. \/ Due(play) /\ play.schedule[play.idx].kind = "error" /\ Stop(Next1(play), "error")
      \/ Due(play) /\ play.schedule[play.idx].kind # "error" /\ ReadChunk(Next1(play))
      \/ ~Due(play) /\ ReadChunk(play)
  BY DEF PollBody, Due, Next1
<1>5. /\ phase' = "served" => Served(mode, stored, file, play')
      /\ phase' = "serving" => Serving(mode, stored, file, play')
      /\ phase' \in {"serving", "served"}
  <2>1. CASE Due(play) /\ play.schedule[play.idx].kind = "error" /\ Stop(Next1(play), "error")
    <3> DEFINE p == Next1(play)
               q == [p EXCEPT !.end = "error"]
    <3>1. play' = q /\ phase' = "served"  BY <2>1 DEF Stop
    <3>2. p \in Play /\ p.read = stored.body /\ p.out = play.out /\ p.schedule = play.schedule
      BY <1>2, <1>3, <2>1, DueReads
    <3>3. "error" \in Endings  BY DEF Endings
    <3> HIDE DEF p, q
    <3>4. /\ q \in Play /\ q.schedule = p.schedule /\ q.out = p.out /\ q.read = p.read /\ q.end = "error"
      BY <3>2, <3>3 DEF Play, q
    <3>5. q.read <= MaxBlob + 1
      <4>1. stored.body \in Nat /\ stored.body <= MaxBlob  BY <1>2 DEF Setting
      <4> QED  BY <3>2, <3>4, <4>1, Bounds
    <3>6. Polled(mode, stored, file, play)  BY <1>3 DEF Serving
    <3>7. Served(mode, stored, file, q)  BY <1>2, <3>2, <3>4, <3>5, <3>6, StopServed
    <3> QED  BY <3>1, <3>7
  <2>2. CASE Due(play) /\ play.schedule[play.idx].kind # "error" /\ ReadChunk(Next1(play))
    <3>1. Reading(mode, stored, file, Next1(play))  BY <1>2, <1>3, <2>2, DueReads
    <3> QED  BY <1>1, <1>2, <2>2, <3>1, ReadKeeps
  <2>3. CASE ~Due(play) /\ ReadChunk(play)
    <3>1. Reading(mode, stored, file, play)  BY <1>2, <1>3, <2>3, NotDueReads
    <3> QED  BY <1>1, <1>2, <2>3, <3>1, ReadKeeps
  <2> QED  BY <1>4, <2>1, <2>2, <2>3
<1>6. RecInv' /\ FixtureInv'
  <2>1. RecInv /\ FixtureInv  BY DEF StreamInv
  <2> QED  BY <1>1, <1>5, <2>1, ReplayKeeps
<1>7. PlayInv'  BY <1>1, <1>5 DEF PlayInv
<1> QED  BY <1>6, <1>7 DEF StreamInv

(* A step of the recorder leaves the fixture and the replay alone.          *)
LEMMA RecorderKeeps ==
  ASSUME StreamInv, RecInv', phase \in Recorder, phase' \in Recorder,
         UNCHANGED <<stored, mode, file, play>>
  PROVE  StreamInv'
<1>1. FixtureInv'  BY FixtureRecorder DEF StreamInv
<1>2. PlayInv'  BY DEF PlayInv, Recorder
<1> QED  BY <1>1, <1>2 DEF StreamInv

(* Every action keeps the invariant.                                        *)
LEMMA StreamStep ==
  ASSUME StreamInv, [Next]_vars
  PROVE  StreamInv'
<1>0. RecInv /\ FixtureInv  BY DEF StreamInv
<1>1. CASE Tick
  <2>1. RecInv'  BY <1>0, <1>1, RecTick
  <2>2. phase \in Recorder /\ phase' \in Recorder /\ UNCHANGED <<stored, mode, file, play>>
    BY <1>1 DEF Tick, Recorder
  <2> QED  BY <2>1, <2>2, RecorderKeeps
<1>2. ASSUME NEW n \in RequestSizes, RequestFrame(n) PROVE StreamInv'
  <2>1. n \in Nat  BY Bounds
  <2>2. RecInv'  BY <1>0, <1>2, <2>1, RecRequestFrame
  <2>3. phase \in Recorder /\ phase' \in Recorder /\ UNCHANGED <<stored, mode, file, play>>
    BY <1>2 DEF RequestFrame, TeePlain, TeeSession, Recorder
  <2> QED  BY <2>2, <2>3, RecorderKeeps
<1>3. ASSUME NEW n \in RequestSizes, RequestTooLong(n) PROVE StreamInv'
  <2>1. RecInv'  BY <1>0, <1>3, RecRequestTooLong
  <2>2. phase \in Recorder /\ phase' \in Recorder /\ UNCHANGED <<stored, mode, file, play>>
    BY <1>3 DEF RequestTooLong, Recorder
  <2> QED  BY <2>1, <2>2, RecorderKeeps
<1>4. ASSUME NEW n \in FrameSizes, ResponseFrame(n) PROVE StreamInv'
  <2>1. n \in Nat  BY Bounds
  <2>2. RecInv'  BY <1>0, <1>4, <2>1, RecResponseFrame
  <2>3. phase \in Recorder /\ phase' \in Recorder /\ UNCHANGED <<stored, mode, file, play>>
    BY <1>4 DEF ResponseFrame, Recorded, Recorder
  <2> QED  BY <2>2, <2>3, RecorderKeeps
<1>5. ASSUME NEW whole \in BOOLEAN, UpstreamResult(whole) PROVE StreamInv'
  <2>1. RecInv'  BY <1>0, <1>5, RecUpstream
  <2>2. phase \in Recorder /\ phase' \in Recorder /\ UNCHANGED <<stored, mode, file, play>>
    BY <1>5 DEF UpstreamResult, ResponseBegins, Fails, Recorder
  <2> QED  BY <2>1, <2>2, RecorderKeeps
<1>6. CASE RequestBroken
  <2>1. RecInv'  BY <1>0, <1>6, RecRequestBroken
  <2>2. phase \in Recorder /\ phase' \in Recorder /\ UNCHANGED <<stored, mode, file, play>>
    BY <1>6 DEF RequestBroken, Fails, Recorder
  <2> QED  BY <2>1, <2>2, RecorderKeeps
<1>7. CASE ResponseTrailers
  <2>1. RecInv'  BY <1>0, <1>7, RecResponseTrailers
  <2>2. phase \in Recorder /\ phase' \in Recorder /\ UNCHANGED <<stored, mode, file, play>>
    BY <1>7 DEF ResponseTrailers, Recorded, Recorder
  <2> QED  BY <2>1, <2>2, RecorderKeeps
<1>8. CASE ResponseEnd
  <2>1. RecInv'  BY <1>0, <1>8, RecResponseEnd
  <2>2. phase \in Recorder /\ phase' \in Recorder /\ UNCHANGED <<stored, mode, file, play>>
    BY <1>8 DEF ResponseEnd, Recorded, Recorder
  <2> QED  BY <2>1, <2>2, RecorderKeeps
<1>9. CASE ResponseError
  <2>1. RecInv'  BY <1>0, <1>9, RecResponseError
  <2>2. phase \in Recorder /\ phase' \in Recorder /\ UNCHANGED <<stored, mode, file, play>>
    BY <1>9 DEF ResponseError, Recorded, Recorder
  <2> QED  BY <2>1, <2>2, RecorderKeeps
<1>10. ASSUME NEW r, NEW k \in 0..MaxBlob, AppendRecording(r, k) PROVE StreamInv'
  <2>1. RecInv' /\ FixtureInv'  BY <1>0, <1>10, AppendKeeps
  <2>2. phase' \in {"stored", "untimed"}  BY <1>10 DEF AppendRecording
  <2>3. PlayInv'  BY <2>2 DEF PlayInv
  <2> QED  BY <2>1, <2>3 DEF StreamInv
<1>11. ASSUME NEW m \in Modes, Load(m) PROVE StreamInv'
  <2>1. RecInv' /\ FixtureInv'  BY <1>0, <1>11, LoadKeeps
  <2>2. phase' \in {"loaded", "unloadable"}  BY <1>11 DEF Load
  <2>3. PlayInv'  BY <2>2 DEF PlayInv
  <2> QED  BY <2>1, <2>3 DEF StreamInv
<1>12. CASE Serve  BY <1>12, ServeKeeps
<1>13. CASE PollBody  BY <1>13, PollKeeps
<1>14. CASE UNCHANGED vars
  <2>1. UNCHANGED <<via, clock, frames, reqEvents, reqLen, respEvents, respLen, trailers, outcome,
                    phase, stored, mode, file, play>>
    BY <1>14 DEF vars, recVars
  <2>2. RecInv'  BY <1>0, <2>1 DEF RecInv, ClockInv, RequestInv, ResponseInv, RefusedInv
  <2>3. FixtureInv'
    <3>1. (\A m : Loads(m) <=> Loads(m)')  BY <2>1 DEF Loads
    <3> QED  BY <1>0, <2>1, <3>1 DEF FixtureInv, StoredOK
  <2>4. PlayInv'  BY <2>1 DEF StreamInv, PlayInv
  <2> QED  BY <2>2, <2>3, <2>4 DEF StreamInv
<1> QED
  BY <1>1, <1>2, <1>3, <1>4, <1>5, <1>6, <1>7, <1>8, <1>9, <1>10, <1>11, <1>12, <1>13, <1>14 DEF Next

(* The invariant holds at first.                                            *)
LEMMA StreamInit ==
  ASSUME Init
  PROVE  StreamInv
<1>1. RecInv /\ FixtureInv  BY RecInit, FixtureInit
<1>2. PlayInv  BY DEF Init, PlayInv
<1> QED  BY <1>1, <1>2 DEF StreamInv

(* The invariant always holds.                                              *)
LEMMA StreamAlways == Spec => []StreamInv
<1>1. Init => StreamInv  BY StreamInit
<1>2. StreamInv /\ [Next]_vars => StreamInv'  BY StreamStep
<1> QED  BY <1>1, <1>2, PTL DEF Spec

(* A list for n bytes holds events within the bounds.                       *)
LEMMA ListInSet ==
  ASSUME NEW s, NEW n, ListOK(s, n)
  PROVE  n \in 0..MaxBlob /\ Len(s) <= Cap /\ Range(s) \subseteq EventSet
<1>1. /\ Ordered(s) /\ n \in 0..MaxBlob /\ Len(s) <= Cap /\ DataLength(s) <= n
      /\ \A i \in 1..Len(s) : s[i].at <= MaxClock
  BY DEF ListOK, By
<1>2. DataLength(s) \in Nat /\ Len(s) \in Nat /\ s \in Seq(Event) /\ DOMAIN s = 1..Len(s)
  BY <1>1, DataLengthNat
<1>3. Sums(s)  BY <1>2, CoveredSums
<1>4. ASSUME NEW i \in 1..Len(s) PROVE s[i] \in EventSet
  <2>1. s[i] \in Event  BY <1>2
  <2>2. i \in 0..Len(s) /\ i - 1 \in 0..Len(s) /\ i <= Len(s) /\ i - 1 <= i /\ Len(s) \in 0..Len(s)
    BY <1>2
  <2> DEFINE a == Covered(s)[i - 1]
             b == Covered(s)[i]
             c == DataLength(s)
  <2>3. a \in Nat /\ b = a + s[i].len  BY <1>3, <2>2 DEF Sums
  <2>4. b <= c  BY <1>2, <2>2, SumsGrow DEF DataLength
  <2>5. s[i].len \in Nat /\ s[i].off \in Nat /\ s[i].at \in Nat /\ s[i].kind \in Kinds  BY <2>1 DEF Event
  <2>6. s[i].off = a \/ s[i].off = 0
    <3>1. WellPlaced(s, i)  BY <1>1 DEF Ordered
    <3> QED  BY <2>5, <3>1 DEF WellPlaced, Kinds
  <2> HIDE DEF a, b, c
  <2>7. c \in Nat /\ c <= n /\ MaxBlob \in Nat /\ MaxClock \in Nat /\ n \in Nat /\ n <= MaxBlob
    BY <1>1, <1>2, Bounds DEF c
  <2>8. a <= MaxBlob /\ s[i].len <= MaxBlob /\ s[i].at <= MaxClock  BY <1>1, <2>3, <2>4, <2>5, <2>7
  <2>9. s[i].off \in 0..MaxBlob /\ s[i].len \in 0..MaxBlob /\ s[i].at \in 0..MaxClock
    BY <2>3, <2>5, <2>6, <2>7, <2>8
  <2> QED  BY <2>1, <2>5, <2>9 DEF EventSet, Event, Kinds
<1> QED  BY <1>1, <1>2, <1>4 DEF Range

(* The lists, lengths and ends stay within their bounds.                    *)
LEMMA StreamTypes ==
  ASSUME StreamInv
  PROVE  TypeOK
<1>1. ClockInv /\ ListOK(reqEvents, reqLen) /\ ListOK(respEvents, respLen)
  BY DEF StreamInv, RecInv, RequestInv, ResponseInv
<1>2. /\ reqLen \in 0..MaxBlob /\ Len(reqEvents) <= Cap /\ Range(reqEvents) \subseteq EventSet
      /\ respLen \in 0..MaxBlob /\ Len(respEvents) <= Cap /\ Range(respEvents) \subseteq EventSet
  BY <1>1, ListInSet
<1>3. phase \in Phases  BY <1>1 DEF ClockInv
<1>4. play.end \in Endings /\ play.read <= MaxBlob + 1
  <2>1. CASE phase = "serving"
    <3>1. Polled(mode, stored, file, play)  BY <2>1 DEF StreamInv, PlayInv, Serving
    <3>2. Setting(mode, stored, file)  BY <2>1, LoadedSetting DEF StreamInv, Replaying
    <3>3. play \in Play /\ play.read <= stored.body /\ stored.body \in Nat /\ stored.body <= MaxBlob
      BY <3>1, <3>2 DEF Polled, Setting
    <3>4. play.read \in Nat /\ play.end \in Endings  BY <3>3 DEF Play
    <3> QED  BY <3>3, <3>4, Bounds
  <2>2. CASE phase = "served"
    <3>1. Served(mode, stored, file, play)  BY <2>2 DEF StreamInv, PlayInv
    <3>2. play \in Play /\ play.read <= MaxBlob + 1  BY <3>1 DEF Served
    <3> QED  BY <3>2 DEF Play
  <2>3. CASE phase \notin {"serving", "served"}
    <3>1. play = NoPlay  BY <2>3 DEF StreamInv, FixtureInv
    <3>2. NoPlay.end = "none" /\ NoPlay.read = 0  BY DEF NoPlay
    <3> QED  BY <3>1, <3>2, Bounds DEF Endings
  <2> QED  BY <2>1, <2>2, <2>3
<1> QED  BY <1>2, <1>3, <1>4 DEF TypeOK, Phases, Endings

(* A response's events cover the bytes kept.                                *)
LEMMA StreamCovers ==
  ASSUME StreamInv
  PROVE  EventsCoverBody
<1> SUFFICES ASSUME phase \in {"response", "complete"}
             PROVE  DataLength(respEvents) = respLen /\ ValidEvents(Untimed(respEvents))
  BY DEF EventsCoverBody, Untimed
<1>1. ResponseInv  BY DEF StreamInv, RecInv
<1>2. DataLength(respEvents) = respLen /\ Ordered(respEvents)  BY <1>1 DEF ResponseInv, ListOK
<1>3. ValidEvents(Untimed(respEvents))  BY <1>2, Bounds, OrderedUntimed
<1> QED  BY <1>2, <1>3

(* Only an event that is too late is refused.                               *)
LEMMA StreamRefuses ==
  ASSUME StreamInv
  PROVE  OnlyLateRefused
<1>1. RefusedInv  BY DEF StreamInv, RecInv
<1>2. ASSUME phase = "unloadable" PROVE ~stored.timed /\ mode # Immediate
  <2>1. StoredOK /\ stored.outcome = "response" /\ ~Loads(mode)
    BY <1>2 DEF StreamInv, FixtureInv, Recorder, Replaying
  <2>2. stored.timed => DataLength(stored.events) = stored.body  BY <2>1 DEF StoredOK, Timeline
  <2> QED  BY <2>1, <2>2 DEF Loads
<1> QED  BY <1>1, <1>2 DEF OnlyLateRefused, RefusedInv

(* The recorder's pushes, at the cap too, and the reconciliation with the   *)
(* redacted body keep a list ordered and its sums those of the body.        *)
THEOREM TimelinesRecorded == Spec => []TimelineRecorded
<1>1. StreamInv => TimelineRecorded
  BY StreamTypes, StreamCovers, StreamRefuses DEF TimelineRecorded
<1> QED  BY <1>1, StreamAlways, PTL

(* A reply between two polls has no end yet.                                *)
LEMMA StreamEnds ==
  ASSUME StreamInv
  PROVE  BodyReplayed
<1>1. CASE phase = "served"
  <2>1. Served(mode, stored, file, play)  BY <1>1 DEF StreamInv, PlayInv
  <2>2. IntegrityExact  BY <2>1 DEF Served, IntegrityExact
  <2>3. play.schedule \in Seq(Step)  BY <2>1 DEF Served, Play
  <2>4. DOMAIN play.schedule = 1..Len(play.schedule)  BY <2>3
  <2>5. FailureAtOffset  BY <2>1, <2>4 DEF Served, FailureAtOffset
  <2> QED  BY <2>2, <2>5 DEF BodyReplayed
<1>2. CASE phase = "serving"
  <2>1. play.end = "open"  BY <1>2 DEF StreamInv, PlayInv, Serving, Polled
  <2> QED  BY <1>2, <2>1 DEF BodyReplayed, IntegrityExact, FailureAtOffset
<1>3. CASE phase \notin {"serving", "served"}
  <2>1. play = NoPlay  BY <1>3 DEF StreamInv, FixtureInv
  <2>2. NoPlay.end = "none"  BY DEF NoPlay
  <2> QED  BY <1>3, <2>1, <2>2 DEF BodyReplayed, IntegrityExact, FailureAtOffset
<1> QED  BY <1>1, <1>2, <1>3

(* Every read is counted against the announced length and the file's, and   *)
(* the recorded failure is a step that comes when all of its bytes are out. *)
THEOREM BodiesReplayed == Spec => []BodyReplayed
<1>1. StreamInv => BodyReplayed  BY StreamEnds
<1> QED  BY <1>1, StreamAlways, PTL

-----------------------------------------------------------------------------
(* What a candidate run observes.                                           *)

Observation == [ok : BOOLEAN, events : Seq(Event)]

(* A push returns a list of events, at the cap too.                         *)
LEMMA PushType ==
  ASSUME NEW s \in Seq(Event), NEW e \in Event
  PROVE  Push(s, e) \in Observation /\ PushCandidate(s, e) \in Observation
<1>1. Cap \in Nat /\ Cap > 0  BY Bounds
<1>2. e.len \in Nat /\ e.at \in Nat  BY DEF Event
<1>3. Append(s, e) \in Seq(Event) /\ Len(s) \in Nat  OBVIOUS
<1>4. ASSUME Len(s) >= Cap PROVE [s EXCEPT ![Len(s)].len = @ + e.len] \in Seq(Event)
  <2>1. PICK n \in Nat : n = Len(s) /\ n > 0  BY <1>1, <1>3, <1>4
  <2>2. s[n] \in Event /\ s \in [1..n -> Event]  BY <2>1
  <2> DEFINE x == [s[n] EXCEPT !.len = @ + e.len]
  <2>3. x \in Event  BY <1>2, <2>2 DEF Event
  <2> HIDE DEF x
  <2>4. [s EXCEPT ![n] = x] \in Seq(Event)  BY <2>1, <2>2, <2>3
  <2>5. [s EXCEPT ![Len(s)].len = @ + e.len] = [s EXCEPT ![n] = x]  BY <2>1 DEF x
  <2> QED  BY <2>4, <2>5
<1>5. Refused(s) \in Observation  BY DEF Refused, Observation
<1>6. Push(s, e) \in Observation
  <2>1. CASE IsData(e) /\ e.len = 0  BY <2>1 DEF Push, Observation
  <2>2. CASE ~(IsData(e) /\ e.len = 0) /\ Len(s) < Cap
    <3>1. Push(s, e) = [ok |-> TRUE, events |-> Append(s, e)]  BY <1>1, <1>3, <2>2 DEF Push
    <3> QED  BY <1>3, <3>1 DEF Observation
  <2>3. CASE ~(IsData(e) /\ e.len = 0) /\ Len(s) >= Cap
    <3> DEFINE g == [s EXCEPT ![Len(s)].len = @ + e.len]
    <3>1. Push(s, e) = [ok |-> TRUE, events |-> g] \/ Push(s, e) = Refused(s)
      BY <1>1, <1>3, <2>3 DEF Push
    <3>2. g \in Seq(Event)  BY <1>4, <2>3
    <3> HIDE DEF g
    <3>3. [ok |-> TRUE, events |-> g] \in Observation  BY <3>2 DEF Observation
    <3> QED  BY <1>5, <3>1, <3>3
  <2> QED  BY <1>1, <1>3, <2>1, <2>2, <2>3
<1> QED  BY <1>5, <1>6 DEF PushCandidate

\* What ObserveChunks reads, chunk by chunk.
Observes(r, out) ==
    /\ r \in [0..Len(out) -> Observation]
    /\ r[0] = [ok |-> TRUE, events |-> << >>]
    /\ \A n \in 1..Len(out) : r[n] = ObserveChunk(r[n - 1], out[n])

(* What ObserveChunks computes, chunk by chunk.                             *)
LEMMA ObservesLoop ==
  ASSUME NEW out \in Seq(Sample)
  PROVE  Observes(ObserveChunks(out), out)
<1> DEFINE L == Len(out)
           V == Observation
           base == [ok |-> TRUE, events |-> << >>]
           step == [n \in 1..L |-> [v \in V |-> ObserveChunk(v, out[n])]]
           Rule(g, n) == IF n = 0 THEN base ELSE ObserveChunk(g[n - 1], out[n])
           Unrolled(g) == g = [n \in 0..L |-> Rule(g, n)]
           r == CHOOSE g : Unrolled(g)
<1>1. L \in Nat /\ \A n \in 1..L : out[n] \in Sample  OBVIOUS
<1>2. base \in V
  <2>1. << >> \in Seq(Event)  OBVIOUS
  <2> QED  BY <2>1 DEF Observation
<1>3. ASSUME NEW n \in 1..L, NEW v \in V PROVE ObserveChunk(v, out[n]) \in V
  <2>1. out[n] \in Sample  BY <1>1
  <2>2. Data(out[n].t, out[n].off, out[n].len) \in Event  BY <2>1 DEF Sample, Data, Event, Kinds
  <2>3. v.events \in Seq(Event)  BY DEF Observation
  <2>4. PushCandidate(v.events, Data(out[n].t, out[n].off, out[n].len)) \in V  BY <2>2, <2>3, PushType
  <2> HIDE DEF V
  <2> QED  BY <2>4 DEF ObserveChunk
<1>4. step \in [1..L -> [V -> V]]
  <2> HIDE DEF V
  <2> QED  BY <1>3
<1>5. PICK g \in [0..L -> V] : g[0] = base /\ \A n \in 1..L : g[n] = step[n][g[n - 1]]
  <2> HIDE DEF step, V, L, base
  <2>1. HasRun(L, V, base, step)  BY <1>1, <1>2, <1>4, LoopExists
  <2> QED  BY <2>1 DEF HasRun, IsRun
<1>6. Unrolled(g)
  <2>1. ASSUME NEW n \in 0..L PROVE g[n] = Rule(g, n)
    <3>1. CASE n = 0  BY <3>1, <1>5
    <3>2. CASE n # 0
      <4> HIDE DEF V, base
      <4>1. n \in 1..L /\ n - 1 \in 0..L  BY <3>2
      <4>2. g[n] = step[n][g[n - 1]] /\ g[n - 1] \in V  BY <1>5, <4>1
      <4> QED  BY <3>2, <4>1, <4>2
    <3> QED  BY <3>1, <3>2
  <2> HIDE DEF Rule, V
  <2> QED  BY <1>5, <2>1
<1>7. Unrolled(r)
  <2> HIDE DEF Unrolled
  <2> QED  BY <1>6
<1>8. ObserveChunks(out) = r  BY Zenon DEF ObserveChunks
<1> HIDE DEF r
<1>9. \A n \in 0..L : r[n] = Rule(r, n)  BY <1>7
<1>10. r[0] = base  BY <1>1, <1>9
<1>11. ASSUME NEW n \in 1..L PROVE r[n] = ObserveChunk(r[n - 1], out[n])
  <2>1. n \in 0..L /\ n # 0  OBVIOUS
  <2>2. r[n] = Rule(r, n)  BY <1>9, <2>1
  <2> QED  BY <2>1, <2>2
<1> DEFINE S == {n \in Nat : r[n] \in V}
<1>12. \A n \in 0..L : n \in S
  <2>1. 0 \in S  BY <1>2, <1>10
  <2>2. ASSUME NEW n \in 1..L, n - 1 \in S PROVE n \in S
    <3> HIDE DEF V
    <3>1. r[n] \in V  BY <1>3, <1>11, <2>2
    <3> QED  BY <3>1
  <2> HIDE DEF S, L
  <2> QED  BY <1>1, <2>1, <2>2, UpTo
<1>13. r \in [0..L -> V]
  <2>1. \A n \in 0..L : r[n] \in V  BY <1>12
  <2> HIDE DEF Rule, V
  <2> QED  BY <1>7, <2>1
<1>14. Observes(r, out)  BY <1>10, <1>11, <1>13 DEF Observes
<1> QED  BY <1>8, <1>14

\* A list is the first n events of E, times apart.
Alike(E, s, n) == s \in Seq(Event) /\ Len(s) = n /\ \A i \in 1..n : SameEvent(E[i], s[i])

(* Below the cap an accepted event is appended.                             *)
LEMMA AlikeMore ==
  ASSUME NEW E \in Seq(Event), Len(E) <= Cap, NEW n \in Nat, n < Len(E), NEW s, Alike(E, s, n),
         NEW e \in Event, SameEvent(E[n + 1], e), ~(IsData(e) /\ e.len = 0),
         PushCandidate(s, e).ok
  PROVE  Alike(E, PushCandidate(s, e).events, n + 1)
<1>1. s \in Seq(Event) /\ Len(s) = n  BY DEF Alike
<1>2. n < Cap
  <2>1. Len(E) \in Nat  OBVIOUS
  <2> QED  BY <2>1, Bounds
<1>3. Refused(s).ok = FALSE  BY DEF Refused
<1>4. PushCandidate(s, e) = Push(s, e)  BY <1>3 DEF PushCandidate
<1>5. Push(s, e) = [ok |-> TRUE, events |-> Append(s, e)]
  <2>1. ~(n >= Cap)  BY <1>2, Bounds
  <2> QED  BY <1>1, <1>2, <2>1 DEF Push
<1> DEFINE t == Append(s, e)
<1>6. PushCandidate(s, e).events = t  BY <1>4, <1>5
<1>7. t \in Seq(Event) /\ Len(t) = n + 1 /\ t[n + 1] = e /\ \A i \in 1..n : t[i] = s[i]  BY <1>1
<1> HIDE DEF t
<1>8. \A i \in 1..(n + 1) : SameEvent(E[i], t[i])
  <2>1. \A i \in 1..(n + 1) : i = n + 1 \/ i \in 1..n  OBVIOUS
  <2>2. \A i \in 1..n : SameEvent(E[i], s[i])  BY DEF Alike
  <2> QED  BY <1>7, <2>1, <2>2
<1> QED  BY <1>6, <1>7, <1>8 DEF Alike

(* The chunks of a whole event each are observed as the events.             *)
LEMMA ObservedAlike ==
  ASSUME NEW E, Ordered(E), Len(E) <= Cap, NEW d \in Nat, d < Len(E),
         \A i \in 1..d : E[i].kind = "data",
         NEW out \in Seq(Sample), Exact(E, out, d), ObserveChunks(out)[Len(out)].ok
  PROVE  Alike(E, ObserveChunks(out)[Len(out)].events, d)
<1> DEFINE r == ObserveChunks(out)
           S == {n \in Nat : r[n].ok => Alike(E, r[n].events, n)}
<1>1. Observes(r, out)  BY ObservesLoop
<1> HIDE DEF r
<1>2. Len(out) = d /\ \A i \in 1..d : out[i].off = Covered(E)[i - 1] /\ out[i].len = E[i].len
  BY DEF Exact
<1>3. E \in Seq(Event) /\ Len(E) \in Nat /\ \A i \in 1..Len(E) : WellPlaced(E, i)  BY DEF Ordered
<1>4. 0 \in S
  <2>1. r[0].events = << >>  BY <1>1 DEF Observes
  <2>2. << >> \in Seq(Event) /\ Len(<< >>) = 0 /\ 1..0 = {}  OBVIOUS
  <2>3. Alike(E, r[0].events, 0)  BY <2>1, <2>2 DEF Alike
  <2> QED  BY <2>3
<1>5. ASSUME NEW n \in 1..d, n - 1 \in S PROVE n \in S
  <2> SUFFICES ASSUME r[n].ok PROVE Alike(E, r[n].events, n)  OBVIOUS
  <2> DEFINE v == r[n - 1]
             e == Data(out[n].t, out[n].off, out[n].len)
  <2>1. n \in 1..Len(E) /\ n - 1 \in Nat /\ n - 1 < Len(E) /\ (n - 1) + 1 = n  BY <1>3
  <2>2. r[n] = ObserveChunk(v, out[n])  BY <1>1, <1>2 DEF Observes
  <2>3. v.ok /\ r[n] = PushCandidate(v.events, e)  BY <2>2 DEF ObserveChunk
  <2>4. Alike(E, v.events, n - 1)  BY <1>5, <2>3
  <2>5. out[n] \in Sample  BY <1>2
  <2>6. e \in Event /\ e.kind = "data" /\ e.off = out[n].off /\ e.len = out[n].len
    BY <2>5 DEF Sample, Data, Event, Kinds
  <2>7. E[n].kind = "data" /\ E[n].off = Covered(E)[n - 1] /\ E[n].len > 0
    <3>1. WellPlaced(E, n) /\ E[n].kind = "data"  BY <1>3, <2>1
    <3> QED  BY <3>1 DEF WellPlaced
  <2> HIDE DEF e, v
  <2>8. SameEvent(E[n], e)  BY <1>2, <2>6, <2>7 DEF SameEvent
  <2>9. e.len # 0
    <3>1. e.len = E[n].len /\ e.len \in Nat  BY <1>2, <2>6 DEF Event
    <3> QED  BY <2>7, <3>1
  <2>10. Alike(E, PushCandidate(v.events, e).events, (n - 1) + 1)
    BY <1>3, <2>1, <2>3, <2>4, <2>6, <2>8, <2>9, AlikeMore
  <2> QED  BY <2>1, <2>3, <2>10
<1>6. \A n \in 0..d : n \in S
  <2> HIDE DEF S
  <2> QED  BY <1>4, <1>5, UpTo
<1>7. d \in 0..d  OBVIOUS
<1> QED  BY <1>2, <1>6, <1>7 DEF r

(* A clean reply whose events fit a read is observed as it was recorded.    *)
LEMMA ObservedSame ==
  ASSUME NEW E, NEW tr \in BOOLEAN, Whole(E, tr), E[Len(E)].kind = "end", Len(E) <= Cap,
         NEW p \in Play, p.trailers = tr, Exact(E, p.out, Len(E) - Ends(tr)), Observe(p).ok
  PROVE  SameShape(E, Observe(p).events)
<1> DEFINE data == ObserveChunks(p.out)[Len(p.out)]
           more == IF data.ok /\ p.trailers THEN PushCandidate(data.events, Trailers(p.t)) ELSE data
           all == IF more.ok THEN PushCandidate(more.events, EndEvent(p.t)) ELSE more
<1>0. PICK k \in {1, 2} : Ends(tr) = k /\ (k = 2 <=> tr) /\ (k = 1 <=> ~tr)  BY DEF Ends
<1>1. p.out \in Seq(Sample) /\ p.t \in Nat  BY DEF Play
<1>2. Ordered(E) /\ E \in Seq(Event) /\ Len(E) \in Nat /\ \A i \in 1..Len(E) : WellPlaced(E, i)
  BY DEF Whole, Ordered
<1>3. PICK l \in Nat : l = Len(E)  BY <1>2
<1>4. PICK d \in Nat : d = l - k /\ l = d + k
  <2>1. l >= k  BY <1>0, <1>3 DEF Whole
  <2> QED  BY <2>1
<1>5. \A i \in 1..d : E[i].kind = "data"  BY <1>0, <1>3, <1>4 DEF Whole
<1>6. Observe(p) = all  BY DEF Observe
<1>7. all.ok /\ more.ok /\ all = PushCandidate(more.events, EndEvent(p.t))  BY <1>6
<1>8. data.ok  BY <1>7
<1> HIDE DEF all, data
<1>9. Alike(E, data.events, d)
  <2>1. d < Len(E)  BY <1>3, <1>4
  <2>2. Exact(E, p.out, d)  BY <1>0, <1>3, <1>4
  <2>3. Len(E) <= Cap  OBVIOUS
  <2> QED  BY <1>1, <1>2, <1>5, <1>8, <2>1, <2>2, <2>3, ObservedAlike DEF data
<1>10. Alike(E, more.events, l - 1)
  <2>1. CASE tr
    <3> DEFINE e == Trailers(p.t)
    <3>1. more = PushCandidate(data.events, e)  BY <1>8, <2>1
    <3>2. k = 2 /\ d + 1 = l - 1 /\ d < Len(E)  BY <1>0, <1>3, <1>4, <2>1
    <3>3. E[l - 1].kind = "trailers"  BY <1>3, <2>1 DEF Whole
    <3>4. WellPlaced(E, l - 1)
      <4>1. l - 1 \in 1..Len(E)  BY <1>3, <3>2
      <4> QED  BY <1>2, <4>1
    <3>5. E[l - 1].off = 0 /\ E[l - 1].len = 0  BY <3>3, <3>4 DEF WellPlaced
    <3>6. e \in Event /\ e.kind = "trailers" /\ e.off = 0 /\ e.len = 0  BY <1>1 DEF Trailers, Event, Kinds
    <3> HIDE DEF e
    <3>7. SameEvent(E[d + 1], e)  BY <3>2, <3>3, <3>5, <3>6 DEF SameEvent
    <3>8. ~IsData(e)  BY <3>6 DEF IsData
    <3>9. PushCandidate(data.events, e).ok  BY <1>7, <3>1
    <3> HIDE DEF more
    <3>10. Alike(E, PushCandidate(data.events, e).events, d + 1)
      BY <1>2, <1>9, <3>2, <3>6, <3>7, <3>8, <3>9, AlikeMore
    <3> QED  BY <3>1, <3>2, <3>10
  <2>2. CASE ~tr
    <3>1. more = data  BY <2>2
    <3>2. d = l - 1  BY <1>0, <1>4, <2>2
    <3> QED  BY <1>9, <3>1, <3>2
  <2> QED  BY <2>1, <2>2
<1> HIDE DEF more
<1>11. Alike(E, all.events, l)
  <2> DEFINE e == EndEvent(p.t)
  <2>1. PICK n \in Nat : n = l - 1 /\ n + 1 = l /\ n < Len(E)
    <3>1. l >= 1  BY <1>0, <1>4
    <3> QED  BY <1>3, <3>1
  <2>2. E[l].kind = "end"  BY <1>3
  <2>3. WellPlaced(E, l)
    <3>1. l \in 1..Len(E)  BY <1>3, <2>1
    <3> QED  BY <1>2, <3>1
  <2>4. E[l].off = 0 /\ E[l].len = 0  BY <2>2, <2>3 DEF WellPlaced
  <2>5. e \in Event /\ e.kind = "end" /\ e.off = 0 /\ e.len = 0  BY <1>1 DEF EndEvent, Event, Kinds
  <2> HIDE DEF e
  <2>6. SameEvent(E[n + 1], e)  BY <2>1, <2>2, <2>4, <2>5 DEF SameEvent
  <2>7. ~IsData(e)  BY <2>5 DEF IsData
  <2>8. PushCandidate(more.events, e).ok /\ all = PushCandidate(more.events, e)  BY <1>7 DEF e
  <2>9. Alike(E, more.events, n)  BY <1>10, <2>1
  <2>10. Alike(E, PushCandidate(more.events, e).events, n + 1)
    BY <1>2, <2>1, <2>5, <2>6, <2>7, <2>8, <2>9, AlikeMore
  <2> QED  BY <2>1, <2>8, <2>10
<1>12. DOMAIN E = 1..l /\ Len(E) = l  BY <1>2, <1>3
<1> QED  BY <1>6, <1>11, <1>12 DEF Alike, SameShape

(* A byte of a reply belongs to one event, and leaves no earlier than it.   *)
LEMMA ChunkInTime ==
  ASSUME NEW m, NEW st, NEW f, Setting(m, st, f), st.timed, ~BuildSchedule(m, st.events).bad,
         NEW c, Taken(m, st.events, c, Len(st.events)),
         NEW k \in 1..Len(st.events), IsData(st.events[k]),
         st.events[k].off <= c.off, c.off < st.events[k].off + st.events[k].len, c.off \in Nat
  PROVE  /\ c.t * m.den >= st.events[k].at * m.num
         /\ m = RecordedMode => c.t = st.events[k].at
<1> DEFINE E == st.events
           C == Covered(E)
           S == Schedules(m, E)
<1>1. Whole(E, st.trailers) /\ InTime(E) /\ st.trailers \in BOOLEAN /\ IsMode(m)
  BY DEF Setting, Timeline
<1>2. Paced(m, E, st.trailers)  BY <1>1, Bounds, TimelinePaced
<1>3. Aligned(m, st)  BY SettingAligned
<1>4. PICK l \in Nat : l = Len(E) /\ E \in Seq(Event)  BY <1>3 DEF Aligned
<1>5. PICK j \in 1..l : c.t = S[j].total /\ C[j - 1] <= c.off /\ c.off < C[j]
  BY <1>4 DEF Taken
<1>6. E[k].off = C[k - 1]
  <2>1. WellPlaced(E, k)  BY <1>1 DEF Whole, Ordered
  <2> QED  BY <2>1 DEF WellPlaced, IsData
<1>7. k \in 1..l /\ C[k] = C[k - 1] + E[k].len  BY <1>3, <1>4 DEF Aligned
<1>8. C \in [0..l -> Nat]  BY <1>3, <1>4 DEF Aligned
<1>9. j - 1 \in 0..l /\ j \in 0..l /\ k - 1 \in 0..l /\ k \in 0..l  BY <1>4, <1>7
<1>10. C[j - 1] \in Nat /\ C[j] \in Nat /\ C[k - 1] \in Nat /\ C[k] \in Nat  BY <1>8, <1>9
<1>11. C[k - 1] <= c.off /\ c.off < C[k]  BY <1>6, <1>7
<1>12. ~(j < k)
  <2> SUFFICES ASSUME j < k PROVE FALSE  OBVIOUS
  <2>1. j <= k - 1  BY <1>7
  <2>2. C[j] <= C[k - 1]  BY <1>4, <1>9, <2>1, SumsGrow
  <2> HIDE DEF C
  <2> QED  BY <1>5, <1>10, <1>11, <2>2
<1>13. ~(k < j)
  <2> SUFFICES ASSUME k < j PROVE FALSE  OBVIOUS
  <2>1. k <= j - 1  BY <1>7
  <2>2. C[k] <= C[j - 1]  BY <1>4, <1>9, <2>1, SumsGrow
  <2> HIDE DEF C
  <2> QED  BY <1>5, <1>10, <1>11, <2>2
<1>14. j = k  BY <1>7, <1>12, <1>13
<1>15. S[k].total * m.den >= E[k].at * m.num /\ (m = RecordedMode => S[k].total = E[k].at)
  BY <1>2 DEF Paced
<1> QED  BY <1>5, <1>14, <1>15

\* The chunks of a reply, as it is sent and when it is over.
ReplyOK(m, st, p) ==
    /\ p \in Play /\ OutOK(m, st, p)
    /\ Len(p.out) > 0 => ~BuildSchedule(m, st.events).bad
    /\ m = RecordedMode => p.end # "500"

(* A reply keeps the cadence of the events its chunks are of.               *)
LEMMA ReplyCadence ==
  ASSUME StreamInv, phase \in {"serving", "served"}, ReplyOK(mode, stored, play)
  PROVE  CadenceKept /\ RecordedTimingServes
<1>1. RecordedTimingServes  BY DEF ReplyOK, RecordedTimingServes
<1>2. Setting(mode, stored, file)  BY LoadedSetting DEF StreamInv, Replaying
<1>3. play.out \in Seq(Sample)  BY DEF ReplyOK, Play
<1> SUFFICES ASSUME NEW i \in DOMAIN play.out, NEW k \in DOMAIN stored.events,
                    IsData(stored.events[k]), stored.events[k].off <= play.out[i].off,
                    play.out[i].off < stored.events[k].off + stored.events[k].len
             PROVE  /\ play.out[i].t * mode.den >= stored.events[k].at * mode.num
                    /\ mode = RecordedMode => play.out[i].t = stored.events[k].at
  BY <1>1 DEF CadenceKept, Range
<1>4. i \in 1..Len(play.out) /\ Len(play.out) \in Nat  BY <1>3
<1>5. Len(play.out) > 0  BY <1>4
<1>6. ~BuildSchedule(mode, stored.events).bad  BY <1>5 DEF ReplyOK
<1>7. stored.timed
  <2> SUFFICES ASSUME ~stored.timed PROVE FALSE  OBVIOUS
  <2>1. stored.events = << >>  BY DEF ReplyOK, OutOK
  <2> QED  BY <2>1
<1>8. Aligned(mode, stored)  BY <1>2, <1>7, SettingAligned
<1>9. k \in 1..Len(stored.events)
  <2>1. stored.events \in Seq(Event)  BY <1>8 DEF Aligned
  <2> QED  BY <2>1
<1>10. Taken(mode, stored.events, play.out[i], Len(stored.events))  BY <1>4, <1>7 DEF ReplyOK, OutOK
<1>11. play.out[i].off \in Nat
  <2>1. play.out[i] \in Sample  BY <1>3
  <2> QED  BY <2>1 DEF Sample
<1> QED  BY <1>2, <1>6, <1>7, <1>9, <1>10, <1>11, ChunkInTime

(* The cadence is kept in each phase of a replay.                           *)
LEMMA StreamCadence ==
  ASSUME StreamInv
  PROVE  CadenceReproduced
<1>1. CASE phase = "serving"
  <2>1. Polled(mode, stored, file, play)  BY <1>1 DEF StreamInv, PlayInv, Serving
  <2>2. Setting(mode, stored, file)  BY <1>1, LoadedSetting DEF StreamInv, Replaying
  <2>3. OutOK(mode, stored, play)  BY <2>1, <2>2, PolledOut
  <2>4. ReplyOK(mode, stored, play)  BY <2>1, <2>3 DEF Polled, ReplyOK
  <2>5. CadenceKept /\ RecordedTimingServes  BY <1>1, <2>4, ReplyCadence
  <2>6. ReplayObservedAsRecorded  BY <1>1 DEF ReplayObservedAsRecorded
  <2> QED  BY <2>5, <2>6 DEF CadenceReproduced
<1>2. CASE phase = "served"
  <2>1. Served(mode, stored, file, play)  BY <1>2 DEF StreamInv, PlayInv
  <2>2. Setting(mode, stored, file)  BY <1>2, LoadedSetting DEF StreamInv, Replaying
  <2>3. ReplyOK(mode, stored, play)  BY <2>1 DEF Served, ReplyOK, OutOK
  <2>4. CadenceKept /\ RecordedTimingServes  BY <1>2, <2>3, ReplyCadence
  <2>5. ReplayObservedAsRecorded
    <3> SUFFICES ASSUME play.end = "clean", stored.body > 0, stored.timed,
                        \A e \in Range(stored.events) : e.len <= Chunk, Observe(play).ok
                 PROVE  SameShape(stored.events, Observe(play).events)
      BY DEF ReplayObservedAsRecorded
    <3> DEFINE E == stored.events
               tr == stored.trailers
    <3>1. Whole(E, tr) /\ tr \in BOOLEAN /\ Len(E) <= Cap  BY <2>2 DEF Setting, Timeline
    <3>2. E \in Seq(Event)  BY <3>1 DEF Whole, Ordered
    <3>3. Fits(E)
      <4>1. DOMAIN E = 1..Len(E)  BY <3>2
      <4>2. \A i \in DOMAIN E : E[i].len <= Chunk  BY DEF Range
      <4> QED  BY <4>1, <4>2 DEF Fits
    <3>4. play.trailers = tr /\ E[Len(E)].kind = "end" /\ Exact(E, play.out, Len(E) - Ends(tr))
          /\ play \in Play
      BY <2>1, <3>3 DEF Served
    <3> HIDE DEF E, tr
    <3>5. SameShape(E, Observe(play).events)  BY <3>1, <3>4, ObservedSame
    <3> QED  BY <3>5 DEF E
  <2> QED  BY <2>4, <2>5 DEF CadenceReproduced
<1>3. CASE phase \notin {"serving", "served"}
  <2>1. play = NoPlay  BY <1>3 DEF StreamInv, FixtureInv
  <2>2. NoPlay.end = "none" /\ NoPlay.out = << >>  BY DEF NoPlay
  <2>3. Range(play.out) = {}  BY <2>1, <2>2 DEF Range
  <2>4. CadenceKept  BY <2>3 DEF CadenceKept
  <2>5. RecordedTimingServes /\ ReplayObservedAsRecorded
    BY <1>3, <2>1, <2>2 DEF RecordedTimingServes, ReplayObservedAsRecorded
  <2> QED  BY <2>4, <2>5 DEF CadenceReproduced
<1> QED  BY <1>1, <1>2, <1>3

(* A replay takes each delay when its event's bytes begin, rounded up, and  *)
(* reads no further than the event, so a client sees the recorded list.     *)
THEOREM CadencesReproduced == Spec => []CadenceReproduced
<1>1. StreamInv => CadenceReproduced  BY StreamCadence
<1> QED  BY <1>1, StreamAlways, PTL
=============================================================================
