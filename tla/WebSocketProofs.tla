-------------------------- MODULE WebSocketProofs --------------------------
(***************************************************************************)
(* Proofs about the WebSocket relay and the transcript it keeps, for any   *)
(* endpoints, any messages and any limits.                                 *)
(***************************************************************************)
EXTENDS WebSocketReplay, FiniteSetTheorems, SequenceTheorems, WellFoundedInduction, TLAPS

-----------------------------------------------------------------------------
(* Induction over the naturals, in terms of a set.                          *)
LEMMA LoopInduction ==
  ASSUME NEW S \in SUBSET Nat, 0 \in S, \A n \in S : n + 1 \in S
  PROVE  S = Nat
<1> DEFINE T == Nat \ S
           R == {ss \in Nat \X Nat : ss[1] < ss[2]}
<1> SUFFICES ASSUME T # {} PROVE FALSE  OBVIOUS
<1>1. IsWellFoundedOn(R, Nat)  BY NatLessThanWellFounded DEF OpToRel
<1> HIDE DEF R
<1>2. PICK x \in T : \A y \in T : ~(<<y, x>> \in R)  BY <1>1, WFMin
<1>3. \A y \in T : ~(y < x)  BY <1>2 DEF R
<1>4. x - 1 \in Nat /\ x - 1 < x  OBVIOUS
<1>5. x - 1 \in S  BY <1>3, <1>4
<1> QED  BY <1>4, <1>5

-----------------------------------------------------------------------------
(* Sequences end to end.                                                    *)

\* The partial results of joining the first n parts.
Upto(g, parts) == g = [n \in 0..Len(parts) |-> IF n = 0 THEN <<>> ELSE g[n - 1] \o parts[n]]

(* There are such partial results, and they are sequences.                  *)
LEMMA UptoExists ==
  ASSUME NEW T, NEW parts \in Seq(Seq(T))
  PROVE  \E g \in [0..Len(parts) -> Seq(T)] : Upto(g, parts)
<1> DEFINE L == Len(parts)
           Runs(g, m) == g = [n \in 0..m |-> IF n = 0 THEN <<>> ELSE g[n - 1] \o parts[n]]
           Ran(m) == \E g \in [0..m -> Seq(T)] : Runs(g, m)
           S == {m \in Nat : m <= L => Ran(m)}
<1>0. L \in Nat  OBVIOUS
<1>1. 0 \in S
  <2> DEFINE g == [n \in 0..0 |-> <<>>]
  <2>1. g \in [0..0 -> Seq(T)]  OBVIOUS
  <2>2. Runs(g, 0)  OBVIOUS
  <2> HIDE DEF g
  <2> QED  BY <2>1, <2>2
<1>2. ASSUME NEW m \in S PROVE m + 1 \in S
  <2> SUFFICES ASSUME m + 1 <= L PROVE Ran(m + 1)
    <3> HIDE DEF Ran
    <3> QED  BY <1>0
  <2>0. Ran(m)
    <3> HIDE DEF Ran
    <3> QED  BY <1>0
  <2>1. PICK g \in [0..m -> Seq(T)] : Runs(g, m)  BY <2>0
  <2> DEFINE last == g[m] \o parts[m + 1]
             w == [n \in 0..(m + 1) |-> IF n = m + 1 THEN last ELSE g[n]]
  <2>2. g[m] \in Seq(T) /\ parts[m + 1] \in Seq(T)  BY <2>1
  <2>3. last \in Seq(T)  BY <2>2
  <2> HIDE DEF last
  <2>4. w \in [0..(m + 1) -> Seq(T)]
    <3>1. \A n \in 0..(m + 1) : n # m + 1 => n \in 0..m  BY <1>0
    <3> QED  BY <2>1, <2>3, <3>1
  <2>5. ASSUME NEW n \in 0..(m + 1)
        PROVE  w[n] = IF n = 0 THEN <<>> ELSE w[n - 1] \o parts[n]
    <3>1. CASE n = m + 1
      <4>1. w[n] = last /\ n # 0 /\ n - 1 = m /\ w[n - 1] = g[m]  BY <3>1
      <4> QED  BY <3>1, <4>1 DEF last
    <3>2. CASE n # m + 1
      <4>1. n \in 0..m /\ w[n] = g[n]  BY <3>2
      <4>2. g[n] = IF n = 0 THEN <<>> ELSE g[n - 1] \o parts[n]  BY <2>1, <4>1
      <4>3. n # 0 => w[n - 1] = g[n - 1]  BY <4>1
      <4> QED  BY <4>1, <4>2, <4>3
    <3> QED  BY <3>1, <3>2
  <2>6. w = [n \in 0..(m + 1) |-> w[n]]  OBVIOUS
  <2> HIDE DEF w
  <2>7. Runs(w, m + 1)  BY <2>5, <2>6
  <2> QED  BY <2>4, <2>7
<1>3. S = Nat
  <2> HIDE DEF S
  <2>1. S \in SUBSET Nat  BY DEF S
  <2> QED  BY <1>1, <1>2, <2>1, LoopInduction
<1>4. Ran(L)
  <2> HIDE DEF Ran
  <2> QED  BY <1>0, <1>3
<1> QED  BY <1>4 DEF Upto

(* What Joined returns is the last of the partial results.                  *)
LEMMA JoinedRun ==
  ASSUME NEW T, NEW parts \in Seq(Seq(T))
  PROVE  \E g \in [0..Len(parts) -> Seq(T)] : Upto(g, parts) /\ Joined(parts) = g[Len(parts)]
<1> DEFINE c == CHOOSE g : Upto(g, parts)
<1>1. PICK g \in [0..Len(parts) -> Seq(T)] : Upto(g, parts)  BY UptoExists
<1>2. Upto(c, parts)  BY <1>1
<1>3. Joined(parts) = c[Len(parts)]  BY DEF Joined, Upto
<1> HIDE DEF c
<1>4. ASSUME NEW f, Upto(f, parts) PROVE f = g
  <2> DEFINE L == Len(parts)
             S == {n \in Nat : n <= L => f[n] = g[n]}
  <2>1. /\ f = [n \in 0..L |-> IF n = 0 THEN <<>> ELSE f[n - 1] \o parts[n]]
        /\ g = [n \in 0..L |-> IF n = 0 THEN <<>> ELSE g[n - 1] \o parts[n]]
    BY <1>1, <1>4 DEF Upto
  <2>2. L \in Nat  OBVIOUS
  <2>3. 0 \in S
    <3>1. f[0] = <<>> /\ g[0] = <<>>  BY <2>1, <2>2
    <3> QED  BY <3>1
  <2>4. ASSUME NEW n \in S PROVE n + 1 \in S
    <3> SUFFICES ASSUME n + 1 <= L PROVE f[n + 1] = g[n + 1]  OBVIOUS
    <3>1. n + 1 \in 0..L /\ n + 1 # 0 /\ (n + 1) - 1 = n /\ f[n] = g[n]  BY <2>2
    <3>2. f[n + 1] = f[n] \o parts[n + 1] /\ g[n + 1] = g[n] \o parts[n + 1]  BY <2>1, <3>1
    <3> QED  BY <3>1, <3>2
  <2>5. S = Nat
    <3> HIDE DEF S
    <3>1. S \in SUBSET Nat  BY DEF S
    <3> QED  BY <2>3, <2>4, <3>1, LoopInduction
  <2>6. \A n \in 0..L : f[n] = g[n]  BY <2>2, <2>5
  <2>7. f = [n \in 0..L |-> f[n]] /\ g = [n \in 0..L |-> g[n]]
    <3>1. DOMAIN f = 0..L  BY <2>1
    <3>2. f = [n \in DOMAIN f |-> f[n]]
      <4> DEFINE F == [n \in 0..L |-> IF n = 0 THEN <<>> ELSE f[n - 1] \o parts[n]]
      <4>1. f = F  BY <2>1
      <4>2. F = [n \in DOMAIN F |-> F[n]]  OBVIOUS
      <4> HIDE DEF F
      <4> QED  BY <4>1, <4>2
    <3> QED  BY <1>1, <3>1, <3>2
  <2> QED  BY <2>6, <2>7
<1>5. c = g  BY <1>2, <1>4
<1> QED  BY <1>1, <1>3, <1>5

(* One more part is added at the end.                                       *)
LEMMA JoinedAppend ==
  ASSUME NEW T, NEW parts \in Seq(Seq(T)), NEW x \in Seq(T)
  PROVE  Joined(Append(parts, x)) = Joined(parts) \o x
<1> DEFINE L == Len(parts)
           more == Append(parts, x)
<1>1. more \in Seq(Seq(T)) /\ Len(more) = L + 1 /\ L \in Nat /\ more[L + 1] = x
      /\ \A n \in 1..L : more[n] = parts[n]
  OBVIOUS
<1> HIDE DEF more
<1>2. PICK g \in [0..L -> Seq(T)] : Upto(g, parts) /\ Joined(parts) = g[L]  BY JoinedRun
<1>3. PICK f \in [0..(L + 1) -> Seq(T)] : Upto(f, more) /\ Joined(more) = f[L + 1]  BY <1>1, JoinedRun
<1>4. \A n \in 0..(L + 1) : f[n] = IF n = 0 THEN <<>> ELSE f[n - 1] \o more[n]
  BY <1>1, <1>3 DEF Upto
<1>5. \A n \in 0..L : g[n] = IF n = 0 THEN <<>> ELSE g[n - 1] \o parts[n]
  BY <1>2 DEF Upto
<1> DEFINE S == {n \in Nat : n <= L => f[n] = g[n]}
<1>6. 0 \in S
  <2>0. 0 \in 0..L /\ 0 \in 0..(L + 1)  BY <1>1
  <2>1. f[0] = <<>> /\ g[0] = <<>>  BY <1>4, <1>5, <2>0
  <2> QED  BY <2>1
<1>7. ASSUME NEW n \in S PROVE n + 1 \in S
  <2> SUFFICES ASSUME n + 1 <= L PROVE f[n + 1] = g[n + 1]  OBVIOUS
  <2>1. n + 1 \in 0..L /\ n + 1 \in 0..(L + 1) /\ n + 1 \in 1..L /\ (n + 1) - 1 = n /\ f[n] = g[n]  BY <1>1
  <2> DEFINE k == n + 1
  <2>2. k \in 0..L /\ k \in 0..(L + 1) /\ k # 0 /\ k - 1 = n  BY <2>1
  <2> HIDE DEF k
  <2>3. f[k] = f[k - 1] \o more[k] /\ g[k] = g[k - 1] \o parts[k]  BY <1>4, <1>5, <2>2
  <2>4. f[n + 1] = f[n] \o more[n + 1] /\ g[n + 1] = g[n] \o parts[n + 1]  BY <2>2, <2>3 DEF k
  <2> QED  BY <1>1, <2>1, <2>4
<1>8. S = Nat
  <2> HIDE DEF S
  <2>1. S \in SUBSET Nat  BY DEF S
  <2> QED  BY <1>6, <1>7, <2>1, LoopInduction
<1>9. f[L] = g[L]  BY SMTT(60), <1>1, <1>8
<1>10. f[L + 1] = f[L] \o x
  <2>1. L + 1 \in 0..(L + 1) /\ L + 1 # 0 /\ (L + 1) - 1 = L  BY <1>1
  <2> QED  BY <1>1, <1>4, <2>1
<1> QED  BY <1>2, <1>3, <1>9, <1>10 DEF more

(* Nothing joined is nothing.                                               *)
LEMMA JoinedEmpty == Joined(<<>>) = <<>>
<1>1. <<>> \in Seq(Seq({})) /\ Len(<<>>) = 0  OBVIOUS
<1>2. PICK g \in [0..0 -> Seq({})] : Upto(g, <<>>) /\ Joined(<<>>) = g[0]  BY <1>1, JoinedRun
<1>3. g[0] = <<>>  BY <1>1, <1>2 DEF Upto
<1> QED  BY <1>2, <1>3

(* Sequences over a set join to one over that set.                          *)
LEMMA JoinedType ==
  ASSUME NEW T, NEW parts \in Seq(Seq(T))
  PROVE  Joined(parts) \in Seq(T)
BY SMTT(60), JoinedRun

-----------------------------------------------------------------------------
(* Counting the positions of a sequence that hold a value of a set.         *)

Hits(s, X) == {i \in DOMAIN s : s[i] \in X}

(* Positions are finitely many.                                             *)
LEMMA HitsFinite ==
  ASSUME NEW T, NEW s \in Seq(T), NEW X
  PROVE  IsFiniteSet(Hits(s, X)) /\ Cardinality(Hits(s, X)) \in Nat
<1>1. DOMAIN s = 1..Len(s) /\ Len(s) \in Nat  OBVIOUS
<1>2. IsFiniteSet(1..Len(s))  BY <1>1, FS_Interval
<1>3. Hits(s, X) \in SUBSET (1..Len(s))  BY <1>1 DEF Hits
<1>4. IsFiniteSet(Hits(s, X))  BY <1>2, <1>3, FS_Subset
<1> QED  BY <1>4, FS_CardinalityType

(* The empty sequence has none.                                             *)
LEMMA HitsEmpty == ASSUME NEW X PROVE Cardinality(Hits(<<>>, X)) = 0
<1>1. Hits(<<>>, X) = {}  BY DEF Hits
<1> QED  BY <1>1, FS_EmptySet

(* A further value counts when it is in the set.                            *)
LEMMA HitsAppend ==
  ASSUME NEW T, NEW s \in Seq(T), NEW x, NEW X
  PROVE  Cardinality(Hits(Append(s, x), X)) = Cardinality(Hits(s, X)) + (IF x \in X THEN 1 ELSE 0)
<1> DEFINE L == Len(s)
           t == Append(s, x)
<1>1. L \in Nat /\ DOMAIN s = 1..L  OBVIOUS
<1>2. s \in Seq(T \cup {x})  OBVIOUS
<1>3. DOMAIN t = 1..(L + 1) /\ t[L + 1] = x /\ \A i \in 1..L : t[i] = s[i]  BY <1>2
<1> HIDE DEF t
<1>4. IsFiniteSet(Hits(s, X)) /\ Cardinality(Hits(s, X)) \in Nat  BY HitsFinite
<1>5. CASE x \in X
  <2>1. Hits(t, X) = Hits(s, X) \cup {L + 1}  BY <1>1, <1>3, <1>5 DEF Hits
  <2>2. L + 1 \notin Hits(s, X)  BY <1>1 DEF Hits
  <2>3. Cardinality(Hits(t, X)) = Cardinality(Hits(s, X)) + 1  BY <1>4, <2>1, <2>2, FS_AddElement
  <2> QED  BY <1>5, <2>3 DEF t
<1>6. CASE x \notin X
  <2>1. Hits(t, X) = Hits(s, X)  BY <1>1, <1>3, <1>6 DEF Hits
  <2> QED  BY <1>4, <1>6, <2>1 DEF t
<1> QED  BY <1>5, <1>6

(* One value less counts one less when it was in the set.                   *)
LEMMA HitsRemove ==
  ASSUME NEW T, NEW s \in Seq(T), NEW i \in 1..Len(s), NEW X
  PROVE  /\ RemoveAt(s, i) \in Seq(T)
         /\ Cardinality(Hits(RemoveAt(s, i), X)) =
              Cardinality(Hits(s, X)) - (IF s[i] \in X THEN 1 ELSE 0)
<1> DEFINE L == Len(s)
           a == SubSeq(s, 1, i - 1)
           b == SubSeq(s, i + 1, L)
           t == a \o b
<1>1. L \in Nat /\ DOMAIN s = 1..L /\ i \in Nat /\ i \in 1..L  OBVIOUS
<1>2. a \in Seq(T) /\ Len(a) = i - 1 /\ \A j \in 1..(i - 1) : a[j] = s[j]  BY <1>1
<1>3. b \in Seq(T) /\ Len(b) = L - i /\ \A j \in 1..(L - i) : b[j] = s[i + j]
  <2>1. \A j \in (i + 1)..L : s[j] \in T  BY <1>1
  <2>2. /\ b \in Seq(T) /\ Len(b) = IF i + 1 <= L THEN L - (i + 1) + 1 ELSE 0
        /\ \A j \in 1..(L - (i + 1) + 1) : b[j] = s[(i + 1) + j - 1]
    BY <1>1, <2>1, SubSeqProperties
  <2> HIDE DEF b
  <2>3. Len(b) = L - i
    <3>1. Len(b) = IF i + 1 <= L THEN L - (i + 1) + 1 ELSE 0  BY <2>2
    <3> HIDE DEF L
    <3>2. i \in Nat /\ L \in Nat /\ i <= L  BY <1>1
    <3> QED  BY <3>1, <3>2
  <2>4. ASSUME NEW j \in 1..(L - i) PROVE b[j] = s[i + j]
    <3>1. j \in 1..(L - (i + 1) + 1) /\ (i + 1) + j - 1 = i + j  BY <1>1
    <3> QED  BY <2>2, <3>1
  <2> QED  BY <2>2, <2>3, <2>4
<1> HIDE DEF a, b
<1>4. t \in Seq(T) /\ DOMAIN t = 1..(L - 1)
      /\ \A j \in 1..(L - 1) : t[j] = IF j < i THEN s[j] ELSE s[j + 1]
  <2>1. t \in Seq(T) /\ Len(t) = L - 1
    <3>1. a \in Seq(T) /\ b \in Seq(T) /\ Len(a) = i - 1 /\ Len(b) = L - i  BY <1>2, <1>3
    <3>2. t \in Seq(T) /\ Len(t) = Len(a) + Len(b)  BY SMTT(60), <3>1
    <3>3. i \in Nat /\ L \in Nat /\ i <= L  BY <1>1
    <3> HIDE DEF t, L
    <3> QED  BY <3>1, <3>2, <3>3
  <2>2. ASSUME NEW j \in 1..(L - 1) PROVE t[j] = IF j < i THEN s[j] ELSE s[j + 1]
    <3>1. CASE j < i
      <4>1. j \in 1..Len(a) /\ j \in 1..(i - 1)  BY <1>1, <1>2, <3>1
      <4>2. t[j] = a[j]  BY <1>2, <1>3, <4>1
      <4> QED  BY <1>2, <3>1, <4>1, <4>2
    <3>2. CASE ~(j < i)
      <4> DEFINE k == j - (i - 1)
      <4>1. k \in 1..(L - i) /\ i + k = j + 1 /\ j = Len(a) + k /\ k \in 1..Len(b)  BY <1>1, <1>2, <1>3, <3>2
      <4> HIDE DEF k
      <4>2. t[j] = b[k]  BY <1>2, <1>3, <4>1
      <4> QED  BY <1>3, <3>2, <4>1, <4>2
    <3> QED  BY <3>1, <3>2
  <2> QED  BY <2>1, <2>2
<1> HIDE DEF t
<1>5. RemoveAt(s, i) = t  BY DEF RemoveAt, t, a, b
<1> DEFINE U == Hits(t, X)
           V == Hits(s, X) \ {i}
           f == [j \in U |-> IF j < i THEN j ELSE j + 1]
<1>6. \A j \in U : j \in 1..(L - 1) /\ t[j] \in X  BY <1>4 DEF Hits
<1>7. \A k \in V : k \in 1..L /\ k # i /\ s[k] \in X  BY <1>1 DEF Hits
<1>8. f \in [U -> V]
  <2>1. ASSUME NEW j \in U PROVE (IF j < i THEN j ELSE j + 1) \in V
    <3>1. CASE j < i  BY <1>1, <1>4, <1>6, <3>1 DEF Hits
    <3>2. CASE ~(j < i)
      <4>1. j + 1 \in 1..L /\ j + 1 # i /\ s[j + 1] \in X  BY <1>1, <1>4, <1>6, <3>2
      <4> QED  BY <1>1, <3>2, <4>1 DEF Hits
    <3> QED  BY <3>1, <3>2
  <2> HIDE DEF U, V
  <2> QED  BY <2>1
<1>9. ASSUME NEW j \in U, NEW k \in U, f[j] = f[k] PROVE j = k
  <2>1. j \in Nat /\ k \in Nat /\ f[j] = (IF j < i THEN j ELSE j + 1) /\ f[k] = (IF k < i THEN k ELSE k + 1)
    BY <1>1, <1>6
  <2>2. f[j] = f[k] /\ i \in Nat  BY <1>1, <1>9
  <2> HIDE DEF f, U, V, L
  <2>3. (IF j < i THEN j ELSE j + 1) = (IF k < i THEN k ELSE k + 1)  BY <2>1, <2>2
  <2> QED  BY <2>1, <2>2, <2>3
<1>10. ASSUME NEW k \in V PROVE \E j \in U : f[j] = k
  <2>1. k \in 1..L /\ k # i /\ s[k] \in X  BY <1>7
  <2>2. CASE k < i
    <3>1. k \in 1..(L - 1) /\ t[k] = s[k]  BY <1>1, <1>4, <2>1, <2>2
    <3>2. k \in U  BY <1>4, <2>1, <3>1 DEF Hits
    <3> QED  BY <2>2, <3>2
  <2>3. CASE ~(k < i)
    <3> DEFINE j == k - 1
    <3>1. j \in 1..(L - 1) /\ j + 1 = k /\ ~(j < i)  BY <1>1, <2>1, <2>3
    <3> HIDE DEF j
    <3>2. t[j] = s[k]  BY <1>4, <3>1
    <3>3. j \in U  BY <1>4, <2>1, <3>1, <3>2 DEF Hits
    <3> QED  BY <3>1, <3>3
  <2> QED  BY <2>2, <2>3
<1>11. f \in Bijection(U, V)
  <2> HIDE DEF f, U, V
  <2>1. f \in Injection(U, V)  BY <1>8, <1>9 DEF Injection, IsInjective
  <2>2. f \in Surjection(U, V)  BY <1>8, <1>10 DEF Surjection
  <2> QED  BY <2>1, <2>2 DEF Bijection
<1>12. Cardinality(V) = Cardinality(U)
  <2>1. IsFiniteSet(U)  BY <1>4, HitsFinite
  <2>2. ExistsBijection(U, V)  BY <1>11 DEF ExistsBijection
  <2> HIDE DEF U, V
  <2> QED  BY <2>1, <2>2, FS_Bijection
<1>13. IsFiniteSet(Hits(s, X)) /\ Cardinality(Hits(s, X)) \in Nat  BY HitsFinite
<1>14. (i \in Hits(s, X)) <=> (s[i] \in X)  BY <1>1 DEF Hits
<1>15. Cardinality(V) = IF i \in Hits(s, X) THEN Cardinality(Hits(s, X)) - 1 ELSE Cardinality(Hits(s, X))
  BY <1>13, FS_RemoveElement
<1> QED  BY <1>4, <1>5, <1>12, <1>13, <1>14, <1>15

(* The first occurrence is an occurrence.                                   *)
LEMMA FirstRemoved ==
  ASSUME NEW T, NEW s \in Seq(T), NEW e, Contains(s, e)
  PROVE  \E i \in 1..Len(s) : s[i] = e /\ RemoveFirst(s, e) = RemoveAt(s, i)
<1> DEFINE I == {i \in 1..Len(s) : s[i] = e}
           R == {ss \in Nat \X Nat : ss[1] < ss[2]}
<1>1. I # {} /\ I \subseteq Nat  BY DEF Contains
<1>2. IsWellFoundedOn(R, Nat)  BY NatLessThanWellFounded DEF OpToRel
<1> HIDE DEF R, I
<1>3. PICK x \in I : \A y \in I : ~(<<y, x>> \in R)  BY <1>1, <1>2, WFMin
<1>4. x \in I /\ \A y \in I : x <= y
  <2>1. x \in Nat /\ \A y \in I : y \in Nat  BY <1>1, <1>3
  <2>2. \A y \in I : ~(y < x)  BY <1>3, <2>1 DEF R
  <2> QED  BY <1>3, <2>1, <2>2
<1>5. Min(I) \in I  BY <1>4 DEF Min
<1>6. RemoveFirst(s, e) = RemoveAt(s, Min(I))
  <2>1. SelectInSeq(s, LAMBDA v : v = e) = Min(I)  BY <1>1 DEF SelectInSeq, I
  <2>2. \E i \in 1..Len(s) : s[i] = e  BY DEF Contains
  <2> QED  BY <2>1, <2>2 DEF RemoveFirst
<1> QED  BY <1>5, <1>6 DEF I

-----------------------------------------------------------------------------
(* What one more message adds to the books of the properties.               *)

(* Count is a number.                                                       *)
LEMMA CountNat == ASSUME NEW T, NEW s \in Seq(T), NEW k, NEW p PROVE Count(s, k, p) \in Nat
<1> DEFINE X == {x \in T : x.kind = k /\ x.payload = p}
<1>1. Count(s, k, p) = Cardinality(Hits(s, X))
  <2>1. {i \in DOMAIN s : s[i].kind = k /\ s[i].payload = p} = Hits(s, X)  BY DEF Hits
  <2> QED  BY <2>1 DEF Count
<1> QED  BY <1>1, HitsFinite

(* One more message counts when its kind and payload are asked for.         *)
LEMMA CountAppend ==
  ASSUME NEW T, NEW s \in Seq(T), NEW m, NEW k, NEW p
  PROVE  Count(Append(s, m), k, p) = Count(s, k, p) + (IF m.kind = k /\ m.payload = p THEN 1 ELSE 0)
<1> DEFINE X == {x \in T \cup {m} : x.kind = k /\ x.payload = p}
           t == Append(s, m)
<1>1. s \in Seq(T \cup {m})  OBVIOUS
<1>2. t \in Seq(T \cup {m})  BY <1>1
<1>3. {i \in DOMAIN s : s[i].kind = k /\ s[i].payload = p} = Hits(s, X)  BY <1>1 DEF Hits
<1> HIDE DEF t
<1>4. {i \in DOMAIN t : t[i].kind = k /\ t[i].payload = p} = Hits(t, X)  BY <1>2 DEF Hits
<1>5. Cardinality(Hits(t, X)) = Cardinality(Hits(s, X)) + (IF m \in X THEN 1 ELSE 0)
  BY HitsAppend DEF t
<1>6. m \in X <=> m.kind = k /\ m.payload = p  OBVIOUS
<1> QED  BY <1>3, <1>4, <1>5, <1>6 DEF Count, t

(* One more message counts when it is a close.                              *)
LEMMA ClosesAppend ==
  ASSUME NEW T, NEW s \in Seq(T), NEW m
  PROVE  Closes(Append(s, m)) = Closes(s) + (IF m.kind = "close" THEN 1 ELSE 0)
<1> DEFINE X == {x \in T \cup {m} : x.kind = "close"}
           t == Append(s, m)
<1>1. s \in Seq(T \cup {m})  OBVIOUS
<1>2. t \in Seq(T \cup {m})  BY <1>1
<1>3. {i \in DOMAIN s : s[i].kind = "close"} = Hits(s, X)  BY <1>1 DEF Hits
<1> HIDE DEF t
<1>4. {i \in DOMAIN t : t[i].kind = "close"} = Hits(t, X)  BY <1>2 DEF Hits
<1>5. Cardinality(Hits(t, X)) = Cardinality(Hits(s, X)) + (IF m \in X THEN 1 ELSE 0)
  BY HitsAppend DEF t
<1>6. m \in X <=> m.kind = "close"  OBVIOUS
<1> QED  BY <1>3, <1>4, <1>5, <1>6 DEF Closes, t

(* Said is a number.                                                        *)
LEMMA SaidNat == ASSUME NEW T, NEW ms \in Seq(T), NEW d, NEW k, NEW p PROVE Said(ms, d, k, p) \in Nat
<1> DEFINE X == {x \in T : x.dir = d /\ x.msg.kind = k /\ x.msg.payload = p}
<1>1. {i \in DOMAIN ms : ms[i].dir = d /\ ms[i].msg.kind = k /\ ms[i].msg.payload = p} = Hits(ms, X)
  BY DEF Hits
<1>2. Said(ms, d, k, p) = Cardinality(Hits(ms, X))  BY <1>1 DEF Said
<1> QED  BY <1>2, HitsFinite

(* One more entry counts when its side, kind and payload are asked for.     *)
LEMMA SaidAppend ==
  ASSUME NEW T, NEW ms \in Seq(T), NEW e, NEW d, NEW k, NEW p
  PROVE  Said(Append(ms, e), d, k, p) =
           Said(ms, d, k, p) + (IF e.dir = d /\ e.msg.kind = k /\ e.msg.payload = p THEN 1 ELSE 0)
<1> DEFINE X == {x \in T \cup {e} : x.dir = d /\ x.msg.kind = k /\ x.msg.payload = p}
           t == Append(ms, e)
<1>1. ms \in Seq(T \cup {e})  OBVIOUS
<1>2. t \in Seq(T \cup {e})  BY <1>1
<1>3. {i \in DOMAIN ms : ms[i].dir = d /\ ms[i].msg.kind = k /\ ms[i].msg.payload = p} = Hits(ms, X)
  BY <1>1 DEF Hits
<1> HIDE DEF t
<1>4. {i \in DOMAIN t : t[i].dir = d /\ t[i].msg.kind = k /\ t[i].msg.payload = p} = Hits(t, X)
  BY <1>2 DEF Hits
<1>5. Cardinality(Hits(t, X)) = Cardinality(Hits(ms, X)) + (IF e \in X THEN 1 ELSE 0)
  BY HitsAppend DEF t
<1>6. e \in X <=> e.dir = d /\ e.msg.kind = k /\ e.msg.payload = p  OBVIOUS
<1> QED  BY <1>3, <1>4, <1>5, <1>6 DEF Said, t

\* How often a payload is booked.
Times(s, p) == Cardinality(Hits(s, {p}))

(* A payload that is booked at all is found by contains.                    *)
LEMMA TimesContained ==
  ASSUME NEW T, NEW s \in Seq(T), NEW p, Times(s, p) # 0
  PROVE  Contains(s, p)
<1> SUFFICES ASSUME ~Contains(s, p) PROVE FALSE  OBVIOUS
<1>1. Hits(s, {p}) = {}  BY DEF Contains, Hits
<1> QED  BY <1>1, FS_EmptySet DEF Times

(* Data messages.                                                           *)
DataOf(m) == IF m.kind \in {"text", "binary"} THEN <<m>> ELSE <<>>

(* The data of a sequence, as parts joined.                                 *)
LEMMA DataIs ==
  ASSUME NEW T, NEW s \in Seq(T)
  PROVE  /\ [i \in DOMAIN s |-> DataOf(s[i])] \in Seq(Seq(T))
         /\ Data(s) = Joined([i \in DOMAIN s |-> DataOf(s[i])])
         /\ Data(s) \in Seq(T)
<1> DEFINE q == [i \in DOMAIN s |-> DataOf(s[i])]
<1>1. DOMAIN s = 1..Len(s) /\ Len(s) \in Nat  OBVIOUS
<1>2. \A x \in T : DataOf(x) \in Seq(T)  BY DEF DataOf
<1>3. q \in [1..Len(s) -> Seq(T)]  BY <1>1, <1>2
<1>4. q \in Seq(Seq(T))  BY <1>1, <1>3
<1>5. Data(s) = Joined(q)  BY DEF Data, DataOf
<1> HIDE DEF q
<1>6. Joined(q) \in Seq(T)  BY <1>4, JoinedType
<1> QED  BY <1>4, <1>5, <1>6 DEF q

(* One more message is appended to the data when it is data.                *)
LEMMA DataAppend ==
  ASSUME NEW T, NEW s \in Seq(T), NEW m
  PROVE  Data(Append(s, m)) = Data(s) \o DataOf(m)
<1> DEFINE U == T \cup {m}
           t == Append(s, m)
           q == [i \in DOMAIN s |-> DataOf(s[i])]
           r == [i \in DOMAIN t |-> DataOf(t[i])]
<1>1. s \in Seq(U)  OBVIOUS
<1>2. /\ t \in Seq(U) /\ DOMAIN s = 1..Len(s) /\ DOMAIN t = 1..(Len(s) + 1) /\ Len(s) \in Nat
      /\ t[Len(s) + 1] = m /\ \A i \in 1..Len(s) : t[i] = s[i]
  BY <1>1
<1> HIDE DEF t, U
<1>3. q \in Seq(Seq(U)) /\ Data(s) = Joined(q)  BY <1>1, DataIs
<1>4. r \in Seq(Seq(U)) /\ Data(t) = Joined(r)  BY <1>2, DataIs
<1>5. DataOf(m) \in Seq(U)
  <2>1. m \in U  BY DEF U
  <2> HIDE DEF U
  <2> QED  BY <2>1 DEF DataOf
<1>6. r = Append(q, DataOf(m))
  <2> DEFINE w == Append(q, DataOf(m))
             L == Len(s)
  <2>1. q \in Seq(Seq(U)) /\ DOMAIN q = 1..L /\ Len(q) = L  BY <1>2, <1>3
  <2>2. \A i \in 1..L : q[i] = DataOf(s[i])  BY <1>2
  <2>3. DOMAIN r = 1..(L + 1) /\ \A i \in 1..(L + 1) : r[i] = DataOf(t[i])  BY <1>2
  <2> HIDE DEF q, r, L
  <2>4. w \in Seq(Seq(U)) /\ Len(w) = L + 1 /\ w[L + 1] = DataOf(m) /\ \A i \in 1..L : w[i] = q[i]
    BY <1>5, <2>1
  <2> HIDE DEF w
  <2>5. L \in Nat /\ r \in Seq(Seq(U)) /\ Len(r) = L + 1  BY <1>2, <1>4, <2>3 DEF L
  <2>6. \A i \in 1..(L + 1) : r[i] = w[i]
    <3>1. r[L + 1] = w[L + 1]  BY <1>2, <2>3, <2>4, <2>5 DEF L
    <3>2. ASSUME NEW i \in 1..L PROVE r[i] = w[i]
      <4>1. i \in 1..(L + 1)  BY <2>5
      <4>2. r[i] = DataOf(t[i]) /\ w[i] = q[i] /\ q[i] = DataOf(s[i])  BY <2>2, <2>3, <2>4, <4>1
      <4>3. t[i] = s[i]  BY <1>2 DEF L
      <4> QED  BY <4>2, <4>3
    <3> QED  BY <2>5, <3>1, <3>2
  <2>7. r = w  BY <2>4, <2>5, <2>6, SeqEqual
  <2> QED  BY <2>7 DEF w
<1>7. Joined(r) = Joined(q) \o DataOf(m)
  <2> HIDE DEF q, r
  <2> QED  BY <1>3, <1>5, <1>6, JoinedAppend
<1> QED  BY <1>3, <1>4, <1>7 DEF t

(* No messages, no data.                                                    *)
LEMMA DataEmpty == Data(<<>>) = <<>>
<1>1. [i \in DOMAIN <<>> |-> IF <<>>[i].kind \in {"text", "binary"} THEN << <<>>[i] >> ELSE <<>>] = <<>>
  OBVIOUS
<1> QED  BY <1>1, JoinedEmpty DEF Data

(* The entries of a direction.                                              *)
EntryOf(e, d) == IF e.dir = d THEN <<e.msg>> ELSE <<>>
EntriesOf(ms, d) == Joined([i \in DOMAIN ms |-> EntryOf(ms[i], d)])

(* The entries of a side are kept messages.                                 *)
LEMMA EntriesIs ==
  ASSUME NEW T, NEW ms \in Seq(T), NEW d, NEW M, \A e \in T : e.msg \in M
  PROVE  /\ [i \in DOMAIN ms |-> EntryOf(ms[i], d)] \in Seq(Seq(M))
         /\ EntriesOf(ms, d) \in Seq(M)
<1> DEFINE q == [i \in DOMAIN ms |-> EntryOf(ms[i], d)]
<1>1. DOMAIN ms = 1..Len(ms) /\ Len(ms) \in Nat  OBVIOUS
<1>2. \A x \in T : EntryOf(x, d) \in Seq(M)  BY DEF EntryOf
<1>3. q \in [1..Len(ms) -> Seq(M)]  BY <1>1, <1>2
<1>4. q \in Seq(Seq(M))  BY <1>1, <1>3
<1> HIDE DEF q
<1>5. Joined(q) \in Seq(M)  BY <1>4, JoinedType
<1> QED  BY <1>4, <1>5 DEF q, EntriesOf

(* One more entry is appended to its own side's entries.                    *)
LEMMA EntriesAppend ==
  ASSUME NEW T, NEW ms \in Seq(T), NEW d, NEW M, NEW e \in T, \A x \in T : x.msg \in M
  PROVE  EntriesOf(Append(ms, e), d) = EntriesOf(ms, d) \o EntryOf(e, d)
<1> DEFINE t == Append(ms, e)
           L == Len(ms)
           q == [i \in DOMAIN ms |-> EntryOf(ms[i], d)]
           r == [i \in DOMAIN t |-> EntryOf(t[i], d)]
           w == Append(q, EntryOf(e, d))
<1>1. /\ t \in Seq(T) /\ DOMAIN ms = 1..L /\ DOMAIN t = 1..(L + 1) /\ L \in Nat
      /\ t[L + 1] = e /\ \A i \in 1..L : t[i] = ms[i]
  OBVIOUS
<1> HIDE DEF t
<1>2. q \in Seq(Seq(M)) /\ r \in Seq(Seq(M))
  <2>1. \A x \in T : x.msg \in M  OBVIOUS
  <2>2. q \in Seq(Seq(M))  BY <2>1, EntriesIs
  <2>3. t \in Seq(T)  BY <1>1
  <2>4. r \in Seq(Seq(M))  BY <2>1, <2>3, EntriesIs
  <2> QED  BY <2>2, <2>4
<1>3. EntryOf(e, d) \in Seq(M)  BY DEF EntryOf
<1>4. Len(q) = L /\ \A i \in 1..L : q[i] = EntryOf(ms[i], d)  BY <1>1, <1>2
<1>5. DOMAIN r = 1..(L + 1) /\ \A i \in 1..(L + 1) : r[i] = EntryOf(t[i], d)  BY <1>1
<1> HIDE DEF q, r, L
<1>6. w \in Seq(Seq(M)) /\ Len(w) = L + 1 /\ w[L + 1] = EntryOf(e, d) /\ \A i \in 1..L : w[i] = q[i]
  BY <1>2, <1>3, <1>4
<1> HIDE DEF w
<1>7. Len(r) = L + 1  BY <1>1, <1>2, <1>5
<1>8. \A i \in 1..(L + 1) : r[i] = w[i]
  <2>1. r[L + 1] = w[L + 1]  BY <1>1, <1>5, <1>6
  <2>2. \A i \in 1..L : r[i] = w[i]  BY <1>1, <1>4, <1>5, <1>6
  <2> QED  BY <1>1, <2>1, <2>2
<1>9. r = w  BY <1>2, <1>6, <1>7, <1>8, SeqEqual
<1>10. Joined(r) = Joined(q) \o EntryOf(e, d)  BY <1>2, <1>3, <1>9, JoinedAppend DEF w
<1> QED  BY <1>10 DEF EntriesOf, q, r, t

(* An empty transcript has no entries of either side.                       *)
LEMMA EntriesEmpty == ASSUME NEW d PROVE EntriesOf(<<>>, d) = <<>>
<1>1. [i \in DOMAIN <<>> |-> EntryOf(<<>>[i], d)] = <<>>  OBVIOUS
<1> QED  BY <1>1, JoinedEmpty DEF EntriesOf

-----------------------------------------------------------------------------
(* What one more entry does to a transcript.                                *)

\* The sides that closed in the first n entries.
ClosersIn(ms, n) == {ms[i].dir : i \in {j \in 1..n : ms[j].msg.kind = "close"}}

(* What the first n entries of a transcript are, and who closed in them.    *)
LEMMA Beginning ==
  ASSUME NEW T, NEW ms \in Seq(T), NEW n \in 0..Len(ms)
  PROVE  /\ SubSeq(ms, 1, n) \in Seq(T) /\ Len(SubSeq(ms, 1, n)) = n
         /\ \A i \in 1..n : SubSeq(ms, 1, n)[i] = ms[i]
         /\ Closers(SubSeq(ms, 1, n)) = ClosersIn(ms, n)
<1> DEFINE b == SubSeq(ms, 1, n)
<1>1. n \in Nat /\ n <= Len(ms) /\ \A i \in 1..n : ms[i] \in T  OBVIOUS
<1>2. b \in Seq(T) /\ Len(b) = n /\ \A i \in 1..n : b[i] = ms[i]  BY <1>1
<1> HIDE DEF b
<1>3. DOMAIN b = 1..n  BY <1>2
<1>4. Closers(b) = ClosersIn(ms, n)
  <2>1. {j \in DOMAIN b : CloseAt(b, j)} = {j \in 1..n : ms[j].msg.kind = "close"}
    BY <1>2, <1>3 DEF CloseAt
  <2>2. \A i \in 1..n : b[i].dir = ms[i].dir  BY <1>2
  <2> QED  BY <2>1, <2>2 DEF Closers, ClosersIn
<1> QED  BY <1>2, <1>4 DEF b

(* Who closed in a transcript closed in all of its entries.                 *)
LEMMA ClosersWhole ==
  ASSUME NEW T, NEW ms \in Seq(T)
  PROVE  Closers(ms) = ClosersIn(ms, Len(ms))
BY DEF Closers, ClosersIn, CloseAt

(* A longer transcript begins as the shorter one does.                      *)
LEMMA Extended ==
  ASSUME NEW T, NEW ms \in Seq(T), NEW e \in T
  PROVE  /\ Append(ms, e) \in Seq(T) /\ Len(Append(ms, e)) = Len(ms) + 1
         /\ Append(ms, e)[Len(ms) + 1] = e
         /\ \A i \in 1..Len(ms) : Append(ms, e)[i] = ms[i]
         /\ \A n \in 0..Len(ms) : SubSeq(Append(ms, e), 1, n) = SubSeq(ms, 1, n)
         /\ \A n \in 0..Len(ms) : ClosersIn(Append(ms, e), n) = ClosersIn(ms, n)
<1> DEFINE t == Append(ms, e)
           L == Len(ms)
<1>1. /\ t \in Seq(T) /\ Len(t) = L + 1 /\ L \in Nat /\ t[L + 1] = e
      /\ \A i \in 1..L : t[i] = ms[i]
  OBVIOUS
<1> HIDE DEF t
<1>2. ASSUME NEW n \in 0..L PROVE SubSeq(t, 1, n) = SubSeq(ms, 1, n)
  <2>1. n \in 0..Len(t)  BY <1>1
  <2>2. /\ SubSeq(t, 1, n) \in Seq(T) /\ Len(SubSeq(t, 1, n)) = n
        /\ \A i \in 1..n : SubSeq(t, 1, n)[i] = t[i]
    BY <1>1, <2>1, Beginning
  <2>3. /\ SubSeq(ms, 1, n) \in Seq(T) /\ Len(SubSeq(ms, 1, n)) = n
        /\ \A i \in 1..n : SubSeq(ms, 1, n)[i] = ms[i]
    BY Beginning
  <2>4. \A i \in 1..n : t[i] = ms[i]  BY <1>1
  <2> QED  BY <2>2, <2>3, <2>4, SeqEqual
<1>3. ASSUME NEW n \in 0..L PROVE ClosersIn(t, n) = ClosersIn(ms, n)
  <2>1. \A i \in 1..n : t[i] = ms[i]  BY <1>1
  <2> QED  BY <2>1 DEF ClosersIn
<1> QED  BY <1>1, <1>2, <1>3 DEF t

(* One more entry adds its side to those that closed when it is a close.    *)
LEMMA ClosersAppend ==
  ASSUME NEW T, NEW ms \in Seq(T), NEW e \in T
  PROVE  Closers(Append(ms, e)) = Closers(ms) \cup (IF e.msg.kind = "close" THEN {e.dir} ELSE {})
<1> DEFINE t == Append(ms, e)
           L == Len(ms)
<1>1. /\ t \in Seq(T) /\ Len(t) = L + 1 /\ L \in Nat /\ t[L + 1] = e
      /\ \A i \in 1..L : t[i] = ms[i]
  BY Extended
<1>2. Closers(t) = ClosersIn(t, L + 1) /\ Closers(ms) = ClosersIn(ms, L)
  BY <1>1, ClosersWhole
<1> HIDE DEF t, L
<1>3. ClosersIn(t, L + 1) = ClosersIn(ms, L) \cup (IF e.msg.kind = "close" THEN {e.dir} ELSE {})
  <2>1. \A i \in 1..(L + 1) : i \in 1..L \/ i = L + 1  BY <1>1
  <2>2. \A i \in 1..L : i \in 1..(L + 1)  BY <1>1
  <2>3. L + 1 \in 1..(L + 1)  BY <1>1
  <2> QED  BY <1>1, <2>1, <2>2, <2>3 DEF ClosersIn
<1> QED  BY <1>2, <1>3 DEF t

(* In an empty transcript nobody closed, and the store's validator accepts  *)
(* it.                                                                      *)
LEMMA ClosersEmpty == Closers(<<>>) = {} /\ (0 <= MaxMessages => ValidMessages(<<>>))
<1>1. DOMAIN <<>> = {} /\ Len(<<>>) = 0  OBVIOUS
<1> QED  BY <1>1 DEF Closers, ValidMessages

\* An entry a relay may add to a transcript.
Fits(ms, e) ==
    /\ e.seq = Len(ms) /\ Len(ms) < MaxMessages
    /\ Closers(ms) # Dirs /\ e.dir \notin Closers(ms)
    /\ e.msg.kind = "close" => e.msg.payload = Empty
    /\ e.msg.reason # None => e.msg.kind = "close" /\ e.msg.code # None
    /\ e.msg.red = "json" => e.msg.kind = "text"
    /\ e.msg.red = "reason" => e.msg.kind = "close"

(* WebSocketTranscript::validate accepts a transcript with a fitting entry  *)
(* added.                                                                   *)
LEMMA ValidAppend ==
  ASSUME NEW T, NEW ms \in Seq(T), NEW e \in T, ValidMessages(ms), Fits(ms, e)
  PROVE  ValidMessages(Append(ms, e))
<1> DEFINE t == Append(ms, e)
           L == Len(ms)
<1>1. /\ t \in Seq(T) /\ Len(t) = L + 1 /\ L \in Nat /\ t[L + 1] = e
      /\ \A i \in 1..L : t[i] = ms[i]
      /\ \A n \in 0..L : SubSeq(t, 1, n) = SubSeq(ms, 1, n)
  BY Extended
<1>2. SubSeq(ms, 1, L) = ms
  <2>1. L \in 0..Len(ms)  BY <1>1
  <2>2. SubSeq(ms, 1, L) \in Seq(T) /\ Len(SubSeq(ms, 1, L)) = L
        /\ \A i \in 1..L : SubSeq(ms, 1, L)[i] = ms[i]
    BY <2>1, Beginning
  <2> QED  BY <2>2, SeqEqual
<1>3. DOMAIN t = 1..(L + 1) /\ DOMAIN ms = 1..L  BY <1>1
<1> HIDE DEF t
<1>4. Len(t) <= MaxMessages  BY <1>1, RelayAssumption DEF Fits
<1>5. ASSUME NEW i \in 1..(L + 1)
      PROVE  LET before == SubSeq(t, 1, i - 1) IN
             /\ t[i].seq = i - 1
             /\ Closers(before) # Dirs
             /\ t[i].dir \notin Closers(before)
             /\ CloseAt(t, i) => t[i].msg.payload = Empty
             /\ t[i].msg.reason # None => CloseAt(t, i) /\ t[i].msg.code # None
             /\ t[i].msg.red = "json" => t[i].msg.kind = "text"
             /\ t[i].msg.red = "reason" => CloseAt(t, i)
  <2>1. CASE i = L + 1
    <3>1. i - 1 = L  BY <1>1, <2>1
    <3>2. SubSeq(t, 1, i - 1) = ms  BY <1>1, <1>2, <3>1
    <3>3. t[i] = e  BY <1>1, <2>1
    <3> QED  BY <3>1, <3>2, <3>3 DEF Fits, CloseAt
  <2>2. CASE i # L + 1
    <3>1. i \in 1..L /\ i - 1 \in 0..L  BY <1>1, <2>2
    <3>2. SubSeq(t, 1, i - 1) = SubSeq(ms, 1, i - 1) /\ t[i] = ms[i]  BY <1>1, <3>1
    <3> QED  BY <1>3, <3>1, <3>2 DEF ValidMessages, CloseAt
  <2> QED  BY <2>1, <2>2
<1> QED  BY <1>3, <1>4, <1>5 DEF ValidMessages, t

\* Answering, of a transcript.
AnsweringIn(ms, d, p) ==
    \A n \in 0..Len(ms) : Said(SubSeq(ms, 1, n), d, "pong", p) <= Said(SubSeq(ms, 1, n), Other(d), "ping", p)

(* A side that only answers did so in every earlier transcript.             *)
LEMMA AnsweringAppend ==
  ASSUME NEW T, NEW ms \in Seq(T), NEW e \in T, NEW d, NEW p, AnsweringIn(Append(ms, e), d, p)
  PROVE  /\ AnsweringIn(ms, d, p)
         /\ Said(Append(ms, e), d, "pong", p) <= Said(Append(ms, e), Other(d), "ping", p)
<1> DEFINE t == Append(ms, e)
           L == Len(ms)
<1>1. t \in Seq(T) /\ Len(t) = L + 1 /\ L \in Nat /\ \A n \in 0..L : SubSeq(t, 1, n) = SubSeq(ms, 1, n)
  BY Extended
<1> HIDE DEF t
<1>2. AnsweringIn(t, d, p)  BY DEF t
<1>3. \A n \in 0..L : n \in 0..Len(t)  BY <1>1
<1>4. AnsweringIn(ms, d, p)  BY <1>1, <1>2, <1>3 DEF AnsweringIn
<1>5. SubSeq(t, 1, Len(t)) = t
  <2>0. Len(t) \in 0..Len(t)  BY <1>1
  <2>1. SubSeq(t, 1, Len(t)) \in Seq(T) /\ Len(SubSeq(t, 1, Len(t))) = Len(t)
        /\ \A i \in 1..Len(t) : SubSeq(t, 1, Len(t))[i] = t[i]
    BY <1>1, <2>0, Beginning
  <2> QED  BY <1>1, <2>1, SeqEqual
<1>6. Len(t) \in 0..Len(t)  BY <1>1
<1>7. Said(t, d, "pong", p) <= Said(t, Other(d), "ping", p)  BY <1>2, <1>5, <1>6 DEF AnsweringIn
<1> QED  BY <1>4, <1>7 DEF t

-----------------------------------------------------------------------------
(* The inductive invariant.                                                 *)

Answers == {[m EXCEPT !.kind = "pong"] : m \in Messages}
Wires == Messages \cup Answers
Payloads == {m.payload : m \in Messages}
PingPayloads == {m.payload : m \in {x \in Messages : x.kind = "ping"}}
Awaits == {[dir |-> d, msg |-> m, kind |-> m.kind] : d \in Dirs, m \in Messages}
Keeps == [kind : Kinds, payload : Payloads \cup {Redacted, "json*"},
          code : {m.code : m \in Messages},
          reason : {m.reason : m \in Messages} \cup {None, Redacted},
          red : {"whole", "json", "reason", None}]
Entry == [seq : Nat, dir : Dirs, msg : Keeps]
Closed == {"byPeer", "done"}
Going == phase \in {"upgrade", "relay"}

RelayTypes ==
    /\ phase \in {"upgrade", "refused", "relay", "ended", "stored", "lost"}
    /\ status \in {0, 101, 400, 502, 504}
    /\ codec \in [Dirs -> {"active", "byPeer", "byUs", "done"}]
    /\ open \in [Dirs -> BOOLEAN] /\ closeSeen \in [Dirs -> BOOLEAN]
    /\ pingPongs \in [Dirs -> Seq(Payloads)]
    /\ raw \in [Dirs -> Seq(Messages)] /\ \A d \in Dirs : Len(raw[d]) <= MaxReads
    /\ recv \in [Dirs -> Seq(Wires)]
    /\ total \in Nat /\ total <= Len(raw["c2s"]) + Len(raw["s2c"])
    /\ messages \in Seq(Entry) /\ Len(messages) <= MaxMessages
    /\ pending # NoMessage => pending \in Awaits /\ phase = "relay"

\* A relay that goes on has no terminal; a clean one is the store's.
TerminalInv ==
    /\ Going => terminal.kind = None
    /\ \/ terminal.kind = None /\ phase # "ended"
       \/ \E c \in KnownCauses \cup {"storage-error", "capture-limit"} : terminal = Abnormal(c)
       \/ terminal.kind = "clean" /\ ValidTerminal(messages, terminal)

\* The transcript so far is one the store accepts, and close_seen is what it
\* says of the two sides.
TranscriptInv ==
    /\ ValidMessages(messages)
    /\ Going => Closers(messages) # Dirs
    /\ \A d \in Dirs : closeSeen[d] <=> d \in Closers(messages)

\* A codec that is no longer active accounts for every close, read or written.
CloseInv ==
    \A d \in Dirs :
        /\ closeSeen[d] => codec[d] \in Closed
        /\ Closes(raw[d]) = IF codec[d] \in Closed THEN 1 ELSE 0
        /\ Closes(recv[Other(d)]) = IF codec[d] = "active" THEN 0 ELSE 1

Kepts(s) == [i \in DOMAIN s |-> Kept(s[i])]
OnTheWay(d) == IF pending # NoMessage /\ pending.dir = d THEN DataOf(pending.msg) ELSE <<>>

\* While the relay goes on its transcript is complete, and what a receiver
\* lacks of the data is the message whose send is awaited.
OrderInv ==
    /\ RelayedInOrder
    /\ Going => \A d \in Dirs : /\ EntriesOf(messages, d) = Kepts(raw[d])
                                /\ Data(raw[d]) = Data(recv[d]) \o OnTheWay(d)

\* A ping payload is booked until the other side has said its pong.
PongInv ==
    \A d \in Dirs : \A p \in PingPayloads : AnsweringIn(messages, d, p) =>
        /\ Count(recv[d], "pong", p) <= Count(raw[Other(d)], "ping", p)
        /\ Going => Times(pingPongs[Other(d)], p) + Said(messages, d, "pong", p)
                      = Said(messages, Other(d), "ping", p)
        /\ pending # NoMessage /\ pending.dir = d /\ pending.msg.kind = "pong"
             => pending.msg.payload # p

ScriptInv ==
    /\ pos \in 1..(Len(messages) + 1)
    /\ result \in {None, "running", "done", "stopped", "diverged", "cancelled", "refused"}
    /\ phase # "stored" => role = None /\ pos = 1

RelayInv ==
    /\ RelayTypes
    /\ TerminalInv
    /\ TranscriptInv
    /\ CloseInv
    /\ OrderInv
    /\ PongInv
    /\ ScriptInv

(* There are two sides, each the other of the other.                        *)
LEMMA Sides ==
  /\ "c2s" \in Dirs /\ "s2c" \in Dirs
  /\ \A d \in Dirs : Other(d) \in Dirs /\ Other(Other(d)) = d /\ Other(d) # d
  /\ \A d, e \in Dirs : e = d \/ e = Other(d)
BY DEF Dirs, Other

(* The property's entries are those of the transcript.                      *)
LEMMA EntriesAre == ASSUME NEW d PROVE Entries(d) = EntriesOf(messages, d)
BY DEF Entries, EntriesOf, EntryOf

(* The property's Answering is that of the transcript.                      *)
LEMMA AnsweringIs == ASSUME NEW d, NEW p PROVE Answering(d, p) <=> AnsweringIn(messages, d, p)
BY DEF Answering, AnsweringIn

\* What the recorder keeps of a message.
LEMMA KeptIs ==
  ASSUME NEW m \in Messages
  PROVE  /\ Kept(m) \in Keeps
         /\ Kept(m).kind = m.kind /\ Kept(m).code = m.code
         /\ m.kind \in {"ping", "pong", "close"} => Kept(m).payload = m.payload
         /\ m.kind = "close" => m.payload = Empty
         /\ Kept(m).reason # None => m.kind = "close" /\ m.code # None
         /\ Kept(m).red = "json" => m.kind = "text"
         /\ Kept(m).red = "reason" => m.kind = "close"
<1>1. /\ m.kind \in Kinds /\ (m.kind = "close" => m.payload = Empty)
      /\ (m.reason # Empty => m.kind = "close" /\ m.code # None)
  BY RelayAssumption
<1>2. m.payload \in Payloads  BY DEF Payloads
<1>3. m.payload \in SecretJson => Mask(m.payload) = "json*"  BY DEF Mask
<1>4. m.kind \in {"ping", "pong", "close"} => m.kind # "text" /\ m.kind # "binary"  OBVIOUS
<1> DEFINE k == Kept(m)
<1>5. k = [kind |-> k.kind, payload |-> k.payload, code |-> k.code, reason |-> k.reason, red |-> k.red]
  BY DEF Kept
<1>6. k.kind = m.kind /\ k.code = m.code  BY DEF Kept
<1>7. k.payload \in Payloads \cup {Redacted, "json*"}  BY <1>2, <1>3 DEF Kept
<1>8. k.reason \in {m.reason, None, Redacted}  BY DEF Kept
<1>9. k.red \in {"whole", "json", "reason", None}  BY DEF Kept
<1>10. m.kind \in {"ping", "pong", "close"} => k.payload = m.payload  BY <1>4 DEF Kept
<1>11. k.reason # None => m.reason # Empty /\ m.kind = "close"  BY DEF Kept, None
<1>12. k.red = "json" => m.kind = "text"  BY DEF Kept, None
<1>13. k.red = "reason" => m.kind = "close"  BY DEF Kept, None
<1> HIDE DEF k
<1>14. k \in Keeps  BY <1>1, <1>5, <1>6, <1>7, <1>8, <1>9 DEF Keeps
<1> QED  BY <1>1, <1>6, <1>10, <1>11, <1>12, <1>13, <1>14 DEF k

-----------------------------------------------------------------------------
(* The invariant holds when the upgrade arrives.                            *)

(* Nothing has been read, sent or recorded.                                 *)
LEMMA StartsFaithful == Init => RelayInv
<1> SUFFICES ASSUME Init PROVE RelayInv  OBVIOUS
<1> USE DEF Init, RelayInit
<1>1. RelayTypes
  <2>1. MaxReads \in Nat /\ MaxMessages \in Nat  BY RelayAssumption
  <2> QED  BY <2>1 DEF RelayTypes, Dirs
<1>2. TerminalInv
  <2>1. terminal.kind = None  OBVIOUS
  <2> QED  BY <2>1 DEF TerminalInv
<1>3. TranscriptInv
  <2>1. 0 <= MaxMessages  BY RelayAssumption
  <2>2. Closers(messages) = {} /\ ValidMessages(messages)  BY <2>1, ClosersEmpty
  <2> QED  BY <2>2, Sides DEF TranscriptInv
<1>4. CloseInv
  <2>1. {i \in DOMAIN <<>> : <<>>[i].kind = "close"} = {}  OBVIOUS
  <2>2. Closes(<<>>) = 0  BY <2>1, FS_EmptySet DEF Closes
  <2> QED  BY <2>2, Sides DEF CloseInv, Closed
<1>5. OrderInv
  <2>1. ASSUME NEW d \in Dirs
        PROVE  /\ EntriesOf(messages, d) = <<>> /\ Kepts(raw[d]) = <<>>
               /\ Data(recv[d]) = <<>> /\ Data(raw[d]) = <<>> /\ OnTheWay(d) = <<>>
    <3>1. raw[d] = <<>> /\ recv[d] = <<>>  OBVIOUS
    <3>2. Kepts(<<>>) = <<>>  BY DEF Kepts
    <3> QED  BY <3>1, <3>2, EntriesEmpty, DataEmpty DEF OnTheWay
  <2>2. IsPrefix(<<>>, <<>>) /\ <<>> \o <<>> = <<>> /\ Len(<<>>) <= Len(<<>>) + 1  BY DEF IsPrefix
  <2>3. ASSUME NEW d \in Dirs PROVE Entries(d) = <<>> /\ [i \in DOMAIN raw[d] |-> Kept(raw[d][i])] = <<>>
    BY <2>1, EntriesAre DEF Kepts
  <2> QED  BY <2>1, <2>2, <2>3 DEF OrderInv, RelayedInOrder
<1>6. PongInv
  <2> SUFFICES ASSUME NEW d \in Dirs, NEW p
               PROVE  /\ Count(recv[d], "pong", p) <= Count(raw[Other(d)], "ping", p)
                      /\ Times(pingPongs[Other(d)], p) + Said(messages, d, "pong", p)
                           = Said(messages, Other(d), "ping", p)
    BY DEF PongInv
  <2>1. recv[d] = <<>> /\ raw[Other(d)] = <<>> /\ pingPongs[Other(d)] = <<>>  BY Sides
  <2>2. Count(<<>>, "pong", p) = 0 /\ Count(<<>>, "ping", p) = 0
    <3>1. \A k \in {"pong", "ping"} : {i \in DOMAIN <<>> : <<>>[i].kind = k /\ <<>>[i].payload = p} = {}
      OBVIOUS
    <3> QED  BY <3>1, FS_EmptySet DEF Count
  <2>3. \A e \in Dirs, k \in {"ping", "pong"} : Said(<<>>, e, k, p) = 0
    <3> SUFFICES ASSUME NEW e \in Dirs, NEW k \in {"ping", "pong"} PROVE Said(<<>>, e, k, p) = 0  OBVIOUS
    <3>1. {i \in DOMAIN <<>> : <<>>[i].dir = e /\ <<>>[i].msg.kind = k /\ <<>>[i].msg.payload = p} = {}
      OBVIOUS
    <3> QED  BY <3>1, FS_EmptySet DEF Said
  <2>4. Times(<<>>, p) = 0  BY HitsEmpty DEF Times
  <2>5. messages = <<>> /\ Other(d) \in Dirs  BY Sides
  <2> QED  BY <2>1, <2>2, <2>3, <2>4, <2>5
<1>7. ScriptInv
  <2>1. Len(messages) = 0 /\ pos = 1 /\ result = None /\ role = None  OBVIOUS
  <2> QED  BY <2>1 DEF ScriptInv
<1> QED  BY <1>1, <1>2, <1>3, <1>4, <1>5, <1>6, <1>7 DEF RelayInv

-----------------------------------------------------------------------------
(* Steps that leave a part of the state alone.                              *)

(* The recorder's options do not change, nor what it keeps of a message.    *)
LEMMA KeptSame ==
  ASSUME opts' = opts
  PROVE  \A m : Kept(m)' = Kept(m)
BY DEF Kept

(* What is kept of a sender's messages, after a step.                       *)
LEMMA KeptsSame ==
  ASSUME NEW d \in Dirs, opts' = opts
  PROVE  /\ Kepts(raw[d])' = Kepts(raw'[d])
         /\ [i \in DOMAIN raw[d] |-> Kept(raw[d][i])]' = Kepts(raw'[d])
<1>1. [i \in DOMAIN raw[d] |-> Kept(raw[d][i])]' = [i \in DOMAIN raw'[d] |-> Kept(raw'[d][i])]
  BY DEF Kept
<1> QED  BY <1>1 DEF Kepts

(* A step that reads and sends nothing keeps the types.                     *)
LEMMA TypesKept ==
  ASSUME RelayTypes, UNCHANGED <<closeSeen, codec, pingPongs, raw, recv, total, messages>>,
         open' \in [Dirs -> BOOLEAN],
         phase' \in {"upgrade", "refused", "relay", "ended", "stored", "lost"},
         status' \in {0, 101, 400, 502, 504},
         pending' # NoMessage => pending' = pending /\ phase' = "relay"
  PROVE  RelayTypes'
<1>1. pending' # NoMessage => pending' \in Awaits /\ phase' = "relay"  BY DEF RelayTypes
<1>2. /\ codec' \in [Dirs -> {"active", "byPeer", "byUs", "done"}] /\ closeSeen' \in [Dirs -> BOOLEAN]
      /\ pingPongs' \in [Dirs -> Seq(Payloads)] /\ recv' \in [Dirs -> Seq(Wires)]
  BY DEF RelayTypes
<1>3. /\ raw' \in [Dirs -> Seq(Messages)] /\ \A d \in Dirs : Len(raw'[d]) <= MaxReads
      /\ total' \in Nat /\ total' <= Len(raw'["c2s"]) + Len(raw'["s2c"])
      /\ messages' \in Seq(Entry) /\ Len(messages') <= MaxMessages
  BY ZenonT(60) DEF RelayTypes
<1> QED  BY ZenonT(60), <1>1, <1>2, <1>3 DEF RelayTypes

(* A step that records nothing keeps the transcript acceptable.             *)
LEMMA TranscriptKept ==
  ASSUME TranscriptInv, UNCHANGED <<messages, closeSeen>>, Going' => Going
  PROVE  TranscriptInv'
BY DEF TranscriptInv, Going

(* A step that touches no socket keeps the account of closes.               *)
LEMMA CloseKept ==
  ASSUME CloseInv, UNCHANGED <<codec, closeSeen, raw, recv>>
  PROVE  CloseInv'
BY DEF CloseInv

(* A step that reads, sends and records nothing keeps the order.            *)
LEMMA OrderKept ==
  ASSUME OrderInv, UNCHANGED <<opts, raw, recv, messages>>,
         terminal'.kind = "clean" => terminal.kind = "clean",
         Going' => Going /\ pending' = pending
  PROVE  OrderInv'
<1>1. RelayedInOrder'
  <2>1. \A d : Entries(d)' = Entries(d)  BY DEF Entries
  <2>2. \A d \in Dirs : [i \in DOMAIN raw[d] |-> Kept(raw[d][i])]' = [i \in DOMAIN raw[d] |-> Kept(raw[d][i])]
    BY KeptsSame DEF Kepts
  <2> QED  BY <2>1, <2>2 DEF OrderInv, RelayedInOrder
<1>2. ASSUME Going', NEW d \in Dirs
      PROVE  /\ EntriesOf(messages', d) = Kepts(raw[d])'
             /\ Data(raw'[d]) = Data(recv'[d]) \o OnTheWay(d)'
  <2>1. Kepts(raw[d])' = Kepts(raw[d])  BY KeptsSame
  <2>2. OnTheWay(d)' = OnTheWay(d)  BY <1>2 DEF OnTheWay
  <2> QED  BY <1>2, <2>1, <2>2 DEF OrderInv
<1> QED  BY <1>1, <1>2 DEF OrderInv

(* A step that reads, sends and records nothing keeps the account of pongs. *)
LEMMA PongKept ==
  ASSUME PongInv, UNCHANGED <<raw, recv, messages, pingPongs>>, Going' => Going,
         pending' \in {pending, NoMessage}
  PROVE  PongInv'
<1> SUFFICES ASSUME NEW d \in Dirs, NEW p \in PingPayloads, AnsweringIn(messages, d, p)
             PROVE  /\ Count(recv[d], "pong", p) <= Count(raw[Other(d)], "ping", p)
                    /\ Going' => Times(pingPongs[Other(d)], p) + Said(messages, d, "pong", p)
                                   = Said(messages, Other(d), "ping", p)
                    /\ pending' # NoMessage /\ pending'.dir = d /\ pending'.msg.kind = "pong"
                         => pending'.msg.payload # p
  BY DEF PongInv
<1> QED  BY DEF PongInv

(* The relay's steps leave the scripts alone.                               *)
LEMMA ScriptKept ==
  ASSUME ScriptInv, UNCHANGED scriptVars, phase # "stored",
         Len(messages) \in Nat, Len(messages') \in Nat
  PROVE  ScriptInv'
BY DEF ScriptInv, scriptVars

-----------------------------------------------------------------------------
(* Each step of the relay that reads and sends nothing.                     *)

(* The upgrade is judged.                                                   *)
LEMMA UpgradeFaithful ==
  ASSUME RelayInv, Upgrade, UNCHANGED scriptVars
  PROVE  RelayInv'
<1> USE DEF RelayInv, Upgrade
<1>1. RelayTypes'
  <2>1. UpstreamStatus(h) \in {101, 502, 504}
    <3>1. CASE h.up = "timeout"  BY <3>1 DEF UpstreamStatus
    <3>2. CASE h.up = "switching"  BY <3>2 DEF UpstreamStatus
    <3>3. CASE h.up # "timeout" /\ h.up # "switching"  BY <3>3 DEF UpstreamStatus
    <3> QED  BY <3>1, <3>2, <3>3
  <2>2. InboundStatus(h) \in {101, 400}  BY DEF InboundStatus
  <2>3. UpgradeStatus(h) \in {101, 400, 502, 504}  BY <2>1, <2>2 DEF UpgradeStatus
  <2>4. pending' = pending /\ pending = NoMessage /\ open' \in [Dirs -> BOOLEAN]  BY DEF RelayTypes
  <2> QED  BY ZenonT(60), <2>3, <2>4, TypesKept DEF RelayTypes
<1>2. TerminalInv'  BY DEF TerminalInv, Going
<1>3. TranscriptInv'  BY TranscriptKept DEF Going
<1>4. CloseInv'  BY CloseKept
<1>5. OrderInv'  BY OrderKept DEF Going
<1>6. PongInv'  BY PongKept DEF Going
<1>7. ScriptInv'  BY ScriptKept DEF RelayTypes
<1> QED  BY <1>1, <1>2, <1>3, <1>4, <1>5, <1>6, <1>7

\* The loop ends abnormally, with nothing read or sent.
LEMMA EndsFaithful ==
  ASSUME RelayInv, phase = "relay", phase' = "ended", pending' = NoMessage,
         NEW c \in KnownCauses, terminal' = Abnormal(c),
         UNCHANGED <<h, opts, status, codec, closeSeen, pingPongs, total, messages, raw, recv>>,
         open' \in [Dirs -> BOOLEAN], UNCHANGED scriptVars
  PROVE  RelayInv'
<1> USE DEF RelayInv
<1>0. ~Going'  BY DEF Going
<1>1. RelayTypes'
  <2>1. status \in {0, 101, 400, 502, 504}  BY DEF RelayTypes
  <2> QED  BY <2>1, TypesKept
<1>2. TerminalInv'  BY <1>0 DEF TerminalInv
<1>3. TranscriptInv'  BY <1>0, TranscriptKept
<1>4. CloseInv'  BY CloseKept
<1>5. OrderInv'
  <2>1. terminal'.kind # "clean"  BY DEF Abnormal
  <2> QED  BY <1>0, <2>1, OrderKept
<1>6. PongInv'  BY <1>0, PongKept
<1>7. ScriptInv'  BY ScriptKept DEF RelayTypes
<1> QED  BY <1>1, <1>2, <1>3, <1>4, <1>5, <1>6, <1>7

(* A read error, the deadline or the cancellation ends the loop.            *)
LEMMA InterruptFaithful ==
  ASSUME RelayInv, Interrupt, UNCHANGED scriptVars
  PROVE  RelayInv'
<1>1. PICK c \in Causes : End(Abnormal(c))  BY DEF Interrupt
<1>2. c \in KnownCauses  BY RelayAssumption DEF InterruptCauses, KnownCauses
<1>3. open' \in [Dirs -> BOOLEAN]  BY DEF Interrupt, RelayInv, RelayTypes
<1> QED  BY <1>1, <1>2, <1>3, EndsFaithful DEF Interrupt, Running, End

(* A side is at its end: both closes were not seen, or the loop had ended.  *)
LEMMA ReadNoneFaithful ==
  ASSUME RelayInv, NEW d \in Dirs, ReadNone(d), UNCHANGED scriptVars
  PROVE  RelayInv'
<1> USE DEF ReadNone, Running
<1>1. ~BothClosed(closeSeen)
  <2>1. Going /\ Closers(messages) # Dirs  BY DEF Going, RelayInv, TranscriptInv
  <2>2. Closers(messages) \subseteq Dirs
    <3>1. messages \in Seq(Entry)  BY DEF RelayInv, RelayTypes
    <3>2. \A i \in DOMAIN messages : messages[i] \in Entry  BY <3>1
    <3>3. \A e \in Entry : e.dir \in Dirs  BY DEF Entry
    <3> QED  BY <3>2, <3>3 DEF Closers
  <2> QED  BY <2>1, <2>2, Sides DEF BothClosed, RelayInv, TranscriptInv, Dirs
<1>2. open' \in [Dirs -> BOOLEAN]  BY DEF RelayInv, RelayTypes
<1>3. CASE End(Abnormal("eof"))
  <2>1. "eof" \in KnownCauses  BY DEF KnownCauses
  <2> QED  BY <1>2, <1>3, <2>1, EndsFaithful DEF End
<1>4. CASE UNCHANGED <<terminal, phase>>
  <2> USE DEF RelayInv
  <2>1. RelayTypes'  BY ZenonT(60), <1>2, <1>4 DEF RelayTypes
  <2>2. TerminalInv'  BY <1>4 DEF TerminalInv, Going
  <2>3. TranscriptInv'  BY <1>4, TranscriptKept DEF Going
  <2>4. CloseInv'  BY CloseKept
  <2>5. OrderInv'  BY <1>4, OrderKept DEF Going
  <2>6. PongInv'  BY <1>4, PongKept DEF Going
  <2>7. ScriptInv'  BY ScriptKept DEF RelayTypes
  <2> QED  BY <2>1, <2>2, <2>3, <2>4, <2>5, <2>6, <2>7
<1> QED  BY <1>1, <1>3, <1>4

(* A receiver stops reading.                                                *)
LEMMA StallFaithful ==
  ASSUME RelayInv, NEW d \in Dirs, Stall(d), UNCHANGED scriptVars
  PROVE  RelayInv'
<1> USE DEF RelayInv, Stall
<1>1. RelayTypes'
  <2>1. status \in {0, 101, 400, 502, 504} /\ open \in [Dirs -> BOOLEAN]  BY DEF RelayTypes
  <2> QED  BY <2>1, TypesKept
<1>2. TerminalInv'  BY DEF TerminalInv, Going
<1>3. TranscriptInv'  BY TranscriptKept DEF Going
<1>4. CloseInv'  BY CloseKept
<1>5. OrderInv'  BY OrderKept DEF Going
<1>6. PongInv'  BY PongKept DEF Going
<1>7. ScriptInv'  BY ScriptKept DEF RelayTypes
<1> QED  BY <1>1, <1>2, <1>3, <1>4, <1>5, <1>6, <1>7

(* The store takes the transcript, or does not.                             *)
LEMMA AppendFaithful ==
  ASSUME RelayInv, AppendConversation, UNCHANGED scriptVars
  PROVE  RelayInv'
<1> USE DEF RelayInv, AppendConversation
<1>0. ~Going' /\ phase' \in {"stored", "lost"}  BY DEF Going
<1>1. RelayTypes'
  <2>1. status \in {0, 101, 400, 502, 504} /\ open \in [Dirs -> BOOLEAN] /\ pending = NoMessage
    BY DEF RelayTypes
  <2> QED  BY <1>0, <2>1, TypesKept
<1>2. TerminalInv'  BY <1>0 DEF TerminalInv
<1>3. TranscriptInv'  BY <1>0, TranscriptKept
<1>4. CloseInv'  BY CloseKept
<1>5. OrderInv'  BY <1>0, OrderKept
<1>6. PongInv'  BY <1>0, PongKept
<1>7. ScriptInv'  BY <1>0, ScriptKept DEF RelayTypes
<1> QED  BY <1>1, <1>2, <1>3, <1>4, <1>5, <1>6, <1>7

-----------------------------------------------------------------------------
(* A send that succeeds.                                                    *)

(* A sequence begins a longer one.                                          *)
LEMMA PrefixIs ==
  ASSUME NEW T, NEW s \in Seq(T), NEW t \in Seq(T)
  PROVE  IsPrefix(s, s \o t) /\ Len(s \o t) = Len(s) + Len(t)
<1> DEFINE w == s \o t
           n == Len(s)
<1>1. w \in Seq(T) /\ Len(w) = n + Len(t) /\ n \in 0..Len(w) /\ n \in 0..Len(s) /\ n <= Len(w)
      /\ \A i \in 1..n : w[i] = s[i]
  OBVIOUS
<1> HIDE DEF w
<1>2. /\ SubSeq(w, 1, n) \in Seq(T) /\ Len(SubSeq(w, 1, n)) = n
      /\ \A i \in 1..n : SubSeq(w, 1, n)[i] = w[i]
  BY <1>1, Beginning
<1>3. /\ SubSeq(s, 1, n) \in Seq(T) /\ Len(SubSeq(s, 1, n)) = n
      /\ \A i \in 1..n : SubSeq(s, 1, n)[i] = s[i]
  BY <1>1, Beginning
<1>4. SubSeq(w, 1, n) = SubSeq(s, 1, n)  BY <1>1, <1>2, <1>3, SeqEqual
<1> QED  BY <1>1, <1>4 DEF IsPrefix, w

\* A relay whose books balance is in order.
LEMMA Balanced ==
  ASSUME NEW E, NEW K \in Seq(Keeps), NEW R \in Seq(Wires), NEW D, NEW X \in Seq(Wires),
         Len(X) <= 1, E = K, D = R \o X
  PROVE  /\ IsPrefix(E, K) /\ IsPrefix(R, D) /\ Len(D) <= Len(R) + 1
         /\ X = <<>> => R = D
<1>1. IsPrefix(K, K \o <<>>) /\ K \o <<>> = K
  <2>1. <<>> \in Seq(Keeps) /\ K \o <<>> = K  OBVIOUS
  <2> QED  BY <2>1, PrefixIs
<1>2. IsPrefix(R, R \o X) /\ Len(R \o X) = Len(R) + Len(X)  BY PrefixIs
<1>3. X = <<>> => R \o X = R  OBVIOUS
<1>4. Len(R) + Len(X) <= Len(R) + 1  OBVIOUS
<1> QED  BY <1>1, <1>2, <1>3, <1>4

(* As many messages are kept as were read.                                  *)
LEMMA KeptsSeq ==
  ASSUME NEW s \in Seq(Messages)
  PROVE  Kepts(s) \in Seq(Keeps) /\ Len(Kepts(s)) = Len(s)
<1>1. DOMAIN s = 1..Len(s) /\ Len(s) \in Nat /\ \A i \in 1..Len(s) : s[i] \in Messages  OBVIOUS
<1>2. \A i \in 1..Len(s) : Kept(s[i]) \in Keeps  BY <1>1, KeptIs
<1>3. Kepts(s) \in [1..Len(s) -> Keeps]  BY <1>1, <1>2 DEF Kepts
<1> QED  BY <1>1, <1>3

(* A message is at most one piece of data.                                  *)
LEMMA DataOfSeq ==
  ASSUME NEW T, NEW m \in T PROVE DataOf(m) \in Seq(T) /\ Len(DataOf(m)) <= 1
BY DEF DataOf

\* The order is kept by a step after which the books balance.
LEMMA OrderBalanced ==
  ASSUME raw' \in [Dirs -> Seq(Messages)], recv' \in [Dirs -> Seq(Wires)],
         opts' = opts, terminal'.kind = "clean" => pending' = NoMessage,
         pending' # NoMessage => pending'.msg \in Messages,
         \A d \in Dirs : /\ EntriesOf(messages', d) = Kepts(raw'[d])
                         /\ Data(raw'[d]) = Data(recv'[d]) \o OnTheWay(d)'
  PROVE  OrderInv'
<1>1. ASSUME NEW d \in Dirs
      PROVE  /\ IsPrefix(Entries(d)', [i \in DOMAIN raw[d] |-> Kept(raw[d][i])]')
             /\ IsPrefix(Data(recv'[d]), Data(raw'[d]))
             /\ Len(Data(raw'[d])) <= Len(Data(recv'[d])) + 1
             /\ terminal'.kind = "clean" => Data(recv'[d]) = Data(raw'[d])
  <2> DEFINE X == OnTheWay(d)'
             K == Kepts(raw'[d])
             R == Data(recv'[d])
             D == Data(raw'[d])
  <2>1. Entries(d)' = EntriesOf(messages', d)  BY DEF Entries, EntriesOf, EntryOf
  <2>2. [i \in DOMAIN raw[d] |-> Kept(raw[d][i])]' = K  BY KeptsSame
  <2>3. K \in Seq(Keeps)  BY KeptsSeq
  <2>4. X \in Seq(Wires) /\ Len(X) <= 1 /\ (pending' = NoMessage => X = <<>>)
    <3>1. CASE pending' # NoMessage /\ pending'.dir = d
      <4>1. X = DataOf(pending'.msg)  BY <3>1 DEF OnTheWay
      <4>2. pending'.msg \in Wires  BY <3>1 DEF Wires
      <4> QED  BY <3>1, <4>1, <4>2, DataOfSeq
    <3>2. CASE ~(pending' # NoMessage /\ pending'.dir = d)
      <4>1. X = <<>>  BY <3>2 DEF OnTheWay
      <4> QED  BY <4>1
    <3> QED  BY <3>1, <3>2
  <2>5. recv'[d] \in Seq(Wires)  OBVIOUS
  <2>6. R \in Seq(Wires)  BY <2>5, DataIs
  <2>7. EntriesOf(messages', d) = K /\ D = R \o X  OBVIOUS
  <2> HIDE DEF X, K, R, D
  <2>8. /\ IsPrefix(EntriesOf(messages', d), K) /\ IsPrefix(R, D) /\ Len(D) <= Len(R) + 1
        /\ X = <<>> => R = D
    BY ZenonT(60), <2>3, <2>4, <2>6, <2>7, Balanced
  <2> QED  BY <2>1, <2>2, <2>4, <2>8 DEF R, D
<1>2. RelayedInOrder'  BY <1>1 DEF RelayedInOrder
<1>3. \A d \in Dirs : Kepts(raw[d])' = Kepts(raw'[d])  BY KeptsSame
<1> QED  BY <1>2, <1>3 DEF OrderInv

(* An awaited send succeeds, and the receiver has all data read; or it      *)
(* fails, and the loop ends.                                                *)
LEMMA ForwardFaithful ==
  ASSUME RelayInv, Forward, UNCHANGED scriptVars
  PROVE  RelayInv'
<1> DEFINE d == pending.dir
           m == pending.msg
<1>1. phase = "relay" /\ pending # NoMessage /\ pending' = NoMessage
      /\ UNCHANGED <<h, opts, status, open, closeSeen, pingPongs, total, messages, raw, stalled>>
  BY DEF Forward
<1>2. d \in Dirs /\ m \in Messages /\ Other(d) \in Dirs /\ Other(Other(d)) = d /\ Other(d) # d
  <2>1. pending \in Awaits  BY <1>1 DEF RelayInv, RelayTypes
  <2> QED  BY <2>1, Sides DEF Awaits
<1>3. CASE End(Abnormal("write-error")) /\ UNCHANGED <<recv, codec>>
  <2>1. "write-error" \in KnownCauses  BY DEF KnownCauses
  <2>2. open' \in [Dirs -> BOOLEAN]  BY <1>1 DEF RelayInv, RelayTypes
  <2> QED  BY <1>1, <1>3, <2>1, <2>2, EndsFaithful DEF End
<1>4. CASE /\ codec[Other(d)] = "active"
           /\ recv' = [recv EXCEPT ![d] = Append(@, m)]
           /\ codec' = [codec EXCEPT ![Other(d)] = IF m.kind = "close" THEN "byUs" ELSE @]
           /\ UNCHANGED <<terminal, phase>>
  <2> USE DEF RelayInv
  <2> HIDE DEF d, m
  <2>0. /\ codec \in [Dirs -> {"active", "byPeer", "byUs", "done"}]
        /\ raw \in [Dirs -> Seq(Messages)] /\ recv \in [Dirs -> Seq(Wires)]
        /\ m \in Wires /\ messages \in Seq(Entry)
    BY <1>2 DEF RelayTypes, Wires
  <2>1. recv' \in [Dirs -> Seq(Wires)] /\ recv'[d] = Append(recv[d], m) /\ recv'[Other(d)] = recv[Other(d)]
    BY <1>2, <1>4, <2>0
  <2>2. /\ codec' \in [Dirs -> {"active", "byPeer", "byUs", "done"}] /\ codec'[d] = codec[d]
        /\ codec'[Other(d)] = IF m.kind = "close" THEN "byUs" ELSE "active"
    BY <1>2, <1>4, <2>0
  <2>3. \A e \in Dirs : e = d \/ e = Other(d)  BY <1>2, Sides
  <2>4. RelayTypes'
    <3>1. /\ phase' \in {"upgrade", "refused", "relay", "ended", "stored", "lost"}
          /\ status' \in {0, 101, 400, 502, 504}
          /\ open' \in [Dirs -> BOOLEAN] /\ closeSeen' \in [Dirs -> BOOLEAN]
          /\ pingPongs' \in [Dirs -> Seq(Payloads)]
      BY <1>1, <1>4 DEF RelayTypes
    <3>2. /\ raw \in [Dirs -> Seq(Messages)] /\ \A e \in Dirs : Len(raw[e]) <= MaxReads
          /\ total \in Nat /\ total <= Len(raw["c2s"]) + Len(raw["s2c"])
          /\ messages \in Seq(Entry) /\ Len(messages) <= MaxMessages
      BY ZenonT(60) DEF RelayTypes
    <3> QED  BY ZenonT(60), <1>1, <2>1, <2>2, <3>1, <3>2 DEF RelayTypes
  <2>5. TerminalInv'  BY <1>1, <1>4 DEF TerminalInv, Going
  <2>6. TranscriptInv'  BY <1>1, <1>4, TranscriptKept DEF Going
  <2>7. CloseInv'
    <3>1. /\ closeSeen[d] => codec[d] \in Closed
          /\ Closes(raw[d]) = IF codec[d] \in Closed THEN 1 ELSE 0
          /\ Closes(recv[Other(d)]) = IF codec[d] = "active" THEN 0 ELSE 1
      BY <1>2 DEF CloseInv
    <3>2. ~closeSeen[Other(d)] /\ Closes(raw[Other(d)]) = 0 /\ Closes(recv[d]) = 0
      BY <1>2, <1>4 DEF CloseInv, Closed
    <3>3. recv[d] \in Seq(Wires)  BY <1>2, <2>0
    <3>4. Closes(recv'[d]) = IF m.kind = "close" THEN 1 ELSE 0  BY <2>1, <3>2, <3>3, ClosesAppend
    <3>5. codec'[Other(d)] \notin Closed /\ (codec'[Other(d)] = "active" <=> m.kind # "close")
      BY <2>2 DEF Closed
    <3>6. closeSeen' = closeSeen /\ raw' = raw  BY <1>1
    <3>7. ASSUME NEW e \in Dirs
          PROVE  /\ closeSeen'[e] => codec'[e] \in Closed
                 /\ Closes(raw'[e]) = IF codec'[e] \in Closed THEN 1 ELSE 0
                 /\ Closes(recv'[Other(e)]) = IF codec'[e] = "active" THEN 0 ELSE 1
      <4>1. CASE e = d  BY <2>1, <2>2, <3>1, <3>6, <4>1
      <4>2. CASE e = Other(d)  BY <1>2, <3>2, <3>4, <3>5, <3>6, <4>2
      <4> QED  BY <2>3, <4>1, <4>2
    <3> QED  BY <3>7 DEF CloseInv
  <2>8. OrderInv'
    <3>1. /\ \A e \in Dirs : EntriesOf(messages, e) = Kepts(raw[e])
          /\ \A e \in Dirs : Data(raw[e]) = Data(recv[e]) \o OnTheWay(e)
      BY <1>1 DEF OrderInv, Going
    <3>2. terminal'.kind # "clean"  BY <1>1, <1>4 DEF TerminalInv, Going, None
    <3>3. OnTheWay(d) = DataOf(m) /\ OnTheWay(Other(d)) = <<>>  BY <1>1, <1>2 DEF OnTheWay, d, m
    <3>4. recv[d] \in Seq(Wires) /\ recv[Other(d)] \in Seq(Wires)  BY <1>2, <2>0
    <3>5. Data(recv'[d]) = Data(recv[d]) \o DataOf(m)  BY <2>1, <3>4, DataAppend
    <3>6. Data(recv'[d]) \in Seq(Wires) /\ Data(recv[Other(d)]) \in Seq(Wires)
      <4>1. recv'[d] \in Seq(Wires)  BY <1>2, <2>1
      <4> QED  BY <3>4, <4>1, DataIs
    <3>7. \A s \in Seq(Wires) : s \o <<>> = s  OBVIOUS
    <3>8. \A e \in Dirs : OnTheWay(e)' = <<>>  BY <1>1 DEF OnTheWay
    <3>9. ASSUME NEW e \in Dirs
          PROVE  /\ EntriesOf(messages', e) = Kepts(raw'[e])
                 /\ Data(raw'[e]) = Data(recv'[e]) \o OnTheWay(e)'
      <4>1. Data(raw[d]) = Data(recv'[d])  BY <1>2, <3>1, <3>3, <3>5
      <4>2. Data(raw[Other(d)]) = Data(recv'[Other(d)])  BY <1>2, <2>1, <3>1, <3>3, <3>6, <3>7
      <4>3. Data(raw[e]) = Data(recv'[e]) /\ Data(recv'[e]) \in Seq(Wires)
        BY <2>1, <2>3, <3>6, <4>1, <4>2
      <4> QED  BY <1>1, <3>1, <3>7, <3>8, <4>3
    <3>10. raw' \in [Dirs -> Seq(Messages)]  BY <1>1, <2>0
    <3> QED  BY <1>1, <2>1, <3>2, <3>9, <3>10, OrderBalanced
  <2>9. PongInv'
    <3> SUFFICES ASSUME NEW e \in Dirs, NEW p \in PingPayloads, AnsweringIn(messages, e, p)
                 PROVE  /\ Count(recv'[e], "pong", p) <= Count(raw[Other(e)], "ping", p)
                        /\ Times(pingPongs[Other(e)], p) + Said(messages, e, "pong", p)
                             = Said(messages, Other(e), "ping", p)
      BY <1>1 DEF PongInv
    <3>1. /\ Count(recv[e], "pong", p) <= Count(raw[Other(e)], "ping", p)
          /\ Times(pingPongs[Other(e)], p) + Said(messages, e, "pong", p) = Said(messages, Other(e), "ping", p)
          /\ pending.dir = e /\ pending.msg.kind = "pong" => pending.msg.payload # p
      BY <1>1 DEF PongInv, Going
    <3>2. Count(recv'[e], "pong", p) = Count(recv[e], "pong", p)
      <4>1. CASE e = d
        <5>1. ~(m.kind = "pong" /\ m.payload = p)  BY <3>1, <4>1 DEF d, m
        <5>2. recv[d] \in Seq(Wires)  BY <1>2, <2>0
        <5>3. Count(Append(recv[d], m), "pong", p) = Count(recv[d], "pong", p) + 0  BY <5>1, <5>2, CountAppend
        <5>4. Count(recv[d], "pong", p) \in Nat  BY <5>2, CountNat
        <5>5. recv'[e] = Append(recv[d], m) /\ recv[e] = recv[d]  BY <2>1, <4>1
        <5>6. Count(recv[d], "pong", p) + 0 = Count(recv[d], "pong", p)  BY <5>4
        <5> QED  BY <5>3, <5>5, <5>6
      <4>2. CASE e = Other(d)  BY <2>1, <4>2
      <4> QED  BY <2>3, <4>1, <4>2
    <3> QED  BY <3>1, <3>2
  <2>10. ScriptInv'
    <3>1. Len(messages) \in Nat /\ messages' = messages  BY <1>1, <2>0
    <3> QED  BY <1>1, <3>1, ScriptKept
  <2> QED  BY <2>4, <2>5, <2>6, <2>7, <2>8, <2>9, <2>10
<1> QED  BY <1>3, <1>4 DEF Forward, Outgoing

-----------------------------------------------------------------------------
(* A message is read: what it does whatever is recorded of it.              *)

\* What every reading does to the sockets and their histories.
Reading(d, m) ==
    /\ phase = "relay" /\ pending = NoMessage
    /\ codec[d] \in {"active", "byUs"}
    /\ Len(raw[d]) < MaxReads
    /\ raw' = [raw EXCEPT ![d] = Append(@, m)]
    /\ codec' = CodecAfterRead(d, m)
    /\ recv' = [recv EXCEPT ![Other(d)] = @ \o AutoReply(d, m)]
    /\ pingPongs' = PingBook(d, m)
    /\ UNCHANGED <<h, opts, status, open, stalled>>

\* The message could not be kept: the relay ends.
Unrecorded ==
    /\ \E c \in {"storage-error", "capture-limit"} : terminal' = Abnormal(c)
    /\ phase' = "ended"
    /\ total' \in {total, total + 1}
    /\ UNCHANGED <<messages, closeSeen, pending>>

EntryFor(d, m) == [seq |-> Len(messages), dir |-> d, msg |-> Kept(m)]

\* The message was kept, and is sent on unless its answer was sent already.
Recorded(d, m) ==
    /\ total' \in {total, total + 1}
    /\ Len(messages) < MaxMessages
    /\ messages' = Append(messages, EntryFor(d, m))
    /\ closeSeen' = [closeSeen EXCEPT ![d] = @ \/ m.kind = "close"]
    /\ pending' = IF \/ Suppressed(d, m)
                     \/ m.kind = "close" /\ ~FirstClose(d, m)
                  THEN NoMessage ELSE [dir |-> d, msg |-> m, kind |-> m.kind]
    /\ IF m.kind = "close" /\ BothClosed(closeSeen')
       THEN End(CleanClose(Kept(m).code, Kept(m).reason))
       ELSE UNCHANGED <<terminal, phase>>

(* A step that reads a message is a reading with one of two outcomes.       *)
LEMMA ReadIs ==
  ASSUME RelayTypes, NEW d \in Dirs, NEW m \in Messages, Read(d, m)
  PROVE  Reading(d, m) /\ (Unrecorded \/ Recorded(d, m))
<1> DEFINE kept == Kept(m)
           size == IF kept.payload = Empty THEN 0 ELSE 1
           entry == [seq |-> Len(messages), dir |-> d, msg |-> kept]
<1>1. Reading(d, m)  BY DEF Read, Reading, Running
<1>2. total \in Nat /\ size \in {0, 1} /\ Len(messages) \in Nat /\ MaxMessages \in Nat
  BY RelayAssumption DEF RelayTypes
<1>3. \/ End(Abnormal("storage-error")) /\ UNCHANGED <<total, messages, closeSeen, pending>>
      \/ /\ total' = total + size
         /\ \/ End(Abnormal("capture-limit")) /\ UNCHANGED <<messages, closeSeen, pending>>
            \/ /\ ~CaptureLimit(total')
               /\ messages' = Append(messages, entry)
               /\ closeSeen' = [closeSeen EXCEPT ![d] = @ \/ m.kind = "close"]
               /\ pending' = IF \/ Suppressed(d, m)
                                \/ m.kind = "close" /\ ~FirstClose(d, m)
                             THEN NoMessage ELSE [dir |-> d, msg |-> m, kind |-> m.kind]
               /\ IF m.kind = "close" /\ BothClosed(closeSeen')
                  THEN End(CleanClose(kept.code, kept.reason))
                  ELSE UNCHANGED <<terminal, phase>>
  BY DEF Read
<1> HIDE DEF size
<1>4. total + size \in {total, total + 1}  BY <1>2
<1>5. ASSUME ~CaptureLimit(total') PROVE Len(messages) < MaxMessages  BY <1>2, <1>5 DEF CaptureLimit
<1>6. CASE End(Abnormal("storage-error")) /\ UNCHANGED <<total, messages, closeSeen, pending>>
  <2>1. Unrecorded  BY <1>6 DEF Unrecorded, End
  <2> QED  BY <1>1, <2>1
<1>7. CASE End(Abnormal("capture-limit")) /\ UNCHANGED <<messages, closeSeen, pending>> /\ total' = total + size
  <2>1. Unrecorded  BY <1>4, <1>7 DEF Unrecorded, End
  <2> QED  BY <1>1, <2>1
<1>8. CASE /\ total' = total + size
           /\ ~CaptureLimit(total')
           /\ messages' = Append(messages, entry)
           /\ closeSeen' = [closeSeen EXCEPT ![d] = @ \/ m.kind = "close"]
           /\ pending' = IF \/ Suppressed(d, m)
                            \/ m.kind = "close" /\ ~FirstClose(d, m)
                         THEN NoMessage ELSE [dir |-> d, msg |-> m, kind |-> m.kind]
           /\ IF m.kind = "close" /\ BothClosed(closeSeen')
              THEN End(CleanClose(kept.code, kept.reason))
              ELSE UNCHANGED <<terminal, phase>>
  <2>1. Recorded(d, m)  BY <1>4, <1>5, <1>8 DEF Recorded, EntryFor
  <2> QED  BY <1>1, <2>1
<1> QED  BY <1>3, <1>6, <1>7, <1>8

\* What the codec answers by itself.
LEMMA Replies ==
  ASSUME NEW d, NEW m \in Messages
  PROVE  \/ /\ AutoReply(d, m) = <<>>
            /\ codec[d] = "active" => m.kind \notin {"ping", "close"}
         \/ \E r \in Wires : /\ AutoReply(d, m) = <<r>> /\ codec[d] = "active"
                             /\ \/ m.kind = "ping" /\ r.kind = "pong" /\ r.payload = m.payload
                                \/ m.kind = "close" /\ r.kind = "close"
<1>1. m = [kind |-> m.kind, payload |-> m.payload, code |-> m.code, reason |-> m.reason]
  BY RelayAssumption
<1>2. CASE codec[d] = "active" /\ m.kind = "ping"
  <2> DEFINE r == [m EXCEPT !.kind = "pong"]
  <2>1. r \in Wires  BY DEF Wires, Answers
  <2>2. r.kind = "pong" /\ r.payload = m.payload  BY <1>1
  <2>3. AutoReply(d, m) = <<r>>  BY <1>2 DEF AutoReply
  <2> HIDE DEF r
  <2> QED  BY <1>2, <2>1, <2>2, <2>3
<1>3. CASE codec[d] = "active" /\ m.kind = "close"
  <2>1. m \in Wires /\ m.kind # "ping"  BY <1>3 DEF Wires
  <2>2. AutoReply(d, m) = <<m>>  BY <1>3, <2>1 DEF AutoReply
  <2> QED  BY <1>3, <2>1, <2>2
<1>4. CASE ~(codec[d] = "active" /\ m.kind \in {"ping", "close"})
  <2>1. AutoReply(d, m) = <<>>  BY <1>4 DEF AutoReply
  <2> QED  BY <1>4, <2>1
<1> QED  BY <1>2, <1>3, <1>4

\* What the histories are after a reading.
LEMMA ReadHistories ==
  ASSUME RelayTypes, NEW d \in Dirs, NEW m \in Messages, Reading(d, m)
  PROVE  /\ raw' \in [Dirs -> Seq(Messages)]
         /\ raw'[d] = Append(raw[d], m) /\ raw'[Other(d)] = raw[Other(d)]
         /\ recv' \in [Dirs -> Seq(Wires)] /\ recv'[d] = recv[d]
         /\ \/ /\ recv'[Other(d)] = recv[Other(d)]
               /\ codec[d] = "active" => m.kind \notin {"ping", "close"}
            \/ \E r \in Wires : /\ recv'[Other(d)] = Append(recv[Other(d)], r) /\ codec[d] = "active"
                                /\ \/ m.kind = "ping" /\ r.kind = "pong" /\ r.payload = m.payload
                                   \/ m.kind = "close" /\ r.kind = "close"
<1>1. raw \in [Dirs -> Seq(Messages)] /\ recv \in [Dirs -> Seq(Wires)]  BY DEF RelayTypes
<1>2. Other(d) \in Dirs /\ Other(d) # d  BY Sides
<1>3. raw' \in [Dirs -> Seq(Messages)] /\ raw'[d] = Append(raw[d], m) /\ raw'[Other(d)] = raw[Other(d)]
  BY <1>1, <1>2 DEF Reading
<1>4. recv' = [recv EXCEPT ![Other(d)] = @ \o AutoReply(d, m)]  BY DEF Reading
<1>5. recv'[d] = recv[d] /\ recv'[Other(d)] = recv[Other(d)] \o AutoReply(d, m)  BY <1>1, <1>2, <1>4
<1>6. recv[Other(d)] \in Seq(Wires)  BY <1>1, <1>2
<1>7. CASE AutoReply(d, m) = <<>> /\ (codec[d] = "active" => m.kind \notin {"ping", "close"})
  <2>1. recv[Other(d)] \o <<>> = recv[Other(d)]  BY <1>6
  <2>2. recv'[Other(d)] = recv[Other(d)]  BY <1>5, <1>7, <2>1
  <2>3. recv' \in [Dirs -> Seq(Wires)]  BY <1>1, <1>2, <1>4, <1>6, <1>7, <2>1
  <2> QED  BY <1>3, <1>5, <1>7, <2>2, <2>3
<1>8. ASSUME NEW r \in Wires, AutoReply(d, m) = <<r>>, codec[d] = "active",
             \/ m.kind = "ping" /\ r.kind = "pong" /\ r.payload = m.payload
             \/ m.kind = "close" /\ r.kind = "close"
      PROVE  /\ recv'[Other(d)] = Append(recv[Other(d)], r) /\ recv' \in [Dirs -> Seq(Wires)]
  <2>1. /\ recv[Other(d)] \o <<r>> = Append(recv[Other(d)], r)
        /\ Append(recv[Other(d)], r) \in Seq(Wires)
    BY <1>6
  <2>2. recv'[Other(d)] = Append(recv[Other(d)], r)  BY <1>5, <1>8, <2>1
  <2>3. recv' \in [Dirs -> Seq(Wires)]  BY <1>1, <1>2, <1>4, <1>8, <2>1
  <2> QED  BY <2>2, <2>3
<1> QED  BY SMTT(60), <1>3, <1>5, <1>7, <1>8, Replies

\* What the books of pings are after a reading.
LEMMA ReadBooks ==
  ASSUME RelayTypes, NEW d \in Dirs, NEW m \in Messages, Reading(d, m)
  PROVE  /\ pingPongs' \in [Dirs -> Seq(Payloads)]
         /\ \A p : /\ Times(pingPongs[d], p) \in Nat /\ Times(pingPongs[Other(d)], p) \in Nat
                   /\ Times(pingPongs'[d], p) =
                        Times(pingPongs[d], p) + (IF m.kind = "ping" /\ m.payload = p THEN 1 ELSE 0)
                   /\ Times(pingPongs'[Other(d)], p) =
                        Times(pingPongs[Other(d)], p) - (IF Suppressed(d, m) /\ m.payload = p THEN 1 ELSE 0)
<1> DEFINE a == pingPongs[d]
           b == pingPongs[Other(d)]
<1>1. pingPongs \in [Dirs -> Seq(Payloads)]  BY DEF RelayTypes
<1>2. Other(d) \in Dirs /\ Other(d) # d /\ m.payload \in Payloads  BY Sides DEF Payloads
<1>3. a \in Seq(Payloads) /\ b \in Seq(Payloads)  BY <1>1, <1>2
<1>4. \A p : Times(a, p) \in Nat /\ Times(b, p) \in Nat  BY <1>3, HitsFinite DEF Times
<1>5. pingPongs' = PingBook(d, m)  BY DEF Reading
<1>6. CASE m.kind = "ping"
  <2>0. ~Suppressed(d, m)  BY <1>6 DEF Suppressed
  <2>1. pingPongs' = [pingPongs EXCEPT ![d] = Append(@, m.payload)]  BY <1>5, <1>6, <2>0 DEF PingBook
  <2>2. pingPongs'[d] = Append(a, m.payload) /\ pingPongs'[Other(d)] = b /\ pingPongs' \in [Dirs -> Seq(Payloads)]
    BY <1>1, <1>2, <2>1
  <2> HIDE DEF a, b
  <2>4. ASSUME NEW p
        PROVE  Times(Append(a, m.payload), p) = Times(a, p) + (IF m.payload = p THEN 1 ELSE 0)
    <3>1. m.payload \in {p} <=> m.payload = p  OBVIOUS
    <3> QED  BY <1>3, <3>1, HitsAppend DEF Times
  <2>5. \A p : Times(b, p) - 0 = Times(b, p)  BY <1>4
  <2> QED  BY <1>4, <1>6, <2>0, <2>2, <2>4, <2>5 DEF a, b
<1>7. CASE Suppressed(d, m)
  <2>0. m.kind = "pong" /\ Contains(b, m.payload)  BY <1>7 DEF Suppressed
  <2>1. pingPongs' = [pingPongs EXCEPT ![Other(d)] = RemoveFirst(@, m.payload)]  BY <1>5, <1>7, <2>0 DEF PingBook
  <2> HIDE DEF a, b
  <2>2. PICK i \in 1..Len(b) : b[i] = m.payload /\ RemoveFirst(b, m.payload) = RemoveAt(b, i)
    BY <1>3, <2>0, FirstRemoved
  <2>3. RemoveAt(b, i) \in Seq(Payloads)  BY <1>3, HitsRemove
  <2>4. pingPongs'[d] = a /\ pingPongs'[Other(d)] = RemoveAt(b, i) /\ pingPongs' \in [Dirs -> Seq(Payloads)]
    BY <1>1, <1>2, <2>1, <2>2, <2>3 DEF a, b
  <2>5. ASSUME NEW p
        PROVE  Times(RemoveAt(b, i), p) = Times(b, p) - (IF m.payload = p THEN 1 ELSE 0)
    <3>1. b[i] \in {p} <=> m.payload = p  BY <2>2
    <3>2. Cardinality(Hits(RemoveAt(b, i), {p})) = Cardinality(Hits(b, {p})) - (IF b[i] \in {p} THEN 1 ELSE 0)
      BY <1>3, HitsRemove
    <3> QED  BY <3>1, <3>2 DEF Times
  <2>6. \A p : Times(a, p) + 0 = Times(a, p)  BY <1>4
  <2> QED  BY <1>4, <1>7, <2>0, <2>4, <2>5, <2>6 DEF a, b
<1>8. CASE m.kind # "ping" /\ ~Suppressed(d, m)
  <2>1. pingPongs' = pingPongs  BY <1>5, <1>8 DEF PingBook
  <2>2. \A p : Times(a, p) + 0 = Times(a, p) /\ Times(b, p) - 0 = Times(b, p)  BY <1>4
  <2> QED  BY <1>1, <1>4, <1>8, <2>1, <2>2
<1> QED  BY <1>6, <1>7, <1>8

-----------------------------------------------------------------------------
(* A message is read: the invariant.                                        *)

(* A reading keeps the types.                                               *)
LEMMA ReadTypes ==
  ASSUME RelayTypes, NEW d \in Dirs, NEW m \in Messages, Reading(d, m), Unrecorded \/ Recorded(d, m)
  PROVE  RelayTypes'
<1>0. /\ codec \in [Dirs -> {"active", "byPeer", "byUs", "done"}]
      /\ raw \in [Dirs -> Seq(Messages)] /\ \A e \in Dirs : Len(raw[e]) <= MaxReads
      /\ total \in Nat /\ total <= Len(raw["c2s"]) + Len(raw["s2c"])
      /\ messages \in Seq(Entry) /\ Len(messages) <= MaxMessages /\ closeSeen \in [Dirs -> BOOLEAN]
  BY DEF RelayTypes
<1>1. /\ raw' \in [Dirs -> Seq(Messages)]
      /\ raw'[d] = Append(raw[d], m) /\ raw'[Other(d)] = raw[Other(d)]
      /\ recv' \in [Dirs -> Seq(Wires)]
  BY ReadHistories
<1>2. pingPongs' \in [Dirs -> Seq(Payloads)]  BY ReadBooks
<1>3. Len(raw[d]) \in Nat /\ Len(raw[Other(d)]) \in Nat /\ Len(raw'[d]) = Len(raw[d]) + 1
      /\ Len(raw'[Other(d)]) = Len(raw[Other(d)])
  BY <1>0, <1>1, Sides
<1>4. \A e \in Dirs : Len(raw'[e]) <= MaxReads
  <2>1. Len(raw'[d]) <= MaxReads  BY <1>3, RelayAssumption DEF Reading
  <2>2. Len(raw'[Other(d)]) <= MaxReads  BY <1>0, <1>3, Sides
  <2> QED  BY <2>1, <2>2, Sides
<1>5. total' \in Nat /\ total' <= Len(raw'["c2s"]) + Len(raw'["s2c"])
  <2>1. total' \in {total, total + 1}  BY DEF Unrecorded, Recorded
  <2> DEFINE a == Len(raw["c2s"])
             b == Len(raw["s2c"])
             x == Len(raw'["c2s"])
             y == Len(raw'["s2c"])
  <2>2. a \in Nat /\ b \in Nat /\ ((x = a + 1 /\ y = b) \/ (x = a /\ y = b + 1))
    <3>1. CASE d = "c2s"
      <4>1. Other(d) = "s2c"  BY <3>1 DEF Other
      <4> QED  BY <1>3, <3>1, <4>1
    <3>2. CASE d = "s2c"
      <4>1. Other(d) = "c2s"  BY <3>2 DEF Other
      <4> QED  BY <1>3, <3>2, <4>1
    <3> QED  BY <3>1, <3>2 DEF Dirs
  <2>3. total \in Nat /\ total <= a + b  BY <1>0
  <2> HIDE DEF a, b, x, y
  <2>4. total' \in Nat /\ total' <= x + y  BY <2>1, <2>2, <2>3
  <2> QED  BY <2>4 DEF x, y
<1>6. codec' \in [Dirs -> {"active", "byPeer", "byUs", "done"}]
  BY <1>0 DEF Reading, CodecAfterRead
<1>7. status' \in {0, 101, 400, 502, 504} /\ open' \in [Dirs -> BOOLEAN]  BY DEF RelayTypes, Reading
<1>8. CASE Unrecorded
  <2>1. /\ messages' \in Seq(Entry) /\ Len(messages') <= MaxMessages /\ closeSeen' \in [Dirs -> BOOLEAN]
        /\ pending' = NoMessage /\ phase' = "ended"
    BY <1>0, <1>8 DEF Unrecorded, Reading
  <2> QED  BY ZenonT(60), <1>1, <1>2, <1>4, <1>5, <1>6, <1>7, <2>1 DEF RelayTypes
<1>9. CASE Recorded(d, m)
  <2>1. EntryFor(d, m) \in Entry  BY <1>0, KeptIs DEF EntryFor, Entry
  <2>2. messages' = Append(messages, EntryFor(d, m)) /\ Len(messages) < MaxMessages  BY <1>9 DEF Recorded
  <2>3. messages' \in Seq(Entry) /\ Len(messages') <= MaxMessages
    BY <1>0, <2>1, <2>2, RelayAssumption
  <2>4. closeSeen' \in [Dirs -> BOOLEAN]
    <3>1. closeSeen' = [closeSeen EXCEPT ![d] = @ \/ m.kind = "close"]  BY <1>9 DEF Recorded
    <3>2. (closeSeen[d] \/ m.kind = "close") \in BOOLEAN  OBVIOUS
    <3> QED  BY <1>0, <3>1, <3>2
  <2>5. phase' \in {"relay", "ended"}  BY <1>9 DEF Recorded, Reading, End
  <2>6. pending' # NoMessage => pending' \in Awaits /\ phase' = "relay"
    <3> SUFFICES ASSUME pending' # NoMessage PROVE pending' \in Awaits /\ phase' = "relay"  OBVIOUS
    <3>1. pending' = [dir |-> d, msg |-> m, kind |-> m.kind] /\ ~(m.kind = "close" /\ ~FirstClose(d, m))
      BY <1>9 DEF Recorded
    <3>2. pending' \in Awaits  BY <3>1 DEF Awaits
    <3>3. ~(m.kind = "close" /\ BothClosed(closeSeen'))
      <4>1. ASSUME m.kind = "close" PROVE ~closeSeen'[Other(d)]
        <5>1. ~closeSeen[Other(d)]  BY <3>1, <4>1 DEF FirstClose
        <5>2. closeSeen'[Other(d)] = closeSeen[Other(d)]  BY <1>0, <1>9, Sides DEF Recorded
        <5> QED  BY <5>1, <5>2
      <4> QED  BY <4>1, Sides DEF BothClosed, Dirs
    <3>4. phase' = "relay"  BY <1>9, <3>3 DEF Recorded, Reading
    <3> QED  BY <3>2, <3>4
  <2> QED  BY ZenonT(60), <1>1, <1>2, <1>4, <1>5, <1>6, <1>7, <2>3, <2>4, <2>5, <2>6 DEF RelayTypes
<1> QED  BY <1>8, <1>9

(* A reading keeps the account of closes: the codec answers the first close *)
(* only.                                                                    *)
LEMMA ReadCloses ==
  ASSUME RelayTypes, CloseInv, NEW d \in Dirs, NEW m \in Messages, Reading(d, m),
         \A e \in Dirs : closeSeen'[e] => closeSeen[e] \/ (e = d /\ m.kind = "close")
  PROVE  CloseInv'
<1>1. /\ raw'[d] = Append(raw[d], m) /\ raw'[Other(d)] = raw[Other(d)]
      /\ recv'[d] = recv[d]
      /\ \/ /\ recv'[Other(d)] = recv[Other(d)]
            /\ codec[d] = "active" => m.kind \notin {"ping", "close"}
         \/ \E r \in Wires : /\ recv'[Other(d)] = Append(recv[Other(d)], r) /\ codec[d] = "active"
                             /\ \/ m.kind = "ping" /\ r.kind = "pong" /\ r.payload = m.payload
                                \/ m.kind = "close" /\ r.kind = "close"
  BY ReadHistories
<1>2. Other(d) \in Dirs /\ Other(Other(d)) = d /\ Other(d) # d /\ \A e \in Dirs : e = d \/ e = Other(d)
  BY Sides
<1>3. raw[d] \in Seq(Messages) /\ recv[Other(d)] \in Seq(Wires)  BY <1>2 DEF RelayTypes
<1>4. /\ ~closeSeen[d] /\ Closes(raw[d]) = 0
      /\ Closes(recv[Other(d)]) = IF codec[d] = "active" THEN 0 ELSE 1
  BY DEF CloseInv, Closed, Reading
<1>5. codec'[Other(d)] = codec[Other(d)]
      /\ codec'[d] = IF m.kind # "close" THEN codec[d] ELSE IF codec[d] = "active" THEN "byPeer" ELSE "done"
  BY <1>2 DEF Reading, CodecAfterRead, RelayTypes
<1>6. /\ closeSeen'[d] => codec'[d] \in Closed
      /\ Closes(raw'[d]) = IF codec'[d] \in Closed THEN 1 ELSE 0
      /\ Closes(recv'[Other(d)]) = IF codec'[d] = "active" THEN 0 ELSE 1
  <2>1. Closes(raw'[d]) = IF m.kind = "close" THEN 1 ELSE 0  BY <1>1, <1>3, <1>4, ClosesAppend
  <2>2. codec'[d] \in Closed <=> m.kind = "close"  BY <1>5 DEF Closed, Reading
  <2>3. closeSeen'[d] => m.kind = "close"  BY <1>4
  <2>4. Closes(recv'[Other(d)]) = IF codec'[d] = "active" THEN 0 ELSE 1
    <3>1. CASE recv'[Other(d)] = recv[Other(d)] /\ (codec[d] = "active" => m.kind \notin {"ping", "close"})
      BY <1>4, <1>5, <3>1
    <3>2. ASSUME NEW r \in Wires, recv'[Other(d)] = Append(recv[Other(d)], r), codec[d] = "active",
                 \/ m.kind = "ping" /\ r.kind = "pong" /\ r.payload = m.payload
                 \/ m.kind = "close" /\ r.kind = "close"
          PROVE  Closes(recv'[Other(d)]) = IF codec'[d] = "active" THEN 0 ELSE 1
      <4>1. Closes(recv'[Other(d)]) = IF r.kind = "close" THEN 1 ELSE 0  BY <1>3, <1>4, <3>2, ClosesAppend
      <4> QED  BY <1>5, <3>2, <4>1
    <3> QED  BY <1>1, <3>1, <3>2
  <2> QED  BY <2>1, <2>2, <2>3, <2>4
<1>7. LET e == Other(d) IN
      /\ closeSeen'[e] => codec'[e] \in Closed
      /\ Closes(raw'[e]) = IF codec'[e] \in Closed THEN 1 ELSE 0
      /\ Closes(recv'[Other(e)]) = IF codec'[e] = "active" THEN 0 ELSE 1
  <2> DEFINE e == Other(d)
  <2>1. /\ closeSeen[e] => codec[e] \in Closed
        /\ Closes(raw[e]) = IF codec[e] \in Closed THEN 1 ELSE 0
        /\ Closes(recv[d]) = IF codec[e] = "active" THEN 0 ELSE 1
    BY <1>2 DEF CloseInv
  <2>2. closeSeen'[e] => closeSeen[e]  BY <1>2
  <2> QED  BY <1>1, <1>2, <1>5, <2>1, <2>2
<1> QED  BY <1>2, <1>6, <1>7 DEF CloseInv

\* The codec answers a ping once, and forwarding is not part of reading.
LEMMA ReadAnswers ==
  ASSUME RelayTypes, NEW d \in Dirs, NEW m \in Messages, Reading(d, m), NEW e \in Dirs, NEW p,
         Count(recv[e], "pong", p) <= Count(raw[Other(e)], "ping", p)
  PROVE  Count(recv'[e], "pong", p) <= Count(raw'[Other(e)], "ping", p)
<1>1. /\ raw'[d] = Append(raw[d], m) /\ raw'[Other(d)] = raw[Other(d)]
      /\ recv'[d] = recv[d]
      /\ \/ recv'[Other(d)] = recv[Other(d)]
         \/ \E r \in Wires : /\ recv'[Other(d)] = Append(recv[Other(d)], r)
                             /\ \/ m.kind = "ping" /\ r.kind = "pong" /\ r.payload = m.payload
                                \/ m.kind = "close" /\ r.kind = "close"
  BY ReadHistories
<1>2. Other(d) \in Dirs /\ Other(Other(d)) = d /\ \A x \in Dirs : x = d \/ x = Other(d)  BY Sides
<1>3. raw[d] \in Seq(Messages) /\ recv[Other(d)] \in Seq(Wires)  BY <1>2 DEF RelayTypes
<1>4. CASE e = d  BY <1>1, <1>2, <1>4
<1>5. CASE e = Other(d)
  <2> DEFINE a == Count(recv[Other(d)], "pong", p)
             b == Count(raw[d], "ping", p)
  <2>1. a \in Nat /\ b \in Nat /\ a <= b  BY <1>2, <1>3, <1>5, CountNat
  <2>2. Count(raw'[d], "ping", p) = b + (IF m.kind = "ping" /\ m.payload = p THEN 1 ELSE 0)
    BY <1>1, <1>3, CountAppend
  <2> HIDE DEF a, b
  <2>3. Count(recv'[Other(d)], "pong", p) <= a + (IF m.kind = "ping" /\ m.payload = p THEN 1 ELSE 0)
    <3>1. CASE recv'[Other(d)] = recv[Other(d)]  BY <2>1, <3>1 DEF a
    <3>2. ASSUME NEW r \in Wires, recv'[Other(d)] = Append(recv[Other(d)], r),
                 \/ m.kind = "ping" /\ r.kind = "pong" /\ r.payload = m.payload
                 \/ m.kind = "close" /\ r.kind = "close"
          PROVE  Count(recv'[Other(d)], "pong", p) <= a + (IF m.kind = "ping" /\ m.payload = p THEN 1 ELSE 0)
      <4>1. Count(Append(recv[Other(d)], r), "pong", p) = a + (IF r.kind = "pong" /\ r.payload = p THEN 1 ELSE 0)
        BY <1>3, CountAppend DEF a
      <4>2. r.kind = "pong" /\ r.payload = p => m.kind = "ping" /\ m.payload = p  BY <3>2
      <4> QED  BY <2>1, <3>2, <4>1, <4>2
    <3> QED  BY <1>1, <3>1, <3>2
  <2>4. Count(recv'[Other(d)], "pong", p) \in Nat
    <3>1. recv' \in [Dirs -> Seq(Wires)]  BY ReadHistories
    <3> QED  BY <1>2, <3>1, CountNat
  <2> QED  BY <1>2, <1>5, <2>1, <2>2, <2>3, <2>4
<1> QED  BY <1>2, <1>4, <1>5

-----------------------------------------------------------------------------
\* One more message is kept at the end.
LEMMA KeptsAppend ==
  ASSUME NEW s \in Seq(Messages), NEW m \in Messages
  PROVE  Kepts(Append(s, m)) = Kepts(s) \o <<Kept(m)>>
<1> DEFINE t == Append(s, m)
           L == Len(s)
           w == Kepts(s) \o <<Kept(m)>>
<1>1. t \in Seq(Messages) /\ Len(t) = L + 1 /\ L \in Nat /\ t[L + 1] = m /\ \A i \in 1..L : t[i] = s[i]
  OBVIOUS
<1> HIDE DEF t
<1>2. Kepts(t) \in Seq(Keeps) /\ Len(Kepts(t)) = L + 1  BY <1>1, KeptsSeq
<1>3. Kepts(s) \in Seq(Keeps) /\ Len(Kepts(s)) = L  BY KeptsSeq
<1>4. <<Kept(m)>> \in Seq(Keeps)  BY KeptIs
<1>5. w \in Seq(Keeps) /\ Len(w) = L + 1 /\ w[L + 1] = Kept(m) /\ \A i \in 1..L : w[i] = Kepts(s)[i]
  BY <1>1, <1>3, <1>4
<1>6. DOMAIN t = 1..(L + 1) /\ DOMAIN s = 1..L  BY <1>1
<1> HIDE DEF w
<1>7. ASSUME NEW i \in 1..(L + 1) PROVE Kepts(t)[i] = w[i]
  <2>1. CASE i = L + 1  BY <1>1, <1>5, <1>6, <2>1 DEF Kepts
  <2>2. CASE i # L + 1
    <3>1. i \in 1..L  BY <1>1, <2>2
    <3>2. Kepts(s)[i] = Kept(s[i])  BY <1>6, <3>1 DEF Kepts
    <3> QED  BY <1>1, <1>5, <1>6, <3>1, <3>2 DEF Kepts
  <2> QED  BY <2>1, <2>2
<1>8. Kepts(t) = w  BY <1>1, <1>2, <1>5, <1>7, SeqEqual
<1> QED  BY <1>8 DEF t, w

\* A pong or a close is no data.
LEMMA QuietReply ==
  ASSUME NEW s \in Seq(Wires), NEW t,
         \/ t = s
         \/ \E r \in Wires : t = Append(s, r) /\ r.kind \in {"pong", "close"}
  PROVE  Data(t) = Data(s)
<1>1. ASSUME NEW r \in Wires, t = Append(s, r), r.kind \in {"pong", "close"} PROVE Data(t) = Data(s)
  <2>1. DataOf(r) = <<>>  BY <1>1 DEF DataOf
  <2>2. Data(s) \in Seq(Wires)  BY DataIs
  <2>3. Data(s) \o <<>> = Data(s)  BY <2>2
  <2> QED  BY <1>1, <2>1, <2>3, DataAppend
<1> QED  BY <1>1

(* The codec's own answers are no data.                                     *)
LEMMA QuietHistories ==
  ASSUME RelayTypes, NEW d \in Dirs, NEW m \in Messages, Reading(d, m)
  PROVE  /\ raw' \in [Dirs -> Seq(Messages)]
         /\ raw'[d] = Append(raw[d], m) /\ raw'[Other(d)] = raw[Other(d)]
         /\ recv' \in [Dirs -> Seq(Wires)] /\ recv'[d] = recv[d]
         /\ \/ recv'[Other(d)] = recv[Other(d)]
            \/ \E r \in Wires : recv'[Other(d)] = Append(recv[Other(d)], r) /\ r.kind \in {"pong", "close"}
<1>1. /\ raw' \in [Dirs -> Seq(Messages)]
      /\ raw'[d] = Append(raw[d], m) /\ raw'[Other(d)] = raw[Other(d)]
      /\ recv' \in [Dirs -> Seq(Wires)] /\ recv'[d] = recv[d]
  BY ReadHistories
<1>2. \/ recv'[Other(d)] = recv[Other(d)]
      \/ \E r \in Wires : /\ recv'[Other(d)] = Append(recv[Other(d)], r) /\ codec[d] = "active"
                          /\ \/ m.kind = "ping" /\ r.kind = "pong" /\ r.payload = m.payload
                             \/ m.kind = "close" /\ r.kind = "close"
  BY ReadHistories
<1>3. \A k : k = "pong" \/ k = "close" => k \in {"pong", "close"}  OBVIOUS
<1> QED  BY <1>1, <1>2, <1>3

(* A message that cannot be kept ends the loop; the transcript is what came *)
(* before it.                                                               *)
LEMMA ReadUnrecorded ==
  ASSUME RelayInv, NEW d \in Dirs, NEW m \in Messages, Reading(d, m), Unrecorded, UNCHANGED scriptVars
  PROVE  RelayInv'
<1> USE DEF RelayInv
<1>0. ~Going' /\ phase' = "ended" /\ messages' = messages /\ closeSeen' = closeSeen
      /\ pending' = NoMessage /\ pending = NoMessage /\ opts' = opts /\ phase = "relay"
  BY DEF Unrecorded, Reading, Going
<1>1. RelayTypes'  BY ReadTypes
<1>2. TerminalInv'  BY <1>0 DEF TerminalInv, Unrecorded
<1>3. TranscriptInv'  BY <1>0, TranscriptKept
<1>4. CloseInv'  BY <1>0, ReadCloses
<1>5. OrderInv'
  <2>1. /\ raw'[d] = Append(raw[d], m) /\ raw'[Other(d)] = raw[Other(d)]
        /\ recv' \in [Dirs -> Seq(Wires)] /\ recv'[d] = recv[d]
        /\ \/ recv'[Other(d)] = recv[Other(d)]
           \/ \E r \in Wires : recv'[Other(d)] = Append(recv[Other(d)], r) /\ r.kind \in {"pong", "close"}
    BY QuietHistories
  <2>2. terminal'.kind # "clean"  BY DEF Unrecorded, Abnormal
  <2>3. Other(d) \in Dirs /\ \A e \in Dirs : e = d \/ e = Other(d)  BY Sides
  <2>4. raw[d] \in Seq(Messages) /\ raw[Other(d)] \in Seq(Messages)
        /\ recv[d] \in Seq(Wires) /\ recv[Other(d)] \in Seq(Wires)
    BY <2>3 DEF RelayTypes
  <2>5. \A e \in Dirs : EntriesOf(messages, e) = Kepts(raw[e]) /\ Data(raw[e]) = Data(recv[e])
    <3>1. \A e \in Dirs : OnTheWay(e) = <<>>  BY <1>0 DEF OnTheWay
    <3>2. ASSUME NEW e \in Dirs PROVE Data(recv[e]) \o <<>> = Data(recv[e])
      <4>1. recv[e] \in Seq(Wires)  BY DEF RelayTypes
      <4>2. Data(recv[e]) \in Seq(Wires)  BY <4>1, DataIs
      <4> QED  BY <4>2
    <3> QED  BY <1>0, <3>1, <3>2 DEF OrderInv, Going
  <2>6. \A e \in Dirs : Data(recv'[e]) = Data(recv[e])  BY <2>1, <2>3, <2>4, QuietReply
  <2>7. ASSUME NEW e \in Dirs
        PROVE  \E x \in {<<>>} \cup {DataOf(m)} : Data(raw'[e]) = Data(recv[e]) \o x
    <3>1. Data(raw'[d]) = Data(recv[d]) \o DataOf(m)  BY <2>1, <2>4, <2>5, DataAppend
    <3>2. Data(recv[Other(d)]) \in Seq(Wires)  BY <2>4, DataIs
    <3>3. Data(raw'[Other(d)]) = Data(recv[Other(d)]) \o <<>>  BY <2>1, <2>3, <2>5, <3>2
    <3> QED  BY <2>3, <3>1, <3>3
  <2>8. ASSUME NEW e \in Dirs
        PROVE  \E x \in {<<>>, <<Kept(m)>>} : Kepts(raw'[e]) = EntriesOf(messages, e) \o x
    <3>1. Kepts(raw'[d]) = EntriesOf(messages, d) \o <<Kept(m)>>  BY <2>1, <2>4, <2>5, KeptsAppend
    <3>2. EntriesOf(messages, Other(d)) \in Seq(Keeps)  BY <2>3, <2>4, <2>5, KeptsSeq
    <3>3. Kepts(raw'[Other(d)]) = EntriesOf(messages, Other(d)) \o <<>>  BY <2>1, <2>3, <2>5, <3>2
    <3> QED  BY <2>3, <3>1, <3>3
  <2>9. ASSUME NEW e \in Dirs
        PROVE  /\ IsPrefix(Entries(e)', [i \in DOMAIN raw[e] |-> Kept(raw[e][i])]')
               /\ IsPrefix(Data(recv'[e]), Data(raw'[e]))
               /\ Len(Data(raw'[e])) <= Len(Data(recv'[e])) + 1
    <3>1. Entries(e)' = EntriesOf(messages, e)  BY <1>0 DEF Entries, EntriesOf, EntryOf
    <3>2. [i \in DOMAIN raw[e] |-> Kept(raw[e][i])]' = Kepts(raw'[e])  BY <1>0, KeptsSame
    <3>3. IsPrefix(EntriesOf(messages, e), Kepts(raw'[e]))
      <4>1. PICK x \in {<<>>, <<Kept(m)>>} : Kepts(raw'[e]) = EntriesOf(messages, e) \o x  BY <2>8
      <4>2. EntriesOf(messages, e) \in Seq(Keeps)  BY <2>3, <2>4, <2>5, KeptsSeq
      <4>3. x \in Seq(Keeps)
        <5>1. Kept(m) \in Keeps  BY KeptIs
        <5>2. <<Kept(m)>> \in Seq(Keeps) /\ <<>> \in Seq(Keeps)  BY <5>1
        <5> QED  BY <5>2
      <4> QED  BY <4>1, <4>2, <4>3, PrefixIs
    <3>4. /\ IsPrefix(Data(recv[e]), Data(raw'[e])) /\ Len(Data(raw'[e])) <= Len(Data(recv[e])) + 1
      <4>1. PICK x \in {<<>>} \cup {DataOf(m)} : Data(raw'[e]) = Data(recv[e]) \o x  BY <2>7
      <4>2. Data(recv[e]) \in Seq(Wires)  BY <2>3, <2>4, DataIs
      <4>3. x \in Seq(Wires) /\ Len(x) <= 1
        <5>1. m \in Wires  BY DEF Wires
        <5>2. DataOf(m) \in Seq(Wires) /\ Len(DataOf(m)) <= 1  BY <5>1, DataOfSeq
        <5>3. <<>> \in Seq(Wires) /\ Len(<<>>) <= 1  OBVIOUS
        <5> QED  BY <5>2, <5>3
      <4>4. IsPrefix(Data(recv[e]), Data(recv[e]) \o x) /\ Len(Data(recv[e]) \o x) = Len(Data(recv[e])) + Len(x)
        BY <4>2, <4>3, PrefixIs
      <4> QED  BY <4>1, <4>2, <4>3, <4>4
    <3> QED  BY <2>6, <3>1, <3>2, <3>3, <3>4
  <2> QED  BY <1>0, <2>2, <2>9 DEF OrderInv, RelayedInOrder
<1>6. PongInv'
  <2> SUFFICES ASSUME NEW e \in Dirs, NEW p \in PingPayloads, AnsweringIn(messages, e, p)
               PROVE  Count(recv'[e], "pong", p) <= Count(raw'[Other(e)], "ping", p)
    BY <1>0 DEF PongInv
  <2>1. Count(recv[e], "pong", p) <= Count(raw[Other(e)], "ping", p)  BY DEF PongInv
  <2> QED  BY <2>1, ReadAnswers
<1>7. ScriptInv'
  <2>1. Len(messages) \in Nat  BY DEF RelayTypes
  <2> QED  BY <1>0, <2>1, ScriptKept
<1> QED  BY <1>1, <1>2, <1>3, <1>4, <1>5, <1>6, <1>7

-----------------------------------------------------------------------------
(* A message that is kept fits the transcript; a clean terminal is that of  *)
(* its last close.                                                          *)
LEMMA RecordedTranscript ==
  ASSUME RelayInv, NEW d \in Dirs, NEW m \in Messages, Reading(d, m), Recorded(d, m)
  PROVE  TerminalInv' /\ TranscriptInv'
<1> DEFINE e == EntryFor(d, m)
<1> USE DEF RelayInv
<1>1. messages \in Seq(Entry) /\ closeSeen \in [Dirs -> BOOLEAN]  BY DEF RelayTypes
<1>2. e.seq = Len(messages) /\ e.dir = d /\ e.msg = Kept(m) /\ e.msg.kind = m.kind
  BY KeptIs DEF EntryFor
<1>3. e \in Entry  BY <1>1, KeptIs DEF EntryFor, Entry
<1>4. messages' = Append(messages, e) /\ Len(messages) < MaxMessages  BY DEF Recorded
<1>5. Going /\ Closers(messages) # Dirs /\ ValidMessages(messages)
      /\ \A s \in Dirs : closeSeen[s] <=> s \in Closers(messages)
  BY DEF TranscriptInv, Going, Reading
<1>6. d \notin Closers(messages)
  <2>1. codec[d] \notin Closed  BY DEF Reading, Closed
  <2> QED  BY <1>5, <2>1 DEF CloseInv
<1>7. Fits(messages, e)
  <2>1. /\ m.kind = "close" => m.payload = Empty /\ Kept(m).payload = m.payload
        /\ Kept(m).reason # None => m.kind = "close" /\ m.code # None
        /\ Kept(m).code = m.code
        /\ Kept(m).red = "json" => m.kind = "text"
        /\ Kept(m).red = "reason" => m.kind = "close"
    BY KeptIs
  <2> HIDE DEF e
  <2> QED  BY <1>2, <1>4, <1>5, <1>6, <2>1 DEF Fits
<1> HIDE DEF e
<1>8. ValidMessages(messages')  BY <1>1, <1>3, <1>4, <1>5, <1>7, ValidAppend
<1>9. Closers(messages') = Closers(messages) \cup (IF m.kind = "close" THEN {d} ELSE {})
  BY <1>1, <1>2, <1>3, <1>4, ClosersAppend
<1>10. closeSeen' = [closeSeen EXCEPT ![d] = @ \/ m.kind = "close"]  BY DEF Recorded
<1>11. \A s \in Dirs : closeSeen'[s] <=> s \in Closers(messages')
  <2>1. \A s \in Dirs : closeSeen'[s] <=> closeSeen[s] \/ (s = d /\ m.kind = "close")  BY <1>1, <1>10
  <2> QED  BY <1>5, <1>9, <2>1
<1>12. Closers(messages') \subseteq Dirs
  <2>1. messages' \in Seq(Entry)  BY <1>1, <1>3, <1>4
  <2>2. \A i \in DOMAIN messages' : messages'[i] \in Entry  BY <2>1
  <2>3. \A x \in Entry : x.dir \in Dirs  BY DEF Entry
  <2> QED  BY <2>2, <2>3 DEF Closers
<1>13. BothClosed(closeSeen') <=> Closers(messages') = Dirs
  BY <1>11, <1>12 DEF BothClosed, Dirs
<1>14. CASE m.kind = "close" /\ BothClosed(closeSeen')
  <2>1. terminal' = CleanClose(Kept(m).code, Kept(m).reason) /\ phase' = "ended"
    BY <1>14 DEF Recorded, End
  <2>2. /\ terminal'.kind = "clean" /\ terminal'.code = Kept(m).code /\ terminal'.reason = Kept(m).reason
    BY <2>1 DEF CleanClose
  <2>3. Len(messages') = Len(messages) + 1 /\ messages' # <<>> /\ messages'[Len(messages')] = e
    BY <1>1, <1>3, <1>4
  <2>4. ValidTerminal(messages', terminal')
    BY <1>2, <1>13, <1>14, <2>2, <2>3 DEF ValidTerminal, CloseAt, Last
  <2>5. ~Going'  BY <2>1 DEF Going
  <2> QED  BY <1>8, <1>11, <2>2, <2>4, <2>5 DEF TerminalInv, TranscriptInv
<1>15. CASE ~(m.kind = "close" /\ BothClosed(closeSeen'))
  <2>1. terminal' = terminal /\ phase' = "relay" /\ terminal.kind = None
    BY <1>5, <1>15 DEF Recorded, Reading, TerminalInv
  <2>2. Closers(messages') # Dirs  BY <1>5, <1>9, <1>13, <1>15
  <2> QED  BY <1>8, <1>11, <2>1, <2>2 DEF TerminalInv, TranscriptInv
<1> QED  BY <1>14, <1>15

(* A message that is kept is awaited by its receiver, or is no data.        *)
LEMMA RecordedOrder ==
  ASSUME RelayInv, NEW d \in Dirs, NEW m \in Messages, Reading(d, m), Recorded(d, m), RelayTypes'
  PROVE  OrderInv'
<1> USE DEF RelayInv
<1>1. /\ raw' \in [Dirs -> Seq(Messages)]
      /\ raw'[d] = Append(raw[d], m) /\ raw'[Other(d)] = raw[Other(d)]
      /\ recv' \in [Dirs -> Seq(Wires)] /\ recv'[d] = recv[d]
      /\ \/ recv'[Other(d)] = recv[Other(d)]
         \/ \E r \in Wires : recv'[Other(d)] = Append(recv[Other(d)], r) /\ r.kind \in {"pong", "close"}
  BY QuietHistories
<1>2. Other(d) \in Dirs /\ Other(d) # d /\ \A e \in Dirs : e = d \/ e = Other(d)  BY Sides
<1>3. raw[d] \in Seq(Messages) /\ raw[Other(d)] \in Seq(Messages)
      /\ recv[d] \in Seq(Wires) /\ recv[Other(d)] \in Seq(Wires) /\ messages \in Seq(Entry)
  BY <1>2 DEF RelayTypes
<1>4. \A e \in Dirs : EntriesOf(messages, e) = Kepts(raw[e]) /\ Data(raw[e]) = Data(recv[e])
  <2>1. \A e \in Dirs : OnTheWay(e) = <<>>  BY DEF OnTheWay, Reading
  <2>2. ASSUME NEW e \in Dirs PROVE Data(recv[e]) \o <<>> = Data(recv[e])
    <3>1. recv[e] \in Seq(Wires)  BY DEF RelayTypes
    <3>2. Data(recv[e]) \in Seq(Wires)  BY <3>1, DataIs
    <3> QED  BY <3>2
  <2> QED  BY <2>1, <2>2 DEF OrderInv, Going, Reading
<1>5. EntryFor(d, m) \in Entry /\ \A x \in Entry : x.msg \in Keeps
  BY <1>3, KeptIs DEF EntryFor, Entry
<1>6. \A e \in Dirs : EntriesOf(messages', e) = Kepts(raw'[e])
  <2>1. \A e \in Dirs : EntriesOf(messages', e) = EntriesOf(messages, e) \o EntryOf(EntryFor(d, m), e)
    <3>1. messages' = Append(messages, EntryFor(d, m)) /\ messages \in Seq(Entry)  BY <1>3 DEF Recorded
    <3> SUFFICES ASSUME NEW e \in Dirs
                 PROVE  EntriesOf(Append(messages, EntryFor(d, m)), e) =
                          EntriesOf(messages, e) \o EntryOf(EntryFor(d, m), e)
      BY <3>1
    <3>2. EntryFor(d, m) \in Entry  BY <1>5
    <3>3. \A x \in Entry : x.msg \in Keeps  BY <1>5
    <3> QED  BY ZenonT(60), <3>1, <3>2, <3>3, EntriesAppend
  <2>2. EntryOf(EntryFor(d, m), d) = <<Kept(m)>> /\ EntryOf(EntryFor(d, m), Other(d)) = <<>>
    BY <1>2 DEF EntryOf, EntryFor
  <2>3. EntriesOf(messages', d) = Kepts(raw'[d])  BY <1>1, <1>3, <1>4, <2>1, <2>2, KeptsAppend
  <2>4. Kepts(raw[Other(d)]) \in Seq(Keeps)  BY <1>3, KeptsSeq
  <2>5. Kepts(raw[Other(d)]) \o <<>> = Kepts(raw[Other(d)])  BY <2>4
  <2>6. EntriesOf(messages', Other(d)) = Kepts(raw'[Other(d)])  BY <1>1, <1>2, <1>4, <2>1, <2>2, <2>5
  <2> QED  BY <1>2, <2>3, <2>6
<1>7. pending' = NoMessage \/ (pending' = [dir |-> d, msg |-> m, kind |-> m.kind] /\ pending' # NoMessage)
  BY DEF Recorded
<1>8. pending' = NoMessage => DataOf(m) = <<>>
  <2> SUFFICES ASSUME pending' = NoMessage PROVE DataOf(m) = <<>>  OBVIOUS
  <2>1. [dir |-> d, msg |-> m, kind |-> m.kind] # NoMessage
    <3>1. m.kind \in Kinds  BY RelayAssumption
    <3>2. [dir |-> d, msg |-> m, kind |-> m.kind].kind # NoMessage.kind  BY <3>1 DEF NoMessage, None, Kinds
    <3> QED  BY <3>2
  <2>2. Suppressed(d, m) \/ m.kind = "close"  BY <2>1 DEF Recorded
  <2>3. m.kind \in {"pong", "close"}  BY <2>2 DEF Suppressed
  <2> QED  BY <2>3 DEF DataOf
<1>9. OnTheWay(d)' = DataOf(m) /\ OnTheWay(Other(d))' = <<>>
  <2>1. CASE pending' = NoMessage  BY <1>8, <2>1 DEF OnTheWay
  <2>2. CASE pending' = [dir |-> d, msg |-> m, kind |-> m.kind] /\ pending' # NoMessage
    <3>1. pending'.dir = d /\ pending'.msg = m  BY <2>2
    <3> QED  BY <1>2, <2>2, <3>1 DEF OnTheWay
  <2> QED  BY <1>7, <2>1, <2>2
<1>10. \A e \in Dirs : Data(raw'[e]) = Data(recv'[e]) \o OnTheWay(e)'
  <2>1. Data(raw'[d]) = Data(recv'[d]) \o DataOf(m)
    <3>1. raw[d] \in Seq(Messages) /\ Data(raw[d]) = Data(recv[d])  BY <1>3, <1>4
    <3>2. Data(Append(raw[d], m)) = Data(raw[d]) \o DataOf(m)  BY <3>1, DataAppend
    <3> QED  BY <1>1, <3>1, <3>2
  <2>2. Data(recv'[Other(d)]) = Data(recv[Other(d)])  BY <1>1, <1>3, QuietReply
  <2>3. Data(recv[Other(d)]) \in Seq(Wires)  BY <1>3, DataIs
  <2>4. Data(raw'[Other(d)]) = Data(recv'[Other(d)]) \o <<>>  BY <1>1, <1>2, <1>4, <2>2, <2>3
  <2>5. ASSUME NEW e \in Dirs PROVE Data(raw'[e]) = Data(recv'[e]) \o OnTheWay(e)'
    <3>1. CASE e = d  BY <1>9, <2>1, <3>1
    <3>2. CASE e = Other(d)  BY <1>9, <2>4, <3>2
    <3> QED  BY <1>2, <3>1, <3>2
  <2> QED  BY <2>5
<1>11. terminal'.kind = "clean" => pending' = NoMessage
  <2>1. pending' # NoMessage => phase' = "relay"  BY DEF RelayTypes
  <2>2. phase' = "relay" => terminal' = terminal  BY DEF Recorded, End
  <2>3. terminal.kind = None  BY DEF TerminalInv, Going, Reading
  <2> QED  BY <2>1, <2>2, <2>3 DEF None
<1>12. pending' # NoMessage => pending'.msg \in Messages  BY <1>7
<1>13. opts' = opts  BY DEF Reading
<1> QED  BY <1>1, <1>6, <1>10, <1>11, <1>12, <1>13, OrderBalanced

(* A pong that answers a booked ping unbooks it and is not sent on.         *)
LEMMA RecordedPongs ==
  ASSUME RelayInv, NEW d \in Dirs, NEW m \in Messages, Reading(d, m), Recorded(d, m)
  PROVE  PongInv'
<1> USE DEF RelayInv
<1>1. messages \in Seq(Entry) /\ EntryFor(d, m) \in Entry /\ messages' = Append(messages, EntryFor(d, m))
  <2>1. messages \in Seq(Entry)  BY DEF RelayTypes
  <2> QED  BY <2>1, KeptIs DEF Recorded, EntryFor, Entry
<1>2. EntryFor(d, m).dir = d /\ EntryFor(d, m).msg = Kept(m) /\ Kept(m).kind = m.kind
      /\ (m.kind \in {"ping", "pong"} => Kept(m).payload = m.payload)
  BY KeptIs DEF EntryFor
<1>3. Other(d) \in Dirs /\ Other(d) # d /\ Other(Other(d)) = d /\ \A e \in Dirs : e = d \/ e = Other(d)
  BY Sides
<1>4. pending = NoMessage /\ Going  BY DEF Reading, Going
<1> SUFFICES ASSUME NEW e \in Dirs, NEW p \in PingPayloads, AnsweringIn(messages', e, p)
             PROVE  /\ Count(recv'[e], "pong", p) <= Count(raw'[Other(e)], "ping", p)
                    /\ Times(pingPongs'[Other(e)], p) + Said(messages', e, "pong", p)
                         = Said(messages', Other(e), "ping", p)
                    /\ pending' # NoMessage /\ pending'.dir = e /\ pending'.msg.kind = "pong"
                         => pending'.msg.payload # p
  BY DEF PongInv
<1>5. AnsweringIn(messages, e, p) /\ Said(messages', e, "pong", p) <= Said(messages', Other(e), "ping", p)
  BY <1>1, AnsweringAppend
<1>6. /\ Count(recv[e], "pong", p) <= Count(raw[Other(e)], "ping", p)
      /\ Times(pingPongs[Other(e)], p) + Said(messages, e, "pong", p) = Said(messages, Other(e), "ping", p)
  BY <1>4, <1>5 DEF PongInv
<1>7. Count(recv'[e], "pong", p) <= Count(raw'[Other(e)], "ping", p)  BY <1>6, ReadAnswers
<1> DEFINE a == Times(pingPongs[Other(e)], p)
           b == Said(messages, e, "pong", p)
           c == Said(messages, Other(e), "ping", p)
<1>8. /\ Times(pingPongs[d], p) \in Nat /\ Times(pingPongs[Other(d)], p) \in Nat
      /\ Times(pingPongs'[d], p) =
           Times(pingPongs[d], p) + (IF m.kind = "ping" /\ m.payload = p THEN 1 ELSE 0)
      /\ Times(pingPongs'[Other(d)], p) =
           Times(pingPongs[Other(d)], p) - (IF Suppressed(d, m) /\ m.payload = p THEN 1 ELSE 0)
  BY ReadBooks
<1>9. a \in Nat /\ b \in Nat /\ c \in Nat /\ a + b = c
  <2>1. Other(e) \in Dirs /\ (Other(e) = d \/ Other(e) = Other(d))  BY Sides
  <2>2. a \in Nat  BY <1>8, <2>1
  <2> QED  BY <1>1, <1>6, <2>2, SaidNat
<1>10. /\ Said(messages', e, "pong", p) = b + (IF e = d /\ m.kind = "pong" /\ m.payload = p THEN 1 ELSE 0)
       /\ Said(messages', Other(e), "ping", p) =
            c + (IF Other(e) = d /\ m.kind = "ping" /\ m.payload = p THEN 1 ELSE 0)
  <2>1. \A s, k : Said(messages', s, k, p) = Said(messages, s, k, p)
                    + (IF d = s /\ Kept(m).kind = k /\ Kept(m).payload = p THEN 1 ELSE 0)
    BY <1>1, <1>2, SaidAppend
  <2>2. \A k \in {"ping", "pong"} : Kept(m).kind = k /\ Kept(m).payload = p <=> m.kind = k /\ m.payload = p
    BY <1>2
  <2>3. Said(messages', e, "pong", p) = b + (IF d = e /\ Kept(m).kind = "pong" /\ Kept(m).payload = p THEN 1 ELSE 0)
    BY <2>1
  <2>4. Said(messages', Other(e), "ping", p) =
          c + (IF d = Other(e) /\ Kept(m).kind = "ping" /\ Kept(m).payload = p THEN 1 ELSE 0)
    BY <2>1
  <2> QED  BY <2>2, <2>3, <2>4
<1> HIDE DEF a, b, c
\* An answering pong has its ping booked, so it goes no further.
<1>11. ASSUME e = d, m.kind = "pong", m.payload = p PROVE Suppressed(d, m)
  <2>1. b + 1 <= c
    <3>1. Said(messages', e, "pong", p) = b + 1  BY <1>10, <1>11
    <3>2. Said(messages', Other(e), "ping", p) = c + 0  BY <1>3, <1>10, <1>11
    <3> QED  BY <1>5, <1>9, <3>1, <3>2
  <2>2. a # 0  BY <1>9, <2>1
  <2>3. pingPongs[Other(d)] \in Seq(Payloads)  BY <1>3 DEF RelayTypes
  <2>4. Times(pingPongs[Other(d)], p) # 0  BY <1>11, <2>2 DEF a
  <2>5. Contains(pingPongs[Other(d)], p)  BY <2>3, <2>4, TimesContained
  <2> QED  BY <1>11, <2>5 DEF Suppressed
<1>12. Times(pingPongs'[Other(e)], p) + Said(messages', e, "pong", p) = Said(messages', Other(e), "ping", p)
  <2>1. CASE e = d
    <3>1. Times(pingPongs'[Other(e)], p) = a - (IF Suppressed(d, m) /\ m.payload = p THEN 1 ELSE 0)
      BY <1>8, <2>1 DEF a
    <3>2. Suppressed(d, m) /\ m.payload = p <=> m.kind = "pong" /\ m.payload = p
      BY <1>11, <2>1 DEF Suppressed
    <3>3. Said(messages', Other(e), "ping", p) = c  BY <1>3, <1>9, <1>10, <2>1
    <3> QED  BY <1>9, <1>10, <2>1, <3>1, <3>2, <3>3
  <2>2. CASE e = Other(d)
    <3>0. Other(e) = d /\ e # d  BY <1>3, <2>2
    <3>1. Times(pingPongs'[Other(e)], p) = a + (IF m.kind = "ping" /\ m.payload = p THEN 1 ELSE 0)
      BY <1>8, <3>0 DEF a
    <3>2. Said(messages', e, "pong", p) = b  BY <1>9, <1>10, <3>0
    <3>3. Said(messages', Other(e), "ping", p) = c + (IF m.kind = "ping" /\ m.payload = p THEN 1 ELSE 0)
      BY <1>10, <3>0
    <3> QED  BY <1>9, <3>1, <3>2, <3>3
  <2> QED  BY <1>3, <2>1, <2>2
<1>13. ASSUME pending' # NoMessage, pending'.dir = e, pending'.msg.kind = "pong" PROVE pending'.msg.payload # p
  <2>1. pending' = [dir |-> d, msg |-> m, kind |-> m.kind] /\ ~Suppressed(d, m)  BY <1>13 DEF Recorded
  <2>2. e = d /\ m.kind = "pong" /\ pending'.msg = m  BY <1>13, <2>1
  <2> QED  BY <1>11, <2>1, <2>2
<1> QED  BY <1>7, <1>12, <1>13

(* A message is read.                                                       *)
LEMMA ReadFaithful ==
  ASSUME RelayInv, NEW d \in Dirs, NEW m \in Messages, Read(d, m), UNCHANGED scriptVars
  PROVE  RelayInv'
<1>1. Reading(d, m) /\ (Unrecorded \/ Recorded(d, m))  BY ReadIs DEF RelayInv
<1>2. CASE Unrecorded  BY <1>1, <1>2, ReadUnrecorded
<1>3. CASE Recorded(d, m)
  <2>1. RelayTypes'  BY <1>1, ReadTypes DEF RelayInv
  <2>2. TerminalInv' /\ TranscriptInv'  BY <1>1, <1>3, RecordedTranscript
  <2>3. CloseInv'
    <3>1. closeSeen' = [closeSeen EXCEPT ![d] = @ \/ m.kind = "close"]  BY <1>3 DEF Recorded
    <3>2. \A e \in Dirs : closeSeen'[e] => closeSeen[e] \/ (e = d /\ m.kind = "close")
      BY <3>1 DEF RelayInv, RelayTypes
    <3> QED  BY <1>1, <3>2, ReadCloses DEF RelayInv
  <2>4. OrderInv'  BY <1>1, <1>3, <2>1, RecordedOrder
  <2>5. PongInv'  BY <1>1, <1>3, RecordedPongs
  <2>6. ScriptInv'
    <3>1. messages \in Seq(Entry) /\ messages' \in Seq(Entry)  BY <2>1 DEF RelayInv, RelayTypes
    <3>2. Len(messages) \in Nat /\ Len(messages') \in Nat  BY <3>1
    <3> QED  BY <1>1, <3>2, ScriptKept DEF RelayInv, Reading
  <2> QED  BY <2>1, <2>2, <2>3, <2>4, <2>5, <2>6 DEF RelayInv
<1> QED  BY <1>1, <1>2, <1>3

-----------------------------------------------------------------------------
(* A step outside the relay.                                                *)
LEMMA UnchangedFaithful ==
  ASSUME RelayInv, UNCHANGED relayVars, ScriptInv'
  PROVE  RelayInv'
<1> USE DEF RelayInv, relayVars
<1>1. RelayTypes'
  <2>1. /\ status \in {0, 101, 400, 502, 504} /\ open \in [Dirs -> BOOLEAN]
        /\ phase \in {"upgrade", "refused", "relay", "ended", "stored", "lost"}
        /\ pending # NoMessage => phase = "relay"
    BY DEF RelayTypes
  <2> QED  BY <2>1, TypesKept
<1>2. TerminalInv'  BY DEF TerminalInv, Going
<1>3. TranscriptInv'  BY TranscriptKept DEF Going
<1>4. CloseInv'  BY CloseKept
<1>5. OrderInv'  BY OrderKept DEF Going
<1>6. PongInv'  BY PongKept DEF Going
<1> QED  BY <1>1, <1>2, <1>3, <1>4, <1>5, <1>6

-----------------------------------------------------------------------------
(* A script that uses the conversation again leaves the relay alone.        *)

(* The replay server's and the runner's scripts use the conversation and    *)
(* change nothing of it.                                                    *)
LEMMA ScriptFaithful ==
  ASSUME RelayInv, ScriptNext
  PROVE  RelayInv'
<1> USE DEF RelayInv
<1>0. Len(messages) \in Nat  BY DEF RelayTypes
<1>1. UNCHANGED relayVars
  BY DEF ScriptNext, StartReplay, ScriptReceive, ScriptSend, ScriptEnd, ScriptStop, StartCompare,
         CompareSend, CompareReceive, CompareEnd
<1>2. ScriptInv'
  <2>0. messages' = messages /\ phase' = phase  BY <1>1 DEF relayVars
  <2>1. phase = "stored"
    <3>1. role # None \/ phase = "stored"
      BY DEF ScriptNext, StartReplay, ScriptReceive, ScriptSend, ScriptEnd, ScriptStop, StartCompare,
             CompareSend, CompareReceive, CompareEnd, Scripting, None
    <3> QED  BY <3>1 DEF ScriptInv
  <2>2. pos \in 1..(Len(messages) + 1)
        /\ result \in {None, "running", "done", "stopped", "diverged", "cancelled", "refused"}
    BY DEF ScriptInv
  <2> SUFFICES /\ pos' \in 1..(Len(messages) + 1)
               /\ result' \in {None, "running", "done", "stopped", "diverged", "cancelled", "refused"}
    BY <2>0, <2>1 DEF ScriptInv
  <2>3. ASSUME pos <= Len(messages) PROVE pos + 1 \in 1..(Len(messages) + 1)  BY <1>0, <2>2, <2>3
  <2>4. Len(messages) + 1 \in 1..(Len(messages) + 1)  BY <1>0
  <2>5. CASE StartReplay  BY <2>2, <2>5 DEF StartReplay
  <2>6. CASE ScriptReceive  BY <2>2, <2>3, <2>6 DEF ScriptReceive, Scripting
  <2>7. CASE ScriptSend  BY <2>2, <2>3, <2>7 DEF ScriptSend, Scripting
  <2>8. CASE ScriptEnd  BY <2>2, <2>8 DEF ScriptEnd
  <2>9. CASE ScriptStop  BY <2>2, <2>9 DEF ScriptStop
  <2>10. CASE StartCompare  BY <2>2, <2>10 DEF StartCompare
  <2>11. CASE CompareSend  BY <2>2, <2>3, <2>4, <2>11 DEF CompareSend, Scripting, Break
  <2>12. CASE CompareReceive  BY <2>2, <2>3, <2>4, <2>12 DEF CompareReceive, Scripting, Break
  <2>13. CASE CompareEnd  BY <2>2, <2>13 DEF CompareEnd
  <2> QED
    BY <2>5, <2>6, <2>7, <2>8, <2>9, <2>10, <2>11, <2>12, <2>13 DEF ScriptNext
<1> QED  BY <1>1, <1>2, UnchangedFaithful

(* Every step keeps the invariant.                                          *)
LEMMA StepFaithful ==
  ASSUME RelayInv, [Next]_vars
  PROVE  RelayInv'
<1>1. CASE RelayNext /\ UNCHANGED scriptVars
  <2>1. CASE Upgrade  BY <1>1, <2>1, UpgradeFaithful
  <2>2. ASSUME NEW d \in Dirs, NEW m \in Messages, Read(d, m) PROVE RelayInv'
    BY <1>1, <2>2, ReadFaithful
  <2>3. CASE Forward  BY <1>1, <2>3, ForwardFaithful
  <2>4. ASSUME NEW d \in Dirs, ReadNone(d) PROVE RelayInv'  BY <1>1, <2>4, ReadNoneFaithful
  <2>5. CASE Interrupt  BY <1>1, <2>5, InterruptFaithful
  <2>6. ASSUME NEW d \in Dirs, Stall(d) PROVE RelayInv'  BY <1>1, <2>6, StallFaithful
  <2>7. CASE AppendConversation  BY <1>1, <2>7, AppendFaithful
  <2> QED  BY <1>1, <2>1, <2>2, <2>3, <2>4, <2>5, <2>6, <2>7 DEF RelayNext
<1>2. CASE ScriptNext  BY <1>2, ScriptFaithful
<1>3. CASE UNCHANGED vars
  <2>1. UNCHANGED relayVars /\ UNCHANGED scriptVars  BY <1>3 DEF vars
  <2>2. ScriptInv'  BY <2>1 DEF RelayInv, ScriptInv, relayVars, scriptVars
  <2> QED  BY <2>1, <2>2, UnchangedFaithful
<1> QED  BY <1>1, <1>2, <1>3 DEF Next

-----------------------------------------------------------------------------
(* Close codes: the transcript keeps what the sides sent.                   *)

SentInvalid(d) == \E i \in DOMAIN raw[d] : raw[d][i].code \in InvalidCodes
KeptInvalid == \E i \in DOMAIN messages : messages[i].msg.code \in InvalidCodes

Lost == {Abnormal("storage-error"), Abnormal("capture-limit")}

CodeInv == terminal \notin Lost => (KeptInvalid <=> \E d \in Dirs : SentInvalid(d))

(* A relay without a terminal has not lost a message.                       *)
LEMMA NotLost == terminal.kind = None => terminal \notin Lost
BY DEF Lost, Abnormal, None

(* A step that adds no message keeps the account of codes.                  *)
LEMMA CodesKept ==
  ASSUME CodeInv, UNCHANGED <<messages, raw>>, terminal' = terminal \/ terminal.kind = None
  PROVE  CodeInv'
<1>1. KeptInvalid' = KeptInvalid  BY DEF KeptInvalid
<1>2. \A d \in Dirs : SentInvalid(d)' = SentInvalid(d)  BY DEF SentInvalid
<1>3. terminal' \notin Lost => terminal \notin Lost
  <2>1. Lost' = Lost  BY DEF Lost, Abnormal
  <2> QED  BY <2>1, NotLost
<1>4. Lost' = Lost  BY DEF Lost, Abnormal
<1>5. (\E d \in Dirs : SentInvalid(d))' <=> \E d \in Dirs : SentInvalid(d)  BY <1>2
<1> QED  BY <1>1, <1>3, <1>4, <1>5 DEF CodeInv

(* A message that is recorded has its code in the transcript as it came.    *)
LEMMA CodesRecorded ==
  ASSUME RelayInv, CodeInv, NEW d \in Dirs, NEW m \in Messages, Reading(d, m), Recorded(d, m)
  PROVE  CodeInv'
<1> DEFINE e == EntryFor(d, m)
           bad == m.code \in InvalidCodes
<1>1. e \in Entry /\ e.msg.code = m.code /\ messages \in Seq(Entry) /\ messages' = Append(messages, e)
  <2>1. messages \in Seq(Entry)  BY DEF RelayInv, RelayTypes
  <2>2. Kept(m).code = m.code  BY KeptIs
  <2>3. messages' = Append(messages, e)  BY DEF Recorded
  <2>4. e \in Entry  BY <2>1, KeptIs DEF EntryFor, Entry
  <2>5. e.msg.code = m.code  BY <2>2 DEF EntryFor
  <2> HIDE DEF e
  <2> QED  BY <2>1, <2>3, <2>4, <2>5
<1> HIDE DEF e
<1>2. KeptInvalid' <=> KeptInvalid \/ bad
  <2> DEFINE n == Len(messages)
  <2>1. /\ n \in Nat /\ DOMAIN messages = 1..n /\ DOMAIN messages' = 1..(n + 1) /\ messages'[n + 1] = e
        /\ \A i \in 1..n : messages'[i] = messages[i]
    BY <1>1
  <2>2. \A i \in 1..(n + 1) : i \in 1..n \/ i = n + 1  BY <2>1
  <2>3. \A i \in 1..n : i \in 1..(n + 1)  BY <2>1
  <2>4. n + 1 \in 1..(n + 1)  BY <2>1
  <2> HIDE DEF n
  <2>5. KeptInvalid' <=> \E i \in DOMAIN messages' : messages'[i].msg.code \in InvalidCodes  BY DEF KeptInvalid
  <2> QED  BY <1>1, <2>1, <2>2, <2>3, <2>4, <2>5 DEF KeptInvalid
<1>3. raw \in [Dirs -> Seq(Messages)] /\ raw' = [raw EXCEPT ![d] = Append(@, m)]
  BY DEF RelayInv, RelayTypes, Reading
<1>4. \A c \in Dirs : c # d => raw'[c] = raw[c]  BY <1>3
<1>5. \A c \in Dirs : c # d => (SentInvalid(c)' <=> SentInvalid(c))  BY <1>4 DEF SentInvalid
<1>6. SentInvalid(d)' <=> SentInvalid(d) \/ bad
  <2> DEFINE s == raw[d]
             n == Len(s)
             t == Append(s, m)
  <2>1. s \in Seq(Messages) /\ raw'[d] = t  BY <1>3
  <2> HIDE DEF s
  <2>2. /\ n \in Nat /\ DOMAIN s = 1..n /\ DOMAIN t = 1..(n + 1) /\ t[n + 1] = m
        /\ \A i \in 1..n : t[i] = s[i]
    BY <2>1
  <2>3. \A i \in 1..(n + 1) : i \in 1..n \/ i = n + 1  BY <2>2
  <2>4. \A i \in 1..n : i \in 1..(n + 1)  BY <2>2
  <2>5. n + 1 \in 1..(n + 1)  BY <2>2
  <2>6. SentInvalid(d) <=> \E i \in DOMAIN s : s[i].code \in InvalidCodes  BY DEF SentInvalid, s
  <2>7. SentInvalid(d)' <=> \E i \in DOMAIN t : t[i].code \in InvalidCodes  BY <2>1 DEF SentInvalid
  <2> HIDE DEF n, t
  <2> QED  BY <2>2, <2>3, <2>4, <2>5, <2>6, <2>7
<1>7. (\E c \in Dirs : SentInvalid(c))' <=> (\E c \in Dirs : SentInvalid(c)) \/ bad  BY <1>5, <1>6
<1>8. terminal \notin Lost
  <2>1. terminal.kind = None  BY DEF RelayInv, TerminalInv, Going, Reading
  <2> QED  BY <2>1, NotLost
<1> QED  BY <1>2, <1>7, <1>8 DEF CodeInv

(* Every step keeps the account of codes.                                   *)
LEMMA StepCodes ==
  ASSUME RelayInv, CodeInv, [Next]_vars
  PROVE  CodeInv'
<1>1. ASSUME NEW d \in Dirs, NEW m \in Messages, Read(d, m) PROVE CodeInv'
  <2>1. Reading(d, m) /\ (Unrecorded \/ Recorded(d, m))  BY <1>1, ReadIs DEF RelayInv
  <2>2. CASE Unrecorded
    <3>1. terminal' \in Lost /\ Lost' = Lost  BY <2>2 DEF Unrecorded, Lost, Abnormal
    <3> QED  BY <3>1 DEF CodeInv
  <2>3. CASE Recorded(d, m)  BY <2>1, <2>3, CodesRecorded
  <2> QED  BY <2>1, <2>2, <2>3
<1>2. ASSUME UNCHANGED <<messages, raw>>, terminal' = terminal \/ phase = "relay" PROVE CodeInv'
  <2>1. phase = "relay" => terminal.kind = None  BY DEF RelayInv, TerminalInv, Going
  <2> QED  BY <1>2, <2>1, CodesKept
<1>3. CASE RelayNext /\ UNCHANGED scriptVars
  <2>1. CASE Upgrade \/ Forward \/ Interrupt \/ AppendConversation
    BY <1>2, <2>1 DEF Upgrade, Forward, Interrupt, Running, AppendConversation
  <2>2. ASSUME NEW d \in Dirs, ReadNone(d) \/ Stall(d) PROVE CodeInv'
    BY <1>2, <2>2 DEF ReadNone, Running, Stall
  <2> QED  BY <1>1, <1>3, <2>1, <2>2 DEF RelayNext
<1>4. CASE ScriptNext
  <2>1. UNCHANGED relayVars
    BY <1>4 DEF ScriptNext, StartReplay, ScriptReceive, ScriptSend, ScriptEnd, ScriptStop, StartCompare,
           CompareSend, CompareReceive, CompareEnd
  <2> QED  BY <1>2, <2>1 DEF relayVars
<1>5. CASE UNCHANGED vars  BY <1>2, <1>5 DEF vars, relayVars
<1> QED  BY <1>3, <1>4, <1>5 DEF Next

-----------------------------------------------------------------------------
(* What the invariant says of the relay.                                    *)

(* The invariant implies each part of the property.                         *)
LEMMA FaithfulThen ==
  ASSUME RelayInv, CodeInv
  PROVE  RelayFaithful
<1> USE DEF RelayInv
<1>1. TypeOK
  <2>1. "c2s" \in Dirs /\ "s2c" \in Dirs  BY Sides
  <2> DEFINE a == Len(raw["c2s"])
             b == Len(raw["s2c"])
  <2>2. a \in Nat /\ b \in Nat /\ a <= MaxReads /\ b <= MaxReads /\ total \in Nat /\ total <= a + b
    BY <2>1 DEF RelayTypes
  <2> HIDE DEF a, b
  <2>3. total \in 0..(2 * MaxReads)  BY <2>2, RelayAssumption
  <2> QED  BY <2>3 DEF TypeOK, RelayTypes, ScriptInv
<1>2. TranscriptAccepted
  <2> SUFFICES ASSUME phase = "ended", terminal # Abnormal("storage-error"), terminal # Abnormal("capture-limit")
               PROVE  ValidTerminal(messages, terminal)
    <3>1. ASSUME ValidTerminal(messages, terminal), terminal \notin Lost
          PROVE  ValidTranscript(messages, terminal) <=>
                   \A d \in Dirs : \A i \in DOMAIN raw[d] : raw[d][i].code \notin InvalidCodes
      <4>1. ValidTranscript(messages, terminal) <=> ~KeptInvalid
        BY <3>1 DEF ValidTranscript, TranscriptInv, ValidCodes, KeptInvalid
      <4>2. KeptInvalid <=> \E d \in Dirs : SentInvalid(d)  BY <3>1 DEF CodeInv
      <4> QED  BY <4>1, <4>2 DEF SentInvalid
    <3> QED  BY <3>1 DEF TranscriptAccepted, TranscriptInv, Lost
  <2>1. CASE \E c \in KnownCauses : terminal = Abnormal(c)
    BY <2>1 DEF ValidTerminal, Abnormal
  <2>2. CASE terminal.kind = "clean" /\ ValidTerminal(messages, terminal)  BY <2>2
  <2> QED  BY <2>1, <2>2 DEF TerminalInv
<1>3. RelayedInOrder  BY DEF OrderInv
<1>4. CleanCloseOnce
  <2>1. ASSUME NEW d \in Dirs PROVE Closes(recv[d]) <= 1
    <3>1. Other(d) \in Dirs /\ Other(Other(d)) = d  BY Sides
    <3>2. Closes(recv[d]) = IF codec[Other(d)] = "active" THEN 0 ELSE 1  BY <3>1 DEF CloseInv
    <3> QED  BY <3>2
  <2>2. ASSUME terminal.kind = "clean", NEW d \in Dirs PROVE Closes(raw[d]) = 1 /\ Closes(recv[d]) = 1
    <3>1. ValidTerminal(messages, terminal)  BY <2>2 DEF TerminalInv, Abnormal, None
    <3>2. Closers(messages) = Dirs  BY <2>2, <3>1 DEF ValidTerminal
    <3>3. \A s \in Dirs : codec[s] \in Closed  BY <3>2 DEF TranscriptInv, CloseInv
    <3>4. Other(d) \in Dirs /\ Other(Other(d)) = d  BY Sides
    <3>5. Closes(recv[d]) = IF codec[Other(d)] = "active" THEN 0 ELSE 1  BY <3>4 DEF CloseInv
    <3>6. Closes(raw[d]) = IF codec[d] \in Closed THEN 1 ELSE 0  BY DEF CloseInv
    <3> QED  BY <3>3, <3>4, <3>5, <3>6 DEF Closed
  <2> QED  BY <2>1, <2>2 DEF CleanCloseOnce
<1>5. PongOnce
  <2> SUFFICES ASSUME NEW d \in Dirs, NEW p \in PingPayloads, Answering(d, p)
               PROVE  Count(recv[d], "pong", p) <= Count(raw[Other(d)], "ping", p)
    BY DEF PongOnce, PingPayloads
  <2>1. AnsweringIn(messages, d, p)  BY AnsweringIs
  <2> QED  BY <2>1 DEF PongInv
<1> QED  BY <1>1, <1>2, <1>3, <1>4, <1>5 DEF RelayFaithful

(* Whatever the two endpoints send and however frames, pings, closes, limits, *)
(* the deadline and cancellation interleave in the tunnel task              *)
(* (recording.rs:1550-1775), the transcript it ends with is acceptable to the *)
(* store (websocket.rs:180-345) but for close codes nobody may send, keeps  *)
(* those as they came, has each side's messages in order, and the           *)
(* receivers were given the same data and one answer to each control frame. *)
THEOREM RelaysFaithful == Spec => []RelayFaithful
<1> DEFINE I == RelayInv /\ CodeInv
<1>1. Init => I
  <2> SUFFICES ASSUME Init PROVE CodeInv  BY StartsFaithful
  <2>1. messages = <<>> /\ \A d \in Dirs : raw[d] = <<>>  BY DEF Init, RelayInit
  <2> QED  BY <2>1 DEF CodeInv, KeptInvalid, SentInvalid
<1>2. I /\ [Next]_vars => I'  BY StepFaithful, StepCodes
<1>3. I => RelayFaithful  BY FaithfulThen
<1> QED  BY <1>1, <1>2, <1>3, PTL DEF Spec
=============================================================================
