-------------------------- MODULE FixtureReplaceProofs --------------------------
(***************************************************************************)
(* Proofs about FixtureReplace, for any number of invocations of any kind,  *)
(* killed or failing at any step.                                           *)
(***************************************************************************)
EXTENDS FixtureReplace, FiniteSetTheorems, WellFoundedInduction, TLAPS

(* What an invocation has in hand at each step: the source it opened, the   *)
(* replacement it staged, and at most one backup of its own, taken after    *)
(* its Backup step.                                                         *)
Holding ==
  /\ \A p \in Procs : pc[p] = "stage" /\ Kind[p] \in {"append", "migrate"} => source[p] \in Contents
  /\ \A p \in Procs : pc[p] \in {"replace", "backup", "publish", "swap"} => staged[p] \in Contents
  /\ \A b \in backups : pc[b.owner] \in {"swap", "rollback", "remove", "removing",
                                         "done", "failed", "killed"}
  /\ \A a, b \in backups : a.owner = b.owner => a = b
  /\ \A b \in backups : b.nonce < clock
  /\ \A a, b \in backups : a.nonce = b.nonce => a = b

(* A complete fixture is at the path, or in a backup nobody is deleting.    *)
Safe == committed # None =>
  \/ target \notin {None, Torn}
  \/ \E b \in backups : b.content # Torn /\ pc[b.owner] \notin {"remove", "removing"}

SurvivalInv == TypeOK /\ Holding /\ Safe

(* Backup names sort by the time they were taken: process ids, compared as  *)
(* text, do not run against the clock.                                      *)
NamesByTime == \A a, b \in backups : a.nonce < b.nonce => Pid[a.owner] <= Pid[b.owner]

(* The backup with the latest nonce.                                        *)
Newest(b) == b \in backups /\ \A a \in backups : a.nonce <= b.nonce

(* One invocation at a time: what it has done so far, and where the         *)
(* committed content is.                                                    *)
Sequential ==
  /\ \A p, q \in Procs : pc[p] \notin Ended /\ pc[q] \notin Ended => p = q
  /\ committed = None => backups = {}
  /\ \/ target = committed
     \/ target = None /\ \E b \in backups : Newest(b) /\ b.content = committed
  /\ \A p \in Procs : pc[p] = "try" =>
       target = None /\ \A b \in backups : Newest(b) => b.owner \in cands[p]
  /\ \A p \in Procs : pc[p] = "restore" =>
       target = None /\ \E b \in backups : Newest(b) /\ cands[p] = {b.owner}
  /\ \A p \in Procs : pc[p] = "resolve" /\ Kind[p] # "migrate" => target = committed
  /\ \A p \in Procs : pc[p] \in {"remove", "removing"} => target = committed
  /\ \A p \in Procs : pc[p] \in {"swap", "rollback"} =>
       target = None /\ \E b \in backups : Newest(b) /\ b.owner = p /\ b.content = committed

(* What is left of it after a recovery that missed a complete backup.       *)
CommittedKept ==
  /\ \A p, q \in Procs : pc[p] \notin Ended /\ pc[q] \notin Ended => p = q
  /\ committed = None => backups = {}
  /\ \/ target = committed
     \/ \E b \in backups : b.content = committed
  /\ \A p \in Procs : pc[p] \in {"remove", "removing"} => target = committed

RecoveryInv == SurvivalInv /\ (overlapped \/ CommittedKept) /\ (overlapped \/ misread \/ Sequential)
-----------------------------------------------------------------------------
Pcs == Ended \cup {"try", "restore", "resolve", "stage", "replace", "backup",
                   "publish", "swap", "rollback", "remove", "removing"}
Backups == [owner : Procs, nonce : Nat, content : Contents \cup {Torn}]

LEMMA ContentsProper ==
  None \notin Contents /\ Torn \notin Contents /\ None # Torn
BY ReplaceAssumption DEF Contents, None, Torn

LEMMA ContentsGrow ==
  /\ \A c : c \subseteq UNION Start /\ c # {} => c \in Contents
  /\ \A p \in Procs : {p} \in Contents
  /\ \A c \in Contents, p \in Procs : c \cup {p} \in Contents
<1>1. \A c : c \subseteq UNION Start /\ c # {} => c \in Contents
  BY DEF Contents
<1>2. ASSUME NEW p \in Procs PROVE {p} \in Contents
  BY {p} # {}, {p} \in SUBSET (Procs \cup UNION Start) DEF Contents
<1>3. ASSUME NEW c \in Contents, NEW p \in Procs PROVE c \cup {p} \in Contents
  <2>1. c \cup {p} # {} /\ c \cup {p} \in SUBSET (Procs \cup UNION Start)
    BY p \in c \cup {p} DEF Contents
  <2> QED BY <2>1 DEF Contents
<1> QED BY <1>1, <1>2, <1>3

(* Induction over the naturals, in terms of a set.                          *)
LEMMA NatSetInduction ==
  ASSUME NEW S \in SUBSET Nat, 0 \in S, \A n \in S : n + 1 \in S
  PROVE  S = Nat
<1> DEFINE T == Nat \ S
<1> DEFINE R == {ss \in Nat \X Nat : ss[1] < ss[2]}
<1> SUFFICES ASSUME T # {} PROVE FALSE
  OBVIOUS
<1>1. IsWellFoundedOn(R, Nat)
  BY NatLessThanWellFounded DEF OpToRel
<1> HIDE DEF R
<1>2. PICK x \in T : \A y \in T : ~(<<y, x>> \in R)
  BY <1>1, WFMin
<1>3. \A y \in T : ~(y < x)
  BY <1>2 DEF R
<1>4. x - 1 \in Nat /\ x - 1 < x
  OBVIOUS
<1> QED BY <1>3, <1>4

(* NameBefore is a strict total order on backups with distinct nonces.      *)
LEMMA NameOrder ==
  ASSUME NEW a \in Backups, NEW b \in Backups, NEW c \in Backups
  PROVE  /\ NameBefore(a, b) /\ NameBefore(b, c) => NameBefore(a, c)
         /\ ~(NameBefore(a, b) /\ NameBefore(b, a))
         /\ NameBefore(a, b) \/ NameBefore(b, a) \/ a.nonce = b.nonce
BY ReplaceAssumption DEF Backups, NameBefore

LEMMA BackupsFinite == ASSUME TypeOK, Holding PROVE IsFiniteSet(backups)
<1> DEFINE f == [b \in backups |-> b.owner]
<1>1. f \in Injection(backups, Procs)
  BY DEF Injection, IsInjective, TypeOK, Holding
<1> QED BY <1>1, FS_Injection, ReplaceAssumption

(* The sorted names of a read_dir snapshot have a last one.                 *)
LEMMA LastExists ==
  ASSUME TypeOK, Holding, NEW S \in SUBSET backups, S # {}
  PROVE  Last(S) \in S /\ \A a \in S \ {Last(S)} : NameBefore(a, Last(S))
<1> DEFINE HasLast(U) == \E b \in U : \A a \in U \ {b} : NameBefore(a, b)
           N == {n \in Nat : \A U \in SUBSET backups : IsFiniteSet(U) /\ Cardinality(U) = n + 1 => HasLast(U)}
<1>b. backups \subseteq Backups /\ \A a, b \in backups : a.nonce = b.nonce => a = b
  BY DEF TypeOK, Backups, Holding
<1>1. 0 \in N
  <2> SUFFICES ASSUME NEW U \in SUBSET backups, IsFiniteSet(U), Cardinality(U) = 1 PROVE HasLast(U)
    OBVIOUS
  <2>1. PICK x : U = {x}
    BY FS_Singleton
  <2> QED BY <2>1
<1>2. ASSUME NEW n \in N PROVE n + 1 \in N
  <2> SUFFICES ASSUME NEW U \in SUBSET backups, IsFiniteSet(U), Cardinality(U) = n + 2 PROVE HasLast(U)
    OBVIOUS
  <2>1. PICK x \in U : TRUE
    BY FS_EmptySet
  <2>2. IsFiniteSet(U \ {x}) /\ Cardinality(U \ {x}) = n + 1
    BY <2>1, FS_RemoveElement
  <2>3. HasLast(U \ {x})
    BY <2>2
  <2>4. PICK m \in U \ {x} : \A a \in (U \ {x}) \ {m} : NameBefore(a, m)
    BY <2>3
  <2>5. CASE NameBefore(x, m)
    <3>1. \A a \in U \ {m} : NameBefore(a, m)
      BY <2>4, <2>5
    <3> QED BY <3>1
  <2>6. CASE NameBefore(m, x)
    <3>1. \A a \in U \ {x} : NameBefore(a, x)
      BY <2>4, <2>6, <1>b, NameOrder
    <3> QED BY <3>1
  <2> QED BY <2>1, <2>4, <2>5, <2>6, <1>b, NameOrder
<1>3. N = Nat
  BY <1>1, <1>2, NatSetInduction
<1>4. IsFiniteSet(S) /\ Cardinality(S) \in Nat /\ Cardinality(S) # 0
  BY BackupsFinite, FS_Subset, FS_CardinalityType, FS_EmptySet
<1>5. Cardinality(S) - 1 \in N /\ Cardinality(S) = (Cardinality(S) - 1) + 1
  BY <1>3, <1>4
<1>6. HasLast(S)
  BY <1>4, <1>5
<1> QED BY <1>6 DEF Last

LEMMA InitSurvival == Init => SurvivalInv
<1> SUFFICES ASSUME Init PROVE SurvivalInv
  OBVIOUS
<1>1. target \in Contents \cup {None}
  <2>1. PICK c \in Start : target = IF c = {} THEN None ELSE c
    BY DEF Init
  <2>2. c \subseteq UNION Start
    OBVIOUS
  <2> QED BY <2>1, <2>2, ContentsGrow
<1>2. TypeOK
  BY <1>1 DEF Init, TypeOK, Ended
<1>3. Holding
  BY DEF Init, Holding
<1>4. Safe
  BY <1>1, ContentsProper DEF Init, Safe
<1> QED BY <1>2, <1>3, <1>4 DEF SurvivalInv

(* Nothing but the invocation's own position changes.                       *)
LEMMA MoveSurvival ==
  ASSUME SurvivalInv, NEW p \in Procs, NEW l \in Pcs, Goto(p, l),
         UNCHANGED <<target, backups, committed, clock, staged>>,
         source' \in [Procs -> Contents \cup {None}],
         cands' \in [Procs -> SUBSET Procs], overlapped' \in BOOLEAN, misread' \in BOOLEAN,
         \A q \in Procs \ {p} : source'[q] = source[q],
         l = "stage" /\ Kind[p] \in {"append", "migrate"} => source'[p] \in Contents,
         l \in {"replace", "backup", "publish", "swap"} => staged[p] \in Contents,
         l \in {"remove", "removing"} => pc[p] \in {"remove", "removing"},
         pc[p] \in {"swap", "rollback", "remove", "removing", "done", "failed", "killed"} =>
           l \in {"swap", "rollback", "remove", "removing", "done", "failed", "killed"}
  PROVE  SurvivalInv'
<1> USE DEF SurvivalInv
<1>1. pc' = [pc EXCEPT ![p] = l] /\ pc \in [Procs -> Pcs]
  BY DEF Goto, TypeOK, Pcs
<1>2. TypeOK'
  BY <1>1 DEF TypeOK, Pcs
<1>0. \A b \in backups : b.owner \in Procs
  BY DEF TypeOK
<1>3. Holding'
  BY <1>1, <1>0 DEF Holding
<1>4. Safe'
  BY <1>1, <1>0 DEF Safe
<1> QED BY <1>2, <1>3, <1>4

LEMMA NextSurvival == SurvivalInv /\ [Next]_vars => SurvivalInv'
<1> SUFFICES ASSUME SurvivalInv, [Next]_vars PROVE SurvivalInv'
  OBVIOUS
<1>t. TypeOK /\ Holding /\ Safe
  BY DEF SurvivalInv
<1>pcs. pc \in [Procs -> Pcs] /\ backups \subseteq Backups
  BY <1>t DEF TypeOK, Pcs, Backups
<1> USE ContentsProper
<1>0. CASE UNCHANGED vars
  BY <1>0, <1>t DEF vars, SurvivalInv, TypeOK, Holding, Safe
<1>fail. ASSUME NEW p \in Procs, Fail(p) PROVE SurvivalInv'
  BY <1>fail, <1>t, MoveSurvival DEF Fail, TypeOK, Pcs, Ended
<1>1. ASSUME NEW p \in Procs, RecoverScan(p) PROVE SurvivalInv'
  <2>0. {b.owner : b \in backups} \subseteq Procs
    BY <1>t DEF TypeOK
  <2>1. cands' \in [Procs -> SUBSET Procs] /\ misread' \in BOOLEAN
    <3>1. CASE UNCHANGED <<cands, misread>>
      BY <3>1, <1>t DEF TypeOK
    <3>2. ASSUME NEW listed \in SUBSET {b.owner : b \in backups}, cands' = [cands EXCEPT ![p] = listed],
                 misread' = (misread \/ \E b \in backups : b.owner \notin listed /\ b.content # Torn)
          PROVE  cands' \in [Procs -> SUBSET Procs] /\ misread' \in BOOLEAN
      BY <2>0, <3>2, <1>t DEF TypeOK
    <3> QED BY <1>1, <3>1, <3>2 DEF RecoverScan
  <2>4. CASE Goto(p, "failed")
    BY <1>1, <1>t, <2>1, <2>4, MoveSurvival DEF RecoverScan, Launch, TypeOK, Pcs, Ended
  <2>2. CASE Goto(p, "resolve")
    BY <1>1, <1>t, <2>1, <2>2, MoveSurvival DEF RecoverScan, Launch, TypeOK, Pcs, Ended
  <2>3. CASE Goto(p, "try")
    BY <1>1, <1>t, <2>1, <2>3, MoveSurvival DEF RecoverScan, Launch, TypeOK, Pcs, Ended
  <2> QED BY <1>1, <2>2, <2>3, <2>4 DEF RecoverScan
<1>2. ASSUME NEW p \in Procs, RecoverTry(p) PROVE SurvivalInv'
  <2> DEFINE known == {b \in backups : b.owner \in cands[p]}
  <2>1. known # {} => Last(known) \in known /\ Last(known).owner \in Procs
    BY <1>t, LastExists DEF TypeOK
  <2>2. CASE Goto(p, "resolve") /\ UNCHANGED <<cands, misread>>
    BY <1>2, <1>t, <2>2, MoveSurvival DEF RecoverTry, TypeOK, Pcs, Ended
  <2>3. CASE /\ known # {} /\ Goto(p, "restore") /\ UNCHANGED misread
             /\ cands' = [cands EXCEPT ![p] = {Last(known).owner}]
    <3>1. PICK o : cands' = [cands EXCEPT ![p] = {o}] /\ o = Last(known).owner
      BY <2>3
    <3>2. o \in Procs
      BY <2>1, <2>3, <3>1
    <3> QED BY <1>2, <1>t, <2>3, <3>1, <3>2, MoveSurvival DEF RecoverTry, TypeOK, Pcs, Ended
  <2>4. CASE /\ cands' = [cands EXCEPT ![p] = @ \ {Last(known).owner}]
             /\ misread' = (misread \/ Last(known).content # Torn)
             /\ UNCHANGED pc
    <3>2. cands' \in [Procs -> SUBSET Procs] /\ misread' \in BOOLEAN
      BY <2>4, <1>t DEF TypeOK
    <3>3. UNCHANGED <<target, backups, staged, source, clock, committed, overlapped, pc>>
      BY <1>2, <2>4 DEF RecoverTry
    <3> QED BY <3>2, <3>3, <1>t DEF SurvivalInv, TypeOK, Holding, Safe
  <2> QED BY <1>2, <2>2, <2>3, <2>4 DEF RecoverTry
<1>3. ASSUME NEW p \in Procs, RecoverRename(p) PROVE SurvivalInv'
  <2>1. CASE Fail(p)
    BY <2>1, <1>fail
  <2>2. ASSUME NEW b \in backups, target = None, target' = b.content, backups' = backups \ {b},
               Goto(p, "resolve"), UNCHANGED <<staged, source, cands, clock, committed, overlapped, misread>>
        PROVE  SurvivalInv'
    <3>1. pc' = [pc EXCEPT ![p] = "resolve"] /\ pc[p] = "restore"
      BY <1>3, <2>2 DEF Goto, RecoverRename
    <3>2. TypeOK'
      BY <2>2, <3>1, <1>t DEF TypeOK
    <3>3. Holding'
      BY <2>2, <3>1, <1>t, <1>pcs DEF Holding, Backups
    <3>4. Safe'
      BY <2>2, <3>1, <1>t, <1>pcs DEF Safe, Backups
    <3> QED BY <3>2, <3>3, <3>4 DEF SurvivalInv
  <2> QED BY <1>3, <2>1, <2>2 DEF RecoverRename, Occupied
<1>4. ASSUME NEW p \in Procs, Resolve(p) PROVE SurvivalInv'
  <2>1. target \notin {None, Torn} => target \in Contents
    BY <1>t DEF TypeOK
  <2>2. source' \in [Procs -> Contents \cup {None}] /\ \A q \in Procs \ {p} : source'[q] = source[q]
    BY <1>4, <1>t, <2>1 DEF Resolve, TypeOK
  <2>3. PICK l \in {"done", "failed", "stage"} : Goto(p, l)
        /\ (l = "stage" /\ Kind[p] \in {"append", "migrate"} => source'[p] \in Contents)
    BY <1>4, <1>t, <2>1 DEF Resolve, TypeOK
  <2>4. UNCHANGED <<target, backups, staged, cands, clock, committed, overlapped, misread>> /\ pc[p] = "resolve"
    BY <1>4 DEF Resolve
  <2> QED BY <1>t, <2>2, <2>3, <2>4, MoveSurvival DEF TypeOK, Pcs, Ended
<1>5. ASSUME NEW p \in Procs, Stage(p) PROVE SurvivalInv'
  <2>1. CASE Fail(p)
    BY <2>1, <1>fail
  <2>2. CASE staged' = [staged EXCEPT ![p] = Recorded(p)]
             /\ Goto(p, IF Kind[p] = "once" THEN "publish" ELSE "replace")
             /\ UNCHANGED <<target, backups, source, cands, clock, committed, overlapped, misread>>
    <3>1. Recorded(p) \in Contents
      BY <1>5, <1>t, ContentsGrow DEF Stage, Recorded, Holding
    <3>2. pc[p] = "stage"
      BY <1>5 DEF Stage
    <3>3. PICK l \in {"publish", "replace"} : pc' = [pc EXCEPT ![p] = l]
      BY <2>2 DEF Goto
    <3>4. TypeOK'
      BY <2>2, <3>1, <3>3, <1>t DEF TypeOK
    <3>5. Holding'
      BY <2>2, <3>1, <3>2, <3>3, <1>t, <1>pcs DEF Holding, Backups, TypeOK
    <3>6. Safe'
      BY <2>2, <3>2, <3>3, <1>t, <1>pcs DEF Safe, Backups
    <3> QED BY <3>4, <3>5, <3>6 DEF SurvivalInv
  <2> QED BY <1>5, <2>1, <2>2 DEF Stage
<1>6. ASSUME NEW p \in Procs, ReplaceCheck(p) PROVE SurvivalInv'
  <2>1. staged[p] \in Contents /\ pc[p] = "replace"
    BY <1>6, <1>t DEF ReplaceCheck, Holding
  <2>2. PICK l \in {"backup", "publish"} : Goto(p, l)
    BY <1>6 DEF ReplaceCheck
  <2> QED BY <1>6, <1>t, <2>1, <2>2, MoveSurvival DEF ReplaceCheck, TypeOK, Pcs, Ended
<1>7. ASSUME NEW p \in Procs, Backup(p) PROVE SurvivalInv'
  <2>1. CASE Fail(p)
    BY <2>1, <1>fail
  <2>2. CASE /\ Occupied
             /\ backups' = backups \cup {[owner |-> p, nonce |-> clock, content |-> target]}
             /\ clock' = clock + 1 /\ target' = None /\ Goto(p, "swap")
             /\ UNCHANGED <<staged, source, cands, committed, overlapped, misread>>
    <3> DEFINE n == [owner |-> p, nonce |-> clock, content |-> target]
    <3>1. pc[p] = "backup" /\ pc' = [pc EXCEPT ![p] = "swap"]
      BY <1>7, <2>2 DEF Backup, Goto
    <3>2. n \in Backups /\ n.owner = p /\ n.nonce = clock /\ n.content = target /\ target \in Contents \cup {Torn}
      BY <2>2, <1>t DEF Backups, TypeOK, Occupied
    <3>3. \A b \in backups : b.owner # p /\ b.nonce < clock /\ b.nonce \in Nat
      BY <3>1, <1>t, <1>pcs DEF Holding, Backups
    <3>4. TypeOK'
      BY <2>2, <3>1, <3>2, <1>t DEF TypeOK, Backups
    <3>5. Holding'
      <4>1. \A b \in backups' : b = n \/ b \in backups
        BY <2>2
      <4>2. clock \in Nat
        BY <1>t DEF TypeOK
      <4>3. \A b \in backups' : b.nonce < clock'
        BY <2>2, <3>2, <3>3, <4>1, <4>2
      <4>4. \A c, b \in backups' : (c.nonce = b.nonce => c = b) /\ (c.owner = b.owner => c = b)
        BY <3>2, <3>3, <4>1, <4>2, <1>t DEF Holding
      <4>5. \A b \in backups' : pc'[b.owner] \in {"swap", "rollback", "remove", "removing",
                                         "done", "failed", "killed"}
        BY <3>1, <3>2, <3>3, <4>1, <1>t, <1>pcs DEF Holding, Backups
      <4> QED BY <2>2, <3>1, <4>3, <4>4, <4>5, <1>t, <1>pcs DEF Holding
    <3>6. Safe'
      BY <2>2, <3>1, <3>2, <3>3, <1>t, <1>pcs DEF Safe, Backups
    <3> QED BY <3>4, <3>5, <3>6 DEF SurvivalInv
  <2> QED BY <1>7, <2>1, <2>2 DEF Backup
<1>put. ASSUME NEW p \in Procs, NEW l \in {"done", "remove"}, pc[p] \in {"publish", "swap"},
               PutStaged(p), Goto(p, l), UNCHANGED <<backups, source, cands, clock, overlapped, misread>>,
               pc[p] = "publish" => l = "done"
        PROVE  SurvivalInv'
  <2>1. staged[p] \in Contents
    BY <1>put, <1>t DEF Holding
  <2>2. pc' = [pc EXCEPT ![p] = l]
    BY <1>put DEF Goto
  <2>3. TypeOK'
    BY <1>put, <2>1, <2>2, <1>t DEF PutStaged, TypeOK, Ended
  <2>4. Holding'
    BY <1>put, <2>2, <1>t, <1>pcs DEF PutStaged, Holding, Backups, TypeOK
  <2>5. Safe'
    BY <1>put, <2>1 DEF PutStaged, Safe
  <2> QED BY <2>3, <2>4, <2>5 DEF SurvivalInv
<1>8. ASSUME NEW p \in Procs, Publish(p) PROVE SurvivalInv'
  BY <1>8, <1>fail, <1>put DEF Publish
<1>9. ASSUME NEW p \in Procs, Swap(p) PROVE SurvivalInv'
  <2>1. CASE Goto(p, "rollback") /\ UNCHANGED <<target, backups, staged, source, cands, clock, committed, overlapped, misread>>
    BY <1>9, <1>t, <2>1, MoveSurvival DEF Swap, TypeOK, Pcs, Ended
  <2> QED BY <1>9, <2>1, <1>put DEF Swap
<1>10. ASSUME NEW p \in Procs, Rollback(p) PROVE SurvivalInv'
  <2>1. ASSUME NEW b \in backups, target = None, target' = b.content, backups' = backups \ {b},
               Goto(p, "failed"), UNCHANGED <<staged, source, cands, clock, committed, overlapped, misread>>
        PROVE  SurvivalInv'
    <3>1. pc' = [pc EXCEPT ![p] = "failed"] /\ pc[p] = "rollback"
      BY <1>10, <2>1 DEF Goto, Rollback
    <3>2. TypeOK'
      BY <2>1, <3>1, <1>t DEF TypeOK, Ended
    <3>3. Holding'
      BY <2>1, <3>1, <1>t, <1>pcs DEF Holding, Backups
    <3>4. Safe'
      BY <2>1, <3>1, <1>t, <1>pcs DEF Safe, Backups
    <3> QED BY <3>2, <3>3, <3>4 DEF SurvivalInv
  <2> QED BY <1>10, <2>1, <1>fail DEF Rollback, Occupied
<1>11. ASSUME NEW p \in Procs, Remove(p) PROVE SurvivalInv'
  <2> DEFINE t(b) == IF b.owner = p THEN [b EXCEPT !.content = Torn] ELSE b
  <2>1. CASE backups' = {t(b) : b \in backups} /\ Goto(p, "removing")
             /\ UNCHANGED <<target, staged, source, cands, clock, committed, overlapped, misread>>
    <3>1. pc' = [pc EXCEPT ![p] = "removing"] /\ pc[p] = "remove"
      BY <1>11, <2>1 DEF Goto, Remove
    <3>2. \A b \in backups : t(b) \in Backups /\ t(b).owner = b.owner /\ t(b).nonce = b.nonce
      BY <1>pcs DEF Backups
    <3>3. TypeOK'
      BY <2>1, <3>1, <3>2, <1>t DEF TypeOK, Backups
    <3>4. Holding'
      <4>1. \A c \in backups' : \E b \in backups : c = t(b)
        BY <2>1
      <4>2. \A c \in backups' : c.nonce < clock'
        BY <2>1, <3>2, <4>1, <1>t DEF Holding
      <4>3. \A c, d \in backups' : (c.nonce = d.nonce => c = d) /\ (c.owner = d.owner => c = d)
        <5> SUFFICES ASSUME NEW c \in backups', NEW d \in backups'
                     PROVE  (c.nonce = d.nonce => c = d) /\ (c.owner = d.owner => c = d)
          OBVIOUS
        <5>1. PICK b1 \in backups : c = t(b1)
          BY <4>1
        <5>2. PICK b2 \in backups : d = t(b2)
          BY <4>1
        <5>3. (b1.nonce = b2.nonce => b1 = b2) /\ (b1.owner = b2.owner => b1 = b2)
          BY <1>t DEF Holding
        <5> QED BY <3>2, <5>1, <5>2, <5>3
      <4>4. \A c \in backups' : pc'[c.owner] \in {"swap", "rollback", "remove", "removing",
                                         "done", "failed", "killed"}
        BY <3>1, <3>2, <4>1, <1>t, <1>pcs DEF Holding, Backups
      <4> QED BY <2>1, <3>1, <4>2, <4>3, <4>4, <1>t, <1>pcs DEF Holding
    <3>5. Safe'
      <4>1. ASSUME NEW b \in backups, b.content # Torn, pc[b.owner] \notin {"remove", "removing"}
            PROVE  b \in backups' /\ pc'[b.owner] \notin {"remove", "removing"}
        BY <2>1, <3>1, <4>1, <1>pcs DEF Backups
      <4> QED BY <2>1, <4>1, <1>t DEF Safe
    <3> QED BY <3>3, <3>4, <3>5 DEF SurvivalInv
  <2> QED BY <1>11, <2>1, <1>fail DEF Remove
<1>12. ASSUME NEW p \in Procs, Removed(p) PROVE SurvivalInv'
  <2>1. CASE backups' = {b \in backups : b.owner # p} /\ Goto(p, "done")
             /\ UNCHANGED <<target, staged, source, cands, clock, committed, overlapped, misread>>
    <3>1. pc' = [pc EXCEPT ![p] = "done"] /\ pc[p] = "removing"
      BY <1>12, <2>1 DEF Goto, Removed
    <3>2. TypeOK'
      BY <2>1, <3>1, <1>t DEF TypeOK, Ended
    <3>3. Holding'
      BY <2>1, <3>1, <1>t, <1>pcs DEF Holding, Backups
    <3>4. Safe'
      BY <2>1, <3>1, <1>t, <1>pcs DEF Safe, Backups
    <3> QED BY <3>2, <3>3, <3>4 DEF SurvivalInv
  <2> QED BY <1>12, <2>1, <1>fail DEF Removed
<1>13. ASSUME NEW p \in Procs, Kill(p) PROVE SurvivalInv'
  BY <1>13, <1>t, MoveSurvival DEF Kill, TypeOK, Pcs, Ended
<1> QED
  BY <1>0, <1>1, <1>2, <1>3, <1>4, <1>5, <1>6, <1>7, <1>8, <1>9, <1>10, <1>11, <1>12, <1>13
  DEF Next, Step

(* TypeOK of the fixture's directory; a backup always holds what was a      *)
(* fixture.                                                                 *)
THEOREM ReplaceTypeCorrect == Spec => []TypeOK
<1>1. SurvivalInv => TypeOK
  BY DEF SurvivalInv
<1> QED BY <1>1, InitSurvival, NextSurvival, PTL DEF Spec

(* SomeFixtureSurvives: however invocations overlap, fail or are killed,    *)
(* some directory holds a complete fixture once one was published.          *)
THEOREM FixtureSurvives == Spec => []SomeFixtureSurvives
<1>1. SurvivalInv => SomeFixtureSurvives
  BY DEF SurvivalInv, Safe, SomeFixtureSurvives
<1> QED BY <1>1, InitSurvival, NextSurvival, PTL DEF Spec
-----------------------------------------------------------------------------
(* Invocations one after another.                                           *)

(* With names in time order the last name of a snapshot is its newest.      *)
LEMMA LastIsNewest ==
  ASSUME TypeOK, Holding, NamesByTime, NEW S \in SUBSET backups, NEW b \in S, Newest(b)
  PROVE  Last(S) = b
<1>1. Last(S) \in S /\ \A a \in S \ {Last(S)} : NameBefore(a, Last(S))
  BY LastExists
<1>2. backups \subseteq Backups
  BY DEF TypeOK, Backups
<1>3. ASSUME Last(S) # b PROVE FALSE
  <2>1. Last(S).nonce < b.nonce
    BY <1>1, <1>2, <1>3 DEF Newest, Holding, Backups
  <2>2. NameBefore(Last(S), b)
    BY <1>1, <1>2, <2>1, ReplaceAssumption DEF NamesByTime, NameBefore, Backups
  <2> QED BY <1>1, <1>2, <1>3, <2>2, NameOrder
<1> QED BY <1>3

(* When the only running invocation moves, nobody else is running.          *)
LEMMA OthersEnded ==
  ASSUME TypeOK, Sequential, NEW p \in Procs, pc[p] \notin Ended, NEW l, Goto(p, l)
  PROVE  /\ pc'[p] = l
         /\ \A q \in Procs \ {p} : pc'[q] = pc[q] /\ pc[q] \in Ended
BY DEF TypeOK, Sequential, Goto

LEMMA NextSequential ==
  ASSUME SurvivalInv, Sequential, NamesByTime, Next, ~overlapped', ~misread'
  PROVE  Sequential'
<1>t. TypeOK /\ Holding /\ Safe /\ backups \subseteq Backups
  BY DEF SurvivalInv, TypeOK, Backups
<1> USE ContentsProper
(* A step of the running invocation that touches no directory.              *)
<1>move. ASSUME NEW p \in Procs, NEW l \in Pcs, pc[p] \notin Ended, Goto(p, l),
                UNCHANGED <<target, backups, committed>>,
                l \notin {"try", "restore", "resolve", "swap"},
                l = "rollback" => pc[p] = "swap", l \notin {"remove", "removing"}
         PROVE  Sequential'
  <2>1. pc'[p] = l /\ \A q \in Procs \ {p} : pc'[q] = pc[q] /\ pc[q] \in Ended
    BY <1>move, <1>t, OthersEnded
  <2> QED BY <1>move, <2>1 DEF Sequential, Newest, Ended
<1>1. ASSUME NEW p \in Procs, RecoverScan(p) PROVE Sequential'
  <2>1. pc[p] = "idle" /\ \A q \in Procs : pc[q] \in Ended
    BY <1>1 DEF RecoverScan, Launch
  <2>2. UNCHANGED <<target, backups, committed>>
    BY <1>1 DEF RecoverScan
  <2>3. CASE (Kind[p] = "migrate" \/ target # None) /\ pc' = [pc EXCEPT ![p] = "resolve"]
    BY <2>1, <2>2, <2>3, <1>t DEF Sequential, Newest, Ended, TypeOK
  <2>4. ASSUME target = None, pc' = [pc EXCEPT ![p] = "try"],
               NEW listed, cands' = [cands EXCEPT ![p] = listed],
               \A b \in backups : b.owner \in listed \/ b.content = Torn
        PROVE  Sequential'
    <3>1. ASSUME NEW b \in backups, Newest(b) PROVE b.owner \in listed
      <4>1. committed \notin {None, Torn}
        BY <1>t DEF Sequential, TypeOK
      <4>2. PICK c \in backups : Newest(c) /\ c.content = committed
        BY <2>4, <4>1 DEF Sequential
      <4>3. c.nonce = b.nonce
        BY <3>1, <4>2, <1>t DEF Newest, Backups
      <4>4. c = b
        BY <4>3, <1>t DEF Holding
      <4> QED BY <2>4, <4>1, <4>2, <4>4
    <3>2. cands'[p] = listed
      BY <2>4, <1>t DEF TypeOK
    <3>3. \A b \in backups' : Newest(b)' => b.owner \in cands'[p]
      BY <2>2, <2>4, <3>1, <3>2 DEF Newest
    <3>4. pc'[p] = "try" /\ \A q \in Procs \ {p} : pc'[q] = pc[q] /\ pc[q] \in Ended
      BY <2>1, <2>4, <1>t DEF TypeOK
    <3> QED BY <2>1, <2>2, <2>4, <3>3, <3>4 DEF Sequential, Newest, Ended
  <2>5. CASE pc' = [pc EXCEPT ![p] = "failed"]
    BY <2>1, <2>2, <2>5, <1>t DEF Sequential, Newest, Ended, TypeOK
  <2> QED BY <1>1, <2>3, <2>4, <2>5 DEF RecoverScan, Goto, Occupied
<1>2. ASSUME NEW p \in Procs, RecoverTry(p) PROVE Sequential'
  <2> DEFINE known == {b \in backups : b.owner \in cands[p]}
  <2>0. pc[p] = "try" /\ UNCHANGED <<target, backups, committed>>
    BY <1>2 DEF RecoverTry
  <2>1. target = None
    BY <2>0 DEF Sequential
  <2>2. CASE backups = {}
    <3>1. Goto(p, "resolve")
      BY <1>2, <2>2 DEF RecoverTry
    <3>2. target = committed
      BY <2>1, <2>2 DEF Sequential
    <3>3. pc'[p] = "resolve" /\ \A q \in Procs \ {p} : pc'[q] = pc[q] /\ pc[q] \in Ended
      BY <2>0, <3>1, <1>t, OthersEnded DEF Ended
    <3> QED BY <2>0, <3>2, <3>3 DEF Sequential, Newest, Ended
  <2>3. CASE backups # {}
    <3>1. PICK b \in backups : Newest(b) /\ b.content = committed
      BY <2>1, <2>3 DEF Sequential
    <3>2. committed # None /\ committed # Torn
      BY <2>3, <1>t DEF Sequential, TypeOK
    <3>7. b \in known
      BY <2>0, <3>1 DEF Sequential
    <3>3. Last(known) = b
      BY <3>1, <3>7, <1>t, LastIsNewest
    <3>4. Goto(p, "restore") /\ cands' = [cands EXCEPT ![p] = {b.owner}]
      BY <1>2, <3>1, <3>2, <3>3, <3>7 DEF RecoverTry
    <3>5. pc'[p] = "restore" /\ \A q \in Procs \ {p} : pc'[q] = pc[q] /\ pc[q] \in Ended
      BY <2>0, <3>4, <1>t, OthersEnded DEF Ended
    <3>6. cands'[p] = {b.owner}
      BY <3>4, <1>t DEF TypeOK
    <3> QED BY <2>0, <2>1, <3>1, <3>5, <3>6 DEF Sequential, Newest, Ended
  <2> QED BY <2>2, <2>3
<1>3. ASSUME NEW p \in Procs, RecoverRename(p) PROVE Sequential'
  <2>1. pc[p] = "restore" /\ target = None
    BY <1>3 DEF RecoverRename, Sequential
  <2>2. PICK b \in backups : Newest(b) /\ cands[p] = {b.owner}
    BY <2>1 DEF Sequential
  <2>3. {a \in backups : a.owner \in cands[p]} = {b}
    BY <2>2, <1>t DEF Holding
  <2>4. b.content = committed
    <3>1. committed # None
      BY <2>2 DEF Sequential
    <3>2. PICK c \in backups : Newest(c) /\ c.content = committed
      BY <2>1, <3>1 DEF Sequential
    <3>3. c = b
      BY <2>2, <3>2, <1>t DEF Newest, Holding, Backups
    <3> QED BY <3>2, <3>3
  <2>5. Goto(p, "resolve") /\ target' = committed /\ backups' = backups \ {b} /\ UNCHANGED committed
    BY <1>3, <2>1, <2>3, <2>4 DEF RecoverRename, Occupied
  <2>6. pc'[p] = "resolve" /\ \A q \in Procs \ {p} : pc'[q] = pc[q] /\ pc[q] \in Ended
    BY <2>1, <2>5, <1>t, OthersEnded DEF Ended
  <2> QED BY <2>2, <2>5, <2>6 DEF Sequential, Ended
<1>4. ASSUME NEW p \in Procs, Resolve(p) PROVE Sequential'
  <2>1. PICK l \in {"done", "failed", "stage"} : Goto(p, l)
    BY <1>4 DEF Resolve
  <2> QED BY <1>4, <2>1, <1>move DEF Resolve, Pcs, Ended
<1>fail. ASSUME NEW p \in Procs, pc[p] \notin Ended, Fail(p) PROVE Sequential'
  BY <1>fail, <1>move DEF Fail, Pcs, Ended
<1>5. ASSUME NEW p \in Procs, Stage(p) PROVE Sequential'
  <2>1. PICK l \in {"publish", "replace", "failed"} : Goto(p, l)
    BY <1>5 DEF Stage, Fail
  <2> QED BY <1>5, <2>1, <1>move DEF Stage, Fail, Pcs, Ended
<1>6. ASSUME NEW p \in Procs, ReplaceCheck(p) PROVE Sequential'
  <2>1. PICK l \in {"backup", "publish"} : Goto(p, l)
    BY <1>6 DEF ReplaceCheck
  <2> QED BY <1>6, <2>1, <1>move DEF ReplaceCheck, Pcs, Ended
<1>7. ASSUME NEW p \in Procs, Backup(p) PROVE Sequential'
  <2>0. pc[p] = "backup"
    BY <1>7 DEF Backup
  <2>1. CASE Fail(p)
    BY <2>0, <2>1, <1>fail DEF Ended
  <2>2. CASE /\ Occupied
             /\ backups' = backups \cup {[owner |-> p, nonce |-> clock, content |-> target]}
             /\ clock' = clock + 1 /\ target' = None /\ Goto(p, "swap")
             /\ UNCHANGED <<staged, source, cands, committed, overlapped, misread>>
    <3>0. PICK n : n = [owner |-> p, nonce |-> clock, content |-> target]
      OBVIOUS
    <3>1. target = committed /\ committed # None
      BY <2>2 DEF Occupied, Sequential
    <3>2. n \in backups' /\ n.owner = p /\ n.content = committed /\ n.nonce = clock
      BY <2>2, <3>0, <3>1
    <3>3. \A a \in backups' : a.nonce <= n.nonce
      BY <2>2, <3>0, <3>2, <1>t DEF Holding, Backups, TypeOK
    <3>4. Newest(n)'
      BY <2>2, <3>2, <3>3 DEF Newest
    <3>5. pc'[p] = "swap" /\ \A q \in Procs \ {p} : pc'[q] = pc[q] /\ pc[q] \in Ended
      BY <2>0, <2>2, <1>t, OthersEnded DEF Ended
    <3>6. target' = None /\ UNCHANGED committed
      BY <2>2
    <3> QED BY <3>1, <3>2, <3>4, <3>5, <3>6 DEF Sequential, Ended
  <2> QED BY <1>7, <2>1, <2>2 DEF Backup
<1>put. ASSUME NEW p \in Procs, NEW l \in {"done", "remove"}, pc[p] \in {"publish", "swap"},
               PutStaged(p), Goto(p, l), UNCHANGED backups
        PROVE  Sequential'
  <2>1. target' = committed' /\ committed' # None
    BY <1>put, <1>t DEF PutStaged, Holding
  <2>2. pc'[p] = l /\ \A q \in Procs \ {p} : pc'[q] = pc[q] /\ pc[q] \in Ended
    BY <1>put, <1>t, OthersEnded DEF Ended
  <2> QED BY <1>put, <2>1, <2>2 DEF Sequential, Ended
<1>8. ASSUME NEW p \in Procs, Publish(p) PROVE Sequential'
  BY <1>8, <1>fail, <1>put DEF Publish, Ended
<1>9. ASSUME NEW p \in Procs, Swap(p) PROVE Sequential'
  <2>1. CASE Goto(p, "rollback") /\ UNCHANGED <<target, backups, committed>>
    BY <1>9, <2>1, <1>move DEF Swap, Pcs, Ended
  <2> QED BY <1>9, <2>1, <1>put DEF Swap
<1>10. ASSUME NEW p \in Procs, Rollback(p) PROVE Sequential'
  <2>1. pc[p] = "rollback" /\ target = None
    BY <1>10 DEF Rollback, Sequential
  <2>2. CASE Fail(p)
    BY <2>1, <2>2, <1>fail DEF Ended
  <2>3. ASSUME NEW b \in backups, b.owner = p, target' = b.content, backups' = backups \ {b},
               Goto(p, "failed"), UNCHANGED committed
        PROVE  Sequential'
    <3>1. PICK c \in backups : c.owner = p /\ c.content = committed
      BY <2>1 DEF Sequential
    <3>2. target' = committed'
      BY <2>3, <3>1, <1>t DEF Holding
    <3>3. pc'[p] = "failed" /\ \A q \in Procs \ {p} : pc'[q] = pc[q] /\ pc[q] \in Ended
      BY <2>1, <2>3, <1>t, OthersEnded DEF Ended
    <3> QED BY <2>3, <3>2, <3>3 DEF Sequential, Ended
  <2> QED BY <1>10, <2>2, <2>3 DEF Rollback
<1>11. ASSUME NEW p \in Procs, Remove(p) PROVE Sequential'
  <2>0. pc[p] = "remove"
    BY <1>11 DEF Remove
  <2>1. CASE Fail(p)
    BY <2>0, <2>1, <1>fail DEF Ended
  <2>2. CASE Goto(p, "removing") /\ UNCHANGED <<target, committed>>
             /\ backups' = {IF b.owner = p THEN [b EXCEPT !.content = Torn] ELSE b : b \in backups}
    <3>1. pc'[p] = "removing" /\ \A q \in Procs \ {p} : pc'[q] = pc[q] /\ pc[q] \in Ended
      BY <2>0, <2>2, <1>t, OthersEnded DEF Ended
    <3>2. target = committed
      BY <2>0 DEF Sequential
    <3>3. backups = {} => backups' = {}
      BY <2>2
    <3> QED BY <2>2, <3>1, <3>2, <3>3 DEF Sequential, Ended
  <2> QED BY <1>11, <2>1, <2>2 DEF Remove
<1>12. ASSUME NEW p \in Procs, Removed(p) PROVE Sequential'
  <2>0. pc[p] = "removing"
    BY <1>12 DEF Removed
  <2>1. CASE Fail(p)
    BY <2>0, <2>1, <1>fail DEF Ended
  <2>2. CASE Goto(p, "done") /\ UNCHANGED <<target, committed>> /\ backups' = {b \in backups : b.owner # p}
    <3>1. pc'[p] = "done" /\ \A q \in Procs \ {p} : pc'[q] = pc[q] /\ pc[q] \in Ended
      BY <2>0, <2>2, <1>t, OthersEnded DEF Ended
    <3>2. target = committed
      BY <2>0 DEF Sequential
    <3> QED BY <2>2, <3>1, <3>2 DEF Sequential, Ended
  <2> QED BY <1>12, <2>1, <2>2 DEF Removed
<1>13. ASSUME NEW p \in Procs, Kill(p) PROVE Sequential'
  BY <1>13, <1>move DEF Kill, Pcs, Ended
<1> QED
  BY <1>1, <1>2, <1>3, <1>4, <1>5, <1>6, <1>7, <1>8, <1>9, <1>10, <1>11, <1>12, <1>13
  DEF Next, Step

(* Whatever recovery misses, the committed content is never the one removed. *)
LEMMA NextKept ==
  ASSUME SurvivalInv, CommittedKept, Next, ~overlapped'
  PROVE  CommittedKept'
<1>t. TypeOK /\ Holding /\ Safe /\ backups \subseteq Backups
  BY DEF SurvivalInv, TypeOK, Backups
<1> USE ContentsProper
<1>others. ASSUME NEW p \in Procs, NEW l, pc[p] \notin Ended, pc' = [pc EXCEPT ![p] = l]
           PROVE  pc'[p] = l /\ \A q \in Procs \ {p} : pc'[q] = pc[q] /\ pc[q] \in Ended
  BY <1>others, <1>t DEF TypeOK, CommittedKept
(* A step of the running invocation that moves no directory.                *)
<1>move. ASSUME NEW p \in Procs, NEW l, pc[p] \notin Ended, Goto(p, l),
                UNCHANGED <<target, backups, committed>>, l \notin {"remove", "removing"}
         PROVE  CommittedKept'
  <2>1. pc'[p] = l /\ \A q \in Procs \ {p} : pc'[q] = pc[q] /\ pc[q] \in Ended
    BY <1>move, <1>others DEF Goto
  <2> QED BY <1>move, <2>1 DEF CommittedKept, Ended
<1>fail. ASSUME NEW p \in Procs, pc[p] \notin Ended, Fail(p) PROVE CommittedKept'
  BY <1>fail, <1>move DEF Fail
<1>1. ASSUME NEW p \in Procs, RecoverScan(p) PROVE CommittedKept'
  <2>1. \A q \in Procs : pc[q] \in Ended
    BY <1>1 DEF RecoverScan, Launch
  <2>2. UNCHANGED <<target, backups, committed>>
    BY <1>1 DEF RecoverScan
  <2>3. PICK l \in {"resolve", "try", "failed"} : pc' = [pc EXCEPT ![p] = l]
    BY <1>1 DEF RecoverScan, Goto
  <2> QED BY <2>1, <2>2, <2>3, <1>t DEF CommittedKept, Ended, TypeOK
<1>2. ASSUME NEW p \in Procs, RecoverTry(p) PROVE CommittedKept'
  <2>1. UNCHANGED <<target, backups, committed>> /\ pc[p] = "try"
    BY <1>2 DEF RecoverTry
  <2>2. CASE UNCHANGED pc
    BY <2>1, <2>2 DEF CommittedKept
  <2>3. CASE Goto(p, "resolve") \/ Goto(p, "restore")
    BY <2>1, <2>3, <1>move DEF Ended
  <2> QED BY <1>2, <2>2, <2>3 DEF RecoverTry
<1>3. ASSUME NEW p \in Procs, RecoverRename(p) PROVE CommittedKept'
  <2>1. CASE Fail(p)
    BY <1>3, <2>1, <1>fail DEF RecoverRename, Ended
  <2>2. ASSUME NEW b \in backups, target = None, target' = b.content, backups' = backups \ {b},
               Goto(p, "resolve"), UNCHANGED committed
        PROVE  CommittedKept'
    <3>1. pc'[p] = "resolve" /\ \A q \in Procs \ {p} : pc'[q] = pc[q] /\ pc[q] \in Ended
      BY <1>3, <2>2, <1>others DEF RecoverRename, Goto, Ended
    <3>2. target' = committed' \/ \E c \in backups' : c.content = committed'
      BY <2>2 DEF CommittedKept
    <3>3. committed' = None => backups' = {}
      BY <2>2 DEF CommittedKept
    <3> QED BY <2>2, <3>1, <3>2, <3>3 DEF CommittedKept, Ended
  <2> QED BY <1>3, <2>1, <2>2 DEF RecoverRename, Occupied
<1>4. ASSUME NEW p \in Procs, Resolve(p) PROVE CommittedKept'
  <2>1. PICK l \in {"done", "failed", "stage"} : Goto(p, l)
    BY <1>4 DEF Resolve
  <2> QED BY <1>4, <2>1, <1>move DEF Resolve, Ended
<1>5. ASSUME NEW p \in Procs, Stage(p) PROVE CommittedKept'
  <2>1. PICK l \in {"publish", "replace", "failed"} : Goto(p, l)
    BY <1>5 DEF Stage, Fail
  <2> QED BY <1>5, <2>1, <1>move DEF Stage, Fail, Ended
<1>6. ASSUME NEW p \in Procs, ReplaceCheck(p) PROVE CommittedKept'
  <2>1. PICK l \in {"backup", "publish"} : Goto(p, l)
    BY <1>6 DEF ReplaceCheck
  <2> QED BY <1>6, <2>1, <1>move DEF ReplaceCheck, Ended
<1>7. ASSUME NEW p \in Procs, Backup(p) PROVE CommittedKept'
  <2>1. CASE Fail(p)
    BY <1>7, <2>1, <1>fail DEF Backup, Ended
  <2>2. CASE /\ Occupied
             /\ backups' = backups \cup {[owner |-> p, nonce |-> clock, content |-> target]}
             /\ Goto(p, "swap") /\ UNCHANGED committed
    <3>1. pc'[p] = "swap" /\ \A q \in Procs \ {p} : pc'[q] = pc[q] /\ pc[q] \in Ended
      BY <1>7, <2>2, <1>others DEF Backup, Goto, Ended
    <3>0. PICK n : n = [owner |-> p, nonce |-> clock, content |-> target]
      OBVIOUS
    <3>2. n \in backups' /\ n.content = target /\ backups \subseteq backups'
      BY <2>2, <3>0
    <3>3. \E b \in backups' : b.content = committed'
      BY <2>2, <3>2 DEF CommittedKept
    <3>4. committed' # None
      BY <2>2, <1>t DEF CommittedKept, Occupied, TypeOK
    <3> QED BY <3>1, <3>3, <3>4 DEF CommittedKept, Ended
  <2> QED BY <1>7, <2>1, <2>2 DEF Backup
<1>put. ASSUME NEW p \in Procs, NEW l \in {"done", "remove"}, pc[p] \in {"publish", "swap"},
               PutStaged(p), Goto(p, l)
        PROVE  CommittedKept'
  <2>1. pc'[p] = l /\ \A q \in Procs \ {p} : pc'[q] = pc[q] /\ pc[q] \in Ended
    BY <1>put, <1>others DEF Goto, Ended
  <2>2. target' = committed' /\ committed' # None
    BY <1>put, <1>t DEF PutStaged, Holding
  <2> QED BY <2>1, <2>2 DEF CommittedKept, Ended
<1>8. ASSUME NEW p \in Procs, Publish(p) PROVE CommittedKept'
  BY <1>8, <1>fail, <1>put DEF Publish, Ended
<1>9. ASSUME NEW p \in Procs, Swap(p) PROVE CommittedKept'
  <2>1. CASE Goto(p, "rollback") /\ UNCHANGED <<target, backups, committed>>
    BY <1>9, <2>1, <1>move DEF Swap, Ended
  <2> QED BY <1>9, <2>1, <1>put DEF Swap
<1>10. ASSUME NEW p \in Procs, Rollback(p) PROVE CommittedKept'
  <2>1. CASE Fail(p)
    BY <1>10, <2>1, <1>fail DEF Rollback, Ended
  <2>2. ASSUME NEW b \in backups, target = None, target' = b.content, backups' = backups \ {b},
               Goto(p, "failed"), UNCHANGED committed
        PROVE  CommittedKept'
    <3>1. pc'[p] = "failed" /\ \A q \in Procs \ {p} : pc'[q] = pc[q] /\ pc[q] \in Ended
      BY <1>10, <2>2, <1>others DEF Rollback, Goto, Ended
    <3>2. target' = committed' \/ \E c \in backups' : c.content = committed'
      BY <2>2 DEF CommittedKept
    <3>3. committed' = None => backups' = {}
      BY <2>2 DEF CommittedKept
    <3> QED BY <2>2, <3>1, <3>2, <3>3 DEF CommittedKept, Ended
  <2> QED BY <1>10, <2>1, <2>2 DEF Rollback, Occupied
<1>11. ASSUME NEW p \in Procs, Remove(p) PROVE CommittedKept'
  <2>1. CASE Fail(p)
    BY <1>11, <2>1, <1>fail DEF Remove, Ended
  <2>2. CASE /\ Goto(p, "removing") /\ UNCHANGED <<target, committed>>
             /\ backups' = {IF b.owner = p THEN [b EXCEPT !.content = Torn] ELSE b : b \in backups}
    <3>1. pc'[p] = "removing" /\ \A q \in Procs \ {p} : pc'[q] = pc[q] /\ pc[q] \in Ended
      BY <1>11, <2>2, <1>others DEF Remove, Goto, Ended
    <3>2. target = committed
      BY <1>11 DEF Remove, CommittedKept
    <3> QED BY <2>2, <3>1, <3>2 DEF CommittedKept, Ended
  <2> QED BY <1>11, <2>1, <2>2 DEF Remove
<1>12. ASSUME NEW p \in Procs, Removed(p) PROVE CommittedKept'
  <2>1. CASE Fail(p)
    BY <1>12, <2>1, <1>fail DEF Removed, Ended
  <2>2. CASE /\ Goto(p, "done") /\ UNCHANGED <<target, committed>>
             /\ backups' = {b \in backups : b.owner # p}
    <3>1. pc'[p] = "done" /\ \A q \in Procs \ {p} : pc'[q] = pc[q] /\ pc[q] \in Ended
      BY <1>12, <2>2, <1>others DEF Removed, Goto, Ended
    <3>2. target = committed
      BY <1>12 DEF Removed, CommittedKept
    <3> QED BY <2>2, <3>1, <3>2 DEF CommittedKept, Ended
  <2> QED BY <1>12, <2>1, <2>2 DEF Removed
<1>13. ASSUME NEW p \in Procs, Kill(p) PROVE CommittedKept'
  BY <1>13, <1>move DEF Kill, Ended
<1> QED
  BY <1>1, <1>2, <1>3, <1>4, <1>5, <1>6, <1>7, <1>8, <1>9, <1>10, <1>11, <1>12, <1>13
  DEF Next, Step

LEMMA InitSequential == Init => Sequential /\ CommittedKept
BY DEF Init, Sequential, CommittedKept, Ended

LEMMA NextRecovery == RecoveryInv /\ NamesByTime /\ [Next]_vars => RecoveryInv'
<1> SUFFICES ASSUME RecoveryInv, NamesByTime, [Next]_vars PROVE RecoveryInv'
  OBVIOUS
<1>1. SurvivalInv'
  BY NextSurvival DEF RecoveryInv
<1>2. CASE UNCHANGED vars
  BY <1>1, <1>2 DEF RecoveryInv, vars, Sequential, CommittedKept, Newest
<1>3. CASE Next
  <2>1. (overlapped => overlapped') /\ (misread => misread')
    <3>1. PICK p \in Procs : Step(p) \/ Kill(p)
      BY <1>3 DEF Next
    <3>2. CASE RecoverScan(p)
      BY <3>2, SMT DEF RecoverScan, Launch, RecoveryInv, SurvivalInv, TypeOK
    <3>3. CASE RecoverTry(p)
      BY <3>3, SMT DEF RecoverTry, RecoveryInv, SurvivalInv, TypeOK
    <3>4. CASE RecoverRename(p) \/ Resolve(p) \/ Stage(p) \/ ReplaceCheck(p) \/ Backup(p)
      BY <3>4 DEF RecoverRename, Resolve, Stage, ReplaceCheck, Backup, Fail
    <3>5. CASE Publish(p) \/ Swap(p) \/ Rollback(p) \/ Remove(p) \/ Removed(p) \/ Kill(p)
      BY <3>5 DEF Publish, Swap, Rollback, Remove, Removed, Kill, Fail
    <3> QED BY <3>1, <3>2, <3>3, <3>4, <3>5 DEF Step
  <2>2. overlapped' \/ CommittedKept'
    BY <1>3, <2>1, NextKept DEF RecoveryInv
  <2>3. overlapped' \/ misread' \/ Sequential'
    BY <1>3, <2>1, NextSequential DEF RecoveryInv
  <2> QED BY <1>1, <2>2, <2>3 DEF RecoveryInv
<1> QED BY <1>2, <1>3

(* RecoverySound: as long as backup names sort by time, invocations that do *)
(* not overlap lose nothing, and the next serve finds the last committed    *)
(* content unless it could not read the backup that holds it.               *)
THEOREM RecoveryByTime == Spec /\ []NamesByTime => []RecoverySound
<1>1. Init => RecoveryInv
  BY InitSurvival, InitSequential DEF RecoveryInv
<1>2. RecoveryInv => RecoverySound
  <2> SUFFICES ASSUME RecoveryInv PROVE RecoverySound
    OBVIOUS
  <2>1. CASE overlapped
    BY <2>1 DEF RecoveryInv, SurvivalInv, RecoverySound, CommittedSurvives, HealsToCommitted
  <2>2. CASE Sequential
    BY <2>2 DEF RecoveryInv, SurvivalInv, Sequential, RecoverySound, CommittedSurvives, HealsToCommitted
  <2>3. CASE misread /\ CommittedKept
    BY <2>3 DEF RecoveryInv, SurvivalInv, CommittedKept, RecoverySound, CommittedSurvives, HealsToCommitted
  <2> QED BY <2>1, <2>2, <2>3 DEF RecoveryInv
<1> QED BY <1>1, <1>2, NextRecovery, PTL DEF Spec

(* RecoverySound without a condition on behaviours, where every invocation  *)
(* has the same process id, as in a container.                              *)
THEOREM RecoveryWithOnePid ==
  ASSUME \A p, q \in Procs : Pid[p] = Pid[q]
  PROVE  Spec => []RecoverySound
<1>1. SurvivalInv => NamesByTime
  BY ReplaceAssumption DEF SurvivalInv, TypeOK, NamesByTime
<1>2. Spec => []SurvivalInv
  BY InitSurvival, NextSurvival, PTL DEF Spec
<1> QED BY <1>1, <1>2, RecoveryByTime, PTL
=============================================================================
