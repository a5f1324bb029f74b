--------------------------- MODULE LeafIssuerProofs ---------------------------
(***************************************************************************)
(* Proofs about CaDirectory and LeafIssuer, for any processes, directories, *)
(* candidates for import, connections and hosts, and any limits.            *)
(***************************************************************************)
EXTENDS LeafIssuer, FiniteSetTheorems, WellFoundedInduction, TLAPS

-----------------------------------------------------------------------------
(* The CA directory.                                                        *)

Certs == {x.cert : x \in Candidates} \cup [id : Nat, key : Nat, nb : Int, na : Int, flaw : {"none"}]
Keys == {x.key : x \in Candidates} \cup {c.key : c \in Certs}
Ids == {c.id : c \in Certs}

Proc == [pc : {"idle", "stage", "claim", "cert", "meta", "key", "secure", "inspect", "permissions", "read"},
         op : {"none", "create", "import", "open"}, dir : Dirs \cup {"none"},
         cert : SUBSET Certs, key : SUBSET Keys, meta : SUBSET Ids,
         result : {"none", "ok", "refused", "failed"}]

Directory == [exists : BOOLEAN, mode : {"none", "open", "private"}, cert : SUBSET Certs, meta : SUBSET Ids,
              key : SUBSET Keys, keyMode : {"none", "open", "private"}]

CaTypes ==
    /\ now \in Nat /\ created \in Nat
    /\ procs \in [Procs -> Proc] /\ dirs \in [Dirs -> Directory]
    /\ \A p \in Procs : procs[p].pc # "idle" => procs[p].dir \in Dirs

\* One certificate, its key and its fingerprint.
Pair(cert, key, meta) == \E c \in Certs : cert = {c} /\ key = {c.key} /\ meta = {c.id}

\* A directory that opens.
Whole(D) ==
    /\ D.exists /\ D.mode = "private" /\ D.keyMode = "private"
    /\ Pair(D.cert, D.key, D.meta)

\* A directory holds at most one file of each kind; one that no process claimed
\* holds none, and only one with a key is ever changed by hand.
Orderly(D, touched) ==
    /\ ~D.exists => D.cert = {} /\ D.meta = {} /\ D.key = {}
    /\ D.key = {} \/ \E k \in Keys : D.key = {k}
    /\ D.cert = {} \/ \E c \in Certs : D.cert = {c}
    /\ D.keyMode = "private" => D.key # {}
    /\ touched => D.key # {}

Filling == {"cert", "meta", "key", "secure"}

\* What a process publishes is one identity, and the directory it claimed holds
\* what it renamed into it so far.
Fills(x, D, touched) ==
    /\ x.pc \in Publishing => x.op \in {"create", "import"} /\ Pair(x.cert, x.key, x.meta)
    /\ x.pc \in Filling => D.exists
    /\ x.pc = "cert" => D.cert = {} /\ D.meta = {} /\ D.key = {}
    /\ x.pc = "meta" => D.cert = x.cert /\ D.meta = {} /\ D.key = {}
    /\ x.pc = "key" => D.cert = x.cert /\ D.meta = x.meta /\ D.key = {}
    /\ x.pc = "secure" /\ ~touched =>
         D.cert = x.cert /\ D.meta = x.meta /\ D.key = x.key /\ D.keyMode = "private"

\* A published directory opens while its publisher opens it and afterwards; what a
\* reader saw is still there, and what it has in hand is one identity.
Reads(x, D, touched) ==
    /\ x.op \in {"create", "import"} /\ x.pc \in {"inspect", "permissions", "read"} /\ ~touched => Whole(D)
    /\ x.pc \in {"permissions", "read"} => D.cert # {}
    /\ x.pc = "read" => D.key # {}
    /\ x.result = "ok" /\ x.op # "none" =>
         /\ x.pc = "idle" /\ x.dir \in Dirs
         /\ Pair(x.cert, x.key, x.meta)
         /\ x.op # "open" /\ ~touched => Whole(D) /\ D.cert = x.cert /\ D.key = x.key

\* At most one process fills a directory.
Claimed == \A p, q \in Procs :
    procs[p].pc \in Filling /\ procs[q].pc \in Filling /\ procs[p].dir = procs[q].dir => p = q

CaInv ==
    /\ CaTypes
    /\ Claimed
    /\ \A p \in Procs : /\ Fills(procs[p], dirs[procs[p].dir], procs[p].dir \in meddled)
                        /\ Reads(procs[p], dirs[procs[p].dir], procs[p].dir \in meddled)
    /\ \A d \in Dirs : Orderly(dirs[d], d \in meddled)

LEMMA CaInvInit == CaInit => CaInv
<1> SUFFICES ASSUME CaInit PROVE CaInv  OBVIOUS
<1>1. NoProc \in Proc /\ NoDir \in Directory  BY DEF NoProc, NoDir, Proc, Directory
<1>2. CaTypes /\ Claimed  BY <1>1 DEF CaInit, CaTypes, Claimed, NoProc, Filling
<1>3. ASSUME NEW D, NEW t PROVE Fills(NoProc, D, t) /\ Reads(NoProc, D, t)
  BY DEF Fills, Reads, NoProc, Publishing, Filling
<1>4. ASSUME NEW d \in Dirs PROVE Orderly(dirs[d], d \in meddled)
  BY DEF Orderly, NoDir, CaInit
<1>5. \A p \in Procs : procs[p] = NoProc  BY DEF CaInit
<1> QED  BY <1>2, <1>3, <1>4, <1>5 DEF CaInv

\* A step of one process that leaves the directories alone.
LEMMA ProcStep ==
  ASSUME CaInv, NEW p \in Procs, NEW y \in Proc, procs' = [procs EXCEPT ![p] = y],
         dirs' = dirs, meddled' = meddled, now' \in Nat, created' \in Nat,
         y.pc # "idle" => y.dir \in Dirs,
         Fills(y, dirs[y.dir], y.dir \in meddled), Reads(y, dirs[y.dir], y.dir \in meddled),
         y.pc \in Filling => procs[p].pc \in Filling /\ y.dir = procs[p].dir
  PROVE  CaInv'
<1>1. procs'[p] = y /\ \A q \in Procs : q # p => procs'[q] = procs[q]  BY DEF CaInv, CaTypes
<1>2. CaTypes'  BY <1>1 DEF CaInv, CaTypes
<1>3. Claimed'  BY <1>1 DEF CaInv, Claimed
<1>4. ASSUME NEW q \in Procs
      PROVE  /\ Fills(procs'[q], dirs'[procs'[q].dir], procs'[q].dir \in meddled')
             /\ Reads(procs'[q], dirs'[procs'[q].dir], procs'[q].dir \in meddled')
  <2>1. CASE q = p  BY <1>1, <2>1
  <2>2. CASE q # p  BY <1>1, <2>2 DEF CaInv
  <2> QED  BY <2>1, <2>2
<1>5. \A d \in Dirs : Orderly(dirs'[d], d \in meddled')  BY DEF CaInv
<1> QED  BY <1>2, <1>3, <1>4, <1>5 DEF CaInv

\* The directory that process p, now y, leaves behind is as the other processes
\* need it.
Undisturbed(p, y, d, E) ==
    \A q \in Procs : q # p /\ procs[q].dir = d =>
        /\ Fills(procs[q], E, d \in meddled) /\ Reads(procs[q], E, d \in meddled)
        /\ ~(y.pc \in Filling /\ procs[q].pc \in Filling)

\* A step of one process that changes the directory it works on.
LEMMA DirStep ==
  ASSUME CaInv, NEW p \in Procs, NEW d \in Dirs, NEW y \in Proc, NEW E \in Directory,
         procs' = [procs EXCEPT ![p] = y], dirs' = [dirs EXCEPT ![d] = E],
         meddled' = meddled, now' \in Nat, created' \in Nat,
         y.pc # "idle" => y.dir \in Dirs,
         y.dir = d \/ (y.pc = "idle" /\ y.op = "none"),
         Fills(y, E, d \in meddled), Reads(y, E, d \in meddled), Orderly(E, d \in meddled),
         Undisturbed(p, y, d, E)
  PROVE  CaInv'
<1>1. procs'[p] = y /\ \A q \in Procs : q # p => procs'[q] = procs[q]  BY DEF CaInv, CaTypes
<1>2. dirs'[d] = E /\ \A e \in Dirs : e # d => dirs'[e] = dirs[e]  BY DEF CaInv, CaTypes
<1>3. CaTypes'  BY <1>1 DEF CaInv, CaTypes
<1>4. Claimed'
  <2>1. y.pc \in Filling => y.dir = d  BY DEF Filling
  <2> QED  BY <1>1, <2>1 DEF CaInv, Claimed, Undisturbed
<1>5. ASSUME NEW q \in Procs
      PROVE  /\ Fills(procs'[q], dirs'[procs'[q].dir], procs'[q].dir \in meddled')
             /\ Reads(procs'[q], dirs'[procs'[q].dir], procs'[q].dir \in meddled')
  <2>1. CASE q = p
    <3>1. CASE y.dir = d  BY <1>1, <1>2, <2>1, <3>1
    <3>2. CASE y.pc = "idle" /\ y.op = "none"
      <4>1. ASSUME NEW D, NEW t PROVE Fills(y, D, t) /\ Reads(y, D, t)
        BY <3>2 DEF Fills, Reads, Publishing, Filling
      <4> QED  BY <4>1, <1>1, <2>1
    <3> QED  BY <3>1, <3>2
  <2>2. CASE q # p /\ procs[q].dir = d  BY <1>1, <1>2, <2>2 DEF Undisturbed
  <2>3. CASE q # p /\ procs[q].dir # d /\ procs[q].dir \in Dirs
    <3>1. procs'[q] = procs[q] /\ dirs'[procs[q].dir] = dirs[procs[q].dir]  BY <1>1, <1>2, <2>3
    <3> QED  BY <3>1 DEF CaInv
  <2>4. CASE q # p /\ procs[q].dir \notin Dirs
    <3>1. procs[q].pc = "idle"  BY <2>4 DEF CaInv, CaTypes
    <3>2. Reads(procs[q], dirs[procs[q].dir], procs[q].dir \in meddled)  BY DEF CaInv
    <3>3. ASSUME NEW D PROVE /\ Fills(procs[q], D, procs[q].dir \in meddled)
                             /\ Reads(procs[q], D, procs[q].dir \in meddled)
      BY <3>1, <3>2, <2>4 DEF Fills, Reads, Publishing, Filling
    <3> QED  BY <3>3, <2>4, <1>1
  <2> QED  BY <2>1, <2>2, <2>3, <2>4
<1>6. \A e \in Dirs : Orderly(dirs'[e], e \in meddled')
  BY <1>2 DEF CaInv
<1> QED  BY <1>3, <1>4, <1>5, <1>6 DEF CaInv

\* A process that ends its command leaves nothing to keep track of.
LEMMA Ended ==
  ASSUME CaInv, NEW p \in Procs, NEW r \in {"none", "ok", "refused", "failed"},
         Do(p, [NoProc EXCEPT !.result = r]),
         dirs' = dirs, meddled' = meddled, now' \in Nat, created' \in Nat
  PROVE  CaInv'
<1> DEFINE y == [NoProc EXCEPT !.result = r]
<1>1. y \in Proc /\ y.pc = "idle" /\ y.op = "none"  BY DEF NoProc, Proc
<1>2. \A D, t : Fills(y, D, t) /\ Reads(y, D, t)
  BY <1>1 DEF Fills, Reads, Publishing, Filling
<1>3. y.pc \notin Filling  BY <1>1 DEF Filling
<1>4. procs' = [procs EXCEPT ![p] = y]  BY DEF Do
<1> HIDE DEF y
<1> QED  BY <1>1, <1>2, <1>3, <1>4, ProcStep

LEMMA CreateNewCa ==
  ASSUME CaInv, NEW p \in Procs, NEW d \in Dirs, NEW o \in CreateOptions, CreateNew(p, d, o)
  PROVE  CaInv'
<1>1. CASE ValidateOptions(o) /\ ~dirs[d].exists
  <2> DEFINE c == [id |-> created + 1, key |-> created + 1, nb |-> now, na |-> now + o.days, flaw |-> "none"]
  <2> DEFINE y == [NoProc EXCEPT !.pc = "stage", !.op = "create", !.dir = d, !.cert = {c}, !.key = {c.key},
                                 !.meta = {c.id}]
  <2>1. c \in Certs  BY <1>1, CaBounds DEF Certs, ValidateOptions, CaInv, CaTypes
  <2>2. c.key = created + 1  OBVIOUS
  <2>3. procs' = [procs EXCEPT ![p] = y] /\ created' = created + 1
        /\ dirs' = dirs /\ meddled' = meddled /\ now' = now
    BY <1>1, <2>2 DEF CreateNew, Publish, Do
  <2> HIDE DEF c
  <2>4. y \in Proc /\ y.pc = "stage" /\ y.dir \in Dirs
    BY <2>1 DEF Proc, NoProc, Keys, Ids
  <2>5. \A D, t : Fills(y, D, t) /\ Reads(y, D, t)
    BY <2>1 DEF Fills, Reads, Publishing, Filling, NoProc, Pair
  <2>6. y.pc \notin Filling  BY <2>4 DEF Filling
  <2> HIDE DEF y
  <2>7. now' \in Nat /\ created' \in Nat  BY <2>3 DEF CaInv, CaTypes
  <2> QED  BY <2>3, <2>4, <2>5, <2>6, <2>7, ProcStep
<1>2. CASE ~(ValidateOptions(o) /\ ~dirs[d].exists)
  BY <1>2, Ended DEF CreateNew, Refuse, CaInv, CaTypes
<1> QED  BY <1>1, <1>2

LEMMA ImportCa ==
  ASSUME CaInv, NEW p \in Procs, NEW d \in Dirs, NEW x \in Candidates, Import(p, d, x)
  PROVE  CaInv'
<1>1. CASE ~dirs[d].exists /\ ValidateImportCandidate(x.cert, x.key)
  <2> DEFINE c == x.cert
  <2> DEFINE y == [NoProc EXCEPT !.pc = "stage", !.op = "import", !.dir = d, !.cert = {c}, !.key = {c.key},
                                 !.meta = {c.id}]
  <2>1. c \in Certs  BY DEF Certs
  <2>2. c.key = x.key  BY <1>1 DEF ValidateImportCandidate, ParseIdentity
  <2>3. procs' = [procs EXCEPT ![p] = y] /\ created' = created
        /\ dirs' = dirs /\ meddled' = meddled /\ now' = now
    BY <1>1, <2>2 DEF Import, Publish, Do
  <2> HIDE DEF c
  <2>4. y \in Proc /\ y.pc = "stage" /\ y.dir \in Dirs
    BY <2>1 DEF Proc, NoProc, Keys, Ids
  <2>5. \A D, t : Fills(y, D, t) /\ Reads(y, D, t)
    BY <2>1 DEF Fills, Reads, Publishing, Filling, NoProc, Pair
  <2>6. y.pc \notin Filling  BY <2>4 DEF Filling
  <2> HIDE DEF y
  <2>7. now' \in Nat /\ created' \in Nat  BY <2>3 DEF CaInv, CaTypes
  <2> QED  BY <2>3, <2>4, <2>5, <2>6, <2>7, ProcStep
<1>2. CASE ~(~dirs[d].exists /\ ValidateImportCandidate(x.cert, x.key))
  BY <1>2, Ended DEF Import, Refuse, CaInv, CaTypes
<1> QED  BY <1>1, <1>2

LEMMA StageCa ==
  ASSUME CaInv, NEW p \in Procs, Stage(p)
  PROVE  CaInv'
<1> DEFINE x == procs[p]  y == [procs[p] EXCEPT !.pc = "claim"]
<1>1. x \in Proc /\ x.pc = "stage" /\ x.dir \in Dirs /\ Fills(x, dirs[x.dir], x.dir \in meddled)
      /\ Reads(x, dirs[x.dir], x.dir \in meddled)
  BY DEF CaInv, CaTypes, Stage
<1>2. procs' = [procs EXCEPT ![p] = y] /\ dirs' = dirs /\ meddled' = meddled /\ now' \in Nat /\ created' \in Nat
  BY DEF Stage, Do, CaInv, CaTypes
<1> HIDE DEF x
<1>3. y = [x EXCEPT !.pc = "claim"]  BY DEF x
<1> HIDE DEF y
<1>4. y \in Proc /\ y.pc = "claim" /\ y.dir = x.dir  BY <1>1, <1>3 DEF Proc
<1>5. Fills(y, dirs[y.dir], y.dir \in meddled)
  BY <1>1, <1>3 DEF Fills, Publishing, Filling, Proc
<1>6. Reads(y, dirs[y.dir], y.dir \in meddled)
  BY <1>1, <1>3 DEF Reads, Proc
<1>7. y.pc \notin Filling  BY <1>4 DEF Filling
<1> QED  BY <1>1, <1>2, <1>4, <1>5, <1>6, <1>7, ProcStep

LEMMA PublishFailsCa ==
  ASSUME CaInv, NEW p \in Procs, PublishFails(p) \/ Crash(p)
  PROVE  CaInv'
<1>1. NoProc = [NoProc EXCEPT !.result = "none"]  BY DEF NoProc
<1> QED  BY <1>1, Ended DEF PublishFails, Crash, Ends, CaInv, CaTypes

LEMMA OpenCaCa ==
  ASSUME CaInv, NEW p \in Procs, NEW d \in Dirs, OpenCa(p, d)
  PROVE  CaInv'
<1> DEFINE y == [NoProc EXCEPT !.pc = "inspect", !.op = "open", !.dir = d]
<1>1. y \in Proc /\ y.pc = "inspect" /\ y.dir \in Dirs  BY DEF NoProc, Proc
<1>2. \A D, t : Fills(y, D, t) /\ Reads(y, D, t)
  BY DEF Fills, Reads, Publishing, Filling, NoProc
<1>3. y.pc \notin Filling  BY <1>1 DEF Filling
<1>4. procs' = [procs EXCEPT ![p] = y] /\ dirs' = dirs /\ meddled' = meddled /\ now' \in Nat /\ created' \in Nat
  BY DEF OpenCa, Do, CaInv, CaTypes
<1> HIDE DEF y
<1> QED  BY <1>1, <1>2, <1>3, <1>4, ProcStep

LEMMA OpenInspectCa ==
  ASSUME CaInv, NEW p \in Procs, OpenInspect(p)
  PROVE  CaInv'
<1> DEFINE x == procs[p]  D == dirs[x.dir]
<1>1. x \in Proc /\ x.pc = "inspect" /\ x.dir \in Dirs /\ Reads(x, D, x.dir \in meddled)
  BY DEF CaInv, CaTypes, OpenInspect
<1>2. CASE Inspected(procs[p].dir)
  <2> DEFINE y == [x EXCEPT !.pc = "permissions", !.meta = D.meta]
  <2>1. procs' = [procs EXCEPT ![p] = y] /\ dirs' = dirs /\ meddled' = meddled /\ now' \in Nat /\ created' \in Nat
    BY <1>2 DEF OpenInspect, Do, CaInv, CaTypes
  <2>2. D.meta \in SUBSET Ids  BY <1>1 DEF CaInv, CaTypes, Directory
  <2>3. D.cert # {}  BY <1>2 DEF Inspected
  <2> HIDE DEF x, D
  <2>4. y \in Proc /\ y.pc = "permissions" /\ y.dir = x.dir  BY <1>1, <2>2 DEF Proc
  <2>5. Fills(y, D, y.dir \in meddled)
    BY <2>4 DEF Fills, Publishing, Filling
  <2>6. Reads(y, D, y.dir \in meddled)
    BY <1>1, <2>3, <2>4 DEF Reads, Proc
  <2>7. y.pc \notin Filling  BY <2>4 DEF Filling
  <2>8. D = dirs[y.dir]  BY <2>4 DEF D
  <2> HIDE DEF y
  <2> QED  BY <1>1, <2>1, <2>4, <2>5, <2>6, <2>7, <2>8, ProcStep
<1>3. CASE ~Inspected(procs[p].dir)
  BY <1>3, Ended DEF OpenInspect, Ends, CaInv, CaTypes
<1> QED  BY <1>2, <1>3

LEMMA OpenPermissionsCa ==
  ASSUME CaInv, NEW p \in Procs, OpenPermissions(p)
  PROVE  CaInv'
<1> DEFINE x == procs[p]  D == dirs[x.dir]
<1>1. x \in Proc /\ x.pc = "permissions" /\ x.dir \in Dirs /\ Reads(x, D, x.dir \in meddled)
      /\ Orderly(D, x.dir \in meddled)
  BY DEF CaInv, CaTypes, OpenPermissions
<1>2. CASE CheckPermissions(procs[p].dir)
  <2> DEFINE y == [x EXCEPT !.pc = "read"]
  <2>1. procs' = [procs EXCEPT ![p] = y] /\ dirs' = dirs /\ meddled' = meddled /\ now' \in Nat /\ created' \in Nat
    BY <1>2 DEF OpenPermissions, Do, CaInv, CaTypes
  <2>3. D.key # {}  BY <1>1, <1>2 DEF CheckPermissions, Orderly
  <2> HIDE DEF x, D
  <2>4. y \in Proc /\ y.pc = "read" /\ y.dir = x.dir  BY <1>1 DEF Proc
  <2>5. Fills(y, D, y.dir \in meddled)
    BY <2>4 DEF Fills, Publishing, Filling
  <2>6. Reads(y, D, y.dir \in meddled)
    BY <1>1, <2>3, <2>4 DEF Reads, Proc
  <2>7. y.pc \notin Filling  BY <2>4 DEF Filling
  <2>8. D = dirs[y.dir]  BY <2>4 DEF D
  <2> HIDE DEF y
  <2> QED  BY <1>1, <2>1, <2>4, <2>5, <2>6, <2>7, <2>8, ProcStep
<1>3. CASE ~CheckPermissions(procs[p].dir)
  BY <1>3, Ended DEF OpenPermissions, Ends, CaInv, CaTypes
<1> QED  BY <1>2, <1>3

\* What is read pairs: the directory holds one file of each kind.
LEMMA OpenReadCa ==
  ASSUME CaInv, NEW p \in Procs, OpenRead(p)
  PROVE  CaInv'
<1> DEFINE x == procs[p]  D == dirs[x.dir]
           Good == \E c \in D.cert, k \in D.key :
                       ParseIdentity(c, k) /\ c.flaw # "chain" /\ {c.id} = x.meta
<1>1. x \in Proc /\ x.pc = "read" /\ x.dir \in Dirs /\ D \in Directory
      /\ Reads(x, D, x.dir \in meddled) /\ Orderly(D, x.dir \in meddled)
  BY DEF CaInv, CaTypes, OpenRead
<1>2. CASE Good
  <2> DEFINE y == [NoProc EXCEPT !.op = x.op, !.dir = x.dir, !.result = "ok",
                                 !.cert = D.cert, !.key = D.key, !.meta = x.meta]
  <2>1. procs' = [procs EXCEPT ![p] = y] /\ dirs' = dirs /\ meddled' = meddled /\ now' \in Nat /\ created' \in Nat
    BY <1>2 DEF OpenRead, Do, CaInv, CaTypes
  <2>2. Pair(D.cert, D.key, x.meta)
    <3>1. PICK c \in D.cert, k \in D.key : ParseIdentity(c, k) /\ {c.id} = x.meta  BY <1>2
    <3>2. D.cert = {c} /\ D.key = {k} /\ c \in Certs  BY <1>1, <3>1 DEF Orderly
    <3> QED  BY <3>1, <3>2 DEF Pair, ParseIdentity
  <2> HIDE DEF x, D, Good
  <2>3. y \in Proc  BY <1>1 DEF Proc, NoProc, Directory
  <2>4. /\ y.pc = "idle" /\ y.dir = x.dir /\ y.op = x.op /\ y.cert = D.cert /\ y.key = D.key
        /\ y.meta = x.meta
    BY DEF NoProc
  <2> HIDE DEF y
  <2>5. Fills(y, D, y.dir \in meddled)
    BY <2>4 DEF Fills, Publishing, Filling
  <2>6. Reads(y, D, y.dir \in meddled)
    <3>1. x.op \in {"none", "create", "import", "open"}  BY <1>1 DEF Proc
    <3>2. y.op \notin {"open", "none"} /\ y.dir \notin meddled => Whole(D)
      BY <1>1, <2>4, <3>1 DEF Reads
    <3> QED  BY <1>1, <2>2, <2>4, <3>1, <3>2 DEF Reads
  <2>7. y.pc \notin Filling  BY <2>4 DEF Filling
  <2>8. D = dirs[y.dir]  BY <2>4 DEF D
  <2> QED  BY <1>1, <2>1, <2>3, <2>4, <2>5, <2>6, <2>7, <2>8, ProcStep
<1>3. CASE ~Good
  BY <1>3, Ended DEF OpenRead, Ends, CaInv, CaTypes
<1> QED  BY <1>2, <1>3

LEMMA ExportCa ==
  ASSUME CaInv, NEW p \in Procs, NEW d \in Dirs, ExportCaCert(p, d)
  PROVE  CaInv'
BY Ended DEF ExportCaCert, Refuse, CaInv, CaTypes

\* Nobody works on a directory that is not there: whoever creates it is alone.
LEMMA ClaimCa ==
  ASSUME CaInv, NEW p \in Procs, Claim(p)
  PROVE  CaInv'
<1> DEFINE x == procs[p]  d == x.dir  D == dirs[d]
<1>1. x \in Proc /\ x.pc = "claim" /\ d \in Dirs /\ D \in Directory
      /\ Fills(x, D, d \in meddled) /\ Reads(x, D, d \in meddled) /\ Orderly(D, d \in meddled)
  BY DEF CaInv, CaTypes, Claim
<1>2. CASE D.exists
  BY <1>2, Ended DEF Claim, Ends, CaInv, CaTypes
<1>3. CASE ~D.exists
  <2> DEFINE y == [x EXCEPT !.pc = "cert"]  E == [NoDir EXCEPT !.exists = TRUE, !.mode = "open"]
  <2>1. procs' = [procs EXCEPT ![p] = y] /\ dirs' = [dirs EXCEPT ![d] = E]
        /\ meddled' = meddled /\ now' \in Nat /\ created' \in Nat
    BY <1>3 DEF Claim, Do, CaInv, CaTypes
  <2>2. ASSUME NEW q \in Procs, procs[q].dir = d
        PROVE  /\ Fills(procs[q], D, d \in meddled) /\ Reads(procs[q], D, d \in meddled)
               /\ procs[q] \in Proc
    BY <2>2 DEF CaInv, CaTypes
  <2> HIDE DEF x, D, d
  <2>3. y \in Proc /\ y.pc = "cert" /\ y.dir = d /\ y.op = x.op /\ y.result = x.result /\ E \in Directory
    BY <1>1 DEF Proc, Directory, NoDir, d
  <2>4. E.exists /\ E.cert = {} /\ E.meta = {} /\ E.key = {} /\ E.keyMode = "none"  BY DEF NoDir
  <2>5. d \notin meddled /\ D.cert = {} /\ D.key = {}  BY <1>1, <1>3 DEF Orderly
  <2>6. Fills(y, E, d \in meddled)
    BY <1>1, <2>4, <2>5 DEF Fills, Publishing, Filling, Proc
  <2> HIDE DEF y, E
  <2>7. Reads(y, E, d \in meddled)
    BY <1>1, <2>3 DEF Reads, Proc
  <2>8. Orderly(E, d \in meddled)  BY <2>4, <2>5 DEF Orderly
  <2>9. ASSUME NEW q \in Procs, q # p, procs[q].dir = d
        PROVE  /\ Fills(procs[q], E, d \in meddled) /\ Reads(procs[q], E, d \in meddled)
               /\ ~(y.pc \in Filling /\ procs[q].pc \in Filling)
    <3>1. procs[q].pc \notin Filling  BY <1>3, <2>2, <2>9 DEF Fills
    <3>2. Fills(procs[q], E, d \in meddled)
      BY <3>1, <2>2, <2>9 DEF Fills, Filling
    <3>3. ~Whole(D)  BY <1>3 DEF Whole
    <3>4. Reads(procs[q], E, d \in meddled)
      BY <2>2, <2>5, <2>9, <3>3 DEF Reads
    <3> QED  BY <3>1, <3>2, <3>4
  <2>10. Undisturbed(p, y, d, E)  BY <2>9 DEF Undisturbed
  <2>11. d \in Dirs /\ y \in Proc /\ E \in Directory /\ y.dir = d  BY <1>1, <2>3
  <2> QED  BY <2>1, <2>11, <2>6, <2>7, <2>8, <2>10, DirStep
<1> QED  BY <1>2, <1>3

\* The process that fills a directory is the only one that does.
LEMMA Alone ==
  ASSUME CaInv, NEW p \in Procs, NEW q \in Procs, p # q, procs[p].pc \in Filling,
         procs[q].dir = procs[p].dir
  PROVE  procs[q].pc \notin Filling /\ \A F, t : Fills(procs[q], F, t)
<1>1. procs[q].pc \notin Filling  BY DEF CaInv, Claimed
<1>2. Fills(procs[q], dirs[procs[q].dir], procs[q].dir \in meddled)  BY DEF CaInv
<1> QED  BY <1>1, <1>2 DEF Fills, Filling

LEMMA RenameCertCa ==
  ASSUME CaInv, NEW p \in Procs, Rename(p), procs[p].pc = "cert"
  PROVE  CaInv'
<1> DEFINE x == procs[p]  d == x.dir  D == dirs[d]
           y == [x EXCEPT !.pc = "meta"]  E == [D EXCEPT !.cert = x.cert]
<1>1. x \in Proc /\ x.pc = "cert" /\ d \in Dirs /\ D \in Directory
      /\ Fills(x, D, d \in meddled) /\ Reads(x, D, d \in meddled) /\ Orderly(D, d \in meddled)
  BY DEF CaInv, CaTypes
<1>2. procs' = [procs EXCEPT ![p] = y] /\ dirs' = [dirs EXCEPT ![d] = E]
      /\ meddled' = meddled /\ now' \in Nat /\ created' \in Nat
  BY DEF Rename, Do, CaInv, CaTypes
<1>3. ASSUME NEW q \in Procs, q # p, procs[q].dir = d
      PROVE  /\ Reads(procs[q], D, d \in meddled) /\ procs[q].pc \notin Filling
             /\ \A F, t : Fills(procs[q], F, t)
  <2>1. x.pc \in Filling  BY <1>1 DEF Filling
  <2> QED  BY <1>3, <2>1, Alone DEF CaInv
<1> HIDE DEF x, D, d
<1>4. y \in Proc /\ y.pc = "meta" /\ y.dir = d /\ E \in Directory
  BY <1>1 DEF Proc, Directory, d
<1>5. Fills(y, E, d \in meddled) /\ Reads(y, E, d \in meddled) /\ Orderly(E, d \in meddled)
  <2>1. PICK c \in Certs : x.cert = {c} /\ x.key = {c.key} /\ x.meta = {c.id}
    BY <1>1 DEF Fills, Publishing, Pair
  <2>2. c.key \in Keys /\ D.exists /\ D.cert = {} /\ D.meta = {} /\ D.key = {}  BY <1>1 DEF Fills, Keys, Filling, Orderly
  <2>3. Fills(y, E, d \in meddled)
    BY <1>1, <2>1, <2>2 DEF Fills, Publishing, Filling, Pair, Proc, Directory
  <2>4. Reads(y, E, d \in meddled)  BY <1>1 DEF Reads, Proc
  <2>5. Orderly(E, d \in meddled)  BY <1>1, <2>1, <2>2 DEF Orderly, Directory
  <2> QED  BY <2>3, <2>4, <2>5
<1>6. ASSUME NEW q \in Procs, q # p, procs[q].dir = d PROVE Reads(procs[q], E, d \in meddled)
  <2>1. ~Whole(D) /\ d \notin meddled  BY <1>1 DEF Fills, Whole, Pair, Orderly
  <2>2. D.cert = {} /\ D.key = {} /\ E.cert = x.cert  BY <1>1 DEF Fills, Publishing, Pair, Directory
  <2> HIDE DEF E
  <2> QED  BY <1>3, <1>6, <2>1, <2>2 DEF Reads
<1>7. Undisturbed(p, y, d, E)  BY <1>3, <1>6 DEF Undisturbed
<1> HIDE DEF y, E
<1>8. d \in Dirs /\ y \in Proc /\ E \in Directory /\ y.dir = d  BY <1>1, <1>4
<1> QED  BY <1>2, <1>5, <1>7, <1>8, DirStep

LEMMA RenameMetaCa ==
  ASSUME CaInv, NEW p \in Procs, Rename(p), procs[p].pc = "meta"
  PROVE  CaInv'
<1> DEFINE x == procs[p]  d == x.dir  D == dirs[d]
           y == [x EXCEPT !.pc = "key"]  E == [D EXCEPT !.meta = x.meta]
<1>1. x \in Proc /\ x.pc = "meta" /\ d \in Dirs /\ D \in Directory
      /\ Fills(x, D, d \in meddled) /\ Reads(x, D, d \in meddled) /\ Orderly(D, d \in meddled)
  BY DEF CaInv, CaTypes
<1>2. procs' = [procs EXCEPT ![p] = y] /\ dirs' = [dirs EXCEPT ![d] = E]
      /\ meddled' = meddled /\ now' \in Nat /\ created' \in Nat
  BY DEF Rename, Do, CaInv, CaTypes
<1>3. ASSUME NEW q \in Procs, q # p, procs[q].dir = d
      PROVE  /\ Reads(procs[q], D, d \in meddled) /\ procs[q].pc \notin Filling
             /\ \A F, t : Fills(procs[q], F, t)
  <2>1. x.pc \in Filling  BY <1>1 DEF Filling
  <2> QED  BY <1>3, <2>1, Alone DEF CaInv
<1> HIDE DEF x, D, d
<1>4. y \in Proc /\ y.pc = "key" /\ y.dir = d /\ E \in Directory
  BY <1>1 DEF Proc, Directory, d
<1>5. Fills(y, E, d \in meddled) /\ Reads(y, E, d \in meddled) /\ Orderly(E, d \in meddled)
  <2>1. PICK c \in Certs : x.cert = {c} /\ x.key = {c.key} /\ x.meta = {c.id}
    BY <1>1 DEF Fills, Publishing, Pair
  <2>2. c.key \in Keys /\ D.exists /\ D.cert = x.cert /\ D.meta = {} /\ D.key = {}  BY <1>1 DEF Fills, Keys, Filling, Orderly
  <2>3. Fills(y, E, d \in meddled)
    <3>1. y.op = x.op /\ y.cert = x.cert /\ y.key = x.key /\ y.meta = x.meta  BY <1>1 DEF Proc
    <3>2. E.exists /\ E.cert = D.cert /\ E.meta = x.meta /\ E.key = D.key  BY <1>1, <2>2 DEF Directory
    <3>3. x.op \in {"create", "import"} /\ Pair(x.cert, x.key, x.meta)  BY <1>1 DEF Fills, Publishing
    <3> HIDE DEF y, E
    <3> QED  BY <1>4, <2>2, <3>1, <3>2, <3>3 DEF Fills, Filling
  <2>4. Reads(y, E, d \in meddled)  BY <1>1 DEF Reads, Proc
  <2>5. Orderly(E, d \in meddled)  BY <1>1, <2>1, <2>2 DEF Orderly, Directory
  <2> QED  BY <2>3, <2>4, <2>5
<1>6. ASSUME NEW q \in Procs, q # p, procs[q].dir = d PROVE Reads(procs[q], E, d \in meddled)
  <2>1. ~Whole(D) /\ d \notin meddled  BY <1>1 DEF Fills, Whole, Pair, Orderly
  <2>2. E.cert = D.cert /\ E.key = D.key  BY <1>1 DEF Fills, Publishing, Pair, Directory
  <2> HIDE DEF E
  <2> QED  BY <1>3, <1>6, <2>1, <2>2 DEF Reads
<1>7. Undisturbed(p, y, d, E)  BY <1>3, <1>6 DEF Undisturbed
<1> HIDE DEF y, E
<1>8. d \in Dirs /\ y \in Proc /\ E \in Directory /\ y.dir = d  BY <1>1, <1>4
<1> QED  BY <1>2, <1>5, <1>7, <1>8, DirStep

LEMMA RenameKeyCa ==
  ASSUME CaInv, NEW p \in Procs, Rename(p), procs[p].pc = "key"
  PROVE  CaInv'
<1> DEFINE x == procs[p]  d == x.dir  D == dirs[d]
           y == [x EXCEPT !.pc = "secure"]  E == [D EXCEPT !.key = x.key, !.keyMode = "private"]
<1>1. x \in Proc /\ x.pc = "key" /\ d \in Dirs /\ D \in Directory
      /\ Fills(x, D, d \in meddled) /\ Reads(x, D, d \in meddled) /\ Orderly(D, d \in meddled)
  BY DEF CaInv, CaTypes
<1>2. procs' = [procs EXCEPT ![p] = y] /\ dirs' = [dirs EXCEPT ![d] = E]
      /\ meddled' = meddled /\ now' \in Nat /\ created' \in Nat
  BY DEF Rename, Do, CaInv, CaTypes
<1>3. ASSUME NEW q \in Procs, q # p, procs[q].dir = d
      PROVE  /\ Reads(procs[q], D, d \in meddled) /\ procs[q].pc \notin Filling
             /\ \A F, t : Fills(procs[q], F, t)
  <2>1. x.pc \in Filling  BY <1>1 DEF Filling
  <2> QED  BY <1>3, <2>1, Alone DEF CaInv
<1> HIDE DEF x, D, d
<1>4. y \in Proc /\ y.pc = "secure" /\ y.dir = d /\ E \in Directory
  BY <1>1 DEF Proc, Directory, d
<1>5. Fills(y, E, d \in meddled) /\ Reads(y, E, d \in meddled) /\ Orderly(E, d \in meddled)
  <2>1. PICK c \in Certs : x.cert = {c} /\ x.key = {c.key} /\ x.meta = {c.id}
    BY <1>1 DEF Fills, Publishing, Pair
  <2>2. c.key \in Keys /\ D.exists /\ D.cert = x.cert /\ D.meta = x.meta /\ D.key = {}  BY <1>1 DEF Fills, Keys, Filling, Orderly
  <2>3. Fills(y, E, d \in meddled)
    BY SMTT(60), <1>1, <2>1, <2>2 DEF Fills, Publishing, Filling, Pair, Proc, Directory
  <2>4. Reads(y, E, d \in meddled)  BY <1>1 DEF Reads, Proc
  <2>5. Orderly(E, d \in meddled)  BY <1>1, <2>1, <2>2 DEF Orderly, Directory
  <2> QED  BY <2>3, <2>4, <2>5
<1>6. ASSUME NEW q \in Procs, q # p, procs[q].dir = d PROVE Reads(procs[q], E, d \in meddled)
  <2>1. ~Whole(D) /\ d \notin meddled  BY <1>1 DEF Fills, Whole, Pair, Orderly
  <2>2. E.cert = D.cert /\ D.key = {}  BY <1>1 DEF Fills, Publishing, Pair, Directory
  <2> HIDE DEF E
  <2> QED  BY <1>3, <1>6, <2>1, <2>2 DEF Reads
<1>7. Undisturbed(p, y, d, E)  BY <1>3, <1>6 DEF Undisturbed
<1> HIDE DEF y, E
<1>8. d \in Dirs /\ y \in Proc /\ E \in Directory /\ y.dir = d  BY <1>1, <1>4
<1> QED  BY <1>2, <1>5, <1>7, <1>8, DirStep

LEMMA SecureCa ==
  ASSUME CaInv, NEW p \in Procs, Secure(p)
  PROVE  CaInv'
<1> DEFINE x == procs[p]  d == x.dir  D == dirs[d]  E == [D EXCEPT !.mode = "private"]
           y == IF D.keyMode = "private" THEN [x EXCEPT !.pc = "inspect"] ELSE [NoProc EXCEPT !.result = "failed"]
<1>1. x \in Proc /\ x.pc = "secure" /\ d \in Dirs /\ D \in Directory
      /\ Fills(x, D, d \in meddled) /\ Reads(x, D, d \in meddled) /\ Orderly(D, d \in meddled)
  BY DEF CaInv, CaTypes, Secure
<1>2. procs' = [procs EXCEPT ![p] = y] /\ dirs' = [dirs EXCEPT ![d] = E]
      /\ meddled' = meddled /\ now' \in Nat /\ created' \in Nat
  BY DEF Secure, Do, Ends, CaInv, CaTypes
<1>3. ASSUME NEW q \in Procs, q # p, procs[q].dir = d
      PROVE  /\ Reads(procs[q], D, d \in meddled) /\ procs[q].pc \notin Filling
             /\ \A F, t : Fills(procs[q], F, t)
  <2>1. x.pc \in Filling  BY <1>1 DEF Filling
  <2> QED  BY <1>3, <2>1, Alone DEF CaInv
<1> HIDE DEF x, D, d
<1>4. /\ E \in Directory /\ E.exists = D.exists /\ E.cert = D.cert /\ E.meta = D.meta /\ E.key = D.key
      /\ E.keyMode = D.keyMode /\ E.mode = "private"
  BY <1>1 DEF Directory
<1>5. Whole(D) => Whole(E)  BY <1>4 DEF Whole
<1>6. y \in Proc  BY <1>1 DEF Proc, NoProc
<1>7. \/ y.pc = "inspect" /\ y.op = x.op /\ y.dir = d /\ y.result = x.result /\ D.keyMode = "private"
      \/ y.pc = "idle" /\ y.op = "none" /\ y.dir = "none"
  BY <1>1 DEF Proc, NoProc, d
<1> HIDE DEF y, E
<1>8. Fills(y, E, d \in meddled)  BY <1>7 DEF Fills, Publishing, Filling
<1>9. Reads(y, E, d \in meddled)
  <2>1. d \notin meddled => D.exists /\ Pair(D.cert, D.key, D.meta)
    BY <1>1 DEF Fills, Publishing, Filling
  <2>2. D.keyMode = "private" /\ d \notin meddled => Whole(E)  BY <2>1, <1>4 DEF Whole
  <2> QED  BY <1>1, <1>7, <2>2 DEF Reads
<1>10. Orderly(E, d \in meddled)  BY <1>1, <1>4 DEF Orderly
<1>11. Undisturbed(p, y, d, E)
  <2>1. ASSUME NEW q \in Procs, q # p, procs[q].dir = d PROVE Reads(procs[q], E, d \in meddled)
    BY <1>3, <1>4, <1>5, <2>1 DEF Reads
  <2> QED  BY <1>3, <2>1 DEF Undisturbed
<1>12. (y.pc # "idle" => y.dir \in Dirs) /\ (y.dir = d \/ (y.pc = "idle" /\ y.op = "none"))
  BY <1>1, <1>7
<1>13. d \in Dirs /\ E \in Directory  BY <1>1, <1>4
<1> QED  BY <1>2, <1>6, <1>8, <1>9, <1>10, <1>11, <1>12, <1>13, DirStep

LEMMA RepairCa ==
  ASSUME CaInv, NEW p \in Procs, NEW d \in Dirs, RepairPermissions(p, d)
  PROVE  CaInv'
<1> DEFINE D == dirs[d]
           E == [D EXCEPT !.mode = "private", !.keyMode = IF D.key = {} THEN @ ELSE "private"]
           y == [NoProc EXCEPT !.result = IF D.key # {} /\ D.cert # {} /\ D.meta # {} THEN "ok" ELSE "failed"]
<1>1. D \in Directory /\ Orderly(D, d \in meddled)  BY DEF CaInv, CaTypes
<1>2. procs' = [procs EXCEPT ![p] = y] /\ dirs' = [dirs EXCEPT ![d] = E]
      /\ meddled' = meddled /\ now' \in Nat /\ created' \in Nat
  BY DEF RepairPermissions, Do, CaInv, CaTypes
<1>3. ASSUME NEW q \in Procs, procs[q].dir = d
      PROVE  Fills(procs[q], D, d \in meddled) /\ Reads(procs[q], D, d \in meddled)
  BY <1>3 DEF CaInv
<1> HIDE DEF D
<1>4. /\ E \in Directory /\ E.exists = D.exists /\ E.cert = D.cert /\ E.meta = D.meta /\ E.key = D.key
      /\ E.mode = "private" /\ (E.keyMode = D.keyMode \/ (D.key # {} /\ E.keyMode = "private"))
  BY <1>1 DEF Directory
<1>5. y \in Proc /\ y.pc = "idle" /\ y.op = "none"  BY DEF Proc, NoProc
<1> HIDE DEF y, E
<1>6. Whole(D) => Whole(E)  BY <1>4 DEF Whole
<1>7. Fills(y, E, d \in meddled) /\ Reads(y, E, d \in meddled)
  BY <1>5 DEF Fills, Reads, Publishing, Filling
<1>8. Orderly(E, d \in meddled)  BY <1>1, <1>4 DEF Orderly
<1>9. Undisturbed(p, y, d, E)
  <2>1. ASSUME NEW q \in Procs, procs[q].dir = d
        PROVE Fills(procs[q], E, d \in meddled) /\ Reads(procs[q], E, d \in meddled)
    <3>1. Fills(procs[q], E, d \in meddled)  BY <1>3, <1>4, <2>1 DEF Fills
    <3>2. Reads(procs[q], E, d \in meddled)  BY <1>3, <1>4, <1>6, <2>1 DEF Reads
    <3> QED  BY <3>1, <3>2
  <2>2. y.pc \notin Filling  BY <1>5 DEF Filling
  <2> QED  BY <2>1, <2>2 DEF Undisturbed
<1> QED  BY <1>2, <1>4, <1>5, <1>7, <1>8, <1>9, DirStep

\* An operator changes a directory whose key is in place: nobody who still fills
\* it is before its last rename, and readers find something of each kind.
LEMMA MeddleCa ==
  ASSUME CaInv, NEW d \in Dirs, Meddle(d)
  PROVE  CaInv'
<1> DEFINE D == dirs[d]
<1>1. D \in Directory /\ Orderly(D, d \in meddled) /\ D.key # {}  BY DEF CaInv, CaTypes, Meddle
<1>2. PICK E \in Directory : /\ dirs' = [dirs EXCEPT ![d] = E] /\ Orderly(E, TRUE) /\ E.exists = D.exists
                             /\ E.cert # {} \/ D.cert = {}
                             /\ E.key # {}
  <2>1. CASE dirs' = [dirs EXCEPT ![d].keyMode = IF @ = "private" THEN "open" ELSE @]
    <3> DEFINE E == [D EXCEPT !.keyMode = IF @ = "private" THEN "open" ELSE @]
    <3>1. dirs' = [dirs EXCEPT ![d] = E]  BY <2>1
    <3> HIDE DEF D
    <3>2. E \in Directory /\ E.exists = D.exists /\ E.cert = D.cert /\ E.key = D.key /\ E.meta = D.meta
          /\ E.keyMode # "private"
      BY <1>1 DEF Directory
    <3> HIDE DEF E
    <3>3. Orderly(E, TRUE)  BY <1>1, <3>2 DEF Orderly
    <3> QED  BY <1>1, <3>1, <3>2, <3>3
  <2>2. CASE \E x \in Candidates : dirs' = [dirs EXCEPT ![d].cert = {x.cert}, ![d].key = {x.key}]
    <3>1. PICK x \in Candidates : dirs' = [dirs EXCEPT ![d].cert = {x.cert}, ![d].key = {x.key}]  BY <2>2
    <3> DEFINE E == [D EXCEPT !.cert = {x.cert}, !.key = {x.key}]
    <3>2. dirs' = [dirs EXCEPT ![d] = E]  BY <3>1, <1>1 DEF CaInv, CaTypes
    <3> HIDE DEF D
    <3>3. x.cert \in Certs /\ x.key \in Keys  BY DEF Certs, Keys
    <3>4. E \in Directory /\ E.exists = D.exists /\ E.cert = {x.cert} /\ E.key = {x.key} /\ E.meta = D.meta
          /\ E.keyMode = D.keyMode
      BY <1>1, <3>3 DEF Directory
    <3> HIDE DEF E
    <3>5. D.exists  BY <1>1 DEF Orderly
    <3>6. Orderly(E, TRUE)  BY <3>3, <3>4, <3>5 DEF Orderly
    <3> QED  BY <3>2, <3>4, <3>6
  <2> QED  BY <2>1, <2>2 DEF Meddle
<1>3. procs' = procs /\ meddled' = meddled \cup {d} /\ now' = now /\ created' = created  BY DEF Meddle
<1>4. dirs'[d] = E /\ \A e \in Dirs : e # d => dirs'[e] = dirs[e]  BY <1>2 DEF CaInv, CaTypes
<1>5. CaTypes' /\ Claimed'  BY <1>2, <1>3 DEF CaInv, CaTypes, Claimed
<1>6. ASSUME NEW q \in Procs
      PROVE  /\ Fills(procs'[q], dirs'[procs'[q].dir], procs'[q].dir \in meddled')
             /\ Reads(procs'[q], dirs'[procs'[q].dir], procs'[q].dir \in meddled')
  <2>0. /\ Fills(procs[q], dirs[procs[q].dir], procs[q].dir \in meddled)
        /\ Reads(procs[q], dirs[procs[q].dir], procs[q].dir \in meddled)
    BY DEF CaInv
  <2>1. CASE procs[q].dir = d
    <3>1. Fills(procs[q], D, d \in meddled) /\ Reads(procs[q], D, d \in meddled)  BY <2>0, <2>1
    <3> HIDE DEF D
    <3>2. Fills(procs[q], E, TRUE) /\ Reads(procs[q], E, TRUE)
      BY <1>1, <1>2, <3>1 DEF Fills, Reads
    <3>3. procs'[q] = procs[q] /\ dirs'[procs'[q].dir] = E /\ procs'[q].dir \in meddled'
      BY <1>3, <1>4, <2>1
    <3> QED  BY <3>2, <3>3
  <2>2. CASE procs[q].dir # d /\ procs[q].dir \in Dirs
    <3>1. procs'[q] = procs[q] /\ dirs'[procs'[q].dir] = dirs[procs[q].dir]
          /\ (procs'[q].dir \in meddled' <=> procs[q].dir \in meddled)
      BY <1>3, <1>4, <2>2
    <3> QED  BY <2>0, <3>1
  <2>3. CASE procs[q].dir \notin Dirs
    <3>1. procs[q].pc = "idle"  BY <2>3 DEF CaInv, CaTypes
    <3>2. \A F, t : Fills(procs[q], F, t) /\ Reads(procs[q], F, t)
      BY <2>0, <2>3, <3>1 DEF Fills, Reads, Publishing, Filling
    <3> QED  BY <3>2, <1>3
  <2> QED  BY <2>1, <2>2, <2>3
<1>7. ASSUME NEW e \in Dirs PROVE Orderly(dirs'[e], e \in meddled')
  <2>1. CASE e = d
    <3>1. dirs'[e] = E /\ e \in meddled'  BY <1>3, <1>4, <2>1
    <3> QED  BY <1>2, <3>1
  <2>2. CASE e # d
    <3>1. dirs'[e] = dirs[e] /\ (e \in meddled' <=> e \in meddled)  BY <1>3, <1>4, <2>2
    <3> QED  BY <3>1 DEF CaInv
  <2> QED  BY <2>1, <2>2
<1> QED  BY <1>5, <1>6, <1>7 DEF CaInv

LEMMA CaNextInv == CaInv /\ CaNext => CaInv'
<1> SUFFICES ASSUME CaInv, CaNext PROVE CaInv'  OBVIOUS
<1>1. ASSUME NEW p \in Procs, NEW d \in Dirs,
             \/ \E o \in CreateOptions : CreateNew(p, d, o)
             \/ \E x \in Candidates : Import(p, d, x)
             \/ OpenCa(p, d) \/ ExportCaCert(p, d) \/ RepairPermissions(p, d)
      PROVE  CaInv'
  BY SMTT(60), <1>1, CreateNewCa, ImportCa, OpenCaCa, ExportCa, RepairCa
<1>2. ASSUME NEW p \in Procs, Rename(p) PROVE CaInv'
  BY <1>2, RenameCertCa, RenameMetaCa, RenameKeyCa DEF Rename
<1>3. ASSUME NEW p \in Procs,
             \/ Stage(p) \/ Claim(p) \/ Rename(p) \/ Secure(p) \/ PublishFails(p)
             \/ OpenInspect(p) \/ OpenPermissions(p) \/ OpenRead(p) \/ Crash(p)
      PROVE  CaInv'
  BY <1>2, <1>3, StageCa, ClaimCa, SecureCa, PublishFailsCa, OpenInspectCa, OpenPermissionsCa, OpenReadCa
<1>4. ASSUME NEW d \in Dirs, Meddle(d) PROVE CaInv'  BY <1>4, MeddleCa
<1> QED  BY <1>1, <1>3, <1>4 DEF CaNext

\* The issuer's steps leave the directory alone; only the clock moves.
LEMMA LeafKeepsCa ==
  ASSUME CaInv, LeafNext \/ Tick \/ (\E c \in Authorities, hours \in LeafHours : NewIssuer(c, hours))
  PROVE  /\ UNCHANGED <<dirs, procs, staging, exported, created, meddled>>
         /\ now' \in Nat
<1>1. now \in Nat  BY DEF CaInv, CaTypes
<1>2. ASSUME NEW c \in Callers, NEW t \in Targets, AskLeaf(c, t)
      PROVE  UNCHANGED <<now, dirs, procs, staging, exported, created, meddled>>
  BY <1>2 DEF AskLeaf
<1>3. ASSUME NEW c \in Callers, NEW outcome, IssueLocked(c, outcome)
      PROVE  UNCHANGED <<now, dirs, procs, staging, exported, created, meddled>>
  BY <1>3 DEF IssueLocked
<1>4. ASSUME RemoveExpired PROVE UNCHANGED <<now, dirs, procs, staging, exported, created, meddled>>
  BY <1>4 DEF RemoveExpired
<1>5. ASSUME NEW c \in Authorities, NEW hours \in LeafHours, NewIssuer(c, hours)
      PROVE  UNCHANGED <<now, dirs, procs, staging, exported, created, meddled>>
  BY <1>5 DEF NewIssuer
<1>6. ASSUME Tick PROVE UNCHANGED <<dirs, procs, staging, exported, created, meddled>> /\ now' = now + 1
  BY <1>6 DEF Tick
<1>7. CASE LeafNext
  <2>1. CASE \E c \in Callers, t \in Targets : AskLeaf(c, t)  BY <1>1, <1>2, <2>1
  <2>2. CASE \E c \in Callers, outcome \in {"minted", "key generation", "signing"} : IssueLocked(c, outcome)
    BY <1>1, <1>3, <2>2
  <2> QED  BY <1>1, <1>4, <1>7, <2>1, <2>2 DEF LeafNext
<1> QED  BY <1>1, <1>5, <1>6, <1>7

LEMMA CaStill ==
  ASSUME CaInv, UNCHANGED <<dirs, procs, created, meddled>>, now' \in Nat PROVE CaInv'
BY DEF CaInv, CaTypes, Claimed

LEMMA CaAlways == Spec => []CaInv
<1>1. Init => CaInv  BY CaInvInit DEF Init
<1>2. CaInv /\ [Next]_vars => CaInv'
  <2> SUFFICES ASSUME CaInv, [Next]_vars PROVE CaInv'  OBVIOUS
  <2>1. CASE CaNext  BY <2>1, CaNextInv
  <2>2. CASE LeafNext \/ Tick \/ (\E c \in Authorities, hours \in LeafHours : NewIssuer(c, hours))
    BY <2>2, LeafKeepsCa, CaStill
  <2>3. CASE UNCHANGED vars
    <3>1. now' \in Nat  BY <2>3 DEF vars, CaInv, CaTypes
    <3> QED  BY <2>3, <3>1, CaStill DEF vars
  <2> QED  BY <2>1, <2>2, <2>3 DEF Next
<1> QED  BY <1>1, <1>2, PTL DEF Spec

\* However commands that create, import, open, repair and crash interleave on any
\* directories, an authority in hand is one identity, an acknowledged creation or
\* import opens with what it reported unless an operator changed it by hand, and no
\* reader gets past the checks of an incomplete directory (publish_ca_dir, open).
THEOREM CaStaysSound == Spec => []CaSound
<1>1. CaInv => CaSound
  <2> SUFFICES ASSUME CaInv PROVE CaSound  OBVIOUS
  <2>1. \A p \in Procs : Reads(procs[p], dirs[procs[p].dir], procs[p].dir \in meddled)  BY DEF CaInv
  <2>2. OpenedPaired
    <3> SUFFICES ASSUME NEW p \in Procs, procs[p].result = "ok", procs[p].op \in {"open", "create", "import"}
                 PROVE \E c \in procs[p].cert : procs[p].key = {c.key} /\ procs[p].meta = {c.id}
      BY DEF OpenedPaired
    <3> QED  BY <2>1 DEF Reads, Pair
  <2>3. AcknowledgedOpens
    <3> SUFFICES ASSUME NEW p \in Procs, procs[p].result = "ok", procs[p].op \in {"create", "import"},
                        procs[p].dir \notin meddled
                 PROVE  /\ Inspected(procs[p].dir) /\ CheckPermissions(procs[p].dir)
                        /\ dirs[procs[p].dir].cert = procs[p].cert /\ dirs[procs[p].dir].key = procs[p].key
      BY DEF AcknowledgedOpens
    <3> DEFINE D == dirs[procs[p].dir]
    <3>1. Whole(D) /\ D.cert = procs[p].cert /\ D.key = procs[p].key  BY <2>1 DEF Reads
    <3>2. Inspected(procs[p].dir) /\ CheckPermissions(procs[p].dir)
      BY <3>1 DEF Whole, Pair, Inspected, CheckPermissions
    <3> QED  BY <3>1, <3>2
  <2>4. IncompleteRefused  BY <2>1 DEF IncompleteRefused, Reads
  <2> QED  BY <2>2, <2>3, <2>4 DEF CaSound
<1> QED  BY <1>1, CaAlways, PTL

\* No command ever replaces a certificate, metadata or key file that is in a CA
\* directory, whatever else works on it (publish_ca_dir).
THEOREM FilesNeverOverwritten == Spec => NeverOverwritten
<1> DEFINE Kept(d) == /\ dirs[d].cert # {} => dirs'[d].cert = dirs[d].cert
                      /\ dirs[d].meta # {} => dirs'[d].meta = dirs[d].meta
                      /\ dirs[d].key # {} => dirs'[d].key = dirs[d].key
<1>1. ASSUME CaInv, [Next]_vars PROVE [\A d \in Dirs : meddled' = meddled => Kept(d)]_caVars
  <2> SUFFICES ASSUME meddled' = meddled, NEW d \in Dirs PROVE Kept(d)  OBVIOUS
  <2>1. CASE dirs' = dirs  BY <2>1
  <2>2. ASSUME NEW p \in Procs, Claim(p) PROVE Kept(d)
    <3>1. procs[p].dir \in Dirs /\ Orderly(dirs[procs[p].dir], procs[p].dir \in meddled)
      BY <1>1, <2>2 DEF Claim, CaInv, CaTypes
    <3> QED  BY <1>1, <2>1, <2>2, <3>1 DEF Claim, Orderly, CaInv, CaTypes
  <2>3. ASSUME NEW p \in Procs, Rename(p) PROVE Kept(d)
    <3>1. procs[p].dir \in Dirs /\ Fills(procs[p], dirs[procs[p].dir], procs[p].dir \in meddled)
          /\ dirs[procs[p].dir] \in Directory
      BY <1>1, <2>3 DEF Rename, CaInv, CaTypes
    <3>2. dirs \in [Dirs -> Directory]  BY <1>1 DEF CaInv, CaTypes
    <3>3. CASE procs[p].pc = "cert"
      <4>1. dirs' = [dirs EXCEPT ![procs[p].dir].cert = procs[p].cert]  BY <2>3, <3>3 DEF Rename
      <4> QED  BY <3>1, <3>2, <3>3, <4>1 DEF Fills, Directory
    <3>4. CASE procs[p].pc = "meta"
      <4>1. dirs' = [dirs EXCEPT ![procs[p].dir].meta = procs[p].meta]  BY <2>3, <3>4 DEF Rename
      <4> QED  BY <3>1, <3>2, <3>4, <4>1 DEF Fills, Directory
    <3>5. CASE procs[p].pc = "key"
      <4>1. dirs' = [dirs EXCEPT ![procs[p].dir].key = procs[p].key, ![procs[p].dir].keyMode = "private"]
        BY <2>3, <3>5 DEF Rename
      <4> QED  BY <3>1, <3>2, <3>5, <4>1 DEF Fills, Directory
    <3> QED  BY <2>3, <3>3, <3>4, <3>5 DEF Rename
  <2>4. ASSUME NEW p \in Procs, Secure(p) PROVE Kept(d)
    BY <1>1, <2>4 DEF Secure, CaInv, CaTypes, Directory
  <2>5. ASSUME NEW p \in Procs, NEW e \in Dirs, RepairPermissions(p, e) PROVE Kept(d)
    BY <1>1, <2>5 DEF RepairPermissions, CaInv, CaTypes, Directory
  <2>6. ASSUME NEW e \in Dirs, Meddle(e) PROVE Kept(d)
    <3>1. meddled' # meddled  BY <2>6 DEF Meddle
    <3> QED  BY <3>1
  <2>7. ASSUME NEW p \in Procs, NEW e \in Dirs, NEW o \in CreateOptions, CreateNew(p, e, o) PROVE Kept(d)
    BY <2>7, <2>1 DEF CreateNew
  <2>8. ASSUME NEW p \in Procs, NEW e \in Dirs, NEW x \in Candidates, Import(p, e, x) PROVE Kept(d)
    BY <2>8, <2>1 DEF Import
  <2>9. ASSUME NEW p \in Procs, NEW e \in Dirs, OpenCa(p, e) \/ ExportCaCert(p, e) PROVE Kept(d)
    BY <2>9, <2>1 DEF OpenCa, ExportCaCert
  <2>10. ASSUME NEW p \in Procs, \/ Stage(p) \/ PublishFails(p) \/ OpenInspect(p) \/ OpenPermissions(p)
                                 \/ OpenRead(p) \/ Crash(p)
         PROVE Kept(d)
    BY <2>10, <2>1 DEF Stage, PublishFails, OpenInspect, OpenPermissions, OpenRead, Crash
  <2>11. CASE CaNext
    BY <2>11, <2>2, <2>3, <2>4, <2>5, <2>6, <2>7, <2>8, <2>9, <2>10 DEF CaNext
  <2>12. CASE ~CaNext
    <3>1. dirs' = dirs  BY <1>1, <2>12, LeafKeepsCa DEF Next, vars
    <3> QED  BY <3>1, <2>1
  <2> QED  BY <2>11, <2>12
<1>2. Spec => [][\A d \in Dirs : meddled' = meddled => Kept(d)]_caVars
  BY <1>1, CaAlways, PTL DEF Spec
<1> QED  BY <1>2 DEF NeverOverwritten

-----------------------------------------------------------------------------
(* The queue.                                                               *)

\* A non-empty set of naturals has a least element, and Min is it.
LEMMA LeastOf ==
  ASSUME NEW S \in SUBSET Nat, S # {}
  PROVE  Min(S) \in S /\ \A n \in S : Min(S) <= n
<1> DEFINE R == {ss \in Nat \X Nat : ss[1] < ss[2]}
<1>1. IsWellFoundedOn(R, Nat)  BY NatLessThanWellFounded DEF OpToRel
<1> HIDE DEF R
<1>2. PICK m \in S : \A n \in S : ~(<<n, m>> \in R)  BY <1>1, WFMin
<1>3. ASSUME NEW n \in S PROVE m <= n
  <2>1. n \in Nat /\ m \in Nat  OBVIOUS
  <2>2. ~(n < m)  BY <1>2, <2>1 DEF R
  <2> QED  BY <2>1, <2>2
<1> QED  BY <1>3 DEF Min

\* The lesser of two.
LEMMA LesserOf ==
  ASSUME NEW a \in Int, NEW b \in Int
  PROVE  Min({a, b}) \in {a, b} /\ Min({a, b}) <= a /\ Min({a, b}) <= b
<1>1. \E x \in {a, b} : \A y \in {a, b} : x <= y
  <2>1. CASE a <= b  BY <2>1
  <2>2. CASE b <= a  BY <2>2
  <2> QED  BY <2>1, <2>2
<1> DEFINE m == CHOOSE x \in {a, b} : \A y \in {a, b} : x <= y
<1>2. m \in {a, b} /\ \A y \in {a, b} : m <= y  BY <1>1
<1>3. Min({a, b}) = m  BY DEF Min
<1> QED  BY <1>2, <1>3

LEMMA InductionOnSet ==
  ASSUME NEW S \in SUBSET Nat, 0 \in S, \A n \in S : n + 1 \in S
  PROVE  S = Nat
<1> DEFINE T == Nat \ S
<1> SUFFICES ASSUME T # {} PROVE FALSE  OBVIOUS
<1>1. Min(T) \in T /\ \A n \in T : Min(T) <= n  BY LeastOf
<1>2. Min(T) - 1 \in Nat /\ Min(T) - 1 < Min(T)  BY <1>1
<1> QED  BY <1>1, <1>2

\* Dropping the keys without an entry keeps the others in the queue.
LEMMA RetainKeeps ==
  ASSUME NEW T, NEW q \in Seq(T), NEW kept
  PROVE  /\ Retain(q, kept) \in Seq(T)
         /\ \A i \in DOMAIN q : q[i] \in kept =>
                \E j \in DOMAIN Retain(q, kept) : Retain(q, kept)[j] = q[i]
<1> DEFINE L == Len(q)
           Rule(g, n) == IF n = 0 THEN << >>
                         ELSE IF q[n] \in kept THEN Append(g[n - 1], q[n]) ELSE g[n - 1]
           IsRun(g, m) == g = [n \in 0..m |-> Rule(g, n)]
           S == {m \in Nat : \E g : IsRun(g, m)}
<1>0. L \in Nat /\ DOMAIN q = 1..L  OBVIOUS
<1>1. 0 \in S
  <2> DEFINE g == [n \in 0..0 |-> << >>]
  <2>1. \A n \in 0..0 : Rule(g, n) = << >>  OBVIOUS
  <2>2. IsRun(g, 0)  BY <2>1
  <2> QED  BY <2>2
<1>2. ASSUME NEW m \in S PROVE m + 1 \in S
  <2>1. PICK g : IsRun(g, m)  OBVIOUS
  <2> DEFINE last == IF q[m + 1] \in kept THEN Append(g[m], q[m + 1]) ELSE g[m]
             h == [n \in 0..(m + 1) |-> IF n = m + 1 THEN last ELSE g[n]]
  <2>2. ASSUME NEW n \in 0..(m + 1) PROVE h[n] = Rule(h, n)
    <3>1. CASE n = m + 1
      <4>1. n # 0 /\ n - 1 = m /\ h[n - 1] = g[m]  BY <3>1
      <4> QED  BY <3>1, <4>1
    <3>2. CASE n = 0  BY <3>2, <2>1
    <3>3. CASE n \in 1..m
      <4>1. n \in 0..m /\ n # 0 /\ n - 1 \in 0..m /\ n # m + 1 /\ n - 1 # m + 1  BY <3>3
      <4>2. h[n - 1] = g[n - 1] /\ h[n] = g[n]  BY <4>1
      <4>3. g[n] = Rule(g, n)  BY <2>1, <4>1
      <4> QED  BY <4>1, <4>2, <4>3
    <3> QED  BY <3>1, <3>2, <3>3
  <2>3. IsRun(h, m + 1)  BY <2>2
  <2>4. m + 1 \in Nat  OBVIOUS
  <2> QED  BY <2>3, <2>4
<1>3. S = Nat  BY <1>1, <1>2, InductionOnSet
<1> DEFINE c == CHOOSE g : IsRun(g, L)
<1>4. IsRun(c, L)
  <2>1. \E g : IsRun(g, L)  BY <1>0, <1>3
  <2> QED  BY <2>1
<1>5. Retain(q, kept) = c[L]  BY DEF Retain
<1> HIDE DEF c
<1> DEFINE Good(n) == /\ c[n] \in Seq(T)
                      /\ \A i \in 1..n : q[i] \in kept => \E j \in DOMAIN c[n] : c[n][j] = q[i]
           B == {n \in Nat : n <= L => Good(n)}
<1>6. 0 \in B
  <2>1. 0 \in 0..L  BY <1>0
  <2>2. c[0] = << >>  BY <1>4, <2>1
  <2>3. << >> \in Seq(T) /\ 1..0 = {}  OBVIOUS
  <2>4. Good(0)  BY <2>2, <2>3
  <2> HIDE DEF Good
  <2> QED  BY <2>4
<1>7. ASSUME NEW n \in B PROVE n + 1 \in B
  <2> SUFFICES ASSUME n + 1 <= L PROVE Good(n + 1)  OBVIOUS
  <2>1. Good(n) /\ n + 1 \in 0..L /\ n + 1 # 0 /\ n + 1 \in 1..L  BY <1>0
  <2>2. c[n + 1] = Rule(c, n + 1)  BY <1>4, <2>1
  <2>3. c[n + 1] = IF q[n + 1] \in kept THEN Append(c[n], q[n + 1]) ELSE c[n]  BY <2>1, <2>2
  <2>4. q[n + 1] \in T  BY <1>0, <2>1
  <2> DEFINE a == c[n]  b == c[n + 1]
  <2>5. a \in Seq(T)  BY <2>1
  <2>6. CASE q[n + 1] \in kept
    <3>1. b = Append(a, q[n + 1])  BY <2>3, <2>6
    <3> HIDE DEF a, b
    <3>2. b \in Seq(T) /\ DOMAIN a \subseteq DOMAIN b /\ (\A j \in DOMAIN a : b[j] = a[j])
          /\ Len(b) \in DOMAIN b /\ b[Len(b)] = q[n + 1]
      BY <2>4, <2>5, <3>1
    <3>3. ASSUME NEW i \in 1..(n + 1), q[i] \in kept PROVE \E j \in DOMAIN b : b[j] = q[i]
      <4>1. CASE i = n + 1  BY <3>2, <4>1
      <4>2. CASE i # n + 1
        <5>1. i \in 1..n  BY <4>2
        <5>2. PICK j \in DOMAIN a : a[j] = q[i]  BY <2>1, <3>3, <5>1 DEF a
        <5> QED  BY <3>2, <5>2
      <4> QED  BY <4>1, <4>2
    <3> QED  BY <3>2, <3>3 DEF b
  <2>7. CASE q[n + 1] \notin kept
    <3>1. c[n + 1] = c[n]  BY <2>3, <2>7
    <3>2. ASSUME NEW i \in 1..(n + 1), q[i] \in kept PROVE i \in 1..n  BY <2>7, <3>2
    <3> QED  BY <2>1, <3>1, <3>2
  <2> QED  BY <2>6, <2>7
<1>8. B = Nat
  <2>1. B \in SUBSET Nat  OBVIOUS
  <2> HIDE DEF B
  <2> QED  BY <1>6, <1>7, <2>1, InductionOnSet
<1>9. Good(L)  BY <1>0, <1>8
<1> QED  BY <1>0, <1>5, <1>9

\* What is queued: the hosts of a set of leaves are all in it.
Queued(es, q) == \A l \in es : \E i \in DOMAIN q : q[i] = l.target

\* Eviction makes room for one more leaf, and what stays is still queued: the key
\* that is popped last belongs to no entry any more.
LEMMA EvictMakesRoom ==
  ASSUME NEW es, NEW q \in Seq(Targets), IsFiniteSet(es), Queued(es, q),
         Cardinality(es) <= CacheEntries
  PROVE  /\ Evict(es, q)[1] \subseteq es
         /\ Evict(es, q)[2] \in Seq(Targets)
         /\ Queued(Evict(es, q)[1], Evict(es, q)[2])
         /\ Cardinality(Evict(es, q)[1]) < CacheEntries
<1>0. Cardinality(es) \in Nat /\ CacheEntries \in Nat /\ CacheEntries # 0
  BY FS_CardinalityType, LeafBounds
<1>1. CASE Cardinality(es) < CacheEntries
  <2>1. Evict(es, q) = <<es, q>>  BY <1>1 DEF Evict
  <2> QED  BY <1>1, <2>1
<1>2. CASE ~(Cardinality(es) < CacheEntries)
  <2> DEFINE I == {i \in DOMAIN q : \E l \in es : l.target = q[i]}
             n == Min(I)  kept == {l \in es : l.target # q[n]}  rest == SubSeq(q, n + 1, Len(q))
  <2>1. es # {}
    <3> SUFFICES ASSUME es = {} PROVE FALSE  OBVIOUS
    <3>1. Cardinality(es) = 0  BY FS_EmptySet
    <3> HIDE <3>1
    <3>2. ~(0 < CacheEntries)  BY <1>2, <3>1
    <3> QED  BY <1>0, <3>2
  <2>2. I # {}  BY <2>1 DEF Queued
  <2>3. I \in SUBSET Nat /\ DOMAIN q = 1..Len(q) /\ Len(q) \in Nat  OBVIOUS
  <2>4. n \in I /\ \A i \in I : n <= i  BY <2>2, <2>3, LeastOf
  <2>5. Evict(es, q) = <<kept, rest>>  BY <1>2, <2>2 DEF Evict
  <2>6. n \in 1..Len(q)  BY <2>3, <2>4
  <2>7. PICK gone \in es : gone.target = q[n]  BY <2>4
  <2> HIDE DEF n
  <2>8. rest \in Seq(Targets) /\ DOMAIN rest = 1..(Len(q) - n)
        /\ \A i \in 1..(Len(q) - n) : rest[i] = q[n + i]
    BY <2>3, <2>6
  <2>9. Queued(kept, rest)
    <3> SUFFICES ASSUME NEW l \in kept PROVE \E i \in DOMAIN rest : rest[i] = l.target  BY DEF Queued
    <3>1. PICK j \in DOMAIN q : q[j] = l.target  BY DEF Queued
    <3>2. j \in I /\ j # n  BY <3>1
    <3>3. j - n \in 1..(Len(q) - n) /\ n + (j - n) = j  BY <2>3, <2>4, <2>6, <3>2
    <3> QED  BY <2>8, <3>1, <3>3
  <2>10. Cardinality(kept) < CacheEntries
    <3>1. gone \notin kept /\ kept \subseteq es \ {gone}  BY <2>7
    <3>2. IsFiniteSet(es \ {gone}) /\ Cardinality(es \ {gone}) = Cardinality(es) - 1
      BY FS_RemoveElement
    <3>3. Cardinality(kept) <= Cardinality(es \ {gone})  BY <3>1, <3>2, FS_Subset
    <3>4. Cardinality(kept) \in Nat  BY FS_Subset, FS_CardinalityType
    <3> QED  BY <1>0, <3>2, <3>3, <3>4
  <2> HIDE DEF kept, rest
  <2>11. kept \subseteq es  BY DEF kept
  <2> QED  BY <2>5, <2>8, <2>9, <2>10, <2>11
<1> QED  BY <1>1, <1>2

-----------------------------------------------------------------------------
(* The issuer and its cache.                                                *)

Serials == {Serial(n) : n \in Nat}

Issued == [target : Targets, serial : Serials]

Leaf == [target : Targets, serial : Serials, nb : Int, na : Int]

Waiting(x) == \E t \in Targets : x.target = {t}

LeafTypes ==
    /\ now \in 0..MaxClock
    /\ issuer = {} \/ \E ca \in [nb : Int, na : Int, hours : Nat] : issuer = {ca}
    /\ issuer = {} => entries = {} /\ minted = << >> /\ given = {} /\ \A c \in Callers : callers[c] = NoCaller
    /\ entries \subseteq Leaf /\ IsFiniteSet(entries)
    /\ order \in Seq(Targets) /\ minted \in Seq(Issued)
    /\ callers \in [Callers -> [target : SUBSET Targets, read : Nat, until : Int]]

\* A caller that waits for the lock read the clock less than the shortest validity
\* ago, and asks for a leaf inside the CA's validity.
Asks(x) == x.target # {} =>
    /\ Waiting(x)
    /\ Ca.nb <= x.read /\ x.until <= Ca.na /\ x.until - x.read >= MinValidity
    /\ x.read <= now /\ now < x.read + MinValidity

LeafFits(l) == Ca.nb <= l.nb /\ l.na <= Ca.na /\ l.na - l.nb >= MinValidity

\* A leaf is cached or dropped, and at most one of a host is cached.
Cache ==
    /\ Cardinality(entries) <= CacheEntries
    /\ \A l, m \in entries : l.target = m.target => l = m
    /\ Queued(entries, order)
    /\ \A l \in entries : \E i \in DOMAIN minted : minted[i] = [target |-> l.target, serial |-> l.serial]
    /\ \A i \in DOMAIN minted : \/ minted[i].serial \in dropped
                                \/ /\ \E l \in entries : minted[i] = [target |-> l.target, serial |-> l.serial]
                                   /\ \A j \in DOMAIN minted : i < j => minted[j].target # minted[i].target

Given == \A g \in given :
    /\ (g.error = "none") = (g.leaf # {})
    /\ \A l \in g.leaf : l.target = g.target /\ now < l.na + MinValidity /\ LeafFits(l)

\* The n-th minting has the n-th serial after those of the CAs.
Numbered == \A i \in DOMAIN minted : minted[i].serial = Serial(created + (i - 1))

LeafInv ==
    /\ LeafTypes
    /\ \A c \in Callers : Asks(callers[c])
    /\ \A l \in entries : LeafFits(l)
    /\ Cache /\ OneIssuance /\ Given /\ Numbered

LEMMA LeafInvInit == Init => LeafInv
<1> SUFFICES ASSUME Init PROVE LeafInv  OBVIOUS
<1>1. now \in 0..MaxClock
  <2>1. MaxClock \in Nat  BY CaBounds
  <2>2. 0 \in 0..MaxClock  BY <2>1
  <2>3. now = 0  BY DEF Init, CaInit
  <2> QED  BY <2>2, <2>3
<1>2. IsFiniteSet({}) /\ Cardinality({}) = 0  BY FS_EmptySet
<1>3. NoCaller \in [target : SUBSET Targets, read : Nat, until : Int] /\ NoCaller.target = {}  BY DEF NoCaller
<1>4. LeafTypes  BY <1>1, <1>2, <1>3 DEF LeafTypes, Init
<1>5. \A c \in Callers : Asks(callers[c])  BY <1>3 DEF Asks, Init
<1>6. entries = {} /\ minted = << >> /\ given = {}  BY DEF Init
<1>7. Cardinality(entries) <= CacheEntries  BY <1>2, <1>6, LeafBounds
<1>8. Cache /\ OneIssuance /\ Given /\ Numbered  BY <1>6, <1>7 DEF Cache, OneIssuance, Given, Numbered, Queued
<1> QED  BY <1>4, <1>5, <1>6, <1>8 DEF LeafInv

LEMMA TheCa ==
  ASSUME LeafTypes, issuer # {}
  PROVE  Ca \in [nb : Int, na : Int, hours : Nat] /\ issuer = {Ca}
BY DEF LeafTypes, Ca

\* The books of the cache depend on nothing else.
LEMMA CacheStill ==
  ASSUME Cache /\ OneIssuance /\ Numbered, UNCHANGED <<entries, order, minted, dropped, created>>
  PROVE  (Cache /\ OneIssuance /\ Numbered)'
BY DEF Cache, OneIssuance, Numbered, Queued

\* What holds of leaves and of waiting callers holds while the CA and the clock do.
LEMMA ClockStill ==
  ASSUME UNCHANGED <<issuer, now>>
  PROVE  /\ \A l : LeafFits(l)' <=> LeafFits(l)
         /\ \A x : Asks(x)' <=> Asks(x)
         /\ Ca' = Ca
BY DEF LeafFits, Asks, Ca, Waiting

LEMMA CaKeepsLeaf ==
  ASSUME LeafInv, issuer = {}, UNCHANGED leafVars, now' = now PROVE LeafInv'
<1>1. LeafTypes'  BY DEF LeafInv, LeafTypes, leafVars
<1>2. entries = {} /\ given = {} /\ minted = << >> /\ \A c \in Callers : callers[c] = NoCaller
  BY DEF LeafInv, LeafTypes
<1>3. entries' = {} /\ given' = {} /\ minted' = << >> /\ \A c \in Callers : callers'[c] = NoCaller
      /\ order' = order /\ dropped' = dropped
  BY <1>2 DEF leafVars
<1>4. \A c \in Callers : Asks(callers[c])'  BY <1>3 DEF Asks, NoCaller
<1>5. Cardinality(entries') <= CacheEntries
  BY <1>2, <1>3 DEF LeafInv, Cache
<1>6. Cache' /\ OneIssuance' /\ Given' /\ Numbered'
  BY <1>3, <1>5 DEF Cache, OneIssuance, Given, Numbered, Queued
<1> QED  BY <1>1, <1>3, <1>4, <1>6 DEF LeafInv

LEMMA NewIssuerLeaf ==
  ASSUME LeafInv, NEW c \in Authorities, NEW hours \in LeafHours, NewIssuer(c, hours)
  PROVE  LeafInv'
<1>1. /\ issuer = {} /\ issuer' = {[nb |-> c.nb, na |-> c.na, hours |-> hours]}
      /\ UNCHANGED <<now, created, entries, order, callers, given, minted, dropped>>
  BY DEF NewIssuer
<1>2. [nb |-> c.nb, na |-> c.na, hours |-> hours] \in [nb : Int, na : Int, hours : Nat]  BY LeafBounds
<1>3. LeafTypes'
  <2> DEFINE ca == [nb |-> c.nb, na |-> c.na, hours |-> hours]
  <2>1. issuer' = {ca} /\ issuer' # {} /\ ca \in [nb : Int, na : Int, hours : Nat]  BY <1>1, <1>2
  <2> HIDE DEF ca
  <2> QED  BY <1>1, <2>1 DEF LeafInv, LeafTypes
<1>4. entries = {} /\ given = {} /\ \A x \in Callers : callers[x] = NoCaller
  BY <1>1 DEF LeafInv, LeafTypes
<1>5. \A x \in Callers : Asks(callers[x])'  BY <1>1, <1>4 DEF Asks, NoCaller
<1>6. (Cache /\ OneIssuance /\ Numbered)'  BY <1>1, CacheStill DEF LeafInv
<1>7. Given'  BY <1>1, <1>4 DEF Given
<1>8. entries' = {}  BY <1>1, <1>4
<1> QED  BY <1>3, <1>5, <1>6, <1>7, <1>8 DEF LeafInv

LEMMA TickLeaf ==
  ASSUME LeafInv, Tick PROVE LeafInv'
<1>1. /\ now < MaxClock /\ now' = now + 1 /\ given' = {}
      /\ UNCHANGED <<created, issuer, entries, order, callers, minted, dropped>>
      /\ \A c \in Callers : callers[c].target # {} => now + 1 < callers[c].read + MinValidity
  BY DEF Tick
<1>2. now \in 0..MaxClock /\ MaxClock \in Nat  BY CaBounds DEF LeafInv, LeafTypes
<1>3. LeafTypes'
  <2>1. now' \in 0..MaxClock  BY <1>1, <1>2
  <2> QED  BY <1>1, <2>1 DEF LeafInv, LeafTypes
<1>4. ASSUME NEW c \in Callers PROVE Asks(callers[c])'
  <2>1. Asks(callers[c]) /\ callers'[c] = callers[c] /\ Ca' = Ca /\ callers[c].read \in Nat
    BY <1>1 DEF LeafInv, LeafTypes, Ca
  <2>2. callers[c].target # {} => now' < callers[c].read + MinValidity /\ callers[c].read <= now'
    BY <1>1, <1>2, <2>1 DEF Asks
  <2> QED  BY <2>1, <2>2 DEF Asks, Waiting
<1>5. \A l \in entries' : LeafFits(l)'
  BY <1>1 DEF LeafInv, LeafFits, Ca
<1>6. (Cache /\ OneIssuance /\ Numbered)'  BY <1>1, CacheStill DEF LeafInv
<1>7. Given'  BY <1>1 DEF Given
<1> QED  BY <1>3, <1>4, <1>5, <1>6, <1>7 DEF LeafInv

LEMMA AskLeafLeaf ==
  ASSUME LeafInv, NEW c \in Callers, NEW t \in Targets, AskLeaf(c, t)
  PROVE  LeafInv'
<1>1. /\ issuer # {} /\ UNCHANGED <<now, created, issuer, entries, order, minted, dropped>>
  BY DEF AskLeaf
<1>2. Ca \in [nb : Int, na : Int, hours : Nat] /\ now \in Nat
  BY <1>1, TheCa DEF LeafInv, LeafTypes
<1>3. (Cache /\ OneIssuance /\ Numbered)'  BY <1>1, CacheStill DEF LeafInv
<1>4. \A l \in entries' : LeafFits(l)'  BY <1>1, ClockStill DEF LeafInv
<1> DEFINE Caller == [target : SUBSET Targets, read : Nat, until : Int]
<1>5. PICK y \in Caller : callers' = [callers EXCEPT ![c] = y] /\ Asks(y) /\ Given'
  <2>1. ASSUME NEW e, e # "none", Answer(c, t, {}, e)
        PROVE  \E y \in Caller : callers' = [callers EXCEPT ![c] = y] /\ Asks(y) /\ Given'
    <3>1. callers' = [callers EXCEPT ![c] = NoCaller]  BY <2>1 DEF Answer
    <3>2. NoCaller \in Caller /\ Asks(NoCaller)  BY DEF NoCaller, Asks
    <3>3. Given'  BY <2>1 DEF Answer, Given
    <3> QED  BY <3>1, <3>2, <3>3
  <2>2. CASE now < Ca.nb \/ now >= Ca.na
    <3>1. Answer(c, t, {}, "ca not valid")  BY <2>2 DEF AskLeaf
    <3> QED  BY <2>1, <3>1
  <2>3. CASE ~(now < Ca.nb \/ now >= Ca.na) /\ Until(now) - now < MinValidity
    <3>1. Answer(c, t, {}, "ca expiring")  BY <2>3 DEF AskLeaf
    <3> QED  BY <2>1, <3>1
  <2>4. CASE ~(now < Ca.nb \/ now >= Ca.na) /\ ~(Until(now) - now < MinValidity)
    <3> DEFINE y == [target |-> {t}, read |-> now, until |-> Until(now)]
    <3>1. callers' = [callers EXCEPT ![c] = y] /\ given' = {}  BY <2>4 DEF AskLeaf
    <3>2. Until(now) \in Int /\ Until(now) <= Ca.na
      <4>1. now + Ca.hours \in Int /\ Ca.na \in Int  BY <1>2
      <4> QED  BY <4>1, LesserOf DEF Until
    <3>3. y \in Caller /\ y.target = {t} /\ y.read = now /\ y.until = Until(now)  BY <1>2, <3>2
    <3>4. Asks(y)
      <4>1. Ca.nb <= now /\ Until(now) - now >= MinValidity /\ now < now + MinValidity
        BY <1>2, <2>4, <3>2, LeafBounds
      <4>2. Waiting(y)  BY <3>3 DEF Waiting
      <4> HIDE DEF y
      <4> QED  BY <1>2, <3>2, <3>3, <4>1, <4>2 DEF Asks
    <3>5. Given'  BY <3>1 DEF Given
    <3> HIDE DEF y
    <3> QED  BY <3>1, <3>3, <3>4, <3>5
  <2> QED  BY <2>2, <2>3, <2>4
<1>6. LeafTypes'  BY <1>1, <1>5 DEF LeafInv, LeafTypes
<1>7. ASSUME NEW x \in Callers PROVE Asks(callers[x])'
  <2>1. callers'[x] = IF x = c THEN y ELSE callers[x]  BY <1>5 DEF LeafInv, LeafTypes
  <2>2. Asks(callers'[x])  BY <1>5, <2>1 DEF LeafInv
  <2> QED  BY <1>1, <2>2 DEF Asks, Ca, Waiting
<1> QED  BY <1>3, <1>4, <1>5, <1>6, <1>7 DEF LeafInv

\* Entries may leave the cache when their serials are counted as dropped.
LEMMA CacheShrinks ==
  ASSUME LeafInv, entries' \subseteq entries, Queued(entries', order'), minted' = minted, created' = created,
         dropped' = dropped \cup {l.serial : l \in entries \ entries'}
  PROVE  IsFiniteSet(entries') /\ (Cache /\ OneIssuance /\ Numbered)'
<1>1. IsFiniteSet(entries) /\ Cache /\ OneIssuance /\ Numbered  BY DEF LeafInv, LeafTypes
<1>2. IsFiniteSet(entries') /\ Cardinality(entries') <= CacheEntries
  <2>1. IsFiniteSet(entries') /\ Cardinality(entries') <= Cardinality(entries)  BY <1>1, FS_Subset
  <2>2. Cardinality(entries) \in Nat /\ Cardinality(entries') \in Nat /\ CacheEntries \in Nat
    BY <1>1, <2>1, FS_CardinalityType, LeafBounds
  <2>3. Cardinality(entries) <= CacheEntries  BY <1>1 DEF Cache
  <2> QED  BY <2>1, <2>2, <2>3
<1>3. ASSUME NEW i \in DOMAIN minted, minted[i].serial \notin dropped'
      PROVE  /\ \E l \in entries' : minted[i] = [target |-> l.target, serial |-> l.serial]
             /\ \A j \in DOMAIN minted : i < j => minted[j].target # minted[i].target
  <2>1. minted[i].serial \notin dropped  BY <1>3
  <2>2. PICK l \in entries : minted[i] = [target |-> l.target, serial |-> l.serial]  BY <1>1, <2>1 DEF Cache
  <2>3. minted[i].serial = l.serial  BY <2>2
  <2>4. l \in entries'  BY <1>3, <2>3
  <2> QED  BY <1>1, <2>1, <2>2, <2>4 DEF Cache
<1>4. \A l, m \in entries' : l.target = m.target => l = m  BY <1>1 DEF Cache
<1>5. \A l \in entries' : \E i \in DOMAIN minted : minted[i] = [target |-> l.target, serial |-> l.serial]
  BY <1>1 DEF Cache
<1>6. Queued(entries, order)'  BY DEF Queued
<1>7. Cache'  BY <1>2, <1>3, <1>4, <1>5, <1>6 DEF Cache
<1>8. OneIssuance'  BY <1>1 DEF OneIssuance
<1>9. Numbered'  BY <1>1 DEF Numbered
<1> QED  BY <1>2, <1>7, <1>8, <1>9

\* A serial that was drawn for a leaf never signed counts as dropped.
LEMMA CacheSkips ==
  ASSUME LeafInv, NEW t \in Targets, NEW s \in Serials, s = Serial(created + Len(minted)),
         entries' \subseteq entries, \A l \in entries' : l.target # t, Queued(entries', order'),
         created' = created, minted' = Append(minted, [target |-> t, serial |-> s]),
         dropped' = dropped \cup {l.serial : l \in entries \ entries'} \cup {s}
  PROVE  IsFiniteSet(entries') /\ minted' \in Seq(Issued) /\ (Cache /\ OneIssuance /\ Numbered)'
<1>1. IsFiniteSet(entries) /\ Cache /\ OneIssuance /\ Numbered /\ minted \in Seq(Issued)
  BY DEF LeafInv, LeafTypes
<1> DEFINE n == Len(minted)  rec == [target |-> t, serial |-> s]
<1>2. rec \in Issued /\ rec.target = t /\ rec.serial = s  BY DEF Issued
<1> HIDE DEF rec
<1>3. /\ n \in Nat /\ DOMAIN minted = 1..n /\ minted' \in Seq(Issued) /\ DOMAIN minted' = 1..(n + 1)
      /\ minted'[n + 1] = rec /\ \A i \in 1..n : minted'[i] = minted[i]
  BY <1>1, <1>2 DEF rec
<1>4. IsFiniteSet(entries') /\ Cardinality(entries') <= CacheEntries
  <2>1. IsFiniteSet(entries') /\ Cardinality(entries') <= Cardinality(entries)  BY <1>1, FS_Subset
  <2>2. Cardinality(entries) \in Nat /\ Cardinality(entries') \in Nat /\ CacheEntries \in Nat
    BY <1>1, <2>1, FS_CardinalityType, LeafBounds
  <2>3. Cardinality(entries) <= CacheEntries  BY <1>1 DEF Cache
  <2> QED  BY <2>1, <2>2, <2>3
<1>5. ASSUME NEW l \in entries'
      PROVE \E i \in DOMAIN minted' : minted'[i] = [target |-> l.target, serial |-> l.serial]
  <2>1. PICK i \in DOMAIN minted : minted[i] = [target |-> l.target, serial |-> l.serial]
    BY <1>1, <1>5 DEF Cache
  <2>2. i \in DOMAIN minted' /\ minted'[i] = minted[i]  BY <1>3, <2>1
  <2> QED  BY <2>1, <2>2
<1>6. ASSUME NEW i \in DOMAIN minted', minted'[i].serial \notin dropped'
      PROVE  /\ \E l \in entries' : minted'[i] = [target |-> l.target, serial |-> l.serial]
             /\ \A j \in DOMAIN minted' : i < j => minted'[j].target # minted'[i].target
  <2>1. i # n + 1  BY <1>2, <1>3, <1>6
  <2>2. i \in 1..n /\ minted'[i] = minted[i] /\ minted[i].serial \notin dropped  BY <1>3, <1>6, <2>1
  <2>3. PICK l \in entries : minted[i] = [target |-> l.target, serial |-> l.serial]
    BY <1>1, <1>3, <2>2 DEF Cache
  <2>4. minted[i].serial = l.serial /\ minted[i].target = l.target  BY <2>3
  <2>5. l \in entries'  BY <1>6, <2>2, <2>4
  <2>6. \A j \in 1..n : i < j => minted[j].target # minted[i].target  BY <1>1, <1>3, <2>2 DEF Cache
  <2>7. ASSUME NEW j \in DOMAIN minted', i < j PROVE minted'[j].target # minted'[i].target
    <3>1. CASE j = n + 1  BY <1>2, <1>3, <2>2, <2>4, <2>5, <3>1
    <3>2. CASE j \in 1..n  BY <1>3, <2>2, <2>6, <2>7, <3>2
    <3> QED  BY <1>3, <3>1, <3>2
  <2> QED  BY <2>2, <2>3, <2>5, <2>7
<1>7. \A l, m \in entries' : l.target = m.target => l = m  BY <1>1 DEF Cache
<1>8. Queued(entries, order)'  BY DEF Queued
<1>9. Cache'  BY <1>4, <1>5, <1>6, <1>7, <1>8 DEF Cache
<1>10. OneIssuance'
  <2> SUFFICES ASSUME NEW i \in DOMAIN minted', NEW j \in DOMAIN minted', i < j,
                      minted'[i].target = minted'[j].target
               PROVE  minted'[i].serial \in dropped'
    BY DEF OneIssuance
  <2> QED  BY <1>6
<1>11. Numbered'
  <2> SUFFICES ASSUME NEW i \in DOMAIN minted' PROVE minted'[i].serial = Serial(created' + (i - 1))
    BY DEF Numbered
  <2>1. CASE i = n + 1
    <3>1. (n + 1) - 1 = n  BY <1>3
    <3> QED  BY <1>2, <1>3, <2>1, <3>1
  <2>2. CASE i \in 1..n  BY <1>1, <1>3, <2>2 DEF Numbered
  <2> QED  BY <1>3, <2>1, <2>2
<1> QED  BY <1>3, <1>4, <1>9, <1>10, <1>11

\* A leaf of a host with none cached joins what eviction left.
LEMMA CacheGrows ==
  ASSUME LeafInv, NEW t \in Targets, NEW leaf \in Leaf, leaf.target = t,
         leaf.serial = Serial(created + Len(minted)), created \in Nat,
         NEW A \in SUBSET entries, \A l \in A : l.target # t, Cardinality(A) < CacheEntries,
         NEW Q \in Seq(Targets), Queued(A, Q),
         entries' = A \cup {leaf}, order' = Append(Q, t), created' = created,
         minted' = Append(minted, [target |-> t, serial |-> leaf.serial]),
         dropped' = dropped \cup {l.serial : l \in entries \ A}
  PROVE  /\ IsFiniteSet(entries') /\ order' \in Seq(Targets) /\ minted' \in Seq(Issued)
         /\ (Cache /\ OneIssuance /\ Numbered)'
<1>1. IsFiniteSet(entries) /\ Cache /\ OneIssuance /\ Numbered /\ minted \in Seq(Issued)
  BY DEF LeafInv, LeafTypes
<1> DEFINE n == Len(minted)  rec == [target |-> t, serial |-> leaf.serial]
<1>2. rec \in Issued /\ rec.target = t /\ rec.serial = leaf.serial  BY DEF Issued, Leaf
<1> HIDE DEF rec
<1>3. /\ n \in Nat /\ DOMAIN minted = 1..n /\ minted' \in Seq(Issued) /\ DOMAIN minted' = 1..(n + 1)
      /\ minted'[n + 1] = rec /\ \A i \in 1..n : minted'[i] = minted[i]
  BY <1>1, <1>2 DEF rec
<1>4. IsFiniteSet(A) /\ leaf \notin A  BY <1>1, FS_Subset
<1>5. IsFiniteSet(entries') /\ Cardinality(entries') <= CacheEntries
  <2>1. IsFiniteSet(A \cup {leaf}) /\ Cardinality(A \cup {leaf}) = Cardinality(A) + 1
    BY <1>4, FS_AddElement
  <2>2. Cardinality(A) \in Nat /\ CacheEntries \in Nat  BY <1>4, FS_CardinalityType, LeafBounds
  <2> QED  BY <2>1, <2>2
<1>6. ASSUME NEW l \in entries', NEW m \in entries', l.target = m.target PROVE l = m
  BY <1>1, <1>6 DEF Cache
<1>7. order' \in Seq(Targets) /\ Queued(entries, order)'
  <2>1. /\ order' \in Seq(Targets) /\ Len(Q) \in Nat /\ DOMAIN Q = 1..Len(Q) /\ DOMAIN order' = 1..(Len(Q) + 1)
        /\ order'[Len(Q) + 1] = t /\ \A i \in 1..Len(Q) : order'[i] = Q[i]
    OBVIOUS
  <2>2. ASSUME NEW l \in entries' PROVE \E i \in DOMAIN order' : order'[i] = l.target
    <3>1. CASE l = leaf
      <4>1. Len(Q) + 1 \in DOMAIN order'  BY <2>1
      <4> QED  BY <2>1, <3>1, <4>1
    <3>2. CASE l \in A
      <4>1. PICK i \in DOMAIN Q : Q[i] = l.target  BY <3>2 DEF Queued
      <4>2. i \in DOMAIN order' /\ order'[i] = Q[i]  BY <2>1, <4>1
      <4> QED  BY <4>1, <4>2
    <3> QED  BY <3>1, <3>2
  <2> QED  BY <2>1, <2>2 DEF Queued
<1>8. ASSUME NEW l \in entries'
      PROVE \E i \in DOMAIN minted' : minted'[i] = [target |-> l.target, serial |-> l.serial]
  <2>1. CASE l = leaf
    <3>1. n + 1 \in DOMAIN minted' /\ minted'[n + 1] = [target |-> l.target, serial |-> l.serial]
      BY <1>3, <2>1 DEF rec
    <3> QED  BY <3>1
  <2>2. CASE l \in A
    <3>1. PICK i \in DOMAIN minted : minted[i] = [target |-> l.target, serial |-> l.serial]
      BY <1>1, <2>2 DEF Cache
    <3>2. i \in DOMAIN minted' /\ minted'[i] = minted[i]  BY <1>3, <3>1
    <3> QED  BY <3>1, <3>2
  <2> QED  BY <2>1, <2>2
<1>9. ASSUME NEW i \in 1..n, minted[i].serial \notin dropped'
      PROVE  /\ \E l \in A : minted[i] = [target |-> l.target, serial |-> l.serial]
             /\ \A j \in 1..n : i < j => minted[j].target # minted[i].target
             /\ minted[i].target # t
  <2>1. minted[i].serial \notin dropped  BY <1>9
  <2>2. PICK l \in entries : minted[i] = [target |-> l.target, serial |-> l.serial]
    BY <1>1, <1>3, <2>1 DEF Cache
  <2>3. minted[i].serial = l.serial /\ minted[i].target = l.target  BY <2>2
  <2>4. l \in A  BY <1>9, <2>3
  <2>5. \A j \in 1..n : i < j => minted[j].target # minted[i].target  BY <1>1, <1>3, <2>1 DEF Cache
  <2> QED  BY <2>2, <2>3, <2>4, <2>5
<1>10. ASSUME NEW i \in DOMAIN minted', minted'[i].serial \notin dropped'
       PROVE  /\ \E l \in entries' : minted'[i] = [target |-> l.target, serial |-> l.serial]
              /\ \A j \in DOMAIN minted' : i < j => minted'[j].target # minted'[i].target
  <2>1. CASE i = n + 1
    <3>1. minted'[i] = [target |-> leaf.target, serial |-> leaf.serial]  BY <1>3, <2>1 DEF rec
    <3>2. \A j \in DOMAIN minted' : ~(i < j)  BY <1>3, <2>1
    <3> QED  BY <3>1, <3>2
  <2>2. CASE i \in 1..n
    <3>1. minted'[i] = minted[i]  BY <1>3, <2>2
    <3>2. /\ \E l \in A : minted[i] = [target |-> l.target, serial |-> l.serial]
          /\ \A j \in 1..n : i < j => minted[j].target # minted[i].target
          /\ minted[i].target # t
      BY <1>9, <1>10, <2>2, <3>1
    <3>3. ASSUME NEW j \in DOMAIN minted', i < j PROVE minted'[j].target # minted'[i].target
      <4>1. CASE j = n + 1  BY <1>2, <1>3, <3>1, <3>2, <4>1
      <4>2. CASE j \in 1..n  BY <1>3, <3>1, <3>2, <3>3, <4>2
      <4> QED  BY <1>3, <4>1, <4>2
    <3> QED  BY <3>1, <3>2, <3>3
  <2>3. i = n + 1 \/ i \in 1..n  BY <1>3
  <2> QED  BY <2>1, <2>2, <2>3
<1>11. Cache'  BY <1>5, <1>6, <1>7, <1>8, <1>10 DEF Cache
<1>12. OneIssuance'
  <2> SUFFICES ASSUME NEW i \in DOMAIN minted', NEW j \in DOMAIN minted', i < j,
                      minted'[i].target = minted'[j].target
               PROVE  minted'[i].serial \in dropped'
    BY DEF OneIssuance
  <2> QED  BY <1>10
<1>13. Numbered'
  <2> SUFFICES ASSUME NEW i \in DOMAIN minted' PROVE minted'[i].serial = Serial(created' + (i - 1))
    BY DEF Numbered
  <2>1. CASE i = n + 1
    <3>1. (n + 1) - 1 = n  BY <1>3
    <3> QED  BY <1>2, <1>3, <2>1, <3>1
  <2>2. CASE i \in 1..n  BY <1>1, <1>3, <2>2 DEF Numbered
  <2> QED  BY <1>3, <2>1, <2>2
<1> QED  BY <1>3, <1>5, <1>7, <1>11, <1>12, <1>13

LEMMA RemoveExpiredLeaf ==
  ASSUME LeafInv, RemoveExpired PROVE LeafInv'
<1>1. /\ entries' = {l \in entries : l.na > now} /\ order' = Retain(order, {l.target : l \in entries'})
      /\ dropped' = dropped \cup {l.serial : l \in entries \ entries'} /\ given' = {}
      /\ UNCHANGED <<now, created, issuer, callers, minted>>
  BY DEF RemoveExpired
<1>2. LeafTypes /\ order \in Seq(Targets) /\ Queued(entries, order)  BY DEF LeafInv, LeafTypes, Cache
<1>3. order' \in Seq(Targets) /\ Queued(entries', order')
  <2> DEFINE kept == {l.target : l \in entries'}
  <2>1. order' = Retain(order, kept)  BY <1>1
  <2>2. ASSUME NEW l \in entries' PROVE \E i \in DOMAIN order' : order'[i] = l.target
    <3>1. l.target \in kept /\ l \in entries  BY <1>1
    <3>2. PICK i \in DOMAIN order : order[i] = l.target  BY <1>2, <3>1 DEF Queued
    <3> HIDE DEF kept
    <3> QED  BY <1>2, <2>1, <3>1, <3>2, RetainKeeps
  <2>3. order' \in Seq(Targets)  BY <1>2, <2>1, RetainKeeps
  <2> QED  BY <2>2, <2>3 DEF Queued
<1>4. entries' \subseteq entries  BY <1>1
<1>5. IsFiniteSet(entries') /\ (Cache /\ OneIssuance /\ Numbered)'  BY <1>1, <1>3, <1>4, CacheShrinks
<1>6. LeafTypes'  BY <1>1, <1>2, <1>3, <1>4, <1>5 DEF LeafTypes
<1>7. \A c \in Callers : Asks(callers[c])'  BY <1>1, ClockStill DEF LeafInv
<1>8. \A l \in entries' : LeafFits(l)'  BY <1>1, <1>4, ClockStill DEF LeafInv
<1>9. Given'  BY <1>1 DEF Given
<1> QED  BY <1>5, <1>6, <1>7, <1>8, <1>9 DEF LeafInv

\* A caller reaches the cache.  It shares the leaf that is there, or mints one into
\* the room that eviction makes.
LEMMA IssueLeaf ==
  ASSUME LeafInv, created \in Nat, NEW c \in Callers, NEW outcome, IssueLocked(c, outcome)
  PROVE  LeafInv'
<1> DEFINE x == callers[c]
<1>1. UNCHANGED <<now, created, issuer>>  BY DEF IssueLocked
<1>2. LeafTypes /\ x \in [target : SUBSET Targets, read : Nat, until : Int] /\ Asks(x)
  BY DEF LeafInv, LeafTypes
<1> DEFINE hit(t) == {l \in Cached(t) : l.na > x.read}
           left(t) == entries \ Cached(t)
           after(t) == Evict(left(t), order)
           leaf(t) == [target |-> t, serial |-> Serial(created + Len(minted)), nb |-> x.read, na |-> x.until]
<1>3. PICK t \in x.target :
          \/ /\ hit(t) # {} /\ Answer(c, t, hit(t), "none")
             /\ UNCHANGED <<entries, order, minted, dropped>>
          \/ /\ hit(t) = {} /\ Answer(c, t, {}, "key generation")
             /\ entries' = left(t) /\ dropped' = dropped \cup {l.serial : l \in entries \ left(t)}
             /\ UNCHANGED <<order, minted>>
          \/ /\ hit(t) = {} /\ Answer(c, t, {}, "signing")
             /\ entries' = left(t) /\ UNCHANGED order
             /\ minted' = Append(minted, [target |-> t, serial |-> leaf(t).serial])
             /\ dropped' = dropped \cup {l.serial : l \in entries \ left(t)} \cup {leaf(t).serial}
          \/ /\ hit(t) = {} /\ Answer(c, t, {leaf(t)}, "none")
             /\ entries' = after(t)[1] \cup {leaf(t)} /\ order' = Append(after(t)[2], t)
             /\ minted' = Append(minted, [target |-> t, serial |-> leaf(t).serial])
             /\ dropped' = dropped \cup {l.serial : l \in entries \ after(t)[1]}
  BY DEF IssueLocked
<1>4. t \in Targets /\ issuer # {} /\ x.target # {}
  <2>1. t \in Targets /\ x.target # {}  BY <1>2, <1>3
  <2> QED  BY <1>2, <2>1 DEF LeafTypes, NoCaller
<1>5. Ca \in [nb : Int, na : Int, hours : Nat] /\ now \in Nat /\ MinValidity \in Nat \ {0}
  BY <1>2, <1>4, TheCa, LeafBounds DEF LeafTypes
<1>6. /\ x.read \in Nat /\ x.until \in Int /\ Ca.nb <= x.read /\ x.until <= Ca.na /\ x.until - x.read >= MinValidity
      /\ x.read <= now /\ now < x.read + MinValidity
  BY <1>2, <1>4 DEF Asks
<1>7. callers' = [callers EXCEPT ![c] = NoCaller]  BY <1>3 DEF Answer
<1>8. ASSUME NEW z \in Callers PROVE Asks(callers[z])'
  <2>1. callers'[z] = NoCaller \/ callers'[z] = callers[z]  BY <1>2, <1>7 DEF LeafTypes
  <2>2. Asks(callers'[z])  BY <2>1 DEF LeafInv, Asks, NoCaller
  <2> QED  BY <1>1, <2>2 DEF Asks, Ca, Waiting
<1>9. NoCaller \in [target : SUBSET Targets, read : Nat, until : Int]  BY DEF NoCaller
<1> DEFINE Ok(l) == l.target = t /\ now < l.na + MinValidity /\ LeafFits(l)
<1>10. ASSUME NEW S, NEW e, given' = {[target |-> t, leaf |-> S, error |-> e]},
              (e = "none") <=> (S # {}), \A l \in S : Ok(l)
       PROVE  Given'
  <2>1. \A l : LeafFits(l)' <=> LeafFits(l)  BY <1>1, ClockStill
  <2>2. ASSUME NEW g \in given'
        PROVE  /\ (g.error = "none") = (g.leaf # {})
               /\ \A l \in g.leaf : l.target = g.target /\ now' < l.na + MinValidity /\ LeafFits(l)'
    <3>1. g.target = t /\ g.leaf = S /\ g.error = e  BY <1>10, <2>2
    <3> QED  BY <1>1, <1>10, <2>1, <3>1
  <2> QED  BY <2>2 DEF Given
<1>11. CASE hit(t) # {} /\ Answer(c, t, hit(t), "none") /\ UNCHANGED <<entries, order, minted, dropped>>
  <2>1. (Cache /\ OneIssuance /\ Numbered)'  BY <1>1, <1>11, CacheStill DEF LeafInv
  <2>2. ASSUME NEW l \in hit(t) PROVE Ok(l)
    <3>1. l \in entries /\ l.target = t /\ l.na > x.read /\ l.na \in Int  BY <1>2 DEF Cached, LeafTypes, Leaf
    <3>2. LeafFits(l)  BY <3>1 DEF LeafInv
    <3>3. now < l.na + MinValidity  BY <1>5, <1>6, <3>1
    <3> QED  BY <3>1, <3>2, <3>3
  <2>3. Given'
    <3>1. given' = {[target |-> t, leaf |-> hit(t), error |-> "none"]}  BY <1>11 DEF Answer
    <3> HIDE DEF hit
    <3> QED  BY <1>10, <1>11, <2>2, <3>1
  <2>4. LeafTypes'  BY <1>1, <1>2, <1>4, <1>7, <1>9, <1>11 DEF LeafTypes
  <2>5. \A l \in entries' : LeafFits(l)'  BY <1>1, <1>11, ClockStill DEF LeafInv
  <2> QED  BY <1>8, <2>1, <2>3, <2>4, <2>5 DEF LeafInv
<1>12. CASE /\ Answer(c, t, {}, "key generation")
            /\ entries' = left(t) /\ dropped' = dropped \cup {l.serial : l \in entries \ left(t)}
            /\ UNCHANGED <<order, minted>>
  <2>1. entries' \subseteq entries /\ entries \ entries' = entries \ left(t)  BY <1>12
  <2>2. Queued(entries', order')  BY <1>12, <2>1 DEF LeafInv, Cache, Queued
  <2>3. IsFiniteSet(entries') /\ (Cache /\ OneIssuance /\ Numbered)'
    BY <1>1, <1>12, <2>1, <2>2, CacheShrinks
  <2>4. Given'
    <3> DEFINE S == {}  e == "key generation"
    <3>1. given' = {[target |-> t, leaf |-> S, error |-> e]}  BY <1>12 DEF Answer
    <3>2. (\A l \in S : Ok(l)) /\ ((e = "none") <=> (S # {}))  OBVIOUS
    <3> HIDE DEF Ok, S, e
    <3> QED  BY <1>10, <3>1, <3>2
  <2>5. LeafTypes'  BY <1>1, <1>2, <1>4, <1>7, <1>9, <1>12, <2>1, <2>3 DEF LeafTypes
  <2>6. \A l \in entries' : LeafFits(l)'  BY <1>1, <2>1, ClockStill DEF LeafInv
  <2> QED  BY <1>8, <2>3, <2>4, <2>5, <2>6 DEF LeafInv
<1>14. CASE /\ Answer(c, t, {}, "signing")
            /\ entries' = left(t) /\ UNCHANGED order
            /\ minted' = Append(minted, [target |-> t, serial |-> leaf(t).serial])
            /\ dropped' = dropped \cup {l.serial : l \in entries \ left(t)} \cup {leaf(t).serial}
  <2>1. /\ entries' \subseteq entries /\ entries \ entries' = entries \ left(t)
        /\ \A l \in entries' : l.target # t
    BY <1>14 DEF Cached
  <2>2. Queued(entries', order')  BY <1>14, <2>1 DEF LeafInv, Cache, Queued
  <2>7. PICK n : n = leaf(t).serial /\ n = Serial(created + Len(minted)) /\ n \in Serials
    <3>1. created + Len(minted) \in Nat  BY <1>2 DEF LeafTypes
    <3> QED  BY <3>1 DEF Serials
  <2>3. IsFiniteSet(entries') /\ minted' \in Seq(Issued) /\ (Cache /\ OneIssuance /\ Numbered)'
    <3> HIDE DEF leaf, left
    <3>1. /\ minted' = Append(minted, [target |-> t, serial |-> n])
          /\ dropped' = dropped \cup {l.serial : l \in entries \ entries'} \cup {n}
      BY <1>14, <2>1, <2>7
    <3> QED  BY <1>1, <1>4, <2>1, <2>2, <2>7, <3>1, CacheSkips
  <2>4. Given'
    <3> DEFINE S == {}  e == "signing"
    <3>1. given' = {[target |-> t, leaf |-> S, error |-> e]}  BY <1>14 DEF Answer
    <3>2. (\A l \in S : Ok(l)) /\ ((e = "none") <=> (S # {}))  OBVIOUS
    <3> HIDE DEF Ok, S, e
    <3> QED  BY <1>10, <3>1, <3>2
  <2>5. LeafTypes'
    <3>1. order' = order  BY <1>14
    <3> HIDE DEF leaf, left
    <3> QED  BY SMTT(60), <1>1, <1>2, <1>4, <1>7, <1>9, <2>1, <2>3, <3>1 DEF LeafTypes
  <2>6. \A l \in entries' : LeafFits(l)'  BY <1>1, <2>1, ClockStill DEF LeafInv
  <2> QED  BY <1>8, <2>3, <2>4, <2>5, <2>6 DEF LeafInv
<1>13. CASE /\ Answer(c, t, {leaf(t)}, "none")
            /\ entries' = after(t)[1] \cup {leaf(t)} /\ order' = Append(after(t)[2], t)
            /\ minted' = Append(minted, [target |-> t, serial |-> leaf(t).serial])
            /\ dropped' = dropped \cup {l.serial : l \in entries \ after(t)[1]}
  <2> DEFINE f == leaf(t)  A == after(t)[1]  Q == after(t)[2]
  <2>1. /\ A \subseteq left(t) /\ Q \in Seq(Targets) /\ Queued(A, Q) /\ Cardinality(A) < CacheEntries
    <3>1. IsFiniteSet(entries) /\ left(t) \subseteq entries /\ order \in Seq(Targets)
      BY <1>2 DEF LeafTypes
    <3>2. IsFiniteSet(left(t)) /\ Cardinality(left(t)) <= Cardinality(entries)  BY <3>1, FS_Subset
    <3>3. Cardinality(left(t)) <= CacheEntries
      <4>1. Cardinality(left(t)) \in Nat /\ Cardinality(entries) \in Nat /\ CacheEntries \in Nat
        BY <3>1, <3>2, FS_CardinalityType, LeafBounds
      <4>2. Cardinality(entries) <= CacheEntries  BY DEF LeafInv, Cache
      <4> QED  BY <3>2, <4>1, <4>2
    <3>4. Queued(left(t), order)  BY <3>1 DEF LeafInv, Cache, Queued
    <3> HIDE DEF left
    <3> QED  BY <3>1, <3>2, <3>3, <3>4, EvictMakesRoom
  <2>2. A \in SUBSET entries /\ \A l \in A : l.target # t  BY <2>1 DEF Cached
  <2>3. Len(minted) \in Nat  BY <1>2 DEF LeafTypes
  <2>4. f \in Leaf /\ f.target = t /\ f.serial = Serial(created + Len(minted))
        /\ f.nb = x.read /\ f.na = x.until
    <3>1. created + Len(minted) \in Nat  BY <2>3
    <3>2. Serial(created + Len(minted)) \in Serials  BY <3>1 DEF Serials
    <3> QED  BY <1>4, <1>6, <3>2 DEF Leaf
  <2> HIDE DEF f, A, Q
  <2>5. /\ entries' = A \cup {f} /\ order' = Append(Q, t)
        /\ minted' = Append(minted, [target |-> t, serial |-> f.serial])
        /\ dropped' = dropped \cup {l.serial : l \in entries \ A}
    BY <1>13 DEF f, A, Q
  <2>6. /\ IsFiniteSet(entries') /\ order' \in Seq(Targets) /\ minted' \in Seq(Issued)
        /\ (Cache /\ OneIssuance /\ Numbered)'
    BY <1>1, <1>4, <2>1, <2>2, <2>4, <2>5, CacheGrows
  <2>7. LeafFits(f)  BY <1>6, <2>4 DEF LeafFits
  <2>8. Given'
    <3> DEFINE S == {f}  e == "none"
    <3>1. given' = {[target |-> t, leaf |-> S, error |-> e]}  BY <1>13 DEF Answer, f
    <3>2. now < f.na + MinValidity  BY SMTT(60), <1>5, <1>6, <2>4
    <3>3. (\A l \in S : Ok(l)) /\ ((e = "none") <=> (S # {}))  BY <2>4, <2>7, <3>2
    <3> HIDE DEF Ok, S, e
    <3> QED  BY <1>10, <3>1, <3>3
  <2>9. entries' \subseteq Leaf  BY <1>2, <2>2, <2>4, <2>5 DEF LeafTypes
  <2>10. LeafTypes'  BY SMTT(60), <1>1, <1>2, <1>4, <1>7, <1>9, <2>6, <2>9 DEF LeafTypes
  <2>11. \A l \in entries' : LeafFits(l)'
    <3>1. \A l \in entries' : LeafFits(l)  BY <2>2, <2>5, <2>7 DEF LeafInv
    <3> QED  BY <1>1, <3>1, ClockStill
  <2> QED  BY <1>8, <2>6, <2>8, <2>10, <2>11 DEF LeafInv
<1> HIDE DEF hit, left, after, leaf, x
<1> QED  BY <1>3, <1>11, <1>12, <1>13, <1>14

LEMMA CaKeepsClock == CaNext => now' = now
BY ZenonT(60) DEF CaNext, CreateNew, Import, OpenCa, ExportCaCert, RepairPermissions, Stage, Claim, Rename, Secure,
       PublishFails, OpenInspect, OpenPermissions, OpenRead, Crash, Meddle

LEMMA LeafAlways == Spec => []LeafInv
<1>1. Init => LeafInv  BY LeafInvInit
<1>2. ASSUME LeafInv, CaInv, [Next]_vars PROVE LeafInv'
  <2>1. CASE issuer = {} /\ CaNext /\ UNCHANGED leafVars
    BY <1>2, <2>1, CaKeepsClock, CaKeepsLeaf
  <2>2. ASSUME NEW c \in Authorities, NEW hours \in LeafHours, NewIssuer(c, hours) PROVE LeafInv'
    BY <1>2, <2>2, NewIssuerLeaf
  <2>3. ASSUME NEW c \in Callers, NEW t \in Targets, AskLeaf(c, t) PROVE LeafInv'
    BY <1>2, <2>3, AskLeafLeaf
  <2>4. ASSUME NEW c \in Callers, NEW outcome, IssueLocked(c, outcome) PROVE LeafInv'
    BY <1>2, <2>4, IssueLeaf DEF CaInv, CaTypes
  <2>5. CASE RemoveExpired  BY <1>2, <2>5, RemoveExpiredLeaf
  <2>6. CASE Tick  BY <1>2, <2>6, TickLeaf
  <2>7. CASE UNCHANGED vars
    <3>1. UNCHANGED <<now, issuer, entries, order, callers, given, minted, dropped, created>>  BY <2>7 DEF vars
    <3>2. LeafTypes'  BY <1>2, <3>1 DEF LeafInv, LeafTypes
    <3>3. (Cache /\ OneIssuance /\ Numbered)'  BY <1>2, <3>1, CacheStill DEF LeafInv
    <3>4. \A c \in Callers : Asks(callers[c])'  BY <1>2, <3>1, ClockStill DEF LeafInv
    <3>5. \A l \in entries' : LeafFits(l)'  BY <1>2, <3>1, ClockStill DEF LeafInv
    <3>6. Given'  BY <1>2, <3>1, ClockStill DEF LeafInv, Given
    <3> QED  BY <3>2, <3>3, <3>4, <3>5, <3>6 DEF LeafInv
  <2> QED  BY <1>2, <2>1, <2>2, <2>3, <2>4, <2>5, <2>6, <2>7 DEF Next, LeafNext
<1> QED  BY <1>1, <1>2, CaAlways, PTL DEF Spec

LEMMA LeafMeaning == CaInv /\ LeafInv => TypeOK /\ LeafWithinCa /\ CacheBounded /\ OneIssuance
<1> SUFFICES ASSUME CaInv, LeafInv PROVE TypeOK /\ LeafWithinCa /\ CacheBounded /\ OneIssuance  OBVIOUS
<1>1. \A p \in Procs : procs[p].result \in {"none", "ok", "refused", "failed"}  BY DEF CaInv, CaTypes, Proc
<1>2. \A d \in Dirs : dirs[d].mode \in {"none", "open", "private"}  BY DEF CaInv, CaTypes, Directory
<1>3. TypeOK  BY <1>1, <1>2 DEF TypeOK, LeafInv, LeafTypes, Cache, Given
<1>4. LeafWithinCa  BY DEF LeafWithinCa, LeafInv, Given, LeafFits
<1>5. CacheBounded  BY DEF CacheBounded, LeafInv, Cache, Queued, Range
<1> QED  BY <1>3, <1>4, <1>5 DEF LeafInv

\* Whatever connections ask and however long they wait for the lock, below the
\* shortest validity, they are given leaves of their host within the CA's validity,
\* from a cache that stays in its bound, can always evict, and mints a second leaf
\* of a host only after the first expired or was evicted (issue, mint,
\* remove_expired).
THEOREM CacheStaysSound == Spec => [](TypeOK /\ LeafWithinCa /\ CacheBounded /\ OneIssuance)
BY CaAlways, LeafAlways, LeafMeaning, PTL

\* All of LeavesSound, serials included, as long as the counter has not come round:
\* Period is a stretch of the counter on which its values differ once the top bit is
\* cleared, and the process has drawn no more serials for leaves than that
\* (next_serial).
THEOREM LeavesStaySound ==
  ASSUME NEW CONSTANT Period \in Nat,
         \A m, n \in Nat : m < n /\ n - m < Period => Serial(m) # Serial(n)
  PROVE  Spec /\ [](Len(minted) <= Period) => []LeavesSound
<1>1. ASSUME CaInv, LeafInv, Len(minted) <= Period PROVE LeavesSound
  <2>1. TypeOK /\ LeafWithinCa /\ CacheBounded /\ OneIssuance  BY <1>1, LeafMeaning
  <2>2. Numbered /\ created \in Nat /\ Len(minted) \in Nat /\ DOMAIN minted = 1..Len(minted)
    BY <1>1 DEF LeafInv, LeafTypes, CaInv, CaTypes
  <2>3. ASSUME NEW i \in DOMAIN minted, NEW j \in DOMAIN minted, i < j
        PROVE  minted[i].serial # minted[j].serial
    <3>1. /\ created + (i - 1) \in Nat /\ created + (j - 1) \in Nat
          /\ created + (i - 1) < created + (j - 1)
          /\ (created + (j - 1)) - (created + (i - 1)) < Period
      BY <1>1, <2>2, <2>3
    <3>2. Serial(created + (i - 1)) # Serial(created + (j - 1))  BY <3>1
    <3>3. minted[i].serial = Serial(created + (i - 1)) /\ minted[j].serial = Serial(created + (j - 1))
      BY <2>2 DEF Numbered
    <3> QED  BY <3>2, <3>3
  <2>4. SerialsUnique
    <3> SUFFICES ASSUME NEW i \in DOMAIN minted, NEW j \in DOMAIN minted, i # j
                 PROVE  minted[i].serial # minted[j].serial
      BY DEF SerialsUnique
    <3>1. i < j \/ j < i  BY <2>2
    <3> QED  BY <2>3, <3>1
  <2> QED  BY <2>1, <2>4 DEF LeavesSound
<1> QED  BY <1>1, CaAlways, LeafAlways, PTL
=============================================================================
