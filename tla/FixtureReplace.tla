---------------------------- MODULE FixtureReplace ----------------------------
(***************************************************************************)
(* Transactional replacement of a fixture directory by CLI invocations:    *)
(* `serve --record-mode once|append-new|re-record|sealed` and              *)
(* `migrate --in-place`.  The state is the parent directory of one fixture  *)
(* name: the target, the hidden `.backup-<pid>-<nanos>` siblings and each   *)
(* invocation's staged replacement.  Every step is one file-system call, an *)
(* invocation may be killed between any two, and any call may fail.         *)
(*                                                                         *)
(* The content of a fixture is abstracted to the set of invocations whose   *)
(* recordings it holds.                                                     *)
(***************************************************************************)
EXTENDS Integers, FiniteSets, FiniteSetsExt

CONSTANTS
  Procs,        \* invocations, each run at most once
  Kind,         \* Kind[p]: "once", "append", "rerecord", "sealed" or "migrate"
  Pid,          \* Pid[p]: rank of p's process id, compared as decimal text
  Start         \* contents the fixture may have at the start; {} for none

ASSUME ReplaceAssumption ==
  /\ IsFiniteSet(Procs)
  /\ Kind \in [Procs -> {"once", "append", "rerecord", "sealed", "migrate"}]
  /\ Pid \in [Procs -> Nat]
  /\ {"absent", "torn"} \cap (Procs \cup UNION Start) = {}

None == {"absent"}   \* nothing is there
Torn == {"torn"}     \* a directory whose removal has begun: it does not open

VARIABLES
  target,     \* what is at the fixture's path: None, Torn or a content
  backups,    \* .backup- siblings: [owner, nonce, content]
  staged,     \* staged[p]: p's finished replacement, or None
  source,     \* source[p]: the content p opened as its source
  cands,      \* cands[p]: backups in p's read_dir snapshot still to be tried
  clock,      \* nanosecond clock, advanced by every backup name
  pc,
  committed,  \* history: the content last published under the fixture's path
  overlapped, \* history: two invocations have run at the same time
  misread     \* history: recovery missed a complete backup, which the scan
              \* did not list or whose open failed

vars == <<target, backups, staged, source, cands, clock, pc, committed, overlapped, misread>>

Init ==
  /\ \E c \in Start : target = IF c = {} THEN None ELSE c
  /\ committed = target /\ overlapped = FALSE /\ misread = FALSE
  /\ backups = {} /\ clock = 0
  /\ staged = [p \in Procs |-> None]
  /\ source = [p \in Procs |-> None]
  /\ cands = [p \in Procs |-> {}]
  /\ pc = [p \in Procs |-> "idle"]

Ended == {"idle", "done", "failed", "killed"}

Goto(p, l) == pc' = [pc EXCEPT ![p] = l]

Fail(p) == Goto(p, "failed") /\ UNCHANGED <<target, backups, staged, source, cands, clock, committed, overlapped, misread>>

(* Rename of a complete directory onto the fixture's path: it succeeds only *)
(* if nothing is there (a fixture is never an empty directory).             *)
Occupied == target # None

Launch == overlapped' = (overlapped \/ \E q \in Procs : pc[q] \notin Ended)

-----------------------------------------------------------------------------
(* recover_fixture_transactionally, called by `serve` and not by `migrate`. *)

(* An entry that read_dir cannot read is skipped, without an error.         *)
RecoverScan(p) ==
  /\ pc[p] = "idle"
  /\ Launch
  /\ \/ /\ Kind[p] = "migrate" \/ Occupied
        /\ Goto(p, "resolve")
        /\ UNCHANGED <<cands, misread>>
     \/ /\ Kind[p] # "migrate" /\ ~Occupied
        /\ \E listed \in SUBSET {b.owner : b \in backups} :
             /\ cands' = [cands EXCEPT ![p] = listed]
             /\ misread' = (misread \/ \E b \in backups : b.owner \notin listed /\ b.content # Torn)
        /\ Goto(p, "try")
     \/ /\ Kind[p] # "migrate" /\ ~Occupied
        /\ Goto(p, "failed")
        /\ UNCHANGED <<cands, misread>>
  /\ UNCHANGED <<target, backups, staged, source, clock, committed>>

(* The sort of the backup names: process id as text, then nanoseconds.      *)
NameBefore(a, b) ==
  \/ Pid[a.owner] < Pid[b.owner]
  \/ Pid[a.owner] = Pid[b.owner] /\ a.nonce < b.nonce

Last(S) == CHOOSE b \in S : \A a \in S \ {b} : NameBefore(a, b)

(* Session::open of the last name of the snapshot not yet tried.  A backup   *)
(* that does not open is passed over, be it torn or out of reach this once.  *)
RecoverTry(p) ==
  LET known == {b \in backups : b.owner \in cands[p]} IN
  /\ pc[p] = "try"
  /\ \/ /\ known = {}
        /\ Goto(p, "resolve")
        /\ UNCHANGED <<cands, misread>>
     \/ /\ known # {} /\ Last(known).content # Torn
        /\ Goto(p, "restore")
        /\ cands' = [cands EXCEPT ![p] = {Last(known).owner}]
        /\ UNCHANGED misread
     \/ /\ known # {}
        /\ cands' = [cands EXCEPT ![p] = @ \ {Last(known).owner}]
        /\ misread' = (misread \/ Last(known).content # Torn)
        /\ UNCHANGED pc
  /\ UNCHANGED <<target, backups, staged, source, clock, committed, overlapped>>

RecoverRename(p) ==
  LET known == {b \in backups : b.owner \in cands[p]} IN
  /\ pc[p] = "restore"
  /\ \/ /\ known # {} /\ ~Occupied
        /\ \E b \in known : target' = b.content /\ backups' = backups \ {b}
        /\ Goto(p, "resolve")
        /\ UNCHANGED <<staged, source, cands, clock, committed, overlapped, misread>>
     \/ /\ known = {} \/ Occupied
        /\ Fail(p)

-----------------------------------------------------------------------------
(* What the invocation does between recovery and replacement.               *)

(* RecordMode::resolve and Session::open of the source; `once` becomes      *)
(* sealed replay when the fixture exists.  The open may fail on any fixture.  *)
Resolve(p) ==
  /\ pc[p] = "resolve"
  /\ \/ /\ Kind[p] \in {"append", "migrate", "sealed"} \/ (Kind[p] = "once" /\ Occupied)
        /\ target \notin {None, Torn}
        /\ source' = [source EXCEPT ![p] = target]
        /\ Goto(p, IF Kind[p] \in {"once", "sealed"} THEN "done" ELSE "stage")
     \/ /\ Kind[p] \in {"append", "migrate", "sealed"} \/ (Kind[p] = "once" /\ Occupied)
        /\ Goto(p, "failed")
        /\ UNCHANGED source
     \/ /\ Kind[p] = "rerecord" \/ (Kind[p] = "once" /\ ~Occupied)
        /\ Goto(p, "stage")
        /\ UNCHANGED source
  /\ UNCHANGED <<target, backups, staged, cands, clock, committed, overlapped, misread>>

Recorded(p) ==
  CASE Kind[p] = "migrate" -> source[p]
    [] Kind[p] = "append"  -> source[p] \cup {p}
    [] OTHER               -> {p}

(* The replacement is complete and has been opened: finish of the recording, *)
(* merge_to, or migrate_session.  `once` records under the fixture's own     *)
(* name, so its finish is the publication.                                   *)
Stage(p) ==
  /\ pc[p] = "stage"
  /\ \/ /\ staged' = [staged EXCEPT ![p] = Recorded(p)]
        /\ Goto(p, IF Kind[p] = "once" THEN "publish" ELSE "replace")
        /\ UNCHANGED <<target, backups, source, cands, clock, committed, overlapped, misread>>
     \/ Fail(p)

-----------------------------------------------------------------------------
(* replace_fixture_transactionally.                                         *)

ReplaceCheck(p) ==
  /\ pc[p] = "replace"
  /\ Goto(p, IF Occupied THEN "backup" ELSE "publish")
  /\ UNCHANGED <<target, backups, staged, source, cands, clock, committed, overlapped, misread>>

Backup(p) ==
  /\ pc[p] = "backup"
  /\ \/ /\ Occupied
        /\ backups' = backups \cup {[owner |-> p, nonce |-> clock, content |-> target]}
        /\ clock' = clock + 1
        /\ target' = None
        /\ Goto(p, "swap")
        /\ UNCHANGED <<staged, source, cands, committed, overlapped, misread>>
     \/ Fail(p)

(* Mutant: the replacement is copied into place.                            *)
PutStagedCopies(p) ==
  /\ ~Occupied
  /\ target' = Torn
  /\ committed' = staged[p]
  /\ staged' = [staged EXCEPT ![p] = None]

PutStaged(p) ==
  /\ ~Occupied
  /\ target' = staged[p]
  /\ committed' = staged[p]
  /\ staged' = [staged EXCEPT ![p] = None]

(* The single rename when there is no old fixture.                          *)
Publish(p) ==
  /\ pc[p] = "publish"
  /\ \/ /\ PutStaged(p)
        /\ Goto(p, "done")
        /\ UNCHANGED <<backups, source, cands, clock, overlapped, misread>>
     \/ Fail(p)

Swap(p) ==
  /\ pc[p] = "swap"
  /\ \/ /\ PutStaged(p)
        /\ Goto(p, "remove")
        /\ UNCHANGED <<backups, source, cands, clock, overlapped, misread>>
     \/ /\ Goto(p, "rollback")
        /\ UNCHANGED <<target, backups, staged, source, cands, clock, committed, overlapped, misread>>

(* The backup is renamed back; the command fails either way.                *)
Rollback(p) ==
  /\ pc[p] = "rollback"
  /\ \/ /\ ~Occupied
        /\ \E b \in backups : b.owner = p /\ target' = b.content /\ backups' = backups \ {b}
        /\ Goto(p, "failed")
        /\ UNCHANGED <<staged, source, cands, clock, committed, overlapped, misread>>
     \/ Fail(p)

(* Mutant: the backups of other invocations are cleaned up as well.         *)
RemoveAll(p) ==
  /\ pc[p] = "remove"
  /\ backups' = {[b EXCEPT !.content = Torn] : b \in backups}
  /\ Goto(p, "removing")
  /\ UNCHANGED <<target, staged, source, cands, clock, committed, overlapped, misread>>

(* remove_dir_all of the backup begins: from here it no longer opens.       *)
Remove(p) ==
  /\ pc[p] = "remove"
  /\ \/ /\ backups' = {IF b.owner = p THEN [b EXCEPT !.content = Torn] ELSE b : b \in backups}
        /\ Goto(p, "removing")
        /\ UNCHANGED <<target, staged, source, cands, clock, committed, overlapped, misread>>
     \/ Fail(p)

Removed(p) ==
  /\ pc[p] = "removing"
  /\ \/ /\ \E b \in backups : b.owner = p
        /\ backups' = {b \in backups : b.owner # p}
        /\ Goto(p, "done")
        /\ UNCHANGED <<target, staged, source, cands, clock, committed, overlapped, misread>>
     \/ Fail(p)

Kill(p) ==
  /\ pc[p] \notin Ended
  /\ Goto(p, "killed")
  /\ UNCHANGED <<target, backups, staged, source, cands, clock, committed, overlapped, misread>>

-----------------------------------------------------------------------------
Step(p) ==
  \/ RecoverScan(p) \/ RecoverTry(p) \/ RecoverRename(p)
  \/ Resolve(p) \/ Stage(p)
  \/ ReplaceCheck(p) \/ Backup(p) \/ Publish(p) \/ Swap(p) \/ Rollback(p)
  \/ Remove(p) \/ Removed(p)

Next == \E p \in Procs : Step(p) \/ Kill(p)

Spec == Init /\ [][Next]_vars

-----------------------------------------------------------------------------
Contents == (SUBSET (Procs \cup UNION Start)) \ {{}}

(* Every variable has its type; in particular a backup always holds what    *)
(* was a fixture.                                                           *)
TypeOK ==
  /\ target \in Contents \cup {None, Torn}
  /\ committed \in Contents \cup {None}
  /\ backups \subseteq [owner : Procs, nonce : Nat, content : Contents \cup {Torn}]
  /\ staged \in [Procs -> Contents \cup {None}]
  /\ source \in [Procs -> Contents \cup {None}]
  /\ cands \in [Procs -> SUBSET Procs]
  /\ clock \in Nat /\ overlapped \in BOOLEAN /\ misread \in BOOLEAN
  /\ pc \in [Procs -> Ended \cup {"try", "restore", "resolve", "stage", "replace", "backup",
                                  "publish", "swap", "rollback", "remove", "removing"}]

(* "An in-place re-record cannot leave a torn fixture": whatever call fails *)
(* and wherever an invocation is killed, one after another, the path holds  *)
(* the committed content, or nothing while a valid backup holds it.  After a *)
(* recovery that could not read that backup the path may hold an older        *)
(* content, or a newer recording be under way, and a backup still holds it.   *)
CommittedSurvives ==
  \/ overlapped
  \/ target = committed
  \/ (target = None \/ misread) /\ \E b \in backups : b.content = committed

(* "An interrupted re-record heals on the next invocation", from the newest *)
(* backup: when `serve` resolves its record mode the path holds the last    *)
(* committed content, so a stale backup left by an earlier failed removal   *)
(* is not mistaken for it.  A recovery that passed over a complete backup it  *)
(* could not read restores an older one, or none, without an error.           *)
HealsToCommitted ==
  \A p \in Procs :
    ~overlapped /\ ~misread /\ pc[p] = "resolve" /\ Kind[p] # "migrate" => target = committed

(* Invocations that do not overlap lose nothing, whatever fails or is       *)
(* killed: the committed content is there, and the next serve finds it when   *)
(* it can read the backups.                                                   *)
RecoverySound ==
  /\ TypeOK
  /\ CommittedSurvives
  /\ HealsToCommitted

(* However invocations overlap, a fixture that was once published is never  *)
(* lost: some directory still holds a complete one.                         *)
SomeFixtureSurvives ==
  committed # None =>
    \/ target \notin {None, Torn}
    \/ \E b \in backups : b.content # Torn
=============================================================================
