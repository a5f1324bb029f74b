---------------------------- MODULE CaDirectory ----------------------------
(***************************************************************************)
(* The directory of an interception CA (crate eggreplay-intercept, ca.rs,  *)
(* and the `ca' commands of the CLI): creation and import publish three    *)
(* files (certificate, metadata, key) into a directory they claim, and     *)
(* opening, inspecting, exporting and repairing read or mend it.           *)
(*                                                                         *)
(* Processes run the commands; any of them may fail or crash between two   *)
(* file operations.  A certificate is [id, key, nb, na, flaw]: id stands   *)
(* for its bytes (and so for its fingerprint), key for the key it          *)
(* certifies, nb and na for its validity window, and flaw for what else is *)
(* wrong with a candidate for import.                                      *)
(***************************************************************************)
EXTENDS Integers, Sequences, FiniteSets, FiniteSetsExt

CONSTANTS
    Procs, Dirs,
    Candidates,     \* what may be imported: [cert, key], key the key file's key
    CreateOptions,  \* the options of creation: [name, days]
    MinDays, MaxDays, NameLimit,
    Tolerance,      \* CA_CLOCK_TOLERANCE
    MaxClock,       \* bound: the clock stops here
    MaxIdents,      \* bound: identities created
    MaxCrashes      \* bound: processes that crash

ASSUME CaBounds ==
    /\ MinDays \in Nat \ {0} /\ MaxDays \in Nat /\ MinDays <= MaxDays
    /\ Tolerance \in Nat /\ MaxClock \in Nat /\ MaxIdents \in Nat /\ MaxCrashes \in Nat

VARIABLES
    now,      \* the wall clock
    dirs,     \* the directories: see NoDir
    procs,    \* the processes: see NoProc
    staging,  \* temporary directories left by processes that crashed
    exported, \* certificate files written by export
    created,  \* identities generated so far
    meddled   \* directories an operator changed by hand

caVars == <<now, dirs, procs, staging, exported, created, meddled>>

NoDir == [exists |-> FALSE, mode |-> "none", cert |-> {}, meta |-> {}, key |-> {}, keyMode |-> "none"]

NoProc == [pc |-> "idle", op |-> "none", dir |-> "none", cert |-> {}, key |-> {}, meta |-> {},
           result |-> "none"]

CaInit ==
    /\ now = 0
    /\ dirs = [d \in Dirs |-> NoDir]
    /\ procs = [p \in Procs |-> NoProc]
    /\ staging = 0
    /\ exported = {}
    /\ created = 0
    /\ meddled = {}

Do(p, x) == procs' = [procs EXCEPT ![p] = x]

\* The command ends; the temporary directory of a publication is dropped with it.
Ends(p, result) ==
    Do(p, [NoProc EXCEPT !.result = result])

-----------------------------------------------------------------------------
(* Validation. *)

ValidateOptions(o) == o.name \in 1..NameLimit /\ o.days \in MinDays..MaxDays

\* check_validity, with its tolerance for clocks that differ.
CheckValidity(c) == c.nb - Tolerance <= now /\ now <= c.na + Tolerance

\* The certificate and the key parse and pair.
ParseIdentity(c, key) == c.flaw \notin {"too large", "unparseable", "no key", "many keys"}
                         /\ c.key = key

\* A self-signed P-256 root that may sign certificates.
ParseAndValidateCa(c) ==
    /\ c.flaw \notin {"algorithm", "not self-signed", "not ca", "no keyCertSign", "bad signature"}
    /\ c.nb < c.na
    /\ CheckValidity(c)

ValidateImportCandidate(c, key) ==
    ParseIdentity(c, key) /\ c.flaw # "chain" /\ ParseAndValidateCa(c)

-----------------------------------------------------------------------------
(* Publication: create_new and import. *)

Publish(p, op, d, cert, key) ==
    Do(p, [NoProc EXCEPT !.pc = "stage", !.op = op, !.dir = d, !.cert = {cert}, !.key = {key},
                         !.meta = {cert.id}])

Refuse(p) == Do(p, [NoProc EXCEPT !.result = "refused"])

CreateNew(p, d, o) ==
    /\ procs[p].pc = "idle"
    /\ created < MaxIdents
    /\ IF ValidateOptions(o) /\ ~dirs[d].exists
       THEN /\ created' = created + 1
            /\ Publish(p, "create", d, [id |-> created + 1, key |-> created + 1, nb |-> now,
                                        na |-> now + o.days, flaw |-> "none"], created + 1)
       ELSE Refuse(p) /\ UNCHANGED created
    /\ UNCHANGED <<now, dirs, staging, exported, meddled>>

Import(p, d, x) ==
    /\ procs[p].pc = "idle"
    /\ IF ~dirs[d].exists /\ ValidateImportCandidate(x.cert, x.key)
       THEN Publish(p, "import", d, x.cert, x.key)
       ELSE Refuse(p)
    /\ UNCHANGED <<now, dirs, staging, exported, created, meddled>>

\* The three files are written to a temporary directory beside the target.
Stage(p) ==
    /\ procs[p].pc = "stage"
    /\ Do(p, [procs[p] EXCEPT !.pc = "claim"])
    /\ UNCHANGED <<now, dirs, staging, exported, created, meddled>>

\* Mutant: create_dir_all, for which an existing directory is as good.
ClaimShared(p) ==
    /\ procs[p].pc = "claim"
    /\ dirs' = [dirs EXCEPT ![procs[p].dir].exists = TRUE, ![procs[p].dir].mode = "open"]
    /\ Do(p, [procs[p] EXCEPT !.pc = "cert"])
    /\ UNCHANGED <<now, staging, exported, created, meddled>>

\* create_dir claims the target: whoever comes second is refused.
Claim(p) ==
    /\ procs[p].pc = "claim"
    /\ IF dirs[procs[p].dir].exists
       THEN Ends(p, "refused") /\ UNCHANGED dirs
       ELSE /\ dirs' = [dirs EXCEPT ![procs[p].dir] = [NoDir EXCEPT !.exists = TRUE, !.mode = "open"]]
            /\ Do(p, [procs[p] EXCEPT !.pc = "cert"])
    /\ UNCHANGED <<now, staging, exported, created, meddled>>

\* The staged files are renamed in one by one: certificate, metadata, key.
Rename(p) ==
    /\ procs[p].pc \in {"cert", "meta", "key"}
    /\ LET d == procs[p].dir
       IN CASE procs[p].pc = "cert" ->
                 /\ dirs' = [dirs EXCEPT ![d].cert = procs[p].cert]
                 /\ Do(p, [procs[p] EXCEPT !.pc = "meta"])
            [] procs[p].pc = "meta" ->
                 /\ dirs' = [dirs EXCEPT ![d].meta = procs[p].meta]
                 /\ Do(p, [procs[p] EXCEPT !.pc = "key"])
            [] procs[p].pc = "key" ->
                 /\ dirs' = [dirs EXCEPT ![d].key = procs[p].key, ![d].keyMode = "private"]
                 /\ Do(p, [procs[p] EXCEPT !.pc = "secure"])
    /\ UNCHANGED <<now, staging, exported, created, meddled>>

\* check_permissions: the directory 0700 and the key 0600.
CheckPermissions(d) == dirs[d].mode = "private" /\ dirs[d].keyMode = "private"

\* The directory's mode is set, both modes are checked, and the result is opened.
Secure(p) ==
    /\ procs[p].pc = "secure"
    /\ dirs' = [dirs EXCEPT ![procs[p].dir].mode = "private"]
    /\ IF dirs[procs[p].dir].keyMode = "private"
       THEN Do(p, [procs[p] EXCEPT !.pc = "inspect"]) ELSE Ends(p, "failed")
    /\ UNCHANGED <<now, staging, exported, created, meddled>>

Publishing == {"stage", "claim", "cert", "meta", "key", "secure"}

\* A file operation of the publication fails: the error ends the command, and a
\* directory already claimed stays as it is.
PublishFails(p) ==
    /\ procs[p].pc \in Publishing
    /\ Ends(p, "failed")
    /\ UNCHANGED <<now, dirs, staging, exported, created, meddled>>

-----------------------------------------------------------------------------
(* Reading. *)

\* inspect_ca: the metadata and the certificate are there and agree.
Inspected(d) == dirs[d].exists /\ dirs[d].meta # {} /\ {c.id : c \in dirs[d].cert} = dirs[d].meta

\* open: inspect, then the permissions, then both files.
OpenCa(p, d) ==
    /\ procs[p].pc = "idle"
    /\ Do(p, [NoProc EXCEPT !.pc = "inspect", !.op = "open", !.dir = d])
    /\ UNCHANGED <<now, dirs, staging, exported, created, meddled>>

OpenInspect(p) ==
    /\ procs[p].pc = "inspect"
    /\ IF Inspected(procs[p].dir)
       THEN Do(p, [procs[p] EXCEPT !.pc = "permissions", !.meta = dirs[procs[p].dir].meta])
       ELSE Ends(p, "refused")
    /\ UNCHANGED <<now, dirs, staging, exported, created, meddled>>

OpenPermissions(p) ==
    /\ procs[p].pc = "permissions"
    /\ IF CheckPermissions(procs[p].dir) THEN Do(p, [procs[p] EXCEPT !.pc = "read"])
       ELSE Ends(p, "refused")
    /\ UNCHANGED <<now, dirs, staging, exported, created, meddled>>

\* Mutant: opening trusts the look inspect_ca took.
OpenReadTrusting(p) ==
    /\ procs[p].pc = "read"
    /\ LET d == dirs[procs[p].dir]
       IN IF \E c \in d.cert, k \in d.key : ParseIdentity(c, k)
          THEN Do(p, [NoProc EXCEPT !.op = procs[p].op, !.dir = procs[p].dir, !.result = "ok",
                                    !.cert = d.cert, !.key = d.key, !.meta = procs[p].meta])
          ELSE Ends(p, "refused")
    /\ UNCHANGED <<now, dirs, staging, exported, created, meddled>>

\* Both files are read again: they must pair, and the certificate must still be
\* the one the metadata names.  Expiry is not looked at.
OpenRead(p) ==
    /\ procs[p].pc = "read"
    /\ LET d == dirs[procs[p].dir]
       IN IF \E c \in d.cert, k \in d.key :
                ParseIdentity(c, k) /\ c.flaw # "chain" /\ {c.id} = procs[p].meta
          THEN Do(p, [NoProc EXCEPT !.op = procs[p].op, !.dir = procs[p].dir, !.result = "ok",
                                    !.cert = d.cert, !.key = d.key, !.meta = procs[p].meta])
          ELSE Ends(p, "refused")
    /\ UNCHANGED <<now, dirs, staging, exported, created, meddled>>

\* write_new_file refuses an existing destination.
WriteNewFile(content) == exported = {} /\ exported' = content

\* export_ca_cert: no key is read, and an existing destination is kept.
ExportCaCert(p, d) ==
    /\ procs[p].pc = "idle"
    /\ IF Inspected(d) /\ exported = {}
       THEN WriteNewFile(dirs[d].cert) /\ Do(p, [NoProc EXCEPT !.result = "ok"])
       ELSE Refuse(p) /\ UNCHANGED exported
    /\ UNCHANGED <<now, dirs, staging, created, meddled>>

\* repair_ca_permissions sets the directory's mode first and then those of the
\* files, and stops at the first that is missing; the key is the first file.
RepairPermissions(p, d) ==
    /\ procs[p].pc = "idle"
    /\ dirs[d].exists
    /\ dirs' = [dirs EXCEPT ![d].mode = "private",
                            ![d].keyMode = IF dirs[d].key = {} THEN @ ELSE "private"]
    /\ Do(p, [NoProc EXCEPT
                 !.result = IF dirs[d].key # {} /\ dirs[d].cert # {} /\ dirs[d].meta # {}
                            THEN "ok" ELSE "failed"])
    /\ UNCHANGED <<now, staging, exported, created, meddled>>

-----------------------------------------------------------------------------
(* Faults. *)

\* The process dies: its temporary directory and a claimed target stay.
Crash(p) ==
    /\ procs[p].pc \in Publishing
    /\ staging < MaxCrashes
    /\ staging' = staging + 1
    /\ Do(p, NoProc)
    /\ UNCHANGED <<now, dirs, exported, created, meddled>>

\* An operator loosens a mode of a published directory, or puts another identity
\* in it.
Meddle(d) ==
    /\ d \notin meddled
    /\ dirs[d].key # {} /\ dirs[d].mode = "private"
    /\ meddled' = meddled \cup {d}
    /\ \/ dirs' = [dirs EXCEPT ![d].keyMode = IF @ = "private" THEN "open" ELSE @]
       \/ \E x \in Candidates : dirs' = [dirs EXCEPT ![d].cert = {x.cert}, ![d].key = {x.key}]
    /\ UNCHANGED <<now, procs, staging, exported, created>>

CaNext ==
    \/ \E p \in Procs, d \in Dirs :
         \/ \E o \in CreateOptions : CreateNew(p, d, o)
         \/ \E x \in Candidates : Import(p, d, x)
         \/ OpenCa(p, d) \/ ExportCaCert(p, d) \/ RepairPermissions(p, d)
    \/ \E p \in Procs :
         \/ Stage(p) \/ Claim(p) \/ Rename(p) \/ Secure(p) \/ PublishFails(p)
         \/ OpenInspect(p) \/ OpenPermissions(p) \/ OpenRead(p) \/ Crash(p)
    \/ \E d \in Dirs : Meddle(d)

-----------------------------------------------------------------------------
(* Properties. *)

\* An authority in hand is one identity: its key is the certificate's, and its
\* metadata names the certificate, even when the directory changed while it was
\* being read (CaAuthority::open).
OpenedPaired ==
    \A p \in Procs : procs[p].result = "ok" /\ procs[p].op \in {"open", "create", "import"} =>
        \E c \in procs[p].cert : procs[p].key = {c.key} /\ procs[p].meta = {c.id}

\* No command replaces a file of a CA directory: whoever claims it first owns it
\* (publish_ca_dir, "rotation targets are never silently overwritten").
NeverOverwritten ==
    [][\A d \in Dirs : meddled' = meddled =>
          /\ dirs[d].cert # {} => dirs'[d].cert = dirs[d].cert
          /\ dirs[d].meta # {} => dirs'[d].meta = dirs[d].meta
          /\ dirs[d].key # {} => dirs'[d].key = dirs[d].key]_caVars

\* A creation or import that reported success left a directory that opens, with
\* the identity it reported (create_new, import).
AcknowledgedOpens ==
    \A p \in Procs : LET x == procs[p] IN
        x.result = "ok" /\ x.op \in {"create", "import"} /\ x.dir \notin meddled =>
            /\ Inspected(x.dir) /\ CheckPermissions(x.dir)
            /\ dirs[x.dir].cert = x.cert /\ dirs[x.dir].key = x.key

\* A directory that a publication did not get to the end of is refused by every
\* reader: nothing opens it with files missing (inspect_ca, open).
IncompleteRefused ==
    \A p \in Procs : procs[p].pc = "read" =>
        dirs[procs[p].dir].cert # {} /\ dirs[procs[p].dir].key # {}

\* However processes that create, import, repair and crash interleave on one
\* directory, a CA that opens is one whole CA and an acknowledged one opens.
CaSound ==
    /\ OpenedPaired
    /\ AcknowledgedOpens
    /\ IncompleteRefused
=============================================================================
