----------------------------- MODULE LeafIssuer -----------------------------
(***************************************************************************)
(* The leaf issuer of the intercepting proxy (crate eggreplay-intercept,   *)
(* leaf.rs, and next_serial of ca.rs): one CA identity, opened from its    *)
(* directory and kept in memory, and a bounded cache of leaves shared by   *)
(* the connections that ask for one.  A connection reads the clock, then   *)
(* waits for the cache's lock, under which it looks up or mints.           *)
(*                                                                         *)
(* The authority is a copy: once it is opened the directory is not read    *)
(* again.  The two therefore share only the clock and the serial counter,  *)
(* and a behaviour is either one of commands on the directory, at one      *)
(* moment, or one of an issuer with an authority opened before.            *)
(***************************************************************************)
EXTENDS CaDirectory, SequencesExt

CONSTANTS
    Callers, Targets,
    Authorities,     \* the CA certificates an opened authority may have
    LeafHours,       \* what LeafOptions.validity_hours may be
    MinValidity,     \* MIN_LEAF_VALIDITY_HOURS
    MaxValidity,     \* MAX_LEAF_VALIDITY_HOURS
    CacheEntries,    \* MAX_LEAF_CACHE_ENTRIES
    SerialBits,      \* the width of the serial counter, 64 in the code
    SerialSeed, SerialStep,
    MaxMints         \* bound: leaves minted

ASSUME LeafBounds ==
    /\ CacheEntries \in Nat \ {0} /\ MinValidity \in Nat \ {0}
    /\ LeafHours \subseteq Nat /\ MaxValidity \in Nat /\ SerialBits \in Nat \ {0}
    /\ SerialSeed \in Nat /\ SerialStep \in Nat
    /\ \A c \in Authorities : c.nb \in Int /\ c.na \in Int

VARIABLES
    issuer,   \* {} or the issuer: its CA's window [nb, na] and its leaves' hours
    entries,  \* the cached leaves
    order,    \* the eviction queue
    callers,  \* the connections
    given,    \* what the last step answered a connection: [target, leaf, error]
    minted,   \* the host and serial of every minting so far that drew a serial
    dropped   \* serials of leaves evicted, removed once expired, or never signed

leafVars == <<issuer, entries, order, callers, given, minted, dropped>>
vars == <<now, dirs, procs, staging, exported, created, meddled,
          issuer, entries, order, callers, given, minted, dropped>>

NoCaller == [target |-> {}, read |-> 0, until |-> 0]

Answer(c, target, leaf, error) ==
    /\ given' = {[target |-> target, leaf |-> leaf, error |-> error]}
    /\ callers' = [callers EXCEPT ![c] = NoCaller]

Init ==
    /\ CaInit
    /\ issuer = {}
    /\ entries = {}
    /\ order = << >>
    /\ callers = [c \in Callers |-> NoCaller]
    /\ given = {}
    /\ minted = << >>
    /\ dropped = {}

-----------------------------------------------------------------------------
\* LeafOptions::validate.
ValidHours(hours) == hours \in MinValidity..MaxValidity

\* LeafIssuer::new checks the hours.  An authority may have expired since it was
\* created: opening does not look.
NewIssuer(c, hours) ==
    /\ issuer = {}
    /\ \A p \in Procs : procs[p] = NoProc
    /\ \A d \in Dirs : ~dirs[d].exists
    /\ ValidHours(hours)
    /\ issuer' = {[nb |-> c.nb, na |-> c.na, hours |-> hours]}
    /\ UNCHANGED <<now, dirs, procs, staging, exported, created, meddled, entries, order, callers,
                   given, minted, dropped>>

Ca == CHOOSE c \in issuer : TRUE

\* next_serial: the counter wraps at its width and the top bit is cleared.
\* The CAs of the process drew their serials from the same counter.
Serial(n) == ((SerialSeed + n * SerialStep) % 2^SerialBits) % 2^(SerialBits - 1)

\* Mutant: a leaf outlives its CA.
UntilUncapped(t) == t + Ca.hours

\* A leaf ends with its CA at the latest.
Until(t) == Min({t + Ca.hours, Ca.na})

\* issue, up to the lock: the CA must be valid now, and the leaf long enough.
AskLeaf(c, t) ==
    /\ issuer # {}
    /\ callers[c].target = {}
    /\ Len(minted) < MaxMints
    /\ IF now < Ca.nb \/ now >= Ca.na
       THEN Answer(c, t, {}, "ca not valid")
       ELSE IF Until(now) - now < MinValidity
       THEN Answer(c, t, {}, "ca expiring")
       ELSE /\ callers' = [callers EXCEPT ![c] = [target |-> {t}, read |-> now, until |-> Until(now)]]
            /\ given' = {}
    /\ UNCHANGED <<now, dirs, procs, staging, exported, created, meddled,
                   issuer, entries, order, minted, dropped>>

Cached(t) == {l \in entries : l.target = t}

\* The eviction loop: the queue is popped until an entry went.  A popped key
\* that has no entry any more costs nothing.
Evict(es, q) ==
    IF Cardinality(es) < CacheEntries THEN <<es, q>>
    ELSE LET I == {i \in DOMAIN q : \E l \in es : l.target = q[i]}
             n == IF I = {} THEN Len(q) ELSE Min(I)
         IN <<IF I = {} THEN es ELSE {l \in es : l.target # q[n]}, SubSeq(q, n + 1, Len(q))>>

\* Under the lock: a leaf that had not expired when the caller read the clock is
\* shared; an expired one is removed from the entries and stays in the queue.
\* After that key generation may fail, and the signing, which has used a serial.
\* A normalized host is never empty or a pattern, and is ASCII: InvalidTarget does
\* not occur.
IssueLocked(c, outcome) ==
    /\ \E t \in callers[c].target :
         LET hit == {l \in Cached(t) : l.na > callers[c].read}
             left == entries \ Cached(t)
             after == Evict(left, order)
             leaf == [target |-> t, serial |-> Serial(created + Len(minted)), nb |-> callers[c].read,
                      na |-> callers[c].until]
             drawn == Append(minted, [target |-> t, serial |-> leaf.serial])
         IN IF hit # {}
            THEN /\ outcome = "minted"
                 /\ Answer(c, t, hit, "none")
                 /\ UNCHANGED <<entries, order, minted, dropped>>
            ELSE \/ /\ outcome = "key generation"
                    /\ Answer(c, t, {}, outcome)
                    /\ entries' = left
                    /\ dropped' = dropped \cup {l.serial : l \in entries \ left}
                    /\ UNCHANGED <<order, minted>>
                 \/ /\ outcome = "signing"
                    /\ Answer(c, t, {}, outcome)
                    /\ entries' = left
                    /\ minted' = drawn
                    /\ dropped' = dropped \cup {l.serial : l \in entries \ left} \cup {leaf.serial}
                    /\ UNCHANGED order
                 \/ /\ outcome = "minted"
                    /\ Answer(c, t, {leaf}, "none")
                    /\ entries' = after[1] \cup {leaf}
                    /\ order' = Append(after[2], t)
                    /\ minted' = drawn
                    /\ dropped' = dropped \cup {l.serial : l \in entries \ after[1]}
    /\ UNCHANGED <<now, dirs, procs, staging, exported, created, meddled, issuer>>

\* VecDeque::retain: the queue without the keys that have no entry.
Retain(q, kept) ==
    LET rest[n \in 0..Len(q)] ==
            IF n = 0 THEN << >>
            ELSE IF q[n] \in kept THEN Append(rest[n - 1], q[n]) ELSE rest[n - 1]
    IN rest[Len(q)]

\* remove_expired takes expired leaves out of the entries and of the queue.
RemoveExpired ==
    /\ \E l \in entries : l.na <= now
    /\ entries' = {l \in entries : l.na > now}
    /\ order' = Retain(order, {l.target : l \in entries'})
    /\ dropped' = dropped \cup {l.serial : l \in entries \ entries'}
    /\ given' = {}
    /\ UNCHANGED <<now, dirs, procs, staging, exported, created, meddled, issuer, callers, minted>>

\* Time passes, but nobody waits for the lock as long as the shortest validity.
Tick ==
    /\ issuer # {}
    /\ now < MaxClock
    /\ \A c \in Callers : callers[c].target # {} => now + 1 < callers[c].read + MinValidity
    /\ now' = now + 1
    /\ given' = {}
    /\ UNCHANGED <<dirs, procs, staging, exported, created, meddled, issuer, entries, order,
                   callers, minted, dropped>>

LeafNext ==
    \/ \E c \in Callers, t \in Targets : AskLeaf(c, t)
    \/ \E c \in Callers, outcome \in {"minted", "key generation", "signing"} : IssueLocked(c, outcome)
    \/ RemoveExpired

Next ==
    \/ issuer = {} /\ CaNext /\ UNCHANGED leafVars
    \/ \E c \in Authorities, hours \in LeafHours : NewIssuer(c, hours)
    \/ LeafNext
    \/ Tick

Spec == Init /\ [][Next]_vars

-----------------------------------------------------------------------------
(* Properties. *)

\* The shape of the state.
TypeOK ==
    /\ now \in 0..MaxClock
    /\ \A p \in Procs : procs[p].result \in {"none", "ok", "refused", "failed"}
    /\ \A d \in Dirs : dirs[d].mode \in {"none", "open", "private"}
    /\ \A l \in entries : \E i \in DOMAIN minted : minted[i] = [target |-> l.target, serial |-> l.serial]
    /\ \A g \in given : (g.error = "none") = (g.leaf # {})

\* A connection is given a leaf for the host it asked for, inside the validity of
\* the CA, and never one that expired a full minimum validity ago (issue, mint).
LeafWithinCa ==
    \A g \in given : \A l \in g.leaf :
        /\ l.target = g.target
        /\ now < l.na + MinValidity
        /\ Ca.nb <= l.nb /\ l.na <= Ca.na /\ l.na - l.nb >= MinValidity

\* The cache stays within its bound, holds one leaf per host, and can always evict
\* down to its bound because every cached host is in the queue.
CacheBounded ==
    /\ Cardinality(entries) <= CacheEntries
    /\ \A l, m \in entries : l.target = m.target => l = m
    /\ \A l \in entries : l.target \in Range(order)

\* Concurrent connections to a host share one leaf: a second one is minted only
\* when the first expired or was evicted (issue, "Concurrent requests for the same
\* target therefore produce a single issuance").
OneIssuance ==
    \A i, j \in DOMAIN minted :
        i < j /\ minted[i].target = minted[j].target =>
            minted[i].serial \in dropped

\* No two leaves of a process have the same serial, up to half the counter's range,
\* although the counter wraps, loses its top bit and counts leaves that were never
\* signed (next_serial).
SerialsUnique ==
    \A i, j \in DOMAIN minted : i # j => minted[i].serial # minted[j].serial

\* Connections that share the leaf cache, with clock readings older than the lock
\* they wait for, get valid leaves of a bounded cache that mints once per host.
LeavesSound ==
    /\ TypeOK
    /\ LeafWithinCa
    /\ CacheBounded
    /\ OneIssuance
    /\ SerialsUnique

\* A full cache gives up its oldest leaf (leaf.rs: "deterministic FIFO eviction").
FifoEviction ==
    [][\A l \in entries \ entries' :
          Len(minted') > Len(minted) /\ l.target # minted'[Len(minted')].target =>
              \A m \in entries' \cap entries :
                  \E i, j \in DOMAIN minted : i < j /\ minted[i].serial = l.serial /\ minted[j].serial = m.serial]_vars
=============================================================================
