---------------------------- MODULE FactsManifest ----------------------------
(***************************************************************************)
(* The facts manifest of a domain: a cache of what was found in each       *)
(* canonical (facts_manifest.py), the readers that enumerate the domain    *)
(* through it (sync_global.py, _consider_fast), the transacts that unlink  *)
(* it, and the user, who edits canonicals under no lock.                   *)
(*                                                                         *)
(* A row holds what one read of a file found, the stats of that file and   *)
(* the firewall predicate that judged it.  Files written at different      *)
(* moments differ in their ctime; a user can restore an mtime, and two     *)
(* bodies may have one size.                                               *)
(***************************************************************************)
EXTENDS Naturals

CONSTANTS
    Canonical, Reader, Body,
    Oversize,    \* bodies beyond the read cap
    Predicate,   \* [Reader -> the firewall its version of the program runs]
    MaxWrites    \* bound on the writes of canonicals

ASSUME ManifestAssumption == MaxWrites \in Nat

NoFile == [body |-> "none"]
Missing == [rows |-> "missing"]     \* absent, unparseable, another schema, the kill switch
NotReading == [pc |-> "idle"]
Nobody == "nobody"

VARIABLES
    canon,       \* [Canonical -> body and stats]
    manifest,    \* its rows, by stem
    globalLock,  \* the reader or writer that holds global.lock
    reader,      \* [Reader -> what the process does]
    clock

manifestvars == <<canon, manifest, globalLock, reader, clock>>

ManifestTypeOK ==
    /\ \A s \in Canonical : canon[s] = NoFile
                         \/ canon[s] \in [body : Body, mtime : 0..clock, ctime : 0..clock]
    /\ globalLock \in Reader \cup {Nobody}
    /\ clock \in 0..MaxWrites

ManifestInit ==
    /\ \E b \in Body : canon = [s \in Canonical |-> [body |-> b, mtime |-> 0, ctime |-> 0]]
    /\ manifest = Missing
    /\ globalLock = Nobody
    /\ reader = [p \in Reader |-> NotReading]
    /\ clock = 0

ReaderGoes(p, state) == reader' = [reader EXCEPT ![p] = state]
Lock(p) == globalLock = Nobody /\ globalLock' = p
Unlock(p) == globalLock = p /\ globalLock' = Nobody

---------------------------------------------------------------------------
(* Readers.                                                                *)

\* load: the rows, if every one was judged by the firewall that runs now.
Load(p) ==
    IF manifest # Missing /\ \E s \in DOMAIN manifest : manifest[s].predicate # Predicate[p]
    THEN Missing ELSE manifest

Building(rows, todo) == [pc |-> "build", rows |-> rows, todo |-> todo]
Enumerating(rows, todo) == [pc |-> "enumerate", rows |-> rows, todo |-> todo]

\* ensure, with the cache in good order.
Hit(p) ==
    /\ reader[p] = NotReading
    /\ Load(p) # Missing
    /\ ReaderGoes(p, Enumerating(Load(p), Canonical))
    /\ UNCHANGED <<canon, manifest, globalLock, clock>>

\* A reader that may write goes on to rebuild; every other reads each body.
Miss(p) ==
    /\ reader[p] = NotReading
    /\ Load(p) = Missing
    /\ ReaderGoes(p, [pc |-> "try"])
    /\ UNCHANGED <<canon, manifest, globalLock, clock>>

\* _rebuild_locked: it tries and never waits, and looks again once it has the lock.
TryLock(p) ==
    /\ reader[p].pc = "try"
    /\ CASE globalLock # Nobody -> ReaderGoes(p, NotReading) /\ UNCHANGED globalLock
         [] globalLock = Nobody /\ Load(p) # Missing ->
              ReaderGoes(p, Enumerating(Load(p), Canonical)) /\ UNCHANGED globalLock
         [] OTHER ->
              /\ ReaderGoes(p, Building(<< >>, {s \in Canonical : canon[s] # NoFile}))
              /\ Lock(p)
    /\ UNCHANGED <<canon, manifest, clock>>

\* build: fstat of the open file, before its bytes.
Fstat(p) ==
    /\ reader[p].pc = "build"
    /\ \E s \in reader[p].todo :
        IF canon[s] = NoFile
        THEN ReaderGoes(p, Building(reader[p].rows, reader[p].todo \ {s}))
        ELSE ReaderGoes(p, [pc |-> "read", stem |-> s, stat |-> canon[s],
                      todo |-> reader[p].todo \ {s}, rows |-> reader[p].rows])
    /\ UNCHANGED <<canon, manifest, globalLock, clock>>

WithRow(rows, s, row) == [t \in DOMAIN rows \cup {s} |-> IF t = s THEN row ELSE rows[t]]

\* Defect: the stats are those of the path, taken after its bytes.
RowStatsLate(r, body, p) ==
    LET f == IF canon[r.stem] = NoFile THEN r.stat ELSE canon[r.stem]
    IN  [body |-> body, mtime |-> f.mtime, ctime |-> f.ctime, predicate |-> Predicate[p]]

\* The stats pin the bytes.
RowOf(r, body, p) ==
    [body |-> body, mtime |-> r.stat.mtime, ctime |-> r.stat.ctime, predicate |-> Predicate[p]]

\* The bytes of the open file: an edit in place shows in them, a file that was replaced
\* or removed is still what was opened.
Read(p) ==
    LET r == reader[p]
    IN  /\ r.pc = "read"
        /\ \E body \in {r.stat.body, canon[r.stem].body} \ {NoFile.body} :
            IF body \in Oversize
            THEN ReaderGoes(p, NotReading) /\ Unlock(p)
            ELSE /\ ReaderGoes(p, Building(WithRow(r.rows, r.stem, RowOf(r, body, p)), r.todo))
                 /\ UNCHANGED globalLock
        /\ UNCHANGED <<canon, manifest, clock>>

\* atomic_write_bytes, and the rows are the reader's.
StoreRows(p) ==
    /\ reader[p].pc = "build" /\ reader[p].todo = {}
    /\ manifest' = reader[p].rows
    /\ ReaderGoes(p, Enumerating(reader[p].rows, Canonical))
    /\ globalLock' = IF globalLock = p THEN Nobody ELSE globalLock
    /\ UNCHANGED <<canon, clock>>

\* _consider_fast: mtime, size and ctime of the directory entry are those of the row.
RowIsFresh(rows, s) ==
    /\ s \in DOMAIN rows
    /\ rows[s].mtime = canon[s].mtime /\ rows[s].ctime = canon[s].ctime

\* One entry of the enumeration: the row if it is fresh, else the body.
Consider(p, s) ==
    /\ reader[p].pc = "enumerate" /\ s \in reader[p].todo
    /\ ReaderGoes(p, IF reader[p].todo = {s} THEN NotReading
               ELSE Enumerating(reader[p].rows, reader[p].todo \ {s}))
    /\ UNCHANGED <<canon, manifest, globalLock, clock>>

\* The body the session beacon holds for a canonical: of the row if there is one, fresh
\* or not; the body it read itself only if there is none.
BeaconBody(p, s) ==
    IF Load(p) # Missing /\ s \in DOMAIN Load(p) THEN Load(p)[s].body ELSE canon[s].body

---------------------------------------------------------------------------
(* Writers.                                                                *)

WriteCanonical(s, b, mtime) ==
    /\ clock < MaxWrites
    /\ clock' = clock + 1
    /\ canon' = [canon EXCEPT ![s] = [body |-> b, mtime |-> mtime, ctime |-> clock']]

\* A transact publishes under the mutation locks, and unlinks the manifest before it
\* gives them back.
PublishCanonical(p, s, b) ==
    /\ reader[p] = NotReading
    /\ Lock(p)
    /\ WriteCanonical(s, b, clock')
    /\ ReaderGoes(p, [pc |-> "published"])
    /\ UNCHANGED manifest

Invalidate(p) ==
    /\ reader[p].pc = "published"
    /\ manifest' = Missing
    /\ Unlock(p)
    /\ ReaderGoes(p, NotReading)
    /\ UNCHANGED <<canon, clock>>

\* A crash between the two, or a recovery, which looks for the paths of its publishes
\* under a key they do not have: the manifest stays.
ReaderCrash(p) ==
    /\ reader[p] # NotReading
    /\ ReaderGoes(p, NotReading)
    /\ globalLock' = IF globalLock = p THEN Nobody ELSE globalLock
    /\ UNCHANGED <<canon, manifest, clock>>

Recover(p, s, b) ==
    /\ reader[p] = NotReading /\ globalLock = Nobody
    /\ WriteCanonical(s, b, clock')
    /\ UNCHANGED <<manifest, globalLock, reader>>

\* An edit in place, or a copy that keeps its old mtime.
EditCanonical(s, b) ==
    /\ canon[s] # NoFile
    /\ \E mtime \in {canon[s].mtime, clock + 1} : WriteCanonical(s, b, mtime)
    /\ UNCHANGED <<manifest, globalLock, reader>>

RemoveCanonical(s) ==
    /\ canon[s] # NoFile
    /\ canon' = [canon EXCEPT ![s] = NoFile]
    /\ UNCHANGED <<manifest, globalLock, reader, clock>>

\* cm data facts-refresh, a purge, a damaged cache.
Drop ==
    /\ manifest # Missing
    /\ manifest' = Missing
    /\ UNCHANGED <<canon, globalLock, reader, clock>>

ManifestNext ==
    \/ \E p \in Reader :
        \/ Hit(p) \/ Miss(p) \/ TryLock(p) \/ Fstat(p) \/ Read(p) \/ StoreRows(p)
        \/ \E s \in Canonical : Consider(p, s)
        \/ \E s \in Canonical, b \in Body : PublishCanonical(p, s, b) \/ Recover(p, s, b)
        \/ Invalidate(p) \/ ReaderCrash(p)
    \/ \E s \in Canonical : RemoveCanonical(s) \/ \E b \in Body : EditCanonical(s, b)
    \/ Drop

ManifestSpec == ManifestInit /\ [][ManifestNext]_manifestvars

---------------------------------------------------------------------------
\* ServedIsTrue: a row that stands for a file in an enumeration tells what is in the
\* file, as the firewall of the reader judges it, however edits, rebuilds, crashes and
\* versions of the program interleave (_consider_fast skips the scan of the body).
ServedIsTrue ==
    [][\A p \in Reader, s \in Canonical :
        Consider(p, s) /\ canon[s] # NoFile /\ RowIsFresh(reader[p].rows, s)
          => /\ reader[p].rows[s].body = canon[s].body
             /\ reader[p].rows[s].predicate = Predicate[p]]_manifestvars

\* BeaconSeesCanonicals: what the beacon takes for the body of a canonical is its body.
BeaconSeesCanonicals ==
    \A p \in Reader, s \in Canonical :
        globalLock = Nobody /\ canon[s] # NoFile => BeaconBody(p, s) = canon[s].body

=============================================================================
