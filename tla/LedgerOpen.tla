----------------------------- MODULE LedgerOpen -----------------------------
(***************************************************************************)
(* Opening a ledger: Open and OpenForRead with everything they do on the   *)
(* way, the isolated validation of a hot journal or a WAL ledger, the      *)
(* migration out of WAL, the schema migration and the commit protocol of   *)
(* SQLite's rollback journal.  Motus processes open one ledger             *)
(* concurrently, die between any two steps, and may meet a process of an   *)
(* older version that still writes in WAL mode.                            *)
(***************************************************************************)
EXTENDS Integers, FiniteSets

CONSTANTS
    Proc,               \* the processes of the current version
    None,               \* no value: no journal, no lock holder
    Calls,              \* entry points in use, of "Open" and "OpenForRead"
    Starts,             \* the [file, journal, wal] an instance begins with
    Older,              \* may a process of v0.1.4 use the ledger?
    Impatient,          \* may a busy timeout expire?
    MayFail,            \* may a statement fail (disk full, cancellation)?
    Retries,            \* bound: retries of an isolated validation
    MaxCrashes,         \* bound: processes that die
    MaxRecords          \* bound: records in the ledger

ASSUME OpenAssumption ==
    /\ None \notin Proc /\ "older" \notin Proc
    /\ Calls \subseteq {"Open", "OpenForRead"}
    /\ Older \in BOOLEAN /\ Impatient \in BOOLEAN /\ MayFail \in BOOLEAN
    /\ Retries \in Nat /\ MaxCrashes \in Nat /\ MaxRecords \in Nat

VARIABLES
    file,       \* the database file: page 1 shows img; torn is the transaction
                \* some of whose pages are written, or None
    journal,    \* what a non-empty rollback journal restores, or None
    wal,        \* committed frames not yet in the file, or None
    writer,     \* holder of the write lock
    walUsers,   \* connections open in WAL mode
    me,         \* each process's progress
    seen,       \* what the ledger held since a process began its copy
    crashes

vars == <<file, journal, wal, writer, walUsers, me, seen, crashes>>

-----------------------------------------------------------------------------
(* What the files hold.                                                    *)

HeaderValid(img) == img.schema \notin {"absent", "blank"}

\* A database file: the journal mode of its header, its schema, its identity
\* and its number of records.  Without a header it is nobody's.
Image ==
    {img \in [mode : {"delete", "wal"},
              schema : {"absent", "blank", "empty", "v1", "mixed", "v2", "alien"},
              id : {"none", "motus", "other"}, recs : 0..MaxRecords] :
       ~HeaderValid(img) => img.mode = "delete" /\ img.id # "other"}

\* No file, and the middle of a migration, are never written anywhere.
Stored == {img \in Image : img.schema \notin {"absent", "mixed"}}
Frames == [base : Stored, img : Stored]
Torn == [before : Stored, after : Stored, nonce : Int]

ASSUME NoneIsApart == None \notin Image \cup Frames \cup Torn

Garbage == [mode |-> "delete", schema |-> "alien", id |-> "other", recs |-> 0]

\* A clean database file.
Whole(img) == [img |-> img, torn |-> None]

\* Only page 1 differs between two images, and one page is written at once.
OnePage(a, b) == a.schema = b.schema /\ a.recs = b.recs

\* created_at and the rows of a record make the pages of a transaction unlike
\* those of any other; a migration tried again writes the same bytes.  The
\* nonce tells apart only what some copy still remembers.
Dated(before, after) ==
    after.recs # before.recs \/ before.schema \in {"blank", "empty"}
Nonces == 0..(Cardinality(Proc) + 1)
Remembered ==
    {0} \cup {me[p].copied.torn.nonce :
               p \in {q \in Proc : me[q].copied # None /\ me[q].copied.torn # None}}

\* Rolling journal j back into file f: it fits the transaction it was
\* written for and makes nonsense of any other.
RollBack(f, j) ==
    IF \/ f.torn = None /\ f.img = j
       \/ f.torn # None /\ f.torn.before = j
    THEN j ELSE Garbage

\* Reading file f with the frames w and no rollback journal.
Replay(f, w) ==
    IF f.torn # None /\ ~OnePage(f.torn.before, f.torn.after) THEN Garbage
    ELSE IF w = None THEN f.img
    ELSE IF w.base = f.img THEN w.img ELSE Garbage

\* What SQLite gives to a reader that may recover the ledger.
Committed ==
    IF journal # None THEN RollBack(file, journal) ELSE Replay(file, wal)

\* What processes that were killed may leave: a journal belongs to the
\* transaction whose pages are in the file, frames to the file they lie beside.
LeftBehind(f, j, w) ==
    /\ f \in [img : Image, torn : Torn \cup {None}] /\ f.img.schema # "mixed"
    /\ j \in Stored \cup {None} /\ w \in Frames \cup {None}
    /\ f.img.schema = "absent" => j = None
    /\ IF j = None THEN f.torn = None
       ELSE IF f.torn = None THEN f.img = j ELSE f.torn.before = j
    /\ w # None => j = None /\ w.base = f.img /\ f.img.mode = "wal" /\ w.img.mode = "wal"

\* A ledger that was written to has lost nothing: a record, a migration or the
\* mark was added, or its journal mode changed.
Grows(a, b) ==
    /\ a.recs <= b.recs
    /\ a.id # b.id => a.id = "none" /\ b.id = "motus"
    /\ \/ a.schema = b.schema
       \/ a.schema = "absent" /\ b.schema # "absent"
       \/ a.schema \in {"blank", "empty", "v1"} /\ b.schema = "v2"

\* Frames add to the file they lie beside, and a transaction that is all on
\* page 1 shows itself there.
Written(f, w) ==
    /\ w # None => Grows(w.base, w.img)
    /\ f.torn # None /\ OnePage(f.torn.before, f.torn.after) => f.img = f.torn.after

ASSUME StartsAssumption ==
    \A s \in Starts : LeftBehind(s.file, s.journal, s.wal) /\ Written(s.file, s.wal)

\* A non-empty journal with nobody writing is hot.
Hot == journal # None /\ writer = None

IsEmptyDatabase(img) ==
    img.schema \in {"absent", "blank", "empty"} /\ img.id # "other"

Version(img) ==
    CASE img.schema \in {"absent", "blank", "empty"} -> 0
      [] img.schema \in {"v1", "mixed"} -> 1
      [] img.schema = "v2" -> 2
      [] OTHER -> 9

\* validateSchemaStructure once the version it begins with is read.
Structure(ver, img) ==
    CASE ver = 1 /\ img.schema = "v1" -> "schema"
      [] ver = 2 /\ img.schema = "v2" -> "ok"
      [] OTHER -> "invalid"

\* validateSchemaForRecovery on a copy nobody else uses.
Recoverable(img) ==
    \/ Structure(Version(img), img) # "invalid" /\ img.id # "other"
    \/ IsEmptyDatabase(img)

-----------------------------------------------------------------------------
(* Processes.                                                              *)

Fresh == [pc |-> "idle", stage |-> "none", why |-> "none", kind |-> "none",
          tries |-> 0, copied |-> None, side |-> None, ver |-> 0,
          structure |-> "none", work |-> None, next |-> "none",
          answer |-> "none"]

\* open(..., readOnly, existingOnly): Open is one writable call that may
\* create; OpenForRead reads, if necessary migrates, and reads again.
ReadOnly(p) == me[p].stage \in {"first", "again"}
ExistingOnly(p) == me[p].stage # "create"

At(p, label) == me[p].pc = label
Goto(p, label) == me' = [me EXCEPT ![p].pc = label]

\* What happens to the caller once open() has ended with r.
Outcome(m, r) ==
    CASE m.stage = "first" /\ r \in {"schema", "journal", "identity", "rollback"}
           -> [Fresh EXCEPT !.pc = "path", !.stage = "migrate", !.why = r]
      [] m.stage = "migrate" /\ r = "ok"
           -> [Fresh EXCEPT !.pc = "path", !.stage = "again"]
      [] m.stage = "migrate" /\ r \notin {"ok", "invalid"}
           -> [Fresh EXCEPT !.stage = m.stage,
                 !.answer = IF m.why \in {"journal", "rollback"} THEN m.why ELSE r]
      [] OTHER
           -> [Fresh EXCEPT !.pc = IF r = "ok" THEN "open" ELSE "idle",
                 !.stage = m.stage, !.answer = r]

\* open() ends; a connection in WAL mode is closed on the way out.
Return(p, r) ==
    me' = [me EXCEPT ![p] =
             IF p \in walUsers THEN [@ EXCEPT !.pc = "leave", !.answer = r]
             ELSE Outcome(@, r)]

\* Whatever goes wrong in migrateWALJournal, short of an invalid schema,
\* asks for every other process to stop.
Trouble(p) == IF me[p].kind = "wal" THEN "journal" ELSE "failed"

\* Another process is writing pages, or has taken the file out of WAL.
Exclusive(p) ==
    \E q \in Proc \ {p} :
        /\ writer = q
        /\ \/ At(q, "commit")
           \/ me[q].work # None /\ me[q].work.mode # file.img.mode

Readable(p) == ~Hot /\ ~Exclusive(p)

\* A connection to the ledger is open.
Connected(p) ==
    me[p].pc \in {"version", "structure", "identity", "ensure", "checkpoint",
                  "switch", "leave", "begin", "decide", "restore", "stamp",
                  "txn", "pages", "commit", "open"}

Init ==
    /\ \E s \in Starts : file = s.file /\ journal = s.journal /\ wal = s.wal
    /\ writer = None
    /\ walUsers = {}
    /\ me = [p \in Proc |-> Fresh]
    /\ seen = [p \in Proc |-> {}]
    /\ crashes = 0

Call(p) ==
    /\ At(p, "idle")
    /\ \E c \in Calls :
         me' = [me EXCEPT ![p] =
                  [Fresh EXCEPT !.pc = "path",
                     !.stage = IF c = "Open" THEN "create" ELSE "first"]]
    /\ UNCHANGED <<file, journal, wal, writer, walUsers, crashes>>

-----------------------------------------------------------------------------
(* Looking at the files before SQLite does.                                *)

\* prepareStatePath: a missing database is created empty, by Open only.
PrepareStatePath(p) ==
    /\ At(p, "path")
    /\ \/ /\ file.img.schema = "absent"
          /\ ExistingOnly(p)
          /\ Return(p, "notfound")
          /\ UNCHANGED file
       \/ /\ file.img.schema = "absent"
          /\ ~ExistingOnly(p)
          /\ file' = [file EXCEPT !.img.schema = "blank"]
          /\ Goto(p, "journal")
       \/ /\ file.img.schema # "absent"
          /\ Goto(p, "journal")
          /\ UNCHANGED file
    /\ UNCHANGED <<journal, wal, writer, walUsers, crashes>>

HasRollbackJournal(p) ==
    /\ At(p, "journal")
    /\ Goto(p, IF journal = None THEN "mode" ELSE "header")
    /\ UNCHANGED <<file, journal, wal, writer, walUsers, crashes>>

\* With a journal present the header decides whether its pages may be trusted.
InspectHeader(p) ==
    /\ At(p, "header")
    /\ LET foreign == HeaderValid(file.img) /\ file.img.id = "other"
           marked == HeaderValid(file.img) /\ file.img.id = "motus"
       IN \/ foreign /\ Return(p, "invalid")
          \/ ~foreign /\ ReadOnly(p) /\ ~marked /\ Return(p, "rollback")
          \/ ~foreign /\ ReadOnly(p) /\ marked /\ Goto(p, "mode")
          \/ /\ ~foreign /\ ~ReadOnly(p)
             /\ me' = [me EXCEPT ![p].pc = "recheck", ![p].kind = "rollback",
                                 ![p].tries = 0]
    /\ UNCHANGED <<file, journal, wal, writer, walUsers, crashes>>

\* validateRollbackSnapshot begins every attempt by looking again.
Recheck(p) ==
    /\ At(p, "recheck")
    /\ IF journal = None
       THEN me' = [me EXCEPT ![p].pc = "mode", ![p].kind = "none", ![p].tries = 0]
       ELSE Goto(p, "copyfile")
    /\ UNCHANGED <<file, journal, wal, writer, walUsers, crashes>>

CopyFile(p) ==
    /\ At(p, "copyfile")
    /\ me' = [me EXCEPT ![p].pc = "copyside", ![p].copied = file]
    /\ UNCHANGED <<file, journal, wal, writer, walUsers, crashes>>

Sidecar(p) == IF me[p].kind = "rollback" THEN journal ELSE wal

\* The source changed under the copy: try again, a bounded number of times.
Retry(p) ==
    IF me[p].tries < Retries
    THEN me' = [me EXCEPT ![p].pc = IF me[p].kind = "rollback" THEN "recheck"
                                    ELSE "copyfile",
                          ![p].tries = @ + 1, ![p].copied = None, ![p].side = None]
    ELSE Return(p, IF me[p].kind = "wal" THEN "journal" ELSE "busy")

\* A rollback journal is required, and may have disappeared.
CopySidecar(p) ==
    /\ At(p, "copyside")
    /\ \/ me[p].kind = "rollback" /\ journal = None /\ Retry(p)
       \/ /\ me[p].kind = "wal" \/ journal # None
          /\ me' = [me EXCEPT ![p].pc = "verifyfile", ![p].side = Sidecar(p)]
    /\ UNCHANGED <<file, journal, wal, writer, walUsers, crashes>>

\* Mutant: the database is not compared with its copy again.
VerifyFileNot(p) ==
    /\ At(p, "verifyfile")
    /\ Goto(p, "verifyside")
    /\ UNCHANGED <<file, journal, wal, writer, walUsers, crashes>>

VerifyFile(p) ==
    /\ At(p, "verifyfile")
    /\ IF file = me[p].copied THEN Goto(p, "verifyside") ELSE Retry(p)
    /\ UNCHANGED <<file, journal, wal, writer, walUsers, crashes>>

\* What SQLite recovers from the copy.
RecoveredCopy(m) ==
    IF m.kind = "rollback" /\ m.side # None
    THEN RollBack(m.copied, m.side)
    ELSE Replay(m.copied, IF m.kind = "wal" THEN m.side ELSE None)

\* Mutant: a copy that SQLite can open is good enough.
CopyOpens(m) == RecoveredCopy(m) # None

\* validateCopiedLedger: the journal mode of the copy, then its schema.
CopyAccepted(m) ==
    /\ m.kind = "rollback" => RecoveredCopy(m).mode = "delete"
    /\ Recoverable(RecoveredCopy(m))

\* The verdict on the copy counts only if the source is still what was copied.
VerifySidecar(p) ==
    /\ At(p, "verifyside")
    /\ \/ /\ Sidecar(p) # me[p].side
          /\ Retry(p)
       \/ /\ Sidecar(p) = me[p].side
          /\ ~CopyAccepted(me[p])
          /\ Return(p, "invalid")
       \/ /\ Sidecar(p) = me[p].side
          /\ CopyAccepted(me[p])
          /\ me' = [me EXCEPT ![p].copied = None, ![p].side = None, ![p].tries = 0,
                       ![p].pc = IF me[p].kind = "rollback" THEN "mode" ELSE "source",
                       ![p].kind = IF @ = "rollback" THEN "none" ELSE @]
    /\ UNCHANGED <<file, journal, wal, writer, walUsers, crashes>>

RequiresJournalMigration(p) ==
    /\ At(p, "mode")
    /\ LET inWAL == HeaderValid(file.img) /\ file.img.mode = "wal"
       IN \/ inWAL /\ ReadOnly(p) /\ Return(p, "journal")
          \/ /\ inWAL /\ ~ReadOnly(p)
             /\ me' = [me EXCEPT ![p].pc = "copyfile", ![p].kind = "wal"]
          \/ ~inWAL /\ Goto(p, "connect")
    /\ UNCHANGED <<file, journal, wal, writer, walUsers, crashes>>

-----------------------------------------------------------------------------
(* SQLite: connections, hot journals, transactions.                        *)

\* The first access of a writable connection rolls a hot journal back.
RecoverHot(p) ==
    /\ Hot
    /\ ~ReadOnly(p)
    /\ me[p].pc \in {"source", "connect", "version", "structure", "identity",
                     "ensure", "begin"}
    /\ file' = Whole(RollBack(file, journal))
    /\ journal' = None
    /\ UNCHANGED <<wal, writer, walUsers, me, crashes>>

WalWith(img) ==
    [base |-> IF wal = None THEN file.img ELSE wal.base, img |-> img]

\* The last connection in WAL mode checkpoints and removes the WAL.
LeavesWal(u) ==
    /\ walUsers' = walUsers \ {u}
    /\ IF walUsers = {u}
       THEN file' = Whole(Replay(file, wal)) /\ wal' = None
       ELSE UNCHANGED <<file, wal>>

Leave(p) ==
    /\ At(p, "leave")
    /\ LeavesWal(p)
    /\ me' = [me EXCEPT ![p] = Outcome(@, me[p].answer)]
    /\ UNCHANGED <<journal, writer, crashes>>

\* The rollback-journal commit: originals to the journal, pages to the file,
\* journal truncated.  A killed process leaves what the last step left.
WriteJournal(p) ==
    /\ At(p, "txn")
    /\ journal' = file.img
    /\ Goto(p, "pages")
    /\ UNCHANGED <<file, wal, writer, walUsers, crashes>>

WritePages(p) ==
    /\ At(p, "pages")
    /\ \E img \in {file.img, me[p].work}, n \in Nonces :
         /\ OnePage(journal, me[p].work) => img = me[p].work
         /\ IF Dated(journal, me[p].work)
            THEN n \notin Remembered /\ \A k \in Nonces : k < n => k \in Remembered
            ELSE n = 0
         /\ file' = [img |-> img, torn |-> [before |-> journal,
                                           after |-> me[p].work, nonce |-> n]]
    /\ Goto(p, "commit")
    /\ UNCHANGED <<journal, wal, writer, walUsers, crashes>>

Commit(p) ==
    /\ At(p, "commit")
    /\ file' = Whole(me[p].work)
    /\ journal' = None
    /\ writer' = None
    /\ IF me[p].next = "opened" THEN Return(p, "ok")
       ELSE me' = [me EXCEPT ![p].pc = me[p].next, ![p].work = None]
    /\ UNCHANGED <<wal, walUsers, crashes>>

\* ROLLBACK: whatever was journaled is restored.
RollsBack ==
    /\ file' = IF journal = None THEN file ELSE Whole(RollBack(file, journal))
    /\ journal' = None
    /\ writer' = None

InTransaction(p) == me[p].pc \in {"decide", "restore", "stamp", "txn", "pages", "commit"}

\* A statement or a commit fails, or the context is cancelled.
Fail(p) ==
    /\ MayFail
    /\ \/ InTransaction(p) /\ RollsBack
       \/ /\ me[p].pc \in {"ensure", "checkpoint", "switch"}
          /\ UNCHANGED <<file, journal, writer>>
    /\ Return(p, Trouble(p))
    /\ UNCHANGED <<wal, walUsers, crashes>>

\* Mutant: a busy database is waited for.
GiveUpNever(p) == p \notin Proc /\ UNCHANGED vars

\* A busy timeout and its retries are used up.
GiveUp(p) ==
    /\ Impatient
    /\ \/ At(p, "source") /\ Exclusive(p) /\ Return(p, "journal")
       \/ At(p, "connect") /\ Exclusive(p) /\ Return(p, "busy")
       \/ /\ me[p].pc \in {"version", "structure", "identity"}
          /\ Exclusive(p)
          /\ Return(p, "invalid")
       \/ At(p, "ensure") /\ writer # None /\ Return(p, "journal")
       \/ At(p, "begin") /\ writer # None /\ Return(p, "busy")
    /\ UNCHANGED <<file, journal, wal, writer, walUsers, crashes>>

-----------------------------------------------------------------------------
(* migrateWALJournal, after its copy was accepted.                         *)

OpenSource(p) ==
    /\ At(p, "source")
    /\ Readable(p)
    /\ walUsers' = IF file.img.mode = "wal" THEN walUsers \cup {p} ELSE walUsers
    /\ Goto(p, "version")
    /\ UNCHANGED <<file, journal, wal, writer, crashes>>

\* validateSchemaStructure outside a transaction: its queries see the ledger
\* at different moments.
ReadVersion(p) ==
    /\ At(p, "version")
    /\ Readable(p)
    /\ me' = [me EXCEPT ![p].pc = "structure", ![p].ver = Version(Committed)]
    /\ UNCHANGED <<file, journal, wal, writer, walUsers, crashes>>

ReadStructure(p) ==
    /\ At(p, "structure")
    /\ Readable(p)
    /\ LET found == Structure(me[p].ver, Committed)
       IN IF ReadOnly(p) /\ found = "invalid" THEN Return(p, "invalid")
          ELSE me' = [me EXCEPT ![p].pc = "identity", ![p].structure = found]
    /\ UNCHANGED <<file, journal, wal, writer, walUsers, crashes>>

\* Mutant: a read-only open does not ask for the mark.
ReadIdentityUnmarked(p) ==
    /\ At(p, "identity")
    /\ Readable(p)
    /\ \/ ReadOnly(p) /\ Return(p, me[p].structure)
       \/ ~ReadOnly(p) /\ Goto(p, "ensure")
    /\ UNCHANGED <<file, journal, wal, writer, walUsers, crashes>>

\* The last query of validateSchema (read-only) or of
\* validateSchemaForRecovery (migrating).
ReadIdentity(p) ==
    /\ At(p, "identity")
    /\ Readable(p)
    /\ LET id == Committed.id
           found == me[p].structure
       IN \/ /\ ReadOnly(p)
             /\ Return(p, CASE id = "other" -> "invalid"
                            [] id = "none" /\ found = "ok" -> "identity"
                            [] OTHER -> found)
          \/ /\ ~ReadOnly(p)
             /\ \/ found # "invalid" /\ id # "other"
                \/ IsEmptyDatabase(Committed)
             /\ Goto(p, "ensure")
          \/ /\ ~ReadOnly(p)
             /\ found = "invalid" \/ id = "other"
             /\ ~IsEmptyDatabase(Committed)
             /\ Return(p, "invalid")
    /\ UNCHANGED <<file, journal, wal, writer, walUsers, crashes>>

\* A read-only connection cannot roll back: the error of the first access
\* names it, that of a later one is an invalid schema.
ReadOnlyMeetsHot(p) ==
    /\ Hot
    /\ ReadOnly(p)
    /\ \/ At(p, "connect") /\ Return(p, "rollback")
       \/ /\ me[p].pc \in {"version", "structure", "identity"}
          /\ Return(p, "invalid")
    /\ UNCHANGED <<file, journal, wal, writer, walUsers, crashes>>

\* Mutant: the mark is left to initializeSchema, after the change of mode.
EnsureIdentityLater(p) ==
    /\ At(p, "ensure")
    /\ ~Hot
    /\ me' = [me EXCEPT ![p].next = "connect",
                 ![p].pc = IF p \in walUsers THEN "switch" ELSE "connect"]
    /\ UNCHANGED <<file, journal, wal, writer, walUsers, crashes>>

\* ensureMotusIdentity: a commit of its own, to the WAL if there is one.
EnsureIdentity(p) ==
    /\ At(p, "ensure")
    /\ ~Hot
    /\ LET marked == [Committed EXCEPT !.id = "motus"]
           inWAL == p \in walUsers
       IN \/ /\ Committed.id = "motus"
             /\ Goto(p, IF inWAL THEN "checkpoint" ELSE "wheader")
             /\ UNCHANGED <<wal, writer>>
          \/ /\ Committed.id # "motus"
             /\ inWAL
             /\ wal' = WalWith(marked)
             /\ Goto(p, "checkpoint")
             /\ UNCHANGED writer
          \/ /\ Committed.id # "motus"
             /\ ~inWAL
             /\ writer = None
             /\ writer' = p
             /\ me' = [me EXCEPT ![p].pc = "txn", ![p].work = marked,
                                 ![p].next = "wheader"]
             /\ UNCHANGED wal
    /\ UNCHANGED <<file, journal, walUsers, crashes>>

\* checkpointMotusIdentity: all frames to the file, whose header must then
\* carry the mark.
Checkpoint(p) ==
    /\ At(p, "checkpoint")
    /\ file' = Whole(Replay(file, wal))
    /\ wal' = None
    /\ IF file'.img.id = "motus"
       THEN me' = [me EXCEPT ![p].pc = "switch", ![p].next = "wheader"]
       ELSE Return(p, "journal")
    /\ UNCHANGED <<journal, writer, walUsers, crashes>>

\* PRAGMA journal_mode = TRUNCATE on a WAL ledger: refused while anybody else
\* has it open; otherwise the WAL is removed and the header changed in a
\* transaction of the rollback journal.
SwitchMode(p) ==
    /\ At(p, "switch")
    /\ IF walUsers = {p}
       THEN /\ file' = Whole(Replay(file, wal))
            /\ wal' = None
            /\ walUsers' = {}
            /\ writer' = p
            /\ me' = [me EXCEPT ![p].pc = "txn",
                         ![p].work = [Committed EXCEPT !.mode = "delete"]]
       ELSE /\ Return(p, Trouble(p))
            /\ UNCHANGED <<file, wal, walUsers, writer>>
    /\ UNCHANGED <<journal, crashes>>

VerifyMigratedHeader(p) ==
    /\ At(p, "wheader")
    /\ IF HeaderValid(file.img) /\ file.img.mode = "delete" /\ file.img.id = "motus"
       THEN me' = [me EXCEPT ![p].pc = "connect", ![p].kind = "none"]
       ELSE Return(p, "journal")
    /\ UNCHANGED <<file, journal, wal, writer, walUsers, crashes>>

-----------------------------------------------------------------------------
(* The ledger's own connection and initializeSchema.                       *)

\* pingWithRetry and verifyPragmas.  A writable connection asks for the
\* TRUNCATE journal, which takes a ledger put back in WAL mode out of it.
Connect(p) ==
    /\ At(p, "connect")
    /\ Readable(p)
    /\ \/ /\ file.img.mode = "delete"
          /\ Goto(p, IF ReadOnly(p) THEN "version" ELSE "begin")
          /\ UNCHANGED walUsers
       \/ /\ file.img.mode = "wal"
          /\ ReadOnly(p)
          /\ Return(p, "failed")
          /\ UNCHANGED walUsers
       \/ /\ file.img.mode = "wal"
          /\ ~ReadOnly(p)
          /\ walUsers' = walUsers \cup {p}
          /\ me' = [me EXCEPT ![p].pc = "switch", ![p].next = "begin"]
    /\ UNCHANGED <<file, journal, wal, writer, crashes>>

\* BEGIN IMMEDIATE.
Begin(p) ==
    /\ At(p, "begin")
    /\ ~Hot
    /\ writer = None
    /\ writer' = p
    /\ me' = [me EXCEPT ![p].pc = "decide", ![p].next = "opened"]
    /\ UNCHANGED <<file, journal, wal, walUsers, crashes>>

\* Mutant: the statements of a migration commit one by one.
InitializeSchemaPiecemeal(p) ==
    /\ At(p, "decide")
    /\ file.img.schema \in {"blank", "empty", "v1", "v2"}
    /\ file' = IF file.img.schema = "v1" THEN [file EXCEPT !.img.schema = "mixed"]
               ELSE file
    /\ me' = [me EXCEPT ![p].pc = "stamp", ![p].work = [file.img EXCEPT !.schema = "v2"]]
    /\ UNCHANGED <<journal, wal, writer, walUsers, crashes>>

\* One transaction creates, migrates or checks the schema.  A migration drops
\* the metadata trigger ("mixed"), rewrites the version and restores it.
InitializeSchema(p) ==
    /\ At(p, "decide")
    /\ LET c == file.img
           Statements(schema, label) ==
               /\ me' = [me EXCEPT ![p].pc = label,
                                   ![p].work = [c EXCEPT !.schema = schema]]
               /\ journal' = c
               /\ UNCHANGED writer
       IN \/ c.schema \in {"blank", "empty"} /\ Statements("v2", "stamp")
          \/ c.schema = "v1" /\ Statements("mixed", "restore")
          \/ /\ c.schema = "v2"
             /\ me' = [me EXCEPT ![p].pc = "stamp", ![p].work = c]
             /\ UNCHANGED <<journal, writer>>
          \/ /\ c.schema \notin {"blank", "empty", "v1", "v2"}
             /\ Return(p, "invalid")
             /\ writer' = None
             /\ UNCHANGED journal
    /\ UNCHANGED <<file, wal, walUsers, crashes>>

RestoreGuard(p) ==
    /\ At(p, "restore")
    /\ me' = [me EXCEPT ![p].pc = "stamp", ![p].work.schema = "v2"]
    /\ UNCHANGED <<file, journal, wal, writer, walUsers, crashes>>

\* The identity is checked and set last, in the same transaction.
Stamp(p) ==
    /\ At(p, "stamp")
    /\ \/ /\ me[p].work.id = "other"
          /\ RollsBack
          /\ Return(p, "invalid")
       \/ /\ me[p].work.id # "other"
          /\ journal' = file.img
          /\ me' = [me EXCEPT ![p].pc = "pages", ![p].work.id = "motus"]
          /\ UNCHANGED <<file, writer>>
    /\ UNCHANGED <<wal, walUsers, crashes>>

-----------------------------------------------------------------------------
(* The open ledger, the older version, death.                              *)

\* Some later write through the open store.
Record(p) ==
    /\ At(p, "open")
    /\ ~ReadOnly(p)
    /\ ~Hot
    /\ writer = None
    /\ file.img.recs < MaxRecords
    /\ writer' = p
    /\ me' = [me EXCEPT ![p].pc = "txn", ![p].next = "open",
                 ![p].work = [file.img EXCEPT !.recs = @ + 1]]
    /\ UNCHANGED <<file, journal, wal, walUsers, crashes>>

Close(p) ==
    /\ At(p, "open")
    /\ me' = [me EXCEPT ![p] = [Fresh EXCEPT !.stage = me[p].stage, !.answer = me[p].answer]]
    /\ UNCHANGED <<file, journal, wal, writer, walUsers, crashes>>

\* The older version opens the ledger and puts it in WAL mode.
OlderOpens ==
    /\ Older
    /\ "older" \notin walUsers
    /\ Committed.schema \in {"v1", "v2"}
    /\ Committed.id # "other"
    /\ journal = None
    /\ writer = None
    /\ file.img.mode = "delete" => \A p \in Proc : ~Connected(p)
    /\ walUsers' = walUsers \cup {"older"}
    /\ file' = [file EXCEPT !.img.mode = "wal"]
    /\ UNCHANGED <<journal, wal, writer, me, crashes>>

OlderWrites ==
    /\ "older" \in walUsers
    /\ Committed.recs < MaxRecords
    /\ wal' = WalWith([Committed EXCEPT !.recs = @ + 1])
    /\ UNCHANGED <<file, journal, writer, walUsers, me, crashes>>

OlderLeaves ==
    /\ "older" \in walUsers
    /\ LeavesWal("older")
    /\ UNCHANGED <<journal, writer, me, crashes>>

OlderDies ==
    /\ "older" \in walUsers
    /\ crashes < MaxCrashes
    /\ crashes' = crashes + 1
    /\ walUsers' = walUsers \ {"older"}
    /\ UNCHANGED <<file, journal, wal, writer, me>>

\* A killed process leaves the files as they are; its locks go.
Crash(p) ==
    /\ ~At(p, "idle")
    /\ crashes < MaxCrashes
    /\ crashes' = crashes + 1
    /\ me' = [me EXCEPT ![p] = Fresh]
    /\ writer' = IF writer = p THEN None ELSE writer
    /\ walUsers' = walUsers \ {p}
    /\ UNCHANGED <<file, journal, wal>>

\* One step of open() by p.
Opening(p) ==
    \/ PrepareStatePath(p) \/ HasRollbackJournal(p) \/ InspectHeader(p)
    \/ Recheck(p) \/ CopyFile(p) \/ CopySidecar(p)
    \/ VerifyFile(p) \/ VerifySidecar(p) \/ RequiresJournalMigration(p)
    \/ RecoverHot(p) \/ Leave(p)
    \/ WriteJournal(p) \/ WritePages(p) \/ Commit(p) \/ GiveUp(p)
    \/ OpenSource(p) \/ ReadVersion(p) \/ ReadStructure(p) \/ ReadIdentity(p)
    \/ ReadOnlyMeetsHot(p) \/ EnsureIdentity(p) \/ Checkpoint(p) \/ SwitchMode(p)
    \/ VerifyMigratedHeader(p) \/ Connect(p) \/ Begin(p)
    \/ InitializeSchema(p) \/ RestoreGuard(p) \/ Stamp(p)

Environment ==
    \/ \E p \in Proc : Call(p) \/ Fail(p) \/ Record(p) \/ Close(p) \/ Crash(p)
    \/ OlderOpens \/ OlderWrites \/ OlderLeaves \/ OlderDies

\* What the ledger held while p was copying it.
Watch ==
    seen' = [p \in Proc |->
               IF me'[p].pc \in {"copyside", "verifyfile", "verifyside"}
               THEN seen[p] \cup {Committed'} ELSE {}]

Next == (Environment \/ \E p \in Proc : Opening(p)) /\ Watch

Spec == Init /\ [][Next]_vars

-----------------------------------------------------------------------------
(* Properties.                                                             *)

Motus(img) == img.schema # "alien" /\ img.id # "other"

\* Every way of opening, migrating, recovering and dying is a step of
\* LedgerFormat or changes nothing a reader could tell (initializeSchema,
\* migrateWALJournal, recovery of a hot journal).
Content(img) ==
    [schema |-> IF img.schema \in {"absent", "blank", "empty"} THEN "empty"
                ELSE img.schema,
     id |-> img.id, recs |-> img.recs]

Format == INSTANCE LedgerFormat WITH content <- Content(Committed)
KeepsFormat == Format!Spec

\* migrateWALJournal: "The Motus identity is committed while the source is
\* still in WAL, so an interruption cannot leave an unmarked rollback-journal
\* database": no step takes an unmarked ledger out of WAL mode.  Only open()'s
\* own connection does, when the older version has put a ledger back in WAL
\* mode that requiresJournalMigration had found out of it.
UnmarkedStaysInWAL ==
    [][Committed.mode = "wal" /\ Committed'.mode = "delete"
         => \/ Committed.id = "motus"
            \/ \E p \in Proc : writer = p /\ me[p].next = "begin"]_vars

\* A database that is not a Motus ledger is rejected without writing to it,
\* hot journal or not (TestWALMigrationRejectsUnknownSchema..., invalid hot
\* journals): its pages and its WAL stay as they are.
AlienUntouched ==
    [][~Motus(Committed) => UNCHANGED <<file, wal>>]_vars

\* validateLedgerSnapshot: what an accepted pair of copies holds, the ledger
\* really held at some moment while it was being copied, so that what is
\* validated is not a mixture of two transactions (the mark apart: marking is
\* one page, and doing it twice writes the same page).
AcceptedCopyExisted ==
    [][\A p \in Proc :
         /\ me[p].pc = "verifyside"
         /\ me'[p].pc \in {"mode", "source"}
         => \E img \in seen[p] : OnePage(img, RecoveredCopy(me[p]))]_vars

\* A store handed to the caller is a current, marked ledger.
OpenedIsCurrent ==
    \A p \in Proc : me[p].pc = "open" =>
        Committed.schema = "v2" /\ Committed.id = "motus"

\* A copy of database and journal that is rejected as invalid is no mixture
\* either: what was copied was not a Motus ledger, or it was in WAL mode
\* meanwhile, so that an interrupted change of the mode left the journal
\* (InterruptedLedgerReopens).  A WAL copy is left out: no journal is copied
\* with it, although the ledger may be out of WAL mode and written to by then.
RejectedCopyWasInvalid ==
    [][\A p \in Proc :
         /\ me[p].pc = "verifyside" /\ me[p].kind = "rollback"
         /\ me'[p].answer = "invalid"
         => \E img \in seen[p] : ~Motus(img) \/ img.mode = "wal"]_vars

\* An interrupted transaction needs one writable open (ARCHITECTURE, Store):
\* that open does not refuse what a killed migration left.
InterruptedLedgerReopens ==
    Hot /\ Motus(Committed) =>
        \A p \in Proc : me[p].stage = "create" => me[p].answer # "invalid"

\* open() waits for nobody forever: whatever the others do or leave undone,
\* each process inside it has a step to take.  (Retries included, that is a
\* bounded number of steps: OpeningEnds in LedgerOpenProofs.)
NobodyWaitsForever ==
    \A p \in Proc : me[p].pc \notin {"idle", "open"} => ENABLED (Opening(p) /\ Watch)
=============================================================================
