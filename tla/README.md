# Motus work ledger: TLA+ models and proofs

Motus (`motus wrap -- COMMAND`) runs a command, records that it began and how
it ended in a local SQLite ledger, and lets people attach findings to recorded
runs. This directory holds TLA+ models of that program, TLC configurations that
check them on small instances, and machine-checked proofs about every
component modelled.
`PROJECT.json` lists components, runs, mutants, hazards and theorems, and maps
every definition to the source lines it models. Paths below are relative to
the repository; `store/` stands for `internal/store/`, and so on.

## The system

| component | source | state | operations |
|---|---|---|---|
| store, writes | `store/operations.go`, `findings.go`, `store.go` (`write`) | tables runs, events, findings, finding_closures; SQLite's locks | StartRun, CloseRun, AddFinding, CloseFinding |
| store, reads | `store/reads.go`, `receipt.go` | a read transaction | GetRun, Snapshot, ProjectReceipt |
| store, listings | `store/reads.go`, `findings.go` | none | ListRuns, ListFindings, query matching |
| schema | `store/schema.go` | CHECKs, keys, triggers | restates the rules of the Go code in SQL |
| doctor | `store/doctor.go` | none | row checks, integrity check, digests |
| open and recovery | `store/store.go`, `recovery.go` | database header, journals, schema version | Open, OpenForRead, schema migration, WAL migration, hot-journal validation |
| capture | `capture/capture.go`, `process_*.go` | child process group, two copy goroutines, counters, channels | Run, terminate |
| signals | `signals/` | a cancelled context with a cause | first signal cancels, second kills |
| cli wrap | `cli/cli.go` (`runWrap`) | the record's progress, exit status | open record, capture, close record |
| cli, other | `cli/cli.go`, `finding.go` | none | run list, run receipt, finding add/close/list/show, doctor |
| gitmeta | `gitmeta/gitmeta.go` | up to four git processes under one deadline | Detect |
| statepath | `statepath/statepath.go`, `store/path_*.go` | none | Resolve; creation and checks of the state directory |
| ids, buildinfo, main | their packages | none | identifiers, version, entry |

How they interact. `main` gives `cli.Run` a context that a signal cancels.
`runWrap` detects Git metadata, opens the store, calls StartRun, then
`capture.Run`, then CloseRun under a context that the signal does *not* cancel,
and turns the capture result into both the recorded outcome and the exit
status. Every other command is one or a few store calls. Any number of Motus
processes share one ledger file; within one process the store has a single
connection. SQLite is the only means of communication between processes.

What is hard: the order in which processes take the write lock; SQLITE_BUSY at
BEGIN or COMMIT; a crash or cancellation between any two statements, or after
COMMIT and before the answer; wall clocks that step back; the same rules stated
twice, in Go and in SQL; reads made of several queries; the select of
`capture.Run` over three events that race, with two copy goroutines behind it;
descendants that hold the pipes open; and paging by offset over a table that
changes. `hazards` in `PROJECT.json` lists each at its line.

## Modules

| module | models | composed with |
|---|---|---|
| `LedgerRecords` | rows, argument validation, CHECKs and triggers, receipt, doctor: pure operators over a ledger | |
| `LedgerStore` | concurrent store calls over one ledger | EXTENDS LedgerRecords |
| `LedgerPromise` | abstract specification: what the store promises | refined by LedgerStore (`KeepsPromise`) |
| `Capture` | `capture.Run` with its environment and the Unix controller | |
| `WindowsCapture` | `capture.Run` with the Windows controller | EXTENDS Capture, and refines it (`ImplementsCapture`) |
| `WrapCommand` | `runWrap` | EXTENDS Capture, INSTANCE LedgerRecords |
| `Listings` | ListRuns and ListFindings read page by page | |
| `LedgerOpen` | Open and OpenForRead of processes that share a state directory | |
| `LedgerFormat` | abstract specification: what opening may do to the contents | refined by LedgerOpen (`KeepsFormat`) |
| `GitState` | Detect, Resolve and the creation of the state directory | |
| `FindingCommands` | `finding add` and `finding close` with a user who retries | |
| `LedgerStoreProofs` | lemmas about one write on one ledger; the store's invariant and what follows; its answers, and that it implements LedgerPromise; that calls end | EXTENDS LedgerStore |
| `LedgerOpenProofs` | the theorems about opening, that it implements LedgerFormat, and that it ends | EXTENDS LedgerOpen |
| `ListingsProofs` | the theorems about paging and relevance | EXTENDS Listings |
| `CaptureProofs` | the theorems about `capture.Run` | EXTENDS Capture |
| `WindowsCaptureProofs` | the Windows controller, and that it implements Capture | EXTENDS WindowsCapture |
| `WrapCommandProofs` | the theorems about `motus wrap` | EXTENDS WrapCommand, CaptureProofs |
| `GitStateProofs` | the theorems about Detect and the ledger's place | EXTENDS GitState |
| `FindingCommandsProofs` | the theorems about the finding commands | EXTENDS FindingCommands |
| `MC...` | instances for TLC | |

**LedgerRecords.** A ledger is a record of four tables, each a function from
identifiers to rows. `validateStartRun`, `validateClose` are the Go validations;
`RunChecks` is the CHECK of the runs table, written with SQL's three-valued
rule (a CHECK passes unless it is false); `MayInsertRun`, `MayUpdateRun`,
`MayInsertEvent`, ... are a statement's keys, CHECKs and triggers together;
`DeferredKeysHold` is what COMMIT verifies. `Doctor` and
`validateSnapshotConsistency` are the program's own auditors, translated from
`doctor.go` and `receipt.go`, not definitions made up for the model. Names, Git
metadata and authored texts are single opaque values because no code branches
on them once validated.

**LedgerStore.** A process calls an operation (`Call`, arguments validated,
clock read), takes the write lock (`Begin`, `BeginBusy`), decides
(`Refuse`, `Repeat`, or the first insert, in the order of the early returns),
executes its one or two statements on the transaction's ledger `work`, commits
(`Commit`, `CommitBusy`) and hands back its answer (`Return`). `Busy` is the
retry loop. `Cancel` is the context becoming done at any point before the answer.
`Crash` is the death of the process at any point, including between COMMIT and
`Return`: the call took effect and nobody was told. Snapshot is two SELECTs
holding the shared lock; `finding show` is three queries holding none. The clock
of a call is any member of `Time`: nothing in the program makes it monotonic.
The driver is assumed to roll back a transaction whose COMMIT was refused and to
let a process's locks go when it dies.

**Capture.** The child and one descendant (`helper`) write to two pipes;
`CopierReads`/`CopierLocks`/`CopierWrites`/`CopierEnds` are the os/exec copy
goroutines with the counters' `Write` in them; `WaitReaps`/`WaitSends` the goroutine in
`cmd.Wait`; `SelectWaited`/`SelectContext`/`SelectOutput`, `PreferWaited`,
`Terminate`, `Drain`, `Collect` the supervisor, one action per branch or
blocking point. The destination may start to fail at any time; the context may be
done by signal, plain cancel or deadline at any time. The Unix controller is modelled:
`Terminate` kills the process group.

**WrapCommand.** Puts the wrap sequence around Capture's actions, and stores the
result through `LedgerRecords`' validations and CHECKs, so that a result which
the store would refuse is found here. Store calls are single steps, which
`KeepsPromise` justifies. A second signal is a crash (the first restores the default
handler).

**Listings.** A script raises the offset by the limit page by page while other
processes commit starts, closes, findings and closures. A text is the set of
needles it contains; `hits` and `match` follow the code's rule that an
identifier is searched only for needles specific enough.

**LedgerOpen.** A state directory is three files: `file` with what page 1 shows
(`img`) and the transaction half of whose pages are written (`torn`), a rollback `journal`, and
the frames of a `wal`. `Committed` is what SQLite would give a reader of them.
Each process is a record `me[p]` whose `pc` walks through `open()`: look at the path
(`PrepareStatePath`, `HasRollbackJournal`, `InspectHeader`), copy and verify database and journal
or WAL (`CopyFile`, `CopySidecar`, `VerifyFile`, `VerifySidecar`, `Retry`), migrate out of WAL
(`OpenSource`, `ReadVersion`, `ReadStructure`, `ReadIdentity`, `EnsureIdentity`, `Checkpoint`,
`SwitchMode`, `VerifyMigratedHeader`), connect, and create, migrate or accept the
schema (`Begin`, `InitializeSchema`, `RestoreGuard`, `Stamp`). A copy
and its check are separate steps, and so are the phases of a SQLite commit: the journal, the
pages, and the removal of the journal. A process can die, a statement fail and a busy timeout
expire at each. OpenForRead opens read-only first and tries a writable open
where the code does. Version 0.1.4, which still used WAL, is external: it opens,
writes, leaves and dies. It turns WAL on again only while no current process is
connected. Bytes are compared as the code compares them: every committed record and
every creation gets a nonce of its own, a migration that is tried again writes
the same bytes.

**LedgerFormat.** What a reader finds in the ledger moves in single steps: created, migrated,
marked, or one record longer; a database that is not a Motus ledger never changes.

**GitState.** `step` says which of Detect's git processes runs, `git` and `out` what
has become of it and of its output. Other programs commit, switch branches and
edit between any two steps; HEAD may be unborn, unreadable or name a missing commit; git may
fail, hang, and leave a descendant that holds its pipe. `git status` looks at tracked
and at untracked files in two looks. A command detects once to place its ledger and,
for wrap, once more for the record; `Open` then creates the directory if the command is one of
`Writers`. `past` collects what was true during a detection, and whether git failed or left a
descendant behind of itself when it read HEAD; it serves the properties about reports only.

**WindowsCapture.** Replaces Capture's `Start` by `prepareProcess` and
`afterStart` call by call (a suspended child, the search for its thread, the job, the
assignment, the resumption), each of which may fail (a failed resumption ends the child through its
job, whose failure the code ignores because Run kills the child next), and `Terminate` by
`TerminateJob`, which falls back to killing the child alone. The rest of Run is Capture's own
actions. The refinement hides the child until it is resumed. What
the kernel does is taken from how the code uses it.

**FindingCommands.** One invocation is read input, take an identifier, open, write, confirm; it
may fail at each step, be signalled, or die, also between the commit and the confirmation. Each
invocation has a new identifier, so a retry is not idempotent in the store; the user therefore
looks before retrying, as docs/usage.md tells. The write is one step, which
`KeepsPromise` justifies.

## Runs

Deadlock is not checked: the modelled processes may stop calling (`MaxCalls`), a
wrap ends, a listing ends, a ledger stays open.

| run | instance | distinct states | what it checks |
|---|---|---|---|
| `store` | 2 processes, 2 calls each, 1 retry; 6 requests on 2 runs and 3 event IDs at 2 clock readings, or 8 requests on a ledger with a successful, a failed and an open run | 528k | TypeOK, DoctorFindsNothing, AcknowledgedIsRecorded, SnapshotsAgree, LinksResolve, SchemaAgreesWithCode, AppendOnly, RetryNeverRefused, KeepsPromise |
| `calls` | 2 processes that start, close and project one run; or 1 process, every terminal metadata around the boundaries, 3 clock readings | 14k | SchemaAgreesWithCode, CallsSettle (liveness) |
| `capture` | Unix: 2 chunks on stdout and 1 on stderr, a descendant that may detach; or Windows: 1 chunk per stream, a setup that may fail, a job that may refuse to end; deadline, shared writer | 275k | CountsSettled, NothingTruncated, OwnKillNotReported, FailedStartLeavesNothing, ImplementsCapture, OutputFailureEnds and CancellationEnds (liveness) |
| `wrap` | 1 chunk per stream, 2 clock readings that never step back | 754k | CommandHasRecord, SuccessIsEarned, StatusTellsRecord, OutcomeTellsWhy, RunIsClosed, SignalEndsWrap (liveness) |
| `wrap_clock` | the clock may step back | stops early | OutputFailureClosesRun is violated |
| `wrap_late_signal` | 1 clock reading | stops early | LateSignalKeepsOutcome is violated |
| `listings` | 2 findings and a third to come, 2 closures, 2 queries, limits 1 and 2; or 4 runs of which 2 exist, limits 0, 1, 2 | 1.28M | NothingSkipped, PagesPartition, RelevanceNeverFalls |
| `open` | 2 processes, 17 state directories to begin with, 1 retry, 1 death, 1 record, failing statements, the older version | 840k | OpenedIsCurrent, NobodyWaitsForever, KeepsFormat, AlienUntouched, AcceptedCopyExisted, RejectedCopyWasInvalid, UnmarkedStaysInWAL |
| `open_interrupted` | 1 process, 1 death, an unmarked WAL ledger | stops early | InterruptedLedgerReopens is violated |
| `git` | 1 wrap below the root or outside a work tree, 2 commits, 1 change by another program, faults | 426k | ReportWasTrue, OwnLedgerKeepsClean, DetectEnds (liveness) |
| `git_empty_head` | the same, no changes by others | stops early | EmptyHeadIsUnborn is violated |
| `finding_commands` | 1 user who adds, 2 who close, 2 tries each, 1 fault | 216k | StatusIsTrue, RecordedOnce, IntentsAreRecorded (liveness) |

Some runs explore two instances that have nothing to do with each other (`capture` the two
controllers): the initial state chooses one, and `Suited` in the MC module restricts its steps to the requests, clock readings
or actors of that instance. In `open`, `begun` remembers whether the ledger was in WAL
mode at first; if so the older version and writable opens meet, otherwise
writable and reading opens. A third instance, "alone", lets one process at a time open and leaves nothing
else out: there the older version also comes between two steps of an open that found the ledger
out of WAL, and writes the first record to a WAL ledger without one. Processes are symmetric (`Permutations(Proc)`) in `store` and `open`,
whose properties are all safety properties.

Why the bounds are enough. Two processes with two calls each contain every pair
of racing calls, a call and its repetition by the same or the other process,
and a reader between two writers; only one process is ever inside a write
transaction, so a third adds no new contention for the committed ledger, and the
proofs cover any number. One retry distinguishes "again" from "give up". Clock
readings 1 and 2 (0, 1, 2 for `calls`) are before, at and after. Two chunks
on one stream and one on the other let a destination fail before, between and after writes. One
descendant is enough to hold the pipes. Three findings and limits of 1 and 2
make a page boundary fall before, at and after each row. In `open` the state directories to begin
with contain what a killed first open, migration, write or change of mode leaves,
so that one death in the run is already a second one; the code retries a
snapshot 20 times (rollback) or 4 times (WAL), and one retry is "again". One record is
enough to tell a ledger that was written to. In `git` one change lets every two looks of git disagree. In
`finding_commands` there are more tries than faults, so that a retry can succeed; the code
bounds neither.

Fairness. `calls`: weak fairness of each process's own steps (the scheduler
runs a process inside a call); nothing forces a process to call, and the
lock is not assumed to be granted fairly, so a call may end as ErrBusy, which is
what the retry bound promises. `capture` and `wrap`: weak fairness of the two copy
goroutines, the waiting goroutine, the supervisor and `runWrap` (Go runs runnable
goroutines, and a destination accepts or rejects what it is given); the child
and its descendants are *not* assumed ever to end by themselves. `HelperSurvives` names the exception in
`OutputFailureEnds` and `CancellationEnds`: a descendant that left the process group, or whose job
could not be terminated; the code says that it deliberately waits for it
without a timeout. `wrap` excludes it (`CanDetach = FALSE`). `git`: weak fairness of Motus (`StartGit` to `WaitDelay`, the
timers included); git processes and their descendants may hang for ever.
`finding_commands`: commands run on, and a user who waits for an answer goes on to
look and to retry. `NobodyWaitsForever` states the progress of `open()` without fairness: whatever the others
do, each process inside it has a step of its own to take.

Every property of a passing run has a mutant: a plausible bug (named `Mutant:` in the
modules, next to the definition it replaces) under which TLC finds the property
violated. Only `LedgerStore` has a type invariant among the checked properties; it bounds
the retries as well, and is proved.

## What does not hold

1. **A clock set back leaves a run open** (`wrap_clock`). `ended_at` and
   `updated_at` come from the wall clock with the monotonic part removed.
   CloseRun refuses an end before the start, and the schema refuses an update before the
   creation; a command that ran and ended then keeps an open record.
   ARCHITECTURE.md:126-129 says that a run whose output failed is closed as failed. The
   ordinary end of a command is affected in the same way.
2. **A late signal may replace the outcome** (`wrap_late_signal`). ARCHITECTURE.md:130-132
   says that a signal received after the command has completed does not. Between the
   child's exit (and the end of the copies) and the delivery of Wait's result the
   select takes the context branch, and the run is recorded as aborted.

3. **An interrupted change of the journal mode locks the ledger** (`open_interrupted`).
   migrateWALJournal validates and marks a WAL ledger, then SQLite changes the mode under a
   rollback journal whose before-image still says WAL. After a death in between, the copy of
   database and journal opens in mode "wal", which validateRollbackSnapshot
   (recovery.go:208) does not allow: every later Open calls the ledger invalid, and the
   journal is never rolled back. ARCHITECTURE.md:82-84 says that one writable open is enough.
4. **A failed rev-parse is recorded as a branch without commits** (`git_empty_head`).
   gitmeta.go:22-24 says that HeadSHA is empty for an unborn HEAD, and 32-35 that Detect returns the
   zero value when required metadata cannot be read. `unbornHEAD` (gitmeta.go:64)
   asks only whether HEAD names a branch: a rev-parse that fails or loses its output of
   itself, or a branch file that cannot be read, gives a report without a commit on a branch
   that has some. A deadline, a signal, a missing commit or a detached HEAD never does:
   that is what `ReportWasTrue` says of such reports, and `ReportsAreTrue` proves.

Two more statements do not hold either. The models reach both, and no run states them:

5. **The default ledger may be under the working directory inside a work tree.**
   docs/usage.md:113 promises the Git root. Resolve (statepath.go:27) places the ledger by the whole
   of Detect's answer, which is nothing when the two seconds pass or any of the processes
   fails, the one for the status included. A command below the root then opens another ledger.
6. **A reader may refuse a legacy ledger that another process migrates.**
   OpenForRead reads the schema's version and then its structure in queries of
   their own (store.go:637); a migration committed in between makes a valid ledger look
   invalid. TestConcurrentLegacyMigrationIsSerialized (store_test.go:842) asserts that two such
   opens both succeed. Nothing is lost, and the next open succeeds.

Observations that no statement of the repository contradicts:

- `SchemaAgreesWithCode` names the only two cases in which the schema refuses what the Go code let
  through: the clock, and a closure ID used for another finding (a bare constraint error instead
  of ErrConflict).
- `NothingSkipped` names the listings in which paging can skip rows: `--state open`, and
  a query over all states.
- A deadline that expires together with an output failure would produce a failure with
  `timed_out`, which validateClose refuses; nothing sets a deadline today, and the wrap runs have
  `Deadline = FALSE`.
- A WAL ledger is copied without a rollback journal. If another process takes it out of WAL and is
  in the middle of a write while it is copied, the copy is a mixture and the open is
  refused as invalid; `RejectedCopyWasInvalid` is therefore about rollback copies. A lock held
  during the validation of the WAL migration is reported as an invalid ledger too.
- By finding 5 a user who looks before retrying in the default directory may look at
  another ledger; `FindingCommands` is about one state directory.
- A command that Windows created suspended stays suspended if Motus dies before resuming it.

## Proofs

Every theorem holds for all values of the constants: any processes, requests, retries,
calls, identifiers, clock readings, chunks of output, commits, and any state directory that a
killed process may leave. The only assumptions are those of the modules, evaluated by TLC in
each run: what the constants are (`RecordConstants`, `StoreConstants`, `CaptureConstants`,
`WrapConstants`, `JobConstants`, `GitConstants`, `OpenAssumption`, `CommandConstants`,
`ListingConstants`; ledgers are finite there), that a
null value is none of the values beside it (`NullIsApart`, `NoneIsApart`), that nobody is called
like one of the ledger's other creators and no commit like a state of HEAD (`GitNames`), and that the
files `LedgerOpen` begins with are ones `LeftBehind` and `Written` describe (`StartsAssumption`). Two theorems
have hypotheses of their own, named below.

| module | theorem | statement |
|---|---|---|
| LedgerStoreProofs | `InvariantHolds` | Spec => []IInv |
| | `TypeCorrect` | Spec => []TypeOK |
| | `LedgerStaysSound` | Spec => []DoctorFindsNothing |
| | `NothingAcknowledgedIsLost` | Spec => []AcknowledgedIsRecorded |
| | `SnapshotsAreConsistent` | Spec => []SnapshotsAgree |
| | `HistoryOnlyGrows` | Spec => AppendOnly |
| | `RetriesAreIdempotent` | Spec => RetryNeverRefused |
| | `AnswersHold` | Spec => []AnswersInv |
| | `LinksAlwaysResolve` | Spec => []LinksResolve |
| | `SchemaAgrees` | Spec => []SchemaAgreesWithCode |
| | `StoreIsAtomic` | Spec => KeepsPromise |
| | `CallsEnd` | Spec => []StepsAreBounded /\ StepsRunOut |
| LedgerOpenProofs | `OpenInvHolds` | Spec => []OpenInv |
| | `OpenedLedgerIsCurrent` | Spec => []OpenedIsCurrent |
| | `OpeningKeepsFormat` | Spec => KeepsFormat |
| | `MarkedBeforeSwitch` | Spec => UnmarkedStaysInWAL |
| | `AlienIsLeftAlone` | Spec => AlienUntouched |
| | `CopyInvHolds` | Spec => []CopyInv |
| | `AcceptedCopiesExisted` | Spec => AcceptedCopyExisted |
| | `RejectionsAreTrue` | Spec => RejectedCopyWasInvalid |
| | `OpeningEnds` | Spec => []StepsAreBounded /\ StepsRunOut |
| CaptureProofs | `CountsAreFinal` | CaptureSpec => []CountsSettled |
| | `OutputIsComplete` | CaptureSpec => []NothingTruncated |
| | `OwnKillsAreOwned` | CaptureSpec => []OwnKillNotReported |
| WindowsCaptureProofs | `WinInvHolds` | WinSpec => []WinInv |
| | `NothingIsLeft` | WinSpec => []FailedStartLeavesNothing |
| | `WindowsIsCapture` | WinSpec => ImplementsCapture |
| | `WindowsIsExactlyCapture` | ~JobFaults: WinSpec => C!CaptureSpec |
| WrapCommandProofs | `NoCommandUnrecorded` | Spec => []CommandHasRecord |
| | `SuccessIsReal` | Spec => []SuccessIsEarned |
| | `StatusIsRecord` | Spec => []StatusTellsRecord |
| | `OutcomeIsCause` | Spec => []OutcomeTellsWhy |
| | `EveryResultIsStored` | ~ClockSteps, ~Deadline: Spec => []RunIsClosed |
| | `WrapIsCapture` | Spec => CaptureSpec |
| GitStateProofs | `GitInvHolds` | Spec => []GitInv |
| | `ReportsAreTrue` | Spec => []ReportWasTrue |
| | `OwnLedgerIsUnseen` | Spec => []OwnLedgerKeepsClean |
| FindingCommandsProofs | `InvariantHolds` | Spec => []IInv |
| | `StatusNeverLies` | Spec => []StatusIsTrue |
| | `LookingPreventsDoubles` | Spec => []RecordedOnce |
| ListingsProofs | `ListInvHolds` | Spec => []ListInv |
| | `PagingSkipsNothing` | Spec => []NothingSkipped |
| | `PagesArePartition` | Spec => []PagesPartition |
| | `RelevanceIsKept` | Spec => RelevanceNeverFalls |

**The store.** `Doctor(db)` is not inductive: a COMMIT publishes `work`, so one must
know what `work` is. `IInv` says of each process how far its transaction has got:
it has the lock exactly while it is in one; before its first statement `work = db`;
at `second` the working ledger is the committed one plus the first statement's
row (`HalfStarted`, `HalfClosed`: not sound, its terminal event is there and the
run still open); at `commit` it is sound, extends the committed ledger and holds
the request (`Done`). It says that the shared lock is held exactly between the
two SELECTs of Snapshot and that what the first read is still committed. The lemmas of
the first half prove, on one ledger and without variables, that each complete
operation keeps a ledger sound and extends it. The `...Step` lemmas
prove the shapes a step can have (answer, return, statement,
read, retry, commit); the `...Steps` lemmas instantiate them for every action;
`OthersOK` says that a step which commits only while nobody reads leaves what is said
of the other processes true. `InvariantKept` puts them together and also gives
`Extends(db, db')`, from which `HistoryOnlyGrows` follows.
`RetriesAreIdempotent` uses `RecordedIsRepeat`: in a sound ledger that holds a
request, the request's verdict is "repeat".

**The promise.** That the store implements `LedgerPromise` needs to know why an answer is what
it is. `AnswersInv` adds to `IInv` for each process what a `finding show` has read (`LinkOK`), the
cause of a constraint error (`SchemaOK`), and that a transaction about to commit
differs from the committed ledger by the rows of its own request alone (`EffectOK`). The steps
before COMMIT then map to stutters, COMMIT to the one atomic step of the request, and the answer to
an answer; the abstract ledger (`closedRuns`, `settlement`, ...) of the four tables is computed for
each of the four effects in turn.

**Termination.** That a call ends under fairness is liveness and stays with TLC, but half of it is
safety. `StepsLeft` bounds the steps a process may still take, `5 + 4 * BusyRetries` for a call
of the store and `3 * (36 + 9 * Retries)` inside `open()`, where OpenForRead opens up to
three times. `CallsEnd` and `OpeningEnds` prove that each step of a process lowers its own
number and that no step of another raises it, so nothing goes round for ever: neither the retry
loop of `write`, nor a copy tried again because a writer came in between. The
one step that leaves a process in `open()` where it is is the recovery of a hot journal, for which another
process has to die or fail first. What remains to TLC is that a step can be taken (`NobodyWaitsForever`)
and, with fairness, is taken (`CallsSettle`).

The attempt to prove `OpeningEnds` corrected the model. A process that found the journal of its copy
gone (`Recheck`) went on to the WAL copy with the tries it had already used; validateWALSnapshot
counts its own from zero (recovery.go:180), and now so does the model.

**Opening.** `OpenInv` has a part about the files, `LeftBehind`: a journal belongs to the
transaction whose pages are in the file, frames to the file they lie beside. It is the same
condition that the assumption puts on the files at the start, so a death at any step leaves files
from which the specification may begin again: any number of successive deaths is covered. For
each process it says what the process may still rely on of what it saw before: a connection in WAL
mode keeps everybody from the rollback journal, a connection that saw "delete" is not overtaken
by the older version (`PlaceOK`), a structure once found valid stays valid (`KnowsOK`), the image
a transaction has built is a step of `LedgerFormat` away from the committed one (`CommitOK`, `Leads`).
`NextStep` proves for each action that `OpenInv` is kept and that the committed
image moves by `Leads`; both refinement and `MarkedBeforeSwitch` follow. `AlienInv` is a
second, smaller invariant: while the ledger is not Motus', no process is past the checks.

A copy is made of two files at different moments, with writers in between, and validated when
the first file is found unchanged. Equal bytes need not mean that nothing happened: a migration
that is tried again writes the same ones. `CopyInv` shows why it is right all the same. What the file holds
once an unfinished transaction is taken back (`Lasting`) only grows (`Grows`, an order:
`GrowsOn`, `GrowsBack`; `GrowthStep` proves it of every step): a file that is equal at two moments
therefore held the same ledger at every moment between, the moment at which the journal was
copied among them, and that journal is the one that belongs to it. `FileOK` and `SideOK` say so for a copy
in progress, whatever the others do meanwhile. The nonces are not needed for it.

Proving it changed a property. `UnmarkedStaysInWAL` as first written was not a
consequence of the invariant, and TLC confirmed on the specification without `Suited`
(now the instance "alone" of `open`) that it is false: a process that found a rollback ledger goes on to open
its own connection; before it does, the older version can turn the same unmarked ledger
to WAL, and the connection's own `journal_mode` turns it back before its first statement marks it. The
property now names that exception. No record is lost by it. The other way round,
`RejectedCopyWasInvalid` once had an exception for legacy ledgers, whose repeated migration was
thought to make a mixture pass for one copy; `CopyInv` shows that it cannot, and the exception is gone.

**Capture.** That a copy has ended says nothing of the counts unless the invariant says when it
may end. `CaptureInv` relates each pair of actors: copies to processes and counts
(`CopyOK`), Wait to both (`WaitOK`), the supervisor to Wait, the reason for a
kill to its cause (`ReasonOK`), the result to all of them. **WindowsCapture**: `WinInv` says what other goroutines
can have done at each point of `afterStart`: nothing while the child is suspended, and never anything to
a child that was given up. With the child hidden until it is resumed, each step is
a step of Capture or a stutter. Without `JobFaults` there is no exception, so that the theorems
of Capture hold on Windows.

**WrapCommand.** Under `runWrap`, Capture takes only steps that CaptureSpec allows, and everything
else, the death of Motus included, leaves its variables alone: wrap implements Capture
(`WrapIsCapture`), and `CaptureInv` holds. `WrapInv` says where each phase leaves the run's row: absent until the
command may start, open until Run has returned, then closed with what Run returned.
`EveryResultIsStored` computes `validateClose` and the CHECKs on every result Capture can return. Its
two hypotheses are needed: with a clock that steps back it is false (finding 1), and a deadline makes a
result that the store refuses; the command line sets none.

**GitState.** `GitInv` says that what git has written so far, what Detect has read, and the record it made
were so at a moment that `past` remembers, and that a command's ledger is created after all of its
detections. A report without a commit needs two more parts. `HeadlessOK`: a detection goes on
without a commit only if `past` holds a reason for it, because a rev-parse that was cut off ends
the detection, and a descendant that made it lose its output is a fault of git. `MissingOK`: a missing commit stays
missing, so a `git status` that answers never met one.

**FindingCommands.** RecordedOnce is not inductive: a user about to try again must be known to have no finding in the
ledger, and one whose invocation is before its write not to have got one meanwhile. `Progress`
says of an invocation how far it has got with its record, `History` what the ledger
holds of all the earlier ones. `OthersUndisturbed` shows that a user's step leaves what is
said of the others true, which for the common closure rests on its being set
once; `ExitKeeps`, `ContinueKeeps`, `AddKeeps`, `CloseKeeps` and `AsideKeeps` prove the
shapes a step can have.

**Listings.** What is proved of pages of any number and ledgers of any size needs no induction
over sequences. The place of a row is a cardinality: `Rank` counts the rows before it. `before` is a strict
total order for any times, identifiers and scores, so distinct rows have distinct
ranks, which by the pigeonhole principle are all of `0..n-1`. `Sorted` says that the row
with rank `i - 1` is at `i`; it is stated so in the model because the prover cannot see into
`SortSeq`. `ListInv` says that a row of the first page's
ledger has been listed, or has its place at the offset or beyond (`AheadOK`), and that the
pages of a ledger nobody writes to are the beginning of the listing (`PrefixOK`). A page takes the rows at the
offset up to the limit; a write only adds rows before another, except in the two listings
that `NothingSkipped` names. `RelevanceNeverFalls` follows because a closure adds text to what a query
is matched against and takes none away.

Only model-checked:

- all liveness (CallsSettle, OutputFailureEnds, CancellationEnds, SignalEndsWrap, DetectEnds,
  IntentsAreRecorded), and `NobodyWaitsForever`, which is about ENABLED: neither is in the prover's
  reach. Every other property of a passing run is stated by a theorem.

## Not modelled

- File modes, symbolic links and path syntax of the state directory, and the second inspection of a
  path after SQLite has opened it (`store.go:406`): file-system checks without a state of their own.
- Canonical JSON, digests, text validation, flag parsing, rendering and help: encodings and
  output. Corrupted bytes are outside the models, hence the digest checks of doctor and
  SQLite's integrity check are too.
- `process_other.go`, the fallback that supervises nothing but the child.
- Durability below SQLite (fsync, disk loss), and destinations that never return from Write.
- Reading a finding from standard input is one step; a first signal does not interrupt it
  in the code either (`cli/finding.go:411`).
- The mutual exclusion of a shared writer is in Capture (`CopierLocks`) but no run states it: runWrap
  hides from capture that its two writers are one, and they are files.

## Plan

1. Done: the store with its first theorems, capture, wrap and listings.
2. Done: opening and migration, Git detection, the Windows controller, the finding commands.
3. Done: theorems about the store's answers and its promise, opening and its copies, capture on both
   platforms, wrap and Git detection; the instance "alone" of `open`.
4. Done: theorems about listings; bounds on the steps of store calls and of `open()`; wrap implements
   Capture.
