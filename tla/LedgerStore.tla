---------------------------- MODULE LedgerStore ----------------------------
(***************************************************************************)
(* Concurrent callers of one Motus ledger (internal/store): StartRun,      *)
(* CloseRun, AddFinding, CloseFinding, ProjectReceipt and the reads of     *)
(* `motus finding show'.                                                   *)
(*                                                                         *)
(* Every caller is a process with its own connection to the database.  A   *)
(* write is a transaction opened with BEGIN IMMEDIATE (one writer at a     *)
(* time, `writer'), whose statements build `work' and whose COMMIT makes   *)
(* it the durable `db'.  With the rollback journal a COMMIT that changes   *)
(* rows needs every reader gone.  SQLITE_BUSY, at BEGIN or at COMMIT, is   *)
(* retried BusyRetries times.  A process may crash at any point, its       *)
(* context may be cancelled at any point, and it may crash after COMMIT    *)
(* and before its caller hears of it.                                      *)
(*                                                                         *)
(* The clock is read once per call, before the transaction; nothing makes  *)
(* it monotonic, so every call reads any member of Time.                   *)
(***************************************************************************)
EXTENDS LedgerRecords

CONSTANTS
  Proc,            \* callers
  Requests,        \* the calls they may make
  InitialLedgers,  \* the ledgers an earlier session may have left
  BusyRetries,     \* busyRetries of a Store
  MaxCalls         \* bound: calls per process

\* The calls of the store's interface.
StartRequest == [op : {"StartRun"}, run : RunID, event : EventID, start : Start]
CloseRequest == [op : {"CloseRun"}, run : RunID, event : EventID, close : Close]
FindingRequest == [op : {"AddFinding"}, finding : FindingID, origin : RunID,
                   content : Content]
ClosureRequest == [op : {"CloseFinding"}, finding : FindingID, closure : ClosureID,
                   disposition : Dispositions, resolving : RunID \cup {NULL},
                   content : Content]
ReceiptRequest == [op : {"ProjectReceipt"}, run : RunID]
ShowRequest == [op : {"ShowFinding"}, finding : FindingID]

WriteRequest == StartRequest \cup CloseRequest \cup FindingRequest \cup ClosureRequest
ReadRequest == ReceiptRequest \cup ShowRequest

IsWrite(q) == q.op \in {"StartRun", "CloseRun", "AddFinding", "CloseFinding"}

ASSUME StoreConstants ==
  /\ \A q \in Requests : q \in WriteRequest \/ q \in ReadRequest
  /\ \A t \in InitialLedgers : IsLedger(t) /\ Doctor(t)
  /\ NULL \notin Proc
  /\ BusyRetries \in Nat /\ MaxCalls \in Nat

VARIABLES
  db,       \* the committed ledger
  work,     \* the ledger as the open write transaction sees it
  writer,   \* the process inside a write transaction, or NULL
  readers,  \* processes inside a read transaction
  pc,       \* where each process is in its call
  req,      \* the call it makes
  now,      \* the clock reading of that call
  attempt,  \* retries used
  outcome,  \* the answer it is about to give
  seen,     \* what a read has read so far
  calls,    \* calls made
  acked     \* calls whose caller was told they succeeded

transaction == <<db, work, writer>>
call == <<req, now, calls>>
vars == <<db, work, writer, readers, pc, req, now, attempt, outcome, seen, calls, acked>>

Locations == {"idle", "begin", "statement", "second", "commit",
              "read", "events", "origin", "resolving", "reply"}
Answers == {"ok", "ErrNotFound", "ErrConflict", "ErrOpen", "ErrInvalid", "ErrBusy",
            "busy", "constraint", "canceled", "inconsistent"}

InTransaction == {"statement", "second", "commit"}

Init ==
  /\ db \in InitialLedgers
  /\ work = db
  /\ writer = NULL
  /\ readers = {}
  /\ pc = [p \in Proc |-> "idle"]
  /\ req = [p \in Proc |-> NULL]
  /\ now = [p \in Proc |-> NULL]
  /\ attempt = [p \in Proc |-> 0]
  /\ outcome = [p \in Proc |-> "ok"]
  /\ seen = [p \in Proc |-> NULL]
  /\ calls = [p \in Proc |-> 0]
  /\ acked = {}

-----------------------------------------------------------------------------
(* What the ledger already holds of a call, and what the call may do.      *)

AlreadyStarted(t, q) ==
  /\ q.run \in DOMAIN t.runs
  /\ t.runs[q.run].start = q.start
  /\ t.runs[q.run].startEvent = q.event
  /\ q.event \in EventsOf(t, q.run)
  /\ t.events[q.event] = StartEvent(q.run, q.start, t.events[q.event].recordedAt)

AlreadyClosed(t, q) ==
  /\ IsClosed(t, q.run)
  /\ t.runs[q.run].close = q.close
  /\ t.runs[q.run].terminalEvent = q.event
  /\ q.event \in EventsOf(t, q.run)
  /\ t.events[q.event].kind = "run.terminal" /\ t.events[q.event].terminal
  /\ t.events[q.event].payload = q.close

AlreadyAdded(t, q) ==
  /\ q.finding \in DOMAIN t.findings
  /\ t.findings[q.finding].origin = q.origin
  /\ t.findings[q.finding].content = q.content

ClosuresOf(t, finding) == {c \in DOMAIN t.closures : t.closures[c].finding = finding}

AlreadyResolved(t, q) ==
  /\ q.closure \in ClosuresOf(t, q.finding)
  /\ t.closures[q.closure].disposition = q.disposition
  /\ t.closures[q.closure].resolving = q.resolving
  /\ t.closures[q.closure].content = q.content

\* Mutant: a start is never repeatable.
StartRunVerdictOnce(t, q) ==
  IF q.run \in DOMAIN t.runs \/ q.event \in DOMAIN t.events
  THEN "ErrConflict" ELSE "insert"

\* The checks of each operation, in the order of its early returns.
StartRunVerdict(t, q) ==
  IF q.run \in DOMAIN t.runs
  THEN IF AlreadyStarted(t, q) THEN "repeat" ELSE "ErrConflict"
  ELSE IF q.event \in DOMAIN t.events THEN "ErrConflict" ELSE "insert"

\* Mutant: any close of a closed run counts as a repetition.
CloseRunVerdictLax(t, q) ==
  IF q.run \notin DOMAIN t.runs THEN "ErrNotFound"
  ELSE IF t.runs[q.run].state = "closed" THEN "repeat" ELSE "insert"

CloseRunVerdict(t, q) ==
  IF q.run \notin DOMAIN t.runs THEN "ErrNotFound"
  ELSE IF q.close.endedAt < t.runs[q.run].start.startedAt THEN "ErrInvalid"
  ELSE IF t.runs[q.run].state = "closed"
       THEN IF AlreadyClosed(t, q) THEN "repeat" ELSE "ErrConflict"
       ELSE IF q.event \in DOMAIN t.events THEN "ErrConflict" ELSE "insert"

\* Mutant: the origin run may be open.
AddFindingVerdictOpen(t, q) ==
  IF q.finding \in DOMAIN t.findings
  THEN IF AlreadyAdded(t, q) THEN "repeat" ELSE "ErrConflict"
  ELSE IF q.origin \notin DOMAIN t.runs THEN "ErrNotFound" ELSE "insert"

AddFindingVerdict(t, q) ==
  IF q.finding \in DOMAIN t.findings
  THEN IF AlreadyAdded(t, q) THEN "repeat" ELSE "ErrConflict"
  ELSE IF q.origin \notin DOMAIN t.runs THEN "ErrNotFound"
  ELSE IF t.runs[q.origin].state # "closed" THEN "ErrOpen" ELSE "insert"

CloseFindingVerdict(t, q) ==
  IF q.finding \notin DOMAIN t.findings THEN "ErrNotFound"
  ELSE IF ClosuresOf(t, q.finding) # {}
       THEN IF AlreadyResolved(t, q) THEN "repeat" ELSE "ErrConflict"
  ELSE IF q.disposition # "resolved" THEN "insert"
  ELSE IF q.resolving \notin DOMAIN t.runs THEN "ErrNotFound"
  ELSE IF Succeeded(t, q.resolving) THEN "insert" ELSE "ErrInvalid"

Verdict(t, q) ==
  CASE q.op = "StartRun" -> StartRunVerdict(t, q)
    [] q.op = "CloseRun" -> CloseRunVerdict(t, q)
    [] q.op = "AddFinding" -> AddFindingVerdict(t, q)
    [] q.op = "CloseFinding" -> CloseFindingVerdict(t, q)

\* The arguments each operation accepts before it touches the database.
ValidRequest(q) ==
  /\ q.op = "StartRun" => validateStartRun(q.start)
  /\ q.op = "CloseRun" => validateClose(q.close)
  /\ q.op = "CloseFinding" => validateFindingDisposition(q.disposition, q.resolving)

-----------------------------------------------------------------------------
(* Steps every operation shares.                                           *)

Goto(p, location) == pc' = [pc EXCEPT ![p] = location]

\* The call gets its answer; the caller has not heard of it yet.
Answer(p, answer) ==
  /\ outcome' = [outcome EXCEPT ![p] = answer]
  /\ Goto(p, "reply")

\* Mutant: a failed operation leaves its transaction open.
RollbackForgotten(p) == UNCHANGED <<db, work, writer>>

\* Rollback, if p is the writer: the transaction leaves nothing behind.
Rollback(p) ==
  /\ UNCHANGED db
  /\ work' = IF writer = p THEN db ELSE work
  /\ writer' = IF writer = p THEN NULL ELSE writer

Call(p) ==
  /\ pc[p] = "idle"
  /\ calls[p] < MaxCalls
  /\ calls' = [calls EXCEPT ![p] = @ + 1]
  /\ \E q \in Requests :
       /\ req' = [req EXCEPT ![p] = q]
       /\ IF IsWrite(q)
          THEN \E t \in Time : now' = [now EXCEPT ![p] = t]
          ELSE now' = [now EXCEPT ![p] = NULL]
       /\ IF ~ ValidRequest(q)
          THEN Answer(p, "ErrInvalid")
          ELSE /\ Goto(p, IF IsWrite(q) THEN "begin" ELSE "read")
               /\ UNCHANGED outcome
  /\ UNCHANGED <<transaction, readers, attempt, seen, acked>>

\* The variables of a call end with it.
Forget(p) ==
  /\ Goto(p, "idle")
  /\ req' = [req EXCEPT ![p] = NULL]
  /\ now' = [now EXCEPT ![p] = NULL]
  /\ attempt' = [attempt EXCEPT ![p] = 0]
  /\ outcome' = [outcome EXCEPT ![p] = "ok"]
  /\ seen' = [seen EXCEPT ![p] = NULL]
  /\ UNCHANGED calls

\* The caller hears the answer.
Return(p) ==
  /\ pc[p] = "reply"
  /\ Forget(p)
  /\ acked' = IF outcome[p] = "ok" /\ IsWrite(req[p]) THEN acked \cup {req[p]} ELSE acked
  /\ UNCHANGED <<transaction, readers>>

\* The process dies.  Its locks go with it; an unfinished transaction is
\* rolled back from the journal by the next process that reads.
Crash(p) ==
  /\ pc[p] # "idle"
  /\ Forget(p)
  /\ Rollback(p)
  /\ readers' = readers \ {p}
  /\ UNCHANGED acked

\* The context is done before the call has finished its work.
Cancel(p) ==
  /\ pc[p] \notin {"idle", "reply"}
  /\ Answer(p, "canceled")
  /\ Rollback(p)
  /\ readers' = readers \ {p}
  /\ UNCHANGED <<call, attempt, seen, acked>>

-----------------------------------------------------------------------------
(* The write loop.                                                         *)

\* Mutant: BEGIN does not take the write lock.
BeginDeferred(p) ==
  /\ pc[p] = "begin"
  /\ writer' = p
  /\ Goto(p, "statement")
  /\ UNCHANGED <<db, work, readers, call, attempt, outcome, seen, acked>>

\* BEGIN IMMEDIATE
Begin(p) ==
  /\ pc[p] = "begin"
  /\ writer = NULL
  /\ writer' = p
  /\ Goto(p, "statement")
  /\ UNCHANGED <<db, work, readers, call, attempt, outcome, seen, acked>>

\* Mutant: one retry too many.
BusyOnceMore(p) ==
  /\ IF attempt[p] > BusyRetries
     THEN Answer(p, "ErrBusy") /\ UNCHANGED attempt
     ELSE /\ Goto(p, "begin")
          /\ attempt' = [attempt EXCEPT ![p] = @ + 1]
          /\ UNCHANGED outcome
  /\ Rollback(p)
  /\ UNCHANGED <<readers, call, seen, acked>>

\* SQLITE_BUSY: sleep and try again, until the retries are used up.
Busy(p) ==
  /\ IF attempt[p] = BusyRetries
     THEN Answer(p, "ErrBusy") /\ UNCHANGED attempt
     ELSE /\ Goto(p, "begin")
          /\ attempt' = [attempt EXCEPT ![p] = @ + 1]
          /\ UNCHANGED outcome
  /\ Rollback(p)
  /\ UNCHANGED <<readers, call, seen, acked>>

BeginBusy(p) ==
  /\ pc[p] = "begin"
  /\ writer # NULL
  /\ Busy(p)

\* The operation returns an error, so write rolls back and returns it.
Abort(p, answer) ==
  /\ Answer(p, answer)
  /\ Rollback(p)
  /\ UNCHANGED <<readers, call, attempt, seen, acked>>

\* Mutant: the statement runs outside the transaction.
ExecuteAutocommit(p, admitted, t, next) ==
  IF admitted
  THEN /\ db' = t
       /\ work' = t
       /\ Goto(p, next)
       /\ UNCHANGED <<writer, readers, call, attempt, outcome, seen, acked>>
  ELSE Abort(p, "constraint")

\* A statement the schema admits changes the transaction's ledger to t.
Execute(p, admitted, t, next) ==
  IF admitted
  THEN /\ work' = t
       /\ Goto(p, next)
       /\ UNCHANGED <<db, writer, readers, call, attempt, outcome, seen, acked>>
  ELSE Abort(p, "constraint")

Refuse(p) ==
  /\ pc[p] = "statement"
  /\ Verdict(work, req[p]) \notin {"repeat", "insert"}
  /\ Abort(p, Verdict(work, req[p]))

\* The ledger already holds this very request: nothing to write.
Repeat(p) ==
  /\ pc[p] = "statement"
  /\ Verdict(work, req[p]) = "repeat"
  /\ Execute(p, TRUE, work, "commit")

Inserts(p, op) ==
  /\ pc[p] = "statement"
  /\ req[p].op = op
  /\ Verdict(work, req[p]) = "insert"

\* COMMIT.  A transaction that wrote nothing needs no exclusive lock.
Commit(p) ==
  /\ pc[p] = "commit"
  /\ readers = {} \/ work = db
  /\ IF DeferredKeysHold(work)
     THEN /\ db' = work
          /\ writer' = NULL
          /\ Answer(p, "ok")
          /\ UNCHANGED <<work, readers, call, attempt, seen, acked>>
     ELSE Abort(p, "constraint")

CommitBusy(p) ==
  /\ pc[p] = "commit"
  /\ readers # {} /\ work # db
  /\ Busy(p)

-----------------------------------------------------------------------------
(* The statements of each write.                                           *)

InsertRun(p) ==
  /\ Inserts(p, "StartRun")
  /\ LET q == req[p]
         row == OpenRun(q.start, q.event, now[p])
     IN Execute(p, MayInsertRun(work, q.run, row),
                [work EXCEPT !.runs = Put(@, q.run, row)], "second")

InsertStartEvent(p) ==
  /\ pc[p] = "second" /\ req[p].op = "StartRun"
  /\ LET q == req[p]
         row == StartEvent(q.run, q.start, now[p])
     IN Execute(p, MayInsertEvent(work, q.event, row),
                [work EXCEPT !.events = Put(@, q.event, row)], "commit")

InsertTerminalEvent(p) ==
  /\ Inserts(p, "CloseRun")
  /\ LET q == req[p]
         row == TerminalEvent(q.run, LastSequence(work, q.run) + 1, q.close, now[p])
     IN Execute(p, MayInsertEvent(work, q.event, row),
                [work EXCEPT !.events = Put(@, q.event, row)], "second")

UpdateRun(p) ==
  /\ pc[p] = "second" /\ req[p].op = "CloseRun"
  /\ LET q == req[p]
         row == ClosedRun(work.runs[q.run], q.close, q.event, now[p])
     IN Execute(p, MayUpdateRun(work, q.run, row),
                [work EXCEPT !.runs = Put(@, q.run, row)], "commit")

InsertFinding(p) ==
  /\ Inserts(p, "AddFinding")
  /\ LET q == req[p]
         row == [origin |-> q.origin, content |-> q.content, recordedAt |-> now[p]]
     IN Execute(p, MayInsertFinding(work, q.finding, row),
                [work EXCEPT !.findings = Put(@, q.finding, row)], "commit")

InsertClosure(p) ==
  /\ Inserts(p, "CloseFinding")
  /\ LET q == req[p]
         row == [finding |-> q.finding, disposition |-> q.disposition,
                 resolving |-> q.resolving, content |-> q.content,
                 recordedAt |-> now[p]]
     IN Execute(p, MayInsertClosure(work, q.closure, row),
                [work EXCEPT !.closures = Put(@, q.closure, row)], "commit")

-----------------------------------------------------------------------------
(* Reads.                                                                  *)

Reading(p, location, op) == pc[p] = location /\ req[p].op = op

ReadTo(p, location, value) ==
  /\ Goto(p, location)
  /\ seen' = [seen EXCEPT ![p] = value]
  /\ UNCHANGED <<transaction, call, attempt, outcome, acked>>

ReadAnswer(p, answer) ==
  /\ Answer(p, answer)
  /\ readers' = readers \ {p}
  /\ UNCHANGED <<transaction, call, attempt, seen, acked>>

\* A writer waiting to commit admits no new reader; reads are not retried.
ReadBusy(p) ==
  /\ pc[p] \in {"read", "origin", "resolving"}
  /\ writer # NULL
  /\ pc[writer] = "commit" /\ work # db
  /\ ReadAnswer(p, "busy")

\* Mutant: the two SELECTs are not in one transaction.
SnapshotRunAlone(p) ==
  /\ Reading(p, "read", "ProjectReceipt")
  /\ LET run == req[p].run IN
     IF run \in DOMAIN db.runs
     THEN ReadTo(p, "events", db.runs[run]) /\ UNCHANGED readers
     ELSE ReadAnswer(p, "ErrNotFound")

\* Snapshot: the first SELECT takes the shared lock of the read transaction.
SnapshotRun(p) ==
  /\ Reading(p, "read", "ProjectReceipt")
  /\ LET run == req[p].run IN
     IF run \in DOMAIN db.runs
     THEN /\ readers' = readers \cup {p}
          /\ ReadTo(p, "events", db.runs[run])
     ELSE ReadAnswer(p, "ErrNotFound")

SnapshotEvents(p) ==
  /\ Reading(p, "events", "ProjectReceipt")
  /\ LET run == req[p].run
         row == seen[p]
     IN ReadAnswer(p, IF row.state # "closed" THEN "ErrOpen"
                      ELSE IF validateSnapshotConsistency(run, row, listEvents(db, run))
                           THEN "ok" ELSE "inconsistent")

\* Mutant: the closure's own ID is taken for the resolving run's.
ShowFindingWrongColumn(p) ==
  /\ Reading(p, "read", "ShowFinding")
  /\ LET finding == req[p].finding IN
     IF finding \in DOMAIN db.findings
     THEN /\ ReadTo(p, "origin", [origin |-> db.findings[finding].origin,
                                  resolving |-> ClosuresOf(db, finding)])
          /\ UNCHANGED readers
     ELSE ReadAnswer(p, "ErrNotFound")

\* finding show reads the finding with its closure, then each linked run,
\* in queries of their own.
ShowFinding(p) ==
  /\ Reading(p, "read", "ShowFinding")
  /\ LET finding == req[p].finding IN
     IF finding \in DOMAIN db.findings
     THEN /\ ReadTo(p, "origin", [origin |-> db.findings[finding].origin,
                                  resolving |-> {db.closures[c].resolving :
                                                   c \in ClosuresOf(db, finding)} \ {NULL}])
          /\ UNCHANGED readers
     ELSE ReadAnswer(p, "ErrNotFound")

ShowOriginRun(p) ==
  /\ Reading(p, "origin", "ShowFinding")
  /\ IF seen[p].origin \notin DOMAIN db.runs THEN ReadAnswer(p, "inconsistent")
     ELSE IF seen[p].resolving = {} THEN ReadAnswer(p, "ok")
     ELSE ReadTo(p, "resolving", seen[p]) /\ UNCHANGED readers

ShowResolvingRun(p) ==
  /\ Reading(p, "resolving", "ShowFinding")
  /\ ReadAnswer(p, IF seen[p].resolving \subseteq DOMAIN db.runs
                   THEN "ok" ELSE "inconsistent")

-----------------------------------------------------------------------------
\* The steps a process takes once a call has begun.
Advance(p) ==
  \/ Begin(p) \/ BeginBusy(p) \/ Refuse(p) \/ Repeat(p)
  \/ InsertRun(p) \/ InsertStartEvent(p)
  \/ InsertTerminalEvent(p) \/ UpdateRun(p)
  \/ InsertFinding(p) \/ InsertClosure(p)
  \/ Commit(p) \/ CommitBusy(p)
  \/ SnapshotRun(p) \/ SnapshotEvents(p) \/ ReadBusy(p)
  \/ ShowFinding(p) \/ ShowOriginRun(p) \/ ShowResolvingRun(p)
  \/ Return(p)

Next == \E p \in Proc : Call(p) \/ Advance(p) \/ Cancel(p) \/ Crash(p)

Spec == Init /\ [][Next]_vars

\* The scheduler runs every process whose call is under way.
FairSpec == Spec /\ \A p \in Proc : WF_vars(Advance(p))

-----------------------------------------------------------------------------
(* Properties.                                                             *)

TypeOK ==
  /\ IsLedger(db)
  /\ IsLedger(work)
  /\ writer \in Proc \cup {NULL}
  /\ readers \subseteq Proc
  /\ pc \in [Proc -> Locations]
  /\ req \in [Proc -> Requests \cup {NULL}]
  /\ now \in [Proc -> Time \cup {NULL}]
  /\ attempt \in [Proc -> 0..BusyRetries]
  /\ outcome \in [Proc -> Answers]
  /\ calls \in [Proc -> 0..MaxCalls]
  /\ acked \subseteq Requests

\* Every committed ledger passes every row check of `motus doctor', whatever
\* interleaving, retry, cancellation or crash produced it.
DoctorFindsNothing == Doctor(db)

\* What a caller was told is recorded is recorded, and stays: the ledger
\* holds exactly the request that StartRun, CloseRun, AddFinding or
\* CloseFinding confirmed.
Recorded(t, q) ==
  CASE q.op = "StartRun" -> AlreadyStarted(t, q)
    [] q.op = "CloseRun" -> AlreadyClosed(t, q)
    [] q.op = "AddFinding" -> AlreadyAdded(t, q)
    [] q.op = "CloseFinding" -> AlreadyResolved(t, q)

AcknowledgedIsRecorded == \A q \in acked : Recorded(db, q)

\* A Snapshot is one read transaction: whatever commits are attempted while
\* it is open, the events it is about to read tell the same story as the run
\* it has read, open or closed.
SnapshotsAgree ==
  \A p \in Proc :
    pc[p] = "events" =>
      validateSnapshotConsistency(req[p].run, seen[p], listEvents(db, req[p].run))

\* `finding show' is three reads, with writers in between: once the finding
\* is found, the runs it links to are found as well.
LinksResolve == \A p \in Proc : outcome[p] # "inconsistent"

\* The schema overrules the code in two cases only: the clock stepped back
\* between the start and the close of a run (updated_at >= created_at), or a
\* closure ID is reused for another finding (primary key).  Every other
\* CHECK, key and trigger restates what the Go code has already decided.
SchemaAgreesWithCode ==
  \A p \in Proc :
    pc[p] = "reply" /\ outcome[p] = "constraint" =>
      \/ /\ req[p].op = "CloseRun"
         /\ now[p] < db.runs[req[p].run].createdAt
      \/ /\ req[p].op = "CloseFinding"
         /\ req[p].closure \in DOMAIN db.closures
         /\ db.closures[req[p].closure].finding # req[p].finding

\* One ledger extends another: a run keeps its start record and start event,
\* a closed run keeps its receipt to the last field (findings added to it
\* included), events, findings and closures are never changed or removed.
Extends(old, new) ==
  /\ \A r \in DOMAIN old.runs :
       /\ r \in DOMAIN new.runs
       /\ new.runs[r].start = old.runs[r].start
       /\ new.runs[r].startEvent = old.runs[r].startEvent
       /\ new.runs[r].createdAt = old.runs[r].createdAt
       /\ old.runs[r].state = "closed" => ProjectReceipt(new, r) = ProjectReceipt(old, r)
  /\ \A e \in DOMAIN old.events : e \in DOMAIN new.events /\ new.events[e] = old.events[e]
  /\ \A f \in DOMAIN old.findings :
       f \in DOMAIN new.findings /\ new.findings[f] = old.findings[f]
  /\ \A c \in DOMAIN old.closures :
       c \in DOMAIN new.closures /\ new.closures[c] = old.closures[c]

\* History only grows, whatever a step does.
AppendOnly == [][Extends(db, db')]_vars

\* A retry of a write that took effect, by any process and after a crash or
\* a lost answer, is never refused: StartRun, CloseRun, AddFinding and
\* CloseFinding are idempotent in their whole request.
Refusals == {"ErrConflict", "ErrNotFound", "ErrOpen", "ErrInvalid", "constraint"}

RetryNeverRefused ==
  [][\A p \in Proc :
       pc[p] # "reply" /\ pc'[p] = "reply" /\ IsWrite(req'[p]) /\ Recorded(db, req'[p])
         => outcome'[p] \notin Refusals]_vars

\* Every call that is not cut short by a crash ends, and a process that is
\* done holds no lock: the retries are bounded and every error path rolls
\* back, so no caller leaves the ledger locked for the others.
CallsSettle ==
  \A p \in Proc :
    pc[p] # "idle" ~> pc[p] = "idle" /\ writer # p /\ p \notin readers

-----------------------------------------------------------------------------
(* The store keeps LedgerPromise: each call changes the committed ledger   *)
(* in one indivisible step, at its COMMIT, or not at all.                  *)

closedRuns(t) == {r \in DOMAIN t.runs : t.runs[r].state = "closed"}
settledFindings(t) == {t.closures[c].finding : c \in DOMAIN t.closures}

settlement(t, finding) ==
  LET c == CHOOSE d \in ClosuresOf(t, finding) : TRUE
  IN [resolving |-> {t.closures[c].resolving} \ {NULL}, content |-> t.closures[c].content]

Promised == INSTANCE LedgerPromise WITH
  Run <- RunID, Finding <- FindingID,
  EndsBefore <- LAMBDA c, s : c.endedAt < s.startedAt,
  IsSuccess <- LAMBDA c : c.outcome = "success",
  started <- [r \in DOMAIN db.runs |-> db.runs[r].start],
  ended <- [r \in closedRuns(db) |-> db.runs[r].close],
  reported <- [f \in DOMAIN db.findings |->
                 [origin |-> db.findings[f].origin, content |-> db.findings[f].content]],
  settled <- [f \in settledFindings(db) |-> settlement(db, f)]

\* Every behaviour of the store, with its transactions, retries and crashes,
\* is a behaviour of the atomic ledger.
KeepsPromise == Promised!Spec
=============================================================================
