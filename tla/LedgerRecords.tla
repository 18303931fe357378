--------------------------- MODULE LedgerRecords ---------------------------
(***************************************************************************)
(* The rows of a Motus ledger and the rules they obey (internal/store).    *)
(*                                                                         *)
(* A ledger is a record of four tables, each a function from its key to    *)
(* its row: runs, events (keyed by the UNIQUE id), findings and closures.  *)
(* Two columns groups are kept as one value each: `start' stands for the   *)
(* start metadata of a run (started_at and the opaque rest, meta) and      *)
(* `close' for its terminal metadata (ended_at ... stderr_lines).  The     *)
(* canonical payload of an event is that same group, so "the payload       *)
(* matches the run" is an equality.  The four output counters are one      *)
(* pair [bytes, lines]: the code treats both streams alike.                *)
(*                                                                         *)
(* The module states three rule layers over those rows: what the Go code   *)
(* validates, what the SQL schema (CHECKs, keys, triggers) admits for one  *)
(* statement, and what `motus doctor' requires of a whole ledger.          *)
(***************************************************************************)
EXTENDS Integers, FiniteSetsExt, Functions

CONSTANTS
  RunID, EventID, FindingID, ClosureID,  \* caller-chosen identifiers
  Meta,       \* source, producer, executable, argument count, Git metadata
  ValidMeta,  \* the members of Meta that validateStartRun accepts
  Content,    \* canonical finding and closure contents
  Signal,     \* signal names
  Time,       \* wall-clock readings, as fixed-width UTC text in the database
  NULL        \* an absent optional value

Outcomes == {"success", "failure", "aborted"}
Dispositions == {"resolved", "dismissed"}

Counts == [bytes : Int, lines : Int]
NoOutput == [bytes |-> 0, lines |-> 0]

Start == [startedAt : Time, meta : Meta]
Close == [endedAt : Time, outcome : Outcomes, exitCode : Int \cup {NULL},
          signal : Signal \cup {NULL}, timedOut : BOOLEAN \cup {NULL},
          output : Counts]

Run == [state : {"open", "closed"}, start : Start, startEvent : EventID,
        createdAt : Time, updatedAt : Time,
        close : Close \cup {NULL}, terminalEvent : EventID \cup {NULL}]
Event == [run : RunID, sequence : Nat, kind : {"run.started", "run.terminal"},
          terminal : BOOLEAN, payload : Start \cup Close, recordedAt : Time]
Finding == [origin : RunID, content : Content, recordedAt : Time]
Closure == [finding : FindingID, disposition : Dispositions,
            resolving : RunID \cup {NULL}, content : Content, recordedAt : Time]

ASSUME RecordConstants ==
  /\ Time \subseteq Nat
  /\ ValidMeta \subseteq Meta
  /\ NULL \notin RunID \cup EventID \cup Signal \cup Close

\* A table maps the keys present to rows.
IsTable(table, keys, rows) ==
  /\ DOMAIN table \subseteq keys
  /\ table \in [DOMAIN table -> rows]

IsLedger(t) ==
  /\ t = [runs |-> t.runs, events |-> t.events,
          findings |-> t.findings, closures |-> t.closures]
  /\ IsTable(t.runs, RunID, Run)
  /\ IsTable(t.events, EventID, Event)
  /\ IsTable(t.findings, FindingID, Finding)
  /\ IsTable(t.closures, ClosureID, Closure)

EmptyTable == [key \in {} |-> NULL]
EmptyLedger == [runs |-> EmptyTable, events |-> EmptyTable,
                findings |-> EmptyTable, closures |-> EmptyTable]

\* INSERT, and UPDATE of the row with that key.
Put(table, key, row) ==
  [k \in DOMAIN table \cup {key} |-> IF k = key THEN row ELSE table[k]]

-----------------------------------------------------------------------------
(* The Go layer: what the store validates before it opens a transaction.   *)

validateStartRun(start) == start.meta \in ValidMeta

\* Mutant: newline counts are not compared with byte counts.
validateCloseUncounted(c) ==
  /\ c.output.bytes >= 0
  /\ c.output.lines >= 0
  /\ c.exitCode # NULL => c.exitCode >= 0
  /\ c.outcome = "success" =>
       c.exitCode = 0 /\ c.signal = NULL /\ c.timedOut # TRUE
  /\ c.timedOut = TRUE => c.outcome = "aborted"

validateClose(c) ==
  /\ c.output.bytes >= 0
  /\ c.output.lines >= 0
  /\ c.output.lines <= c.output.bytes
  /\ c.exitCode # NULL => c.exitCode >= 0
  /\ c.outcome = "success" =>
       c.exitCode = 0 /\ c.signal = NULL /\ c.timedOut # TRUE
  /\ c.timedOut = TRUE => c.outcome = "aborted"

validateFindingDisposition(disposition, resolving) ==
  (disposition = "resolved") <=> (resolving # NULL)

\* The rows the four operations write.
OpenRun(start, event, now) ==
  [state |-> "open", start |-> start, startEvent |-> event,
   createdAt |-> now, updatedAt |-> now, close |-> NULL, terminalEvent |-> NULL]

StartEvent(run, start, now) ==
  [run |-> run, sequence |-> 1, kind |-> "run.started", terminal |-> FALSE,
   payload |-> start, recordedAt |-> now]

TerminalEvent(run, sequence, c, now) ==
  [run |-> run, sequence |-> sequence, kind |-> "run.terminal", terminal |-> TRUE,
   payload |-> c, recordedAt |-> now]

ClosedRun(row, c, event, now) ==
  [row EXCEPT !.state = "closed", !.close = c, !.terminalEvent = event,
              !.updatedAt = now]

EventsOf(t, run) == {e \in DOMAIN t.events : t.events[e].run = run}

\* COALESCE(MAX(sequence), 0) over the events of a run
LastSequence(t, run) == Max({0} \cup {t.events[e].sequence : e \in EventsOf(t, run)})

\* SELECT ... FROM events WHERE run_id = ? (ORDER BY is the sequence column)
listEvents(t, run) == Restrict(t.events, EventsOf(t, run))

-----------------------------------------------------------------------------
(* The SQL layer: what one statement may do.  A CHECK fails only when it   *)
(* is false, so a NULL exit code passes the success CHECK.                 *)

RunChecks(row) ==
  /\ row.updatedAt >= row.createdAt
  /\ row.state = "open" => row.close = NULL /\ row.terminalEvent = NULL
  /\ row.state = "closed" => row.close # NULL /\ row.terminalEvent # NULL
  /\ row.close # NULL =>
       LET c == row.close IN
       /\ c.endedAt >= row.start.startedAt
       /\ c.exitCode # NULL => c.exitCode >= 0
       /\ c.output.bytes >= 0 /\ c.output.lines >= 0
       /\ c.output.lines <= c.output.bytes
       /\ c.outcome = "success" =>
            c.exitCode \in {0, NULL} /\ c.signal = NULL /\ c.timedOut # TRUE
       /\ c.timedOut = TRUE => c.outcome = "aborted"

MayInsertRun(t, run, row) ==
  /\ run \notin DOMAIN t.runs
  /\ RunChecks(row)

MayInsertEvent(t, event, row) ==
  /\ event \notin DOMAIN t.events
  /\ row.run \in DOMAIN t.runs
  /\ t.runs[row.run].state # "closed"
  /\ \A e \in EventsOf(t, row.run) : ~ t.events[e].terminal
  /\ row.sequence = LastSequence(t, row.run) + 1
  /\ row.terminal <=> row.kind = "run.terminal"
  /\ row.sequence = 1 => row.kind = "run.started"
  /\ row.sequence = 2 => row.kind = "run.terminal"
  /\ row.sequence <= 2

MayUpdateRun(t, run, row) ==
  LET old == t.runs[run] IN
  /\ RunChecks(row)
  /\ row.start = old.start /\ row.createdAt = old.createdAt
  /\ row.startEvent = old.startEvent
  /\ old.state = "closed" => row = old
  /\ row.state # old.state =>
       /\ row.terminalEvent \in EventsOf(t, run)
       /\ t.events[row.terminalEvent].terminal
       /\ t.events[row.terminalEvent].sequence = LastSequence(t, run)

IsClosed(t, run) == run \in DOMAIN t.runs /\ t.runs[run].state = "closed"

Succeeded(t, run) == IsClosed(t, run) /\ t.runs[run].close.outcome = "success"

MayInsertFinding(t, finding, row) ==
  /\ finding \notin DOMAIN t.findings
  /\ IsClosed(t, row.origin)

\* Mutant: INSERT OR REPLACE, so a closure ID may be used again.
MayReplaceClosure(t, closure, row) ==
  /\ \A c \in DOMAIN t.closures : t.closures[c].finding # row.finding
  /\ row.finding \in DOMAIN t.findings
  /\ validateFindingDisposition(row.disposition, row.resolving)
  /\ row.disposition = "resolved" => Succeeded(t, row.resolving)

MayInsertClosure(t, closure, row) ==
  /\ closure \notin DOMAIN t.closures
  /\ \A c \in DOMAIN t.closures : t.closures[c].finding # row.finding
  /\ row.finding \in DOMAIN t.findings
  /\ validateFindingDisposition(row.disposition, row.resolving)
  /\ row.disposition = "resolved" => Succeeded(t, row.resolving)

\* The deferred foreign keys of runs, checked by COMMIT.
DeferredKeysHold(t) ==
  \A r \in DOMAIN t.runs :
    /\ t.runs[r].startEvent \in EventsOf(t, r)
    /\ t.runs[r].terminalEvent # NULL => t.runs[r].terminalEvent \in EventsOf(t, r)

-----------------------------------------------------------------------------
(* The whole ledger: receipts and `motus doctor'.                          *)

validateRunProjection(row) ==
  /\ validateStartRun(row.start)
  /\ row.updatedAt >= row.createdAt
  /\ row.state = "open" => row.close = NULL /\ row.terminalEvent = NULL
  /\ row.state = "closed" =>
       /\ row.close # NULL /\ row.terminalEvent # NULL
       /\ row.close.endedAt >= row.start.startedAt
       /\ validateClose(row.close)

\* A run and the events read with it tell one story.
validateSnapshotConsistency(run, row, events) ==
  /\ validateRunProjection(row)
  /\ DOMAIN events = {row.startEvent} \cup
       (IF row.state = "closed" THEN {row.terminalEvent} ELSE {})
  /\ \A e \in DOMAIN events : events[e].run = run
  /\ LET first == events[row.startEvent] IN
       /\ first.sequence = 1 /\ first.kind = "run.started" /\ ~ first.terminal
       /\ first.payload = row.start
  /\ row.state = "closed" =>
       LET last == events[row.terminalEvent] IN
       /\ last.sequence = 2 /\ last.kind = "run.terminal" /\ last.terminal
       /\ last.payload = row.close

checkForeignKeys(t) ==
  /\ DeferredKeysHold(t)
  /\ \A e \in DOMAIN t.events : t.events[e].run \in DOMAIN t.runs
  /\ \A f \in DOMAIN t.findings : t.findings[f].origin \in DOMAIN t.runs
  /\ \A c \in DOMAIN t.closures :
       /\ t.closures[c].finding \in DOMAIN t.findings
       /\ t.closures[c].resolving \in DOMAIN t.runs \cup {NULL}

checkRunTerminalRecords(t) ==
  \A r \in DOMAIN t.runs :
    validateSnapshotConsistency(r, t.runs[r], listEvents(t, r))

checkFindingRecords(t) ==
  /\ \A f \in DOMAIN t.findings : IsClosed(t, t.findings[f].origin)
  /\ \A c \in DOMAIN t.closures :
       /\ validateFindingDisposition(t.closures[c].disposition, t.closures[c].resolving)
       /\ t.closures[c].disposition = "resolved" => Succeeded(t, t.closures[c].resolving)

\* The UNIQUE column that integrity_check verifies.
OneClosurePerFinding(t) ==
  \A c, d \in DOMAIN t.closures :
    t.closures[c].finding = t.closures[d].finding => c = d

\* Every check of `motus doctor' that reads rows.  (Contiguous sequences
\* follow from the terminal records: one or two events, numbered 1 and 2.)
Doctor(t) ==
  /\ checkForeignKeys(t)
  /\ checkRunTerminalRecords(t)
  /\ checkFindingRecords(t)
  /\ OneClosurePerFinding(t)

\* What a receipt shows of a closed run.
ProjectReceipt(t, run) == [run |-> t.runs[run], events |-> listEvents(t, run)]
=============================================================================
