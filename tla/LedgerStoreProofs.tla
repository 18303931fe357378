------------------------- MODULE LedgerStoreProofs -------------------------
(***************************************************************************)
(* The store keeps a sound, append-only ledger, for any set of processes,  *)
(* requests, retries and calls.                                            *)
(*                                                                         *)
(* The invariant IInv says, for each process, how far its transaction has  *)
(* got: at `second' the working ledger is the committed one with the first *)
(* statement's row, at `commit' it is sound, extends the committed ledger  *)
(* and holds the request.  COMMIT then publishes exactly that.  The lemmas *)
(* ...Step prove the shapes a step can have, ...Steps the actions.         *)
(*                                                                         *)
(* First come the write operations, one ledger at a time and without a     *)
(* variable: what StartRun, CloseRun, AddFinding and CloseFinding make of  *)
(* a sound ledger, as a whole (the ...Keeps lemmas) and statement by       *)
(* statement (Begin..., End..., ...IsDone).                                *)
(***************************************************************************)
EXTENDS LedgerStore, TLAPS

-----------------------------------------------------------------------------
(* What the operations make of a ledger.                                   *)

\* A ledger written out by its tables.

Tables(runs, events, findings, closures) ==
  [runs |-> runs, events |-> events, findings |-> findings, closures |-> closures]

\* Well typed, and `motus doctor' finds nothing.
Sound(t) == IsLedger(t) /\ Doctor(t)

\* What the transaction and the CHECK on updated_at establish of a close.
EndsInTime(t, q, n) ==
  /\ q.close.endedAt >= t.runs[q.run].start.startedAt
  /\ n >= t.runs[q.run].createdAt

\* A statement that adds rows and leaves findings and closures alone keeps
\* every reference `motus doctor' follows.
LEMMA LinksKept ==
  ASSUME NEW t, NEW u, checkForeignKeys(t), DeferredKeysHold(u),
         DOMAIN t.runs \subseteq DOMAIN u.runs,
         u.findings = t.findings, u.closures = t.closures,
         \A e \in DOMAIN u.events : u.events[e].run \in DOMAIN u.runs
  PROVE  checkForeignKeys(u)
BY DEF checkForeignKeys

\* While findings and closures stay, and no closed or successful run stops
\* being so, the checks on findings still pass.
LEMMA FindingsKept ==
  ASSUME NEW t, NEW u, Doctor(t), u.findings = t.findings, u.closures = t.closures,
         \A r : (IsClosed(t, r) => IsClosed(u, r)) /\ (Succeeded(t, r) => Succeeded(u, r))
  PROVE  checkFindingRecords(u) /\ OneClosurePerFinding(u)
BY DEF Doctor, checkFindingRecords, OneClosurePerFinding

\* A row of a table has a key and a value of the table's types.
LEMMA StoredRow ==
  ASSUME NEW K, NEW S, NEW table, IsTable(table, K, S), NEW key \in DOMAIN table
  PROVE  key \in K /\ table[key] \in S
BY DEF IsTable

\* A statement that replaces one table of a ledger leaves the other three.
LEMMA Columns ==
  ASSUME NEW t, IsLedger(t), NEW x
  PROVE  /\ [t EXCEPT !.runs = x] = Tables(x, t.events, t.findings, t.closures)
         /\ [t EXCEPT !.events = x] = Tables(t.runs, x, t.findings, t.closures)
         /\ [t EXCEPT !.findings = x] = Tables(t.runs, t.events, x, t.closures)
         /\ [t EXCEPT !.closures = x] = Tables(t.runs, t.events, t.findings, x)
BY DEF IsLedger, Tables

\* Reading back the table just written.
LEMMA TablesFields ==
  ASSUME NEW a, NEW b, NEW c, NEW d
  PROVE  /\ Tables(a, b, c, d).runs = a
         /\ Tables(a, b, c, d).events = b
         /\ Tables(a, b, c, d).findings = c
         /\ Tables(a, b, c, d).closures = d
BY DEF Tables

\* The fields of a start event.
LEMMA StartEventFields ==
  ASSUME NEW r, NEW p, NEW n, NEW e, e = StartEvent(r, p, n)
  PROVE  /\ e.run = r /\ e.sequence = 1 /\ e.payload = p
         /\ e.kind = "run.started" /\ ~ e.terminal
BY DEF StartEvent

\* StartRun: inserting a new run with its start event keeps a sound ledger
\* sound, changes nothing it held, and records the request.
LEMMA StartKeeps ==
  ASSUME NEW t, Sound(t), NEW q \in StartRequest, NEW n \in Time,
         ValidRequest(q), q.run \notin DOMAIN t.runs, q.event \notin DOMAIN t.events,
         NEW u,
         u = Tables(Put(t.runs, q.run, OpenRun(q.start, q.event, n)),
                    Put(t.events, q.event, StartEvent(q.run, q.start, n)),
                    t.findings, t.closures)
  PROVE  Sound(u) /\ Extends(t, u) /\ AlreadyStarted(u, q)
<1> DEFINE row == OpenRun(q.start, q.event, n)
           ev == StartEvent(q.run, q.start, n)
<1>q. /\ q.run \in RunID /\ q.event \in EventID /\ q.start \in Start
      /\ q.op = "StartRun"
  BY DEF StartRequest
<1>row. /\ row \in Run
        /\ row.state = "open" /\ row.start = q.start /\ row.startEvent = q.event
        /\ row.createdAt = n /\ row.updatedAt = n
        /\ row.close = NULL /\ row.terminalEvent = NULL
  BY <1>q DEF OpenRun, Run
<1>ev. /\ ev \in Event
       /\ ev.run = q.run /\ ev.sequence = 1 /\ ev.kind = "run.started"
       /\ ev.terminal = FALSE /\ ev.payload = q.start
       /\ ev = StartEvent(q.run, q.start, ev.recordedAt)
  BY <1>q DEF StartEvent, Event
<1> HIDE DEF row, ev
<1>f. /\ u.runs = Put(t.runs, q.run, row) /\ u.events = Put(t.events, q.event, ev)
      /\ u.findings = t.findings /\ u.closures = t.closures
  BY TablesFields DEF row, ev
<1>t. /\ IsTable(t.runs, RunID, Run) /\ IsTable(t.events, EventID, Event)
      /\ IsTable(t.findings, FindingID, Finding) /\ IsTable(t.closures, ClosureID, Closure)
  BY DEF Sound, IsLedger
<1>r. /\ IsTable(u.runs, RunID, Run)
      /\ DOMAIN u.runs = DOMAIN t.runs \cup {q.run}
      /\ u.runs[q.run] = row
      /\ \A r \in DOMAIN t.runs : u.runs[r] = t.runs[r]
  <2>1. /\ IsTable(Put(t.runs, q.run, row), RunID, Run)
        /\ DOMAIN Put(t.runs, q.run, row) = DOMAIN t.runs \cup {q.run}
        /\ Put(t.runs, q.run, row)[q.run] = row
        /\ \A r \in DOMAIN t.runs \ {q.run} : Put(t.runs, q.run, row)[r] = t.runs[r]
    BY <1>t, <1>q, <1>row, SMT DEF Put, IsTable
  <2> QED BY <2>1, <1>f
<1>e. /\ IsTable(u.events, EventID, Event)
      /\ DOMAIN u.events = DOMAIN t.events \cup {q.event}
      /\ u.events[q.event] = ev
      /\ \A e \in DOMAIN t.events : u.events[e] = t.events[e]
  <2>1. /\ IsTable(Put(t.events, q.event, ev), EventID, Event)
        /\ DOMAIN Put(t.events, q.event, ev) = DOMAIN t.events \cup {q.event}
        /\ Put(t.events, q.event, ev)[q.event] = ev
        /\ \A e \in DOMAIN t.events \ {q.event} : Put(t.events, q.event, ev)[e] = t.events[e]
    BY <1>t, <1>q, <1>ev, SMT DEF Put, IsTable
  <2> QED BY <2>1, <1>f
<1>1. IsLedger(u)
  BY <1>r, <1>e, <1>f, <1>t DEF IsLedger, Tables
<1>2. \A r \in DOMAIN t.runs : EventsOf(u, r) = EventsOf(t, r)
  BY <1>e, <1>ev DEF EventsOf
<1>3. EventsOf(u, q.run) = {q.event}
  <2>1. \A e \in DOMAIN t.events : t.events[e].run \in DOMAIN t.runs
    BY DEF Sound, Doctor, checkForeignKeys
  <2> QED BY <2>1, <1>e, <1>ev DEF EventsOf
<1>4. \A r \in DOMAIN t.runs : listEvents(u, r) = listEvents(t, r)
  BY <1>2, <1>e DEF listEvents, Restrict, EventsOf
<1>5. Extends(t, u)
  BY <1>4, <1>r, <1>e, <1>f DEF Extends, ProjectReceipt
<1>6. AlreadyStarted(u, q)
  BY <1>r, <1>e, <1>3, <1>row, <1>ev DEF AlreadyStarted
<1>7. checkRunTerminalRecords(u)
  <2>1. validateSnapshotConsistency(q.run, row, listEvents(u, q.run))
    <3>1. validateRunProjection(row)
      BY <1>q, <1>row, RecordConstants DEF validateRunProjection, ValidRequest
    <3>2. DOMAIN listEvents(u, q.run) = {q.event} /\ listEvents(u, q.run)[q.event] = ev
      BY <1>3, <1>e DEF listEvents, Restrict
    <3> QED BY <3>1, <3>2, <1>row, <1>ev DEF validateSnapshotConsistency
  <2>2. \A r \in DOMAIN t.runs : validateSnapshotConsistency(r, t.runs[r], listEvents(t, r))
    BY DEF Sound, Doctor, checkRunTerminalRecords
  <2> QED BY <2>1, <2>2, <1>4, <1>r DEF checkRunTerminalRecords
<1>8. checkForeignKeys(u)
  <2>1. checkForeignKeys(t)
    BY DEF Sound, Doctor
  <2>2. DeferredKeysHold(u)
    BY <2>1, <1>2, <1>3, <1>r, <1>q, <1>row DEF DeferredKeysHold, checkForeignKeys
  <2>3. \A e \in DOMAIN u.events : u.events[e].run \in DOMAIN u.runs
    BY <2>1, <1>r, <1>e, <1>ev DEF checkForeignKeys
  <2> QED BY <2>1, <2>2, <2>3, <1>r, <1>f, LinksKept
<1>9. checkFindingRecords(u) /\ OneClosurePerFinding(u)
  <2>1. \A r : (IsClosed(t, r) => IsClosed(u, r)) /\ (Succeeded(t, r) => Succeeded(u, r))
    BY <1>r DEF IsClosed, Succeeded
  <2> QED BY <2>1, <1>f, FindingsKept DEF Sound
<1> QED BY <1>1, <1>5, <1>6, <1>7, <1>8, <1>9 DEF Sound, Doctor

\* The events of an open run are its start event alone, so CloseRun's
\* SELECT COALESCE(MAX(sequence), 0) yields 1.
LEMMA OpenRunSequence ==
  ASSUME NEW t, Sound(t), NEW r \in DOMAIN t.runs, t.runs[r].state = "open"
  PROVE  /\ EventsOf(t, r) = {t.runs[r].startEvent}
         /\ t.events[t.runs[r].startEvent] =
              StartEvent(r, t.runs[r].start, t.events[t.runs[r].startEvent].recordedAt)
         /\ LastSequence(t, r) = 1
<1> DEFINE row == t.runs[r]
           e == row.startEvent
<1>1. validateSnapshotConsistency(r, row, listEvents(t, r))
  BY DEF Sound, Doctor, checkRunTerminalRecords
<1>2. EventsOf(t, r) = {e}
  BY <1>1 DEF validateSnapshotConsistency, listEvents, Restrict
<1>3. /\ t.events[e].run = r /\ t.events[e].sequence = 1 /\ t.events[e].payload = row.start
      /\ t.events[e].kind = "run.started" /\ ~ t.events[e].terminal
  BY <1>1, <1>2 DEF validateSnapshotConsistency, listEvents, Restrict
<1>4. t.events[e] \in Event
  BY <1>2, StoredRow DEF EventsOf, Sound, IsLedger
<1>5. t.events[e] = StartEvent(r, row.start, t.events[e].recordedAt)
  BY <1>3, <1>4 DEF Event, StartEvent
<1>6. {0} \cup {t.events[d].sequence : d \in EventsOf(t, r)} = {0, 1}
  BY <1>2, <1>3
<1>7. Max({0, 1}) = 1
  BY DEF Max
<1> QED BY <1>2, <1>5, <1>6, <1>7 DEF LastSequence

\* CloseRun: inserting the terminal event and closing the run keeps a sound
\* ledger sound, keeps every receipt, and records the request.
LEMMA CloseKeeps ==
  ASSUME NEW t, Sound(t), NEW q \in CloseRequest, NEW n \in Time,
         ValidRequest(q), q.run \in DOMAIN t.runs, t.runs[q.run].state = "open",
         q.event \notin DOMAIN t.events,
         EndsInTime(t, q, n),
         NEW u,
         u = Tables(Put(t.runs, q.run, ClosedRun(t.runs[q.run], q.close, q.event, n)),
                    Put(t.events, q.event, TerminalEvent(q.run, 2, q.close, n)),
                    t.findings, t.closures)
  PROVE  Sound(u) /\ Extends(t, u) /\ AlreadyClosed(u, q)
<1> DEFINE old == t.runs[q.run]
           row == ClosedRun(old, q.close, q.event, n)
           ev == TerminalEvent(q.run, 2, q.close, n)
           first == old.startEvent
<1>q. /\ q.run \in RunID /\ q.event \in EventID /\ q.close \in Close
      /\ q.op = "CloseRun" /\ q.close # NULL /\ q.event # NULL
  <2>1. q.run \in RunID /\ q.event \in EventID /\ q.close \in Close /\ q.op = "CloseRun"
    BY DEF CloseRequest
  <2> QED BY <2>1, RecordConstants DEF Close
<1>t. /\ IsTable(t.runs, RunID, Run) /\ IsTable(t.events, EventID, Event)
      /\ IsTable(t.findings, FindingID, Finding) /\ IsTable(t.closures, ClosureID, Closure)
  BY DEF Sound, IsLedger
<1>old. old \in Run
  BY <1>t, StoredRow
<1>row. /\ row \in Run
        /\ row.state = "closed" /\ row.start = old.start /\ row.startEvent = first
        /\ row.createdAt = old.createdAt /\ row.updatedAt = n
        /\ row.close = q.close /\ row.terminalEvent = q.event
  BY <1>q, <1>old DEF ClosedRun, Run
<1>ev. /\ ev \in Event
       /\ ev.run = q.run /\ ev.sequence = 2 /\ ev.kind = "run.terminal"
       /\ ev.terminal = TRUE /\ ev.payload = q.close
  BY <1>q DEF TerminalEvent, Event
<1>first. /\ EventsOf(t, q.run) = {first}
          /\ t.events[first].run = q.run /\ t.events[first].sequence = 1
          /\ t.events[first].payload = old.start
          /\ t.events[first].kind = "run.started" /\ ~ t.events[first].terminal
  <2>1. /\ EventsOf(t, q.run) = {first}
        /\ t.events[first] = StartEvent(q.run, old.start, t.events[first].recordedAt)
    BY OpenRunSequence
  <2> HIDE DEF old, first
  <2> QED BY <2>1, StartEventFields
<1> HIDE DEF row, ev, old, first
<1>f. /\ u.runs = Put(t.runs, q.run, row) /\ u.events = Put(t.events, q.event, ev)
      /\ u.findings = t.findings /\ u.closures = t.closures
  BY TablesFields DEF row, ev, old
<1>r. /\ IsTable(u.runs, RunID, Run)
      /\ DOMAIN u.runs = DOMAIN t.runs
      /\ u.runs[q.run] = row
      /\ \A r \in DOMAIN t.runs \ {q.run} : u.runs[r] = t.runs[r]
  <2>1. /\ IsTable(Put(t.runs, q.run, row), RunID, Run)
        /\ DOMAIN Put(t.runs, q.run, row) = DOMAIN t.runs \cup {q.run}
        /\ Put(t.runs, q.run, row)[q.run] = row
        /\ \A r \in DOMAIN t.runs \ {q.run} : Put(t.runs, q.run, row)[r] = t.runs[r]
    BY <1>t, <1>q, <1>row, SMT DEF Put, IsTable
  <2> QED BY <2>1, <1>f
<1>e. /\ IsTable(u.events, EventID, Event)
      /\ DOMAIN u.events = DOMAIN t.events \cup {q.event}
      /\ u.events[q.event] = ev
      /\ \A e \in DOMAIN t.events : u.events[e] = t.events[e]
  <2>1. /\ IsTable(Put(t.events, q.event, ev), EventID, Event)
        /\ DOMAIN Put(t.events, q.event, ev) = DOMAIN t.events \cup {q.event}
        /\ Put(t.events, q.event, ev)[q.event] = ev
        /\ \A e \in DOMAIN t.events \ {q.event} : Put(t.events, q.event, ev)[e] = t.events[e]
    BY <1>t, <1>q, <1>ev, SMT DEF Put, IsTable
  <2> QED BY <2>1, <1>f
<1>1. IsLedger(u)
  BY <1>r, <1>e, <1>f, <1>t DEF IsLedger, Tables
<1>own. ASSUME NEW r
        PROVE  EventsOf(u, r) = EventsOf(t, r) \cup (IF r = q.run THEN {q.event} ELSE {})
  <2>1. /\ q.event \notin DOMAIN t.events /\ DOMAIN u.events = DOMAIN t.events \cup {q.event}
        /\ \A d \in DOMAIN t.events : u.events[d] = t.events[d]
    BY <1>e
  <2>2. u.events[q.event].run = q.run
    BY <1>e, <1>ev
  <2>3. ASSUME NEW e
        PROVE  /\ e \in EventsOf(u, r) <=> e \in DOMAIN u.events /\ u.events[e].run = r
               /\ e \in EventsOf(t, r) <=> e \in DOMAIN t.events /\ t.events[e].run = r
    BY DEF EventsOf
  <2>4. ASSUME NEW e
        PROVE  e \in EventsOf(u, r)
               <=> e \in EventsOf(t, r) \cup (IF r = q.run THEN {q.event} ELSE {})
    BY <2>1, <2>2, <2>3
  <2> QED BY <2>4
<1>2. \A r \in DOMAIN t.runs \ {q.run} : EventsOf(u, r) = EventsOf(t, r)
  BY <1>own
<1>3. EventsOf(u, q.run) = {first, q.event} /\ first # q.event /\ u.events[first] = t.events[first]
  <2>1. first \in DOMAIN t.events
    BY <1>first DEF EventsOf
  <2> QED BY <1>own, <1>first, <1>e, <2>1
<1>4. \A r \in DOMAIN t.runs \ {q.run} : listEvents(u, r) = listEvents(t, r)
  BY <1>2, <1>e DEF listEvents, Restrict, EventsOf
<1>5. Extends(t, u)
  <2>1. \A r \in DOMAIN t.runs \ {q.run} :
          u.runs[r] = t.runs[r] /\ ProjectReceipt(u, r) = ProjectReceipt(t, r)
    BY <1>4, <1>r DEF ProjectReceipt
  <2>2. /\ u.runs[q.run].start = t.runs[q.run].start
        /\ u.runs[q.run].startEvent = t.runs[q.run].startEvent
        /\ u.runs[q.run].createdAt = t.runs[q.run].createdAt
        /\ t.runs[q.run].state # "closed"
    BY <1>r, <1>row DEF old, first
  <2>3. \A r \in DOMAIN t.runs :
          /\ r \in DOMAIN u.runs
          /\ u.runs[r].start = t.runs[r].start
          /\ u.runs[r].startEvent = t.runs[r].startEvent
          /\ u.runs[r].createdAt = t.runs[r].createdAt
          /\ t.runs[r].state = "closed" => ProjectReceipt(u, r) = ProjectReceipt(t, r)
    BY <2>1, <2>2, <1>r
  <2> QED BY <2>3, <1>e, <1>f DEF Extends
<1>6. AlreadyClosed(u, q)
  BY <1>r, <1>e, <1>3, <1>row, <1>ev DEF AlreadyClosed, IsClosed
<1>7. checkRunTerminalRecords(u)
  <2>0. \A r \in DOMAIN t.runs : validateSnapshotConsistency(r, t.runs[r], listEvents(t, r))
    BY DEF Sound, Doctor, checkRunTerminalRecords
  <2>1. validateSnapshotConsistency(q.run, row, listEvents(u, q.run))
    <3>1. validateRunProjection(row)
      <4>1. validateRunProjection(old)
        BY <2>0 DEF validateSnapshotConsistency, old
      <4> QED BY <4>1, <1>q, <1>row DEF validateRunProjection, ValidRequest, EndsInTime, old
    <3>2. /\ DOMAIN listEvents(u, q.run) = {first, q.event}
          /\ listEvents(u, q.run)[q.event] = ev
          /\ listEvents(u, q.run)[first] = t.events[first]
      BY <1>3, <1>e DEF listEvents, Restrict
    <3> DEFINE evs == listEvents(u, q.run)
    <3>3. DOMAIN evs = {row.startEvent, row.terminalEvent} /\ row.state = "closed"
      BY <3>2, <1>row
    <3>4. \A e \in DOMAIN evs : evs[e].run = q.run
      BY <3>2, <1>ev, <1>first
    <3>5. /\ evs[row.startEvent].sequence = 1 /\ evs[row.startEvent].kind = "run.started"
          /\ ~ evs[row.startEvent].terminal /\ evs[row.startEvent].payload = row.start
      BY <3>2, <1>row, <1>first
    <3>6. /\ evs[row.terminalEvent].sequence = 2 /\ evs[row.terminalEvent].kind = "run.terminal"
          /\ evs[row.terminalEvent].terminal /\ evs[row.terminalEvent].payload = row.close
      BY <3>2, <1>row, <1>ev
    <3> HIDE DEF evs
    <3>7. validateSnapshotConsistency(q.run, row, evs)
      BY <3>1, <3>3, <3>4, <3>5, <3>6 DEF validateSnapshotConsistency
    <3> QED BY <3>7 DEF evs
  <2> QED BY <2>0, <2>1, <1>4, <1>r DEF checkRunTerminalRecords
<1>8. checkForeignKeys(u)
  <2>1. checkForeignKeys(t)
    BY DEF Sound, Doctor
  <2>2. DeferredKeysHold(u)
    <3>1. ASSUME NEW r \in DOMAIN t.runs \ {q.run}
          PROVE  /\ t.runs[r].startEvent \in EventsOf(t, r)
                 /\ t.runs[r].terminalEvent # NULL => t.runs[r].terminalEvent \in EventsOf(t, r)
      BY <2>1 DEF checkForeignKeys, DeferredKeysHold
    <3>2. row.startEvent \in EventsOf(u, q.run) /\ row.terminalEvent \in EventsOf(u, q.run)
      BY <1>3, <1>row
    <3> QED BY <3>1, <3>2, <1>2, <1>r DEF DeferredKeysHold
  <2>3. \A e \in DOMAIN u.events : u.events[e].run \in DOMAIN u.runs
    <3>1. \A e \in DOMAIN t.events : t.events[e].run \in DOMAIN t.runs
      BY <2>1 DEF checkForeignKeys
    <3>2. u.events[q.event].run \in DOMAIN u.runs
      BY <1>r, <1>e, <1>ev
    <3>3. \A e \in DOMAIN t.events : u.events[e].run \in DOMAIN u.runs
      BY <3>1, <1>r, <1>e
    <3>4. DOMAIN u.events = DOMAIN t.events \cup {q.event}
      BY <1>e
    <3> QED BY <3>2, <3>3, <3>4
  <2> QED BY <2>1, <2>2, <2>3, <1>r, <1>f, LinksKept
<1>9. checkFindingRecords(u) /\ OneClosurePerFinding(u)
  <2>1. \A r : (IsClosed(t, r) => IsClosed(u, r)) /\ (Succeeded(t, r) => Succeeded(u, r))
    BY <1>r DEF IsClosed, Succeeded, old
  <2> QED BY <2>1, <1>f, FindingsKept DEF Sound
<1> QED BY <1>1, <1>5, <1>6, <1>7, <1>8, <1>9 DEF Sound, Doctor

\* AddFinding: inserting a finding about a closed run does the same.
LEMMA AddKeeps ==
  ASSUME NEW t, Sound(t), NEW q \in FindingRequest, NEW n \in Time,
         q.finding \notin DOMAIN t.findings, IsClosed(t, q.origin),
         NEW row, row = [origin |-> q.origin, content |-> q.content, recordedAt |-> n],
         NEW u, u = Tables(t.runs, t.events, Put(t.findings, q.finding, row), t.closures)
  PROVE  Sound(u) /\ Extends(t, u) /\ AlreadyAdded(u, q)
<1>q. q.finding \in FindingID /\ row \in Finding /\ row.origin = q.origin
      /\ row.content = q.content
  BY DEF FindingRequest, Finding
<1>f. /\ u.runs = t.runs /\ u.events = t.events /\ u.closures = t.closures
      /\ u.findings = Put(t.findings, q.finding, row)
  BY TablesFields
<1>t. /\ IsTable(t.runs, RunID, Run) /\ IsTable(t.events, EventID, Event)
      /\ IsTable(t.findings, FindingID, Finding) /\ IsTable(t.closures, ClosureID, Closure)
      /\ Doctor(t)
  BY DEF Sound, IsLedger
<1>g. /\ IsTable(u.findings, FindingID, Finding)
      /\ DOMAIN u.findings = DOMAIN t.findings \cup {q.finding}
      /\ u.findings[q.finding] = row
      /\ \A k \in DOMAIN t.findings : u.findings[k] = t.findings[k]
  <2>1. /\ IsTable(Put(t.findings, q.finding, row), FindingID, Finding)
        /\ DOMAIN Put(t.findings, q.finding, row) = DOMAIN t.findings \cup {q.finding}
        /\ Put(t.findings, q.finding, row)[q.finding] = row
        /\ \A k \in DOMAIN t.findings \ {q.finding} :
             Put(t.findings, q.finding, row)[k] = t.findings[k]
    BY <1>t, <1>q, SMT DEF Put, IsTable
  <2> QED BY <2>1, <1>f
<1>1. IsLedger(u)
  BY <1>g, <1>f, <1>t DEF IsLedger, Tables
<1>2. \A r : EventsOf(u, r) = EventsOf(t, r) /\ listEvents(u, r) = listEvents(t, r)
  BY <1>f DEF EventsOf, listEvents
<1>c. \A r : (IsClosed(u, r) <=> IsClosed(t, r)) /\ (Succeeded(u, r) <=> Succeeded(t, r))
  BY <1>f DEF IsClosed, Succeeded
<1>3. Extends(t, u)
  BY <1>2, <1>f, <1>g DEF Extends, ProjectReceipt
<1>4. AlreadyAdded(u, q)
  BY <1>g, <1>q DEF AlreadyAdded
<1>5. checkForeignKeys(u)
  <2>1. checkForeignKeys(t)
    BY <1>t DEF Doctor
  <2>2. DeferredKeysHold(u)
    BY <2>1, <1>2, <1>f DEF checkForeignKeys, DeferredKeysHold
  <2>3. \A k \in DOMAIN u.findings : u.findings[k].origin \in DOMAIN u.runs
    BY <2>1, <1>f, <1>g, <1>q DEF checkForeignKeys, IsClosed
  <2>4. /\ \A e \in DOMAIN u.events : u.events[e].run \in DOMAIN u.runs
        /\ \A c \in DOMAIN u.closures :
             /\ u.closures[c].finding \in DOMAIN u.findings
             /\ u.closures[c].resolving \in DOMAIN u.runs \cup {NULL}
    BY <2>1, <1>f, <1>g DEF checkForeignKeys
  <2> QED BY <2>2, <2>3, <2>4 DEF checkForeignKeys
<1>6. checkRunTerminalRecords(u)
  BY <1>t, <1>2, <1>f DEF Doctor, checkRunTerminalRecords
<1>7. checkFindingRecords(u)
  <2>1. checkFindingRecords(t)
    BY <1>t DEF Doctor
  <2>2. \A k \in DOMAIN u.findings : IsClosed(u, u.findings[k].origin)
    BY <2>1, <1>c, <1>g, <1>q DEF checkFindingRecords
  <2> QED BY <2>1, <2>2, <1>c, <1>f DEF checkFindingRecords
<1>8. OneClosurePerFinding(u)
  BY <1>t, <1>f DEF Doctor, OneClosurePerFinding
<1> QED BY <1>1, <1>3, <1>4, <1>5, <1>6, <1>7, <1>8 DEF Sound, Doctor

\* CloseFinding: so does inserting a closure the schema admits.
LEMMA SettleKeeps ==
  ASSUME NEW t, Sound(t), NEW q \in ClosureRequest, NEW n \in Time,
         NEW row,
         row = [finding |-> q.finding, disposition |-> q.disposition,
                resolving |-> q.resolving, content |-> q.content, recordedAt |-> n],
         MayInsertClosure(t, q.closure, row),
         NEW u, u = Tables(t.runs, t.events, t.findings, Put(t.closures, q.closure, row))
  PROVE  Sound(u) /\ Extends(t, u) /\ AlreadyResolved(u, q)
<1>q. /\ q.closure \in ClosureID /\ row \in Closure
      /\ row.finding = q.finding /\ row.disposition = q.disposition
      /\ row.resolving = q.resolving /\ row.content = q.content
  BY DEF ClosureRequest, Closure
<1>f. /\ u.runs = t.runs /\ u.events = t.events /\ u.findings = t.findings
      /\ u.closures = Put(t.closures, q.closure, row)
  BY TablesFields
<1>t. /\ IsTable(t.runs, RunID, Run) /\ IsTable(t.events, EventID, Event)
      /\ IsTable(t.findings, FindingID, Finding) /\ IsTable(t.closures, ClosureID, Closure)
      /\ Doctor(t)
  BY DEF Sound, IsLedger
<1>m. /\ q.closure \notin DOMAIN t.closures
      /\ \A c \in DOMAIN t.closures : t.closures[c].finding # row.finding
      /\ row.finding \in DOMAIN t.findings
      /\ validateFindingDisposition(row.disposition, row.resolving)
      /\ row.disposition = "resolved" => Succeeded(t, row.resolving)
  BY DEF MayInsertClosure
<1>g. /\ IsTable(u.closures, ClosureID, Closure)
      /\ DOMAIN u.closures = DOMAIN t.closures \cup {q.closure}
      /\ u.closures[q.closure] = row
      /\ \A k \in DOMAIN t.closures : u.closures[k] = t.closures[k]
  <2>1. /\ IsTable(Put(t.closures, q.closure, row), ClosureID, Closure)
        /\ DOMAIN Put(t.closures, q.closure, row) = DOMAIN t.closures \cup {q.closure}
        /\ Put(t.closures, q.closure, row)[q.closure] = row
        /\ \A k \in DOMAIN t.closures \ {q.closure} :
             Put(t.closures, q.closure, row)[k] = t.closures[k]
    BY <1>t, <1>q, SMT DEF Put, IsTable
  <2> QED BY <2>1, <1>f, <1>m
<1>1. IsLedger(u)
  BY <1>g, <1>f, <1>t DEF IsLedger, Tables
<1>2. \A r : EventsOf(u, r) = EventsOf(t, r) /\ listEvents(u, r) = listEvents(t, r)
  BY <1>f DEF EventsOf, listEvents
<1>c. \A r : (IsClosed(u, r) <=> IsClosed(t, r)) /\ (Succeeded(u, r) <=> Succeeded(t, r))
  BY <1>f DEF IsClosed, Succeeded
<1>3. Extends(t, u)
  BY <1>2, <1>f, <1>g DEF Extends, ProjectReceipt
<1>4. AlreadyResolved(u, q)
  BY <1>g, <1>q DEF AlreadyResolved, ClosuresOf
<1>5. checkForeignKeys(u)
  <2>1. checkForeignKeys(t)
    BY <1>t DEF Doctor
  <2>2. DeferredKeysHold(u)
    BY <2>1, <1>2, <1>f DEF checkForeignKeys, DeferredKeysHold
  <2>3. row.resolving \in DOMAIN t.runs \cup {NULL}
    <3>1. row.disposition \in Dispositions
      BY <1>q DEF Closure
    <3> QED BY <3>1, <1>m DEF Succeeded, IsClosed, validateFindingDisposition, Dispositions
  <2>4. \A k \in DOMAIN u.closures :
          /\ u.closures[k].finding \in DOMAIN u.findings
          /\ u.closures[k].resolving \in DOMAIN u.runs \cup {NULL}
    BY <2>1, <2>3, <1>f, <1>g, <1>m DEF checkForeignKeys
  <2>5. /\ \A e \in DOMAIN u.events : u.events[e].run \in DOMAIN u.runs
        /\ \A f \in DOMAIN u.findings : u.findings[f].origin \in DOMAIN u.runs
    BY <2>1, <1>f DEF checkForeignKeys
  <2> QED BY <2>2, <2>4, <2>5 DEF checkForeignKeys
<1>6. checkRunTerminalRecords(u)
  BY <1>t, <1>2, <1>f DEF Doctor, checkRunTerminalRecords
<1>7. checkFindingRecords(u)
  <2>1. checkFindingRecords(t)
    BY <1>t DEF Doctor
  <2>2. \A k \in DOMAIN u.findings : IsClosed(u, u.findings[k].origin)
    BY <2>1, <1>c, <1>f DEF checkFindingRecords
  <2>3. \A k \in DOMAIN u.closures :
          /\ validateFindingDisposition(u.closures[k].disposition, u.closures[k].resolving)
          /\ u.closures[k].disposition = "resolved" => Succeeded(u, u.closures[k].resolving)
    BY <2>1, <1>c, <1>g, <1>m DEF checkFindingRecords
  <2> QED BY <2>2, <2>3 DEF checkFindingRecords
<1>8. OneClosurePerFinding(u)
  BY <1>t, <1>g, <1>m DEF Doctor, OneClosurePerFinding
<1> QED BY <1>1, <1>3, <1>4, <1>5, <1>6, <1>7, <1>8 DEF Sound, Doctor

-----------------------------------------------------------------------------
(* The operations, statement by statement.                                 *)

\* What a write that is about to commit has made of ledger t.
Done(t, u, q) == Sound(u) /\ Extends(t, u) /\ Recorded(u, q)

\* The transaction's ledger between the two statements of StartRun or CloseRun.
HalfStarted(t, u, q, n) ==
  /\ q.op = "StartRun"
  /\ q.run \notin DOMAIN t.runs /\ q.event \notin DOMAIN t.events
  /\ u = Tables(Put(t.runs, q.run, OpenRun(q.start, q.event, n)),
                t.events, t.findings, t.closures)

HalfClosed(t, u, q, n) ==
  /\ q.op = "CloseRun"
  /\ q.run \in DOMAIN t.runs /\ t.runs[q.run].state = "open"
  /\ q.close.endedAt >= t.runs[q.run].start.startedAt
  /\ q.event \notin DOMAIN t.events
  /\ u = Tables(t.runs, Put(t.events, q.event, TerminalEvent(q.run, 2, q.close, n)),
                t.findings, t.closures)

\* A ledger that does not change extends itself.
LEMMA ExtendsItself == \A t : Extends(t, t)
BY DEF Extends

\* The operation of a write request tells its arguments.
LEMMA RequestKinds ==
  ASSUME NEW q \in Requests, IsWrite(q)
  PROVE  /\ q.op = "StartRun" => q \in StartRequest
         /\ q.op = "CloseRun" => q \in CloseRequest
         /\ q.op = "AddFinding" => q \in FindingRequest
         /\ q.op = "CloseFinding" => q \in ClosureRequest
         /\ q.op \in {"StartRun", "CloseRun", "AddFinding", "CloseFinding"}
<1>1. q \in WriteRequest \/ q \in ReadRequest
  BY StoreConstants
<1>2. q \notin ReadRequest
  BY DEF ReadRequest, ReceiptRequest, ShowRequest, IsWrite
<1>3. /\ q \in StartRequest => q.op = "StartRun"
      /\ q \in CloseRequest => q.op = "CloseRun"
      /\ q \in FindingRequest => q.op = "AddFinding"
      /\ q \in ClosureRequest => q.op = "CloseFinding"
  BY DEF StartRequest, CloseRequest, FindingRequest, ClosureRequest
<1> QED BY <1>1, <1>2, <1>3 DEF WriteRequest

\* A request a ledger has recorded stays recorded as the ledger grows: what
\* sameStart, sameClose and their like compare is never rewritten.
LEMMA RecordedKept ==
  ASSUME NEW t, NEW u, NEW q \in Requests, IsWrite(q), Extends(t, u), Recorded(t, q)
  PROVE  Recorded(u, q)
<1>1. CASE q.op = "StartRun"
  <2>1. AlreadyStarted(t, q)
    BY <1>1 DEF Recorded
  <2>2. AlreadyStarted(u, q)
    BY <2>1 DEF AlreadyStarted, Extends, EventsOf
  <2> QED BY <2>2, <1>1 DEF Recorded
<1>2. CASE q.op = "CloseRun"
  <2>1. AlreadyClosed(t, q)
    BY <1>2 DEF Recorded
  <2>2. q.run \in DOMAIN u.runs /\ u.runs[q.run] = t.runs[q.run]
    BY <2>1 DEF AlreadyClosed, IsClosed, Extends, ProjectReceipt
  <2>3. q.event \in DOMAIN u.events /\ u.events[q.event] = t.events[q.event]
    BY <2>1 DEF AlreadyClosed, EventsOf, Extends
  <2>4. AlreadyClosed(u, q)
    BY <2>1, <2>2, <2>3 DEF AlreadyClosed, IsClosed, EventsOf
  <2> QED BY <2>4, <1>2 DEF Recorded
<1>3. CASE q.op = "AddFinding"
  <2>1. AlreadyAdded(t, q)
    BY <1>3 DEF Recorded
  <2>2. AlreadyAdded(u, q)
    BY <2>1 DEF AlreadyAdded, Extends
  <2> QED BY <2>2, <1>3 DEF Recorded
<1>4. CASE q.op = "CloseFinding"
  <2>1. AlreadyResolved(t, q)
    BY <1>4 DEF Recorded
  <2>2. AlreadyResolved(u, q)
    BY <2>1 DEF AlreadyResolved, ClosuresOf, Extends
  <2> QED BY <2>2, <1>4 DEF Recorded
<1> QED BY <1>1, <1>2, <1>3, <1>4, RequestKinds

\* When an operation finds its own request already stored, there is nothing
\* left to do.
LEMMA RepeatIsDone ==
  ASSUME NEW t, Sound(t), NEW q \in Requests, IsWrite(q), Verdict(t, q) = "repeat"
  PROVE  Done(t, t, q)
<1>1. q.op = "StartRun" => AlreadyStarted(t, q)
  BY DEF Verdict, StartRunVerdict
<1>2. q.op = "CloseRun" => AlreadyClosed(t, q)
  BY DEF Verdict, CloseRunVerdict
<1>3. q.op = "AddFinding" => AlreadyAdded(t, q)
  BY DEF Verdict, AddFindingVerdict
<1>4. q.op = "CloseFinding" => AlreadyResolved(t, q)
  BY DEF Verdict, CloseFindingVerdict
<1>5. Recorded(t, q)
  BY <1>1, <1>2, <1>3, <1>4, RequestKinds DEF Recorded
<1> QED BY <1>5, ExtendsItself DEF Done

\* The same for the second statement of StartRun and CloseRun.
LEMMA TablesExcept ==
  ASSUME NEW a, NEW b, NEW c, NEW d, NEW x
  PROVE  /\ [Tables(a, b, c, d) EXCEPT !.runs = x] = Tables(x, b, c, d)
         /\ [Tables(a, b, c, d) EXCEPT !.events = x] = Tables(a, x, c, d)
BY DEF Tables

\* The first statement of StartRun, after its checks have passed.
LEMMA BeginStart ==
  ASSUME NEW t, Sound(t), NEW q \in Requests, IsWrite(q), NEW n \in Time,
         q.op = "StartRun", Verdict(t, q) = "insert"
  PROVE  HalfStarted(t, [t EXCEPT !.runs = Put(@, q.run, OpenRun(q.start, q.event, n))],
                     q, n)
<1>1. q.run \notin DOMAIN t.runs /\ q.event \notin DOMAIN t.events
  BY DEF Verdict, StartRunVerdict
<1>2. IsLedger(t)
  BY DEF Sound
<1> QED BY <1>1, <1>2, Columns DEF HalfStarted

\* The second statement of StartRun completes the operation.
LEMMA EndStart ==
  ASSUME NEW t, Sound(t), NEW q \in Requests, IsWrite(q), ValidRequest(q), NEW n \in Time,
         NEW w, HalfStarted(t, w, q, n)
  PROVE  Done(t, [w EXCEPT !.events = Put(@, q.event, StartEvent(q.run, q.start, n))], q)
<1> DEFINE ev == StartEvent(q.run, q.start, n)
           runs == Put(t.runs, q.run, OpenRun(q.start, q.event, n))
           u == Tables(runs, Put(t.events, q.event, ev), t.findings, t.closures)
<1>1. /\ q.op = "StartRun" /\ q.run \notin DOMAIN t.runs /\ q.event \notin DOMAIN t.events
      /\ w = Tables(runs, t.events, t.findings, t.closures)
  BY DEF HalfStarted
<1>2. q \in StartRequest
  BY <1>1, RequestKinds
<1>3. [w EXCEPT !.events = Put(@, q.event, ev)] = u
  BY <1>1, TablesExcept, TablesFields
<1>4. Sound(u) /\ Extends(t, u) /\ AlreadyStarted(u, q)
  BY <1>1, <1>2, StartKeeps
<1> QED BY <1>1, <1>3, <1>4 DEF Done, Recorded

\* The first statement of CloseRun, after its checks have passed: the
\* terminal event gets sequence 2.
LEMMA BeginClose ==
  ASSUME NEW t, Sound(t), NEW q \in Requests, IsWrite(q), NEW n \in Time,
         q.op = "CloseRun", Verdict(t, q) = "insert"
  PROVE  HalfClosed(t, [t EXCEPT !.events =
                          Put(@, q.event, TerminalEvent(q.run, LastSequence(t, q.run) + 1,
                                                        q.close, n))], q, n)
<1>1. /\ q.run \in DOMAIN t.runs /\ q.event \notin DOMAIN t.events
      /\ t.runs[q.run].state # "closed"
      /\ ~ (q.close.endedAt < t.runs[q.run].start.startedAt)
  BY DEF Verdict, CloseRunVerdict
<1>2. IsLedger(t)
  BY DEF Sound
<1>3. t.runs[q.run] \in Run
  BY <1>1, <1>2, StoredRow DEF IsLedger
<1>4. t.runs[q.run].state = "open"
  BY <1>1, <1>3 DEF Run
<1>5. q.close.endedAt >= t.runs[q.run].start.startedAt
  <2>1. q.close.endedAt \in Time /\ t.runs[q.run].start.startedAt \in Time
    BY <1>3, RequestKinds DEF CloseRequest, Close, Run, Start
  <2>2. q.close.endedAt \in Nat /\ t.runs[q.run].start.startedAt \in Nat
    BY <2>1, RecordConstants
  <2> QED BY <2>2, <1>1
<1>6. LastSequence(t, q.run) + 1 = 2
  BY <1>1, <1>4, OpenRunSequence
<1> DEFINE events == Put(t.events, q.event, TerminalEvent(q.run, 2, q.close, n))
<1>7. [t EXCEPT !.events = events] = Tables(t.runs, events, t.findings, t.closures)
  <2> HIDE DEF events
  <2> QED BY <1>2, Columns
<1>8. HalfClosed(t, [t EXCEPT !.events = events], q, n)
  BY <1>1, <1>4, <1>5, <1>7 DEF HalfClosed
<1> QED BY <1>6, <1>8

\* The second statement of CloseRun, if the schema's CHECK on updated_at
\* admits it, completes the operation.
LEMMA EndClose ==
  ASSUME NEW t, Sound(t), NEW q \in Requests, IsWrite(q), ValidRequest(q), NEW n \in Time,
         NEW w, HalfClosed(t, w, q, n),
         MayUpdateRun(w, q.run, ClosedRun(w.runs[q.run], q.close, q.event, n))
  PROVE  Done(t, [w EXCEPT !.runs =
                    Put(@, q.run, ClosedRun(w.runs[q.run], q.close, q.event, n))], q)
<1> DEFINE row == ClosedRun(t.runs[q.run], q.close, q.event, n)
           events == Put(t.events, q.event, TerminalEvent(q.run, 2, q.close, n))
           u == Tables(Put(t.runs, q.run, row), events, t.findings, t.closures)
<1>1. /\ q.op = "CloseRun" /\ q.event \notin DOMAIN t.events
      /\ q.run \in DOMAIN t.runs /\ t.runs[q.run].state = "open"
      /\ q.close.endedAt >= t.runs[q.run].start.startedAt
      /\ w = Tables(t.runs, events, t.findings, t.closures)
  BY DEF HalfClosed
<1>2. q \in CloseRequest
  BY <1>1, RequestKinds
<1>3. w.runs = t.runs
  BY <1>1, TablesFields
<1>4. [w EXCEPT !.runs = Put(@, q.run, row)] = u
  BY <1>1, <1>3, TablesExcept
<1>5. EndsInTime(t, q, n)
  <2>1. t.runs[q.run] \in Run
    BY <1>1, StoredRow DEF Sound, IsLedger
  <2>2. row.updatedAt = n /\ row.createdAt = t.runs[q.run].createdAt
    BY <2>1 DEF ClosedRun, Run
  <2>3. row.updatedAt >= row.createdAt
    BY <1>3 DEF MayUpdateRun, RunChecks
  <2> QED BY <2>2, <2>3, <1>1 DEF EndsInTime
<1>6. Sound(u) /\ Extends(t, u) /\ AlreadyClosed(u, q)
  BY <1>1, <1>2, <1>5, CloseKeeps
<1> QED BY <1>1, <1>3, <1>4, <1>6 DEF Done, Recorded

\* The one statement of AddFinding completes the operation.
LEMMA AddIsDone ==
  ASSUME NEW t, Sound(t), NEW q \in Requests, IsWrite(q), NEW n \in Time,
         q.op = "AddFinding", Verdict(t, q) = "insert",
         NEW row, row = [origin |-> q.origin, content |-> q.content, recordedAt |-> n]
  PROVE  Done(t, [t EXCEPT !.findings = Put(@, q.finding, row)], q)
<1> DEFINE u == Tables(t.runs, t.events, Put(t.findings, q.finding, row), t.closures)
<1>1. q.finding \notin DOMAIN t.findings /\ IsClosed(t, q.origin)
  BY DEF Verdict, AddFindingVerdict, IsClosed
<1>2. q \in FindingRequest
  BY RequestKinds
<1> DEFINE findings == Put(t.findings, q.finding, row)
<1>3. [t EXCEPT !.findings = findings] = Tables(t.runs, t.events, findings, t.closures)
  <2>1. IsLedger(t)
    BY DEF Sound
  <2> HIDE DEF findings
  <2> QED BY <2>1, Columns
<1>4. Sound(u) /\ Extends(t, u) /\ AlreadyAdded(u, q)
  BY <1>1, <1>2, AddKeeps
<1> QED BY <1>3, <1>4 DEF Done, Recorded

\* The one statement of CloseFinding, if the schema admits it, completes the
\* operation.
LEMMA SettleIsDone ==
  ASSUME NEW t, Sound(t), NEW q \in Requests, IsWrite(q), NEW n \in Time,
         q.op = "CloseFinding",
         NEW row,
         row = [finding |-> q.finding, disposition |-> q.disposition,
                resolving |-> q.resolving, content |-> q.content, recordedAt |-> n],
         MayInsertClosure(t, q.closure, row)
  PROVE  Done(t, [t EXCEPT !.closures = Put(@, q.closure, row)], q)
<1> DEFINE u == Tables(t.runs, t.events, t.findings, Put(t.closures, q.closure, row))
<1>1. q \in ClosureRequest
  BY RequestKinds
<1> DEFINE closures == Put(t.closures, q.closure, row)
<1>2. [t EXCEPT !.closures = closures] = Tables(t.runs, t.events, t.findings, closures)
  <2>1. IsLedger(t)
    BY DEF Sound
  <2> HIDE DEF closures
  <2> QED BY <2>1, Columns
<1>3. Sound(u) /\ Extends(t, u) /\ AlreadyResolved(u, q)
  BY <1>1, SettleKeeps
<1> QED BY <1>2, <1>3 DEF Done, Recorded

\* Between the statements of StartRun the transaction still sees a ledger.
LEMMA HalfStartedTyped ==
  ASSUME NEW t, Sound(t), NEW q \in Requests, IsWrite(q), NEW n \in Time,
         NEW w, HalfStarted(t, w, q, n)
  PROVE  IsLedger(w)
<1> DEFINE row == OpenRun(q.start, q.event, n)
<1>1. /\ IsTable(t.runs, RunID, Run) /\ IsTable(t.events, EventID, Event)
      /\ IsTable(t.findings, FindingID, Finding) /\ IsTable(t.closures, ClosureID, Closure)
  BY DEF Sound, IsLedger
<1>2. q.run \in RunID /\ row \in Run
  BY RequestKinds DEF HalfStarted, StartRequest, OpenRun, Run
<1>3. IsTable(Put(t.runs, q.run, row), RunID, Run)
  BY <1>1, <1>2, SMT DEF Put, IsTable
<1> QED BY <1>1, <1>3, TablesFields DEF HalfStarted, IsLedger, Tables

\* Between the statements of CloseRun the transaction still sees a ledger.
LEMMA HalfClosedTyped ==
  ASSUME NEW t, Sound(t), NEW q \in Requests, IsWrite(q), NEW n \in Time,
         NEW w, HalfClosed(t, w, q, n)
  PROVE  IsLedger(w)
<1> DEFINE ev == TerminalEvent(q.run, 2, q.close, n)
<1>1. /\ IsTable(t.runs, RunID, Run) /\ IsTable(t.events, EventID, Event)
      /\ IsTable(t.findings, FindingID, Finding) /\ IsTable(t.closures, ClosureID, Closure)
  BY DEF Sound, IsLedger
<1>2. q.event \in EventID /\ ev \in Event
  BY RequestKinds DEF HalfClosed, CloseRequest, TerminalEvent, Event
<1>3. IsTable(Put(t.events, q.event, ev), EventID, Event)
  BY <1>1, <1>2, SMT DEF Put, IsTable
<1> QED BY <1>1, <1>3, TablesFields DEF HalfClosed, IsLedger, Tables

-----------------------------------------------------------------------------
(* The inductive invariant of the store.                                   *)

\* Where a call stands and what that says of the ledger.
CallOK(p) ==
  /\ pc[p] # "idle" => req[p] \in Requests
  /\ pc[p] \in {"begin"} \cup InTransaction =>
       IsWrite(req[p]) /\ ValidRequest(req[p]) /\ now[p] \in Time

\* The write lock and what the transaction has made of the ledger so far.
WriterOK(p) ==
  /\ writer = p <=> pc[p] \in InTransaction
  /\ pc[p] = "statement" => work = db
  /\ pc[p] = "second" => \/ HalfStarted(db, work, req[p], now[p])
                         \/ HalfClosed(db, work, req[p], now[p])
  /\ pc[p] = "commit" => Done(db, work, req[p])

\* The shared lock is held exactly between the two SELECTs of Snapshot, and
\* what the first one read is still what is committed.
ReaderOK(p) ==
  /\ p \in readers <=> pc[p] = "events"
  /\ pc[p] = "events" =>
       req[p].run \in DOMAIN db.runs /\ seen[p] = db.runs[req[p].run]

\* Only what is recorded is reported as done.
AnswerOK(p) ==
  pc[p] = "reply" /\ outcome[p] = "ok" /\ IsWrite(req[p]) => Recorded(db, req[p])

ProcessOK(p) == CallOK(p) /\ WriterOK(p) /\ ReaderOK(p) /\ AnswerOK(p)

\* The committed ledger, and the working one while nobody writes.
LedgerOK ==
  /\ Doctor(db)
  /\ writer = NULL => work = db
  /\ \A q \in acked : IsWrite(q) /\ Recorded(db, q)

\* The inductive invariant.
IInv ==
  /\ TypeOK
  /\ DOMAIN seen = Proc
  /\ LedgerOK
  /\ \A p \in Proc : ProcessOK(p)

\* What a step of p leaves alone.
OthersKept(p) ==
  /\ \A o \in Proc \ {p} :
       /\ pc'[o] = pc[o] /\ req'[o] = req[o] /\ now'[o] = now[o]
       /\ outcome'[o] = outcome[o] /\ seen'[o] = seen[o]
       /\ writer' = o <=> writer = o
       /\ o \in readers' <=> o \in readers
  /\ writer \notin {p, NULL} => db' = db /\ work' = work
  /\ db' = db \/ readers = {}
  /\ Extends(db, db')

\* A step that leaves the other processes' locks and variables alone, commits
\* only while nobody reads and only extends the ledger keeps what the
\* invariant says of the other processes.
LEMMA OthersOK ==
  ASSUME IInv, NEW p \in Proc, OthersKept(p), NEW o \in Proc \ {p}
  PROVE  ProcessOK(o)'
<1>o. /\ pc'[o] = pc[o] /\ req'[o] = req[o] /\ now'[o] = now[o]
      /\ outcome'[o] = outcome[o] /\ seen'[o] = seen[o]
      /\ writer' = o <=> writer = o
      /\ o \in readers' <=> o \in readers
  BY DEF OthersKept
<1>i. CallOK(o) /\ WriterOK(o) /\ ReaderOK(o) /\ AnswerOK(o)
  BY DEF IInv, ProcessOK
<1>1. CallOK(o)'
  BY <1>o, <1>i DEF CallOK
<1>2. WriterOK(o)'
  <2>1. writer = o => db' = db /\ work' = work
    BY StoreConstants DEF OthersKept
  <2>2. pc[o] \in InTransaction => writer = o
    BY <1>i DEF WriterOK
  <2> QED BY <1>o, <1>i, <2>1, <2>2 DEF WriterOK, InTransaction
<1>3. ReaderOK(o)'
  <2>1. pc[o] = "events" => db' = db
    BY <1>i DEF ReaderOK, OthersKept
  <2> QED BY <1>o, <1>i, <2>1 DEF ReaderOK
<1>4. AnswerOK(o)'
  <2>1. pc[o] = "reply" => req[o] \in Requests
    BY <1>i DEF CallOK
  <2> QED BY <1>o, <1>i, <2>1, RecordedKept DEF AnswerOK, OthersKept
<1> QED BY <1>1, <1>2, <1>3, <1>4 DEF ProcessOK

\* Acknowledged requests survive a step that extends the ledger.
LEMMA AckedKept ==
  ASSUME IInv, Extends(db, db')
  PROVE  \A q \in acked : IsWrite(q) /\ Recorded(db', q)
BY RecordedKept DEF IInv, LedgerOK, TypeOK

\* A call that gets its answer and gives its locks back keeps the invariant;
\* only a COMMIT may answer "ok" to a write.
LEMMA ReplyStep ==
  ASSUME IInv, NEW p \in Proc, pc[p] # "idle",
         NEW a \in Answers, a = "ok" => ~ IsWrite(req[p]),
         Answer(p, a), Rollback(p), readers' = readers \ {p},
         UNCHANGED <<call, attempt, seen, acked>>
  PROVE  IInv' /\ OthersKept(p)
<1>0. db' = db /\ Extends(db, db')
  BY ExtendsItself DEF Rollback
<1>p. /\ pc'[p] = "reply" /\ outcome'[p] = a /\ writer' # p /\ p \notin readers'
      /\ req'[p] = req[p]
  BY StoreConstants DEF IInv, TypeOK, Answer, Goto, Rollback, call
<1>1. TypeOK'
  BY DEF IInv, TypeOK, Answer, Goto, Rollback, call, Locations
<1>2. OthersKept(p)
  BY <1>0, StoreConstants DEF IInv, TypeOK, OthersKept, Answer, Goto, Rollback, call
<1>3. ProcessOK(p)'
  BY <1>p DEF IInv, ProcessOK, CallOK, WriterOK, ReaderOK, AnswerOK, InTransaction
<1>4. LedgerOK'
  BY <1>0, AckedKept DEF IInv, LedgerOK, Rollback
<1>5. \A o \in Proc : ProcessOK(o)'
  BY <1>2, <1>3, OthersOK
<1>6. (DOMAIN seen = Proc)'
  BY DEF IInv
<1> QED BY <1>1, <1>2, <1>4, <1>5, <1>6 DEF IInv

\* So does a process that returns to its caller, or dies.
LEMMA ForgetStep ==
  ASSUME IInv, NEW p \in Proc, pc[p] # "idle",
         Forget(p), Rollback(p), readers' = readers \ {p},
         \/ acked' = acked
         \/ /\ acked' = acked \cup {req[p]}
            /\ pc[p] = "reply" /\ outcome[p] = "ok" /\ IsWrite(req[p])
  PROVE  IInv' /\ OthersKept(p)
<1>0. db' = db /\ Extends(db, db')
  BY ExtendsItself DEF Rollback
<1>p. /\ pc'[p] = "idle" /\ writer' # p /\ p \notin readers'
  BY StoreConstants DEF IInv, TypeOK, Forget, Goto, Rollback
<1>q. req[p] \in Requests
  BY DEF IInv, ProcessOK, CallOK
<1>1. TypeOK'
  BY <1>q, StoreConstants
     DEF IInv, TypeOK, Forget, Goto, Rollback, Locations, Answers
<1>2. OthersKept(p)
  BY <1>0, StoreConstants DEF IInv, TypeOK, OthersKept, Forget, Goto, Rollback
<1>3. ProcessOK(p)'
  BY <1>p DEF IInv, ProcessOK, CallOK, WriterOK, ReaderOK, AnswerOK, InTransaction
<1>4. LedgerOK'
  <2>1. acked' # acked => IsWrite(req[p]) /\ Recorded(db', req[p])
    BY <1>0 DEF IInv, ProcessOK, AnswerOK
  <2> QED BY <1>0, <2>1, AckedKept DEF IInv, LedgerOK, Rollback
<1>5. \A o \in Proc : ProcessOK(o)'
  BY <1>2, <1>3, OthersOK
<1>6. (DOMAIN seen = Proc)'
  BY DEF IInv, Forget
<1> QED BY <1>1, <1>2, <1>4, <1>5, <1>6 DEF IInv

\* A statement keeps the invariant if the transaction's ledger is what that
\* point of the operation calls for.
LEMMA ExecuteStep ==
  ASSUME IInv, NEW p \in Proc, pc[p] \in {"statement", "second"},
         NEW t, IsLedger(t), NEW next \in {"second", "commit"},
         next = "second" => \/ HalfStarted(db, t, req[p], now[p])
                            \/ HalfClosed(db, t, req[p], now[p]),
         next = "commit" => Done(db, t, req[p]),
         Execute(p, TRUE, t, next)
  PROVE  IInv' /\ OthersKept(p)
<1>0. db' = db /\ work' = t /\ writer' = writer /\ Extends(db, db')
  BY ExtendsItself DEF Execute
<1>p. pc'[p] = next /\ req' = req /\ now' = now /\ readers' = readers
  BY DEF IInv, TypeOK, Execute, Goto, call
<1>1. TypeOK'
  BY DEF IInv, TypeOK, Execute, Goto, call, Locations
<1>w. writer = p
  BY DEF IInv, ProcessOK, WriterOK, InTransaction
<1>2. OthersKept(p)
  BY <1>0, <1>w DEF IInv, TypeOK, OthersKept, Execute, Goto, call
<1>3. ProcessOK(p)'
  <2>1. CallOK(p)'
    BY <1>p DEF IInv, ProcessOK, CallOK, InTransaction
  <2>2. WriterOK(p)'
    BY <1>0, <1>p, <1>w DEF WriterOK, InTransaction
  <2>3. ReaderOK(p)' /\ AnswerOK(p)'
    BY <1>p DEF IInv, ProcessOK, ReaderOK, AnswerOK
  <2> QED BY <2>1, <2>2, <2>3 DEF ProcessOK
<1>4. LedgerOK'
  BY <1>0, <1>w, StoreConstants, AckedKept DEF IInv, LedgerOK, Execute
<1>5. \A o \in Proc : ProcessOK(o)'
  BY <1>2, <1>3, OthersOK
<1>6. (DOMAIN seen = Proc)'
  BY DEF IInv, Execute
<1> QED BY <1>1, <1>2, <1>4, <1>5, <1>6 DEF IInv

\* A read that goes on to its next query keeps the invariant.
LEMMA ReadStep ==
  ASSUME IInv, NEW p \in Proc, pc[p] \in {"read", "origin"},
         NEW location \in {"events", "origin", "resolving"}, NEW value,
         location = "events" =>
           req[p].run \in DOMAIN db.runs /\ value = db.runs[req[p].run],
         ReadTo(p, location, value),
         readers' = IF location = "events" THEN readers \cup {p} ELSE readers
  PROVE  IInv' /\ OthersKept(p)
<1>0. db' = db /\ work' = work /\ writer' = writer /\ Extends(db, db')
  BY ExtendsItself DEF ReadTo, transaction
<1>p. pc'[p] = location /\ seen'[p] = value /\ req' = req
  BY DEF IInv, TypeOK, ReadTo, Goto, call
<1>1. TypeOK'
  BY DEF IInv, TypeOK, ReadTo, Goto, call, transaction, Locations
<1>2. OthersKept(p)
  BY <1>0 DEF IInv, TypeOK, OthersKept, ReadTo, Goto, call
<1>3. ProcessOK(p)'
  BY <1>0, <1>p DEF IInv, ProcessOK, CallOK, WriterOK, ReaderOK, AnswerOK, InTransaction
<1>4. LedgerOK'
  BY <1>0, AckedKept DEF IInv, LedgerOK, ReadTo
<1>5. \A o \in Proc : ProcessOK(o)'
  BY <1>2, <1>3, OthersOK
<1>6. (DOMAIN seen = Proc)'
  BY DEF IInv, ReadTo
<1> QED BY <1>1, <1>2, <1>4, <1>5, <1>6 DEF IInv

\* BEGIN IMMEDIATE keeps the invariant: the transaction starts from the
\* committed ledger.
LEMMA BeginStep ==
  ASSUME IInv, NEW p \in Proc, Begin(p)
  PROVE  IInv' /\ OthersKept(p)
<1>0. db' = db /\ work' = work /\ work = db /\ writer = NULL /\ writer' = p /\ Extends(db, db')
  BY ExtendsItself DEF Begin, IInv, LedgerOK
<1>p. pc[p] = "begin" /\ pc'[p] = "statement" /\ req' = req /\ now' = now /\ readers' = readers
  BY DEF IInv, TypeOK, Begin, Goto, call
<1>1. TypeOK'
  BY DEF IInv, TypeOK, Begin, Goto, call, Locations
<1>2. OthersKept(p)
  BY <1>0, StoreConstants DEF IInv, TypeOK, OthersKept, Begin, Goto, call
<1>3. ProcessOK(p)'
  BY <1>0, <1>p DEF IInv, ProcessOK, CallOK, WriterOK, ReaderOK, AnswerOK, InTransaction
<1>4. LedgerOK'
  BY <1>0, StoreConstants, AckedKept DEF IInv, LedgerOK, Begin
<1>5. \A o \in Proc : ProcessOK(o)'
  BY <1>2, <1>3, OthersOK
<1>6. (DOMAIN seen = Proc)'
  BY DEF IInv, Begin
<1> QED BY <1>1, <1>2, <1>4, <1>5, <1>6 DEF IInv

\* SQLITE_BUSY with a retry left keeps the invariant: the transaction is
\* rolled back before the next attempt.
LEMMA RetryStep ==
  ASSUME IInv, NEW p \in Proc, pc[p] \in {"begin", "commit"},
         attempt[p] # BusyRetries, Busy(p)
  PROVE  IInv' /\ OthersKept(p)
<1>0. db' = db /\ Rollback(p) /\ Extends(db, db')
  BY ExtendsItself DEF Busy, Rollback
<1>p. /\ pc'[p] = "begin" /\ writer' # p /\ req' = req /\ now' = now /\ readers' = readers
      /\ p \notin readers
  BY StoreConstants DEF IInv, TypeOK, Busy, Goto, Rollback, call, ProcessOK, ReaderOK
<1>1. TypeOK'
  <2>1. attempt' \in [Proc -> 0..BusyRetries]
    BY StoreConstants DEF IInv, TypeOK, Busy
  <2> QED BY <2>1 DEF IInv, TypeOK, Busy, Goto, Rollback, call, Locations
<1>2. OthersKept(p)
  BY <1>0, StoreConstants DEF IInv, TypeOK, OthersKept, Busy, Goto, Rollback, call
<1>3. ProcessOK(p)'
  BY <1>0, <1>p DEF IInv, ProcessOK, CallOK, WriterOK, ReaderOK, AnswerOK, InTransaction
<1>4. LedgerOK'
  BY <1>0, AckedKept DEF IInv, LedgerOK, Rollback, Busy
<1>5. \A o \in Proc : ProcessOK(o)'
  BY <1>2, <1>3, OthersOK
<1>6. (DOMAIN seen = Proc)'
  BY DEF IInv, Busy
<1> QED BY <1>1, <1>2, <1>4, <1>5, <1>6 DEF IInv

\* COMMIT keeps the invariant: it publishes a complete operation while nobody
\* is inside a read transaction.
LEMMA CommitStep ==
  ASSUME IInv, NEW p \in Proc, Commit(p), DeferredKeysHold(work)
  PROVE  IInv' /\ OthersKept(p)
<1>c. /\ pc[p] = "commit" /\ db' = work /\ work' = work /\ writer' = NULL
      /\ req' = req /\ now' = now /\ readers' = readers /\ Answer(p, "ok")
      /\ readers = {} \/ work = db
  BY DEF Commit, call
<1>w. Done(db, work, req[p]) /\ writer = p
  BY <1>c DEF IInv, ProcessOK, WriterOK, InTransaction
<1>0. Sound(work) /\ Extends(db, db') /\ Recorded(db', req[p])
  BY <1>c, <1>w DEF Done
<1>p. /\ pc'[p] = "reply" /\ outcome'[p] = "ok" /\ p \notin readers /\ NULL # p
      /\ req[p] \in Requests
  BY <1>c, StoreConstants DEF IInv, TypeOK, Answer, Goto, ProcessOK, ReaderOK, CallOK
<1>1. TypeOK'
  BY <1>c DEF IInv, TypeOK, Answer, Goto, Commit, call, Locations, Answers
<1>2. OthersKept(p)
  BY <1>0, <1>c, <1>w, StoreConstants
     DEF IInv, TypeOK, OthersKept, Commit, Answer, Goto, call
<1>3. ProcessOK(p)'
  BY <1>0, <1>c, <1>p DEF ProcessOK, CallOK, WriterOK, ReaderOK, AnswerOK, InTransaction
<1>4. LedgerOK'
  BY <1>0, <1>c, AckedKept DEF LedgerOK, Sound, Commit
<1>5. \A o \in Proc : ProcessOK(o)'
  BY <1>2, <1>3, OthersOK
<1>6. (DOMAIN seen = Proc)'
  BY DEF IInv, Commit
<1> QED BY <1>1, <1>2, <1>4, <1>5, <1>6 DEF IInv

\* Entering the store keeps the invariant: invalid arguments never reach the
\* database.
LEMMA CallStep ==
  ASSUME IInv, NEW p \in Proc, Call(p)
  PROVE  IInv' /\ OthersKept(p)
<1>0. /\ db' = db /\ work' = work /\ writer' = writer /\ readers' = readers
      /\ acked' = acked /\ seen' = seen /\ attempt' = attempt /\ Extends(db, db')
  BY ExtendsItself DEF Call, transaction
<1>c. /\ pc[p] = "idle" /\ calls[p] < MaxCalls
      /\ calls' = [calls EXCEPT ![p] = @ + 1]
  BY DEF Call
<1>q. PICK q \in Requests :
        /\ req' = [req EXCEPT ![p] = q]
        /\ \/ IsWrite(q) /\ \E t \in Time : now' = [now EXCEPT ![p] = t]
           \/ ~ IsWrite(q) /\ now' = [now EXCEPT ![p] = NULL]
        /\ \/ Answer(p, "ErrInvalid")
           \/ /\ ValidRequest(q)
              /\ Goto(p, IF IsWrite(q) THEN "begin" ELSE "read")
              /\ UNCHANGED outcome
  BY DEF Call
<1>n. \E t \in Time \cup {NULL} : /\ now' = [now EXCEPT ![p] = t]
                                  /\ IsWrite(q) => t \in Time
  BY <1>q
<1>g. \E l \in Locations, a \in Answers :
         /\ pc' = [pc EXCEPT ![p] = l] /\ outcome' = [outcome EXCEPT ![p] = a]
         /\ \/ l = "reply" /\ a = "ErrInvalid"
            \/ l = "begin" /\ IsWrite(q) /\ ValidRequest(q)
            \/ l = "read"
  <2>1. CASE Answer(p, "ErrInvalid")
    BY <2>1 DEF Answer, Goto, Locations, Answers
  <2>2. CASE /\ ValidRequest(q)
             /\ Goto(p, IF IsWrite(q) THEN "begin" ELSE "read")
             /\ UNCHANGED outcome
    <3>1. outcome[p] \in Answers /\ outcome' = [outcome EXCEPT ![p] = outcome[p]]
      BY <2>2 DEF IInv, TypeOK
    <3> QED BY <2>2, <3>1 DEF Goto, Locations
  <2> QED BY <1>q, <2>1, <2>2
<1>1. TypeOK'
  <2>1. calls' \in [Proc -> 0..MaxCalls]
    BY <1>c, StoreConstants DEF IInv, TypeOK
  <2>2. pc' \in [Proc -> Locations] /\ outcome' \in [Proc -> Answers]
    BY <1>g DEF IInv, TypeOK
  <2>3. req' \in [Proc -> Requests \cup {NULL}] /\ now' \in [Proc -> Time \cup {NULL}]
    BY <1>q, <1>n DEF IInv, TypeOK
  <2> QED BY <1>0, <2>1, <2>2, <2>3 DEF IInv, TypeOK
<1>2. OthersKept(p)
  BY <1>0, <1>q, <1>n, <1>g DEF IInv, TypeOK, OthersKept
<1>p. /\ req'[p] = q
      /\ IsWrite(q) => now'[p] \in Time
      /\ \/ pc'[p] = "reply" /\ outcome'[p] = "ErrInvalid"
         \/ pc'[p] = "begin" /\ IsWrite(q) /\ ValidRequest(q)
         \/ pc'[p] = "read"
  BY <1>q, <1>n, <1>g DEF IInv, TypeOK
<1>3. ProcessOK(p)'
  BY <1>0, <1>c, <1>p
     DEF IInv, ProcessOK, CallOK, WriterOK, ReaderOK, AnswerOK, InTransaction
<1>4. LedgerOK'
  BY <1>0 DEF IInv, LedgerOK
<1>5. \A o \in Proc : ProcessOK(o)'
  BY <1>2, <1>3, OthersOK
<1> QED BY <1>0, <1>1, <1>2, <1>4, <1>5 DEF IInv

\* A read that ends keeps the invariant.
LEMMA ReadAnswerStep ==
  ASSUME IInv, NEW p \in Proc, pc[p] \in {"read", "events", "origin", "resolving"},
         NEW a \in Answers, a = "ok" => ~ IsWrite(req[p]), ReadAnswer(p, a)
  PROVE  IInv' /\ OthersKept(p)
<1>1. writer # p
  BY DEF IInv, ProcessOK, WriterOK, InTransaction
<1>2. Rollback(p)
  BY <1>1 DEF ReadAnswer, Rollback, transaction
<1> QED BY <1>2, ReplyStep DEF ReadAnswer

\* Every error path of a write keeps the invariant.
LEMMA AbortStep ==
  ASSUME IInv, NEW p \in Proc, pc[p] \in {"begin"} \cup InTransaction,
         NEW a \in Answers, a # "ok", Abort(p, a)
  PROVE  IInv' /\ OthersKept(p)
<1>1. p \notin readers
  BY DEF IInv, ProcessOK, ReaderOK, InTransaction
<1>2. readers' = readers \ {p}
  BY <1>1 DEF Abort
<1> QED BY <1>2, ReplyStep DEF Abort, InTransaction

\* So does SQLITE_BUSY, retried or given up on.
LEMMA BusyStep ==
  ASSUME IInv, NEW p \in Proc, pc[p] \in {"begin", "commit"}, Busy(p)
  PROVE  IInv' /\ OthersKept(p)
<1>1. CASE attempt[p] = BusyRetries
  <2>1. Abort(p, "ErrBusy")
    BY <1>1 DEF Busy, Abort
  <2> QED BY <2>1, AbortStep DEF Answers, InTransaction
<1>2. CASE attempt[p] # BusyRetries
  BY <1>2, RetryStep
<1> QED BY <1>1, <1>2

\* What a statement may rely on.
LEMMA StatementContext ==
  ASSUME IInv, NEW p \in Proc, pc[p] \in {"statement", "second"}
  PROVE  /\ Sound(db) /\ req[p] \in Requests /\ IsWrite(req[p]) /\ ValidRequest(req[p])
         /\ now[p] \in Time
         /\ pc[p] = "statement" => work = db
         /\ pc[p] = "second" => \/ HalfStarted(db, work, req[p], now[p])
                                \/ HalfClosed(db, work, req[p], now[p])
BY DEF IInv, TypeOK, LedgerOK, Sound, ProcessOK, CallOK, WriterOK, InTransaction

\* A statement keeps the invariant whether the schema admits it or not.
LEMMA StatementStep ==
  ASSUME IInv, NEW p \in Proc, pc[p] \in {"statement", "second"},
         NEW admitted \in BOOLEAN, NEW t, NEW next \in {"second", "commit"},
         admitted /\ next = "second" =>
           /\ IsLedger(t)
           /\ \/ HalfStarted(db, t, req[p], now[p])
              \/ HalfClosed(db, t, req[p], now[p]),
         admitted /\ next = "commit" => Done(db, t, req[p]),
         Execute(p, admitted, t, next)
  PROVE  IInv' /\ OthersKept(p)
<1>1. CASE admitted
  <2>1. Execute(p, TRUE, t, next) /\ IsLedger(t)
    BY <1>1 DEF Execute, Done, Sound
  <2> QED BY <1>1, <2>1, ExecuteStep
<1>2. CASE ~ admitted
  <2>1. Abort(p, "constraint")
    BY <1>2 DEF Execute
  <2> QED BY <2>1, AbortStep DEF Answers, InTransaction
<1> QED BY <1>1, <1>2

\* A refused request gets one of the store's errors.
LEMMA RefusalIsAnAnswer ==
  ASSUME NEW t, NEW q \in Requests, IsWrite(q), Verdict(t, q) \notin {"repeat", "insert"}
  PROVE  Verdict(t, q) \in {"ErrConflict", "ErrNotFound", "ErrOpen", "ErrInvalid"}
<1>1. q.op = "StartRun" => Verdict(t, q) = "ErrConflict"
  BY DEF Verdict, StartRunVerdict
<1>2. q.op = "CloseRun" => Verdict(t, q) \in {"ErrNotFound", "ErrInvalid", "ErrConflict"}
  BY DEF Verdict, CloseRunVerdict
<1>3. q.op = "AddFinding" => Verdict(t, q) \in {"ErrConflict", "ErrNotFound", "ErrOpen"}
  BY DEF Verdict, AddFindingVerdict
<1>4. q.op = "CloseFinding" => Verdict(t, q) \in {"ErrNotFound", "ErrInvalid", "ErrConflict"}
  BY DEF Verdict, CloseFindingVerdict
<1> QED BY <1>1, <1>2, <1>3, <1>4, RequestKinds

\* Every statement of every write keeps the invariant.
LEMMA WriteSteps ==
  ASSUME IInv, NEW p \in Proc,
         \/ Refuse(p) \/ Repeat(p) \/ InsertRun(p) \/ InsertStartEvent(p)
         \/ InsertTerminalEvent(p) \/ UpdateRun(p) \/ InsertFinding(p) \/ InsertClosure(p)
  PROVE  IInv' /\ OthersKept(p)
<1> DEFINE q == req[p]
           n == now[p]
<1>c. pc[p] \in {"statement", "second"}
  BY DEF Refuse, Repeat, InsertRun, InsertStartEvent, InsertTerminalEvent, UpdateRun,
         InsertFinding, InsertClosure, Inserts
<1>s. /\ Sound(db) /\ q \in Requests /\ IsWrite(q) /\ ValidRequest(q) /\ n \in Time
      /\ pc[p] = "statement" => work = db
      /\ pc[p] = "second" => HalfStarted(db, work, q, n) \/ HalfClosed(db, work, q, n)
  BY <1>c, StatementContext
<1>1. CASE Refuse(p)
  BY <1>1, <1>s, RefusalIsAnAnswer, AbortStep DEF Refuse, InTransaction, Answers
<1>2. CASE Repeat(p)
  <2>1. Done(db, work, q)
    BY <1>2, <1>s, RepeatIsDone DEF Repeat
  <2> QED BY <1>2, <1>c, <2>1, StatementStep DEF Repeat
<1>3. CASE InsertRun(p)
  <2> DEFINE row == OpenRun(q.start, q.event, n)
             t == [work EXCEPT !.runs = Put(@, q.run, row)]
             ok == MayInsertRun(work, q.run, row)
  <2>1. Execute(p, ok, t, "second")
    BY <1>3 DEF InsertRun
  <2>2. HalfStarted(db, t, q, n)
    BY <1>3, <1>s, BeginStart DEF InsertRun, Inserts
  <2>3. IsLedger(t)
    BY <2>2, <1>s, HalfStartedTyped
  <2>4. ok \in BOOLEAN
    BY DEF MayInsertRun
  <2> HIDE DEF t, ok
  <2> QED BY <1>c, <2>1, <2>2, <2>3, <2>4, StatementStep
<1>4. CASE InsertStartEvent(p)
  <2> DEFINE row == StartEvent(q.run, q.start, n)
             t == [work EXCEPT !.events = Put(@, q.event, row)]
             ok == MayInsertEvent(work, q.event, row)
  <2>1. Execute(p, ok, t, "commit")
    BY <1>4 DEF InsertStartEvent
  <2>2. HalfStarted(db, work, q, n)
    BY <1>4, <1>s DEF InsertStartEvent, HalfClosed
  <2>3. Done(db, t, q)
    BY <2>2, <1>s, EndStart
  <2>4. ok \in BOOLEAN
    BY DEF MayInsertEvent
  <2> HIDE DEF t, ok
  <2> QED BY <1>c, <2>1, <2>3, <2>4, StatementStep
<1>5. CASE InsertTerminalEvent(p)
  <2> DEFINE row == TerminalEvent(q.run, LastSequence(work, q.run) + 1, q.close, n)
             t == [work EXCEPT !.events = Put(@, q.event, row)]
             ok == MayInsertEvent(work, q.event, row)
  <2>1. Execute(p, ok, t, "second")
    BY <1>5 DEF InsertTerminalEvent
  <2>2. HalfClosed(db, t, q, n)
    BY <1>5, <1>s, BeginClose DEF InsertTerminalEvent, Inserts
  <2>3. IsLedger(t)
    BY <2>2, <1>s, HalfClosedTyped
  <2>4. ok \in BOOLEAN
    BY DEF MayInsertEvent
  <2> HIDE DEF t, ok
  <2> QED BY <1>c, <2>1, <2>2, <2>3, <2>4, StatementStep
<1>6. CASE UpdateRun(p)
  <2> DEFINE row == ClosedRun(work.runs[q.run], q.close, q.event, n)
             t == [work EXCEPT !.runs = Put(@, q.run, row)]
             ok == MayUpdateRun(work, q.run, row)
  <2>1. Execute(p, ok, t, "commit")
    BY <1>6 DEF UpdateRun
  <2>2. HalfClosed(db, work, q, n)
    BY <1>6, <1>s DEF UpdateRun, HalfStarted
  <2>3. ok => Done(db, t, q)
    BY <2>2, <1>s, EndClose
  <2>4. ok \in BOOLEAN
    BY DEF MayUpdateRun
  <2> HIDE DEF t, ok
  <2> QED BY <1>c, <2>1, <2>3, <2>4, StatementStep
<1>7. CASE InsertFinding(p)
  <2> DEFINE row == [origin |-> q.origin, content |-> q.content, recordedAt |-> n]
             t == [work EXCEPT !.findings = Put(@, q.finding, row)]
             ok == MayInsertFinding(work, q.finding, row)
  <2>1. Execute(p, ok, t, "commit")
    BY <1>7 DEF InsertFinding
  <2>2. Done(db, t, q)
    BY <1>7, <1>s, AddIsDone DEF InsertFinding, Inserts
  <2>3. ok \in BOOLEAN
    BY DEF MayInsertFinding
  <2> HIDE DEF t, ok
  <2> QED BY <1>c, <2>1, <2>2, <2>3, StatementStep
<1>8. CASE InsertClosure(p)
  <2> DEFINE row == [finding |-> q.finding, disposition |-> q.disposition,
                     resolving |-> q.resolving, content |-> q.content, recordedAt |-> n]
             t == [work EXCEPT !.closures = Put(@, q.closure, row)]
             ok == MayInsertClosure(work, q.closure, row)
  <2>1. Execute(p, ok, t, "commit")
    BY <1>8 DEF InsertClosure
  <2>2. ok => Done(db, t, q)
    BY <1>8, <1>s, SettleIsDone DEF InsertClosure, Inserts
  <2>3. ok \in BOOLEAN
    BY DEF MayInsertClosure
  <2> HIDE DEF t, ok
  <2> QED BY <1>c, <2>1, <2>2, <2>3, StatementStep
<1> QED BY <1>1, <1>2, <1>3, <1>4, <1>5, <1>6, <1>7, <1>8

\* The write loop keeps the invariant.
LEMMA CommitSteps ==
  ASSUME IInv, NEW p \in Proc,
         Begin(p) \/ BeginBusy(p) \/ Commit(p) \/ CommitBusy(p)
  PROVE  IInv' /\ OthersKept(p)
<1>1. CASE Begin(p)
  BY <1>1, BeginStep
<1>2. CASE BeginBusy(p)
  BY <1>2, BusyStep DEF BeginBusy
<1>3. CASE Commit(p)
  <2>1. CASE DeferredKeysHold(work)
    BY <1>3, <2>1, CommitStep
  <2>2. CASE ~ DeferredKeysHold(work)
    BY <1>3, <2>2, AbortStep DEF Commit, InTransaction, Answers
  <2> QED BY <2>1, <2>2
<1>4. CASE CommitBusy(p)
  BY <1>4, BusyStep DEF CommitBusy
<1> QED BY <1>1, <1>2, <1>3, <1>4

\* Every read keeps the invariant.
LEMMA ReadSteps ==
  ASSUME IInv, NEW p \in Proc,
         \/ SnapshotRun(p) \/ SnapshotEvents(p) \/ ReadBusy(p)
         \/ ShowFinding(p) \/ ShowOriginRun(p) \/ ShowResolvingRun(p)
  PROVE  IInv' /\ OthersKept(p)
<1> DEFINE q == req[p]
<1>a. {"ok", "busy", "ErrNotFound", "ErrOpen", "inconsistent"} \subseteq Answers
  BY DEF Answers
<1>1. CASE SnapshotRun(p)
  <2>1. pc[p] = "read"
    BY <1>1 DEF SnapshotRun, Reading
  <2>2. CASE q.run \in DOMAIN db.runs
    <3>1. readers' = readers \cup {p} /\ ReadTo(p, "events", db.runs[q.run])
      BY <1>1, <2>2 DEF SnapshotRun
    <3> QED BY <2>1, <2>2, <3>1, ReadStep
  <2>3. CASE q.run \notin DOMAIN db.runs
    BY <1>1, <1>a, <2>1, <2>3, ReadAnswerStep DEF SnapshotRun
  <2> QED BY <2>2, <2>3
<1>2. CASE SnapshotEvents(p)
  <2>1. pc[p] = "events" /\ ~ IsWrite(q)
    BY <1>2 DEF SnapshotEvents, Reading, IsWrite
  <2>2. \E a \in {"ErrOpen", "ok", "inconsistent"} : ReadAnswer(p, a)
    BY <1>2 DEF SnapshotEvents
  <2> QED BY <1>a, <2>1, <2>2, ReadAnswerStep
<1>3. CASE ReadBusy(p)
  BY <1>3, <1>a, ReadAnswerStep DEF ReadBusy
<1>4. CASE ShowFinding(p)
  <2>1. pc[p] = "read"
    BY <1>4 DEF ShowFinding, Reading
  <2>2. CASE q.finding \in DOMAIN db.findings
    <3>1. \E v : ReadTo(p, "origin", v) /\ readers' = readers
      BY <1>4, <2>2 DEF ShowFinding
    <3> QED BY <2>1, <3>1, ReadStep
  <2>3. CASE q.finding \notin DOMAIN db.findings
    BY <1>4, <1>a, <2>1, <2>3, ReadAnswerStep DEF ShowFinding
  <2> QED BY <2>2, <2>3
<1>5. CASE ShowOriginRun(p)
  <2>1. pc[p] = "origin" /\ ~ IsWrite(q)
    BY <1>5 DEF ShowOriginRun, Reading, IsWrite
  <2>2. \/ \E a \in {"ok", "inconsistent"} : ReadAnswer(p, a)
        \/ ReadTo(p, "resolving", seen[p]) /\ readers' = readers
    BY <1>5 DEF ShowOriginRun
  <2>3. CASE \E a \in {"ok", "inconsistent"} : ReadAnswer(p, a)
    BY <1>a, <2>1, <2>3, ReadAnswerStep
  <2>4. CASE ReadTo(p, "resolving", seen[p]) /\ readers' = readers
    BY <2>1, <2>4, ReadStep
  <2> QED BY <2>2, <2>3, <2>4
<1>6. CASE ShowResolvingRun(p)
  <2>1. pc[p] = "resolving" /\ ~ IsWrite(q)
    BY <1>6 DEF ShowResolvingRun, Reading, IsWrite
  <2>2. \E a \in {"ok", "inconsistent"} : ReadAnswer(p, a)
    BY <1>6 DEF ShowResolvingRun
  <2> QED BY <1>a, <2>1, <2>2, ReadAnswerStep
<1> QED BY <1>1, <1>2, <1>3, <1>4, <1>5, <1>6

\* Answers, cancellations and crashes, at any point of a call, keep the
\* invariant.
LEMMA EndSteps ==
  ASSUME IInv, NEW p \in Proc, Return(p) \/ Cancel(p) \/ Crash(p)
  PROVE  IInv' /\ OthersKept(p)
<1>1. CASE Return(p)
  <2>1. pc[p] = "reply" /\ writer # p /\ p \notin readers
    BY <1>1 DEF Return, IInv, ProcessOK, WriterOK, ReaderOK, InTransaction
  <2>2. Rollback(p) /\ readers' = readers \ {p}
    BY <1>1, <2>1 DEF Return, Rollback, transaction
  <2> QED BY <1>1, <2>1, <2>2, ForgetStep DEF Return
<1>2. CASE Cancel(p)
  BY <1>2, ReplyStep DEF Cancel, Answers
<1>3. CASE Crash(p)
  BY <1>3, ForgetStep DEF Crash
<1> QED BY <1>1, <1>2, <1>3

\* Whatever a process does, the invariant holds afterwards and the other
\* processes find their locks and variables as they left them.
LEMMA StepKeeps ==
  ASSUME IInv, NEW p \in Proc, Call(p) \/ Advance(p) \/ Cancel(p) \/ Crash(p)
  PROVE  IInv' /\ OthersKept(p)
BY CallStep, WriteSteps, CommitSteps, ReadSteps, EndSteps DEF Advance

\* The invariant is inductive, and no step of any process, crash included,
\* takes back or changes what the ledger holds.
THEOREM InvariantKept ==
  ASSUME IInv, [Next]_vars
  PROVE  IInv' /\ Extends(db, db')
<1>1. CASE UNCHANGED vars
  <2>1. Extends(db, db')
    BY <1>1, ExtendsItself DEF vars
  <2>2. TypeOK'
    BY <1>1 DEF IInv, TypeOK, vars
  <2>3. LedgerOK'
    BY <1>1 DEF IInv, LedgerOK, vars
  <2>4. \A p \in Proc : ProcessOK(p)'
    BY <1>1 DEF IInv, ProcessOK, CallOK, WriterOK, ReaderOK, AnswerOK, vars
  <2> QED BY <1>1, <2>1, <2>2, <2>3, <2>4 DEF IInv, vars
<1>2. CASE Next
  <2>1. PICK p \in Proc : Call(p) \/ Advance(p) \/ Cancel(p) \/ Crash(p)
    BY <1>2 DEF Next
  <2> QED BY <2>1, StepKeeps DEF OthersKept
<1> QED BY <1>1, <1>2

\* The invariant holds when the program starts on a ledger an earlier session
\* left.
LEMMA InitialInvariant == Init => IInv
<1> SUFFICES ASSUME Init PROVE IInv
  OBVIOUS
<1>1. TypeOK
  BY StoreConstants DEF Init, TypeOK, Locations, Answers
<1>2. LedgerOK
  BY StoreConstants DEF Init, LedgerOK
<1>3. \A p \in Proc : ProcessOK(p)
  BY StoreConstants
     DEF Init, ProcessOK, CallOK, WriterOK, ReaderOK, AnswerOK, InTransaction
<1>4. DOMAIN seen = Proc
  BY DEF Init
<1> QED BY <1>1, <1>2, <1>3, <1>4 DEF IInv

\* The invariant holds in every reachable state, for any number of processes,
\* retries and calls and any sets of identifiers and values.
THEOREM InvariantHolds == Spec => []IInv
<1>1. IInv /\ [Next]_vars => IInv'
  BY InvariantKept
<1> QED BY <1>1, InitialInvariant, PTL DEF Spec

\* Every variable of the store keeps its type.
THEOREM TypeCorrect == Spec => []TypeOK
<1>1. IInv => TypeOK
  BY DEF IInv
<1> QED BY <1>1, InvariantHolds, PTL

\* Whatever interleaving, retry, cancellation or crash of writes produced it,
\* the committed ledger passes every row check of `motus doctor'.
THEOREM LedgerStaysSound == Spec => []DoctorFindsNothing
<1>1. IInv => DoctorFindsNothing
  BY DEF IInv, LedgerOK, DoctorFindsNothing
<1> QED BY <1>1, InvariantHolds, PTL

\* Every write whose caller was told it succeeded is in the ledger, exactly
\* as requested.
THEOREM NothingAcknowledgedIsLost == Spec => []AcknowledgedIsRecorded
<1>1. IInv => AcknowledgedIsRecorded
  BY DEF IInv, LedgerOK, AcknowledgedIsRecorded
<1> QED BY <1>1, InvariantHolds, PTL

\* The two SELECTs of Snapshot always see one state of the run, so a receipt
\* never mixes an open run with terminal events or the reverse.
THEOREM SnapshotsAreConsistent == Spec => []SnapshotsAgree
<1>1. IInv => SnapshotsAgree
  BY DEF IInv, LedgerOK, ProcessOK, ReaderOK, SnapshotsAgree, Doctor,
         checkRunTerminalRecords
<1> QED BY <1>1, InvariantHolds, PTL

\* No step changes or removes an event, a finding, a closure or the receipt
\* of a closed run.
THEOREM HistoryOnlyGrows == Spec => AppendOnly
<1>1. IInv /\ [Next]_vars => [Extends(db, db')]_vars
  BY InvariantKept
<1> QED BY <1>1, InvariantHolds, PTL DEF Spec, AppendOnly

-----------------------------------------------------------------------------
\* A ledger that holds a request accepts it, and calls it a repetition.
LEMMA RecordedIsRepeat ==
  ASSUME NEW t, Sound(t), NEW q \in Requests, IsWrite(q), Recorded(t, q)
  PROVE  ValidRequest(q) /\ Verdict(t, q) = "repeat"
<1>d. /\ \A r \in DOMAIN t.runs : validateRunProjection(t.runs[r])
      /\ checkFindingRecords(t)
  BY DEF Sound, Doctor, checkRunTerminalRecords, validateSnapshotConsistency
<1>1. CASE q.op = "StartRun"
  BY <1>1, <1>d DEF Recorded, AlreadyStarted, validateRunProjection, ValidRequest,
                    Verdict, StartRunVerdict
<1>2. CASE q.op = "CloseRun"
  <2> DEFINE row == t.runs[q.run]
  <2>1. AlreadyClosed(t, q)
    BY <1>2 DEF Recorded
  <2>2. q.run \in DOMAIN t.runs /\ row.state = "closed" /\ row.close = q.close
    BY <2>1 DEF AlreadyClosed, IsClosed
  <2>3. row.close.endedAt >= row.start.startedAt /\ validateClose(row.close)
    BY <1>d, <2>2 DEF validateRunProjection
  <2>4. ~ (q.close.endedAt < row.start.startedAt)
    <3>1. row \in Run /\ q.close \in Close
      BY <1>2, <2>2, StoredRow, RequestKinds DEF Sound, IsLedger, CloseRequest
    <3>2. q.close.endedAt \in Nat /\ row.start.startedAt \in Nat
      BY <3>1, RecordConstants DEF Run, Start, Close
    <3> QED BY <3>2, <2>2, <2>3
  <2>5. ValidRequest(q)
    BY <1>2, <2>2, <2>3 DEF ValidRequest
  <2> QED BY <1>2, <2>1, <2>2, <2>4, <2>5 DEF Verdict, CloseRunVerdict
<1>3. CASE q.op = "AddFinding"
  BY <1>3 DEF Recorded, AlreadyAdded, ValidRequest, Verdict, AddFindingVerdict
<1>4. CASE q.op = "CloseFinding"
  <2>1. AlreadyResolved(t, q)
    BY <1>4 DEF Recorded
  <2>2. q.closure \in ClosuresOf(t, q.finding) /\ q.closure \in DOMAIN t.closures
        /\ t.closures[q.closure].finding = q.finding
    BY <2>1 DEF AlreadyResolved, ClosuresOf
  <2>3. ValidRequest(q)
    BY <1>4, <1>d, <2>1, <2>2 DEF AlreadyResolved, checkFindingRecords, ValidRequest
  <2>4. q.finding \in DOMAIN t.findings
    BY <2>2 DEF Sound, Doctor, checkForeignKeys
  <2> QED BY <1>4, <2>1, <2>2, <2>3, <2>4 DEF Verdict, CloseFindingVerdict
<1> QED BY <1>1, <1>2, <1>3, <1>4, RequestKinds

\* Every step of a process moves that process alone.
LEMMA OnlyOneMoves ==
  ASSUME NEW o \in Proc, Call(o) \/ Advance(o) \/ Cancel(o) \/ Crash(o)
  PROVE  \E location : Goto(o, location)
<1>1. CASE Call(o)
  BY <1>1 DEF Call, Answer
<1>2. CASE Begin(o) \/ BeginBusy(o) \/ Commit(o) \/ CommitBusy(o)
  BY <1>2 DEF Begin, BeginBusy, Commit, CommitBusy, Busy, Abort, Answer
<1>3. CASE Refuse(o) \/ Repeat(o)
  BY <1>3 DEF Refuse, Repeat, Execute, Abort, Answer
<1>4. CASE InsertRun(o) \/ InsertStartEvent(o) \/ InsertTerminalEvent(o) \/ UpdateRun(o)
           \/ InsertFinding(o) \/ InsertClosure(o)
  <2>1. \E admitted, t, next : Execute(o, admitted, t, next)
    BY <1>4 DEF InsertRun, InsertStartEvent, InsertTerminalEvent, UpdateRun,
                InsertFinding, InsertClosure
  <2> QED BY <2>1 DEF Execute, Abort, Answer
<1>5. CASE SnapshotRun(o) \/ SnapshotEvents(o) \/ ReadBusy(o)
           \/ ShowFinding(o) \/ ShowOriginRun(o) \/ ShowResolvingRun(o)
  <2>1. (\E l, v : ReadTo(o, l, v)) \/ (\E a : ReadAnswer(o, a))
    BY <1>5 DEF SnapshotRun, SnapshotEvents, ReadBusy, ShowFinding, ShowOriginRun,
                ShowResolvingRun
  <2> QED BY <2>1 DEF ReadTo, ReadAnswer, Answer
<1>6. CASE Return(o) \/ Cancel(o) \/ Crash(o)
  BY <1>6 DEF Return, Cancel, Crash, Forget, Answer
<1> QED BY <1>1, <1>2, <1>3, <1>4, <1>5, <1>6 DEF Advance

\* A process whose request is already in the ledger is not refused by any of
\* its own steps.
LEMMA NoRefusal ==
  ASSUME IInv, NEW p \in Proc, Call(p) \/ Advance(p) \/ Cancel(p) \/ Crash(p),
         pc[p] # "reply", pc'[p] = "reply", IsWrite(req'[p]), Recorded(db, req'[p])
  PROVE  outcome'[p] \notin Refusals
<1>a. \A a : Answer(p, a) => outcome'[p] = a
  BY DEF IInv, TypeOK, Answer
<1>g. \A l : Goto(p, l) => l = "reply"
  BY DEF IInv, TypeOK, Goto
<1>s. Sound(db)
  BY DEF IInv, TypeOK, LedgerOK, Sound
<1>1. CASE Call(p)
  <2>1. PICK q \in Requests :
          /\ req'[p] = q
          /\ IF ~ ValidRequest(q) THEN Answer(p, "ErrInvalid")
             ELSE Goto(p, IF IsWrite(q) THEN "begin" ELSE "read")
    BY <1>1 DEF Call, IInv, TypeOK
  <2>2. ValidRequest(q)
    BY <1>s, <2>1, RecordedIsRepeat
  <2> QED BY <2>1, <2>2, <1>g
<1>2. CASE Cancel(p)
  BY <1>2, <1>a DEF Cancel, Refusals
<1>3. CASE Return(p) \/ Crash(p)
  BY <1>3, <1>g DEF Return, Crash, Forget
<1>4. CASE Begin(p)
  BY <1>4, <1>g DEF Begin
<1>5. CASE BeginBusy(p) \/ CommitBusy(p)
  BY <1>5, <1>a, <1>g DEF BeginBusy, CommitBusy, Busy, Refusals
<1>6. CASE \/ Refuse(p) \/ InsertRun(p) \/ InsertTerminalEvent(p)
           \/ InsertFinding(p) \/ InsertClosure(p)
  <2>1. pc[p] = "statement" /\ Verdict(work, req[p]) # "repeat" /\ req' = req
    BY <1>6 DEF Refuse, InsertRun, InsertTerminalEvent, InsertFinding, InsertClosure,
                Inserts, Execute, Abort, call
  <2>2. work = db /\ req[p] \in Requests
    BY <2>1, StatementContext
  <2> QED BY <1>s, <2>1, <2>2, RecordedIsRepeat
<1>7. CASE Repeat(p)
  BY <1>7, <1>g DEF Repeat, Execute
<1>8. CASE InsertStartEvent(p) \/ UpdateRun(p)
  <2>1. pc[p] = "second" /\ req' = req
    BY <1>8 DEF InsertStartEvent, UpdateRun, Execute, Abort, call
  <2>2. HalfStarted(db, work, req[p], now[p]) \/ HalfClosed(db, work, req[p], now[p])
    BY <2>1, StatementContext
  <2> QED BY <2>1, <2>2
          DEF HalfStarted, HalfClosed, Recorded, AlreadyStarted, AlreadyClosed, IsClosed
<1>9. CASE Commit(p)
  <2>1. DeferredKeysHold(work)
    BY <1>9 DEF Commit, IInv, ProcessOK, WriterOK, Done, Sound, Doctor, checkForeignKeys
  <2> QED BY <1>9, <2>1, <1>a DEF Commit, Refusals
<1>10. CASE SnapshotRun(p) \/ SnapshotEvents(p) \/ ShowFinding(p) \/ ShowOriginRun(p)
            \/ ShowResolvingRun(p)
  <2>1. ~ IsWrite(req[p]) /\ req' = req
    BY <1>10 DEF SnapshotRun, SnapshotEvents, ShowFinding, ShowOriginRun, ShowResolvingRun,
                 Reading, ReadTo, ReadAnswer, call, IsWrite
  <2> QED BY <2>1
<1>11. CASE ReadBusy(p)
  BY <1>11, <1>a DEF ReadBusy, ReadAnswer, Refusals
<1> QED BY <1>1, <1>2, <1>3, <1>4, <1>5, <1>6, <1>7, <1>8, <1>9, <1>10, <1>11 DEF Advance

\* A write already in the ledger, made again by any process, after a crash or
\* a lost answer, is never refused.
THEOREM RetriesAreIdempotent == Spec => RetryNeverRefused
<1> DEFINE Kept == \A p \in Proc :
             pc[p] # "reply" /\ pc'[p] = "reply" /\ IsWrite(req'[p])
               /\ Recorded(db, req'[p])
             => outcome'[p] \notin Refusals
<1>1. IInv /\ [Next]_vars => [Kept]_vars
  <2> SUFFICES ASSUME IInv, Next PROVE Kept
    OBVIOUS
  <2> SUFFICES ASSUME NEW p \in Proc, pc[p] # "reply", pc'[p] = "reply",
                      IsWrite(req'[p]), Recorded(db, req'[p])
               PROVE  outcome'[p] \notin Refusals
    OBVIOUS
  <2>1. PICK o \in Proc : Call(o) \/ Advance(o) \/ Cancel(o) \/ Crash(o)
    BY DEF Next
  <2>2. o = p
    BY <2>1, OnlyOneMoves DEF Goto, IInv, TypeOK
  <2> QED BY <2>1, <2>2, NoRefusal
<1> QED BY <1>1, InvariantHolds, PTL DEF Spec, RetryNeverRefused

-----------------------------------------------------------------------------
(* A call takes a bounded number of steps.                                 *)

\* The steps of a call from where it stands, counted from its answer; a busy
\* ledger sends it back to BEGIN, until its retries are used up.
StepsFrom(location) ==
  CASE location = "begin" -> 5
    [] location \in {"statement", "read"} -> 4
    [] location \in {"second", "origin"} -> 3
    [] location \in {"commit", "events", "resolving"} -> 2
    [] OTHER -> 1

StepsLeft(p) == StepsFrom(pc[p]) + 4 * (BusyRetries - attempt[p])
LongestCall == 5 + 4 * BusyRetries

\* A step of p, and of p alone, that begins or ends its call or takes it on.
Approaches(p) ==
  /\ \A o \in Proc \ {p} : pc'[o] = pc[o] /\ attempt'[o] = attempt[o]
  /\ pc[p] = "idle" \/ pc'[p] = "idle" \/ StepsLeft(p)' < StepsLeft(p)

\* A step to a place further on.
LEMMA GotoApproaches ==
  ASSUME TypeOK, NEW p \in Proc, NEW l, Goto(p, l), UNCHANGED attempt,
         StepsFrom(l) < StepsFrom(pc[p])
  PROVE  Approaches(p)
<1>1. /\ pc'[p] = l /\ attempt'[p] = attempt[p] /\ attempt[p] \in Int /\ BusyRetries \in Int
      /\ \A o \in Proc \ {p} : pc'[o] = pc[o] /\ attempt'[o] = attempt[o]
  BY StoreConstants DEF TypeOK, Goto
<1>2. StepsFrom(l) \in Int /\ StepsFrom(pc[p]) \in Int
  BY DEF StepsFrom
<1>3. StepsLeft(p)' = StepsFrom(l) + 4 * (BusyRetries - attempt[p])
  BY <1>1 DEF StepsLeft
<1>4. StepsLeft(p)' < StepsLeft(p)
  BY <1>1, <1>2, <1>3 DEF StepsLeft
<1> QED BY <1>1, <1>4 DEF Approaches

\* The answer is the last place but one.
LEMMA AnswerApproaches ==
  ASSUME TypeOK, NEW p \in Proc, NEW answer, Answer(p, answer), UNCHANGED attempt,
         pc[p] \in Locations \ {"idle", "reply"}
  PROVE  Approaches(p)
<1>1. StepsFrom("reply") < StepsFrom(pc[p])
  BY DEF StepsFrom, Locations
<1> QED BY <1>1, GotoApproaches DEF Answer

\* A busy ledger costs a retry.
LEMMA BusyApproaches ==
  ASSUME TypeOK, NEW p \in Proc, Busy(p), pc[p] \in {"begin", "commit"}
  PROVE  Approaches(p)
<1>1. CASE attempt[p] = BusyRetries
  BY <1>1, AnswerApproaches DEF Busy, Locations
<1>2. CASE attempt[p] # BusyRetries
  <2>1. /\ pc'[p] = "begin" /\ attempt'[p] = attempt[p] + 1
        /\ attempt[p] \in Int /\ BusyRetries \in Int
        /\ \A o \in Proc \ {p} : pc'[o] = pc[o] /\ attempt'[o] = attempt[o]
    BY <1>2, StoreConstants DEF TypeOK, Busy, Goto
  <2>2. StepsLeft(p)' = 5 + 4 * (BusyRetries - (attempt[p] + 1))
    BY <2>1 DEF StepsLeft, StepsFrom
  <2>3. StepsLeft(p) >= 2 + 4 * (BusyRetries - attempt[p])
    BY <2>1 DEF StepsLeft, StepsFrom
  <2>4. StepsLeft(p)' < StepsLeft(p)
    <3>1. StepsLeft(p) \in Int
      BY <2>1 DEF StepsLeft, StepsFrom
    <3> QED BY <2>1, <2>2, <2>3, <3>1
  <2> QED BY <2>1, <2>4 DEF Approaches
<1> QED BY <1>1, <1>2

\* A call begins or ends.
LEMMA EdgeApproaches ==
  ASSUME TypeOK, NEW p \in Proc, Call(p) \/ Return(p) \/ Crash(p)
  PROVE  Approaches(p)
<1>1. CASE Call(p)
  <2>1. pc[p] = "idle" /\ UNCHANGED attempt /\ \E location : Goto(p, location)
    BY <1>1, OnlyOneMoves DEF Call
  <2> QED BY <2>1 DEF TypeOK, Goto, Approaches
<1>2. CASE Return(p) \/ Crash(p)
  BY <1>2 DEF Return, Crash, Forget, Goto, TypeOK, Approaches
<1> QED BY <1>1, <1>2

\* Every step of a call.
LEMMA StepApproaches ==
  ASSUME TypeOK, NEW p \in Proc, Call(p) \/ Advance(p) \/ Cancel(p) \/ Crash(p)
  PROVE  Approaches(p)
<1>0. pc[p] \in Locations
  BY DEF TypeOK
<1>1. CASE Begin(p)
  BY <1>1, GotoApproaches DEF Begin, StepsFrom
<1>2. CASE BeginBusy(p) \/ CommitBusy(p)
  BY <1>2, BusyApproaches DEF BeginBusy, CommitBusy
<1>3. CASE Refuse(p) \/ Commit(p) \/ Cancel(p)
  BY <1>0, <1>3, AnswerApproaches DEF Refuse, Commit, Cancel, Abort, Locations
<1>a. ASSUME NEW admitted, NEW t, NEW next \in {"second", "commit"},
             Execute(p, admitted, t, next),
             pc[p] = "statement" \/ (pc[p] = "second" /\ next = "commit")
      PROVE  Approaches(p)
  <2>1. CASE admitted
    <3>1. StepsFrom(next) < StepsFrom(pc[p])
      BY <1>a DEF StepsFrom
    <3> QED BY <1>a, <2>1, <3>1, GotoApproaches DEF Execute
  <2>2. CASE ~ admitted
    BY <1>0, <1>a, <2>2, AnswerApproaches DEF Execute, Abort
  <2> QED BY <2>1, <2>2
<1>4. CASE Repeat(p) \/ InsertFinding(p) \/ InsertClosure(p)
  BY <1>4, <1>a DEF Repeat, InsertFinding, InsertClosure, Inserts
<1>5. CASE InsertRun(p) \/ InsertTerminalEvent(p)
  BY <1>5, <1>a DEF InsertRun, InsertTerminalEvent, Inserts
<1>6. CASE InsertStartEvent(p) \/ UpdateRun(p)
  BY <1>6, <1>a DEF InsertStartEvent, UpdateRun
<1>7. CASE SnapshotRun(p) \/ SnapshotEvents(p) \/ ReadBusy(p) \/ ShowFinding(p)
           \/ ShowOriginRun(p) \/ ShowResolvingRun(p)
  <2>1. /\ pc[p] \in {"read", "events", "origin", "resolving"}
        /\ \/ \E answer : ReadAnswer(p, answer)
           \/ \E value : \/ pc[p] = "read" /\ ReadTo(p, "events", value)
                         \/ pc[p] = "read" /\ ReadTo(p, "origin", value)
                         \/ pc[p] = "origin" /\ ReadTo(p, "resolving", value)
    BY <1>7 DEF SnapshotRun, SnapshotEvents, ReadBusy, ShowFinding, ShowOriginRun,
                ShowResolvingRun, Reading
  <2>2. CASE \E answer : ReadAnswer(p, answer)
    BY <2>1, <2>2, AnswerApproaches DEF ReadAnswer, Locations
  <2>3. CASE ~ \E answer : ReadAnswer(p, answer)
    <3>1. PICK value : \/ pc[p] = "read" /\ ReadTo(p, "events", value)
                       \/ pc[p] = "read" /\ ReadTo(p, "origin", value)
                       \/ pc[p] = "origin" /\ ReadTo(p, "resolving", value)
      BY <2>1, <2>3
    <3>2. StepsFrom("events") < StepsFrom("read") /\ StepsFrom("origin") < StepsFrom("read")
          /\ StepsFrom("resolving") < StepsFrom("origin")
      BY DEF StepsFrom
    <3> QED BY <3>1, <3>2, GotoApproaches DEF ReadTo
  <2> QED BY <2>2, <2>3
<1>8. CASE Call(p) \/ Return(p) \/ Crash(p)
  BY <1>8, EdgeApproaches
<1> QED BY <1>1, <1>2, <1>3, <1>4, <1>5, <1>6, <1>7, <1>8 DEF Advance

\* No call goes on forever, whatever the others do: it has at most LongestCall
\* steps before it, and every step of the ledger is a step of one process
\* which begins or ends a call or lowers that number for the call it is in
\* (the write loop returns ErrBusy, never tries without end).  CallsSettle
\* adds that a call under way always has a step to take.
StepsAreBounded == \A p \in Proc : StepsLeft(p) \in 1..LongestCall
StepsRunOut == [][\E p \in Proc : Approaches(p)]_vars

THEOREM CallsEnd == Spec => []StepsAreBounded /\ StepsRunOut
<1>1. TypeOK => StepsAreBounded
  <2> SUFFICES ASSUME TypeOK, NEW p \in Proc PROVE StepsLeft(p) \in 1..LongestCall
    BY DEF StepsAreBounded
  <2>1. attempt[p] \in 0..BusyRetries /\ BusyRetries \in Nat
    BY StoreConstants DEF TypeOK
  <2>2. StepsFrom(pc[p]) \in 1..5
    BY DEF StepsFrom
  <2> QED BY <2>1, <2>2 DEF StepsLeft, LongestCall
<1>2. TypeOK /\ [Next]_vars => [\E p \in Proc : Approaches(p)]_vars
  BY StepApproaches DEF Next
<1> QED BY <1>1, <1>2, TypeCorrect, PTL DEF Spec, StepsRunOut

-----------------------------------------------------------------------------
(***************************************************************************)
(* What the callers of the store are told, and what they may believe of it *)
(* between two calls: a read that found a finding finds the runs it links  *)
(* to, the schema overrules the code in two cases only, and the store      *)
(* implements LedgerPromise, in which every call is one indivisible step.  *)
(*                                                                         *)
(* AnswersInv adds to IInv, for each process, why its answer or its        *)
(* transaction is what it is: LinkOK what a `finding show' has read,       *)
(* SchemaOK the cause of a constraint error, EffectOK that a transaction   *)
(* about to commit differs from the committed ledger by the rows of its    *)
(* own request alone.  A step of another process keeps all three, because  *)
(* it extends the ledger and leaves the writer's work alone (OthersKept).  *)
(***************************************************************************)

\* `finding show' never contradicts itself: the runs it has yet to read are
\* in the ledger.
LinkOK(p) ==
  /\ outcome[p] # "inconsistent"
  /\ pc[p] \in {"origin", "resolving"} =>
       seen[p].origin \in DOMAIN db.runs /\ seen[p].resolving \subseteq DOMAIN db.runs

\* Why the schema refused a statement; the run was there to be closed.
SchemaOK(p) ==
  pc[p] = "reply" /\ outcome[p] = "constraint" =>
    \/ /\ req[p].op = "CloseRun"
       /\ req[p].run \in DOMAIN db.runs
       /\ now[p] < db.runs[req[p].run].createdAt
    \/ /\ req[p].op = "CloseFinding"
       /\ req[p].closure \in DOMAIN db.closures
       /\ db.closures[req[p].closure].finding # req[p].finding

ClosureRow(q, n) ==
  [finding |-> q.finding, disposition |-> q.disposition, resolving |-> q.resolving,
   content |-> q.content, recordedAt |-> n]

\* What each write makes of ledger t: the rows of its request, nothing else.
Starts(t, u, q, n) ==
  /\ q \in StartRequest
  /\ q.run \notin DOMAIN t.runs
  /\ u = Tables(Put(t.runs, q.run, OpenRun(q.start, q.event, n)),
                Put(t.events, q.event, StartEvent(q.run, q.start, n)),
                t.findings, t.closures)

Ends(t, u, q, n) ==
  /\ q \in CloseRequest
  /\ q.run \in DOMAIN t.runs /\ t.runs[q.run].state = "open"
  /\ q.close.endedAt >= t.runs[q.run].start.startedAt
  /\ u = Tables(Put(t.runs, q.run, ClosedRun(t.runs[q.run], q.close, q.event, n)),
                Put(t.events, q.event, TerminalEvent(q.run, 2, q.close, n)),
                t.findings, t.closures)

Reports(t, u, q, n) ==
  /\ q \in FindingRequest
  /\ q.finding \notin DOMAIN t.findings /\ IsClosed(t, q.origin)
  /\ u = Tables(t.runs, t.events,
                Put(t.findings, q.finding,
                    [origin |-> q.origin, content |-> q.content, recordedAt |-> n]),
                t.closures)

Settles(t, u, q, n) ==
  /\ q \in ClosureRequest
  /\ MayInsertClosure(t, q.closure, ClosureRow(q, n))
  /\ u = Tables(t.runs, t.events, t.findings,
                Put(t.closures, q.closure, ClosureRow(q, n)))

Effect(t, u, q, n) ==
  \/ u = t
  \/ Starts(t, u, q, n) \/ Ends(t, u, q, n) \/ Reports(t, u, q, n) \/ Settles(t, u, q, n)

EffectOK(p) == pc[p] = "commit" => Effect(db, work, req[p], now[p])

AnswersInv == IInv /\ \A p \in Proc : LinkOK(p) /\ SchemaOK(p) /\ EffectOK(p)

-----------------------------------------------------------------------------
(* The invariant.                                                          *)

\* The steps of a process keep what the invariant says of the others: the
\* rows they rely on stay, and the work of a writer is its own.
LEMMA OthersAnswers ==
  ASSUME AnswersInv, NEW p \in Proc, OthersKept(p), NEW o \in Proc \ {p}
  PROVE  LinkOK(o)' /\ SchemaOK(o)' /\ EffectOK(o)'
<1>i. LinkOK(o) /\ SchemaOK(o) /\ EffectOK(o) /\ WriterOK(o)
  BY DEF AnswersInv, IInv, ProcessOK
<1>o. /\ pc'[o] = pc[o] /\ req'[o] = req[o] /\ now'[o] = now[o]
      /\ outcome'[o] = outcome[o] /\ seen'[o] = seen[o]
  BY DEF OthersKept
<1>x. /\ \A r \in DOMAIN db.runs :
           r \in DOMAIN db'.runs /\ db'.runs[r].createdAt = db.runs[r].createdAt
      /\ \A c \in DOMAIN db.closures :
           c \in DOMAIN db'.closures /\ db'.closures[c] = db.closures[c]
  BY DEF OthersKept, Extends
<1>1. LinkOK(o)'
  BY <1>i, <1>o, <1>x DEF LinkOK
<1>2. SchemaOK(o)'
  BY <1>i, <1>o, <1>x DEF SchemaOK
<1>3. EffectOK(o)'
  <2>1. pc[o] = "commit" => db' = db /\ work' = work
    BY <1>i, StoreConstants DEF WriterOK, InTransaction, OthersKept
  <2> QED BY <1>i, <1>o, <2>1 DEF EffectOK
<1> QED BY <1>1, <1>2, <1>3

\* A call's own answer or location, read back.
LEMMA OwnPlace ==
  ASSUME IInv, NEW p \in Proc
  PROVE  /\ \A l : Goto(p, l) => pc'[p] = l
         /\ \A a : Answer(p, a) => pc'[p] = "reply" /\ outcome'[p] = a
         /\ \A l, v : ReadTo(p, l, v) => pc'[p] = l /\ seen'[p] = v /\ outcome' = outcome
BY DEF IInv, TypeOK, Goto, Answer, ReadTo

\* What every step but a constraint error and a move to "commit" shows: an
\* answer that is neither of the two the invariant explains.
LEMMA PlainStep ==
  ASSUME AnswersInv, NEW p \in Proc,
         \/ \E a : Answer(p, a) /\ a \notin {"inconsistent", "constraint"}
         \/ \E l : /\ Goto(p, l) /\ l \notin {"origin", "resolving", "reply", "commit"}
                   /\ UNCHANGED outcome
         \/ Forget(p)
  PROVE  LinkOK(p)' /\ SchemaOK(p)' /\ EffectOK(p)'
<1>i. IInv /\ LinkOK(p)
  BY DEF AnswersInv
<1>1. CASE \E a : Answer(p, a) /\ a \notin {"inconsistent", "constraint"}
  BY <1>1, <1>i, OwnPlace DEF LinkOK, SchemaOK, EffectOK
<1>2. CASE \E l : /\ Goto(p, l) /\ l \notin {"origin", "resolving", "reply", "commit"}
                  /\ UNCHANGED outcome
  BY <1>2, <1>i, OwnPlace DEF LinkOK, SchemaOK, EffectOK
<1>3. CASE Forget(p)
  <2>1. pc'[p] = "idle" /\ outcome'[p] = "ok"
    BY <1>3, <1>i DEF Forget, Goto, IInv, TypeOK
  <2> QED BY <2>1 DEF LinkOK, SchemaOK, EffectOK
<1> QED BY <1>1, <1>2, <1>3

\* The same of a statement: either it is refused, and SchemaOK says why, or it
\* goes on to the next, and before COMMIT EffectOK says what was written.
LEMMA StatementAnswers ==
  ASSUME AnswersInv, NEW p \in Proc, NEW admitted \in BOOLEAN, NEW t,
         NEW next \in {"second", "commit"}, Execute(p, admitted, t, next),
         ~ admitted =>
           \/ /\ req[p].op = "CloseRun"
              /\ req[p].run \in DOMAIN db.runs
              /\ now[p] < db.runs[req[p].run].createdAt
           \/ /\ req[p].op = "CloseFinding"
              /\ req[p].closure \in DOMAIN db.closures
              /\ db.closures[req[p].closure].finding # req[p].finding,
         admitted /\ next = "commit" => Effect(db, t, req[p], now[p])
  PROVE  LinkOK(p)' /\ SchemaOK(p)' /\ EffectOK(p)'
<1>i. IInv /\ LinkOK(p)
  BY DEF AnswersInv
<1>1. CASE admitted
  <2>1. /\ pc'[p] = next /\ outcome' = outcome /\ req' = req /\ now' = now
        /\ db' = db /\ work' = t
    BY <1>1, <1>i, OwnPlace DEF Execute, call
  <2> QED BY <2>1, <1>1, <1>i DEF LinkOK, SchemaOK, EffectOK
<1>2. CASE ~ admitted
  <2>1. /\ pc'[p] = "reply" /\ outcome'[p] = "constraint" /\ req' = req /\ now' = now
        /\ db' = db
    BY <1>2, <1>i, OwnPlace DEF Execute, Abort, Rollback, call
  <2> QED BY <2>1, <1>2 DEF LinkOK, SchemaOK, EffectOK
<1> QED BY <1>1, <1>2

\* StartRun's checks leave the schema nothing to refuse.
LEMMA RunIsAdmitted ==
  ASSUME NEW q, NEW n \in Time, NEW t, q.run \notin DOMAIN t.runs
  PROVE  MayInsertRun(t, q.run, OpenRun(q.start, q.event, n))
<1> DEFINE row == OpenRun(q.start, q.event, n)
<1>1. /\ row.state = "open" /\ row.createdAt = n /\ row.updatedAt = n
      /\ row.close = NULL /\ row.terminalEvent = NULL
  BY DEF OpenRun
<1>2. n \in Nat
  BY RecordConstants
<1> HIDE DEF row
<1>3. RunChecks(row)
  BY <1>1, <1>2 DEF RunChecks
<1> QED BY <1>3 DEF MayInsertRun, row

\* Nor is there anything to refuse in its second statement: a run just
\* inserted has no events yet.
LEMMA StartEventIsAdmitted ==
  ASSUME NEW t, Sound(t), NEW q, NEW n, NEW w, HalfStarted(t, w, q, n)
  PROVE  MayInsertEvent(w, q.event, StartEvent(q.run, q.start, n))
<1> DEFINE ev == StartEvent(q.run, q.start, n)
           row == OpenRun(q.start, q.event, n)
<1>1. /\ ev.run = q.run /\ ev.sequence = 1 /\ ev.kind = "run.started" /\ ev.terminal = FALSE
      /\ row.state = "open"
  BY DEF StartEvent, OpenRun
<1> HIDE DEF ev, row
<1>2. /\ w.runs = Put(t.runs, q.run, row) /\ w.events = t.events
      /\ q.run \notin DOMAIN t.runs /\ q.event \notin DOMAIN t.events
  BY TablesFields DEF HalfStarted, row
<1>3. q.run \in DOMAIN w.runs /\ w.runs[q.run] = row
  BY <1>2 DEF Put
<1>4. EventsOf(w, q.run) = {}
  BY <1>2 DEF Sound, Doctor, checkForeignKeys, EventsOf
<1>5. LastSequence(w, q.run) = 0
  <2>1. {0} \cup {w.events[e].sequence : e \in EventsOf(w, q.run)} = {0}
    BY <1>4
  <2>2. Max({0}) = 0
    BY DEF Max
  <2> QED BY <2>1, <2>2 DEF LastSequence
<1>6. MayInsertEvent(w, q.event, ev)
  BY <1>1, <1>2, <1>3, <1>4, <1>5 DEF MayInsertEvent
<1> QED BY <1>6 DEF ev

\* CloseRun inserts the terminal event of an open run, whose only event is
\* its start.
LEMMA TerminalEventIsAdmitted ==
  ASSUME NEW t, Sound(t), NEW q, NEW n,
         q.run \in DOMAIN t.runs, t.runs[q.run].state = "open",
         q.event \notin DOMAIN t.events
  PROVE  MayInsertEvent(t, q.event,
                        TerminalEvent(q.run, LastSequence(t, q.run) + 1, q.close, n))
<1> DEFINE ev == TerminalEvent(q.run, 2, q.close, n)
           first == t.runs[q.run].startEvent
<1>1. /\ ev.run = q.run /\ ev.sequence = 2 /\ ev.kind = "run.terminal" /\ ev.terminal = TRUE
  BY DEF TerminalEvent
<1>2. /\ EventsOf(t, q.run) = {first} /\ ~ t.events[first].terminal
      /\ LastSequence(t, q.run) = 1
  <2>1. /\ EventsOf(t, q.run) = {first} /\ LastSequence(t, q.run) = 1
        /\ t.events[first] =
             StartEvent(q.run, t.runs[q.run].start, t.events[first].recordedAt)
    BY OpenRunSequence
  <2> QED BY <2>1 DEF StartEvent
<1> HIDE DEF ev, first
<1>3. MayInsertEvent(t, q.event, ev)
  BY <1>1, <1>2 DEF MayInsertEvent
<1>4. LastSequence(t, q.run) + 1 = 2
  BY <1>2
<1> QED BY <1>3, <1>4 DEF ev

\* The only refusal left to CloseRun's second statement is the CHECK on
\* updated_at: the clock has stepped back since the run began.
LEMMA UpdateIsAdmitted ==
  ASSUME NEW t, Sound(t), NEW q \in CloseRequest, ValidRequest(q), NEW n \in Time,
         NEW w, HalfClosed(t, w, q, n), n >= t.runs[q.run].createdAt
  PROVE  MayUpdateRun(w, q.run, ClosedRun(w.runs[q.run], q.close, q.event, n))
<1> DEFINE old == t.runs[q.run]
           row == ClosedRun(old, q.close, q.event, n)
           ev == TerminalEvent(q.run, 2, q.close, n)
           first == old.startEvent
<1>q. q.event \in EventID /\ q.close \in Close /\ q.op = "CloseRun"
  BY DEF CloseRequest
<1>h. /\ q.run \in DOMAIN t.runs /\ old.state = "open" /\ q.event \notin DOMAIN t.events
      /\ q.close.endedAt >= old.start.startedAt
      /\ w.runs = t.runs /\ w.events = Put(t.events, q.event, ev)
  BY TablesFields DEF HalfClosed
<1>old. old \in Run
  BY <1>h, StoredRow DEF Sound, IsLedger
<1>row. /\ row.state = "closed" /\ row.start = old.start /\ row.startEvent = first
        /\ row.createdAt = old.createdAt /\ row.updatedAt = n
        /\ row.close = q.close /\ row.terminalEvent = q.event
  BY <1>old DEF ClosedRun, Run
<1>ev. ev.run = q.run /\ ev.sequence = 2 /\ ev.terminal = TRUE
  BY DEF TerminalEvent
<1>first. /\ EventsOf(t, q.run) = {first} /\ t.events[first].sequence = 1
  <2>1. /\ EventsOf(t, q.run) = {first}
        /\ t.events[first] = StartEvent(q.run, old.start, t.events[first].recordedAt)
    BY <1>h, OpenRunSequence
  <2> QED BY <2>1 DEF StartEvent
<1>w. w.runs[q.run] = old /\ old.state # "closed"
  BY <1>h
<1>n. n >= old.createdAt
  OBVIOUS
<1> HIDE DEF old, row, ev, first
<1>1. RunChecks(row)
  <2>1. q.close # NULL /\ q.event # NULL
    BY <1>q, RecordConstants
  <2>2. validateClose(q.close)
    BY <1>q DEF ValidRequest
  <2> QED BY <2>1, <2>2, <1>h, <1>n, <1>row DEF RunChecks, validateClose
<1>e. /\ DOMAIN w.events = DOMAIN t.events \cup {q.event}
      /\ w.events[q.event] = ev
      /\ \A e \in DOMAIN t.events : w.events[e] = t.events[e]
  BY <1>h DEF Put
<1>2. EventsOf(w, q.run) = {first, q.event} /\ w.events[first] = t.events[first]
  BY <1>e, <1>ev, <1>first DEF EventsOf
<1>3. LastSequence(w, q.run) = 2
  <2>1. {0} \cup {w.events[e].sequence : e \in EventsOf(w, q.run)} = {0, 1, 2}
    BY <1>2, <1>e, <1>ev, <1>first
  <2>2. Max({0, 1, 2}) = 2
    BY DEF Max
  <2> QED BY <2>1, <2>2 DEF LastSequence
<1>4. MayUpdateRun(w, q.run, row)
  <2>1. /\ row.start = w.runs[q.run].start /\ row.createdAt = w.runs[q.run].createdAt
        /\ row.startEvent = w.runs[q.run].startEvent
        /\ w.runs[q.run].state # "closed"
    BY <1>w, <1>row DEF first
  <2>2. /\ row.terminalEvent \in EventsOf(w, q.run)
        /\ w.events[row.terminalEvent].terminal
        /\ w.events[row.terminalEvent].sequence = LastSequence(w, q.run)
    BY <1>2, <1>3, <1>e, <1>ev, <1>row
  <2> QED BY <2>1, <2>2, <1>1 DEF MayUpdateRun
<1> QED BY <1>4, <1>w DEF row

\* AddFinding and CloseFinding have checked all the schema checks, but for a
\* closure ID that another finding's closure has taken.
LEMMA FindingIsAdmitted ==
  ASSUME NEW t, NEW q, q.finding \notin DOMAIN t.findings, IsClosed(t, q.origin), NEW n
  PROVE  MayInsertFinding(t, q.finding,
                          [origin |-> q.origin, content |-> q.content, recordedAt |-> n])
BY DEF MayInsertFinding

\* A closure the code inserts passes the constraints, or belongs to another
\* finding.
LEMMA ClosureIsAdmitted ==
  ASSUME NEW t, NEW q, q.op = "CloseFinding", ValidRequest(q),
         CloseFindingVerdict(t, q) = "insert", NEW n
  PROVE  /\ q.closure \notin DOMAIN t.closures =>
              MayInsertClosure(t, q.closure, ClosureRow(q, n))
         /\ q.closure \in DOMAIN t.closures => t.closures[q.closure].finding # q.finding
<1> DEFINE row == ClosureRow(q, n)
<1>1. /\ row.finding = q.finding /\ row.disposition = q.disposition
      /\ row.resolving = q.resolving
  BY DEF ClosureRow
<1>2. /\ q.finding \in DOMAIN t.findings /\ ClosuresOf(t, q.finding) = {}
      /\ q.disposition = "resolved" => Succeeded(t, q.resolving)
  BY DEF CloseFindingVerdict
<1>3. \A c \in DOMAIN t.closures : t.closures[c].finding # q.finding
  BY <1>2 DEF ClosuresOf
<1>4. validateFindingDisposition(q.disposition, q.resolving)
  BY DEF ValidRequest
<1> HIDE DEF row
<1>5. q.closure \notin DOMAIN t.closures => MayInsertClosure(t, q.closure, row)
  BY <1>1, <1>2, <1>3, <1>4 DEF MayInsertClosure
<1> QED BY <1>3, <1>5 DEF row

\* Every statement of every write keeps the invariant for its own process.
LEMMA WriteAnswers ==
  ASSUME AnswersInv, NEW p \in Proc,
         \/ Refuse(p) \/ Repeat(p) \/ InsertRun(p) \/ InsertStartEvent(p)
         \/ InsertTerminalEvent(p) \/ UpdateRun(p) \/ InsertFinding(p) \/ InsertClosure(p)
  PROVE  LinkOK(p)' /\ SchemaOK(p)' /\ EffectOK(p)'
<1> DEFINE q == req[p]
           n == now[p]
<1>c. pc[p] \in {"statement", "second"}
  BY DEF Refuse, Repeat, InsertRun, InsertStartEvent, InsertTerminalEvent, UpdateRun,
         InsertFinding, InsertClosure, Inserts
<1>s. /\ Sound(db) /\ q \in Requests /\ IsWrite(q) /\ ValidRequest(q) /\ n \in Time
      /\ pc[p] = "statement" => work = db
      /\ pc[p] = "second" => HalfStarted(db, work, q, n) \/ HalfClosed(db, work, q, n)
  BY <1>c, StatementContext DEF AnswersInv
<1>l. IsLedger(db)
  BY <1>s DEF Sound
<1>1. CASE Refuse(p)
  <2>1. Verdict(work, q) \in {"ErrConflict", "ErrNotFound", "ErrOpen", "ErrInvalid"}
    BY <1>1, <1>s, RefusalIsAnAnswer DEF Refuse
  <2>2. Answer(p, Verdict(work, q))
    BY <1>1 DEF Refuse, Abort
  <2> QED BY <2>1, <2>2, PlainStep
<1>2. CASE Repeat(p)
  <2>1. Execute(p, TRUE, work, "commit") /\ work = db
    BY <1>2, <1>s DEF Repeat
  <2> QED BY <2>1, StatementAnswers DEF Effect
<1>3. CASE InsertRun(p)
  <2> DEFINE row == OpenRun(q.start, q.event, n)
             t == [work EXCEPT !.runs = Put(@, q.run, row)]
             ok == MayInsertRun(work, q.run, row)
  <2>1. Execute(p, ok, t, "second")
    BY <1>3 DEF InsertRun
  <2>2. q.run \notin DOMAIN work.runs
    BY <1>3 DEF InsertRun, Inserts, Verdict, StartRunVerdict
  <2>3. ok
    BY <2>2, <1>s, RunIsAdmitted
  <2> HIDE DEF t, ok
  <2> QED BY <2>1, <2>3, StatementAnswers
<1>4. CASE InsertStartEvent(p)
  <2> DEFINE row == StartEvent(q.run, q.start, n)
             t == [work EXCEPT !.events = Put(@, q.event, row)]
             ok == MayInsertEvent(work, q.event, row)
             runs == Put(db.runs, q.run, OpenRun(q.start, q.event, n))
  <2>1. Execute(p, ok, t, "commit")
    BY <1>4 DEF InsertStartEvent
  <2>2. HalfStarted(db, work, q, n)
    BY <1>4, <1>s DEF InsertStartEvent, HalfClosed
  <2>3. ok
    BY <2>2, <1>s, StartEventIsAdmitted
  <2>4. Starts(db, t, q, n)
    <3>1. /\ q.op = "StartRun" /\ q.run \notin DOMAIN db.runs
          /\ work = Tables(runs, db.events, db.findings, db.closures)
      BY <2>2 DEF HalfStarted
    <3>2. t = Tables(runs, Put(db.events, q.event, row), db.findings, db.closures)
      BY <3>1, TablesExcept, TablesFields
    <3> QED BY <3>1, <3>2, <1>s, RequestKinds DEF Starts
  <2> HIDE DEF t, ok
  <2> QED BY <2>1, <2>3, <2>4, StatementAnswers DEF Effect
<1>5. CASE InsertTerminalEvent(p)
  <2> DEFINE row == TerminalEvent(q.run, LastSequence(work, q.run) + 1, q.close, n)
             t == [work EXCEPT !.events = Put(@, q.event, row)]
             ok == MayInsertEvent(work, q.event, row)
  <2>1. Execute(p, ok, t, "second") /\ work = db
    BY <1>5, <1>s DEF InsertTerminalEvent, Inserts
  <2>2. /\ q.run \in DOMAIN db.runs /\ q.event \notin DOMAIN db.events
        /\ db.runs[q.run].state # "closed"
    BY <1>5, <2>1 DEF InsertTerminalEvent, Inserts, Verdict, CloseRunVerdict
  <2>3. db.runs[q.run].state = "open"
    <3>1. db.runs[q.run] \in Run
      BY <2>2, <1>l, StoredRow DEF IsLedger
    <3> QED BY <3>1, <2>2 DEF Run
  <2>4. ok
    BY <2>1, <2>2, <2>3, <1>s, TerminalEventIsAdmitted
  <2> HIDE DEF t, ok
  <2> QED BY <2>1, <2>4, StatementAnswers
<1>6. CASE UpdateRun(p)
  <2> DEFINE old == work.runs[q.run]
             row == ClosedRun(old, q.close, q.event, n)
             t == [work EXCEPT !.runs = Put(@, q.run, row)]
             ok == MayUpdateRun(work, q.run, row)
             events == Put(db.events, q.event, TerminalEvent(q.run, 2, q.close, n))
  <2>1. Execute(p, ok, t, "commit") /\ q.op = "CloseRun"
    BY <1>6 DEF UpdateRun
  <2>2. HalfClosed(db, work, q, n) /\ q \in CloseRequest
    BY <2>1, <1>6, <1>s, RequestKinds DEF UpdateRun, HalfStarted
  <2>3. /\ q.run \in DOMAIN db.runs /\ db.runs[q.run].state = "open"
        /\ q.close.endedAt >= db.runs[q.run].start.startedAt
        /\ work = Tables(db.runs, events, db.findings, db.closures)
        /\ work.runs = db.runs
    BY <2>2, TablesFields DEF HalfClosed
  <2>4. ok \/ n < db.runs[q.run].createdAt
    <3>1. db.runs[q.run] \in Run
      BY <2>3, <1>l, StoredRow DEF IsLedger
    <3>2. n \in Nat /\ db.runs[q.run].createdAt \in Nat
      BY <3>1, <1>s, RecordConstants DEF Run
    <3>3. n >= db.runs[q.run].createdAt => ok
      BY <2>2, <1>s, UpdateIsAdmitted
    <3> QED BY <3>2, <3>3
  <2>5. Ends(db, t, q, n)
    <3>1. t = Tables(Put(db.runs, q.run, row), events, db.findings, db.closures)
      BY <2>3, TablesExcept
    <3>2. old = db.runs[q.run]
      BY <2>3
    <3> QED BY <3>1, <3>2, <2>2, <2>3 DEF Ends
  <2>6. ok \in BOOLEAN
    BY DEF MayUpdateRun
  <2> HIDE DEF t, ok
  <2> QED BY <2>1, <2>3, <2>4, <2>5, <2>6, StatementAnswers DEF Effect
<1>7. CASE InsertFinding(p)
  <2> DEFINE row == [origin |-> q.origin, content |-> q.content, recordedAt |-> n]
             t == [work EXCEPT !.findings = Put(@, q.finding, row)]
             ok == MayInsertFinding(work, q.finding, row)
             findings == Put(db.findings, q.finding, row)
  <2>1. Execute(p, ok, t, "commit") /\ work = db /\ q \in FindingRequest
    BY <1>7, <1>s, RequestKinds DEF InsertFinding, Inserts
  <2>2. q.finding \notin DOMAIN db.findings /\ IsClosed(db, q.origin)
    BY <1>7, <2>1 DEF InsertFinding, Inserts, Verdict, AddFindingVerdict, IsClosed
  <2>3. ok
    BY <2>1, <2>2, FindingIsAdmitted
  <2>4. [db EXCEPT !.findings = findings] = Tables(db.runs, db.events, findings, db.closures)
    <3> HIDE DEF findings
    <3> QED BY <1>l, Columns
  <2>5. Reports(db, t, q, n)
    BY <2>1, <2>2, <2>4 DEF Reports
  <2> HIDE DEF t, ok
  <2> QED BY <2>1, <2>3, <2>5, StatementAnswers DEF Effect
<1>8. CASE InsertClosure(p)
  <2> DEFINE row == ClosureRow(q, n)
             t == [work EXCEPT !.closures = Put(@, q.closure, row)]
             ok == MayInsertClosure(work, q.closure, row)
             closures == Put(db.closures, q.closure, row)
  <2>1. /\ Execute(p, ok, t, "commit") /\ work = db /\ q \in ClosureRequest
        /\ q.op = "CloseFinding"
    BY <1>8, <1>s, RequestKinds DEF InsertClosure, Inserts, ClosureRow
  <2>2. CloseFindingVerdict(db, q) = "insert"
    BY <1>8, <2>1 DEF InsertClosure, Inserts, Verdict
  <2>3. \/ ok
        \/ q.closure \in DOMAIN db.closures /\ db.closures[q.closure].finding # q.finding
    BY <2>1, <2>2, <1>s, ClosureIsAdmitted
  <2>4. [db EXCEPT !.closures = closures] = Tables(db.runs, db.events, db.findings, closures)
    <3> HIDE DEF closures
    <3> QED BY <1>l, Columns
  <2>5. ok => Settles(db, t, q, n)
    BY <2>1, <2>4 DEF Settles
  <2>6. ok \in BOOLEAN
    BY DEF MayInsertClosure
  <2> HIDE DEF t, ok
  <2> QED BY <2>1, <2>3, <2>5, <2>6, StatementAnswers DEF Effect
<1> QED BY <1>1, <1>2, <1>3, <1>4, <1>5, <1>6, <1>7, <1>8

\* The write loop: a COMMIT is never refused by a deferred key.
LEMMA CommitAnswers ==
  ASSUME AnswersInv, NEW p \in Proc,
         Begin(p) \/ BeginBusy(p) \/ Commit(p) \/ CommitBusy(p)
  PROVE  LinkOK(p)' /\ SchemaOK(p)' /\ EffectOK(p)'
<1>1. CASE Begin(p)
  BY <1>1, PlainStep DEF Begin
<1>2. CASE BeginBusy(p) \/ CommitBusy(p)
  BY <1>2, PlainStep DEF BeginBusy, CommitBusy, Busy
<1>3. CASE Commit(p)
  <2>1. DeferredKeysHold(work)
    BY <1>3 DEF Commit, AnswersInv, IInv, ProcessOK, WriterOK, Done, Sound, Doctor,
                checkForeignKeys
  <2> QED BY <1>3, <2>1, PlainStep DEF Commit
<1> QED BY <1>1, <1>2, <1>3

\* The reads: what `finding show' found leads to runs of the ledger, and the
\* second SELECT of Snapshot agrees with the first.
LEMMA ReadAnswers ==
  ASSUME AnswersInv, NEW p \in Proc,
         \/ SnapshotRun(p) \/ SnapshotEvents(p) \/ ReadBusy(p)
         \/ ShowFinding(p) \/ ShowOriginRun(p) \/ ShowResolvingRun(p)
  PROVE  LinkOK(p)' /\ SchemaOK(p)' /\ EffectOK(p)'
<1> DEFINE q == req[p]
<1>i. IInv /\ LinkOK(p) /\ ReaderOK(p) /\ Doctor(db)
  BY DEF AnswersInv, IInv, LedgerOK, ProcessOK
<1>0. \A a : ReadAnswer(p, a) => Answer(p, a)
  BY DEF ReadAnswer
<1>t. ASSUME NEW l \in {"events", "origin", "resolving"}, NEW v, ReadTo(p, l, v),
             l # "events" =>
               v.origin \in DOMAIN db.runs /\ v.resolving \subseteq DOMAIN db.runs
      PROVE  LinkOK(p)' /\ SchemaOK(p)' /\ EffectOK(p)'
  <2>1. /\ pc'[p] = l /\ seen'[p] = v /\ outcome' = outcome /\ db' = db
    BY <1>t, <1>i, OwnPlace DEF ReadTo, transaction
  <2> QED BY <2>1, <1>t, <1>i DEF LinkOK, SchemaOK, EffectOK
<1>1. CASE SnapshotRun(p)
  <2>1. ReadTo(p, "events", db.runs[q.run]) \/ ReadAnswer(p, "ErrNotFound")
    BY <1>1 DEF SnapshotRun
  <2>2. CASE ReadTo(p, "events", db.runs[q.run])
    BY <2>2, <1>t
  <2>3. CASE ReadAnswer(p, "ErrNotFound")
    BY <2>3, <1>0, PlainStep
  <2> QED BY <2>1, <2>2, <2>3
<1>2. CASE SnapshotEvents(p)
  <2>1. pc[p] = "events"
    BY <1>2 DEF SnapshotEvents, Reading
  <2>2. validateSnapshotConsistency(q.run, seen[p], listEvents(db, q.run))
    BY <2>1, <1>i DEF ReaderOK, Doctor, checkRunTerminalRecords
  <2>3. ReadAnswer(p, "ErrOpen") \/ ReadAnswer(p, "ok")
    BY <1>2, <2>2 DEF SnapshotEvents
  <2> QED BY <2>3, <1>0, PlainStep
<1>3. CASE ReadBusy(p)
  BY <1>3, <1>0, PlainStep DEF ReadBusy
<1>4. CASE ShowFinding(p)
  <2> DEFINE v == [origin |-> db.findings[q.finding].origin,
                   resolving |-> {db.closures[c].resolving :
                                    c \in ClosuresOf(db, q.finding)} \ {NULL}]
  <2>1. \/ q.finding \in DOMAIN db.findings /\ ReadTo(p, "origin", v)
        \/ ReadAnswer(p, "ErrNotFound")
    BY <1>4 DEF ShowFinding
  <2>2. CASE q.finding \in DOMAIN db.findings /\ ReadTo(p, "origin", v)
    <3>1. v.origin \in DOMAIN db.runs /\ v.resolving \subseteq DOMAIN db.runs
      BY <2>2, <1>i DEF Doctor, checkForeignKeys, ClosuresOf
    <3> HIDE DEF v
    <3> QED BY <2>2, <3>1, <1>t
  <2>3. CASE ReadAnswer(p, "ErrNotFound")
    BY <2>3, <1>0, PlainStep
  <2> QED BY <2>1, <2>2, <2>3
<1>5. CASE ShowOriginRun(p)
  <2>1. seen[p].origin \in DOMAIN db.runs /\ seen[p].resolving \subseteq DOMAIN db.runs
    BY <1>5, <1>i DEF ShowOriginRun, Reading, LinkOK
  <2>2. ReadAnswer(p, "ok") \/ ReadTo(p, "resolving", seen[p])
    BY <1>5, <2>1 DEF ShowOriginRun
  <2>3. CASE ReadAnswer(p, "ok")
    BY <2>3, <1>0, PlainStep
  <2>4. CASE ReadTo(p, "resolving", seen[p])
    BY <2>1, <2>4, <1>t
  <2> QED BY <2>2, <2>3, <2>4
<1>6. CASE ShowResolvingRun(p)
  <2>1. seen[p].resolving \subseteq DOMAIN db.runs
    BY <1>6, <1>i DEF ShowResolvingRun, Reading, LinkOK
  <2>2. ReadAnswer(p, "ok")
    BY <1>6, <2>1 DEF ShowResolvingRun
  <2> QED BY <2>2, <1>0, PlainStep
<1> QED BY <1>1, <1>2, <1>3, <1>4, <1>5, <1>6

\* Entering and leaving the store.
LEMMA EndAnswers ==
  ASSUME AnswersInv, NEW p \in Proc, Call(p) \/ Return(p) \/ Cancel(p) \/ Crash(p)
  PROVE  LinkOK(p)' /\ SchemaOK(p)' /\ EffectOK(p)'
<1>1. CASE Call(p)
  <2>1. \/ Answer(p, "ErrInvalid")
        \/ Goto(p, "begin") /\ UNCHANGED outcome
        \/ Goto(p, "read") /\ UNCHANGED outcome
    BY <1>1 DEF Call
  <2> QED BY <2>1, PlainStep
<1>2. CASE Cancel(p)
  BY <1>2, PlainStep DEF Cancel
<1>3. CASE Return(p) \/ Crash(p)
  BY <1>3, PlainStep DEF Return, Crash
<1> QED BY <1>1, <1>2, <1>3

\* The invariant is inductive.
LEMMA AnswersKept ==
  ASSUME AnswersInv, [Next]_vars
  PROVE  AnswersInv'
<1>1. CASE UNCHANGED vars
  <2>1. IInv'
    BY InvariantKept DEF AnswersInv
  <2>2. \A p \in Proc : LinkOK(p)' /\ SchemaOK(p)' /\ EffectOK(p)'
    BY <1>1 DEF AnswersInv, LinkOK, SchemaOK, EffectOK, vars
  <2> QED BY <2>1, <2>2 DEF AnswersInv
<1>2. CASE Next
  <2>1. PICK p \in Proc : Call(p) \/ Advance(p) \/ Cancel(p) \/ Crash(p)
    BY <1>2 DEF Next
  <2>2. IInv' /\ OthersKept(p)
    BY <2>1, StepKeeps DEF AnswersInv
  <2>3. LinkOK(p)' /\ SchemaOK(p)' /\ EffectOK(p)'
    BY <2>1, WriteAnswers, CommitAnswers, ReadAnswers, EndAnswers DEF Advance
  <2>4. \A o \in Proc : LinkOK(o)' /\ SchemaOK(o)' /\ EffectOK(o)'
    BY <2>2, <2>3, OthersAnswers
  <2> QED BY <2>2, <2>4 DEF AnswersInv
<1> QED BY <1>1, <1>2

\* It holds in every reachable state.
THEOREM AnswersHold == Spec => []AnswersInv
<1>1. Init => AnswersInv
  <2> SUFFICES ASSUME Init PROVE AnswersInv
    OBVIOUS
  <2>1. \A p \in Proc : LinkOK(p) /\ SchemaOK(p) /\ EffectOK(p)
    BY DEF Init, LinkOK, SchemaOK, EffectOK
  <2> QED BY <2>1, InitialInvariant DEF AnswersInv
<1>2. AnswersInv /\ [Next]_vars => AnswersInv'
  BY AnswersKept
<1> QED BY <1>1, <1>2, PTL DEF Spec

\* `motus finding show' never reports a finding whose linked runs are missing,
\* whatever is written between its three reads.
THEOREM LinksAlwaysResolve == Spec => []LinksResolve
<1>1. AnswersInv => LinksResolve
  BY DEF AnswersInv, LinkOK, LinksResolve
<1> QED BY <1>1, AnswersHold, PTL

\* A constraint error means that the clock stepped back between the start and
\* the close of the run, or that the closure ID belongs to another finding:
\* the Go checks and the schema agree on everything else.
THEOREM SchemaAgrees == Spec => []SchemaAgreesWithCode
<1>1. AnswersInv => SchemaAgreesWithCode
  BY DEF AnswersInv, SchemaOK, SchemaAgreesWithCode
<1> QED BY <1>1, AnswersHold, PTL

-----------------------------------------------------------------------------
(* The promise.  Each table of a ledger tells one variable of it.          *)

StartedOf(t) == [r \in DOMAIN t.runs |-> t.runs[r].start]
EndedOf(t) == [r \in closedRuns(t) |-> t.runs[r].close]
ReportedOf(t) == [f \in DOMAIN t.findings |->
                    [origin |-> t.findings[f].origin, content |-> t.findings[f].content]]
SettledOf(t) == [f \in settledFindings(t) |-> settlement(t, f)]

\* Tables a write leaves alone tell the same.
LEMMA SameRuns ==
  ASSUME NEW t, NEW u, u.runs = t.runs
  PROVE  StartedOf(u) = StartedOf(t) /\ EndedOf(u) = EndedOf(t)
BY DEF StartedOf, EndedOf, closedRuns

\* What is reported depends on the findings alone,
LEMMA SameFindings ==
  ASSUME NEW t, NEW u, u.findings = t.findings
  PROVE  ReportedOf(u) = ReportedOf(t)
BY DEF ReportedOf

\* and what is settled on the closures.
LEMMA SameClosures ==
  ASSUME NEW t, NEW u, u.closures = t.closures
  PROVE  SettledOf(u) = SettledOf(t)
<1>1. settledFindings(u) = settledFindings(t)
  BY DEF settledFindings
<1>2. \A f : settlement(u, f) = settlement(t, f)
  <2> SUFFICES ASSUME NEW f PROVE settlement(u, f) = settlement(t, f)
    OBVIOUS
  <2>1. ClosuresOf(u, f) = ClosuresOf(t, f)
    BY DEF ClosuresOf
  <2> QED BY <2>1 DEF settlement
<1> QED BY <1>1, <1>2 DEF SettledOf

\* StartRun tells one new beginning.
LEMMA StartTells ==
  ASSUME NEW t, NEW u, NEW q, NEW n, Starts(t, u, q, n)
  PROVE  /\ StartedOf(u) = Promised!With(StartedOf(t), q.run, q.start)
         /\ EndedOf(u) = EndedOf(t)
<1> DEFINE row == OpenRun(q.start, q.event, n)
<1>1. row.state = "open" /\ row.start = q.start
  BY DEF OpenRun
<1> HIDE DEF row
<1>2. u.runs = Put(t.runs, q.run, row) /\ q.run \notin DOMAIN t.runs
  BY TablesFields DEF Starts, row
<1>3. /\ DOMAIN u.runs = DOMAIN t.runs \cup {q.run} /\ u.runs[q.run] = row
      /\ \A r \in DOMAIN t.runs : u.runs[r] = t.runs[r]
  BY <1>2 DEF Put
<1>4. closedRuns(u) = closedRuns(t)
  BY <1>1, <1>2, <1>3 DEF closedRuns
<1>5. EndedOf(u) = EndedOf(t)
  BY <1>3, <1>4 DEF EndedOf, closedRuns
<1>6. StartedOf(u) = Promised!With(StartedOf(t), q.run, q.start)
  BY <1>1, <1>2, <1>3 DEF StartedOf, Promised!With
<1> QED BY <1>5, <1>6

\* CloseRun tells one new end.
LEMMA CloseTells ==
  ASSUME NEW t, IsLedger(t), NEW u, NEW q, NEW n, Ends(t, u, q, n)
  PROVE  /\ EndedOf(u) = Promised!With(EndedOf(t), q.run, q.close)
         /\ StartedOf(u) = StartedOf(t)
<1> DEFINE old == t.runs[q.run]
           row == ClosedRun(old, q.close, q.event, n)
<1>1. old \in Run
  <2>1. q.run \in DOMAIN t.runs
    BY DEF Ends
  <2> QED BY <2>1, StoredRow DEF IsLedger
<1>2. row.state = "closed" /\ row.start = old.start /\ row.close = q.close
  BY <1>1 DEF ClosedRun, Run
<1> HIDE DEF row
<1>3. /\ u.runs = Put(t.runs, q.run, row)
      /\ q.run \in DOMAIN t.runs /\ old.state = "open"
  BY TablesFields DEF Ends, row
<1>4. /\ DOMAIN u.runs = DOMAIN t.runs /\ u.runs[q.run] = row
      /\ \A r \in DOMAIN t.runs \ {q.run} : u.runs[r] = t.runs[r]
  BY <1>3 DEF Put
<1>5. closedRuns(u) = closedRuns(t) \cup {q.run} /\ q.run \notin closedRuns(t)
  BY <1>2, <1>3, <1>4 DEF closedRuns
<1>6. EndedOf(u) = Promised!With(EndedOf(t), q.run, q.close)
  BY <1>2, <1>4, <1>5 DEF EndedOf, Promised!With, closedRuns
<1>7. StartedOf(u) = StartedOf(t)
  BY <1>2, <1>4 DEF StartedOf
<1> QED BY <1>6, <1>7

\* AddFinding tells one new finding.
LEMMA AddTells ==
  ASSUME NEW t, NEW u, NEW q, NEW n, Reports(t, u, q, n)
  PROVE  ReportedOf(u) =
           Promised!With(ReportedOf(t), q.finding,
                         [origin |-> q.origin, content |-> q.content])
<1> DEFINE row == [origin |-> q.origin, content |-> q.content, recordedAt |-> n]
<1>1. row.origin = q.origin /\ row.content = q.content
  OBVIOUS
<1> HIDE DEF row
<1>2. u.findings = Put(t.findings, q.finding, row) /\ q.finding \notin DOMAIN t.findings
  BY TablesFields DEF Reports, row
<1>3. /\ DOMAIN u.findings = DOMAIN t.findings \cup {q.finding}
      /\ u.findings[q.finding] = row
      /\ \A f \in DOMAIN t.findings : u.findings[f] = t.findings[f]
  BY <1>2 DEF Put
<1> QED BY <1>1, <1>2, <1>3 DEF ReportedOf, Promised!With

\* CloseFinding tells one new settlement.
LEMMA SettleTells ==
  ASSUME NEW t, NEW u, NEW q, NEW n, Settles(t, u, q, n)
  PROVE  SettledOf(u) =
           Promised!With(SettledOf(t), q.finding,
                         [resolving |-> {q.resolving} \ {NULL}, content |-> q.content])
<1> DEFINE row == ClosureRow(q, n)
<1>1. row.finding = q.finding /\ row.resolving = q.resolving /\ row.content = q.content
  BY DEF ClosureRow
<1> HIDE DEF row
<1>2. /\ u.closures = Put(t.closures, q.closure, row) /\ q.closure \notin DOMAIN t.closures
      /\ \A c \in DOMAIN t.closures : t.closures[c].finding # q.finding
  BY <1>1, TablesFields DEF Settles, MayInsertClosure, row
<1>3. /\ DOMAIN u.closures = DOMAIN t.closures \cup {q.closure}
      /\ u.closures[q.closure] = row
      /\ \A c \in DOMAIN t.closures : u.closures[c] = t.closures[c]
  BY <1>2 DEF Put
<1>4. /\ settledFindings(u) = settledFindings(t) \cup {q.finding}
      /\ q.finding \notin settledFindings(t)
  BY <1>1, <1>2, <1>3 DEF settledFindings
<1>5. settlement(u, q.finding) = [resolving |-> {q.resolving} \ {NULL}, content |-> q.content]
  <2>1. ClosuresOf(u, q.finding) = {q.closure}
    BY <1>1, <1>2, <1>3 DEF ClosuresOf
  <2>2. (CHOOSE d \in ClosuresOf(u, q.finding) : TRUE) = q.closure
    BY <2>1
  <2> QED BY <2>2, <1>1, <1>3 DEF settlement
<1>6. \A f \in settledFindings(t) : settlement(u, f) = settlement(t, f)
  <2> SUFFICES ASSUME NEW f \in settledFindings(t)
               PROVE  settlement(u, f) = settlement(t, f)
    OBVIOUS
  <2>1. ClosuresOf(u, f) = ClosuresOf(t, f) /\ ClosuresOf(t, f) # {}
    BY <1>1, <1>2, <1>3, <1>4 DEF ClosuresOf, settledFindings
  <2> DEFINE c == CHOOSE d \in ClosuresOf(t, f) : TRUE
  <2>2. c \in ClosuresOf(t, f)
    BY <2>1
  <2>3. u.closures[c] = t.closures[c]
    BY <2>2, <1>3 DEF ClosuresOf
  <2> QED BY <2>1, <2>3 DEF settlement
<1> QED BY <1>4, <1>5, <1>6 DEF SettledOf, Promised!With

\* The ledger of an earlier session keeps the promise: an end is not before
\* its start, findings are about closed runs, and what resolves a finding
\* succeeded.
LEMMA SoundKeepsPromise ==
  ASSUME Sound(db)
  PROVE  Promised!Init
<1>t. /\ IsTable(db.runs, RunID, Run) /\ IsTable(db.findings, FindingID, Finding)
      /\ IsTable(db.closures, ClosureID, Closure)
  BY DEF Sound, IsLedger
<1>d. /\ \A r \in DOMAIN db.runs : validateRunProjection(db.runs[r])
      /\ checkFindingRecords(db) /\ checkForeignKeys(db)
  BY DEF Sound, Doctor, checkRunTerminalRecords, validateSnapshotConsistency
<1>r. \A r \in DOMAIN db.runs :
        r \in RunID /\ db.runs[r] \in Run /\ db.runs[r].start \in Start
  <2>1. \A r \in DOMAIN db.runs : r \in RunID /\ db.runs[r] \in Run
    BY <1>t, StoredRow
  <2> QED BY <2>1 DEF Run
<1>c. \A r \in closedRuns(db) :
        /\ r \in DOMAIN db.runs /\ db.runs[r].close \in Close
        /\ ~ (db.runs[r].close.endedAt < db.runs[r].start.startedAt)
  <2> SUFFICES ASSUME NEW r \in closedRuns(db)
               PROVE  /\ r \in DOMAIN db.runs /\ db.runs[r].close \in Close
                      /\ ~ (db.runs[r].close.endedAt < db.runs[r].start.startedAt)
    OBVIOUS
  <2>1. r \in DOMAIN db.runs /\ db.runs[r].state = "closed"
    BY DEF closedRuns
  <2>2. db.runs[r].close # NULL /\ db.runs[r].close.endedAt >= db.runs[r].start.startedAt
    BY <2>1, <1>d DEF validateRunProjection
  <2>3. db.runs[r].close \in Close
    BY <2>1, <2>2, <1>r DEF Run
  <2>4. db.runs[r].close.endedAt \in Nat /\ db.runs[r].start.startedAt \in Nat
    BY <2>1, <2>3, <1>r, RecordConstants DEF Close, Start
  <2> QED BY <2>1, <2>2, <2>3, <2>4
<1>f. \A f \in DOMAIN db.findings :
        /\ f \in FindingID /\ db.findings[f].origin \in RunID
        /\ db.findings[f].content \in Content
        /\ db.findings[f].origin \in closedRuns(db)
  <2>1. \A f \in DOMAIN db.findings : f \in FindingID /\ db.findings[f] \in Finding
    BY <1>t, StoredRow
  <2>2. \A f \in DOMAIN db.findings : db.findings[f].origin \in closedRuns(db)
    BY <1>d DEF checkFindingRecords, IsClosed, closedRuns
  <2> QED BY <2>1, <2>2 DEF Finding
<1>k. \A f \in settledFindings(db) :
        /\ f \in FindingID /\ f \in DOMAIN db.findings
        /\ settlement(db, f).resolving \subseteq RunID
        /\ settlement(db, f).content \in Content
        /\ \A r \in settlement(db, f).resolving :
             r \in closedRuns(db) /\ db.runs[r].close.outcome = "success"
  <2> SUFFICES ASSUME NEW f \in settledFindings(db)
               PROVE  /\ f \in FindingID /\ f \in DOMAIN db.findings
                      /\ settlement(db, f).resolving \subseteq RunID
                      /\ settlement(db, f).content \in Content
                      /\ \A r \in settlement(db, f).resolving :
                           r \in closedRuns(db) /\ db.runs[r].close.outcome = "success"
    OBVIOUS
  <2> DEFINE c == CHOOSE d \in ClosuresOf(db, f) : TRUE
             row == db.closures[c]
  <2>1. c \in DOMAIN db.closures /\ row.finding = f
    <3>1. ClosuresOf(db, f) # {}
      BY DEF settledFindings, ClosuresOf
    <3>2. c \in ClosuresOf(db, f)
      BY <3>1
    <3> QED BY <3>2 DEF ClosuresOf
  <2>2. settlement(db, f) = [resolving |-> {row.resolving} \ {NULL}, content |-> row.content]
    BY DEF settlement
  <2> HIDE DEF c
  <2>3. row \in Closure
    BY <2>1, <1>t, StoredRow
  <2>4. f \in FindingID /\ f \in DOMAIN db.findings
    BY <2>1, <1>d, <1>f DEF checkForeignKeys
  <2>5. row.resolving # NULL => Succeeded(db, row.resolving)
    BY <2>1, <1>d DEF checkFindingRecords, validateFindingDisposition
  <2>6. row.resolving # NULL =>
          /\ row.resolving \in RunID
          /\ row.resolving \in closedRuns(db)
          /\ db.runs[row.resolving].close.outcome = "success"
    BY <2>5, <1>r DEF Succeeded, IsClosed, closedRuns
  <2>7. row.content \in Content
    BY <2>3 DEF Closure
  <2> HIDE DEF row
  <2> QED BY <2>2, <2>4, <2>6, <2>7
<1>1. StartedOf(db) \in [DOMAIN db.runs -> Start] /\ DOMAIN db.runs \in SUBSET RunID
  BY <1>r DEF StartedOf
<1>2. EndedOf(db) \in [closedRuns(db) -> Close] /\ closedRuns(db) \in SUBSET RunID
  BY <1>r, <1>c DEF EndedOf
<1>3. /\ ReportedOf(db) \in [DOMAIN db.findings -> [origin : RunID, content : Content]]
      /\ DOMAIN db.findings \in SUBSET FindingID
  BY <1>f DEF ReportedOf
<1>4. /\ SettledOf(db) \in
           [settledFindings(db) -> [resolving : SUBSET RunID, content : Content]]
      /\ settledFindings(db) \in SUBSET FindingID
  <2>1. \A f \in settledFindings(db) :
          settlement(db, f) \in [resolving : SUBSET RunID, content : Content]
    BY <1>k DEF settlement
  <2> QED BY <2>1, <1>k DEF SettledOf
<1>5. Promised!Promise
  <2>1. closedRuns(db) \subseteq DOMAIN db.runs
    BY <1>c
  <2>2. settledFindings(db) \subseteq DOMAIN db.findings
    BY <1>k
  <2> QED BY <2>1, <2>2, <1>c, <1>f, <1>k DEF Promised!Promise
<1> QED BY <1>1, <1>2, <1>3, <1>4, <1>5
        DEF Promised!Init, StartedOf, EndedOf, ReportedOf, SettledOf

\* The rows of one request are one step of the promise.
LEMMA EffectIsPromised ==
  ASSUME Sound(db), NEW q, NEW n, Effect(db, db', q, n)
  PROVE  Promised!Next \/ UNCHANGED Promised!promised
<1> DEFINE s == StartedOf(db)
           e == EndedOf(db)
           r == ReportedOf(db)
           k == SettledOf(db)
<1>1. CASE db' = db
  BY <1>1 DEF Promised!promised
<1>2. CASE Starts(db, db', q, n)
  <2>1. /\ StartedOf(db') = Promised!With(s, q.run, q.start) /\ EndedOf(db') = e
    BY <1>2, StartTells
  <2>2. ReportedOf(db') = r /\ SettledOf(db') = k
    BY <1>2, TablesFields, SameFindings, SameClosures DEF Starts
  <2>3. q.run \in RunID /\ q.start \in Start /\ q.run \notin DOMAIN s
    BY <1>2 DEF Starts, StartRequest, StartedOf
  <2>4. Promised!BeginRun(q.run, q.start)
    BY <2>1, <2>2, <2>3
       DEF Promised!BeginRun, StartedOf, EndedOf, ReportedOf, SettledOf
  <2> QED BY <2>3, <2>4 DEF Promised!Next
<1>3. CASE Ends(db, db', q, n)
  <2>1. /\ EndedOf(db') = Promised!With(e, q.run, q.close) /\ StartedOf(db') = s
    BY <1>3, CloseTells DEF Sound
  <2>2. ReportedOf(db') = r /\ SettledOf(db') = k
    BY <1>3, TablesFields, SameFindings, SameClosures DEF Ends
  <2>3. /\ q.run \in RunID /\ q.close \in Close
        /\ q.run \in DOMAIN s /\ q.run \notin DOMAIN e
    BY <1>3 DEF Ends, CloseRequest, StartedOf, EndedOf, closedRuns
  <2>4. EndedOf(db')[q.run] = q.close /\ q.run \in DOMAIN EndedOf(db')
    BY <2>1 DEF Promised!With
  <2>5. ~ (q.close.endedAt < s[q.run].startedAt)
    <3>1. q.close.endedAt >= db.runs[q.run].start.startedAt /\ q.run \in DOMAIN db.runs
      BY <1>3 DEF Ends
    <3>2. db.runs[q.run] \in Run
      BY <3>1, StoredRow DEF Sound, IsLedger
    <3>3. q.close.endedAt \in Nat /\ db.runs[q.run].start.startedAt \in Nat
      BY <2>3, <3>2, RecordConstants DEF Close, Run, Start
    <3> QED BY <3>1, <3>3 DEF StartedOf
  <2>6. Promised!EndRun(q.run)
    BY <2>1, <2>2, <2>3, <2>4, <2>5
       DEF Promised!EndRun, StartedOf, EndedOf, ReportedOf, SettledOf
  <2> QED BY <2>3, <2>6 DEF Promised!Next
<1>4. CASE Reports(db, db', q, n)
  <2>1. ReportedOf(db') =
          Promised!With(r, q.finding, [origin |-> q.origin, content |-> q.content])
    BY <1>4, AddTells
  <2>2. StartedOf(db') = s /\ EndedOf(db') = e /\ SettledOf(db') = k
    BY <1>4, TablesFields, SameRuns, SameClosures DEF Reports
  <2>3. /\ q.finding \in FindingID /\ q.origin \in RunID /\ q.content \in Content
        /\ q.finding \notin DOMAIN r /\ q.origin \in DOMAIN e
    BY <1>4 DEF Reports, FindingRequest, ReportedOf, EndedOf, IsClosed, closedRuns
  <2>4. Promised!Report(q.finding, q.origin, q.content)
    BY <2>1, <2>2, <2>3
       DEF Promised!Report, StartedOf, EndedOf, ReportedOf, SettledOf
  <2> QED BY <2>3, <2>4 DEF Promised!Next
<1>5. CASE Settles(db, db', q, n)
  <2> DEFINE runs == {q.resolving} \ {NULL}
  <2>1. SettledOf(db') =
          Promised!With(k, q.finding, [resolving |-> runs, content |-> q.content])
    BY <1>5, SettleTells
  <2>2. StartedOf(db') = s /\ EndedOf(db') = e /\ ReportedOf(db') = r
    BY <1>5, TablesFields, SameRuns, SameFindings DEF Settles
  <2>3. /\ q.finding \in FindingID /\ runs \in SUBSET RunID /\ q.content \in Content
    BY <1>5 DEF Settles, ClosureRequest
  <2>4. /\ q.finding \in DOMAIN r /\ q.finding \notin DOMAIN k
        /\ q.resolving # NULL => Succeeded(db, q.resolving)
    <3> DEFINE row == ClosureRow(q, n)
    <3>1. row.finding = q.finding /\ row.disposition = q.disposition
          /\ row.resolving = q.resolving
      BY DEF ClosureRow
    <3>2. MayInsertClosure(db, q.closure, row)
      BY <1>5 DEF Settles
    <3> HIDE DEF row
    <3> QED BY <3>1, <3>2 DEF MayInsertClosure, validateFindingDisposition,
                              ReportedOf, SettledOf, settledFindings
  <2>5. \A x \in runs : x \in DOMAIN e /\ e[x].outcome = "success"
    BY <2>4 DEF Succeeded, IsClosed, EndedOf, closedRuns
  <2>6. Promised!Settle(q.finding, runs, q.content)
    BY <2>1, <2>2, <2>3, <2>4, <2>5
       DEF Promised!Settle, StartedOf, EndedOf, ReportedOf, SettledOf
  <2> QED BY <2>3, <2>6 DEF Promised!Next
<1> QED BY <1>1, <1>2, <1>3, <1>4, <1>5 DEF Effect

\* Only COMMIT changes the committed ledger.
LEMMA OnlyCommitPublishes ==
  ASSUME IInv, NEW p \in Proc, Call(p) \/ Advance(p) \/ Cancel(p) \/ Crash(p)
  PROVE  db' = db \/ (pc[p] = "commit" /\ db' = work)
<1>1. CASE Call(p) \/ Cancel(p) \/ Crash(p) \/ Return(p)
  BY <1>1 DEF Call, Cancel, Crash, Return, Rollback, transaction
<1>2. CASE Begin(p) \/ BeginBusy(p) \/ Commit(p) \/ CommitBusy(p)
  BY <1>2 DEF Begin, BeginBusy, Commit, CommitBusy, Busy, Abort, Rollback
<1>3. CASE Refuse(p) \/ Repeat(p)
  BY <1>3 DEF Refuse, Repeat, Execute, Abort, Rollback
<1>4. CASE InsertRun(p) \/ InsertStartEvent(p) \/ InsertTerminalEvent(p) \/ UpdateRun(p)
           \/ InsertFinding(p) \/ InsertClosure(p)
  <2>1. \E admitted, t, next : Execute(p, admitted, t, next)
    BY <1>4 DEF InsertRun, InsertStartEvent, InsertTerminalEvent, UpdateRun,
                InsertFinding, InsertClosure
  <2> QED BY <2>1 DEF Execute, Abort, Rollback
<1>5. CASE SnapshotRun(p) \/ SnapshotEvents(p) \/ ReadBusy(p)
           \/ ShowFinding(p) \/ ShowOriginRun(p) \/ ShowResolvingRun(p)
  <2>1. (\E l, v : ReadTo(p, l, v)) \/ (\E a : ReadAnswer(p, a))
    BY <1>5 DEF SnapshotRun, SnapshotEvents, ReadBusy, ShowFinding, ShowOriginRun,
                ShowResolvingRun
  <2> QED BY <2>1 DEF ReadTo, ReadAnswer, transaction
<1> QED BY <1>1, <1>2, <1>3, <1>4, <1>5 DEF Advance

\* Every behaviour of the store, with its transactions, retries, cancellations
\* and crashes, is a behaviour of the atomic ledger: a call takes effect in one
\* step, its COMMIT, or not at all.
THEOREM StoreIsAtomic == Spec => KeepsPromise
<1>1. Init => Promised!Init
  <2> SUFFICES ASSUME Init PROVE Promised!Init
    OBVIOUS
  <2>1. Sound(db)
    BY InitialInvariant DEF IInv, TypeOK, LedgerOK, Sound
  <2> QED BY <2>1, SoundKeepsPromise
<1>2. AnswersInv /\ [Next]_vars => [Promised!Next]_(Promised!promised)
  <2> SUFFICES ASSUME AnswersInv, [Next]_vars
               PROVE  Promised!Next \/ UNCHANGED Promised!promised
    OBVIOUS
  <2>1. CASE UNCHANGED vars
    BY <2>1 DEF vars, Promised!promised
  <2>2. CASE Next
    <3>1. PICK p \in Proc : Call(p) \/ Advance(p) \/ Cancel(p) \/ Crash(p)
      BY <2>2 DEF Next
    <3>2. db' = db \/ (pc[p] = "commit" /\ db' = work)
      BY <3>1, OnlyCommitPublishes DEF AnswersInv
    <3>3. Effect(db, db', req[p], now[p])
      BY <3>2 DEF AnswersInv, EffectOK, Effect
    <3>4. Sound(db)
      BY DEF AnswersInv, IInv, TypeOK, LedgerOK, Sound
    <3> QED BY <3>3, <3>4, EffectIsPromised
  <2> QED BY <2>1, <2>2
<1> QED BY <1>1, <1>2, AnswersHold, PTL DEF Spec, KeepsPromise, Promised!Spec
=============================================================================
