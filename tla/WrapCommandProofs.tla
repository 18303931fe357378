------------------------- MODULE WrapCommandProofs -------------------------
(***************************************************************************)
(* What `motus wrap' records and reports is what happened to its command,  *)
(* for any output, any clock readings and a crash or signal at any moment. *)
(*                                                                         *)
(* capture.Run under runWrap takes only steps that CaptureSpec allows, so  *)
(* CaptureInv holds throughout.  WrapInv adds where each phase leaves the  *)
(* row of the run: absent until the command may start, open until Run has  *)
(* returned, then closed with what Run returned, which a returned Run      *)
(* cannot change any more.                                                 *)
(***************************************************************************)
EXTENDS WrapCommand, CaptureProofs

\* A row as OpenRecord writes it, no later than now.
OpenRow(startedAt, createdAt) ==
  R!OpenRun([startedAt |-> startedAt, meta |-> "meta"], "start", createdAt)

IsOpenRow(row) ==
  \E startedAt, createdAt \in Time :
    /\ row = OpenRow(startedAt, createdAt)
    /\ ~ ClockSteps => startedAt <= clock /\ createdAt <= clock

\* The terminal metadata of what Run has returned.
Terminal(endedAt) ==
  [endedAt |-> endedAt,
   outcome |-> captureOutcome,
   exitCode |-> optionalExitCode,
   signal |-> IF "signal" \in result.failures THEN "killed" ELSE NULL,
   timedOut |-> "timeout" \in result.failures,
   output |-> [bytes |-> result.counted["stdout"] + result.counted["stderr"],
               lines |-> 0]]

WrapTypeOK ==
  /\ phase \in {"setup", "opening", "capture", "closing", "returned", "exited", "crashed"}
  /\ clock \in Time
  /\ gaveUp \in BOOLEAN
  /\ code \in Int

\* No row, no command.
BeforeCommand ==
  /\ phase \in {"setup", "opening"} => record = NULL
  /\ record = NULL => sup = "begin" /\ phase \notin {"capture", "closing"}

\* A row is open as it was written, or closed with what Run returned.
RowOK ==
  record # NULL =>
    \/ IsOpenRow(record)
    \/ /\ Closed /\ phase \in {"returned", "exited", "crashed"}
       /\ sup = "done" /\ \E t \in Time : record.close = Terminal(t)

\* What is about to be stored, and where.
CloseOK ==
  phase = "closing" =>
    /\ sup = "done" /\ IsOpenRow(record)
    /\ \E t \in Time :
         close = Terminal(t) /\ (~ ClockSteps => record.start.startedAt <= t)

\* The status runWrap returns, and what a signal makes of it.
StatusOK ==
  /\ phase = "returned" =>
       IF Closed THEN code = captureExitCode ELSE code = 1
  /\ phase = "exited" =>
       IF ctx = "signal" THEN code = SignalStatus
       ELSE IF Closed THEN code = captureExitCode ELSE code = 1

\* A run is left open only for one of these reasons.
LeftOpenOK ==
  phase \in {"returned", "exited"} /\ Opened /\ ~ gaveUp /\ ~ ClockSteps /\ ~ Deadline =>
    Closed

WrapInv ==
  /\ CaptureInv
  /\ WrapTypeOK
  /\ BeforeCommand
  /\ RowOK
  /\ CloseOK
  /\ StatusOK
  /\ LeftOpenOK
-----------------------------------------------------------------------------
(* The values the rows are made of.                                        *)

\* The type of a capture result.
LEMMA ResultTyped ==
  ASSUME CaptureInv
  PROVE  /\ result.failures \subseteq CaptureFailure
         /\ result.exitCode \in {-1, 0, 1}
         /\ result.counted \in [Stream -> Nat]
BY DEF CaptureInv, CaptureTypeOK, SupervisorTypes, CaptureResult

\* The row of an open run.
LEMMA OpenRowFacts ==
  ASSUME NEW startedAt \in Time, NEW createdAt \in Time
  PROVE  /\ OpenRow(startedAt, createdAt) # NULL
         /\ OpenRow(startedAt, createdAt).state = "open"
         /\ OpenRow(startedAt, createdAt).start.startedAt = startedAt
<1>1. OpenRow(startedAt, createdAt) \in R!Run
  BY DEF OpenRow, R!OpenRun, R!Run, R!Start
<1> QED BY <1>1, NullIsApart DEF OpenRow, R!OpenRun

\* captureOutcome, case by case.
LEMMA OutcomeCases ==
  /\ "outputCopy" \in result.failures => captureOutcome = "failure"
  /\ "outputCopy" \notin result.failures /\ result.failures \cap {"timeout", "canceled"} # {}
       => captureOutcome = "aborted"
  /\ result.failures = {} /\ result.exitCode = 0 => captureOutcome = "success"
  /\ result.failures \cap {"outputCopy", "timeout", "canceled"} = {}
       /\ ~ (result.failures = {} /\ result.exitCode = 0) => captureOutcome = "failure"
BY DEF captureOutcome

\* Success is an exit code of 0 without a failure.
LEMMA OutcomeTyped ==
  /\ captureOutcome \in {"success", "failure", "aborted"}
  /\ captureOutcome = "success" <=> result.failures = {} /\ result.exitCode = 0
BY OutcomeCases

\* What runWrap closes a run with.
LEMMA TerminalTyped ==
  ASSUME CaptureInv, NEW t \in Time
  PROVE  Terminal(t) \in R!Close /\ Terminal(t) # NULL
<1>1. optionalExitCode \in Int \cup {NULL}
  BY ResultTyped DEF optionalExitCode
<1>2. result.counted["stdout"] + result.counted["stderr"] \in Nat
  BY ResultTyped DEF Stream
<1>3. Terminal(t) \in R!Close
  BY <1>1, <1>2, OutcomeTyped DEF Terminal, R!Close, R!Outcomes, R!Counts
<1> QED BY <1>3, NullIsApart

\* The statuses are positive, but for that of a command that succeeded.
LEMMA StatusValues == SignalStatus = 130 /\ KilledStatus = 137 /\ NoStatus \in Int
BY DEF SignalStatus, KilledStatus, NoStatus

\* The exit status is 0 exactly for a success.
LEMMA StatusIsOutcome ==
  ASSUME CaptureInv
  PROVE  /\ captureExitCode \in Int
         /\ captureExitCode = 0 <=> captureOutcome = "success"
<1>1. captureOutcome = "success" <=> result.failures = {} /\ result.exitCode = 0
  BY OutcomeTyped
<1>2. CASE result.failures = {}
  <2>1. captureExitCode = result.exitCode
    BY <1>2 DEF captureExitCode
  <2> QED BY <1>1, <1>2, <2>1, ResultTyped
<1>3. CASE result.failures # {}
  <2>1. captureExitCode \in {125, 124, SignalStatus, 127, KilledStatus}
    BY <1>3, ResultTyped DEF captureExitCode, CaptureFailure
  <2> QED BY <1>1, <1>3, <2>1, StatusValues
<1> QED BY <1>2, <1>3

\* An exit code is returned only for a child that ended by itself, so that
\* nothing but an output failure can stand beside it.
LEMMA ExitCodeAlone ==
  ASSUME CaptureInv, sup = "done", result.exitCode >= 0
  PROVE  /\ child \in Exited /\ reason = "none"
         /\ result.failures \subseteq {"outputCopy"}
         /\ result.exitCode = 0 => child = "exited 0"
<1>1. child # "none" /\ result.failures = Failures /\ result.exitCode = exitCode
  BY DEF CaptureInv, ResultOK, NoResult
<1>2. child \in Exited /\ reason = "none"
  <2>1. exitCode # -1
    BY <1>1
  <2> QED BY <2>1, ExitCodeMeans
<1>3. exitCode = 0 => child = "exited 0"
  BY ExitCodeMeans
<1>4. ~ Killed
  BY <1>2 DEF Killed, Exited
<1> QED BY <1>1, <1>2, <1>3, <1>4 DEF Failures
-----------------------------------------------------------------------------
(* Under runWrap, capture.Run does what it does alone.                     *)
\* A step of the command is one of Capture or leaves it alone.
LEMMA RunsCapture == [Next]_vars => [CaptureNext]_captureVars
<1> SUFFICES ASSUME [Next]_vars PROVE [CaptureNext]_captureVars
  OBVIOUS
<1>1. CASE Interrupted
  BY <1>1 DEF Interrupted, CaptureNext, Outside
<1>2. CASE Capturing
  BY <1>2 DEF Capturing
<1>3. CASE Step \/ Crash
  BY <1>3 DEF Step, SetupFails, Setup, OpenRecord, OpenFails, EndedAt, EndFails,
     CloseRecord, CloseFails, Exit, Crash
<1>4. CASE UNCHANGED vars
  BY <1>4 DEF vars
<1> QED BY <1>1, <1>2, <1>3, <1>4 DEF Next

\* Whatever runWrap does around it, capture.Run with its command is a behaviour
\* of Capture: what Capture promises (counts, output, own kills) holds of every
\* command that `motus wrap' runs.
THEOREM WrapIsCapture == Spec => CaptureSpec
<1>1. Init => CaptureInit
  BY DEF Init
<1> QED BY <1>1, RunsCapture, PTL DEF Spec, CaptureSpec

\* Run has returned: what it returned stays.
LEMMA TerminalKept ==
  ASSUME result' = result
  PROVE  /\ \A t \in Time : Terminal(t)' = Terminal(t)
         /\ captureExitCode' = captureExitCode
BY DEF Terminal, captureOutcome, optionalExitCode, captureExitCode

\* An open row does not age.
LEMMA OpenRowKept ==
  ASSUME WrapTypeOK, record' = record, clock' \in Time, ~ ClockSteps => clock' >= clock,
         IsOpenRow(record)
  PROVE  IsOpenRow(record)'
<1>1. PICK startedAt, createdAt \in Time :
        /\ record = OpenRow(startedAt, createdAt)
        /\ ~ ClockSteps => startedAt <= clock /\ createdAt <= clock
  BY DEF IsOpenRow
<1>2. startedAt \in Nat /\ createdAt \in Nat /\ clock \in Nat /\ clock' \in Nat
  BY WrapConstants DEF WrapTypeOK
<1>3. ~ ClockSteps => startedAt <= clock' /\ createdAt <= clock'
  BY <1>1, <1>2
<1>4. record' = OpenRow(startedAt, createdAt)
  BY <1>1
<1> QED BY <1>3, <1>4 DEF IsOpenRow, OpenRow

\* An open row is open and not closed.
LEMMA OpenRowIsOpen ==
  ASSUME IsOpenRow(record)
  PROVE  Opened /\ ~ Closed
BY OpenRowFacts DEF IsOpenRow, Opened, Closed

\* The row survives steps that do not write it.
LEMMA RowKept ==
  ASSUME WrapTypeOK, RowOK, clock' \in Time, ~ ClockSteps => clock' >= clock,
         UNCHANGED <<record, result, sup>>,
         phase \in {"returned", "exited", "crashed"} => phase' \in {"returned", "exited", "crashed"}
  PROVE  RowOK'
<1>1. CASE record = NULL
  BY <1>1 DEF RowOK
<1>2. CASE IsOpenRow(record)
  BY <1>2, OpenRowKept DEF RowOK
<1>3. CASE record # NULL /\ ~ IsOpenRow(record)
  BY <1>3, TerminalKept DEF RowOK, Closed, Opened
<1> QED BY <1>1, <1>2, <1>3

-----------------------------------------------------------------------------
(* The close is never refused, while the clock runs forward and the        *)
(* command's context has no deadline: a timeout whose output failed as     *)
(* well would be a failure that timed out, which no CHECK admits.          *)
\* Without a deadline nothing times out.
LEMMA NeverTimedOut ==
  ASSUME CaptureInv, ~ Deadline, sup = "done"
  PROVE  "timeout" \notin result.failures
<1>1. ctx # "expired"
  BY DEF CaptureInv, ReasonOK
<1>2. contextFailure = "canceled"
  BY <1>1 DEF contextFailure
<1>3. "timeout" \notin Failures
  BY <1>2 DEF Failures
<1> QED BY <1>2, <1>3 DEF CaptureInv, ResultOK, NoResult

\* A result without a timeout is a valid close.
LEMMA CloseIsValid ==
  ASSUME CaptureInv, "timeout" \notin result.failures, NEW t \in Time
  PROVE  R!validateClose(Terminal(t))
<1> DEFINE c == Terminal(t)
<1>1. result.counted["stdout"] + result.counted["stderr"] \in Nat
  BY ResultTyped DEF Stream
<1>2. c.output.bytes \in Nat /\ c.output.lines = 0
  BY <1>1 DEF Terminal
<1>3. c.exitCode = optionalExitCode /\ c.outcome = captureOutcome
  BY DEF Terminal
<1>4. "signal" \notin result.failures => c.signal = NULL
  BY DEF Terminal
<1>5. c.timedOut = FALSE
  <2>1. ("timeout" \in result.failures) = FALSE
    OBVIOUS
  <2>2. c.timedOut = ("timeout" \in result.failures)
    BY ZenonT(30) DEF Terminal
  <2> QED BY <2>1, <2>2
<1>6. c.exitCode # NULL => c.exitCode >= 0
  BY <1>3, ResultTyped DEF optionalExitCode
<1>7. c.outcome = "success" => c.exitCode = 0 /\ c.signal = NULL
  BY <1>3, <1>4, OutcomeTyped DEF optionalExitCode
<1> HIDE DEF c
<1>8. /\ c.output.bytes >= 0 /\ c.output.lines >= 0
      /\ c.output.lines <= c.output.bytes
  BY <1>2
<1>9. /\ c.outcome = "success" => c.exitCode = 0 /\ c.signal = NULL /\ c.timedOut # TRUE
      /\ c.timedOut = TRUE => c.outcome = "aborted"
  BY <1>5, <1>7
<1>10. R!validateClose(c)
  BY <1>6, <1>8, <1>9 DEF R!validateClose
<1> QED BY <1>10 DEF c

\* A valid close in time makes a row that passes the checks,
LEMMA ClosedRowPasses ==
  ASSUME NEW startedAt \in Time, NEW createdAt \in Time, NEW c, NEW t \in Time,
         R!validateClose(c), c # NULL, c.endedAt >= startedAt, t >= createdAt
  PROVE  R!RunChecks(R!ClosedRun(OpenRow(startedAt, createdAt), c, "terminal", t))
<1> DEFINE row == R!ClosedRun(OpenRow(startedAt, createdAt), c, "terminal", t)
<1>1. /\ row.state = "closed" /\ row.close = c /\ row.terminalEvent = "terminal"
      /\ row.createdAt = createdAt /\ row.updatedAt = t /\ row.start.startedAt = startedAt
  BY DEF OpenRow, R!OpenRun, R!ClosedRun
<1>2. row.terminalEvent # NULL
  BY <1>1, NullIsApart
<1> HIDE DEF row
<1>3. /\ row.updatedAt >= row.createdAt
      /\ row.state = "open" => row.close = NULL /\ row.terminalEvent = NULL
      /\ row.state = "closed" => row.close # NULL /\ row.terminalEvent # NULL
  BY <1>1, <1>2
<1>4. /\ row.close.endedAt >= row.start.startedAt
      /\ row.close.exitCode # NULL => row.close.exitCode >= 0
      /\ row.close.output.bytes >= 0 /\ row.close.output.lines >= 0
      /\ row.close.output.lines <= row.close.output.bytes
  BY <1>1 DEF R!validateClose
<1>5. row.close.outcome = "success" =>
        row.close.exitCode \in {0, NULL} /\ row.close.signal = NULL /\ row.close.timedOut # TRUE
  BY <1>1 DEF R!validateClose
<1>6. row.close.timedOut = TRUE => row.close.outcome = "aborted"
  BY <1>1 DEF R!validateClose
<1>7. R!RunChecks(row)
  BY <1>3, <1>4, <1>5, <1>6 DEF R!RunChecks
<1> QED BY <1>7 DEF row

\* so that CloseRun accepts it.
LEMMA CloseIsAccepted ==
  ASSUME WrapInv, phase = "closing", NEW t \in Time, t >= clock, ~ ClockSteps, ~ Deadline
  PROVE  Accepted(R!ClosedRun(record, close, "terminal", t))
<1>1. PICK startedAt, createdAt \in Time :
        record = OpenRow(startedAt, createdAt) /\ startedAt <= clock /\ createdAt <= clock
  BY DEF WrapInv, CloseOK, IsOpenRow
<1>2. PICK e \in Time : close = Terminal(e) /\ record.start.startedAt <= e
  BY DEF WrapInv, CloseOK
<1>3. R!validateClose(close)
  BY <1>2, NeverTimedOut, CloseIsValid DEF WrapInv, CloseOK
<1>4. close # NULL /\ close.endedAt = e
  BY <1>2, TerminalTyped DEF Terminal, WrapInv
<1>5. record.start.startedAt = startedAt
  BY <1>1, OpenRowFacts
<1>6. startedAt \in Nat /\ createdAt \in Nat /\ clock \in Nat /\ t \in Nat /\ e \in Nat
  BY WrapConstants DEF WrapInv, WrapTypeOK
<1>7. t >= createdAt /\ close.endedAt >= record.start.startedAt /\ close.endedAt >= startedAt
  BY <1>1, <1>2, <1>4, <1>5, <1>6
<1> QED BY <1>1, <1>3, <1>4, <1>7, ClosedRowPasses DEF Accepted
-----------------------------------------------------------------------------
(* Each step keeps WrapInv.  CaptureInv is kept by RunsCapture.            *)

\* A signal to the command keeps the invariant.
LEMMA InterruptedKeeps == ASSUME WrapInv, Interrupted, CaptureInv' PROVE WrapInv'
<1>1. WrapTypeOK /\ BeforeCommand /\ RowOK /\ CloseOK /\ StatusOK /\ LeftOpenOK
  BY DEF WrapInv
<1>2. /\ UNCHANGED <<phase, clock, record, close, gaveUp, code, result, sup>>
      /\ phase \notin {"capture", "exited", "crashed"}
  BY DEF Interrupted, ContextDone, wrap, supervision
<1>3. clock' \in Time /\ (~ ClockSteps => clock' >= clock)
  BY <1>1, <1>2, WrapConstants DEF WrapTypeOK
<1>4. WrapTypeOK' /\ BeforeCommand'
  BY <1>1, <1>2 DEF WrapTypeOK, BeforeCommand
<1>5. RowOK'
  BY <1>1, <1>2, <1>3, RowKept
<1>6. CloseOK'
  BY <1>1, <1>2, <1>3, OpenRowKept, TerminalKept DEF CloseOK
<1>7. StatusOK' /\ LeftOpenOK'
  BY <1>1, <1>2, TerminalKept DEF StatusOK, LeftOpenOK, Closed, Opened
<1> QED BY <1>4, <1>5, <1>6, <1>7 DEF WrapInv

\* So does a step of the capture,
LEMMA CapturingKeeps == ASSUME WrapInv, Capturing, CaptureInv' PROVE WrapInv'
<1>1. WrapTypeOK /\ BeforeCommand /\ RowOK
  BY DEF WrapInv
<1>2. UNCHANGED <<phase, clock, record, close, gaveUp, code>> /\ phase = "capture"
  BY DEF Capturing, wrap
<1>3. clock' \in Time /\ (~ ClockSteps => clock' >= clock)
  BY <1>1, <1>2, WrapConstants DEF WrapTypeOK
<1>4. WrapTypeOK' /\ BeforeCommand'
  BY <1>1, <1>2 DEF WrapTypeOK, BeforeCommand
<1>5. IsOpenRow(record)
  BY <1>1, <1>2 DEF BeforeCommand, RowOK
<1>6. RowOK'
  BY <1>1, <1>2, <1>3, <1>5, OpenRowKept DEF RowOK
<1>7. CloseOK' /\ StatusOK' /\ LeftOpenOK'
  BY <1>2 DEF CloseOK, StatusOK, LeftOpenOK
<1> QED BY <1>4, <1>6, <1>7 DEF WrapInv

\* A step of runWrap does not move the command.
LEMMA StepsBeside ==
  ASSUME Step \/ Crash
  PROVE  UNCHANGED <<ctx, result, sup>>
BY DEF Step, SetupFails, Setup, OpenRecord, OpenFails, EndedAt, EndFails, CloseRecord,
   CloseFails, Exit, Crash, captureVars, environment, supervision

\* StartRun,
LEMMA OpenRecordKeeps == ASSUME WrapInv, OpenRecord, CaptureInv' PROVE WrapInv'
<1>1. WrapTypeOK /\ BeforeCommand
  BY DEF WrapInv
<1>2. PICK t \in Time : Now(t) /\ record' = OpenRow(clock, t)
  BY DEF OpenRecord, OpenRow
<1>3. phase = "opening" /\ phase' = "capture" /\ UNCHANGED <<close, gaveUp, code>>
  BY DEF OpenRecord
<1>4. clock \in Time /\ clock' = t /\ (~ ClockSteps => clock <= clock' /\ clock' <= clock')
  BY <1>1, <1>2, WrapConstants DEF WrapTypeOK, Now
<1>5. IsOpenRow(record)'
  BY <1>2, <1>4 DEF IsOpenRow, OpenRow
<1>6. record' # NULL
  BY <1>2, <1>4, OpenRowFacts
<1>7. WrapTypeOK' /\ BeforeCommand'
  BY <1>1, <1>2, <1>3, <1>4, <1>6 DEF WrapTypeOK, BeforeCommand
<1>8. RowOK' /\ CloseOK' /\ StatusOK' /\ LeftOpenOK'
  BY <1>3, <1>5 DEF RowOK, CloseOK, StatusOK, LeftOpenOK
<1> QED BY <1>7, <1>8 DEF WrapInv

\* what precedes it,
LEMMA SetupKeeps == ASSUME WrapInv, Setup, CaptureInv' PROVE WrapInv'
<1>1. WrapTypeOK /\ BeforeCommand
  BY DEF WrapInv
<1>2. UNCHANGED <<record, sup, gaveUp, code>> /\ clock' \in Time /\ phase = "setup" /\ phase' = "opening"
  BY StepsBeside DEF Setup, Now, Step
<1>3. WrapTypeOK' /\ BeforeCommand'
  BY <1>1, <1>2 DEF WrapTypeOK, BeforeCommand
<1>4. RowOK' /\ CloseOK' /\ StatusOK' /\ LeftOpenOK'
  BY <1>1, <1>2 DEF BeforeCommand, RowOK, CloseOK, StatusOK, LeftOpenOK
<1> QED BY <1>3, <1>4 DEF WrapInv

\* reading the clock at the end,
LEMMA EndedAtKeeps == ASSUME WrapInv, EndedAt, CaptureInv' PROVE WrapInv'
<1>1. WrapTypeOK /\ BeforeCommand /\ RowOK
  BY DEF WrapInv
<1>2. PICK t \in Time : Now(t) /\ close' = Terminal(t)
  BY DEF EndedAt, Terminal
<1>3. /\ phase = "capture" /\ sup = "done" /\ phase' = "closing"
      /\ UNCHANGED <<record, gaveUp, code, ctx, result, sup>>
  BY StepsBeside DEF EndedAt, Step
<1>4. IsOpenRow(record)
  BY <1>1, <1>3 DEF BeforeCommand, RowOK
<1>5. clock' = t /\ (~ ClockSteps => clock' >= clock)
  BY <1>1, <1>2, WrapConstants DEF WrapTypeOK, Now
<1>6. IsOpenRow(record)'
  BY <1>1, <1>3, <1>4, <1>5, OpenRowKept
<1>7. ~ ClockSteps => record'.start.startedAt <= t
  BY <1>5, <1>6, OpenRowFacts DEF IsOpenRow
<1>8. CloseOK'
  BY <1>2, <1>3, <1>6, <1>7, TerminalKept DEF CloseOK
<1>9. WrapTypeOK' /\ BeforeCommand'
  BY <1>1, <1>3, <1>5 DEF WrapTypeOK, BeforeCommand
<1>10. RowOK' /\ StatusOK' /\ LeftOpenOK'
  BY <1>3, <1>6 DEF RowOK, StatusOK, LeftOpenOK
<1> QED BY <1>8, <1>9, <1>10 DEF WrapInv

\* The returns with status 1, which leave the row as it is.
LEMMA FailuresKeep ==
  ASSUME WrapInv, SetupFails \/ OpenFails \/ EndFails \/ CloseFails, CaptureInv'
  PROVE  WrapInv'
<1>1. WrapTypeOK /\ BeforeCommand /\ RowOK /\ CloseOK
  BY DEF WrapInv
<1>2. /\ UNCHANGED <<clock, record, close, ctx, result, sup>>
      /\ phase \in {"setup", "opening", "capture", "closing"} /\ phase' = "returned" /\ code' = 1
      /\ gaveUp' \in BOOLEAN
      /\ phase \in {"capture", "closing"} => gaveUp'
  BY <1>1, StepsBeside
     DEF SetupFails, OpenFails, EndFails, CloseFails, ReturnStatus, Step, WrapTypeOK
<1>3. record = NULL \/ IsOpenRow(record)
  BY <1>1, <1>2 DEF RowOK
<1>4. clock' \in Time /\ (~ ClockSteps => clock' >= clock)
  BY <1>1, <1>2, WrapConstants DEF WrapTypeOK
<1>5. WrapTypeOK' /\ BeforeCommand'
  BY <1>1, <1>2, <1>4 DEF WrapTypeOK, BeforeCommand
<1>6. RowOK'
  BY <1>1, <1>2, <1>4, RowKept
<1>7. ~ Closed /\ ~ Closed'
  BY <1>2, <1>3, OpenRowIsOpen DEF Closed, Opened
<1>8. CloseOK' /\ StatusOK'
  BY <1>2, <1>7 DEF CloseOK, StatusOK
<1>9. LeftOpenOK'
  BY <1>1, <1>2 DEF BeforeCommand, LeftOpenOK, Opened
<1> QED BY <1>5, <1>6, <1>8, <1>9 DEF WrapInv

\* CloseRun,
LEMMA CloseRecordKeeps == ASSUME WrapInv, CloseRecord, CaptureInv' PROVE WrapInv'
<1>1. WrapTypeOK /\ BeforeCommand /\ RowOK /\ CloseOK
  BY DEF WrapInv
<1>2. PICK t \in Time :
        /\ Now(t)
        /\ LET row == R!ClosedRun(record, close, "terminal", t) IN
           IF Accepted(row)
           THEN record' = row /\ ReturnStatus(captureExitCode)
           ELSE UNCHANGED record /\ ReturnStatus(1)
  BY DEF CloseRecord
<1>3. /\ phase = "closing" /\ phase' = "returned" /\ UNCHANGED <<close, gaveUp, ctx, result, sup>>
      /\ clock' = t /\ (~ ClockSteps => clock' >= clock)
  BY <1>2, StepsBeside DEF CloseRecord, Now, ReturnStatus, Step
<1>4. /\ sup = "done" /\ IsOpenRow(record)
      /\ \E e \in Time : close = Terminal(e)
  BY <1>1, <1>3 DEF CloseOK
<1>5. CASE Accepted(R!ClosedRun(record, close, "terminal", t))
  <2>1. record' = R!ClosedRun(record, close, "terminal", t) /\ code' = captureExitCode
    BY <1>2, <1>5 DEF ReturnStatus
  <2>2. PICK startedAt, createdAt \in Time : record = OpenRow(startedAt, createdAt)
    BY <1>4 DEF IsOpenRow
  <2>3. record' \in R!Run /\ record'.state = "closed" /\ record'.close = close
    <3>1. close \in R!Close
      BY <1>4, TerminalTyped DEF WrapInv
    <3> QED BY <2>1, <2>2, <3>1
            DEF OpenRow, R!OpenRun, R!ClosedRun, R!Run, R!Start
  <2>4. Closed'
    BY <2>3, NullIsApart DEF Closed, Opened
  <2>5. WrapTypeOK' /\ BeforeCommand'
    BY <1>1, <1>3, <2>1, <2>4, StatusIsOutcome
       DEF WrapInv, WrapTypeOK, BeforeCommand, Closed, Opened
  <2>6. RowOK'
    BY <1>3, <1>4, <2>3, <2>4, TerminalKept DEF RowOK
  <2>7. StatusOK' /\ CloseOK' /\ LeftOpenOK'
    BY <1>3, <2>1, <2>4, TerminalKept DEF StatusOK, CloseOK, LeftOpenOK
  <2> QED BY <2>5, <2>6, <2>7 DEF WrapInv
<1>6. CASE ~ Accepted(R!ClosedRun(record, close, "terminal", t))
  <2>1. UNCHANGED record /\ code' = 1
    BY <1>2, <1>6 DEF ReturnStatus
  <2>2. IsOpenRow(record)' /\ ~ Closed'
    BY <1>1, <1>3, <1>4, <2>1, OpenRowKept, OpenRowIsOpen DEF Closed, Opened
  <2>3. ClockSteps \/ Deadline
    BY <1>2, <1>3, <1>6, CloseIsAccepted DEF Now
  <2>4. WrapTypeOK' /\ BeforeCommand'
    BY <1>1, <1>3, <2>1 DEF WrapTypeOK, BeforeCommand
  <2>5. RowOK' /\ CloseOK' /\ StatusOK' /\ LeftOpenOK'
    BY <1>3, <2>1, <2>2, <2>3 DEF RowOK, CloseOK, StatusOK, LeftOpenOK
  <2> QED BY <2>4, <2>5 DEF WrapInv
<1> QED BY <1>5, <1>6

\* and leaving or dying.
LEMMA EndsKeep == ASSUME WrapInv, Exit \/ Crash, CaptureInv' PROVE WrapInv'
<1>1. WrapTypeOK /\ BeforeCommand /\ RowOK /\ CloseOK /\ StatusOK /\ LeftOpenOK
  BY DEF WrapInv
<1>2. UNCHANGED <<clock, record, close, gaveUp, ctx, result, sup>>
  BY StepsBeside DEF Exit, Crash, Step
<1>3. \/ /\ phase = "returned" /\ phase' = "exited"
         /\ code' = IF ctx = "signal" THEN SignalStatus ELSE code
      \/ phase' = "crashed" /\ code' = code
  BY DEF Exit, Crash
<1>4. clock' \in Time /\ (~ ClockSteps => clock' >= clock)
  BY <1>1, <1>2, WrapConstants DEF WrapTypeOK
<1>5. WrapTypeOK' /\ BeforeCommand'
  BY <1>1, <1>2, <1>3, <1>4, StatusValues DEF WrapTypeOK, BeforeCommand
<1>6. RowOK' /\ CloseOK'
  BY <1>1, <1>2, <1>3, <1>4, RowKept DEF CloseOK
<1>7. StatusOK' /\ LeftOpenOK'
  BY <1>1, <1>2, <1>3, TerminalKept DEF StatusOK, LeftOpenOK, Closed, Opened
<1> QED BY <1>5, <1>6, <1>7 DEF WrapInv

-----------------------------------------------------------------------------
\* The invariant holds at first,
LEMMA WrapInvInit == Init => WrapInv
<1> SUFFICES ASSUME Init PROVE WrapInv
  OBVIOUS
<1>1. CaptureInv
  BY CaptureInvInit DEF Init
<1>2. WrapTypeOK
  BY StatusValues DEF Init, WrapTypeOK
<1>3. BeforeCommand /\ RowOK /\ CloseOK /\ StatusOK /\ LeftOpenOK
  BY DEF Init, CaptureInit, BeforeCommand, RowOK, CloseOK, StatusOK, LeftOpenOK
<1> QED BY <1>1, <1>2, <1>3 DEF WrapInv

\* every step keeps it,
LEMMA WrapInvKept == WrapInv /\ [Next]_vars => WrapInv'
<1> SUFFICES ASSUME WrapInv, [Next]_vars PROVE WrapInv'
  OBVIOUS
<1>1. CaptureInv'
  BY RunsCapture, CaptureInvKept DEF WrapInv
<1>2. CASE Interrupted
  BY <1>1, <1>2, InterruptedKeeps
<1>3. CASE Capturing
  BY <1>1, <1>3, CapturingKeeps
<1>4. CASE Step
  BY <1>1, <1>4, OpenRecordKeeps, SetupKeeps, EndedAtKeeps, FailuresKeep, CloseRecordKeeps,
     EndsKeep DEF Step
<1>5. CASE Crash
  BY <1>1, <1>5, EndsKeep
<1>6. CASE UNCHANGED vars
  <2>1. UNCHANGED <<phase, clock, record, close, gaveUp, code, ctx, result, sup>>
    BY <1>6 DEF vars, wrap, captureVars, environment, supervision
  <2>2. clock' \in Time /\ (~ ClockSteps => clock' >= clock)
    BY <2>1, WrapConstants DEF WrapInv, WrapTypeOK
  <2>3. WrapTypeOK' /\ BeforeCommand' /\ RowOK'
    BY <2>1, <2>2, RowKept DEF WrapInv, WrapTypeOK, BeforeCommand
  <2>4. CloseOK'
    BY <2>1, <2>2, OpenRowKept, TerminalKept DEF WrapInv, CloseOK
  <2>5. StatusOK' /\ LeftOpenOK'
    BY <2>1, TerminalKept DEF WrapInv, StatusOK, LeftOpenOK, Closed, Opened
  <2> QED BY <1>1, <2>3, <2>4, <2>5 DEF WrapInv
<1> QED BY <1>2, <1>3, <1>4, <1>5, <1>6 DEF Next

\* and so it always holds.
LEMMA WrapInvAlways == Spec => []WrapInv
BY WrapInvInit, WrapInvKept, PTL DEF Spec
-----------------------------------------------------------------------------
(* The properties, of a state.                                             *)

\* A row that is closed holds what Run returned.
LEMMA ClosedFacts ==
  ASSUME WrapInv, Closed
  PROVE  /\ sup = "done"
         /\ \E t \in Time : record.close = Terminal(t)
BY OpenRowIsOpen DEF WrapInv, RowOK, Closed, Opened

\* The invariant implies CommandHasRecord,
LEMMA CommandsHaveRecords == WrapInv => CommandHasRecord
BY DEF WrapInv, BeforeCommand, CaptureInv, WaitOK, CommandHasRecord, Opened

\* SuccessIsEarned,
LEMMA SuccessesAreEarned == WrapInv => SuccessIsEarned
<1> SUFFICES ASSUME WrapInv, Closed, record.close.outcome = "success"
             PROVE  /\ child = "exited 0"
                    /\ forwarded = written
                    /\ record.close.output.bytes = written["stdout"] + written["stderr"]
  BY DEF SuccessIsEarned
<1>1. PICK t \in Time : record.close = Terminal(t)
  BY ClosedFacts
<1>2. sup = "done" /\ CaptureInv
  BY ClosedFacts DEF WrapInv
<1>3. result.failures = {} /\ result.exitCode = 0
  BY <1>1, OutcomeTyped DEF Terminal
<1>4. child = "exited 0" /\ reason = "none"
  <2>1. result.exitCode >= 0
    BY <1>3
  <2> QED BY <1>2, <1>3, <2>1, ExitCodeAlone
<1>5. ~ osError
  <2>1. result.failures = Failures
    BY <1>2, <1>4, ReturnedFacts
  <2> QED BY <1>3, <1>4, <2>1 DEF Failures
<1>6. \A s \in Stream : counted[s] = written[s] /\ forwarded[s] = written[s]
  BY <1>2, <1>3, <1>4, <1>5, NothingIsTruncated DEF NothingTruncated
<1>7. forwarded = written
  BY <1>2, <1>6 DEF CaptureInv, CaptureTypeOK, CopyTypes
<1>8. result.counted = counted
  BY <1>2, <1>4, CountsAreSettled DEF CountsSettled
<1>9. record.close.output.bytes = counted["stdout"] + counted["stderr"]
  BY <1>1, <1>8 DEF Terminal
<1> QED BY <1>4, <1>6, <1>7, <1>9 DEF Stream

\* StatusTellsRecord
LEMMA StatusesTellRecords == WrapInv => StatusTellsRecord
<1> SUFFICES ASSUME WrapInv, phase = "exited"
             PROVE  /\ code = 0 <=> Closed /\ record.close.outcome = "success" /\ ctx # "signal"
                    /\ ctx = "signal" => code = SignalStatus
                    /\ Closed /\ ctx # "signal" /\ record.close.exitCode # NULL =>
                         code \in {record.close.exitCode, 125}
  BY DEF StatusTellsRecord
<1>1. CaptureInv /\ StatusOK
  BY DEF WrapInv
<1>2. CASE ctx = "signal"
  BY <1>1, <1>2, StatusValues DEF StatusOK
<1>3. CASE ctx # "signal" /\ ~ Closed
  BY <1>1, <1>3 DEF StatusOK
<1>4. CASE ctx # "signal" /\ Closed
  <2>1. code = captureExitCode
    BY <1>1, <1>4 DEF StatusOK
  <2>2. PICK t \in Time : record.close = Terminal(t)
    BY <1>4, ClosedFacts
  <2>3. record.close.outcome = captureOutcome /\ record.close.exitCode = optionalExitCode
    BY <2>2 DEF Terminal
  <2>4. code = 0 <=> record.close.outcome = "success"
    BY <1>1, <2>1, <2>3, StatusIsOutcome
  <2>5. ASSUME record.close.exitCode # NULL PROVE code \in {record.close.exitCode, 125}
    <3>1. ~ (result.exitCode < 0) /\ record.close.exitCode = result.exitCode
      BY <2>3, <2>5 DEF optionalExitCode
    <3>2. result.exitCode >= 0
      BY <1>1, <3>1, ResultTyped
    <3>3. result.failures \subseteq {"outputCopy"}
      BY <1>1, <1>4, <3>2, ClosedFacts, ExitCodeAlone
    <3> QED BY <2>1, <3>1, <3>3 DEF captureExitCode
  <2> QED BY <1>4, <2>4, <2>5
<1> QED BY <1>2, <1>3, <1>4

\* and OutcomeTellsWhy.
LEMMA OutcomesTellWhy == WrapInv => OutcomeTellsWhy
<1> SUFFICES ASSUME WrapInv, Closed
             PROVE  /\ OutputFailed => record.close.outcome = "failure"
                    /\ child = "terminated" /\ ~ OutputFailed =>
                         record.close.outcome = "aborted"
  BY DEF OutcomeTellsWhy
<1>1. CaptureInv /\ sup = "done" /\ record.close.outcome = captureOutcome
  <2>1. PICK t \in Time : record.close = Terminal(t)
    BY ClosedFacts
  <2> QED BY <2>1, ClosedFacts DEF WrapInv, Terminal
<1>2. ASSUME OutputFailed PROVE captureOutcome = "failure"
  <2>1. child # "none"
    BY <1>1, <1>2 DEF OutputFailed, CaptureInv, NothingYet
  <2>2. "outputCopy" \in result.failures
    BY <1>1, <1>2, <2>1, ReturnedFacts DEF Failures, OutputFailed
  <2> QED BY <2>2, OutcomeCases
<1>3. ASSUME child = "terminated", ~ OutputFailed PROVE captureOutcome = "aborted"
  <2>1. reason # "none" /\ reason # "output" /\ reason \in {"none", "context", "output"}
    BY <1>1, <1>3 DEF CaptureInv, CaptureTypeOK, SupervisorTypes, ReasonOK, OutputFailed
  <2>2. result.failures = Failures
    BY <1>1, <1>3, ReturnedFacts
  <2>3. result.failures = {contextFailure}
    BY <1>3, <2>1, <2>2 DEF Failures, OutputFailed
  <2>4. contextFailure \in {"timeout", "canceled"}
    BY DEF contextFailure
  <2> QED BY <2>3, <2>4, OutcomeCases
<1> QED BY <1>1, <1>2, <1>3

-----------------------------------------------------------------------------
\* What `motus wrap' ran it has a record of (CommandHasRecord).
THEOREM NoCommandUnrecorded == Spec => []CommandHasRecord
BY WrapInvAlways, CommandsHaveRecords, PTL

\* A recorded success is one, with all of its output (SuccessIsEarned).
THEOREM SuccessIsReal == Spec => []SuccessIsEarned
BY WrapInvAlways, SuccessesAreEarned, PTL

\* The exit status tells the caller the record (StatusTellsRecord).
THEOREM StatusIsRecord == Spec => []StatusTellsRecord
BY WrapInvAlways, StatusesTellRecords, PTL

\* The record tells why the run ended (OutcomeTellsWhy).
THEOREM OutcomeIsCause == Spec => []OutcomeTellsWhy
BY WrapInvAlways, OutcomesTellWhy, PTL

\* With a clock that is not set back, and no deadline (the command line has
\* none), the ledger accepts the result of every command (RunIsClosed).
THEOREM EveryResultIsStored ==
  ASSUME ~ ClockSteps, ~ Deadline
  PROVE  Spec => []RunIsClosed
<1>1. WrapInv => RunIsClosed
  BY DEF WrapInv, LeftOpenOK, RunIsClosed
<1> QED BY <1>1, WrapInvAlways, PTL
============================================================================
