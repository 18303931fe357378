---------------------------- MODULE WrapCommand ----------------------------
(***************************************************************************)
(* `motus wrap -- COMMAND' (internal/cli, runWrap): open a run record, run *)
(* the command under Capture, close the record, report an exit status.     *)
(*                                                                         *)
(* The record is one row of the ledger; the store operations are single    *)
(* steps here (LedgerStore shows what is inside them), with the checks of  *)
(* the row that LedgerRecords states.  A crash of Motus, a second signal   *)
(* included (the first restores the default handler), can come anywhere.   *)
(***************************************************************************)
EXTENDS Capture

CONSTANTS
  Time,        \* clock readings
  ClockSteps,  \* TRUE iff the wall clock may be set back during the run
  NULL

ASSUME WrapConstants == Time \subseteq Nat /\ ClockSteps \in BOOLEAN

R == INSTANCE LedgerRecords WITH
  RunID <- {"run"}, EventID <- {"start", "terminal"}, FindingID <- {}, ClosureID <- {},
  Meta <- {"meta"}, ValidMeta <- {"meta"}, Content <- {}, Signal <- {"killed"}

\* No record, no exit code and no name is the absent value.
ASSUME NullIsApart ==
  NULL \notin Int \cup {"start", "terminal", "killed"} \cup R!Run \cup R!Close

VARIABLES
  phase,   \* where runWrap is
  clock,   \* the last clock reading
  record,  \* the row of the run, or NULL
  close,   \* the terminal metadata it is about to store, or NULL
  gaveUp,  \* the store, the clock's source of IDs or the disk failed after the run
  code     \* the exit status

wrap == <<phase, clock, record, close, gaveUp, code>>
vars == <<captureVars, wrap>>

SignalStatus == 128 + 2    \* 128 + SIGINT
KilledStatus == 128 + 9
NoStatus == -1

Init ==
  /\ CaptureInit
  /\ phase = "setup"
  /\ clock \in Time
  /\ record = NULL
  /\ close = NULL
  /\ gaveUp = FALSE
  /\ code = NoStatus

\* time.Now(), without its monotonic part
Now(t) ==
  /\ t \in Time
  /\ ClockSteps \/ t >= clock
  /\ clock' = t

\* commandError, or any return of runWrap with a status.
ReturnStatus(status) ==
  /\ phase' = "returned"
  /\ code' = status

-----------------------------------------------------------------------------
(* Before the command.                                                     *)

\* A signal, or the caller's cancellation, outside capture.Run.
Interrupted ==
  /\ phase \notin {"capture", "exited", "crashed"}
  /\ \E why \in {"signal", "canceled", "expired"} : ContextDone(why)
  /\ UNCHANGED wrap

\* No IDs, or no ledger: nothing was recorded.
SetupFails ==
  /\ phase = "setup"
  /\ ReturnStatus(1)
  /\ UNCHANGED <<captureVars, clock, record, close, gaveUp>>

\* IDs, started_at, Git metadata, store.Open.
Setup ==
  /\ phase = "setup"
  /\ \E t \in Time : Now(t)
  /\ phase' = "opening"
  /\ UNCHANGED <<captureVars, record, close, gaveUp, code>>

\* StartRun under the command's context; started_at was read before.
OpenRecord ==
  /\ phase = "opening" /\ ctx = "live"
  /\ \E t \in Time :
       /\ Now(t)
       /\ record' = R!OpenRun([startedAt |-> clock, meta |-> "meta"], "start", t)
  /\ phase' = "capture"
  /\ UNCHANGED <<captureVars, close, gaveUp, code>>

\* Mutant: the command runs although the record could not be created.
OpenFailsUnnoticed ==
  /\ phase = "opening"
  /\ phase' = "capture"
  /\ UNCHANGED <<captureVars, clock, record, close, gaveUp, code>>

\* A busy or broken ledger, or a context that is done.
OpenFails ==
  /\ phase = "opening"
  /\ ReturnStatus(1)
  /\ UNCHANGED <<captureVars, clock, record, close, gaveUp>>

-----------------------------------------------------------------------------
(* The command.                                                            *)

Capturing ==
  /\ phase = "capture"
  /\ CaptureNext
  /\ UNCHANGED wrap

optionalExitCode == IF result.exitCode < 0 THEN NULL ELSE result.exitCode

\* Mutant: the exit code alone decides.
captureOutcomeByExitCode == IF result.exitCode = 0 THEN "success" ELSE "failure"

\* Mutant: cancellation is looked at before the output.
captureOutcomeSwapped ==
  CASE result.failures \cap {"timeout", "canceled"} # {} -> "aborted"
    [] result.failures = {} /\ result.exitCode = 0 -> "success"
    [] OTHER -> "failure"

captureOutcome ==
  CASE "outputCopy" \in result.failures -> "failure"
    [] "outputCopy" \notin result.failures
       /\ result.failures \cap {"timeout", "canceled"} # {} -> "aborted"
    [] result.failures = {} /\ result.exitCode = 0 -> "success"
    [] OTHER -> "failure"

captureExitCode ==
  IF "outputCopy" \in result.failures THEN 125
  ELSE IF "timeout" \in result.failures THEN 124
  ELSE IF "canceled" \in result.failures THEN SignalStatus
  ELSE IF "start" \in result.failures THEN 127
  ELSE IF "signal" \in result.failures THEN KilledStatus
  ELSE result.exitCode

\* The clock is read once more, and the result becomes terminal metadata.
EndedAt ==
  /\ phase = "capture" /\ sup = "done"
  /\ \E t \in Time :
       /\ Now(t)
       /\ close' = [endedAt |-> t,
                    outcome |-> captureOutcome,
                    exitCode |-> optionalExitCode,
                    signal |-> IF "signal" \in result.failures THEN "killed" ELSE NULL,
                    timedOut |-> "timeout" \in result.failures,
                    output |-> [bytes |-> result.counted["stdout"] + result.counted["stderr"],
                                lines |-> 0]]
  /\ phase' = "closing"
  /\ UNCHANGED <<captureVars, record, gaveUp, code>>

\* No terminal event ID, or counts beyond the ledger's integers.
EndFails ==
  /\ phase = "capture" /\ sup = "done"
  /\ gaveUp' = TRUE
  /\ ReturnStatus(1)
  /\ UNCHANGED <<captureVars, clock, record, close>>

-----------------------------------------------------------------------------
(* After the command.                                                      *)

Accepted(row) ==
  /\ R!validateClose(close)
  /\ close.endedAt >= record.start.startedAt
  /\ R!RunChecks(row)

\* Mutant: the context of the command also bounds the close.
CloseUnderContext ==
  /\ phase = "closing"
  /\ \E t \in Time :
       /\ Now(t)
       /\ LET row == R!ClosedRun(record, close, "terminal", t) IN
          IF ctx = "live" /\ Accepted(row)
          THEN record' = row /\ ReturnStatus(captureExitCode)
          ELSE UNCHANGED record /\ ReturnStatus(1)
  /\ UNCHANGED <<captureVars, close, gaveUp>>

\* CloseRun, under a context that is never done.
CloseRecord ==
  /\ phase = "closing"
  /\ \E t \in Time :
       /\ Now(t)
       /\ LET row == R!ClosedRun(record, close, "terminal", t) IN
          IF Accepted(row)
          THEN record' = row /\ ReturnStatus(captureExitCode)
          ELSE UNCHANGED record /\ ReturnStatus(1)
  /\ UNCHANGED <<captureVars, close, gaveUp>>

\* The ledger stayed busy, or the disk failed.
CloseFails ==
  /\ phase = "closing"
  /\ gaveUp' = TRUE
  /\ ReturnStatus(1)
  /\ UNCHANGED <<captureVars, clock, record, close>>

\* Mutant: the signal is forgotten.
ExitWithoutSignal ==
  /\ phase = "returned"
  /\ phase' = "exited"
  /\ UNCHANGED <<captureVars, clock, record, close, gaveUp, code>>

\* processSignalExitCode, deferred in Run.
Exit ==
  /\ phase = "returned"
  /\ phase' = "exited"
  /\ code' = IF ctx = "signal" THEN SignalStatus ELSE code
  /\ UNCHANGED <<captureVars, clock, record, close, gaveUp>>

Crash ==
  /\ phase \notin {"exited", "crashed"}
  /\ phase' = "crashed"
  /\ UNCHANGED <<captureVars, clock, record, close, gaveUp, code>>

-----------------------------------------------------------------------------
Step ==
  \/ SetupFails \/ Setup \/ OpenRecord \/ OpenFails
  \/ EndedAt \/ EndFails \/ CloseRecord \/ CloseFails \/ Exit

Next == Interrupted \/ Capturing \/ Step \/ Crash

Spec == Init /\ [][Next]_vars

\* runWrap keeps running, and capture.Run under it as in Capture.
FairSpec ==
  /\ Spec
  /\ WF_vars(Step)
  /\ \A s \in Stream : WF_vars(Copy(s) /\ Capturing)
  /\ WF_vars(Wait /\ Capturing)
  /\ WF_vars(Supervisor /\ Capturing)

-----------------------------------------------------------------------------
(* Properties.                                                             *)

Opened == record # NULL
Closed == Opened /\ record.state = "closed"
OutputFailed == \E s \in Stream : failed[s]

\* "Motus does not run a command if it cannot create the open record": while
\* the child has not been started, or ever after, there is a record of it.
CommandHasRecord == child # "none" => Opened

\* A run recorded as a success is one: the child ended by itself with exit
\* code 0, nothing it or its descendants wrote was lost on the way, and the
\* recorded counts are those of all the output.
SuccessIsEarned ==
  Closed /\ record.close.outcome = "success" =>
    /\ child = "exited 0"
    /\ forwarded = written
    /\ record.close.output.bytes = written["stdout"] + written["stderr"]

\* The exit status tells the caller the record: 0 for a recorded success and
\* nothing else, unless a signal came, which is what the status then says.
StatusTellsRecord ==
  phase = "exited" =>
    /\ code = 0 <=> Closed /\ record.close.outcome = "success" /\ ctx # "signal"
    /\ ctx = "signal" => code = SignalStatus
    /\ Closed /\ ctx # "signal" /\ record.close.exitCode # NULL =>
         code \in {record.close.exitCode, 125}

\* What is recorded is why the run ended: an output failure as a failure
\* (exit code or not), a cancellation that killed the child as aborted.
OutcomeTellsWhy ==
  Closed =>
    /\ OutputFailed => record.close.outcome = "failure"
    /\ child = "terminated" /\ ~ OutputFailed => record.close.outcome = "aborted"

\* Whatever capture.Run returns can be stored: validateClose and the CHECKs
\* of the schema refuse no result of a command, so a run stays open only
\* when Motus crashed, or the ledger or its surroundings failed, as long as
\* the clock is not set back (OutputFailureClosesRun has that case).
RunIsClosed == phase = "exited" /\ Opened /\ ~ gaveUp => Closed

\* A signal never leaves the run open for good, even while a descendant
\* holds the output open: the group is killed and the record is closed.
SignalEndsWrap ==
  phase = "capture" /\ ctx # "live" ~> Closed \/ phase = "crashed" \/ gaveUp

-----------------------------------------------------------------------------
(* What ARCHITECTURE.md says and the code does not keep.                   *)

\* "a downstream output failure terminates the supervised process group ...,
\* waits for output forwarding to finish, then closes the run as failed"
\* (ARCHITECTURE.md:126-129).
OutputFailureClosesRun ==
  phase = "exited" /\ OutputFailed /\ ~ gaveUp =>
    Closed /\ record.close.outcome = "failure"

\* "A signal received after the command has completed ... does not replace
\* the recorded command outcome" (ARCHITECTURE.md:130-132): the child has
\* exited with 0 and its output is forwarded, and no signal has come yet.
CompletedUnsignaled ==
  /\ child = "exited 0" /\ ctx = "live"
  /\ \A s \in Stream : copier[s] = "done" /\ ~ failed[s]
  /\ ~ osError

LateSignalKeepsOutcome ==
  [](CompletedUnsignaled => [](Closed => record.close.outcome = "success"))
============================================================================
