------------------------------ MODULE Capture ------------------------------
(***************************************************************************)
(* capture.Run (internal/capture): one child process, the two goroutines   *)
(* os/exec runs to copy its output into the stream counters, the goroutine *)
(* in cmd.Wait, and the supervisor's select over "wait finished", "context *)
(* done" and "an output destination failed".  The Unix process controller  *)
(* is the one modelled: the child leads its own process group.             *)
(*                                                                         *)
(* Output is counted in chunks, one per Write.  A helper stands for the    *)
(* child's descendants: it inherits the output pipes, so the copies reach  *)
(* their end only when it is gone too.                                     *)
(***************************************************************************)
EXTENDS Integers

CONSTANTS
  Shared,      \* TRUE iff both streams were given the same writer
  Deadline,    \* TRUE iff the context may have a deadline
  CanDetach,   \* TRUE iff the helper may leave the process group
  MaxChunks    \* bound: chunks written to each stream

ASSUME CaptureConstants ==
  /\ {Shared, Deadline, CanDetach} \subseteq BOOLEAN
  /\ MaxChunks \in Nat

Stream == {"stdout", "stderr"}

VARIABLES
  ctx,        \* "live", or why it is done: a signal, a plain cancel, a deadline
  child,      \* the child process
  helper,     \* its descendant
  written,    \* written[s]: chunks put into the pipe of stream s
  counted,    \* counted[s]: chunks its counter has seen
  forwarded,  \* forwarded[s]: chunks its destination accepted
  copier,     \* copier[s]: what the copy goroutine is doing
  broken,     \* broken[s]: the destination rejects everything from now on
  failed,     \* failed[s]: the counter has given up on the destination
  osError,    \* reading a pipe failed in the operating system
  notice,     \* a token is in the outputFailed channel (capacity 1)
  waiter,     \* the goroutine in cmd.Wait
  sup,        \* the supervisor
  reason,     \* why it terminated the process group, if it did
  result      \* what Run returns

environment == <<ctx, child, helper, written, broken>>
copies == <<counted, forwarded, copier, failed, osError, notice>>
supervision == <<waiter, sup, reason, result>>
captureVars == <<environment, copies, supervision>>

Alive == child = "running" \/ helper \in {"running", "detached"}
Exited == {"exited 0", "exited 1"}
Ended == Exited \cup {"signaled", "terminated"}

\* The wait status says "signaled" whoever sent the signal.
Killed == child \in {"signaled", "terminated"}

NoCounts == [s \in Stream |-> 0]
NoResult == [failures |-> {}, exitCode |-> -1, counted |-> NoCounts]

CaptureInit ==
  /\ ctx = "live"
  /\ child = "none"
  /\ helper = "none"
  /\ written = NoCounts
  /\ counted = NoCounts
  /\ forwarded = NoCounts
  /\ copier = [s \in Stream |-> "idle"]
  /\ broken = [s \in Stream |-> FALSE]
  /\ failed = [s \in Stream |-> FALSE]
  /\ osError = FALSE
  /\ notice = FALSE
  /\ waiter = "none"
  /\ sup = "begin"
  /\ reason = "none"
  /\ result = NoResult

-----------------------------------------------------------------------------
(* What happens around Run.                                                *)

ContextDone(why) ==
  /\ ctx = "live"
  /\ why = "expired" => Deadline
  /\ ctx' = why
  /\ UNCHANGED <<child, helper, written, broken, copies, supervision>>

ChildForks ==
  /\ child = "running" /\ helper = "none"
  /\ helper' = "running"
  /\ UNCHANGED <<ctx, child, written, broken, copies, supervision>>

HelperDetaches ==
  /\ CanDetach
  /\ helper = "running"
  /\ helper' = "detached"
  /\ UNCHANGED <<ctx, child, written, broken, copies, supervision>>

Writes(s) ==
  /\ Alive
  /\ written[s] < MaxChunks
  /\ written' = [written EXCEPT ![s] = @ + 1]
  /\ UNCHANGED <<ctx, child, helper, broken, copies, supervision>>

ChildEnds(how) ==
  /\ child = "running"
  /\ child' = how
  /\ UNCHANGED <<ctx, helper, written, broken, copies, supervision>>

HelperEnds ==
  /\ helper \in {"running", "detached"}
  /\ helper' = "gone"
  /\ UNCHANGED <<ctx, child, written, broken, copies, supervision>>

\* The consumer of a stream goes away; one writer behind both streams breaks once.
DestinationBreaks(s) ==
  /\ ~ broken[s]
  /\ broken' = [t \in Stream |-> broken[t] \/ t = s \/ Shared]
  /\ UNCHANGED <<ctx, child, helper, written, copies, supervision>>

-----------------------------------------------------------------------------
(* The copy goroutines, each in streamCounter.Write for one chunk a time.  *)

CopierReads(s) ==
  /\ child # "none" /\ copier[s] = "idle"
  /\ counted[s] < written[s]
  /\ counted' = [counted EXCEPT ![s] = @ + 1]
  /\ copier' = [copier EXCEPT ![s] = IF failed[s] THEN "idle" ELSE "locking"]
  /\ UNCHANGED <<environment, forwarded, failed, osError, notice, supervision>>

\* A writer given for both streams is called under one mutex.
CopierLocks(s) ==
  /\ copier[s] = "locking"
  /\ Shared => \A t \in Stream : copier[t] # "writing"
  /\ copier' = [copier EXCEPT ![s] = "writing"]
  /\ UNCHANGED <<environment, counted, forwarded, failed, osError, notice, supervision>>

\* Mutant: the channel has no buffer, so only a waiting select hears of it.
CopierWritesUnbuffered(s) ==
  /\ copier[s] = "writing"
  /\ copier' = [copier EXCEPT ![s] = "idle"]
  /\ IF broken[s]
     THEN /\ failed' = [failed EXCEPT ![s] = TRUE]
          /\ notice' = (notice \/ sup = "select")
          /\ UNCHANGED forwarded
     ELSE /\ forwarded' = [forwarded EXCEPT ![s] = @ + 1]
          /\ UNCHANGED <<failed, notice>>
  /\ UNCHANGED <<environment, counted, osError, supervision>>

\* Mutant: a rejected write is dropped and the stream carries on.
CopierWritesLossy(s) ==
  /\ copier[s] = "writing"
  /\ copier' = [copier EXCEPT ![s] = "idle"]
  /\ forwarded' = [forwarded EXCEPT ![s] = IF broken[s] THEN @ ELSE @ + 1]
  /\ UNCHANGED <<environment, counted, failed, notice, osError, supervision>>

\* The first failure leaves a token, unless one is already there.
CopierWrites(s) ==
  /\ copier[s] = "writing"
  /\ copier' = [copier EXCEPT ![s] = "idle"]
  /\ IF broken[s]
     THEN /\ failed' = [failed EXCEPT ![s] = TRUE]
          /\ notice' = TRUE
          /\ UNCHANGED forwarded
     ELSE /\ forwarded' = [forwarded EXCEPT ![s] = @ + 1]
          /\ UNCHANGED <<failed, notice>>
  /\ UNCHANGED <<environment, counted, osError, supervision>>

\* End of file: the pipe is empty and nobody can write to it.
CopierEnds(s) ==
  /\ child # "none" /\ copier[s] = "idle"
  /\ counted[s] = written[s] /\ ~ Alive
  /\ copier' = [copier EXCEPT ![s] = "done"]
  /\ UNCHANGED <<environment, counted, forwarded, failed, osError, notice, supervision>>

CopierFails(s) ==
  /\ child # "none" /\ copier[s] = "idle"
  /\ copier' = [copier EXCEPT ![s] = "done"]
  /\ osError' = TRUE
  /\ UNCHANGED <<environment, counted, forwarded, failed, notice, supervision>>

-----------------------------------------------------------------------------
(* cmd.Wait: the child first, then its copies; then the answer is sent.    *)

WaitReaps ==
  /\ waiter = "child" /\ child \in Ended
  /\ waiter' = "copies"
  /\ UNCHANGED <<environment, copies, sup, reason, result>>

WaitSends ==
  /\ waiter = "copies"
  /\ \A s \in Stream : copier[s] = "done"
  /\ waiter' = "sent"
  /\ UNCHANGED <<environment, copies, sup, reason, result>>

-----------------------------------------------------------------------------
(* The supervisor.                                                         *)

contextFailure == IF ctx = "expired" THEN "timeout" ELSE "canceled"

\* Mutant: the signal Motus sent itself is not told apart.
FailuresAnySignal ==
  (IF reason = "context" THEN {contextFailure}
   ELSE IF child = "exited 0" /\ osError THEN {"outputCopy"}
   ELSE IF Killed THEN {"signal"}
   ELSE {})
  \cup (IF \E s \in Stream : failed[s] THEN {"outputCopy"} ELSE {})

\* cmd.Wait reports how the child ended before it reports a copy error.
Failures ==
  (IF reason = "context" THEN {contextFailure}
   ELSE IF child = "exited 0" /\ osError THEN {"outputCopy"}
   ELSE IF Killed /\ reason = "none" THEN {"signal"}
   ELSE {})
  \cup (IF \E s \in Stream : failed[s] THEN {"outputCopy"} ELSE {})

exitCode ==
  IF reason # "none" \/ child \notin Exited THEN -1
  ELSE IF child = "exited 0" THEN 0 ELSE 1

Finish(r) ==
  /\ sup' = "done"
  /\ result' = r

\* A context that is done already starts nothing.
StartNothing ==
  /\ sup = "begin" /\ ctx # "live"
  /\ Finish([NoResult EXCEPT !.failures = {contextFailure}])
  /\ UNCHANGED <<environment, copies, waiter, reason>>

\* From here on the context is not looked at before the child runs.
Begin ==
  /\ sup = "begin" /\ ctx = "live"
  /\ sup' = "starting"
  /\ UNCHANGED <<environment, copies, waiter, reason, result>>

StartFails ==
  /\ sup = "starting"
  /\ Finish([NoResult EXCEPT !.failures = {"start"}])
  /\ UNCHANGED <<environment, copies, waiter, reason>>

Start ==
  /\ sup = "starting"
  /\ child' = "running"
  /\ sup' = "started"
  /\ UNCHANGED <<ctx, helper, written, broken, copies, waiter, reason, result>>

Supervise ==
  /\ sup = "started"
  /\ waiter' = "child"
  /\ sup' = "select"
  /\ UNCHANGED <<environment, copies, reason, result>>

\* select, when more than one case is ready, takes any of them.
SelectWaited ==
  /\ sup = "select" /\ waiter = "sent"
  /\ waiter' = "received"
  /\ sup' = "closing"
  /\ UNCHANGED <<environment, copies, reason, result>>

SelectContext ==
  /\ sup = "select" /\ ctx # "live"
  /\ sup' = "context done"
  /\ UNCHANGED <<environment, copies, waiter, reason, result>>

SelectOutput ==
  /\ sup = "select" /\ notice
  /\ notice' = FALSE
  /\ sup' = "output failed"
  /\ UNCHANGED <<environment, counted, forwarded, copier, failed, osError,
                 waiter, reason, result>>

\* Mutant: Run returns as soon as it has killed the group.
TerminateAndLeave ==
  /\ sup \in {"context done", "output failed"}
  /\ waiter # "sent"
  /\ reason' = IF sup = "context done" THEN "context" ELSE "output"
  /\ child' = IF child = "running" THEN "terminated" ELSE child
  /\ helper' = IF helper = "running" THEN "gone" ELSE helper
  /\ sup' = "closing"
  /\ UNCHANGED <<ctx, written, broken, copies, waiter, result>>

\* Mutant: only the child is killed, not its process group.
TerminateChild ==
  /\ sup \in {"context done", "output failed"}
  /\ waiter # "sent"
  /\ reason' = IF sup = "context done" THEN "context" ELSE "output"
  /\ child' = IF child = "running" THEN "terminated" ELSE child
  /\ sup' = "draining"
  /\ UNCHANGED <<ctx, helper, written, broken, copies, waiter, result>>

\* A Wait that has finished meanwhile is preferred; otherwise the whole
\* process group is killed and Wait is waited for.
PreferWaited ==
  /\ sup \in {"context done", "output failed"}
  /\ waiter = "sent"
  /\ waiter' = "received"
  /\ sup' = "closing"
  /\ UNCHANGED <<environment, copies, reason, result>>

Terminate ==
  /\ sup \in {"context done", "output failed"}
  /\ waiter # "sent"
  /\ reason' = IF sup = "context done" THEN "context" ELSE "output"
  /\ child' = IF child = "running" THEN "terminated" ELSE child
  /\ helper' = IF helper = "running" THEN "gone" ELSE helper
  /\ sup' = "draining"
  /\ UNCHANGED <<ctx, written, broken, copies, waiter, result>>

Drain ==
  /\ sup = "draining" /\ waiter = "sent"
  /\ waiter' = "received"
  /\ sup' = "closing"
  /\ UNCHANGED <<environment, copies, reason, result>>

Collect ==
  /\ sup = "closing"
  /\ Finish([failures |-> Failures, exitCode |-> exitCode, counted |-> counted])
  /\ UNCHANGED <<environment, copies, waiter, reason>>

-----------------------------------------------------------------------------
Outside ==
  \/ \E why \in {"signal", "canceled", "expired"} : ContextDone(why)
  \/ ChildForks \/ HelperDetaches \/ HelperEnds
  \/ \E how \in Exited \cup {"signaled"} : ChildEnds(how)
  \/ \E s \in Stream : Writes(s) \/ DestinationBreaks(s)

Copy(s) ==
  CopierReads(s) \/ CopierLocks(s) \/ CopierWrites(s) \/ CopierEnds(s)

Wait == WaitReaps \/ WaitSends

Supervisor ==
  \/ StartNothing \/ Begin \/ StartFails \/ Start \/ Supervise
  \/ SelectWaited \/ SelectContext \/ SelectOutput
  \/ PreferWaited \/ Terminate \/ Drain \/ Collect

CaptureNext ==
  Outside \/ (\E s \in Stream : Copy(s) \/ CopierFails(s)) \/ Wait \/ Supervisor

CaptureSpec == CaptureInit /\ [][CaptureNext]_captureVars

\* Goroutines run, and a destination accepts or rejects what it is given.
\* Nothing makes the child or its descendants end, or the system fail.
CaptureFairness ==
  /\ \A s \in Stream : WF_captureVars(Copy(s))
  /\ WF_captureVars(Wait)
  /\ WF_captureVars(Supervisor)

FairCapture == CaptureSpec /\ CaptureFairness

-----------------------------------------------------------------------------
(* Properties.                                                             *)

\* The counters are read, and Run returns, only when both copy goroutines
\* have ended, however the select went: the counts Run returns never change
\* behind its back.
CountsSettled ==
  sup \in {"closing", "done"} /\ child # "none" =>
    /\ \A s \in Stream : copier[s] = "done"
    /\ sup = "done" => result.counted = counted

\* Unless Run reports an output failure, or the system failed to read a
\* pipe, every chunk any process wrote was counted and accepted by its
\* destination, also after a cancellation.
NothingTruncated ==
  sup = "done" /\ child # "none" /\ ~ osError /\ "outputCopy" \notin result.failures =>
    \A s \in Stream : counted[s] = written[s] /\ forwarded[s] = written[s]

\* A child that Motus killed is reported as cancelled, timed out, cut off by
\* its output or not started, never as ended by itself: no exit code and no
\* signal.
OwnKillNotReported ==
  sup = "done" /\ child = "terminated" =>
    /\ result.exitCode = -1
    /\ "signal" \notin result.failures
    /\ result.failures \cap {"timeout", "canceled", "outputCopy", "start"} # {}
============================================================================
