----------------------- MODULE WindowsCaptureProofs -----------------------
(***************************************************************************)
(* The controller of Windows leaves no process behind a failed start, and  *)
(* Run with it is the Run that Capture describes.                          *)
(*                                                                         *)
(* WinInv says what the other goroutines have been able to do at each      *)
(* point of afterStart: nothing while the child is suspended, and never    *)
(* anything to a child that was given up.  That is what lets Capture see   *)
(* no child until ResumeThread has succeeded.                              *)
(***************************************************************************)
EXTENDS WindowsCapture, TLAPS

WinTypes ==
  /\ setup \in {"none", "thread", "job", "assign", "resume", "ready", "abort", "wait", "failed"}
  /\ copier \in [Stream -> {"idle", "locking", "writing", "done"}]

\* Run has not come to its select, and nothing has gone through the pipes.
Quiet ==
  /\ helper = "none" /\ waiter = "none" /\ reason = "none"
  /\ written = NoCounts /\ counted = NoCounts
  /\ \A s \in Stream : copier[s] \in {"idle", "done"}

\* Before the child exists, and when it could not be created.
NoChildOK ==
  setup = "none" =>
    /\ Quiet /\ child = "none" /\ osError = FALSE
    /\ sup \in {"begin", "starting", "done"}
    /\ \A s \in Stream : copier[s] = "idle"

\* While it is suspended; it may already be dead when ResumeThread fails.
SuspendedOK ==
  Suspended =>
    /\ Quiet /\ child \in {"running", "terminated"} /\ osError = FALSE
    /\ sup = "starting"
    /\ setup # "abort" => child = "running" /\ \A s \in Stream : copier[s] = "idle"
    /\ setup = "resume" => members = {"child"}

\* When it was given up.
AbortedOK ==
  setup \in {"wait", "failed"} =>
    /\ Quiet /\ child = "terminated"
    /\ setup = "wait" => sup = "starting"
    /\ setup = "failed" => sup = "done" /\ \A s \in Stream : copier[s] = "done"

\* Once it runs, it and all its descendants are in the job.
ReadyOK ==
  setup = "ready" =>
    /\ child # "none" /\ "child" \in members
    /\ helper # "detached"
    /\ helper = "running" => "helper" \in members
    /\ sup \notin {"begin", "starting"}
    /\ sup = "done" => "start" \notin result.failures

\* The inductive invariant.
WinInv == WinTypes /\ NoChildOK /\ SuspendedOK /\ AbortedOK /\ ReadyOK

-----------------------------------------------------------------------------
(* The invariant.                                                          *)

\* It does not speak of the context, the destinations or the handles.
LEMMA WinKept ==
  ASSUME WinInv,
         UNCHANGED <<child, helper, written, counted, copier, osError, waiter, sup,
                     reason, result, setup, members>>
  PROVE  WinInv'
<1>1. WinTypes' /\ ReadyOK'
  BY DEF WinInv, WinTypes, ReadyOK
<1>2. Quiet' <=> Quiet
  BY DEF Quiet
<1>3. NoChildOK' /\ SuspendedOK' /\ AbortedOK'
  BY <1>2 DEF WinInv, NoChildOK, SuspendedOK, AbortedOK, Suspended
<1> QED BY <1>1, <1>3 DEF WinInv

\* A step taken once the child runs, which stays in the job with every
\* descendant it makes.
LEMMA ReadyKept ==
  ASSUME WinInv, setup = "ready", setup' = "ready", WinTypes',
         child' # "none", members \subseteq members', helper' # "detached",
         helper' = "running" => helper = "running" \/ "helper" \in members',
         sup' \notin {"begin", "starting"},
         sup' = "done" => "start" \notin result'.failures
  PROVE  WinInv'
<1>1. ReadyOK'
  BY DEF WinInv, ReadyOK
<1>2. NoChildOK' /\ SuspendedOK' /\ AbortedOK'
  BY DEF NoChildOK, SuspendedOK, AbortedOK, Suspended
<1> QED BY <1>1, <1>2 DEF WinInv

\* The setups, one by one.
LEMMA Setups ==
  WinInv => \/ setup = "none" \/ Suspended \/ setup \in {"wait", "failed"}
            \/ setup = "ready"
BY DEF WinInv, WinTypes, Suspended

\* Nothing lives to fork or write before the child has been resumed, or after
\* it was given up.
LEMMA OnlyReadyLives ==
  ASSUME WinInv, ~ Suspended, Alive
  PROVE  setup = "ready"
BY Setups DEF WinInv, NoChildOK, AbortedOK, Quiet, Alive

\* Wait is called only after afterStart has succeeded.
LEMMA OnlyReadyWaits ==
  ASSUME WinInv, waiter # "none" \/ reason # "none"
         \/ sup \notin {"begin", "starting", "done"}
  PROVE  setup = "ready"
BY Setups DEF WinInv, NoChildOK, SuspendedOK, AbortedOK, Quiet

\* What happens around Run keeps the invariant.
LEMMA OutsideSteps ==
  ASSUME WinInv, WinOutside \/ WinForks \/ WinWait
  PROVE  WinInv'
<1> USE DEF copies, supervision, environment, windows
<1>0. WinTypes /\ ReadyOK
  BY DEF WinInv
<1>1. ASSUME NEW why \in {"signal", "canceled", "expired"}, ContextDone(why), UNCHANGED windows
      PROVE  WinInv'
  BY <1>1, WinKept DEF ContextDone
<1>2. ASSUME NEW s \in Stream, DestinationBreaks(s), UNCHANGED windows
      PROVE  WinInv'
  BY <1>2, WinKept DEF DestinationBreaks
<1>3. ASSUME NEW how \in Exited, ~ Suspended, ChildEnds(how), UNCHANGED windows
      PROVE  WinInv'
  <2>1. setup = "ready"
    BY <1>3, OnlyReadyLives DEF ChildEnds, Alive
  <2>2. WinTypes'
    BY <1>0, <1>3 DEF ChildEnds, WinTypes
  <2> QED BY <1>0, <1>3, <2>1, <2>2, ReadyKept DEF ChildEnds, ReadyOK, Exited
<1>4. ASSUME HelperEnds, UNCHANGED windows PROVE WinInv'
  <2>1. setup = "ready"
    BY <1>4, Setups DEF HelperEnds, WinInv, NoChildOK, SuspendedOK, AbortedOK, Quiet
  <2>2. WinTypes'
    BY <1>0, <1>4 DEF HelperEnds, WinTypes
  <2> QED BY <1>0, <1>4, <2>1, <2>2, ReadyKept DEF HelperEnds, ReadyOK
<1>5. ASSUME NEW s \in Stream, ~ Suspended, Writes(s), UNCHANGED windows
      PROVE  WinInv'
  <2>1. setup = "ready"
    BY <1>5, OnlyReadyLives DEF Writes
  <2>2. WinTypes'
    BY <1>0, <1>5 DEF Writes, WinTypes
  <2> QED BY <1>0, <1>5, <2>1, <2>2, ReadyKept DEF Writes, ReadyOK
<1>6. ASSUME WinForks PROVE WinInv'
  <2>1. setup = "ready"
    BY <1>6, OnlyReadyLives DEF WinForks, ChildForks, Alive
  <2>2. WinTypes'
    BY <1>0, <1>6 DEF WinForks, ChildForks, WinTypes
  <2>3. members' = members \cup {"helper"} /\ helper' = "running"
    BY <1>0, <1>6, <2>1 DEF WinForks, ChildForks, ReadyOK
  <2> QED BY <1>0, <1>6, <2>1, <2>2, <2>3, ReadyKept DEF WinForks, ChildForks, ReadyOK
<1>7. ASSUME WinWait PROVE WinInv'
  <2>1. setup = "ready"
    BY <1>7, OnlyReadyWaits DEF WinWait, Wait, WaitReaps, WaitSends
  <2>2. WinTypes'
    BY <1>0, <1>7 DEF WinWait, Wait, WaitReaps, WaitSends, WinTypes
  <2> QED BY <1>0, <1>7, <2>1, <2>2, ReadyKept
          DEF WinWait, Wait, WaitReaps, WaitSends, ReadyOK
<1> QED BY <1>1, <1>2, <1>3, <1>4, <1>5, <1>6, <1>7 DEF WinOutside

\* Until the child has been resumed, and if it was given up, the copies have
\* nothing to do but to end.
LEMMA IdleCopies ==
  ASSUME WinInv, NEW s \in Stream, Copy(s) \/ (~ Suspended /\ CopierFails(s)),
         setup # "ready"
  PROVE  /\ setup \in {"abort", "wait", "failed"}
         /\ copier' = [copier EXCEPT ![s] = "done"]
         /\ UNCHANGED <<ctx, child, helper, written, broken, counted, forwarded, failed,
                        notice, waiter, sup, reason, result>>
         /\ ~ Suspended \/ osError' = osError
<1> USE DEF environment, supervision
<1>1. CASE setup = "none"
  BY <1>1 DEF WinInv, NoChildOK, Quiet, Copy, CopierReads, CopierLocks, CopierWrites,
              CopierEnds, CopierFails
<1>2. CASE Suspended
  <2>1. Copy(s)
    BY <1>2
  <2>2. counted[s] = 0 /\ written[s] = 0 /\ copier[s] \in {"idle", "done"}
    BY <1>2 DEF WinInv, SuspendedOK, Quiet, NoCounts
  <2>3. CopierEnds(s)
    BY <2>1, <2>2 DEF Copy, CopierReads, CopierLocks, CopierWrites
  <2>4. setup = "abort"
    BY <1>2, <2>3 DEF CopierEnds, Alive, WinInv, SuspendedOK
  <2> QED BY <2>3, <2>4 DEF CopierEnds
<1>3. CASE setup \in {"wait", "failed"}
  <2>1. counted[s] = 0 /\ written[s] = 0 /\ copier[s] \in {"idle", "done"}
    BY <1>3 DEF WinInv, AbortedOK, Quiet, NoCounts
  <2>2. CopierEnds(s) \/ CopierFails(s)
    BY <2>1 DEF Copy, CopierReads, CopierLocks, CopierWrites
  <2> QED BY <1>3, <2>2 DEF CopierEnds, CopierFails, Suspended
<1> QED BY <1>1, <1>2, <1>3, Setups

\* The copy goroutines keep the invariant.
LEMMA CopySteps ==
  ASSUME WinInv, NEW s \in Stream, WinCopy(s) \/ WinCopierFails(s)
  PROVE  WinInv'
<1> USE DEF windows
<1>0. WinTypes /\ ReadyOK /\ SuspendedOK /\ AbortedOK
  BY DEF WinInv
<1>1. Copy(s) \/ (~ Suspended /\ CopierFails(s))
  BY DEF WinCopy, WinCopierFails
<1>2. WinTypes' /\ UNCHANGED <<setup, members, child, helper, written, waiter, sup, reason, result>>
  <2>1. copier' \in [Stream -> {"idle", "locking", "writing", "done"}]
    BY <1>0, <1>1 DEF Copy, CopierReads, CopierLocks, CopierWrites, CopierEnds,
                      CopierFails, WinTypes
  <2>2. UNCHANGED <<child, helper, written, waiter, sup, reason, result>>
    BY <1>1 DEF Copy, CopierReads, CopierLocks, CopierWrites, CopierEnds,
                CopierFails, environment, supervision
  <2>3. UNCHANGED <<setup, members>>
    BY DEF WinCopy, WinCopierFails
  <2> QED BY <1>0, <2>1, <2>2, <2>3 DEF WinTypes
<1>3. CASE setup = "ready"
  BY <1>0, <1>2, <1>3, ReadyKept DEF ReadyOK
<1>4. CASE setup # "ready"
  <2>1. /\ setup \in {"abort", "wait", "failed"}
        /\ copier' = [copier EXCEPT ![s] = "done"]
        /\ counted' = counted
        /\ ~ Suspended \/ osError' = osError
    BY <1>1, <1>4, IdleCopies
  <2>2. \A t \in Stream : copier[t] \in {"idle", "done"} => copier'[t] \in {"idle", "done"}
    BY <2>1, <1>0 DEF WinTypes
  <2>3. (\A t \in Stream : copier[t] = "done") => \A t \in Stream : copier'[t] = "done"
    BY <2>1, <1>0 DEF WinTypes
  <2>4. Quiet => Quiet'
    BY <1>2, <2>1, <2>2 DEF Quiet
  <2>5. SuspendedOK'
    BY <1>0, <1>2, <2>1, <2>4 DEF SuspendedOK, Suspended
  <2>6. AbortedOK'
    BY <1>0, <1>2, <2>1, <2>3, <2>4 DEF AbortedOK
  <2>7. NoChildOK' /\ ReadyOK'
    BY <1>2, <2>1 DEF NoChildOK, ReadyOK
  <2> QED BY <1>2, <2>5, <2>6, <2>7 DEF WinInv
<1> QED BY <1>3, <1>4

\* The errors of a command that ran do not say that it was not started.
LEMMA RanIsNotStart == "start" \notin Failures
BY DEF Failures, contextFailure

\* afterStart, and Run after its failure, keep the invariant.
LEMMA AfterStartSteps ==
  ASSUME WinInv, CreateSuspended \/ AfterStart
  PROVE  WinInv'
<1> USE DEF copies, supervision, environment, captureVars
<1>0. WinTypes /\ NoChildOK /\ SuspendedOK /\ AbortedOK
  BY DEF WinInv
<1>1. CASE CreateSuspended
  <2>1. /\ setup = "none" /\ setup' = "thread" /\ sup = "starting" /\ child' = "running"
        /\ UNCHANGED <<helper, written, counted, copier, osError, waiter, sup, reason>>
    BY <1>1 DEF CreateSuspended
  <2>2. Quiet /\ osError = FALSE /\ \A s \in Stream : copier[s] = "idle"
    BY <1>0, <2>1 DEF NoChildOK
  <2>3. WinTypes'
    BY <1>0, <2>1 DEF WinTypes
  <2>4. SuspendedOK'
    BY <2>1, <2>2 DEF SuspendedOK, Quiet
  <2> QED BY <2>1, <2>3, <2>4 DEF WinInv, NoChildOK, AbortedOK, ReadyOK
<1>2. CASE suspendedThread \/ CreateJobObject \/ AssignProcess
  <2>1. /\ setup \in {"thread", "job", "assign"}
        /\ setup' \in {"job", "assign", "resume", "abort"}
        /\ setup' = "resume" => members' = {"child"}
        /\ UNCHANGED captureVars
    BY <1>2 DEF suspendedThread, CreateJobObject, AssignProcess, Abandon
  <2>2. /\ Quiet /\ child = "running" /\ osError = FALSE /\ sup = "starting"
        /\ \A s \in Stream : copier[s] = "idle"
    BY <1>0, <2>1 DEF SuspendedOK, Suspended
  <2>3. WinTypes'
    BY <1>0, <2>1 DEF WinTypes
  <2>4. SuspendedOK'
    BY <2>1, <2>2 DEF SuspendedOK, Quiet
  <2> QED BY <2>1, <2>3, <2>4 DEF WinInv, NoChildOK, AbortedOK, ReadyOK
<1>3. CASE ResumeThread
  <2>1. /\ setup = "resume" /\ members' = members
        /\ UNCHANGED <<helper, written, counted, copier, osError, waiter, reason, result>>
        /\ \/ setup' = "ready" /\ sup' = "started" /\ child' = child
           \/ setup' = "abort" /\ child' \in {child, "terminated"} /\ sup' = sup
    BY <1>3 DEF ResumeThread, Abandon
  <2>2. /\ Quiet /\ child = "running" /\ osError = FALSE /\ sup = "starting"
        /\ members = {"child"}
    BY <1>0, <2>1 DEF SuspendedOK, Suspended
  <2>3. WinTypes'
    BY <1>0, <2>1 DEF WinTypes
  <2>4. SuspendedOK'
    BY <2>1, <2>2 DEF SuspendedOK, Suspended, Quiet
  <2>5. ReadyOK'
    BY <2>1, <2>2 DEF ReadyOK, Quiet
  <2> QED BY <2>1, <2>3, <2>4, <2>5 DEF WinInv, NoChildOK, AbortedOK
<1>4. CASE Kill
  <2>1. /\ setup = "abort" /\ setup' = "wait" /\ child' = "terminated"
        /\ UNCHANGED <<helper, written, counted, copier, waiter, sup, reason>>
    BY <1>4 DEF Kill
  <2>2. Quiet /\ sup = "starting"
    BY <1>0, <2>1 DEF SuspendedOK, Suspended
  <2>3. WinTypes'
    BY <1>0, <2>1 DEF WinTypes
  <2>4. AbortedOK'
    BY <2>1, <2>2 DEF AbortedOK, Quiet
  <2> QED BY <2>1, <2>3, <2>4 DEF WinInv, NoChildOK, SuspendedOK, Suspended, ReadyOK
<1>5. CASE ReturnFailure
  <2>1. /\ setup = "wait" /\ setup' = "failed" /\ sup' = "done"
        /\ \A s \in Stream : copier[s] = "done"
        /\ UNCHANGED <<child, helper, written, counted, copier, waiter, reason>>
    BY <1>5 DEF ReturnFailure, Finish
  <2>2. Quiet /\ child = "terminated"
    BY <1>0, <2>1 DEF AbortedOK
  <2>3. WinTypes'
    BY <1>0, <2>1 DEF WinTypes
  <2>4. AbortedOK'
    BY <2>1, <2>2 DEF AbortedOK, Quiet
  <2> QED BY <2>1, <2>3, <2>4 DEF WinInv, NoChildOK, SuspendedOK, Suspended, ReadyOK
<1> QED BY <1>1, <1>2, <1>3, <1>4, <1>5 DEF AfterStart

\* The supervisor keeps the invariant.
LEMMA WinSupervisorSteps ==
  ASSUME WinInv, WinSupervisor
  PROVE  WinInv'
<1> USE DEF copies, supervision, environment, windows
<1>0. WinTypes /\ NoChildOK /\ SuspendedOK /\ AbortedOK /\ ReadyOK
  BY DEF WinInv
<1>1. CASE StartNothing /\ UNCHANGED windows
  <2>1. /\ sup = "begin" /\ sup' = "done" /\ UNCHANGED <<setup, members>>
        /\ UNCHANGED <<child, helper, written, counted, copier, osError, waiter, reason>>
    BY <1>1 DEF StartNothing, Finish
  <2>2. setup = "none"
    BY <2>1, <1>0, Setups DEF SuspendedOK, AbortedOK, ReadyOK, WinInv
  <2>3. NoChildOK'
    BY <2>1, <2>2, <1>0 DEF NoChildOK, Quiet
  <2>4. WinTypes'
    BY <1>0, <2>1 DEF WinTypes
  <2> QED BY <2>1, <2>2, <2>3, <2>4
          DEF WinInv, SuspendedOK, Suspended, AbortedOK, ReadyOK
<1>2. CASE Begin /\ UNCHANGED windows
  <2>1. /\ sup = "begin" /\ sup' = "starting" /\ UNCHANGED <<setup, members>>
        /\ UNCHANGED <<child, helper, written, counted, copier, osError, waiter, reason>>
    BY <1>2 DEF Begin
  <2>2. setup = "none"
    BY <2>1, <1>0, Setups DEF SuspendedOK, AbortedOK, ReadyOK, WinInv
  <2>3. NoChildOK'
    BY <2>1, <2>2, <1>0 DEF NoChildOK, Quiet
  <2>4. WinTypes'
    BY <1>0, <2>1 DEF WinTypes
  <2> QED BY <2>1, <2>2, <2>3, <2>4
          DEF WinInv, SuspendedOK, Suspended, AbortedOK, ReadyOK
<1>3. CASE CreateFails
  <2>1. /\ setup = "none" /\ sup' = "done" /\ UNCHANGED <<setup, members>>
        /\ UNCHANGED <<child, helper, written, counted, copier, osError, waiter, reason>>
    BY <1>3 DEF CreateFails, StartFails, Finish
  <2>2. NoChildOK'
    BY <2>1, <1>0 DEF NoChildOK, Quiet
  <2>3. WinTypes'
    BY <1>0, <2>1 DEF WinTypes
  <2> QED BY <2>1, <2>2, <2>3 DEF WinInv, SuspendedOK, Suspended, AbortedOK, ReadyOK
<1>4. CASE CreateSuspended \/ AfterStart
  BY <1>4, AfterStartSteps
<1>5. CASE /\ Supervise \/ SelectWaited \/ SelectContext \/ SelectOutput \/ PreferWaited
              \/ Drain
           /\ UNCHANGED windows
  <2>1. /\ sup \notin {"begin", "starting", "done"}
        /\ sup' \notin {"begin", "starting", "done"}
        /\ UNCHANGED <<setup, members, child, helper, copier>>
    BY <1>5 DEF Supervise, SelectWaited, SelectContext, SelectOutput, PreferWaited, Drain
  <2>2. setup = "ready"
    BY <2>1, OnlyReadyWaits
  <2>3. WinTypes'
    BY <1>0, <2>1 DEF WinTypes
  <2> QED BY <1>0, <2>1, <2>2, <2>3, ReadyKept DEF ReadyOK
<1>6. CASE TerminateJob
  <2>1. /\ sup \notin {"begin", "starting", "done"} /\ sup' = "draining"
        /\ UNCHANGED <<setup, members, copier>>
        /\ child' \in {child, "terminated"} /\ helper' \in {helper, "gone"}
    BY <1>6 DEF TerminateJob
  <2>2. setup = "ready"
    BY <2>1, OnlyReadyWaits
  <2>3. WinTypes'
    BY <1>0, <2>1 DEF WinTypes
  <2> QED BY <1>0, <2>1, <2>2, <2>3, ReadyKept DEF ReadyOK
<1>7. CASE CloseAndCollect
  <2>1. /\ sup = "closing" /\ sup' = "done" /\ result'.failures = Failures
        /\ UNCHANGED <<setup, members, child, helper, copier>>
    BY <1>7 DEF CloseAndCollect, Collect, Finish
  <2>2. setup = "ready"
    BY <2>1, OnlyReadyWaits
  <2>3. WinTypes'
    BY <1>0, <2>1 DEF WinTypes
  <2> QED BY <1>0, <2>1, <2>2, <2>3, ReadyKept, RanIsNotStart DEF ReadyOK
<1> QED BY <1>1, <1>2, <1>3, <1>4, <1>5, <1>6, <1>7 DEF WinSupervisor

\* The invariant is inductive.
LEMMA WinInvKept ==
  ASSUME WinInv, [WinNext]_winVars
  PROVE  WinInv'
<1>1. CASE UNCHANGED winVars
  BY <1>1, WinKept
     DEF winVars, captureVars, environment, copies, supervision, windows
<1>2. CASE WinNext
  BY <1>2, OutsideSteps, CopySteps, WinSupervisorSteps DEF WinNext
<1> QED BY <1>1, <1>2

\* It holds in every reachable state.
THEOREM WinInvHolds == WinSpec => []WinInv
<1>1. WinInit => WinInv
  <2> SUFFICES ASSUME WinInit PROVE WinInv
    OBVIOUS
  <2>1. Quiet /\ WinTypes
    BY DEF WinInit, CaptureInit, Quiet, WinTypes
  <2> QED BY <2>1 DEF WinInit, CaptureInit, WinInv, NoChildOK, SuspendedOK, Suspended,
                      AbortedOK, ReadyOK
<1>2. WinInv /\ [WinNext]_winVars => WinInv'
  BY WinInvKept
<1> QED BY <1>1, <1>2, PTL DEF WinSpec

\* When Run reports that the command was not started, no process of it is left,
\* wherever on the way the controller failed.
THEOREM NothingIsLeft == WinSpec => []FailedStartLeavesNothing
<1>1. WinInv => FailedStartLeavesNothing
  BY Setups DEF WinInv, NoChildOK, SuspendedOK, AbortedOK, ReadyOK, Quiet, Ended,
                FailedStartLeavesNothing
<1> QED BY <1>1, WinInvHolds, PTL

-----------------------------------------------------------------------------
(* Run on Windows is Capture's Run.                                        *)

\* What Capture does not see: a step between two states without a child for
\* it.
LEMMA Unseen ==
  ASSUME UNCHANGED <<ctx, helper, written, broken, counted, forwarded, failed, notice,
                     waiter, sup, reason, result>>,
         Hidden',
         Hidden \/ (/\ child = "none" /\ osError = FALSE
                    /\ copier = [s \in Stream |-> "idle"])
  PROVE  UNCHANGED C!captureVars
<1>1. CASE Hidden
  BY <1>1 DEF C!captureVars, C!environment, C!copies, C!supervision
<1>2. CASE ~ Hidden
  <2>1. (IF Hidden THEN FALSE ELSE osError) = (IF Hidden THEN FALSE ELSE osError)'
    BY <1>2
  <2> QED BY <1>2, <2>1 DEF C!captureVars, C!environment, C!copies, C!supervision
<1> QED BY <1>1, <1>2

\* No process of Capture's lives while there is no child for it, and none but
\* those of a child that runs otherwise.
LEMMA SeenAlive ==
  ASSUME WinInv, ~ Suspended
  PROVE  C!Alive <=> Alive
BY DEF C!Alive, Alive, Hidden, Aborted, Suspended, WinInv, AbortedOK, Quiet

\* What the supervisor cannot see stays out of its sight.
LEMMA HiddenKept ==
  ASSUME UNCHANGED windows
  PROVE  Hidden' <=> Hidden
BY DEF windows, Hidden, Suspended, Aborted

\* What happens around Run happens around Capture's.
LEMMA OutsideIsSeen ==
  ASSUME WinInv, WinOutside \/ WinForks
  PROVE  C!CaptureNext \/ UNCHANGED C!captureVars
<1> USE DEF copies, supervision, C!copies, C!supervision
<1>h. Hidden' <=> Hidden
  BY HiddenKept DEF WinOutside, WinForks, windows, Hidden, Suspended, Aborted
<1>r. setup = "ready" => ~ Hidden
  BY DEF Hidden, Suspended, Aborted
<1>1. ASSUME NEW why \in {"signal", "canceled", "expired"}, ContextDone(why)
      PROVE  C!Outside
  <2>1. C!ContextDone(why)
    BY <1>1, <1>h DEF ContextDone, C!ContextDone
  <2> QED BY <2>1 DEF C!Outside
<1>2. ASSUME NEW how \in Exited, ~ Suspended, ChildEnds(how)
      PROVE  C!Outside
  <2>1. ~ Hidden
    BY <1>2, <1>r, OnlyReadyLives DEF ChildEnds, Alive
  <2>2. C!ChildEnds(how)
    BY <1>2, <1>h, <2>1 DEF ChildEnds, C!ChildEnds
  <2> QED BY <2>2 DEF C!Outside, Exited, C!Exited
<1>3. ASSUME HelperEnds PROVE C!Outside
  <2>1. C!HelperEnds
    BY <1>3, <1>h DEF HelperEnds, C!HelperEnds
  <2> QED BY <2>1 DEF C!Outside
<1>4. ASSUME NEW s \in Stream, ~ Suspended, Writes(s) PROVE C!Outside
  <2>1. C!Writes(s)
    BY <1>4, <1>h, SeenAlive DEF Writes, C!Writes
  <2> QED BY <2>1 DEF C!Outside, Stream, C!Stream
<1>5. ASSUME NEW s \in Stream, DestinationBreaks(s) PROVE C!Outside
  <2>1. C!DestinationBreaks(s)
    BY <1>5, <1>h DEF DestinationBreaks, C!DestinationBreaks, Stream, C!Stream
  <2> QED BY <2>1 DEF C!Outside, Stream, C!Stream
<1>6. ASSUME WinForks PROVE C!Outside
  <2>1. ~ Hidden
    BY <1>6, <1>r, OnlyReadyLives DEF WinForks, ChildForks, Alive
  <2>2. C!ChildForks
    BY <1>6, <1>h, <2>1 DEF WinForks, ChildForks, C!ChildForks
  <2> QED BY <2>2 DEF C!Outside
<1> QED BY <1>1, <1>2, <1>3, <1>4, <1>5, <1>6 DEF WinOutside, C!CaptureNext

\* The copies of a child that runs are Capture's; those of another end unseen.
LEMMA CopyIsSeen ==
  ASSUME WinInv, NEW s \in Stream, WinCopy(s) \/ WinCopierFails(s)
  PROVE  C!CaptureNext \/ UNCHANGED C!captureVars
<1> USE DEF environment, supervision, C!environment, C!supervision, Stream, C!Stream
<1>h. Hidden' <=> Hidden
  BY HiddenKept DEF WinCopy, WinCopierFails
<1>0. Copy(s) \/ (~ Suspended /\ CopierFails(s))
  BY DEF WinCopy, WinCopierFails
<1>1. CASE setup = "ready"
  <2>1. ~ Hidden /\ ~ Suspended
    BY <1>1 DEF Hidden, Suspended, Aborted
  <2>2. Copy(s) => C!Copy(s)
    BY <2>1, <1>h, SeenAlive
       DEF Copy, CopierReads, CopierLocks, CopierWrites, CopierEnds,
           C!Copy, C!CopierReads, C!CopierLocks, C!CopierWrites, C!CopierEnds
  <2>3. CopierFails(s) => C!CopierFails(s)
    BY <2>1, <1>h DEF CopierFails, C!CopierFails
  <2> QED BY <1>0, <2>2, <2>3 DEF C!CaptureNext
<1>2. CASE setup # "ready"
  <2>1. /\ setup \in {"abort", "wait", "failed"}
        /\ UNCHANGED <<ctx, child, helper, written, broken, counted, forwarded, failed,
                       notice, waiter, sup, reason, result>>
    BY <1>0, <1>2, IdleCopies
  <2>2. Hidden
    BY <2>1 DEF Hidden, Suspended, Aborted
  <2> QED BY <2>1, <2>2, <1>h, Unseen
<1> QED BY <1>1, <1>2

\* afterStart is unseen until it succeeds, and a failure is the failure to
\* start of Capture's.
LEMMA AfterStartIsSeen ==
  ASSUME WinInv, CreateSuspended \/ AfterStart
  PROVE  C!CaptureNext \/ UNCHANGED C!captureVars
<1> USE DEF environment, copies, supervision, captureVars
<1>1. CASE CreateSuspended
  <2>1. /\ setup = "none" /\ setup' = "thread"
        /\ UNCHANGED <<ctx, helper, written, broken, counted, forwarded, failed, notice,
                       waiter, sup, reason, result>>
    BY <1>1 DEF CreateSuspended
  <2>2. child = "none" /\ osError = FALSE /\ \A s \in Stream : copier[s] = "idle"
    BY <2>1 DEF WinInv, NoChildOK
  <2>3. copier = [s \in Stream |-> "idle"]
    BY <2>2 DEF WinInv, WinTypes
  <2>4. Hidden'
    BY <2>1 DEF Hidden, Suspended
  <2> QED BY <2>1, <2>2, <2>3, <2>4, Unseen
<1>2. CASE suspendedThread \/ CreateJobObject \/ AssignProcess \/ Kill
  <2>1. /\ UNCHANGED <<ctx, helper, written, broken, counted, forwarded, failed, notice,
                       waiter, sup, reason, result>>
        /\ setup \in {"thread", "job", "assign", "abort"}
        /\ setup' \in {"job", "assign", "resume", "abort", "wait"}
    BY <1>2 DEF suspendedThread, CreateJobObject, AssignProcess, Kill, Abandon
  <2>2. Hidden /\ Hidden'
    BY <2>1 DEF Hidden, Suspended, Aborted
  <2> QED BY <2>1, <2>2, Unseen
<1>3. CASE ResumeThread
  <2>1. /\ setup = "resume"
        /\ UNCHANGED <<ctx, helper, written, broken, copies, waiter, reason, result>>
        /\ \/ setup' = "ready" /\ sup' = "started" /\ child' = child
           \/ setup' = "abort" /\ sup' = sup
    BY <1>3 DEF ResumeThread, Abandon
  <2>2. /\ Hidden /\ sup = "starting" /\ child = "running" /\ osError = FALSE
        /\ \A s \in Stream : copier[s] = "idle"
    BY <2>1 DEF Hidden, Suspended, WinInv, SuspendedOK
  <2>3. copier = [s \in Stream |-> "idle"]
    BY <2>2 DEF WinInv, WinTypes
  <2>4. CASE setup' = "ready" /\ sup' = "started" /\ child' = child
    <3>1. ~ Hidden'
      BY <2>4 DEF Hidden, Suspended, Aborted
    <3>2. C!Start
      BY <2>1, <2>2, <2>3, <2>4, <3>1 DEF C!Start, C!copies, Stream, C!Stream
    <3> QED BY <3>2 DEF C!CaptureNext, C!Supervisor
  <2>5. CASE setup' = "abort" /\ sup' = sup
    <3>1. Hidden'
      BY <2>5 DEF Hidden, Suspended
    <3> QED BY <2>1, <2>2, <2>5, <3>1, Unseen
  <2> QED BY <2>1, <2>4, <2>5
<1>4. CASE ReturnFailure
  <2>1. /\ setup = "wait" /\ setup' = "failed"
        /\ Finish([NoResult EXCEPT !.failures = {"start"}])
        /\ UNCHANGED <<environment, copies, waiter, reason>>
    BY <1>4 DEF ReturnFailure
  <2>2. sup = "starting" /\ Hidden /\ Hidden'
    BY <2>1 DEF WinInv, AbortedOK, Hidden, Aborted
  <2>3. C!StartFails
    BY <2>1, <2>2 DEF C!StartFails, C!Finish, Finish, C!NoResult, NoResult, C!NoCounts,
                      NoCounts, C!environment, C!copies, C!Stream, Stream
  <2> QED BY <2>3 DEF C!CaptureNext, C!Supervisor
<1> QED BY <1>1, <1>2, <1>3, <1>4 DEF AfterStart

\* A job that is terminated leaves no process alive in it.
LEMMA TerminateJobIsSeen ==
  ASSUME WinInv, TerminateJob
  PROVE  C!CaptureNext \/ (JobFaults /\ sup # "draining" /\ HelperInJob')
<1> USE DEF windows
<1>1. PICK killed \in {members} \cup (IF JobFaults THEN {{"child"}} ELSE {}) :
        /\ child' = IF child = "running" /\ "child" \in killed THEN "terminated" ELSE child
        /\ helper' = IF helper = "running" /\ "helper" \in killed THEN "gone" ELSE helper
  BY DEF TerminateJob
<1>2. /\ sup \in {"context done", "output failed"} /\ waiter # "sent"
      /\ reason' = IF sup = "context done" THEN "context" ELSE "output"
      /\ sup' = "draining"
      /\ UNCHANGED <<ctx, written, broken, copies, waiter, result, windows>>
  BY DEF TerminateJob
<1>3. setup = "ready"
  BY <1>2, OnlyReadyWaits
<1>4. /\ "child" \in members /\ "child" \in killed
      /\ helper = "running" => "helper" \in members
  BY <1>1, <1>3, CaptureConstants DEF WinInv, ReadyOK
<1>5. ~ Hidden /\ ~ Hidden'
  BY <1>2, <1>3 DEF Hidden, Suspended, Aborted
<1>6. CASE helper = "running" => "helper" \in killed
  <2>1. C!Terminate
    BY <1>1, <1>2, <1>4, <1>5, <1>6 DEF C!Terminate, C!copies, copies
  <2> QED BY <2>1 DEF C!CaptureNext, C!Supervisor
<1>7. CASE helper = "running" /\ "helper" \notin killed
  <2>1. JobFaults
    BY <1>1, <1>4, <1>7
  <2>2. HelperInJob'
    BY <1>1, <1>2, <1>4, <1>7 DEF HelperInJob
  <2> QED BY <1>2, <2>1, <2>2
<1> QED BY <1>6, <1>7

\* The supervisor's steps are those of Capture's.
LEMMA SupervisorIsSeen ==
  ASSUME WinInv, WinSupervisor \/ WinWait
  PROVE  \/ C!CaptureNext \/ UNCHANGED C!captureVars
         \/ JobFaults /\ sup # "draining" /\ HelperInJob'
<1> USE DEF environment, copies, C!environment, C!copies, Stream, C!Stream
<1>1. CASE /\ StartNothing \/ Begin \/ Supervise \/ SelectWaited \/ SelectContext
              \/ SelectOutput \/ PreferWaited \/ Drain
           /\ UNCHANGED windows
  <2>1. Hidden' <=> Hidden
    BY <1>1, HiddenKept
  <2>2. ASSUME StartNothing PROVE C!StartNothing
    BY <2>1, <2>2 DEF Finish, C!Finish, NoResult, C!NoResult, NoCounts, C!NoCounts,
                      contextFailure, C!contextFailure, StartNothing, C!StartNothing
  <2>3. ASSUME Begin PROVE C!Begin
    BY <2>1, <2>3 DEF Begin, C!Begin
  <2>4. ASSUME Supervise PROVE C!Supervise
    BY <2>1, <2>4 DEF Supervise, C!Supervise
  <2>5. ASSUME SelectWaited PROVE C!SelectWaited
    BY <2>1, <2>5 DEF SelectWaited, C!SelectWaited
  <2>6. ASSUME SelectContext PROVE C!SelectContext
    BY <2>1, <2>6 DEF SelectContext, C!SelectContext
  <2>7. ASSUME SelectOutput PROVE C!SelectOutput
    BY <2>1, <2>7 DEF SelectOutput, C!SelectOutput
  <2>8. ASSUME PreferWaited PROVE C!PreferWaited
    BY <2>1, <2>8 DEF PreferWaited, C!PreferWaited
  <2>9. ASSUME Drain PROVE C!Drain
    BY <2>1, <2>9 DEF Drain, C!Drain
  <2> QED BY <1>1, <2>2, <2>3, <2>4, <2>5, <2>6, <2>7, <2>8, <2>9 DEF C!CaptureNext, C!Supervisor
<1>2. CASE CreateFails
  <2>1. Hidden' <=> Hidden
    BY <1>2, HiddenKept DEF CreateFails
  <2>2. C!StartFails
    BY <1>2, <2>1 DEF CreateFails, StartFails, Finish, NoResult, NoCounts,
                      C!StartFails, C!Finish, C!NoResult, C!NoCounts
  <2> QED BY <2>2 DEF C!CaptureNext, C!Supervisor
<1>3. CASE CreateSuspended \/ AfterStart
  BY <1>3, AfterStartIsSeen
<1>4. CASE TerminateJob
  BY <1>4, TerminateJobIsSeen
<1>5. CASE CloseAndCollect
  <2>1. sup = "closing" /\ setup' = setup /\ Collect
    BY <1>5 DEF CloseAndCollect, Collect
  <2>2. setup = "ready"
    BY <2>1, OnlyReadyWaits
  <2>3. ~ Hidden /\ ~ Hidden'
    BY <2>1, <2>2 DEF Hidden, Suspended, Aborted
  <2>4. C!Failures = Failures /\ C!exitCode = exitCode
    BY <2>3 DEF C!Failures, Failures, C!exitCode, exitCode, C!contextFailure,
                contextFailure, C!Killed, Killed, C!Exited, Exited
  <2>5. C!Collect
    BY <2>1, <2>3, <2>4 DEF Collect, C!Collect, Finish, C!Finish
  <2> QED BY <2>5 DEF C!CaptureNext, C!Supervisor
<1>6. CASE WinWait
  <2>1. waiter # "none" /\ UNCHANGED windows
    BY <1>6 DEF WinWait, Wait, WaitReaps, WaitSends
  <2>2. setup = "ready"
    BY <2>1, OnlyReadyWaits
  <2>3. ~ Hidden /\ ~ Hidden'
    BY <2>1, <2>2, HiddenKept DEF Hidden, Suspended, Aborted
  <2>4. C!Wait
    BY <1>6, <2>3 DEF WinWait, Wait, WaitReaps, WaitSends, C!Wait, C!WaitReaps,
                      C!WaitSends, Ended, C!Ended, Exited, C!Exited
  <2> QED BY <2>4 DEF C!CaptureNext
<1> QED BY <1>1, <1>2, <1>3, <1>4, <1>5, <1>6 DEF WinSupervisor

\* Every step is one of Capture's, or none, or a job that could not be
\* terminated.
LEMMA WinStepIsSeen ==
  ASSUME WinInv, [WinNext]_winVars
  PROVE  \/ C!CaptureNext \/ UNCHANGED C!captureVars
         \/ JobFaults /\ sup # "draining" /\ HelperInJob'
<1>1. CASE UNCHANGED winVars
  BY <1>1, HiddenKept
     DEF winVars, captureVars, environment, copies, supervision,
         C!captureVars, C!environment, C!copies, C!supervision
<1>2. CASE WinNext
  BY <1>2, OutsideIsSeen, CopyIsSeen, SupervisorIsSeen DEF WinNext
<1> QED BY <1>1, <1>2

\* The Windows controller starts as Capture does.
LEMMA WinStartIsSeen == WinInit => C!CaptureInit
BY DEF WinInit, CaptureInit, C!CaptureInit, NoCounts, C!NoCounts, NoResult, C!NoResult,
       Stream, C!Stream, Hidden, Suspended, Aborted

\* Run with the controller of Windows is the Run that Capture describes, except
\* where the job cannot be terminated.
THEOREM WindowsIsCapture == WinSpec => ImplementsCapture
<1>1. WinInv /\ [WinNext]_winVars =>
        [C!CaptureNext \/ (sup # "draining" /\ HelperInJob')]_C!captureVars
  BY WinStepIsSeen
<1> QED BY <1>1, WinStartIsSeen, WinInvHolds, PTL DEF WinSpec, ImplementsCapture

\* Where TerminateJobObject always succeeds there is no exception: what
\* CaptureProofs proves of Run holds of Run on Windows.
THEOREM WindowsIsExactlyCapture ==
  ASSUME ~ JobFaults
  PROVE  WinSpec => C!CaptureSpec
<1>1. WinInv /\ [WinNext]_winVars => [C!CaptureNext]_(C!captureVars)
  BY WinStepIsSeen
<1> QED BY <1>1, WinStartIsSeen, WinInvHolds, PTL DEF WinSpec, C!CaptureSpec
=============================================================================
