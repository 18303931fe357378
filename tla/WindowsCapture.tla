--------------------------- MODULE WindowsCapture ---------------------------
(***************************************************************************)
(* capture.Run with the process controller of Windows                      *)
(* (internal/capture/process_windows.go): the child is created suspended,  *)
(* put into a job object and only then resumed; a failure on the way kills *)
(* and reaps it.  The rest of Run is Capture's, whose "process group" is   *)
(* here the job: a process in a job cannot leave it, nor can its children. *)
(*                                                                         *)
(* Nothing can be checked against a Windows kernel here: what its calls do *)
(* is taken from how the code uses them.  Nobody but Motus is assumed to   *)
(* kill the child while it is suspended.                                   *)
(***************************************************************************)
EXTENDS Capture

CONSTANT JobFaults   \* TRUE iff TerminateJobObject may fail

ASSUME JobConstants == JobFaults \in BOOLEAN

VARIABLES
  setup,    \* what afterStart, or Run after its failure, is about to do
  members,  \* the processes in the job
  thread,   \* the handle of the suspended thread
  job       \* the handle of the job

windows == <<setup, members, thread, job>>
winVars == <<captureVars, windows>>

Suspended == setup \in {"thread", "job", "assign", "resume", "abort"}
Aborted == setup \in {"abort", "wait", "failed"}

WinInit ==
  /\ CaptureInit
  /\ setup = "none"
  /\ members = {}
  /\ thread = "none" /\ job = "none"

-----------------------------------------------------------------------------
(* prepareProcess and afterStart.                                          *)

CreateFails == setup = "none" /\ StartFails /\ UNCHANGED windows

CreateSuspended ==
  /\ sup = "starting" /\ setup = "none"
  /\ child' = "running"
  /\ setup' = "thread"
  /\ UNCHANGED <<ctx, helper, written, broken, copies, supervision, members, thread, job>>

\* afterStart returns an error, all its handles closed.
Abandon ==
  /\ setup' = "abort"
  /\ thread' = IF thread = "open" THEN "closed" ELSE thread
  /\ job' = IF job = "open" THEN "closed" ELSE job

suspendedThread ==
  /\ setup = "thread"
  /\ \/ thread' = "open" /\ setup' = "job" /\ UNCHANGED job
     \/ Abandon
  /\ UNCHANGED <<captureVars, members>>

CreateJobObject ==
  /\ setup = "job"
  /\ \/ job' = "open" /\ setup' = "assign" /\ UNCHANGED thread
     \/ Abandon
  /\ UNCHANGED <<captureVars, members>>

\* Mutant: an assignment that failed goes unnoticed.
AssignUnchecked ==
  /\ setup = "assign"
  /\ members' \in {{}, {"child"}}
  /\ setup' = "resume"
  /\ UNCHANGED <<captureVars, thread, job>>

\* OpenProcess, AssignProcessToJobObject
AssignProcess ==
  /\ setup = "assign"
  /\ \/ members' = {"child"} /\ setup' = "resume" /\ UNCHANGED <<thread, job>>
     \/ Abandon /\ UNCHANGED members
  /\ UNCHANGED captureVars

\* When ResumeThread fails the job, with the child in it, is terminated, or
\* not: nobody looks at the result, and Run kills the child in any case.
ResumeThread ==
  /\ setup = "resume"
  /\ \/ /\ setup' = "ready"
        /\ sup' = "started"
        /\ thread' = "closed"
        /\ UNCHANGED <<child, job>>
     \/ /\ child' \in {"terminated"} \cup (IF JobFaults THEN {child} ELSE {})
        /\ Abandon
        /\ UNCHANGED sup
  /\ UNCHANGED <<ctx, helper, written, broken, copies, waiter, reason, result, members>>

\* Mutant: Run waits for a child that nobody resumes.
KillNothing ==
  /\ setup = "abort"
  /\ setup' = "wait"
  /\ UNCHANGED <<captureVars, members, thread, job>>

\* Mutant: Run returns at once.
KillNothingAndReturn ==
  /\ setup = "abort"
  /\ Finish([NoResult EXCEPT !.failures = {"start"}])
  /\ setup' = "failed"
  /\ UNCHANGED <<environment, copies, waiter, reason, members, thread, job>>

\* cmd.Process.Kill
Kill ==
  /\ setup = "abort"
  /\ child' = "terminated"
  /\ setup' = "wait"
  /\ UNCHANGED <<ctx, helper, written, broken, copies, supervision, members, thread, job>>

\* cmd.Wait, process.close
ReturnFailure ==
  /\ setup = "wait" /\ child \in Ended
  /\ \A s \in Stream : copier[s] = "done"
  /\ Finish([NoResult EXCEPT !.failures = {"start"}])
  /\ setup' = "failed"
  /\ job' = IF job = "open" THEN "closed" ELSE job
  /\ UNCHANGED <<environment, copies, waiter, reason, members, thread>>

-----------------------------------------------------------------------------
(* terminate and close.                                                    *)

\* TerminateJobObject, and the child alone when it fails.
TerminateJob ==
  /\ sup \in {"context done", "output failed"} /\ waiter # "sent"
  /\ \E killed \in {members} \cup (IF JobFaults THEN {{"child"}} ELSE {}) :
       /\ child' = IF child = "running" /\ "child" \in killed THEN "terminated" ELSE child
       /\ helper' = IF helper = "running" /\ "helper" \in killed THEN "gone" ELSE helper
  /\ reason' = IF sup = "context done" THEN "context" ELSE "output"
  /\ sup' = "draining"
  /\ UNCHANGED <<ctx, written, broken, copies, waiter, result, windows>>

\* process.close, before the counters are read
CloseAndCollect ==
  /\ Collect
  /\ job' = "closed"
  /\ UNCHANGED <<setup, members, thread>>

-----------------------------------------------------------------------------
\* A child of a process in the job is created in the job.
WinForks ==
  /\ ~ Suspended /\ ChildForks
  /\ members' = IF "child" \in members THEN members \cup {"helper"} ELSE members
  /\ UNCHANGED <<setup, thread, job>>

\* A suspended child does nothing.  Windows has no signals to end it by, and
\* reports a kill by another program as an exit status.
WinOutside ==
  /\ \/ \E why \in {"signal", "canceled", "expired"} : ContextDone(why)
     \/ ~ Suspended /\ \E how \in Exited : ChildEnds(how)
     \/ HelperEnds
     \/ ~ Suspended /\ \E s \in Stream : Writes(s)
     \/ \E s \in Stream : DestinationBreaks(s)
  /\ UNCHANGED windows

WinCopy(s) == Copy(s) /\ UNCHANGED windows

WinCopierFails(s) == ~ Suspended /\ CopierFails(s) /\ UNCHANGED windows

WinWait == Wait /\ UNCHANGED windows

AfterStart ==
  \/ suspendedThread \/ CreateJobObject \/ AssignProcess \/ ResumeThread
  \/ Kill \/ ReturnFailure

WinSupervisor ==
  \/ /\ \/ StartNothing \/ Begin \/ Supervise
        \/ SelectWaited \/ SelectContext \/ SelectOutput \/ PreferWaited \/ Drain
     /\ UNCHANGED windows
  \/ CreateFails \/ CreateSuspended \/ AfterStart \/ TerminateJob \/ CloseAndCollect

WinNext ==
  \/ WinOutside \/ WinForks \/ WinWait \/ WinSupervisor
  \/ \E s \in Stream : WinCopy(s) \/ WinCopierFails(s)

WinSpec == WinInit /\ [][WinNext]_winVars

\* As in Capture: goroutines run, and what they call returns.
FairWin ==
  /\ WinSpec
  /\ \A s \in Stream : WF_winVars(WinCopy(s))
  /\ WF_winVars(WinWait)
  /\ WF_winVars(WinSupervisor)

-----------------------------------------------------------------------------
(* Capture starts its child in one step.  Until ResumeThread has succeeded *)
(* there is none for it, and after a failure there never was.              *)

Hidden == Suspended \/ Aborted

C == INSTANCE Capture WITH
  child <- IF Hidden THEN "none" ELSE child,
  copier <- IF Hidden THEN [s \in Stream |-> "idle"] ELSE copier,
  osError <- IF Hidden THEN FALSE ELSE osError

\* The job could not be terminated and a descendant in it lives on.
HelperInJob == sup = "draining" /\ helper = "running" /\ "helper" \in members

\* Run with the controller of Windows is the Run that Capture describes, with
\* a job for its process group, except where the job cannot be terminated:
\* what holds of Capture holds of it.
ImplementsCapture ==
  /\ C!CaptureInit
  /\ [][C!CaptureNext \/ (sup # "draining" /\ HelperInJob')]_C!captureVars

\* "make sure a partially initialized child is reaped" (capture.go:144): when
\* Run reports that the command was not started, no process of it is left.
FailedStartLeavesNothing ==
  sup = "done" /\ "start" \in result.failures => child \in Ended \cup {"none"} /\ helper = "none"

-----------------------------------------------------------------------------
(* Run with either controller.                                             *)

\* A descendant that terminate did not reach: it left the process group, or
\* its job could not be terminated.  Run waits for it ("There is deliberately
\* no timeout here", capture.go:176).
HelperSurvives == (sup = "draining" /\ helper = "detached") \/ HelperInJob

\* "A downstream output failure terminates the supervised process tree so an
\* unbounded producer cannot run forever" (capture.go:89): one failed write,
\* even one made before the supervisor listens, ends Run, unless a descendant
\* that was not reached keeps a pipe open.
OutputFailureEnds == (\E s \in Stream : failed[s]) ~> sup = "done" \/ HelperSurvives

\* A done context ends Run as well, also when it comes while the child is made
\* ready and whatever fails there (afterStart, terminate).
CancellationEnds == ctx # "live" ~> sup = "done" \/ HelperSurvives
=============================================================================
