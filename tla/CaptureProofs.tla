--------------------------- MODULE CaptureProofs ---------------------------
(***************************************************************************)
(* capture.Run returns counts that are settled and complete, and tells its *)
(* own kills apart, for any number of chunks, with or without a deadline,  *)
(* a shared writer or a descendant that leaves the process group.          *)
(*                                                                         *)
(* None of the properties is inductive: that a copy has ended says nothing *)
(* of the counts unless the invariant says when it may end, and that Wait  *)
(* has been received says nothing of the child unless the invariant says   *)
(* what Wait waits for.  CaptureInv relates each pair of actors: copies to *)
(* processes, Wait to both, the supervisor to Wait, and the reason for a   *)
(* kill to its cause.                                                      *)
(***************************************************************************)
EXTENDS Capture, TLAPS

\* The errors Run joins into the one it returns.
CaptureFailure == {"timeout", "canceled", "outputCopy", "signal", "start"}

CaptureResult ==
  [failures : SUBSET CaptureFailure, exitCode : {-1, 0, 1}, counted : [Stream -> Nat]]

ProcessTypes ==
  /\ ctx \in {"live", "signal", "canceled", "expired"}
  /\ child \in {"none", "running"} \cup Ended
  /\ helper \in {"none", "running", "detached", "gone"}

CopyTypes ==
  /\ written \in [Stream -> Nat]
  /\ counted \in [Stream -> Nat]
  /\ forwarded \in [Stream -> Nat]
  /\ copier \in [Stream -> {"idle", "locking", "writing", "done"}]

FailureTypes ==
  /\ broken \in [Stream -> BOOLEAN]
  /\ failed \in [Stream -> BOOLEAN]
  /\ osError \in BOOLEAN
  /\ notice \in BOOLEAN

SupervisorTypes ==
  /\ waiter \in {"none", "child", "copies", "sent", "received"}
  /\ sup \in {"begin", "starting", "started", "select", "context done",
              "output failed", "draining", "closing", "done"}
  /\ reason \in {"none", "context", "output"}
  /\ result \in CaptureResult

CaptureTypeOK == ProcessTypes /\ CopyTypes /\ FailureTypes /\ SupervisorTypes

\* A counter is one chunk ahead of its destination while that chunk is on
\* its way, and level with it otherwise, until it gives up.  A copy ends
\* where nothing more can come, or by an error of the system.
CopyOK(s) ==
  /\ counted[s] <= written[s]
  /\ copier[s] \in {"locking", "writing"} => ~ failed[s] /\ counted[s] = forwarded[s] + 1
  /\ copier[s] \in {"idle", "done"} /\ ~ failed[s] => counted[s] = forwarded[s]
  /\ copier[s] = "done" => osError \/ (counted[s] = written[s] /\ ~ Alive)

\* Before the child, nothing.
NothingYet ==
  child = "none" =>
    /\ helper = "none" /\ reason = "none"
    /\ sup \in {"begin", "starting", "done"}
    /\ \A s \in Stream : copier[s] = "idle" /\ ~ failed[s]

\* Wait is called once, for a child that runs, and its answer is taken by
\* the supervisor exactly when it leaves for good.
WaitOK ==
  /\ sup \in {"begin", "starting"} => child = "none"
  /\ waiter = "none" <=> child = "none" \/ sup = "started"
  /\ waiter = "received" <=> child # "none" /\ sup \in {"closing", "done"}
  /\ waiter \in {"copies", "sent", "received"} => child \in Ended
  /\ waiter \in {"sent", "received"} => \A s \in Stream : copier[s] = "done"

\* Nobody is killed without a reason, and every reason has its cause.
ReasonOK ==
  /\ reason # "none" => sup \in {"draining", "closing", "done"}
  /\ sup = "draining" => reason # "none"
  /\ child = "terminated" => reason # "none"
  /\ ctx = "expired" => Deadline
  /\ sup = "context done" \/ reason = "context" => ctx # "live"
  /\ notice \/ sup = "output failed" \/ reason = "output" => \E s \in Stream : failed[s]

\* What Run has returned is still what it would say of the run.
ResultOK ==
  sup = "done" =>
    \/ /\ child = "none" /\ ctx # "live"
       /\ result = [NoResult EXCEPT !.failures = {contextFailure}]
    \/ /\ child = "none"
       /\ result = [NoResult EXCEPT !.failures = {"start"}]
    \/ /\ child # "none"
       /\ result = [failures |-> Failures, exitCode |-> exitCode, counted |-> counted]

\* The inductive invariant.
CaptureInv ==
  /\ CaptureTypeOK
  /\ \A s \in Stream : CopyOK(s)
  /\ NothingYet
  /\ WaitOK
  /\ ReasonOK
  /\ ResultOK

-----------------------------------------------------------------------------
(* What Run has returned stays true while the processes go on.             *)
\* A result, once there, is touched only by the supervisor.
LEMMA ResultKept ==
  ASSUME CaptureInv, UNCHANGED <<child, counted, failed, osError, sup, reason, result>>,
         sup = "done" /\ ctx # "live" => ctx' = ctx
  PROVE  ResultOK'
<1>1. CASE sup # "done"
  BY <1>1 DEF ResultOK
<1>2. CASE sup = "done"
  <2>1. Failures' = Failures
    <3>1. CASE reason = "context"
      BY <1>2, <3>1 DEF CaptureInv, ReasonOK, Failures, contextFailure, Killed
    <3>2. CASE reason # "context"
      BY <1>2, <3>2 DEF Failures, Killed
    <3> QED BY <3>1, <3>2
  <2>2. exitCode' = exitCode /\ (ctx # "live" => contextFailure' = contextFailure)
    BY <1>2 DEF exitCode, contextFailure
  <2> QED BY <1>2, <2>1, <2>2 DEF CaptureInv, ResultOK
<1> QED BY <1>1, <1>2

\* The same for the copies, as long as no process comes to life, and for the
\* parts that speak of the supervisor and of Wait.
LEMMA TypesKept ==
  /\ UNCHANGED <<ctx, child, helper>> => (ProcessTypes <=> ProcessTypes')
  /\ UNCHANGED <<written, counted, forwarded, copier>> => (CopyTypes <=> CopyTypes')
  /\ UNCHANGED <<broken, failed, osError, notice>> => (FailureTypes <=> FailureTypes')
  /\ UNCHANGED <<waiter, sup, reason, result>> => (SupervisorTypes <=> SupervisorTypes')
BY DEF ProcessTypes, CopyTypes, FailureTypes, SupervisorTypes

\* So are the counters of a stream, by its copy goroutine.
LEMMA CopiesKept ==
  ASSUME \A s \in Stream : CopyOK(s), Alive' => Alive,
         UNCHANGED <<written, counted, forwarded, copier, failed, osError>>
  PROVE  \A s \in Stream : CopyOK(s)'
BY DEF CopyOK

\* The order of start, copies and Wait survives steps that are none of them.
LEMMA OrderKept ==
  ASSUME NothingYet, WaitOK,
         UNCHANGED <<child, helper, copier, failed, waiter, sup, reason>>
  PROVE  NothingYet' /\ WaitOK'
BY DEF NothingYet, WaitOK

\* The reason of a termination survives what happens outside.
LEMMA ReasonKept ==
  ASSUME ReasonOK, UNCHANGED <<child, failed, notice, sup, reason>>,
         ctx # "live" => ctx' = ctx, ctx' = "expired" => ctx = ctx' \/ Deadline
  PROVE  ReasonOK'
BY DEF ReasonOK

\* What children, descendants, signals and the clock do keeps the invariant.
LEMMA OutsideKeeps == CaptureInv /\ Outside => CaptureInv'
<1> SUFFICES ASSUME CaptureInv, Outside PROVE CaptureInv'
  OBVIOUS
<1> USE DEF copies, supervision
<1>0. /\ CaptureTypeOK /\ \A s \in Stream : CopyOK(s)
      /\ NothingYet /\ WaitOK /\ ReasonOK /\ ResultOK
  BY DEF CaptureInv
<1>1. ASSUME NEW why \in {"signal", "canceled", "expired"}, ContextDone(why)
      PROVE  CaptureInv'
  <2>1. CaptureTypeOK'
    BY <1>0, <1>1, TypesKept DEF ContextDone, CaptureTypeOK, ProcessTypes
  <2>2. \A s \in Stream : CopyOK(s)'
    BY <1>0, <1>1, CopiesKept DEF ContextDone, Alive
  <2>3. NothingYet' /\ WaitOK'
    BY <1>0, <1>1, OrderKept DEF ContextDone
  <2>4. ReasonOK' /\ ResultOK'
    BY <1>0, <1>1, ReasonKept, ResultKept DEF ContextDone
  <2> QED BY <2>1, <2>2, <2>3, <2>4 DEF CaptureInv
<1>2. ASSUME ChildForks PROVE CaptureInv'
  <2>1. CaptureTypeOK'
    BY <1>0, <1>2, TypesKept DEF ChildForks, CaptureTypeOK, ProcessTypes
  <2>2. \A s \in Stream : CopyOK(s)'
    BY <1>0, <1>2, CopiesKept DEF ChildForks, Alive
  <2>3. NothingYet' /\ WaitOK'
    BY <1>0, <1>2 DEF ChildForks, NothingYet, WaitOK
  <2>4. ReasonOK' /\ ResultOK'
    BY <1>0, <1>2, ReasonKept, ResultKept DEF ChildForks
  <2> QED BY <2>1, <2>2, <2>3, <2>4 DEF CaptureInv
<1>3. ASSUME HelperDetaches \/ HelperEnds PROVE CaptureInv'
  <2>1. CaptureTypeOK'
    BY <1>0, <1>3, TypesKept DEF HelperDetaches, HelperEnds, CaptureTypeOK, ProcessTypes
  <2>2. \A s \in Stream : CopyOK(s)'
    BY <1>0, <1>3, CopiesKept DEF HelperDetaches, HelperEnds, Alive
  <2>3. NothingYet' /\ WaitOK'
    BY <1>0, <1>3 DEF HelperDetaches, HelperEnds, NothingYet, WaitOK
  <2>4. ReasonOK' /\ ResultOK'
    BY <1>0, <1>3, ReasonKept, ResultKept DEF HelperDetaches, HelperEnds
  <2> QED BY <2>1, <2>2, <2>3, <2>4 DEF CaptureInv
<1>4. ASSUME NEW how \in Exited \cup {"signaled"}, ChildEnds(how) PROVE CaptureInv'
  <2>0. how \in Ended /\ how \notin {"none", "running", "terminated"} /\ "running" \notin Ended
    BY DEF Ended, Exited
  <2>1. CaptureTypeOK'
    BY <1>0, <1>4, <2>0, TypesKept DEF ChildEnds, CaptureTypeOK, ProcessTypes
  <2>2. \A s \in Stream : CopyOK(s)'
    BY <1>0, <1>4, CopiesKept DEF ChildEnds, Alive
  <2>3. NothingYet' /\ WaitOK'
    BY <1>0, <1>4, <2>0 DEF ChildEnds, NothingYet, WaitOK
  <2>4. ReasonOK'
    BY <1>0, <1>4, <2>0 DEF ChildEnds, ReasonOK
  <2>5. sup # "done"
    BY <1>0, <1>4, <2>0 DEF ChildEnds, WaitOK, ResultOK
  <2>6. ResultOK'
    BY <1>4, <2>5 DEF ChildEnds, ResultOK
  <2> QED BY <2>1, <2>2, <2>3, <2>4, <2>6 DEF CaptureInv
<1>5. ASSUME NEW s \in Stream, Writes(s) PROVE CaptureInv'
  <2>1. CaptureTypeOK'
    BY <1>0, <1>5, TypesKept DEF Writes, CaptureTypeOK, CopyTypes
  <2>2. ASSUME NEW t \in Stream PROVE CopyOK(t)'
    <3>1. CASE t = s
      BY <1>0, <1>5, <3>1 DEF Writes, CaptureTypeOK, CopyTypes, CopyOK, Alive
    <3>2. CASE t # s
      BY <1>0, <1>5, <3>2 DEF Writes, CaptureTypeOK, CopyTypes, CopyOK, Alive
    <3> QED BY <3>1, <3>2
  <2>3. NothingYet' /\ WaitOK'
    BY <1>0, <1>5, OrderKept DEF Writes
  <2>4. ReasonOK' /\ ResultOK'
    BY <1>0, <1>5, ReasonKept, ResultKept DEF Writes
  <2> QED BY <2>1, <2>2, <2>3, <2>4 DEF CaptureInv
<1>6. ASSUME NEW s \in Stream, DestinationBreaks(s) PROVE CaptureInv'
  <2>1. CaptureTypeOK'
    BY <1>0, <1>6, CaptureConstants, TypesKept DEF DestinationBreaks, CaptureTypeOK, FailureTypes
  <2>2. \A t \in Stream : CopyOK(t)'
    BY <1>0, <1>6, CopiesKept DEF DestinationBreaks, Alive
  <2>3. NothingYet' /\ WaitOK'
    BY <1>0, <1>6, OrderKept DEF DestinationBreaks
  <2>4. ReasonOK' /\ ResultOK'
    BY <1>0, <1>6, ReasonKept, ResultKept DEF DestinationBreaks
  <2> QED BY <2>1, <2>2, <2>3, <2>4 DEF CaptureInv
<1> QED BY <1>1, <1>2, <1>3, <1>4, <1>5, <1>6 DEF Outside

-----------------------------------------------------------------------------
(* While a copy goroutine is at work its child has been started, and Wait  *)
(* and the supervisor are not past it.                                     *)
\* While a stream is copied, Wait has not returned and nothing is collected.
LEMMA CopierWorks ==
  ASSUME CaptureInv, NEW s \in Stream, child # "none", copier[s] # "done"
  PROVE  waiter \notin {"sent", "received"} /\ sup \notin {"closing", "done"}
BY DEF CaptureInv, CaptureTypeOK, SupervisorTypes, WaitOK

\* So its step is seen by nobody but the copies.
LEMMA CopierOrder ==
  ASSUME CaptureInv, NEW s \in Stream, child # "none", copier[s] # "done",
         UNCHANGED <<child, helper, waiter, sup, reason, result>>
  PROVE  NothingYet' /\ WaitOK' /\ ResultOK'
<1>1. waiter \notin {"sent", "received"} /\ sup \notin {"closing", "done"}
  BY CopierWorks
<1> QED BY <1>1 DEF CaptureInv, NothingYet, WaitOK, ResultOK

\* A step of a copy goroutine keeps it.
LEMMA CopiesKeep ==
  ASSUME CaptureInv, NEW s \in Stream, Copy(s) \/ CopierFails(s)
  PROVE  CaptureInv'
<1> USE DEF environment, supervision
<1>0. /\ CaptureTypeOK /\ \A t \in Stream : CopyOK(t)
      /\ NothingYet /\ WaitOK /\ ReasonOK /\ ResultOK
  BY DEF CaptureInv
<1>1. child # "none" /\ copier[s] # "done"
  BY <1>0 DEF Copy, CopierReads, CopierLocks, CopierWrites, CopierEnds, CopierFails, NothingYet
<1>2. UNCHANGED <<ctx, child, helper, waiter, sup, reason, result>> /\ (Alive' <=> Alive)
  BY DEF Copy, CopierReads, CopierLocks, CopierWrites, CopierEnds, CopierFails, Alive
<1>3. NothingYet' /\ WaitOK' /\ ResultOK'
  BY <1>1, <1>2, CopierOrder
<1>4. ASSUME CopierReads(s) PROVE CaptureInv'
  <2>1. CaptureTypeOK'
    BY <1>0, <1>4, TypesKept DEF CopierReads, CaptureTypeOK, CopyTypes
  <2>2. ASSUME NEW t \in Stream PROVE CopyOK(t)'
    <3>1. CASE t = s
      BY <1>0, <1>2, <1>4, <3>1 DEF CopierReads, CaptureTypeOK, CopyTypes, CopyOK
    <3>2. CASE t # s
      BY <1>0, <1>2, <1>4, <3>2 DEF CopierReads, CaptureTypeOK, CopyTypes, CopyOK
    <3> QED BY <3>1, <3>2
  <2>3. ReasonOK'
    BY <1>0, <1>2, <1>4, ReasonKept DEF CopierReads
  <2> QED BY <1>3, <2>1, <2>2, <2>3 DEF CaptureInv
<1>5. ASSUME CopierLocks(s) PROVE CaptureInv'
  <2>1. CaptureTypeOK'
    BY <1>0, <1>5, TypesKept DEF CopierLocks, CaptureTypeOK, CopyTypes
  <2>2. ASSUME NEW t \in Stream PROVE CopyOK(t)'
    <3>1. CASE t = s
      BY <1>0, <1>2, <1>5, <3>1 DEF CopierLocks, CaptureTypeOK, CopyTypes, CopyOK
    <3>2. CASE t # s
      BY <1>0, <1>2, <1>5, <3>2 DEF CopierLocks, CaptureTypeOK, CopyTypes, CopyOK
    <3> QED BY <3>1, <3>2
  <2>3. ReasonOK'
    BY <1>0, <1>2, <1>5, ReasonKept DEF CopierLocks
  <2> QED BY <1>3, <2>1, <2>2, <2>3 DEF CaptureInv
<1>6. ASSUME CopierWrites(s) PROVE CaptureInv'
  <2>1. CASE broken[s]
    <3>1. /\ copier[s] = "writing" /\ copier' = [copier EXCEPT ![s] = "idle"]
          /\ failed' = [failed EXCEPT ![s] = TRUE] /\ notice' = TRUE
          /\ UNCHANGED <<written, counted, forwarded, broken, osError>>
      BY <1>6, <2>1 DEF CopierWrites
    <3>2. CaptureTypeOK'
      BY <1>0, <1>2, <3>1, TypesKept DEF CaptureTypeOK, CopyTypes, FailureTypes
    <3>3. ASSUME NEW t \in Stream PROVE CopyOK(t)'
      BY <1>0, <1>2, <3>1, <3>3 DEF CaptureTypeOK, CopyTypes, FailureTypes, CopyOK
    <3>4. ReasonOK'
      BY <1>0, <1>2, <3>1 DEF CaptureTypeOK, FailureTypes, ReasonOK
    <3> QED BY <1>3, <3>2, <3>3, <3>4 DEF CaptureInv
  <2>2. CASE ~ broken[s]
    <3>1. /\ copier[s] = "writing" /\ copier' = [copier EXCEPT ![s] = "idle"]
          /\ forwarded' = [forwarded EXCEPT ![s] = forwarded[s] + 1]
          /\ UNCHANGED <<written, counted, broken, failed, osError, notice>>
      BY <1>6, <2>2 DEF CopierWrites
    <3>2. CaptureTypeOK'
      BY <1>0, <1>2, <3>1, TypesKept DEF CaptureTypeOK, CopyTypes
    <3>3. ASSUME NEW t \in Stream PROVE CopyOK(t)'
      BY <1>0, <1>2, <3>1, <3>3 DEF CaptureTypeOK, CopyTypes, CopyOK
    <3>4. ReasonOK'
      BY <1>0, <1>2, <3>1, ReasonKept
    <3> QED BY <1>3, <3>2, <3>3, <3>4 DEF CaptureInv
  <2> QED BY <2>1, <2>2
<1>7. ASSUME CopierEnds(s) PROVE CaptureInv'
  <2>1. CaptureTypeOK'
    BY <1>0, <1>7, TypesKept DEF CopierEnds, CaptureTypeOK, CopyTypes
  <2>2. ASSUME NEW t \in Stream PROVE CopyOK(t)'
    <3>1. CASE t = s
      BY <1>0, <1>2, <1>7, <3>1 DEF CopierEnds, CaptureTypeOK, CopyTypes, CopyOK
    <3>2. CASE t # s
      BY <1>0, <1>2, <1>7, <3>2 DEF CopierEnds, CaptureTypeOK, CopyTypes, CopyOK
    <3> QED BY <3>1, <3>2
  <2>3. ReasonOK'
    BY <1>0, <1>2, <1>7, ReasonKept DEF CopierEnds
  <2> QED BY <1>3, <2>1, <2>2, <2>3 DEF CaptureInv
<1>8. ASSUME CopierFails(s) PROVE CaptureInv'
  <2>1. CaptureTypeOK'
    BY <1>0, <1>8, TypesKept DEF CopierFails, CaptureTypeOK, CopyTypes, FailureTypes
  <2>2. ASSUME NEW t \in Stream PROVE CopyOK(t)'
    <3>1. CASE t = s
      BY <1>0, <1>2, <1>8, <3>1 DEF CopierFails, CaptureTypeOK, CopyTypes, CopyOK
    <3>2. CASE t # s
      BY <1>0, <1>2, <1>8, <3>2 DEF CopierFails, CaptureTypeOK, CopyTypes, CopyOK
    <3> QED BY <3>1, <3>2
  <2>3. ReasonOK'
    BY <1>0, <1>2, <1>8, ReasonKept DEF CopierFails
  <2> QED BY <1>3, <2>1, <2>2, <2>3 DEF CaptureInv
<1> QED BY <1>4, <1>5, <1>6, <1>7, <1>8 DEF Copy

\* The return of Wait keeps it.
LEMMA WaitKeeps == CaptureInv /\ Wait => CaptureInv'
<1> SUFFICES ASSUME CaptureInv, Wait PROVE CaptureInv'
  OBVIOUS
<1> USE DEF environment, copies
<1>0. /\ CaptureTypeOK /\ \A t \in Stream : CopyOK(t)
      /\ NothingYet /\ WaitOK /\ ReasonOK /\ ResultOK
  BY DEF CaptureInv
<1>1. UNCHANGED <<environment, copies, sup, reason, result>>
  BY DEF Wait, WaitReaps, WaitSends
<1>2. CaptureTypeOK'
  BY <1>0, <1>1, TypesKept DEF Wait, WaitReaps, WaitSends, CaptureTypeOK, SupervisorTypes
<1>3. \A t \in Stream : CopyOK(t)'
  BY <1>0, <1>1, CopiesKept DEF Alive
<1>4. WaitOK'
  BY <1>0, <1>1 DEF Wait, WaitReaps, WaitSends, WaitOK
<1>5. NothingYet' /\ ReasonOK' /\ ResultOK'
  BY <1>0, <1>1, ReasonKept, ResultKept DEF NothingYet
<1> QED BY <1>2, <1>3, <1>4, <1>5 DEF CaptureInv
-----------------------------------------------------------------------------
(* The supervisor.                                                         *)

\* Before the child nothing is returned but a context that is done, or a
\* start that failed.
LEMMA NoResultTyped ==
  ASSUME NEW why \in CaptureFailure
  PROVE  [NoResult EXCEPT !.failures = {why}] \in CaptureResult
BY DEF NoResult, NoCounts, CaptureResult

\* Run without a child keeps it.
LEMMA ReturnsEarly ==
  ASSUME CaptureInv, StartNothing \/ StartFails
  PROVE  CaptureInv'
<1>0. /\ CaptureTypeOK /\ \A t \in Stream : CopyOK(t)
      /\ NothingYet /\ WaitOK /\ ReasonOK
  BY DEF CaptureInv
<1>1. \/ ctx # "live" /\ result' = [NoResult EXCEPT !.failures = {contextFailure}]
      \/ result' = [NoResult EXCEPT !.failures = {"start"}]
  BY DEF StartNothing, StartFails, Finish
<1>2. /\ UNCHANGED <<environment, copies, waiter, reason>>
      /\ sup \in {"begin", "starting"} /\ sup' = "done"
  BY DEF StartNothing, StartFails, Finish
<1>3. CaptureTypeOK'
  <2>1. result' \in CaptureResult
    BY <1>1, NoResultTyped DEF CaptureFailure, contextFailure
  <2> QED BY <1>0, <1>2, <2>1, TypesKept
          DEF environment, copies, CaptureTypeOK, SupervisorTypes
<1>4. \A t \in Stream : CopyOK(t)'
  BY <1>0, <1>2, CopiesKept DEF environment, copies, Alive
<1>5. NothingYet' /\ WaitOK' /\ ReasonOK'
  BY <1>0, <1>2 DEF environment, copies, NothingYet, WaitOK, ReasonOK
<1>6. ResultOK'
  BY <1>0, <1>1, <1>2 DEF environment, WaitOK, ResultOK, contextFailure
<1> QED BY <1>3, <1>4, <1>5, <1>6 DEF CaptureInv

\* A step on the way: it touches no process and no copy, and returns nothing.
LEMMA SupervisorMoves ==
  ASSUME CaptureInv, UNCHANGED <<ctx, child, helper, written, broken>>,
         UNCHANGED <<counted, forwarded, copier, failed, osError, reason, result>>,
         SupervisorTypes', FailureTypes', sup # "done", sup' # "done"
  PROVE  CaptureTypeOK' /\ (\A t \in Stream : CopyOK(t)') /\ ResultOK'
BY TypesKept, CopiesKept DEF CaptureInv, CaptureTypeOK, Alive, ResultOK

\* Each branch of the select keeps it.
LEMMA SupervisorSteps ==
  ASSUME CaptureInv,
         \/ Begin \/ Supervise \/ SelectWaited \/ SelectContext \/ SelectOutput
         \/ PreferWaited \/ Drain
  PROVE  CaptureInv'
<1> USE DEF environment, copies
<1>0. /\ CaptureTypeOK /\ NothingYet /\ WaitOK /\ ReasonOK
  BY DEF CaptureInv
<1>1. CASE Begin
  <2>1. SupervisorTypes' /\ FailureTypes'
    BY <1>0, <1>1 DEF Begin, CaptureTypeOK, SupervisorTypes, FailureTypes
  <2>2. NothingYet' /\ WaitOK' /\ ReasonOK'
    BY <1>0, <1>1 DEF Begin, NothingYet, WaitOK, ReasonOK
  <2> QED BY <1>1, <2>1, <2>2, SupervisorMoves DEF Begin, CaptureInv
<1>2. CASE Supervise
  <2>1. SupervisorTypes' /\ FailureTypes'
    BY <1>0, <1>2 DEF Supervise, CaptureTypeOK, SupervisorTypes, FailureTypes
  <2>2. NothingYet' /\ WaitOK' /\ ReasonOK'
    BY <1>0, <1>2 DEF Supervise, NothingYet, WaitOK, ReasonOK
  <2> QED BY <1>2, <2>1, <2>2, SupervisorMoves DEF Supervise, CaptureInv
<1>3. CASE SelectWaited \/ PreferWaited \/ Drain
  <2>1. SupervisorTypes' /\ FailureTypes'
    BY <1>0, <1>3 DEF SelectWaited, PreferWaited, Drain, CaptureTypeOK, SupervisorTypes, FailureTypes
  <2>2. NothingYet' /\ WaitOK' /\ ReasonOK'
    <3>1. /\ waiter = "sent" /\ waiter' = "received" /\ sup' = "closing"
          /\ UNCHANGED <<ctx, child, helper, copier, failed, notice, reason>>
      BY <1>3 DEF SelectWaited, PreferWaited, Drain
    <3>2. child # "none"
      BY <1>0, <3>1 DEF WaitOK
    <3> QED BY <1>0, <3>1, <3>2 DEF NothingYet, WaitOK, ReasonOK
  <2> QED BY <1>3, <2>1, <2>2, SupervisorMoves
          DEF SelectWaited, PreferWaited, Drain, CaptureInv
<1>4. CASE SelectContext
  <2>1. SupervisorTypes' /\ FailureTypes'
    BY <1>0, <1>4 DEF SelectContext, CaptureTypeOK, SupervisorTypes, FailureTypes
  <2>2. NothingYet' /\ WaitOK' /\ ReasonOK'
    BY <1>0, <1>4 DEF SelectContext, NothingYet, WaitOK, ReasonOK
  <2> QED BY <1>4, <2>1, <2>2, SupervisorMoves DEF SelectContext, CaptureInv
<1>5. CASE SelectOutput
  <2>1. SupervisorTypes' /\ FailureTypes'
    BY <1>0, <1>5 DEF SelectOutput, CaptureTypeOK, SupervisorTypes, FailureTypes
  <2>2. NothingYet' /\ WaitOK' /\ ReasonOK'
    BY <1>0, <1>5 DEF SelectOutput, NothingYet, WaitOK, ReasonOK
  <2> QED BY <1>5, <2>1, <2>2, SupervisorMoves DEF SelectOutput, CaptureInv
<1> QED BY <1>1, <1>2, <1>3, <1>4, <1>5

\* Starting the child keeps it.
LEMMA StartKeeps == ASSUME CaptureInv, Start PROVE CaptureInv'
<1> USE DEF environment, copies
<1>0. /\ CaptureTypeOK /\ NothingYet /\ WaitOK /\ ReasonOK
      /\ \A t \in Stream : CopyOK(t)
  BY DEF CaptureInv
<1>1. /\ child = "none" /\ child' = "running" /\ sup = "starting" /\ sup' = "started"
      /\ UNCHANGED <<ctx, helper, written, broken, waiter, reason, result>>
      /\ UNCHANGED <<counted, forwarded, copier, failed, osError, notice>>
  BY <1>0 DEF Start, WaitOK
<1>2. \A t \in Stream : copier[t] = "idle"
  BY <1>0, <1>1 DEF NothingYet
<1>3. CaptureTypeOK'
  BY <1>0, <1>1, TypesKept DEF CaptureTypeOK, ProcessTypes, SupervisorTypes
<1>4. \A t \in Stream : CopyOK(t)'
  BY <1>0, <1>1, <1>2 DEF CopyOK
<1>5. NothingYet' /\ WaitOK' /\ ReasonOK' /\ ResultOK'
  BY <1>0, <1>1 DEF NothingYet, WaitOK, ReasonOK, ResultOK
<1> QED BY <1>3, <1>4, <1>5 DEF CaptureInv

\* Terminating the process group keeps it.
LEMMA TerminateKeeps == ASSUME CaptureInv, Terminate PROVE CaptureInv'
<1> USE DEF environment, copies
<1>0. /\ CaptureTypeOK /\ NothingYet /\ WaitOK /\ ReasonOK
      /\ \A t \in Stream : CopyOK(t)
  BY DEF CaptureInv
<1>1. /\ sup \in {"context done", "output failed"} /\ waiter # "sent" /\ sup' = "draining"
      /\ reason' = IF sup = "context done" THEN "context" ELSE "output"
      /\ child' = IF child = "running" THEN "terminated" ELSE child
      /\ helper' = IF helper = "running" THEN "gone" ELSE helper
      /\ UNCHANGED <<ctx, written, broken, waiter, result>>
      /\ UNCHANGED <<counted, forwarded, copier, failed, osError, notice>>
  BY DEF Terminate
<1>2. "terminated" \in Ended /\ "running" \notin Ended /\ "none" \notin Ended
  BY DEF Ended, Exited
<1>3. CaptureTypeOK'
  BY <1>0, <1>1, <1>2, TypesKept DEF CaptureTypeOK, ProcessTypes, SupervisorTypes
<1>4. \A t \in Stream : CopyOK(t)'
  BY <1>0, <1>1, CopiesKept DEF Alive
<1>5. NothingYet'
  BY <1>0, <1>1 DEF NothingYet
<1>6. WaitOK'
  BY <1>0, <1>1, <1>2 DEF NothingYet, WaitOK
<1>7. ReasonOK'
  BY <1>0, <1>1 DEF ReasonOK
<1>8. ResultOK'
  BY <1>1 DEF ResultOK
<1> QED BY <1>3, <1>4, <1>5, <1>6, <1>7, <1>8 DEF CaptureInv

\* Collecting the result keeps it, because both copies are done.
LEMMA CollectKeeps == ASSUME CaptureInv, Collect PROVE CaptureInv'
<1> USE DEF environment, copies
<1>0. /\ CaptureTypeOK /\ NothingYet /\ WaitOK /\ ReasonOK
      /\ \A t \in Stream : CopyOK(t)
  BY DEF CaptureInv
<1>1. /\ sup = "closing" /\ sup' = "done"
      /\ result' = [failures |-> Failures, exitCode |-> exitCode, counted |-> counted]
      /\ UNCHANGED <<ctx, child, helper, written, broken, waiter, reason>>
      /\ UNCHANGED <<counted, forwarded, copier, failed, osError, notice>>
  BY DEF Collect, Finish
<1>2. child # "none"
  BY <1>0, <1>1 DEF NothingYet
<1>3. result' \in CaptureResult
  <2>1. Failures \subseteq CaptureFailure
    BY DEF Failures, contextFailure, CaptureFailure
  <2>2. exitCode \in {-1, 0, 1}
    BY DEF exitCode
  <2> QED BY <1>0, <1>1, <2>1, <2>2 DEF CaptureTypeOK, CopyTypes, CaptureResult
<1>4. CaptureTypeOK'
  BY <1>0, <1>1, <1>3, TypesKept DEF CaptureTypeOK, SupervisorTypes
<1>5. \A t \in Stream : CopyOK(t)'
  BY <1>0, <1>1, CopiesKept DEF Alive
<1>6. NothingYet' /\ WaitOK' /\ ReasonOK'
  BY <1>0, <1>1, <1>2 DEF NothingYet, WaitOK, ReasonOK
<1>7. ResultOK'
  <2>1. Failures' = Failures /\ exitCode' = exitCode
    BY <1>1 DEF Failures, contextFailure, Killed, exitCode
  <2> QED BY <1>1, <1>2, <2>1 DEF ResultOK
<1> QED BY <1>4, <1>5, <1>6, <1>7 DEF CaptureInv

-----------------------------------------------------------------------------
\* The invariant holds at first,
LEMMA CaptureInvInit == CaptureInit => CaptureInv
<1> SUFFICES ASSUME CaptureInit PROVE CaptureInv
  OBVIOUS
<1>1. CaptureTypeOK
  <2>1. NoResult \in CaptureResult
    BY DEF NoResult, NoCounts, CaptureResult
  <2> QED BY <2>1 DEF CaptureInit, CaptureTypeOK, ProcessTypes, CopyTypes, FailureTypes,
             SupervisorTypes, NoCounts
<1>2. \A s \in Stream : CopyOK(s)
  BY DEF CaptureInit, CopyOK, NoCounts
<1>3. NothingYet /\ WaitOK /\ ReasonOK /\ ResultOK
  BY DEF CaptureInit, NothingYet, WaitOK, ReasonOK, ResultOK, Ended, Exited
<1> QED BY <1>1, <1>2, <1>3 DEF CaptureInv

\* every step keeps it,
LEMMA CaptureInvKept == CaptureInv /\ [CaptureNext]_captureVars => CaptureInv'
<1> SUFFICES ASSUME CaptureInv, [CaptureNext]_captureVars PROVE CaptureInv'
  OBVIOUS
<1>1. CASE Outside
  BY <1>1, OutsideKeeps
<1>2. CASE \E s \in Stream : Copy(s) \/ CopierFails(s)
  BY <1>2, CopiesKeep
<1>3. CASE Wait
  BY <1>3, WaitKeeps
<1>4. CASE Supervisor
  BY <1>4, ReturnsEarly, SupervisorSteps, StartKeeps, TerminateKeeps, CollectKeeps
     DEF Supervisor
<1>5. CASE UNCHANGED captureVars
  <2>1. UNCHANGED <<ctx, child, helper, written, broken>>
        /\ UNCHANGED <<counted, forwarded, copier, failed, osError, notice>>
        /\ UNCHANGED <<waiter, sup, reason, result>>
    BY <1>5 DEF captureVars, environment, copies, supervision
  <2>2. CaptureTypeOK' /\ \A s \in Stream : CopyOK(s)'
    BY <2>1, TypesKept, CopiesKept DEF CaptureInv, CaptureTypeOK, Alive
  <2>3. NothingYet' /\ WaitOK' /\ ReasonOK' /\ ResultOK'
    BY <2>1, OrderKept, ReasonKept, ResultKept DEF CaptureInv
  <2> QED BY <2>2, <2>3 DEF CaptureInv
<1> QED BY <1>1, <1>2, <1>3, <1>4, <1>5 DEF CaptureNext

\* and so it always holds.
LEMMA CaptureInvAlways == CaptureSpec => []CaptureInv
BY CaptureInvInit, CaptureInvKept, PTL DEF CaptureSpec

\* What Run returns of a child it has started.
LEMMA ReturnedFacts ==
  ASSUME CaptureInv, sup = "done", child # "none"
  PROVE  result.failures = Failures /\ result.exitCode = exitCode /\ result.counted = counted
BY DEF CaptureInv, ResultOK

\* What an exit code says of the child.
LEMMA ExitCodeMeans ==
  /\ exitCode \in {-1, 0, 1}
  /\ exitCode # -1 => child \in Exited /\ reason = "none"
  /\ exitCode = 0 => child = "exited 0"
<1>1. CASE reason # "none" \/ child \notin Exited
  <2>1. exitCode = -1
    BY <1>1 DEF exitCode
  <2> QED BY <2>1
<1>2. CASE reason = "none" /\ child \in Exited
  <2>1. CASE child = "exited 0"
    <3>1. exitCode = 0
      BY <1>2, <2>1 DEF exitCode
    <3> QED BY <1>2, <2>1, <3>1
  <2>2. CASE child # "exited 0"
    <3>1. exitCode = 1
      BY <1>2, <2>2 DEF exitCode
    <3> QED BY <1>2, <3>1
  <2> QED BY <2>1, <2>2
<1> QED BY <1>1, <1>2

\* The three properties, of a state.  They are lemmas of their own because
\* `motus wrap' and Run on Windows rest on them too.
LEMMA CountsAreSettled == CaptureInv => CountsSettled
<1> SUFFICES ASSUME CaptureInv, sup \in {"closing", "done"}, child # "none"
             PROVE  /\ \A s \in Stream : copier[s] = "done"
                    /\ sup = "done" => result.counted = counted
  BY DEF CountsSettled
<1>1. \A s \in Stream : copier[s] = "done"
  BY DEF CaptureInv, WaitOK
<1>2. sup = "done" => result.counted = counted
  BY ReturnedFacts
<1> QED BY <1>1, <1>2

\* The invariant implies NothingTruncated
LEMMA NothingIsTruncated == CaptureInv => NothingTruncated
<1> SUFFICES ASSUME CaptureInv, sup = "done", child # "none", ~ osError,
                    "outputCopy" \notin result.failures, NEW s \in Stream
             PROVE  counted[s] = written[s] /\ forwarded[s] = written[s]
  BY DEF NothingTruncated
<1>1. ~ failed[s]
  BY ReturnedFacts DEF Failures
<1>2. copier[s] = "done"
  BY CountsAreSettled DEF CountsSettled
<1> QED BY <1>1, <1>2 DEF CaptureInv, CopyOK

\* and OwnKillNotReported.
LEMMA OwnKillIsNotReported == CaptureInv => OwnKillNotReported
<1> SUFFICES ASSUME CaptureInv, sup = "done", child = "terminated"
             PROVE  /\ result.exitCode = -1
                    /\ "signal" \notin result.failures
                    /\ result.failures \cap {"timeout", "canceled", "outputCopy"} # {}
  BY DEF OwnKillNotReported
<1>1. result.failures = Failures /\ result.exitCode = exitCode
  BY ReturnedFacts
<1>2. reason # "none" /\ reason \in {"none", "context", "output"}
  BY DEF CaptureInv, CaptureTypeOK, SupervisorTypes, ReasonOK
<1>3. CASE reason = "context"
  BY <1>1, <1>3 DEF Failures, contextFailure, exitCode
<1>4. CASE reason = "output"
  <2>1. \E s \in Stream : failed[s]
    BY <1>4 DEF CaptureInv, ReasonOK
  <2> QED BY <1>1, <1>4, <2>1 DEF Failures, exitCode, Killed
<1> QED BY <1>2, <1>3, <1>4

-----------------------------------------------------------------------------
\* The counts Run returns are those of copies that have ended, however its
\* select went (CountsSettled).
THEOREM CountsAreFinal == CaptureSpec => []CountsSettled
BY CaptureInvAlways, CountsAreSettled, PTL

\* Unless it reports so, Run loses no chunk any process wrote, for any number
\* of chunks (NothingTruncated).
THEOREM OutputIsComplete == CaptureSpec => []NothingTruncated
BY CaptureInvAlways, NothingIsTruncated, PTL

\* A child Motus killed is never reported as ended by itself
\* (OwnKillNotReported).
THEOREM OwnKillsAreOwned == CaptureSpec => []OwnKillNotReported
BY CaptureInvAlways, OwnKillIsNotReported, PTL
============================================================================
