--------------------------- MODULE MCLedgerStore ---------------------------
(***************************************************************************)
(* Two processes write to one ledger, which is one of two:                 *)
(*   - an empty one, in which they start, close and project the same runs: *)
(*     repeated, conflicting and badly timed requests meet in every        *)
(*     order;                                                              *)
(*   - one an earlier session left, with a successful run r1, a failed run *)
(*     r2 that has a finding f2, and a run r3 that is still open, in which *)
(*     they add, close and show findings and close r3.                     *)
(***************************************************************************)
EXTENDS LedgerStore, TLC

CONSTANTS p1, p2, r1, r2, r3, e1, e2, e3, e4, e5, e6, f1, f2, k1, k2, m1, x1

Begun(at) == [startedAt |-> at, meta |-> m1]

Ended(at, how, exit, output) ==
  [endedAt |-> at, outcome |-> how, exitCode |-> exit,
   signal |-> NULL, timedOut |-> NULL, output |-> output]

-----------------------------------------------------------------------------
(* Runs.                                                                   *)

StartAt2(run, event) ==
  [op |-> "StartRun", run |-> run, event |-> event, start |-> Begun(2)]

CloseR1(event, at, how, exit) ==
  [op |-> "CloseRun", run |-> r1, event |-> event,
   close |-> Ended(at, how, exit, [bytes |-> 1, lines |-> 1])]

RunRequests ==
  {StartAt2(r1, e1),
   StartAt2(r2, e2),                   \* may take the terminal event's ID
   CloseR1(e2, 2, "success", 0),
   CloseR1(e3, 2, "failure", 1),      \* a rival close
   CloseR1(e2, 1, "success", 0),      \* ends before it starts
   [op |-> "ProjectReceipt", run |-> r1]}

-----------------------------------------------------------------------------
(* Findings.                                                               *)

Success == Ended(1, "success", 0, NoOutput)
Failure == Ended(1, "failure", 1, NoOutput)

Left ==
  [runs |-> r1 :> ClosedRun(OpenRun(Begun(1), e1, 1), Success, e2, 1)
         @@ r2 :> ClosedRun(OpenRun(Begun(1), e3, 1), Failure, e4, 1)
         @@ r3 :> OpenRun(Begun(1), e5, 1),
   events |-> e1 :> StartEvent(r1, Begun(1), 1)
           @@ e2 :> TerminalEvent(r1, 2, Success, 1)
           @@ e3 :> StartEvent(r2, Begun(1), 1)
           @@ e4 :> TerminalEvent(r2, 2, Failure, 1)
           @@ e5 :> StartEvent(r3, Begun(1), 1),
   findings |-> f2 :> [origin |-> r2, content |-> x1, recordedAt |-> 1],
   closures |-> EmptyTable]

Add(finding, origin) ==
  [op |-> "AddFinding", finding |-> finding, origin |-> origin, content |-> x1]

Settle(finding, closure, how, run) ==
  [op |-> "CloseFinding", finding |-> finding, closure |-> closure,
   disposition |-> how, resolving |-> run, content |-> x1]

FindingRequests ==
  {Add(f1, r1),
   Add(f1, r3),                          \* refused while r3 is open
   Settle(f1, k1, "resolved", r1),
   Settle(f2, k1, "resolved", r1),       \* the same closure ID
   Settle(f2, k2, "dismissed", NULL),    \* a rival closure
   Settle(f2, k2, "resolved", r2),       \* r2 did not succeed
   [op |-> "CloseRun", run |-> r3, event |-> e6, close |-> Failure],
   [op |-> "ShowFinding", finding |-> f2]}

-----------------------------------------------------------------------------
MCLedgers == {EmptyLedger, Left}
MCRequests == RunRequests \cup FindingRequests

Asked(requests, clock) ==
  \A p \in Proc : req[p] \in requests \cup {NULL} /\ now[p] \in clock \cup {NULL}

Suited ==
  IF r3 \in DOMAIN db.runs THEN Asked(FindingRequests, {1}) ELSE Asked(RunRequests, Time)

StoreSpec == Init /\ [][Next /\ Suited']_vars

Symmetry == Permutations(Proc)
=============================================================================
