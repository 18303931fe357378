--------------------------- MODULE MCCallsSettle ---------------------------
(***************************************************************************)
(* Calls from beginning to end, over one of two ledgers:                   *)
(*   - an empty one, where two processes start, close and project a run,   *)
(*     so that they contend for the lock and are refused;                  *)
(*   - one with an open run r2, which one process closes with every        *)
(*     combination of terminal metadata around the boundaries of the       *)
(*     validations and CHECKs, at every clock.                             *)
(***************************************************************************)
EXTENDS LedgerStore, TLC

CONSTANTS p1, p2, r1, r2, e1, e2, m1, s1

Begun(at) == [startedAt |-> at, meta |-> m1]

Ended ==
  [endedAt |-> 2, outcome |-> "success", exitCode |-> 0,
   signal |-> NULL, timedOut |-> NULL, output |-> [bytes |-> 1, lines |-> 1]]

ContendedRequests ==
  {[op |-> "StartRun", run |-> r1, event |-> e1, start |-> Begun(2)],
   [op |-> "CloseRun", run |-> r1, event |-> e2, close |-> Ended],
   [op |-> "ProjectReceipt", run |-> r1]}

Closes ==
  [endedAt : {0, 1}, outcome : Outcomes, exitCode : {NULL, -1, 0, 1},
   signal : {NULL, s1}, timedOut : {NULL, TRUE, FALSE},
   output : {[bytes |-> 1, lines |-> 1], [bytes |-> 1, lines |-> 0],
             [bytes |-> 0, lines |-> 1], [bytes |-> -1, lines |-> 0],
             [bytes |-> 0, lines |-> -1]}]

ClosingRequests == [op : {"CloseRun"}, run : {r2}, event : {e2}, close : Closes]

MCRequests == ContendedRequests \cup ClosingRequests

OneOpen ==
  [runs |-> r2 :> OpenRun(Begun(1), e1, 1), events |-> e1 :> StartEvent(r2, Begun(1), 1),
   findings |-> EmptyTable, closures |-> EmptyTable]

MCLedgers == {EmptyLedger, OneOpen}

Suited ==
  /\ \A p \in Proc :
       req[p] # NULL => req[p].run = IF r2 \in DOMAIN db.runs THEN r2 ELSE r1
  /\ IF r2 \in DOMAIN db.runs THEN calls[p1] <= 1 /\ calls[p2] = 0
     ELSE \A p \in Proc : now[p] \in {2, NULL}

CallsSpec ==
  /\ Init
  /\ [][Next /\ Suited']_vars
  /\ \A p \in Proc : WF_vars(Advance(p))
=============================================================================
