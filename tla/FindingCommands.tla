-------------------------- MODULE FindingCommands --------------------------
(***************************************************************************)
(* `motus finding add' and `motus finding close' as their users live with  *)
(* them (internal/cli, runFindingAdd and runFindingClose): one invocation  *)
(* reads its input, takes a fresh identifier, opens the ledger, writes one *)
(* record and confirms it.  It may fail at each of these, lose its         *)
(* confirmation, be signalled or die.  Its user follows docs/usage.md,     *)
(* "A write's confirmation is missing": look before you retry.             *)
(*                                                                         *)
(* The write is LedgerStore's AddFinding or CloseFinding, one step here.   *)
(* The state directory is the same for all, as with --state-dir.           *)
(***************************************************************************)
EXTENDS Naturals, FiniteSets

CONSTANTS
  Adders,     \* users who want to record a finding each, of one run
  Closers,    \* users who want one finding closed, the same for all
  MaxTries,   \* bound: invocations of each user
  MaxFaults   \* bound: failures, signals and deaths altogether

Users == Adders \cup Closers

ASSUME CommandConstants ==
  /\ Adders \cap Closers = {} /\ IsFiniteSet(Users)
  /\ "nobody" \notin Users
  /\ MaxTries \in Nat /\ MaxFaults \in Nat

VARIABLES
  run,       \* the run the findings are about
  findings,  \* findings[u]: invocations of u whose finding is recorded
  closure,   \* the invocation that closed the common finding, if one has
  input,     \* what the user supplies
  tries,     \* the number of the user's invocation
  phase,     \* how far it is
  signaled,  \* it has had its first signal
  status,    \* its exit status, or how it died
  user,      \* what the user is about to do
  faults

vars == <<run, findings, closure, input, tries, phase, signaled, status, user, faults>>

Nobody == <<"nobody", 0>>
Interrupt == 130    \* 128 + SIGINT
NoStatus == 255
Died == 256

This(u) == <<u, tries[u]>>

Init ==
  /\ run \in {"open", "closed"}
  /\ findings = [u \in Adders |-> {}]
  /\ closure = Nobody
  /\ input \in [Users -> {"good", "unreadable", "invalid"}]
  /\ tries = [u \in Users |-> 0]
  /\ phase = [u \in Users |-> "none"]
  /\ signaled = [u \in Users |-> FALSE]
  /\ status = [u \in Users |-> NoStatus]
  /\ user = [u \in Users |-> "try"]
  /\ faults = 0

Recorded(u) == IF u \in Adders THEN tries[u] \in findings[u] ELSE closure = This(u)

-----------------------------------------------------------------------------
(* One invocation.                                                         *)

ledger == <<run, findings, closure>>
Calm == UNCHANGED faults
Fault == faults < MaxFaults /\ faults' = faults + 1

Continue(u, next) ==
  /\ phase' = [phase EXCEPT ![u] = next]
  /\ UNCHANGED <<input, tries, signaled, status, user>>

\* processSignalExitCode overrides whatever the command returns.
Exit(u, code) ==
  /\ phase' = [phase EXCEPT ![u] = "none"]
  /\ status' = [status EXCEPT ![u] = IF signaled[u] THEN Interrupt ELSE code]
  /\ user' = [user EXCEPT ![u] = "read status"]
  /\ UNCHANGED <<input, tries, signaled>>

Invoke(u) ==
  /\ user[u] = "try" /\ tries[u] < MaxTries
  /\ tries' = [tries EXCEPT ![u] = @ + 1]
  /\ phase' = [phase EXCEPT ![u] = "read"]
  /\ signaled' = [signaled EXCEPT ![u] = FALSE]
  /\ status' = [status EXCEPT ![u] = NoStatus]
  /\ user' = [user EXCEPT ![u] = "wait"]
  /\ UNCHANGED <<ledger, input>> /\ Calm

\* Too long, of no known format, or not the JSON asked for.
readFindingInput(u) ==
  /\ phase[u] = "read"
  /\ \/ input[u] # "unreadable" /\ Continue(u, "name") /\ Calm
     \/ input[u] = "unreadable" /\ Exit(u, 2) /\ Calm
     \/ Fault /\ Exit(u, 1)
  /\ UNCHANGED ledger

NewID(u) ==
  /\ phase[u] = "name"
  /\ \/ Continue(u, "open") /\ Calm
     \/ Fault /\ Exit(u, 1)
  /\ UNCHANGED ledger

OpenLedger(u) ==
  /\ phase[u] = "open"
  /\ \/ ~ signaled[u] /\ Continue(u, "write") /\ Calm
     \/ signaled[u] /\ Exit(u, 1) /\ Calm
     \/ Fault /\ Exit(u, 1)
  /\ UNCHANGED ledger

\* The request itself is refused, before the transaction.  (That the resolving
\* run is no success is found inside it, after a closure: LedgerStore.)
Refused(u) ==
  /\ input[u] = "invalid"
  /\ Exit(u, 2) /\ UNCHANGED <<findings, closure>> /\ Calm

WriteFails(u) ==
  /\ input[u] = "good"
  /\ \/ signaled[u] /\ Calm
     \/ Fault
  /\ Exit(u, 1) /\ UNCHANGED <<findings, closure>>

Add(u) ==
  /\ findings' = [findings EXCEPT ![u] = @ \cup {tries[u]}]
  /\ UNCHANGED closure

\* Mutant: the content is validated after the INSERT, outside of the transaction.
AddFindingValidatedLate(u) ==
  /\ phase[u] = "write" /\ u \in Adders
  /\ \/ run = "closed" /\ input[u] = "invalid" /\ Add(u) /\ Exit(u, 2) /\ Calm
     \/ run = "closed" /\ input[u] = "good" /\ Add(u) /\ Continue(u, "confirm") /\ Calm
     \/ WriteFails(u)
  /\ UNCHANGED run

\* Mutant: an error of the transaction is dropped.
AddFindingUnheard(u) ==
  /\ phase[u] = "write" /\ u \in Adders
  /\ \/ Refused(u)
     \/ input[u] = "good" /\ run = "closed" /\ Add(u) /\ Continue(u, "confirm") /\ Calm
     \/ Fault /\ Continue(u, "confirm") /\ UNCHANGED <<findings, closure>>
  /\ UNCHANGED run

\* The identifier is new, so that the request cannot be a repetition.
AddFinding(u) ==
  /\ phase[u] = "write" /\ u \in Adders
  /\ \/ Refused(u) \/ WriteFails(u)
     \/ /\ input[u] = "good" /\ run = "closed"
        /\ Add(u) /\ Continue(u, "confirm") /\ Calm
     \/ /\ input[u] = "good" /\ run = "open"
        /\ Exit(u, 1) /\ UNCHANGED <<findings, closure>> /\ Calm
  /\ UNCHANGED run

CloseFinding(u) ==
  /\ phase[u] = "write" /\ u \in Closers
  /\ \/ Refused(u) \/ WriteFails(u)
     \/ /\ input[u] = "good" /\ closure = Nobody
        /\ closure' = This(u) /\ UNCHANGED findings
        /\ Continue(u, "confirm") /\ Calm
     \/ /\ input[u] = "good" /\ closure # Nobody
        /\ Exit(u, 1) /\ UNCHANGED <<findings, closure>> /\ Calm
  /\ UNCHANGED run

\* writeJSON, writeText
Confirm(u) ==
  /\ phase[u] = "confirm"
  /\ \/ Exit(u, 0) /\ Calm
     \/ Fault /\ Exit(u, 1)
  /\ UNCHANGED ledger

Command(u) ==
  \/ readFindingInput(u) \/ NewID(u) \/ OpenLedger(u)
  \/ AddFinding(u) \/ CloseFinding(u) \/ Confirm(u)

Signal(u) ==
  /\ phase[u] # "none" /\ ~ signaled[u] /\ Fault
  /\ signaled' = [signaled EXCEPT ![u] = TRUE]
  /\ UNCHANGED <<ledger, input, tries, phase, status, user>>

\* A second signal, or any other death.
Dies(u) ==
  /\ phase[u] # "none" /\ Fault
  /\ phase' = [phase EXCEPT ![u] = "none"]
  /\ status' = [status EXCEPT ![u] = Died]
  /\ user' = [user EXCEPT ![u] = "read status"]
  /\ UNCHANGED <<ledger, input, tries, signaled>>

-----------------------------------------------------------------------------
(* The user, and everybody else.                                           *)

\* "An exit error alone does not prove that nothing was written."
ReadStatus(u) ==
  /\ user[u] = "read status"
  /\ user' = [user EXCEPT ![u] = CASE status[u] = 0 -> "done"
                                   [] status[u] = 2 -> "gave up"
                                   [] OTHER         -> "look"]
  /\ UNCHANGED <<ledger, input, tries, phase, signaled, status, faults>>

\* Mutant: the listing is of another ledger.
LookElsewhere(u) ==
  /\ user[u] = "look"
  /\ user' = [user EXCEPT ![u] = "try"]
  /\ UNCHANGED <<ledger, input, tries, phase, signaled, status, faults>>

\* finding list, finding show
Look(u) ==
  /\ user[u] = "look"
  /\ LET there == IF u \in Adders THEN findings[u] # {} ELSE closure # Nobody
     IN user' = [user EXCEPT ![u] = IF there THEN "done" ELSE "try"]
  /\ UNCHANGED <<ledger, input, tries, phase, signaled, status, faults>>

CloseRun ==
  /\ run = "open"
  /\ run' = "closed"
  /\ UNCHANGED <<findings, closure, input, tries, phase, signaled, status, user, faults>>

User(u) == Invoke(u) \/ ReadStatus(u) \/ Look(u)

Next ==
  \/ CloseRun
  \/ \E u \in Users : User(u) \/ Command(u) \/ Signal(u) \/ Dies(u)

Spec == Init /\ [][Next]_vars

\* Commands run on, and users do not lose interest.
FairSpec == Spec /\ \A u \in Users : WF_vars(User(u)) /\ WF_vars(Command(u))

-----------------------------------------------------------------------------
(* Properties.                                                             *)

\* What an exit status says is so: 0 of a record in the ledger, made by this
\* very invocation, and 2 of a request that left nothing behind.
StatusIsTrue ==
  \A u \in Users :
    /\ status[u] = 0 => Recorded(u)
    /\ status[u] = 2 => ~ Recorded(u)

\* "Search and inspect the same ledger before retrying ... Repeating add
\* creates a new finding" (docs/usage.md:169-177): a user who looks first
\* never records a finding twice, whatever failed in between.
RecordedOnce == \A u \in Adders : Cardinality(findings[u]) <= 1

\* Looking and retrying gets there: a good finding about a closed run is
\* recorded in the end, and a finding somebody means to close is closed.
IntentsAreRecorded ==
  /\ \A u \in Adders :
       (tries[u] = 0 /\ input[u] = "good" /\ run = "closed") ~> findings[u] # {}
  /\ \A u \in Closers : (tries[u] = 0 /\ input[u] = "good") ~> closure # Nobody
=============================================================================
