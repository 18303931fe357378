----------------------- MODULE FindingCommandsProofs -----------------------
(***************************************************************************)
(* What FindingCommands checks of a few users, proved of any number of     *)
(* them, of any number of tries, failures, signals and deaths.             *)
(*                                                                         *)
(* The inductive invariant says of each user how far the latest invocation *)
(* has got with its record: before the write nothing of it is in the       *)
(* ledger, at the confirmation it is, and a user about to try has found    *)
(* nothing there.                                                          *)
(***************************************************************************)
EXTENDS FindingCommands, FiniteSetTheorems, TLAPS

Early == {"read", "name", "open", "write"}

Types ==
  /\ findings \in [Adders -> SUBSET Nat]
  /\ closure \in {Nobody} \cup (Closers \X Nat)
  /\ tries \in [Users -> Nat]
  /\ phase \in [Users -> Early \cup {"none", "confirm"}]
  /\ status \in [Users -> Nat]
  /\ user \in [Users -> {"try", "wait", "read status", "look", "done", "gave up"}]

\* How far the invocation of u has got with its record.
Progress(u) ==
  /\ phase[u] # "none" <=> user[u] = "wait"
  /\ phase[u] # "none" => status[u] = NoStatus
  /\ phase[u] \in Early => ~ Recorded(u)
  /\ phase[u] = "confirm" => Recorded(u)
  /\ status[u] = 0 => Recorded(u)
  /\ status[u] = 2 => ~ Recorded(u)

\* What the ledger holds of all the invocations of u.
History(u) ==
  /\ u \in Adders => findings[u] \subseteq {tries[u]}
  /\ u \in Adders /\ (user[u] = "try" \/ phase[u] \in Early) => findings[u] = {}
  /\ closure[1] = u => closure[2] <= tries[u]

IInv == Types /\ \A u \in Users : Progress(u) /\ History(u)

\* A step of u leaves v where it was.
Same(v) ==
  /\ phase'[v] = phase[v] /\ status'[v] = status[v]
  /\ user'[v] = user[v] /\ tries'[v] = tries[v]
  /\ v \in Adders => findings'[v] = findings[v]

\* The common finding is closed once, and by the one who takes the step.
ClosedBy(u) == closure' = closure \/ (closure = Nobody /\ closure' = This(u))

-----------------------------------------------------------------------------
\* The exit statuses are told apart.
LEMMA Statuses ==
  /\ Interrupt \in Nat /\ NoStatus \in Nat /\ Died \in Nat
  /\ Interrupt \notin {0, 2} /\ NoStatus \notin {0, 2} /\ Died \notin {0, 2}
BY DEF Interrupt, NoStatus, Died

\* The step of one user cannot disturb what the invariant says of another.
LEMMA OthersUndisturbed ==
  ASSUME IInv, NEW u \in Users, NEW v \in Users \ {u}, Same(v), ClosedBy(u)
  PROVE  Progress(v)' /\ History(v)'
<1> USE DEF IInv, Same, ClosedBy
<1>0. "nobody" \notin Users  BY CommandConstants
<1>1. Recorded(v)' <=> Recorded(v)
  <2>1. CASE v \in Adders  BY <2>1 DEF Recorded
  <2>2. CASE v \notin Adders  BY <2>2, <1>0 DEF Recorded, This, Nobody
  <2> QED  BY <2>1, <2>2
<1>2. closure'[1] = v => closure'[2] <= tries'[v]
  BY <1>0 DEF History, This, Nobody
<1>3. Progress(v)'
  BY <1>1 DEF Progress
<1>4. History(v)'
  BY <1>2 DEF History
<1> QED  BY <1>3, <1>4

\* One step of one user, put together.
LEMMA OneActs ==
  ASSUME IInv, NEW u \in Users, Types', Progress(u)', History(u)',
         \A v \in Users \ {u} : Same(v), ClosedBy(u)
  PROVE  IInv'
<1>1. ASSUME NEW v \in Users PROVE Progress(v)' /\ History(v)'
  <2>1. CASE v = u  BY <2>1
  <2>2. CASE v # u  BY <2>2, OthersUndisturbed
  <2> QED  BY <2>1, <2>2
<1> QED  BY <1>1 DEF IInv

\* An invocation that ends says 0 only of what is recorded, and 2 only of
\* what is not (processSignalExitCode included).
LEMMA ExitKeeps ==
  ASSUME IInv, NEW u \in Users, NEW code \in {0, 1, 2},
         UNCHANGED <<findings, closure>>, phase[u] # "none", Exit(u, code),
         code = 0 => Recorded(u), code = 2 => ~ Recorded(u)
  PROVE  IInv'
<1>1. Types /\ Progress(u) /\ History(u)  BY DEF IInv
<1>2. PICK told \in {Interrupt, code} : status' = [status EXCEPT ![u] = told]
  <2>1. CASE signaled[u]  BY <2>1 DEF Exit
  <2>2. CASE ~ signaled[u]  BY <2>2 DEF Exit
  <2> QED  BY <2>1, <2>2
<1>3. /\ phase' = [phase EXCEPT ![u] = "none"]
      /\ user' = [user EXCEPT ![u] = "read status"]
      /\ UNCHANGED <<tries, findings, closure>>
  BY DEF Exit
<1>4. status'[u] = told /\ phase'[u] = "none" /\ user'[u] = "read status"
  BY <1>1, <1>2, <1>3 DEF Types
<1>5. Types'
  <2>1. told \in Nat  BY Statuses
  <2> QED  BY <1>1, <1>2, <1>3, <2>1 DEF Types, Early
<1>6. Recorded(u)' <=> Recorded(u)  BY <1>3 DEF Recorded, This
<1>7. Progress(u)'
  <2>2. told = 0 => Recorded(u)  BY Statuses
  <2>3. told = 2 => ~ Recorded(u)  BY Statuses
  <2> QED  BY <1>4, <1>6, <2>2, <2>3 DEF Progress, Early
<1>8. History(u)'  BY <1>1, <1>3, <1>4 DEF History, Early
<1>9. \A v \in Users \ {u} : Same(v)  BY <1>1, <1>2, <1>3 DEF Types, Same
<1> QED  BY <1>3, <1>5, <1>7, <1>8, <1>9, OneActs DEF ClosedBy

\* An invocation that goes on before its write has recorded nothing yet.
LEMMA ContinueKeeps ==
  ASSUME IInv, NEW u \in Users, NEW next \in Early,
         UNCHANGED <<findings, closure>>, phase[u] \in Early, Continue(u, next)
  PROVE  IInv'
<1> USE DEF IInv, Types, Early
<1>1. phase'[u] = next /\ UNCHANGED <<status, user, tries>>  BY DEF Continue
<1>2. Types'  BY DEF Continue
<1>3. Recorded(u)' <=> Recorded(u)  BY <1>1 DEF Recorded, This
<1>4. Progress(u)'  BY <1>1, <1>3 DEF Progress
<1>5. History(u)'  BY <1>1 DEF History
<1>6. \A v \in Users \ {u} : Same(v)  BY DEF Continue, Same
<1> QED  BY <1>2, <1>4, <1>5, <1>6, OneActs DEF ClosedBy

-----------------------------------------------------------------------------
\* The invariant holds at first.
LEMMA InitHolds == Init => IInv
<1> SUFFICES ASSUME Init PROVE IInv  OBVIOUS
<1> USE DEF Init
<1>1. Types  BY Statuses DEF Types
<1>2. ASSUME NEW u \in Users PROVE Progress(u) /\ History(u)
  <2>1. closure[1] # u  BY CommandConstants DEF Nobody
  <2>2. Progress(u)  BY Statuses DEF Progress, Early
  <2>3. History(u)  BY <2>1 DEF History
  <2> QED  BY <2>2, <2>3
<1> QED  BY <1>1, <1>2 DEF IInv

\* A new invocation has recorded nothing, whatever an earlier one of the
\* same user did.
LEMMA InvokeKeeps == ASSUME IInv, NEW u \in Users, Invoke(u) PROVE IInv'
<1>1. Types /\ Progress(u) /\ History(u)  BY DEF IInv
<1>2. /\ tries' = [tries EXCEPT ![u] = tries[u] + 1]
      /\ phase' = [phase EXCEPT ![u] = "read"]
      /\ status' = [status EXCEPT ![u] = NoStatus]
      /\ user' = [user EXCEPT ![u] = "wait"]
      /\ UNCHANGED <<findings, closure>>
      /\ user[u] = "try"
  BY DEF Invoke, ledger
<1>3. /\ tries'[u] = tries[u] + 1 /\ phase'[u] = "read"
      /\ status'[u] = NoStatus /\ user'[u] = "wait"
  BY <1>1, <1>2 DEF Types
<1>4. Types'
  <2>1. tries' \in [Users -> Nat]
    <3>1. tries[u] \in Nat  BY <1>1 DEF Types
    <3>2. tries[u] + 1 \in Nat  BY <3>1
    <3> QED  BY <1>1, <1>2, <3>2 DEF Types
  <2>2. status' \in [Users -> Nat]  BY <1>1, <1>2, Statuses DEF Types
  <2>3. phase' \in [Users -> Early \cup {"none", "confirm"}]
    BY <1>1, <1>2 DEF Types, Early
  <2>4. user' \in [Users -> {"try", "wait", "read status", "look", "done", "gave up"}]
    BY <1>1, <1>2 DEF Types
  <2> QED  BY <1>1, <1>2, <2>1, <2>2, <2>3, <2>4 DEF Types
<1>5. tries[u] \in Nat  BY <1>1 DEF Types
<1>6. closure[1] = u => closure[2] \in Nat /\ closure[2] <= tries[u]
  <2>1. CASE closure = Nobody  BY <2>1, CommandConstants DEF Nobody
  <2>2. CASE closure \in Closers \X Nat  BY <1>1, <2>2 DEF History
  <2> QED  BY <1>1, <2>1, <2>2 DEF Types
<1>7. ~ Recorded(u)'
  <2>1. CASE u \in Adders
    BY <1>1, <1>2, <2>1 DEF History, Recorded
  <2>2. CASE u \notin Adders
    <3>1. closure # <<u, tries[u] + 1>>  BY <1>5, <1>6
    <3> QED  BY <1>2, <1>3, <2>2, <3>1 DEF Recorded, This
  <2> QED  BY <2>1, <2>2
<1>8. Progress(u)'
  <2>1. status'[u] \notin {0, 2}  BY <1>3, Statuses
  <2> QED  BY <1>3, <1>7, <2>1 DEF Progress
<1>9. History(u)'
  <2>1. closure[1] = u => closure[2] <= tries[u] + 1  BY <1>5, <1>6
  <2>2. u \in Adders => findings[u] = {}  BY <1>1, <1>2 DEF History
  <2> QED  BY <1>2, <1>3, <2>1, <2>2 DEF History
<1>10. \A v \in Users \ {u} : Same(v)  BY <1>1, <1>2 DEF Types, Same
<1> QED  BY <1>2, <1>4, <1>8, <1>9, <1>10, OneActs DEF ClosedBy

\* The write records this invocation, and the confirmation is next.
LEMMA AddKeeps ==
  ASSUME IInv, NEW u \in Adders, phase[u] = "write", Add(u), Continue(u, "confirm")
  PROVE  IInv'
<1>0. u \in Users  BY DEF Users
<1>1. Types /\ Progress(u) /\ History(u)  BY <1>0 DEF IInv
<1>2. /\ findings' = [findings EXCEPT ![u] = findings[u] \cup {tries[u]}]
      /\ phase' = [phase EXCEPT ![u] = "confirm"]
      /\ UNCHANGED <<closure, tries, status, user>>
  BY DEF Add, Continue
<1>3. findings'[u] = findings[u] \cup {tries[u]} /\ phase'[u] = "confirm"
  BY <1>0, <1>1, <1>2 DEF Types
<1>4. Types'
  <2>1. tries[u] \in Nat  BY <1>0, <1>1 DEF Types
  <2>2. findings' \in [Adders -> SUBSET Nat]  BY <1>1, <1>2, <2>1 DEF Types
  <2>3. phase' \in [Users -> Early \cup {"none", "confirm"}]  BY <1>1, <1>2 DEF Types
  <2> QED  BY <1>1, <1>2, <2>2, <2>3 DEF Types
<1>5. Recorded(u)'  BY <1>2, <1>3 DEF Recorded
<1>6. Progress(u)'
  BY <1>1, <1>2, <1>3, <1>5, Statuses DEF Progress, Early
<1>7. History(u)'
  <2>1. findings[u] = {} /\ user[u] = "wait"  BY <1>1 DEF History, Progress, Early
  <2> QED  BY <1>1, <1>2, <1>3, <2>1 DEF History, Early
<1>8. \A v \in Users \ {u} : Same(v)  BY <1>1, <1>2 DEF Types, Same
<1> QED  BY <1>0, <1>2, <1>4, <1>6, <1>7, <1>8, OneActs DEF ClosedBy

\* The one close that inserts keeps it.
LEMMA CloseKeeps ==
  ASSUME IInv, NEW u \in Closers, phase[u] = "write", closure = Nobody,
         closure' = This(u), UNCHANGED findings, Continue(u, "confirm")
  PROVE  IInv'
<1>0. u \in Users /\ u \notin Adders  BY CommandConstants DEF Users
<1>1. Types /\ Progress(u) /\ History(u)  BY <1>0 DEF IInv
<1>2. /\ phase' = [phase EXCEPT ![u] = "confirm"]
      /\ UNCHANGED <<findings, tries, status, user>>
  BY DEF Continue
<1>3. phase'[u] = "confirm" /\ tries[u] \in Nat  BY <1>0, <1>1, <1>2 DEF Types
<1>4. Types'
  <2>1. closure' \in Closers \X Nat  BY <1>3 DEF This
  <2>2. phase' \in [Users -> Early \cup {"none", "confirm"}]  BY <1>1, <1>2 DEF Types
  <2> QED  BY <1>1, <1>2, <2>1, <2>2 DEF Types
<1>5. Recorded(u)'  BY <1>0, <1>2 DEF Recorded, This
<1>6. Progress(u)'
  BY <1>1, <1>2, <1>3, <1>5, Statuses DEF Progress, Early
<1>7. History(u)'  BY <1>0, <1>2, <1>3 DEF History, This
<1>8. \A v \in Users \ {u} : Same(v)  BY <1>1, <1>2 DEF Types, Same
<1> QED  BY <1>0, <1>4, <1>6, <1>7, <1>8, OneActs DEF ClosedBy

-----------------------------------------------------------------------------
\* A step of a command keeps it.
LEMMA CommandKeeps ==
  ASSUME IInv, NEW u \in Users, Command(u)
  PROVE  IInv'
<1>1. Types /\ Progress(u)  BY DEF IInv
<1>2. phase[u] \in Early => ~ Recorded(u)  BY <1>1 DEF Progress
<1>3. CASE readFindingInput(u)
  <2>1. phase[u] = "read" /\ UNCHANGED <<findings, closure>>
        /\ (Continue(u, "name") \/ Exit(u, 2) \/ Exit(u, 1))
    BY <1>3 DEF readFindingInput, ledger
  <2> QED  BY <1>2, <2>1, ExitKeeps, ContinueKeeps DEF Early
<1>4. CASE NewID(u)
  <2>1. phase[u] = "name" /\ UNCHANGED <<findings, closure>>
        /\ (Continue(u, "open") \/ Exit(u, 1))
    BY <1>4 DEF NewID, ledger
  <2> QED  BY <1>2, <2>1, ExitKeeps, ContinueKeeps DEF Early
<1>5. CASE OpenLedger(u)
  <2>1. phase[u] = "open" /\ UNCHANGED <<findings, closure>>
        /\ (Continue(u, "write") \/ Exit(u, 1))
    BY <1>5 DEF OpenLedger, ledger
  <2> QED  BY <1>2, <2>1, ExitKeeps, ContinueKeeps DEF Early
<1>6. CASE AddFinding(u)
  <2>1. u \in Adders /\ phase[u] = "write"  BY <1>6 DEF AddFinding
  <2>2. \/ UNCHANGED <<findings, closure>> /\ (Exit(u, 1) \/ Exit(u, 2))
        \/ Add(u) /\ Continue(u, "confirm")
    BY <1>6 DEF AddFinding, Refused, WriteFails
  <2> QED  BY <1>2, <2>1, <2>2, ExitKeeps, AddKeeps DEF Early
<1>7. CASE CloseFinding(u)
  <2>1. u \in Closers /\ phase[u] = "write"  BY <1>7 DEF CloseFinding
  <2>2. \/ UNCHANGED <<findings, closure>> /\ (Exit(u, 1) \/ Exit(u, 2))
        \/ /\ closure = Nobody /\ closure' = This(u) /\ UNCHANGED findings
           /\ Continue(u, "confirm")
    BY <1>7 DEF CloseFinding, Refused, WriteFails
  <2> QED  BY <1>2, <2>1, <2>2, ExitKeeps, CloseKeeps DEF Early
<1>8. CASE Confirm(u)
  <2>1. phase[u] = "confirm" /\ UNCHANGED <<findings, closure>>
        /\ (Exit(u, 0) \/ Exit(u, 1))
    BY <1>8 DEF Confirm, ledger
  <2>2. Recorded(u)  BY <1>1, <2>1 DEF Progress
  <2> QED  BY <2>1, <2>2, ExitKeeps
<1> QED  BY <1>3, <1>4, <1>5, <1>6, <1>7, <1>8 DEF Command

\* Steps that touch neither the ledger nor the number of the invocation, and
\* after which it runs only if it did before.
LEMMA AsideKeeps ==
  ASSUME IInv, NEW u \in Users, UNCHANGED <<findings, closure, tries>>,
         NEW at \in {"none", phase[u]}, phase' = [phase EXCEPT ![u] = at],
         NEW told \in {status[u], Died}, status' = [status EXCEPT ![u] = told],
         NEW next \in {user[u], "read status", "look", "done", "gave up", "try"},
         user' = [user EXCEPT ![u] = next],
         at # "none" <=> next = "wait",
         at # "none" => told = status[u],
         u \in Adders /\ next = "try" => findings[u] = {}
  PROVE  IInv'
<1>1. Types /\ Progress(u) /\ History(u)  BY DEF IInv
<1>2. phase'[u] = at /\ status'[u] = told /\ user'[u] = next  BY <1>1 DEF Types
<1>3. Types'
  <2>1. status' \in [Users -> Nat]
    <3>1. status[u] \in Nat /\ Died \in Nat  BY <1>1, Statuses DEF Types
    <3>2. told \in Nat  BY <3>1
    <3> QED  BY <1>1, <3>2 DEF Types
  <2>2. phase' \in [Users -> Early \cup {"none", "confirm"}]  BY <1>1 DEF Types
  <2>3. user' \in [Users -> {"try", "wait", "read status", "look", "done", "gave up"}]
    BY <1>1 DEF Types
  <2> QED  BY <1>1, <2>1, <2>2, <2>3 DEF Types
<1>4. Recorded(u)' <=> Recorded(u)  BY DEF Recorded, This
<1>5. Progress(u)'
  <2>1. told \in {0, 2} => told = status[u]
    BY Statuses
  <2>2. at \in Early \cup {"confirm"} => at = phase[u]  BY DEF Early
  <2>3. at # "none" => at = phase[u]  OBVIOUS
  <2> QED  BY <1>1, <1>2, <1>4, <2>1, <2>2, <2>3 DEF Progress
<1>6. History(u)'
  <2>1. at \in Early => at = phase[u]  BY DEF Early
  <2> QED  BY <1>1, <1>2, <2>1 DEF History
<1>7. \A v \in Users \ {u} : Same(v)  BY <1>1 DEF Types, Same
<1> QED  BY <1>3, <1>5, <1>6, <1>7, OneActs DEF ClosedBy

\* So does everything else that happens to a user.
LEMMA AsideSteps ==
  ASSUME IInv, NEW u \in Users, Signal(u) \/ Dies(u) \/ ReadStatus(u) \/ Look(u)
  PROVE  IInv'
<1>1. Types /\ Progress(u)  BY DEF IInv
<1>2. /\ phase = [phase EXCEPT ![u] = phase[u]]
      /\ status = [status EXCEPT ![u] = status[u]]
      /\ user = [user EXCEPT ![u] = user[u]]
  BY <1>1 DEF Types
<1>3. CASE Signal(u)
  <2>1. UNCHANGED <<findings, closure, tries, phase, status, user>>
    BY <1>3 DEF Signal, ledger
  <2>2. phase[u] # "none" <=> user[u] = "wait"  BY <1>1 DEF Progress
  <2>3. phase[u] # "none"  BY <1>3 DEF Signal
  <2> QED  BY <1>2, <2>1, <2>2, <2>3, AsideKeeps
<1>4. CASE Dies(u)
  <2>1. /\ UNCHANGED <<findings, closure, tries>>
        /\ phase' = [phase EXCEPT ![u] = "none"]
        /\ status' = [status EXCEPT ![u] = Died]
        /\ user' = [user EXCEPT ![u] = "read status"]
    BY <1>4 DEF Dies, ledger
  <2> QED  BY <2>1, AsideKeeps
<1>5. CASE ReadStatus(u) \/ Look(u)
  <2>1. PICK next \in {"done", "gave up", "look", "try"} :
          /\ user' = [user EXCEPT ![u] = next]
          /\ u \in Adders /\ next = "try" => findings[u] = {}
    <3>1. CASE ReadStatus(u)
      <4>1. CASE status[u] = 0
        <5>1. (CASE status[u] = 0 -> "done"
                 [] status[u] = 2 -> "gave up"
                 [] OTHER         -> "look") = "done"
          BY <4>1
        <5>2. user' = [user EXCEPT ![u] = "done"]  BY <3>1, <5>1 DEF ReadStatus
        <5> QED  BY <5>2
      <4>2. CASE status[u] = 2
        <5>1. (CASE status[u] = 0 -> "done"
                 [] status[u] = 2 -> "gave up"
                 [] OTHER         -> "look") = "gave up"
          BY <4>2
        <5>2. user' = [user EXCEPT ![u] = "gave up"]  BY <3>1, <5>1 DEF ReadStatus
        <5> QED  BY <5>2
      <4>3. CASE status[u] \notin {0, 2}
        <5>1. user' = [user EXCEPT ![u] = "look"]  BY <3>1, <4>3 DEF ReadStatus
        <5> QED  BY <5>1
      <4> QED  BY <4>1, <4>2, <4>3
    <3>2. CASE Look(u)
      <4>1. CASE u \in Adders /\ findings[u] = {}  BY <3>2, <4>1 DEF Look
      <4>2. CASE u \in Adders /\ findings[u] # {}  BY <3>2, <4>2 DEF Look
      <4>3. CASE u \notin Adders  BY <3>2, <4>3 DEF Look
      <4> QED  BY <4>1, <4>2, <4>3
    <3> QED  BY <1>5, <3>1, <3>2
  <2>2. user[u] # "wait" /\ UNCHANGED <<findings, closure, tries, phase, status>>
    BY <1>5 DEF ReadStatus, Look, ledger
  <2>3. phase[u] = "none"  BY <1>1, <2>2 DEF Progress
  <2> QED  BY <1>2, <2>1, <2>2, <2>3, AsideKeeps
<1> QED  BY <1>3, <1>4, <1>5

-----------------------------------------------------------------------------
\* Every step keeps the invariant.
THEOREM InvariantKept == IInv /\ [Next]_vars => IInv'
<1> SUFFICES ASSUME IInv, [Next]_vars PROVE IInv'  OBVIOUS
<1>1. CASE CloseRun
  <2>1. UNCHANGED <<findings, closure, tries, phase, status, user>>
    BY <1>1 DEF CloseRun
  <2> QED  BY <2>1 DEF IInv, Types, Progress, History, Recorded, This
<1>2. CASE UNCHANGED vars
  BY <1>2 DEF vars, IInv, Types, Progress, History, Recorded, This
<1>3. ASSUME NEW u \in Users, User(u) \/ Command(u) \/ Signal(u) \/ Dies(u)
      PROVE  IInv'
  BY <1>3, InvokeKeeps, CommandKeeps, AsideSteps DEF User
<1> QED  BY <1>1, <1>2, <1>3 DEF Next

\* In every reachable state, of any users, tries and faults.
THEOREM InvariantHolds == Spec => []IInv
<1>1. Init => IInv  BY InitHolds
<1>2. IInv /\ [Next]_vars => IInv'  BY InvariantKept
<1> QED  BY <1>1, <1>2, PTL DEF Spec

\* An exit status of 0 is of a record in the ledger, made by that very
\* invocation, and 2 of a request that left nothing behind.
THEOREM StatusNeverLies == Spec => []StatusIsTrue
<1>1. IInv => StatusIsTrue  BY DEF IInv, Progress, StatusIsTrue
<1> QED  BY <1>1, InvariantHolds, PTL

\* A user who looks before every retry never records a finding twice,
\* however many invocations fail, and wherever.
THEOREM LookingPreventsDoubles == Spec => []RecordedOnce
<1>1. ASSUME IInv, NEW u \in Adders PROVE Cardinality(findings[u]) <= 1
  <2>1. findings[u] \subseteq {tries[u]}  BY <1>1 DEF IInv, History, Users
  <2>2. CASE findings[u] = {}  BY <2>2, FS_EmptySet
  <2>3. CASE findings[u] = {tries[u]}
    <3>1. Cardinality({tries[u]}) = 1  BY FS_Singleton
    <3> QED  BY <2>3, <3>1
  <2> QED  BY <2>1, <2>2, <2>3
<1>2. IInv => RecordedOnce  BY <1>1 DEF RecordedOnce
<1> QED  BY <1>2, InvariantHolds, PTL
=============================================================================
