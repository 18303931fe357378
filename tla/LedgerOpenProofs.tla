-------------------------- MODULE LedgerOpenProofs --------------------------
(***************************************************************************)
(* Opening keeps what a ledger holds, for any number of processes and any  *)
(* files that killed processes may have left.                              *)
(*                                                                         *)
(* OpenInv says, for the files, that a journal belongs to the transaction  *)
(* whose pages are in the file and frames to the file they lie beside, so  *)
(* that what a reader finds (Committed) never is a mixture; and, for each  *)
(* process, what it still may rely on of what it has seen.  A transaction  *)
(* about to commit must be one that LedgerFormat allows (Leads).  The      *)
(* lemmas ...Keeps prove the shapes a step can have, ...Step and ...Steps  *)
(* the actions.  AlienInv does the same for a database that is not a Motus *)
(* ledger.  CopyInv is about copies made while others write: a ledger only *)
(* grows (Grows), so that a file found unchanged held the same in between  *)
(* and the journal or the WAL copied meanwhile belongs to it.              *)
(***************************************************************************)
EXTENDS LedgerOpen, TLAPS

-----------------------------------------------------------------------------
(* The inductive invariant.                                                *)

\* Where a process is before it has a connection to the ledger.
Outside ==
  {"idle", "path", "journal", "header", "recheck", "copyfile", "copyside",
   "verifyfile", "verifyside", "mode", "source", "connect", "wheader"}

\* Only a writable open validates copies, and what it validates it opens in
\* whatever mode it is.
Copying == {"recheck", "copyfile", "copyside", "verifyfile", "verifyside", "source"}

\* The places a process can be at, and what a call can answer.
Label ==
  Outside \cup
  {"version", "structure", "identity", "ensure", "checkpoint", "switch", "leave",
   "begin", "decide", "restore", "stamp", "txn", "pages", "commit", "open"}

Answer ==
  {"none", "ok", "notfound", "invalid", "rollback", "busy", "journal", "identity",
   "schema", "failed"}

\* The type of what a process remembers of its call.
Progress ==
  [pc : Label, stage : {"none", "create", "first", "migrate", "again"}, why : Answer,
   kind : {"none", "rollback", "wal"}, tries : Int,
   copied : [img : Image, torn : Torn \cup {None}] \cup {None},
   side : Image \cup Frames \cup {None}, ver : Int,
   structure : {"none", "schema", "ok", "invalid"}, work : Image \cup {None},
   next : {"none", "opened", "wheader", "begin", "connect", "open"}, answer : Answer]

ProcessTypes ==
  /\ me \in [Proc -> Progress]
  /\ writer \in Proc \cup {None}
  /\ walUsers \subseteq Proc \cup {"older"}

\* Rollback journal and WAL exclude each other, and so do those who use them.
WalOK ==
  /\ walUsers # {} => file.img.mode = "wal" /\ journal = None /\ writer = None
  /\ wal # None => writer = None
  /\ "older" \in walUsers => Motus(Committed) /\ Committed.schema \in {"v1", "v2"}

\* Who holds the lock, who is connected in WAL mode, and that the others
\* connected at the same time found the ledger out of WAL.
PlaceOK(p) ==
  /\ InTransaction(p) <=> writer = p
  /\ p \in walUsers => me[p].pc \in {"version", "structure", "identity", "ensure",
                                     "checkpoint", "switch", "leave"}
  /\ me[p].pc \in {"checkpoint", "switch", "leave"} => p \in walUsers
  /\ Connected(p) /\ p \notin walUsers /\ me[p].pc \notin {"txn", "pages", "commit"}
       => Committed.mode = "delete"
  /\ file.img.schema = "absent" => me[p].pc \in {"idle", "path"}
  /\ me[p].pc \in Copying \/ p \in walUsers => ~ ReadOnly(p)

\* What a process knows of the ledger is still so.
KnowsOK(p) ==
  /\ me[p].pc = "identity" =>
       /\ me[p].structure # "none"
       /\ me[p].structure # "invalid" => Committed.schema \in {"v1", "v2"}
       /\ me[p].structure = "ok" => Committed.schema = "v2"
  /\ me[p].pc = "ensure" => Motus(Committed)
  /\ me[p].pc = "switch" =>
       /\ me[p].next \in {"wheader", "begin"}
       /\ me[p].next = "wheader" => Committed.id = "motus"
  /\ me[p].pc = "leave" => me[p].answer # "ok"
  /\ me[p].pc = "open" => Committed.schema = "v2" /\ Committed.id = "motus"

\* What the ledger may become in one transaction.
Leads(c, w) ==
  \/ Content(w) = Content(c) /\ (w.schema = c.schema \/ c.schema = "absent")
  \/ /\ c.schema \in {"blank", "empty", "v1"} /\ c.id # "other"
     /\ w.schema = "v2" /\ w.id = "motus" /\ w.recs = c.recs
  \/ /\ c.schema # "alien" /\ c.id = "none" /\ w.schema = c.schema
     /\ Content(w) = [Content(c) EXCEPT !.id = "motus"]
  \/ /\ Motus(c) /\ c.schema \in {"v1", "v2"} /\ c.recs < MaxRecords
     /\ Content(w) = [Content(c) EXCEPT !.recs = @ + 1]

\* The statements of initializeSchema, on the image c.
SchemaOK(p) ==
  LET c == file.img
      w == me[p].work
  IN /\ me[p].pc \in {"decide", "restore", "stamp"} => me[p].next = "opened" /\ file.torn = None
     /\ me[p].pc = "decide" => journal = None
     /\ me[p].pc = "restore" => /\ journal = c /\ c.schema = "v1"
                                /\ w = [c EXCEPT !.schema = "mixed"]
     /\ me[p].pc = "stamp" => /\ journal \in {None, c}
                              /\ c.schema \in {"blank", "empty", "v1", "v2"}
                              /\ w = [c EXCEPT !.schema = "v2"]

\* A transaction about to commit.
CommitOK(p) ==
  LET w == me[p].work
      n == me[p].next
  IN me[p].pc \in {"txn", "pages", "commit"} =>
       /\ me[p].pc = "txn" => journal = None
       /\ me[p].pc = "pages" => journal = file.img /\ file.torn = None
       /\ me[p].pc = "commit" => journal # None
       /\ w \in Stored /\ w.mode = "delete" /\ Leads(Committed, w)
       /\ n \in {"opened", "wheader", "begin", "open"}
       /\ n \in {"opened", "open"} => w.schema = "v2" /\ w.id = "motus"
       /\ Committed.mode = "wal" =>
            n \in {"wheader", "begin"} /\ (n = "wheader" => Committed.id = "motus")

ProcessOK(p) == PlaceOK(p) /\ KnowsOK(p) /\ SchemaOK(p) /\ CommitOK(p)

\* The invariant: types, the shape of the files, and what each process may
\* rely on.
OpenInv ==
  /\ ProcessTypes
  /\ LeftBehind(file, journal, wal)
  /\ WalOK
  /\ \A p \in Proc : ProcessOK(p)

-----------------------------------------------------------------------------
(* What the files hold.                                                    *)

\* What a reader finds in files f, j and w.
Held(f, j, w) == IF j # None THEN RollBack(f, j) ELSE Replay(f, w)

\* The fields of an image that some file holds.
LEMMA StoredImage ==
  ASSUME NEW c \in Stored
  PROVE  /\ c \in Image /\ c # None
         /\ c.mode \in {"delete", "wal"} /\ c.id \in {"none", "motus", "other"}
         /\ c.schema \in {"blank", "empty", "v1", "v2", "alien"} /\ c.recs \in 0..MaxRecords
         /\ c.schema = "blank" => c.mode = "delete" /\ c.id # "other"
BY NoneIsApart DEF Stored, Image, HeaderValid

\* What a reader finds in files that killed processes left behind.
LEMMA HeldIs ==
  ASSUME NEW f, NEW j, NEW w, LeftBehind(f, j, w)
  PROVE  /\ j # None => RollBack(f, j) = j /\ Held(f, j, w) = j /\ w = None
         /\ j = None => f.torn = None /\ Held(f, j, w) = IF w = None THEN f.img ELSE w.img
         /\ f.img \in Image /\ Held(f, j, w) \in Image
         /\ f.img.schema # "absent" => f.img \in Stored /\ Held(f, j, w) \in Stored
         /\ f.img.schema = "absent" => j = None /\ w = None
         /\ w # None => Held(f, j, w).mode = "wal"
<1>1. /\ f.img \in Image /\ f.img.schema # "mixed" /\ j \in Stored \cup {None}
      /\ w \in Frames \cup {None}
  BY DEF LeftBehind
<1>2. ASSUME j # None
      PROVE  RollBack(f, j) = j /\ Held(f, j, w) = j /\ w = None
  BY <1>2 DEF LeftBehind, RollBack, Held
<1>3. ASSUME j = None
      PROVE  f.torn = None /\ Held(f, j, w) = IF w = None THEN f.img ELSE w.img
  BY <1>3 DEF LeftBehind, Replay, Held
<1>4. w # None => /\ w.img \in Stored /\ f.img \in Stored /\ j = None /\ w.img.mode = "wal"
  BY <1>1 DEF LeftBehind, Frames
<1>5. f.img.schema # "absent" => f.img \in Stored
  BY <1>1 DEF Stored
<1>6. f.img.schema = "absent" => j = None /\ w = None
  BY <1>4 DEF LeftBehind, Stored
<1>7. Held(f, j, w) \in Image /\ (f.img.schema # "absent" => Held(f, j, w) \in Stored)
  BY <1>1, <1>2, <1>3, <1>4, <1>5, StoredImage
<1> QED BY <1>1, <1>2, <1>3, <1>4, <1>5, <1>6, <1>7

\* Committed is what a reader finds in the files as they are.
LEMMA CommittedIs == Committed = Held(file, journal, wal)
BY DEF Committed, Held

\* A database file written at once.
LEMMA WholeIsLeft ==
  ASSUME NEW img \in Stored
  PROVE  /\ LeftBehind(Whole(img), None, None)
         /\ Whole(img).img = img /\ Whole(img).torn = None
BY StoredImage DEF LeftBehind, Whole, Stored

-----------------------------------------------------------------------------
(* Changes of an image.                                                    *)

\* The changes a transaction makes to an image leave an image that may be
\* stored.
LEMMA ImageChanges ==
  ASSUME NEW c \in Stored
  PROVE  /\ [c EXCEPT !.id = "motus"] \in Stored
         /\ [c EXCEPT !.mode = "delete"] \in Stored
         /\ [c EXCEPT !.schema = "v2"] \in Stored
         /\ [c EXCEPT !.schema = "mixed"] \in Image
         /\ c.schema # "blank" => [c EXCEPT !.mode = "wal"] \in Stored
         /\ c.recs < MaxRecords => [c EXCEPT !.recs = @ + 1] \in Stored
<1>0. /\ c \in [mode : {"delete", "wal"},
                schema : {"absent", "blank", "empty", "v1", "mixed", "v2", "alien"},
                id : {"none", "motus", "other"}, recs : 0..MaxRecords]
      /\ c.schema \notin {"absent", "mixed"}
      /\ c.schema = "blank" => c.mode = "delete" /\ c.id # "other"
  BY DEF Stored, Image, HeaderValid
<1>1. [c EXCEPT !.id = "motus"] \in Stored
  BY <1>0 DEF Stored, Image, HeaderValid
<1>2. [c EXCEPT !.mode = "delete"] \in Stored
  BY <1>0 DEF Stored, Image, HeaderValid
<1>3. [c EXCEPT !.schema = "v2"] \in Stored
  BY <1>0 DEF Stored, Image, HeaderValid
<1>4. [c EXCEPT !.schema = "mixed"] \in Image
  BY <1>0 DEF Stored, Image, HeaderValid
<1>5. c.schema # "blank" => [c EXCEPT !.mode = "wal"] \in Stored
  BY <1>0 DEF Stored, Image, HeaderValid
<1>6. c.recs < MaxRecords => [c EXCEPT !.recs = @ + 1] \in Stored
  <2> SUFFICES ASSUME c.recs < MaxRecords PROVE [c EXCEPT !.recs = @ + 1] \in Stored
    OBVIOUS
  <2>1. c.recs + 1 \in 0..MaxRecords
    BY <1>0, OpenAssumption
  <2> QED BY <1>0, <2>1 DEF Stored, Image, HeaderValid
<1> QED BY <1>1, <1>2, <1>3, <1>4, <1>5, <1>6

\* A ledger that stays as it is, moves as a transaction may.
LEMMA SameLeads == ASSUME NEW c PROVE Leads(c, c)
BY DEF Leads

\* What no transaction takes back.
LEMMA LeadsKeeps ==
  ASSUME NEW c \in Image, NEW w, Leads(c, w), c.schema # "mixed", w.schema # "mixed"
  PROVE  /\ Motus(c) <=> Motus(w)
         /\ c.schema \in {"v1", "v2"} => w.schema \in {"v1", "v2"}
         /\ c.schema = "v2" => w.schema = "v2"
         /\ c.id = "motus" => w.id = "motus"
BY DEF Leads, Content, Motus, Image

\* Every transaction is a step of LedgerFormat, or changes nothing.
LEMMA LeadsIsFormat ==
  ASSUME Committed \in Image, Committed.schema # "mixed",
         Leads(Committed, Committed')
  PROVE  [Format!Next]_(Content(Committed))
<1> DEFINE c == Committed
           w == Committed'
<1>0. /\ Content(c) = [schema |-> Content(c).schema, id |-> c.id, recs |-> c.recs]
      /\ Content(w) = [schema |-> Content(w).schema, id |-> w.id, recs |-> w.recs]
      /\ Content(c)' = Content(w)
  BY DEF Content
<1>1. CASE Content(w) = Content(c)
  BY <1>0, <1>1
<1>2. CASE /\ c.schema \in {"blank", "empty", "v1"} /\ c.id # "other"
           /\ w.schema = "v2" /\ w.id = "motus" /\ w.recs = c.recs
  <2>a. Content(w) = [schema |-> "v2", id |-> "motus", recs |-> c.recs]
    BY <1>2 DEF Content
  <2>b. Content(c) = [schema |-> Content(c).schema, id |-> c.id, recs |-> c.recs]
    BY DEF Content
  <2>1. Content(w) = [Content(c) EXCEPT !.schema = "v2", !.id = "motus"]
    <3> DEFINE x == Content(c)
               y == [x EXCEPT !.schema = "v2", !.id = "motus"]
    <3>1. x = [schema |-> x.schema, id |-> c.id, recs |-> c.recs]
      BY <2>b
    <3>2. y = [x EXCEPT !.schema = "v2", !.id = "motus"]
      OBVIOUS
    <3> HIDE DEF x, y
    <3>3. x \in [schema : {x.schema}, id : {c.id}, recs : {c.recs}]
      BY <3>1
    <3>4. y \in [schema : {"v2"}, id : {"motus"}, recs : {c.recs}]
      BY <3>2, <3>3
    <3>5. y = [schema |-> "v2", id |-> "motus", recs |-> c.recs]
      BY <3>4
    <3> QED BY <2>a, <3>5 DEF x, y
  <2>2. Content(c).schema \in {"empty", "v1"} /\ Content(c).id # "other"
    BY <1>2 DEF Content
  <2> QED BY <1>0, <2>1, <2>2 DEF Format!Next, Format!Create, Format!Migrate, Format!Ours
<1>3. CASE /\ c.schema # "alien" /\ c.id = "none"
           /\ Content(w) = [Content(c) EXCEPT !.id = "motus"]
  <2>1. Content(c).schema # "alien" /\ Content(c).id = "none"
    BY <1>3 DEF Content
  <2> QED BY <1>0, <1>3, <2>1 DEF Format!Next, Format!Mark
<1>4. CASE /\ Motus(c) /\ c.schema \in {"v1", "v2"} /\ c.recs < MaxRecords
           /\ Content(w) = [Content(c) EXCEPT !.recs = @ + 1]
  <2>1. /\ Content(c).schema \in {"v1", "v2"} /\ Content(c).id # "other"
        /\ Content(c).recs < MaxRecords
    BY <1>4 DEF Content, Motus
  <2> QED BY <1>0, <1>4, <2>1 DEF Format!Next, Format!Record, Format!Ours
<1> QED BY <1>1, <1>2, <1>3, <1>4 DEF Leads

-----------------------------------------------------------------------------
(* What a step does to the progress of its process.                        *)

\* The step of p leaves the progress of the others alone.
OthersStay(p) == \A q \in Proc \ {p} : me'[q] = me[q]

\* A process that has not called yet.
LEMMA FreshIs == Fresh \in Progress
BY DEF Fresh, Progress, Label, Outside, Answer

\* Goto changes the place of p and nothing else.
LEMMA GotoIs ==
  ASSUME me \in [Proc -> Progress], NEW p \in Proc, NEW l \in Label, Goto(p, l)
  PROVE  /\ me' \in [Proc -> Progress] /\ OthersStay(p)
         /\ me'[p].pc = l /\ me'[p].stage = me[p].stage /\ me'[p].kind = me[p].kind
         /\ me'[p].structure = me[p].structure /\ me'[p].work = me[p].work
         /\ me'[p].next = me[p].next /\ me'[p].answer = me[p].answer
         /\ me'[p].ver = me[p].ver /\ me'[p].copied = me[p].copied
         /\ me'[p].side = me[p].side
<1>1. me[p] \in Progress /\ me' = [me EXCEPT ![p] = [me[p] EXCEPT !.pc = l]]
  BY DEF Goto
<1>2. [me[p] EXCEPT !.pc = l] \in Progress
  BY <1>1 DEF Progress
<1>3. me' \in [Proc -> Progress] /\ OthersStay(p) /\ me'[p] = [me[p] EXCEPT !.pc = l]
  BY <1>1, <1>2 DEF OthersStay
<1> QED BY <1>1, <1>3 DEF Progress

\* Where the end of open() leaves the caller.
LEMMA OutcomeIs ==
  ASSUME NEW m \in Progress, NEW r \in Answer
  PROVE  /\ Outcome(m, r) \in Progress
         /\ Outcome(m, r).pc \in {"path", "idle"} \/ (Outcome(m, r).pc = "open" /\ r = "ok")
<1>1. m.stage \in {"none", "create", "first", "migrate", "again"} /\ m.why \in Answer
  BY DEF Progress
<1>2. Fresh \in Progress /\ {"path", "idle", "open"} \subseteq Label
  BY FreshIs DEF Label, Outside
<1>3. CASE m.stage = "first" /\ r \in {"schema", "journal", "identity", "rollback"}
  <2>1. Outcome(m, r) = [Fresh EXCEPT !.pc = "path", !.stage = "migrate", !.why = r]
    BY <1>3 DEF Outcome
  <2> QED BY <1>2, <2>1, ZenonT(60) DEF Progress
<1>4. CASE m.stage = "migrate" /\ r = "ok"
  <2>1. Outcome(m, r) = [Fresh EXCEPT !.pc = "path", !.stage = "again"]
    BY <1>4 DEF Outcome
  <2> QED BY <1>2, <2>1, ZenonT(60) DEF Progress
<1>5. CASE m.stage = "migrate" /\ r \notin {"ok", "invalid"}
  <2>1. Outcome(m, r) =
          [Fresh EXCEPT !.stage = m.stage,
             !.answer = IF m.why \in {"journal", "rollback"} THEN m.why ELSE r]
    BY <1>5 DEF Outcome
  <2>2. Fresh.pc = "idle"
    BY DEF Fresh
  <2> QED BY <1>1, <1>2, <2>1, <2>2, ZenonT(60) DEF Progress
<1>6. CASE /\ ~ (m.stage = "first" /\ r \in {"schema", "journal", "identity", "rollback"})
           /\ ~ (m.stage = "migrate" /\ r = "ok")
           /\ ~ (m.stage = "migrate" /\ r \notin {"ok", "invalid"})
  <2>1. Outcome(m, r) =
          [Fresh EXCEPT !.pc = IF r = "ok" THEN "open" ELSE "idle",
             !.stage = m.stage, !.answer = r]
    BY <1>6 DEF Outcome
  <2> QED BY <1>1, <1>2, <2>1, ZenonT(60) DEF Progress
<1> QED BY <1>3, <1>4, <1>5, <1>6

\* Return: on to closing a WAL connection, or out of the call.
LEMMA ReturnIs ==
  ASSUME me \in [Proc -> Progress], NEW p \in Proc, NEW r \in Answer, Return(p, r)
  PROVE  /\ me' \in [Proc -> Progress] /\ OthersStay(p)
         /\ p \in walUsers => /\ me'[p].pc = "leave" /\ me'[p].answer = r
                              /\ me'[p].stage = me[p].stage
         /\ p \notin walUsers => \/ me'[p].pc \in {"path", "idle"}
                                 \/ me'[p].pc = "open" /\ r = "ok"
<1> DEFINE m == [me[p] EXCEPT !.pc = "leave", !.answer = r]
<1>1. me[p] \in Progress
  OBVIOUS
<1>2. m \in Progress /\ m.pc = "leave" /\ m.answer = r /\ m.stage = me[p].stage
  BY <1>1 DEF Progress, Label
<1> HIDE DEF m
<1>3. me' = [me EXCEPT ![p] = IF p \in walUsers THEN m ELSE Outcome(me[p], r)]
  BY DEF Return, m
<1> QED BY <1>1, <1>2, <1>3, OutcomeIs DEF OthersStay

-----------------------------------------------------------------------------
(* What a step leaves of the other processes, and of a process outside.    *)

\* What p does to files and locks spares every process q that does not move.
LEMMA OtherKept ==
  ASSUME OpenInv, NEW q \in Proc, me'[q] = me[q], LeftBehind(file', journal', wal'),
         Leads(Committed, Committed'),
         q \in walUsers' <=> q \in walUsers, writer' = q <=> writer = q,
         Connected(q) /\ Committed.mode = "delete" => Committed'.mode = "delete",
         writer = q => UNCHANGED <<file, journal, wal>>,
         file'.img.schema = "absent" => file.img.schema = "absent"
  PROVE  ProcessOK(q)'
<1>0. ProcessOK(q) /\ LeftBehind(file, journal, wal)
  BY DEF OpenInv
<1>1. /\ Committed = Held(file, journal, wal) /\ Committed' = Held(file', journal', wal')
      /\ Committed \in Image /\ Committed.schema # "mixed" /\ Committed'.schema # "mixed"
  <2>1. Committed = Held(file, journal, wal) /\ Committed' = Held(file', journal', wal')
    BY DEF Committed, Held
  <2>2. /\ file.img.schema # "mixed" /\ file'.img.schema # "mixed"
    BY <1>0 DEF LeftBehind
  <2> QED BY <1>0, <2>1, <2>2, HeldIs DEF Stored
<1>2. /\ Motus(Committed) => Motus(Committed')
      /\ Committed.schema \in {"v1", "v2"} => Committed'.schema \in {"v1", "v2"}
      /\ Committed.schema = "v2" => Committed'.schema = "v2"
      /\ Committed.id = "motus" => Committed'.id = "motus"
  BY <1>1, LeadsKeeps
<1>3. InTransaction(q) => writer = q /\ UNCHANGED <<file, journal, wal>>
  BY <1>0 DEF ProcessOK, PlaceOK
<1>4. InTransaction(q) => Committed' = Committed
  BY <1>1, <1>3
<1>5. PlaceOK(q)'
  BY <1>0, <1>3 DEF ProcessOK, PlaceOK, InTransaction, Connected, ReadOnly
<1>6. KnowsOK(q)'
  BY <1>0, <1>2 DEF ProcessOK, KnowsOK
<1>7. SchemaOK(q)' /\ CommitOK(q)'
  BY <1>0, <1>3, <1>4 DEF ProcessOK, SchemaOK, CommitOK, InTransaction
<1> QED BY <1>5, <1>6, <1>7 DEF ProcessOK

\* A process without connection and lock relies on nothing.
LEMMA OutsideOK ==
  ASSUME NEW p \in Proc, me'[p].pc \in Outside, p \notin walUsers', writer' # p,
         file'.img.schema = "absent" => me'[p].pc \in {"idle", "path"},
         me'[p].pc \in Copying => ~ ReadOnly(p)'
  PROVE  ProcessOK(p)'
<1>1. PlaceOK(p)'
  BY DEF PlaceOK, InTransaction, Connected, Outside
<1>2. KnowsOK(p)' /\ SchemaOK(p)' /\ CommitOK(p)'
  BY DEF KnowsOK, SchemaOK, CommitOK, Outside
<1> QED BY <1>1, <1>2 DEF ProcessOK

\* The files and the locks stay as they are.
Still == UNCHANGED <<file, journal, wal, writer, walUsers>>

\* A step of p alone, files and locks as they are.
LEMMA StillKeeps ==
  ASSUME OpenInv, NEW p \in Proc, Still, me' \in [Proc -> Progress], OthersStay(p),
         ProcessOK(p)'
  PROVE  OpenInv'
<1>1. Committed' = Committed
  BY DEF Still, Committed
<1>2. ProcessTypes' /\ WalOK' /\ LeftBehind(file', journal', wal')
  BY <1>1 DEF OpenInv, ProcessTypes, WalOK, Still
<1>3. ASSUME NEW q \in Proc, q # p PROVE ProcessOK(q)'
  BY <1>1, <1>2, <1>3, SameLeads, OtherKept DEF Still, OthersStay
<1> QED BY <1>2, <1>3 DEF OpenInv

\* A process outside has no lock, and one past its path has found a file.
LEMMA Places ==
  ASSUME OpenInv, NEW p \in Proc
  PROVE  /\ me \in [Proc -> Progress] /\ me[p].pc \in Label
         /\ InTransaction(p) <=> writer = p
         /\ p \in walUsers => file.img.schema # "absent"
         /\ me[p].pc \notin {"idle", "path"} => file.img.schema # "absent"
         /\ p \in walUsers => me[p].pc \in {"version", "structure", "identity", "ensure",
                                            "checkpoint", "switch", "leave"}
         /\ me[p].pc \in Copying \/ p \in walUsers => ~ ReadOnly(p)
<1>1. me \in [Proc -> Progress] /\ PlaceOK(p) /\ file.img \in Image
      /\ (walUsers # {} => file.img.mode = "wal")
  BY DEF OpenInv, ProcessTypes, ProcessOK, LeftBehind, WalOK
<1>2. me[p].pc \in Label
  BY <1>1 DEF Progress
<1>3. file.img.mode = "wal" => file.img.schema # "absent"
  BY <1>1 DEF Image, HeaderValid
<1> QED BY <1>1, <1>2, <1>3 DEF PlaceOK

\* The same, from one place without a connection to another.
LEMMA StillOutside ==
  ASSUME OpenInv, NEW p \in Proc, Still, me' \in [Proc -> Progress], OthersStay(p),
         me[p].pc \in Outside \cup {"open"},
         me'[p].pc \in Outside,
         me[p].pc \in {"idle", "path"} =>
           me'[p].pc \in {"idle", "path"} \/ file.img.schema # "absent",
         me'[p].pc \in Copying => ~ ReadOnly(p)'
  PROVE  OpenInv'
<1>1. p \notin walUsers' /\ writer' # p
  BY Places DEF Outside, InTransaction, Still
<1>2. file'.img.schema = "absent" => me'[p].pc \in {"idle", "path"}
  BY Places DEF Still
<1> QED BY <1>1, <1>2, OutsideOK, StillKeeps

\* The same, for the end of open(); only a reader of a current, marked
\* ledger succeeds here.
LEMMA StillReturn ==
  ASSUME OpenInv, NEW p \in Proc, Still, NEW r \in Answer, Return(p, r),
         ~ InTransaction(p),
         r = "ok" => /\ Connected(p) /\ ReadOnly(p)
                     /\ Committed.schema = "v2" /\ Committed.id = "motus"
  PROVE  OpenInv'
<1>1. /\ me' \in [Proc -> Progress] /\ OthersStay(p) /\ writer' # p
      /\ p \in walUsers => /\ me'[p].pc = "leave" /\ me'[p].answer = r
                           /\ me'[p].stage = me[p].stage
      /\ p \notin walUsers => \/ me'[p].pc \in {"path", "idle"}
                              \/ me'[p].pc = "open" /\ r = "ok"
  BY Places, ReturnIs DEF Still
<1>a. Committed' = Committed
  BY DEF Committed, Still
<1>2. CASE p \in walUsers
  <2>1. p \in walUsers' /\ file'.img.schema # "absent" /\ ~ ReadOnly(p) /\ r # "ok"
    BY <1>2, Places DEF Still
  <2>2. PlaceOK(p)' /\ KnowsOK(p)' /\ SchemaOK(p)' /\ CommitOK(p)'
    BY <1>1, <1>2, <1>a, <2>1
       DEF PlaceOK, KnowsOK, SchemaOK, CommitOK, InTransaction, ReadOnly
  <2> QED BY <1>1, <2>2, StillKeeps DEF ProcessOK
<1>3. CASE p \notin walUsers /\ me'[p].pc \in {"path", "idle"}
  BY <1>1, <1>3, OutsideOK, StillKeeps DEF Outside, Copying, Still
<1>4. CASE p \notin walUsers /\ me'[p].pc = "open" /\ r = "ok"
  <2>1. Committed.mode = "delete" /\ file.img.schema # "absent"
    BY <1>4, Places DEF OpenInv, ProcessOK, PlaceOK, Connected, InTransaction
  <2>2. PlaceOK(p)'
    BY <1>1, <1>4, <1>a, <2>1 DEF PlaceOK, InTransaction, Copying, Still
  <2>3. KnowsOK(p)' /\ SchemaOK(p)' /\ CommitOK(p)'
    BY <1>4, <1>a DEF KnowsOK, SchemaOK, CommitOK
  <2> QED BY <1>1, <2>2, <2>3, StillKeeps DEF ProcessOK
<1> QED BY <1>1, <1>2, <1>3, <1>4

-----------------------------------------------------------------------------
(* Looking at the files, copying them, closing.                            *)

\* An update of the progress of p.
LEMMA UpdateIs ==
  ASSUME me \in [Proc -> Progress], NEW p \in Proc, NEW m \in Progress,
         me' = [me EXCEPT ![p] = m]
  PROVE  me' \in [Proc -> Progress] /\ OthersStay(p) /\ me'[p] = m
BY DEF OthersStay

\* A caller enters Open or OpenForRead.
LEMMA CallStep == ASSUME OpenInv, NEW p \in Proc, Call(p) PROVE OpenInv'
<1>1. PICK c \in Calls :
        me' = [me EXCEPT ![p] = [Fresh EXCEPT !.pc = "path",
                                   !.stage = IF c = "Open" THEN "create" ELSE "first"]]
  BY DEF Call
<1> DEFINE m == [Fresh EXCEPT !.pc = "path",
                   !.stage = IF c = "Open" THEN "create" ELSE "first"]
<1>2. m \in Progress /\ m.pc = "path"
  <2>1. Fresh \in Progress /\ "path" \in Label
    BY FreshIs DEF Label, Outside
  <2> QED BY <2>1, ZenonT(60) DEF Progress
<1> HIDE DEF m
<1>3. me' \in [Proc -> Progress] /\ OthersStay(p) /\ me'[p] = m
  BY <1>1, <1>2, Places, UpdateIs DEF m
<1> QED BY <1>2, <1>3, StillOutside DEF Call, At, Still, Outside, Copying

\* A caller closes its store.
LEMMA CloseStep == ASSUME OpenInv, NEW p \in Proc, Close(p) PROVE OpenInv'
<1> DEFINE m == [Fresh EXCEPT !.stage = me[p].stage, !.answer = me[p].answer]
<1>1. m \in Progress /\ m.pc = "idle"
  <2>1. Fresh \in Progress /\ Fresh.pc = "idle" /\ me[p] \in Progress
    BY FreshIs, Places DEF Fresh
  <2> QED BY <2>1, ZenonT(60) DEF Progress
<1>2. me' = [me EXCEPT ![p] = m]
  BY DEF Close
<1> HIDE DEF m
<1>3. me' \in [Proc -> Progress] /\ OthersStay(p) /\ me'[p] = m
  BY <1>1, <1>2, Places, UpdateIs
<1> QED BY <1>1, <1>3, StillOutside DEF Close, At, Still, Outside, Copying

\* A step from one place outside to another.
LEMMA StillGoto ==
  ASSUME OpenInv, NEW p \in Proc, Still, NEW l \in Outside, Goto(p, l),
         me[p].pc \in Outside, me[p].pc = "path" => file.img.schema # "absent",
         me[p].pc # "idle", l \in Copying => ~ ReadOnly(p)
  PROVE  OpenInv'
<1>1. l \in Label
  BY DEF Label
<1>2. /\ me' \in [Proc -> Progress] /\ OthersStay(p) /\ me'[p].pc = l
      /\ ReadOnly(p)' <=> ReadOnly(p)
  BY <1>1, GotoIs, Places DEF ReadOnly
<1> QED BY <1>2, StillOutside

\* A copy is tried again, or given up.
LEMMA RetryStep ==
  ASSUME OpenInv, NEW p \in Proc, Still, Retry(p),
         me[p].pc \in {"copyside", "verifyfile", "verifyside"}
  PROVE  OpenInv'
<1>1. CASE me[p].tries < Retries
  <2> DEFINE l == IF me[p].kind = "rollback" THEN "recheck" ELSE "copyfile"
             n == me[p].tries + 1
             m == [me[p] EXCEPT !.pc = l, !.tries = n, !.copied = None, !.side = None]
  <2>0. me' = [me EXCEPT ![p] = m]
    BY <1>1 DEF Retry
  <2>1. m \in Progress /\ m.pc \in {"recheck", "copyfile"} /\ m.stage = me[p].stage
    <3>1. me[p] \in Progress /\ l \in Label /\ l \in {"recheck", "copyfile"}
      BY Places DEF Label, Outside
    <3>2. n \in Int
      BY <3>1 DEF Progress
    <3> DEFINE old == me[p]
    <3>3. m = [old EXCEPT !.pc = l, !.tries = n, !.copied = None, !.side = None]
      OBVIOUS
    <3>4. old \in Progress
      BY <3>1
    <3> HIDE DEF l, n, m, old
    <3>5. l \in Label
      BY <3>1
    <3>6. m \in Progress
      BY <3>2, <3>3, <3>4, <3>5 DEF Progress
    <3>7. m.pc = l
      BY <3>3, <3>4 DEF Progress
    <3>8. m.stage = me[p].stage
      BY <3>3, <3>4 DEF Progress, old
    <3> QED BY <3>1, <3>6, <3>7, <3>8
  <2>2. me' = [me EXCEPT ![p] = m]
    BY <2>0
  <2> HIDE DEF m
  <2>3. me' \in [Proc -> Progress] /\ OthersStay(p) /\ me'[p] = m
    BY <2>1, <2>2, Places, UpdateIs
  <2>4. ~ ReadOnly(p)'
    BY <2>1, <2>3, Places DEF ReadOnly, Copying
  <2> QED BY <2>1, <2>3, <2>4, StillOutside DEF Outside
<1>2. CASE ~ (me[p].tries < Retries)
  <2>1. PICK r \in {"journal", "busy"} : Return(p, r)
    BY <1>2 DEF Retry
  <2> QED BY <2>1, StillReturn DEF Answer, InTransaction
<1> QED BY <1>1, <1>2

\* An update of other fields on the way from one place outside to another.
LEMMA StillUpdate ==
  ASSUME OpenInv, NEW p \in Proc, Still, NEW m \in Progress,
         me' = [me EXCEPT ![p] = m],
         me[p].pc \in Outside \ {"idle", "path"}, m.pc \in Outside,
         m.stage = me[p].stage, m.pc \in Copying => ~ ReadOnly(p)
  PROVE  OpenInv'
<1>1. me' \in [Proc -> Progress] /\ OthersStay(p) /\ me'[p] = m
  BY Places, UpdateIs
<1>2. ReadOnly(p)' <=> ReadOnly(p)
  BY <1>1 DEF ReadOnly
<1> QED BY <1>1, <1>2, StillOutside

\* Looking at the files keeps the invariant.
LEMMA LookSteps ==
  ASSUME OpenInv, NEW p \in Proc,
         HasRollbackJournal(p) \/ InspectHeader(p) \/ Recheck(p)
         \/ RequiresJournalMigration(p) \/ VerifyMigratedHeader(p)
  PROVE  OpenInv'
<1>0. me[p] \in Progress /\ Outside \subseteq Label
  BY Places DEF Label
<1>1. CASE HasRollbackJournal(p)
  <2>1. PICK l \in {"mode", "header"} : Goto(p, l)
    BY <1>1 DEF HasRollbackJournal
  <2> QED BY <1>1, <2>1, StillGoto DEF HasRollbackJournal, At, Still, Outside, Copying
<1>2. CASE InspectHeader(p)
  <2> DEFINE m == [me[p] EXCEPT !.pc = "recheck", !.kind = "rollback", !.tries = 0]
  <2>1. m \in Progress /\ m.pc = "recheck" /\ m.stage = me[p].stage
    <3> DEFINE zero == 0
    <3>1. "recheck" \in Label /\ zero \in Int
      BY <1>0 DEF Outside
    <3> DEFINE old == me[p]
    <3>2. m = [old EXCEPT !.pc = "recheck", !.kind = "rollback", !.tries = zero]
      OBVIOUS
    <3>3. old \in Progress
      BY <1>0
    <3> HIDE DEF m, zero, old
    <3>4. m \in Progress /\ m.pc = "recheck" /\ m.stage = old.stage
      BY <3>1, <3>2, <3>3 DEF Progress
    <3> QED BY <3>4 DEF old
  <2>2. \/ Return(p, "invalid") \/ Return(p, "rollback") \/ Goto(p, "mode")
        \/ me' = [me EXCEPT ![p] = m] /\ ~ ReadOnly(p)
    BY <1>2 DEF InspectHeader
  <2>3. Still /\ me[p].pc = "header"
    BY <1>2 DEF InspectHeader, Still, At
  <2> HIDE DEF m
  <2>4. /\ me[p].pc \in Outside \ {"idle", "path"} /\ "mode" \in Outside \ Copying
        /\ "recheck" \in Outside
    BY <2>3 DEF Outside, Copying
  <2>5. {"invalid", "rollback"} \subseteq Answer \ {"ok"} /\ ~ InTransaction(p)
    BY <2>3 DEF Answer, InTransaction
  <2> QED BY <2>1, <2>2, <2>3, <2>4, <2>5, StillReturn, StillGoto, StillUpdate
<1>3. CASE Recheck(p)
  <2> DEFINE m == [me[p] EXCEPT !.pc = "mode", !.kind = "none", !.tries = 0]
  <2>1. m \in Progress /\ m.pc = "mode" /\ m.stage = me[p].stage
    <3> DEFINE zero == 0
    <3>1. "mode" \in Label /\ zero \in Int
      BY <1>0 DEF Outside
    <3> DEFINE old == me[p]
    <3>2. m = [old EXCEPT !.pc = "mode", !.kind = "none", !.tries = zero]
      OBVIOUS
    <3>3. old \in Progress
      BY <1>0
    <3> HIDE DEF m, zero, old
    <3>4. m \in Progress /\ m.pc = "mode" /\ m.stage = old.stage
      BY <3>1, <3>2, <3>3 DEF Progress
    <3> QED BY <3>4 DEF old
  <2>2. Goto(p, "copyfile") \/ me' = [me EXCEPT ![p] = m]
    BY <1>3 DEF Recheck
  <2>3. Still /\ me[p].pc = "recheck"
    BY <1>3 DEF Recheck, Still, At
  <2> HIDE DEF m
  <2>4. /\ me[p].pc \in Outside \ {"idle", "path"} /\ "mode" \in Outside
        /\ "copyfile" \in Outside /\ ~ ReadOnly(p)
    BY <2>3, Places DEF Outside, Copying
  <2> QED BY <2>1, <2>2, <2>3, <2>4, StillGoto, StillUpdate
<1>4. CASE RequiresJournalMigration(p)
  <2> DEFINE m == [me[p] EXCEPT !.pc = "copyfile", !.kind = "wal"]
  <2>1. m \in Progress /\ m.pc = "copyfile" /\ m.stage = me[p].stage
    <3>1. "copyfile" \in Label
      BY <1>0 DEF Outside
    <3> QED BY <1>0, <3>1 DEF Progress
  <2>2. \/ Return(p, "journal") \/ Goto(p, "connect")
        \/ me' = [me EXCEPT ![p] = m] /\ ~ ReadOnly(p)
    BY <1>4 DEF RequiresJournalMigration
  <2>3. Still /\ me[p].pc = "mode"
    BY <1>4 DEF RequiresJournalMigration, Still, At
  <2> HIDE DEF m
  <2>4. /\ me[p].pc \in Outside \ {"idle", "path"} /\ "connect" \in Outside \ Copying
        /\ "copyfile" \in Outside /\ "journal" \in Answer /\ ~ InTransaction(p)
    BY <2>3 DEF Outside, Copying, Answer, InTransaction
  <2> QED BY <2>1, <2>2, <2>3, <2>4, StillReturn, StillGoto, StillUpdate
<1>5. CASE VerifyMigratedHeader(p)
  <2> DEFINE m == [me[p] EXCEPT !.pc = "connect", !.kind = "none"]
  <2>1. m \in Progress /\ m.pc = "connect" /\ m.stage = me[p].stage
    <3>1. "connect" \in Label
      BY <1>0 DEF Outside
    <3> QED BY <1>0, <3>1 DEF Progress
  <2>2. Return(p, "journal") \/ me' = [me EXCEPT ![p] = m]
    BY <1>5 DEF VerifyMigratedHeader
  <2>3. Still /\ me[p].pc = "wheader"
    BY <1>5 DEF VerifyMigratedHeader, Still, At
  <2> HIDE DEF m
  <2>4. /\ me[p].pc \in Outside \ {"idle", "path"} /\ "connect" \in Outside \ Copying
        /\ "journal" \in Answer /\ ~ InTransaction(p)
    BY <2>3 DEF Outside, Copying, Answer, InTransaction
  <2> QED BY <2>1, <2>2, <2>3, <2>4, StillReturn, StillUpdate
<1> QED BY <1>1, <1>2, <1>3, <1>4, <1>5

\* Copying and validating a copy keep it.
LEMMA CopySteps ==
  ASSUME OpenInv, NEW p \in Proc,
         CopyFile(p) \/ CopySidecar(p) \/ VerifyFile(p) \/ VerifySidecar(p)
  PROVE  OpenInv'
<1>0. /\ me[p] \in Progress /\ Outside \subseteq Label
      /\ file \in [img : Image, torn : Torn \cup {None}]
      /\ journal \in Image \cup {None} /\ wal \in Frames \cup {None}
  BY Places DEF Label, OpenInv, LeftBehind, Stored
<1>a. me[p].pc \in Copying => ~ ReadOnly(p)
  BY Places
<1>1. CASE CopyFile(p)
  <2> DEFINE m == [me[p] EXCEPT !.pc = "copyside", !.copied = file]
  <2>1. m \in Progress /\ m.pc = "copyside" /\ m.stage = me[p].stage
    <3>1. "copyside" \in Label
      BY <1>0 DEF Outside
    <3> QED BY <1>0, <3>1 DEF Progress
  <2>2. me' = [me EXCEPT ![p] = m] /\ Still /\ me[p].pc = "copyfile"
    BY <1>1 DEF CopyFile, Still, At
  <2> HIDE DEF m
  <2> QED BY <1>a, <2>1, <2>2, StillUpdate DEF Outside, Copying
<1>2. CASE CopySidecar(p)
  <2> DEFINE m == [me[p] EXCEPT !.pc = "verifyfile", !.side = Sidecar(p)]
  <2>1. m \in Progress /\ m.pc = "verifyfile" /\ m.stage = me[p].stage
    <3>1. "verifyfile" \in Label /\ Sidecar(p) \in Image \cup Frames \cup {None}
      BY <1>0 DEF Outside, Sidecar
    <3> HIDE DEF Sidecar
    <3> QED BY <1>0, <3>1 DEF Progress
  <2>2. Retry(p) \/ me' = [me EXCEPT ![p] = m]
    BY <1>2 DEF CopySidecar
  <2>3. Still /\ me[p].pc = "copyside"
    BY <1>2 DEF CopySidecar, Still, At
  <2> HIDE DEF m
  <2>4. /\ me[p].pc \in Outside \ {"idle", "path"} /\ "verifyfile" \in Outside
        /\ ~ ReadOnly(p)
    BY <1>a, <2>3 DEF Outside, Copying
  <2> QED BY <2>1, <2>2, <2>3, <2>4, RetryStep, StillUpdate
<1>3. CASE VerifyFile(p)
  BY <1>3, <1>a, RetryStep, StillGoto DEF VerifyFile, Still, At, Outside, Copying
<1>4. CASE VerifySidecar(p)
  <2> DEFINE m == [me[p] EXCEPT !.copied = None, !.side = None, !.tries = 0,
                     !.pc = IF me[p].kind = "rollback" THEN "mode" ELSE "source",
                     !.kind = IF @ = "rollback" THEN "none" ELSE @]
  <2>1. m \in Progress /\ m.pc \in {"mode", "source"} /\ m.stage = me[p].stage
    <3> DEFINE l == IF me[p].kind = "rollback" THEN "mode" ELSE "source"
               k == IF me[p].kind = "rollback" THEN "none" ELSE me[p].kind
               zero == 0
    <3>1. l \in Label /\ l \in {"mode", "source"} /\ k \in {"none", "rollback", "wal"}
      BY <1>0 DEF Outside, Progress
    <3>2. zero \in Int
      OBVIOUS
    <3> DEFINE old == me[p]
    <3>3. m = [old EXCEPT !.copied = None, !.side = None, !.tries = zero, !.pc = l, !.kind = k]
      OBVIOUS
    <3>4. old \in Progress
      BY <1>0
    <3> HIDE DEF l, k, m, zero, old
    <3>5. m \in Progress
      BY <3>1, <3>2, <3>3, <3>4 DEF Progress
    <3>6. m.pc = l /\ m.stage = old.stage
      BY <3>3, <3>4 DEF Progress
    <3> QED BY <3>1, <3>5, <3>6 DEF old
  <2>2. Retry(p) \/ Return(p, "invalid") \/ me' = [me EXCEPT ![p] = m]
    BY <1>4 DEF VerifySidecar
  <2>3. Still /\ me[p].pc = "verifyside"
    BY <1>4 DEF VerifySidecar, Still, At
  <2> HIDE DEF m
  <2>4. /\ me[p].pc \in Outside \ {"idle", "path"} /\ {"mode", "source"} \subseteq Outside
        /\ "invalid" \in Answer /\ ~ InTransaction(p) /\ ~ ReadOnly(p)
    BY <1>a, <2>3 DEF Outside, Copying, Answer, InTransaction
  <2>5. CASE Retry(p)
    BY <2>3, <2>5, RetryStep
  <2>6. CASE Return(p, "invalid")
    BY <2>3, <2>4, <2>6, StillReturn
  <2>7. CASE me' = [me EXCEPT ![p] = m]
    BY <2>1, <2>3, <2>4, <2>7, StillUpdate
  <2> QED BY <2>2, <2>5, <2>6, <2>7
<1> QED BY <1>1, <1>2, <1>3, <1>4

-----------------------------------------------------------------------------
(* Reading the schema.                                                     *)

\* A query of validateSchema is answered and leaves the files alone.
LEMMA ReadingKeeps ==
  ASSUME OpenInv, NEW p \in Proc, Still, NEW m \in Progress, me' = [me EXCEPT ![p] = m],
         me[p].pc \in {"version", "structure", "identity"},
         m.pc \in {"structure", "identity", "ensure"},
         m.pc = "identity" =>
           /\ m.structure # "none"
           /\ m.structure # "invalid" => Committed.schema \in {"v1", "v2"}
           /\ m.structure = "ok" => Committed.schema = "v2",
         m.pc = "ensure" => Motus(Committed), m.stage = me[p].stage
  PROVE  OpenInv'
<1>1. me' \in [Proc -> Progress] /\ OthersStay(p) /\ me'[p] = m
  BY Places, UpdateIs
<1>2. Committed' = Committed
  BY DEF Still, Committed
<1>3. PlaceOK(p)'
  <2>1. PlaceOK(p)
    BY DEF OpenInv, ProcessOK
  <2> QED BY <1>1, <1>2, <2>1
          DEF PlaceOK, InTransaction, Connected, Still, ReadOnly, Copying
<1>4. KnowsOK(p)' /\ SchemaOK(p)' /\ CommitOK(p)'
  BY <1>1, <1>2 DEF KnowsOK, SchemaOK, CommitOK
<1> QED BY <1>1, <1>3, <1>4, StillKeeps DEF ProcessOK

\* What a reader finds is a database.
LEMMA CommittedImage ==
  ASSUME OpenInv
  PROVE  /\ Committed \in Image /\ Committed.schema # "mixed"
         /\ Committed.id \in {"none", "motus", "other"}
         /\ Committed.mode \in {"delete", "wal"}
         /\ file.img \in Image /\ file.img.mode \in {"delete", "wal"}
         /\ file.img.schema # "absent" => file.img \in Stored /\ Committed \in Stored
<1>1. Committed = Held(file, journal, wal) /\ LeftBehind(file, journal, wal)
  BY CommittedIs DEF OpenInv
<1>2. file.img \in Image /\ file.img.schema # "mixed" /\ Committed \in Image
      /\ (file.img.schema # "absent" => file.img \in Stored /\ Committed \in Stored)
      /\ (file.img.schema = "absent" => Committed = file.img)
  BY <1>1, HeldIs DEF LeftBehind
<1> QED BY <1>2 DEF Image, Stored

\* The queries of validateSchema, and giving up, keep the invariant.
LEMMA ReadSteps ==
  ASSUME OpenInv, NEW p \in Proc,
         ReadVersion(p) \/ ReadStructure(p) \/ ReadIdentity(p) \/ ReadOnlyMeetsHot(p)
         \/ GiveUp(p)
  PROVE  OpenInv'
<1>0. /\ me[p] \in Progress /\ {"structure", "identity", "ensure"} \subseteq Label
      /\ KnowsOK(p)
  BY Places DEF Label, OpenInv, ProcessOK
<1>1. CASE ReadVersion(p)
  <2> DEFINE old == me[p]
             v == Version(Committed)
             m == [old EXCEPT !.pc = "structure", !.ver = v]
  <2>1. Still /\ old.pc = "version" /\ me' = [me EXCEPT ![p] = m]
    BY <1>1 DEF ReadVersion, Still, At
  <2>2. v \in Int /\ old \in Progress /\ "structure" \in Label
    BY <1>0 DEF Version
  <2> HIDE DEF v, old
  <2>3. m \in Progress /\ m.pc = "structure" /\ m.stage = old.stage
    BY <2>2 DEF Progress
  <2> HIDE DEF m
  <2> QED BY <2>1, <2>3, ReadingKeeps DEF old
<1>2. CASE ReadStructure(p)
  <2> DEFINE old == me[p]
             s == Structure(me[p].ver, Committed)
             m == [old EXCEPT !.pc = "identity", !.structure = s]
  <2>1. /\ Still /\ old.pc = "structure"
        /\ Return(p, "invalid") \/ me' = [me EXCEPT ![p] = m]
    BY <1>2 DEF ReadStructure, Still, At
  <2>2. /\ s \in {"schema", "ok", "invalid"} /\ old \in Progress /\ "identity" \in Label
        /\ s # "invalid" => Committed.schema \in {"v1", "v2"}
        /\ s = "ok" => Committed.schema = "v2"
    BY <1>0 DEF Structure
  <2>3. "invalid" \in Answer /\ ~ InTransaction(p)
    BY <2>1 DEF Answer, InTransaction
  <2> HIDE DEF s, old
  <2>4. m \in Progress /\ m.pc = "identity" /\ m.structure = s /\ m.stage = old.stage
    BY <2>2, ZenonT(60) DEF Progress
  <2> HIDE DEF m
  <2>5. CASE Return(p, "invalid")
    BY <2>1, <2>3, <2>5, StillReturn
  <2>6. CASE me' = [me EXCEPT ![p] = m]
    BY <2>1, <2>2, <2>4, <2>6, ReadingKeeps DEF old
  <2> QED BY <2>1, <2>5, <2>6
<1>3. CASE ReadIdentity(p)
  <2> DEFINE found == me[p].structure
             r == CASE Committed.id = "other" -> "invalid"
                    [] Committed.id = "none" /\ found = "ok" -> "identity"
                    [] OTHER -> found
  <2>1. Still /\ me[p].pc = "identity"
    BY <1>3 DEF ReadIdentity, Still, At
  <2>2. Connected(p) /\ ~ InTransaction(p)
    BY <2>1 DEF Connected, InTransaction
  <2>3. found \in {"schema", "ok", "invalid"}
    BY <1>0, <2>1 DEF KnowsOK, Progress
  <2>4. CASE ReadOnly(p)
    <3>1. Return(p, r)
      BY <1>3, <2>4 DEF ReadIdentity
    <3>2. /\ r \in Answer
          /\ r = "ok" => Committed.schema = "v2" /\ Committed.id = "motus"
      BY <1>0, <2>1, <2>3, CommittedImage DEF Answer, KnowsOK
    <3> HIDE DEF r
    <3> QED BY <2>1, <2>2, <2>4, <3>1, <3>2, StillReturn
  <2>5. CASE ~ ReadOnly(p)
    <3>1. CASE (found # "invalid" /\ Committed.id # "other") \/ IsEmptyDatabase(Committed)
      <4>1. Goto(p, "ensure")
        BY <1>3, <2>5, <3>1 DEF ReadIdentity
      <4>2. Motus(Committed)
        BY <1>0, <2>1, <3>1 DEF KnowsOK, Motus, IsEmptyDatabase
      <4> DEFINE m == [me[p] EXCEPT !.pc = "ensure"]
      <4>3. /\ m \in Progress /\ m.pc = "ensure" /\ m.stage = me[p].stage
            /\ me' = [me EXCEPT ![p] = m]
        BY <1>0, <4>1 DEF Progress, Goto
      <4> HIDE DEF m
      <4> QED BY <2>1, <4>2, <4>3, ReadingKeeps
    <3>2. CASE ~ ((found # "invalid" /\ Committed.id # "other") \/ IsEmptyDatabase(Committed))
      <4>1. Return(p, "invalid")
        BY <1>3, <2>5, <3>2 DEF ReadIdentity
      <4> QED BY <2>1, <2>2, <4>1, StillReturn DEF Answer
    <3> QED BY <3>1, <3>2
  <2> QED BY <2>4, <2>5
<1>4. CASE ReadOnlyMeetsHot(p)
  <2>1. PICK r \in {"rollback", "invalid"} : Return(p, r)
    BY <1>4 DEF ReadOnlyMeetsHot
  <2>2. Still /\ ~ InTransaction(p) /\ r \in Answer /\ r # "ok"
    BY <1>4 DEF ReadOnlyMeetsHot, Still, At, InTransaction, Answer
  <2> QED BY <2>1, <2>2, StillReturn
<1>5. CASE GiveUp(p)
  <2>1. PICK r \in {"journal", "busy", "invalid"} : Return(p, r)
    BY <1>5 DEF GiveUp
  <2>2. Still /\ ~ InTransaction(p) /\ r \in Answer /\ r # "ok"
    BY <1>5 DEF GiveUp, Still, At, InTransaction, Answer
  <2> QED BY <2>1, <2>2, StillReturn
<1> QED BY <1>1, <1>2, <1>3, <1>4, <1>5

-----------------------------------------------------------------------------
(* Connecting, and taking the write lock.                                  *)

\* A step that changes files or locks.
LEMMA StepKeeps ==
  ASSUME OpenInv, NEW p \in Proc, ProcessTypes', LeftBehind(file', journal', wal'), WalOK',
         Leads(Committed, Committed'), OthersStay(p),
         \A q \in Proc \ {p} : (q \in walUsers' <=> q \in walUsers)
                               /\ (writer' = q <=> writer = q),
         writer \in {None, p} \/ UNCHANGED <<file, journal, wal>>,
         Committed.mode = "delete" => Committed'.mode = "delete",
         file'.img.schema = "absent" => file.img.schema = "absent",
         ProcessOK(p)'
  PROVE  OpenInv'
<1>1. ASSUME NEW q \in Proc, q # p PROVE ProcessOK(q)'
  <2>1. writer = q => UNCHANGED <<file, journal, wal>>
    BY <1>1, OpenAssumption
  <2> QED BY <1>1, <2>1, OtherKept DEF OthersStay
<1> QED BY <1>1 DEF OpenInv

\* Only committed frames can show a mode that the file does not.
LEMMA CommittedMode ==
  ASSUME OpenInv
  PROVE  /\ wal # None => Committed.mode = "wal" /\ file.img.mode = "wal" /\ journal = None
         /\ journal = None => Committed.mode = file.img.mode
         /\ journal = None /\ wal = None => Committed = file.img /\ file = Whole(Committed)
         /\ journal # None => Committed = journal /\ wal = None
         /\ file.torn = None /\ journal # None => Committed = file.img
         /\ walUsers # {} => Committed.mode = "wal"
         /\ Committed.mode = "delete" => walUsers = {} /\ wal = None
<1>1. LeftBehind(file, journal, wal) /\ WalOK
  BY DEF OpenInv
<1>2. /\ wal # None => Committed.mode = "wal" /\ file.img.mode = "wal" /\ journal = None
      /\ journal # None => Committed = journal /\ wal = None
      /\ journal = None /\ wal = None => Committed = file.img /\ file.torn = None
      /\ file.torn = None /\ journal # None => Committed = file.img
  BY <1>1, CommittedIs, HeldIs DEF LeftBehind
<1>3. journal = None => Committed.mode = file.img.mode
  BY <1>2
<1>4. walUsers # {} => Committed.mode = "wal"
  BY <1>1, <1>3 DEF WalOK
<1>5. journal = None /\ wal = None => file = Whole(Committed)
  <2>1. file \in [img : Image, torn : Torn \cup {None}]
    BY <1>1 DEF LeftBehind
  <2>2. file = [img |-> file.img, torn |-> file.torn]
    BY <2>1
  <2> QED BY <1>2, <2>2 DEF Whole
<1> QED BY <1>2, <1>3, <1>4, <1>5

\* A process with a lock on the ledger sees the mode its own connection is in.
LEMMA ReadableMode ==
  ASSUME OpenInv, NEW p \in Proc, ~ InTransaction(p), Readable(p)
  PROVE  /\ file.img.mode = "delete" => Committed.mode = "delete"
         /\ file.img.mode = "wal" => journal = None /\ writer = None
<1>1. CASE writer = None
  BY <1>1, CommittedMode DEF Readable, Hot
<1>2. CASE writer # None
  <2>1. PICK q \in Proc : writer = q
    BY <1>2 DEF OpenInv, ProcessTypes
  <2>2. /\ InTransaction(q) /\ q # p /\ me[q].pc # "commit"
        /\ me[q].work = None \/ me[q].work.mode = file.img.mode
    BY <2>1, Places DEF Readable, Exclusive, At
  <2>3. ProcessOK(q)
    BY DEF OpenInv
  <2>4. journal \in {None, file.img} /\ (journal # None => file.torn = None)
    <3>1. file.img \in Image /\ file.img # None
      BY CommittedImage, NoneIsApart
    <3> QED BY <2>2, <2>3, <3>1 DEF ProcessOK, SchemaOK, CommitOK, InTransaction
  <2>5. Committed.mode = file.img.mode
    BY <2>4, CommittedMode
  <2>6. Committed.mode = "delete"
    <3>1. CASE me[q].pc \in {"decide", "restore", "stamp"}
      <4>1. q \notin walUsers
        BY <3>1, Places
      <4> QED BY <2>3, <3>1, <4>1 DEF ProcessOK, PlaceOK, Connected
    <3>2. CASE me[q].pc \in {"txn", "pages"}
      <4>1. me[q].work \in Stored /\ me[q].work.mode = "delete"
        BY <2>3, <3>2 DEF ProcessOK, CommitOK
      <4> QED BY <2>2, <2>5, <4>1, StoredImage
    <3> QED BY <2>2, <3>1, <3>2 DEF InTransaction
  <2> QED BY <2>5, <2>6
<1> QED BY <1>1, <1>2

\* Creating an empty database keeps it; nobody can tell it from none.
LEMMA PrepareStep ==
  ASSUME OpenInv, NEW p \in Proc, PrepareStatePath(p)
  PROVE  /\ OpenInv' /\ Leads(Committed, Committed')
         /\ Committed.mode = "wal" => Committed'.mode = "wal"
<1>0. me[p].pc = "path" /\ ~ InTransaction(p)
  BY DEF PrepareStatePath, At, InTransaction
<1>a. ASSUME UNCHANGED file PROVE Committed' = Committed /\ Leads(Committed, Committed')
  <2>1. Committed' = Committed
    BY <1>a DEF PrepareStatePath, Committed
  <2> QED BY <2>1, SameLeads
<1>1. CASE Return(p, "notfound") /\ UNCHANGED file
  BY <1>0, <1>a, <1>1, StillReturn DEF PrepareStatePath, Still, Answer
<1>2. CASE file.img.schema # "absent" /\ Goto(p, "journal") /\ UNCHANGED file
  BY <1>0, <1>a, <1>2, StillGoto DEF PrepareStatePath, Still, Outside, Copying
<1>3. CASE /\ file.img.schema = "absent" /\ Goto(p, "journal")
           /\ file' = [file EXCEPT !.img.schema = "blank"]
  <2> DEFINE c == file.img
             b == [c EXCEPT !.schema = "blank"]
  <2>1. /\ LeftBehind(file, journal, wal) /\ c \in Image /\ journal = None /\ wal = None
        /\ UNCHANGED <<journal, wal, writer, walUsers>>
    BY <1>3, HeldIs DEF OpenInv, PrepareStatePath
  <2>2. b \in Stored /\ b.mode = "delete" /\ Content(b) = Content(c) /\ b.schema = "blank"
    <3>1. /\ c \in [mode : {"delete", "wal"},
                    schema : {"absent", "blank", "empty", "v1", "mixed", "v2", "alien"},
                    id : {"none", "motus", "other"}, recs : 0..MaxRecords]
          /\ c.schema = "absent" /\ c.mode = "delete" /\ c.id # "other"
      BY <1>3, <2>1 DEF Image, HeaderValid
    <3> HIDE DEF c
    <3> QED BY <3>1 DEF Stored, Image, HeaderValid, Content
  <2>3. file' = Whole(b)
    <3>1. file = Whole(c)
      BY <2>1, CommittedMode
    <3> QED BY <1>3, <3>1 DEF Whole
  <2> HIDE DEF b
  <2>4. /\ LeftBehind(file', journal', wal') /\ file'.img = b
    BY <2>1, <2>2, <2>3, WholeIsLeft
  <2>5. Committed = c /\ Committed' = b
    <3>1. Committed' = Held(file', journal', wal')
      BY DEF Committed, Held
    <3> QED BY <2>1, <2>4, <3>1, CommittedMode, HeldIs
  <2>6. walUsers = {} /\ writer' # p
    <3>1. c.mode = "delete"
      BY <1>3, <2>1 DEF Image, HeaderValid
    <3> QED BY <1>0, <2>1, <2>5, <3>1, CommittedMode, Places
  <2>7. me' \in [Proc -> Progress] /\ OthersStay(p) /\ me'[p].pc = "journal"
    BY <1>3, Places, GotoIs DEF Label, Outside
  <2>8. ProcessTypes' /\ WalOK'
    BY <2>1, <2>6, <2>7 DEF OpenInv, ProcessTypes, WalOK
  <2>9. ProcessOK(p)'
    BY <2>1, <2>2, <2>4, <2>6, <2>7, OutsideOK DEF Outside, Copying
  <2>10. writer = None
    <3>1. ASSUME NEW q \in Proc, writer = q PROVE FALSE
      BY <1>3, <3>1, Places DEF InTransaction
    <3> QED BY <3>1 DEF OpenInv, ProcessTypes
  <2>11. c.mode = "delete"
    BY <1>3, <2>1 DEF Image, HeaderValid
  <2> QED BY <1>3, <2>1, <2>2, <2>4, <2>5, <2>7, <2>8, <2>9, <2>10, <2>11, StepKeeps DEF Leads
<1> QED BY <1>1, <1>2, <1>3 DEF PrepareStatePath

\* The files stay; p gets a connection, in WAL mode or out of it.
LEMMA Connects ==
  ASSUME OpenInv, NEW p \in Proc, me' \in [Proc -> Progress], OthersStay(p),
         ~ InTransaction(p), UNCHANGED <<file, journal, wal, writer>>,
         me[p].pc \in {"source", "connect"},
         \/ /\ walUsers' = walUsers /\ Committed.mode = "delete"
            /\ me'[p].pc \in {"version", "begin"}
         \/ /\ walUsers' = walUsers \cup {p} /\ file.img.mode = "wal"
            /\ journal = None /\ writer = None /\ ~ ReadOnly(p)'
            /\ me'[p].pc = "version" \/ (me'[p].pc = "switch" /\ me'[p].next = "begin")
  PROVE  OpenInv'
<1>1. Committed' = Committed
  BY DEF Committed
<1>2. p \notin walUsers /\ writer # p /\ file.img.schema # "absent" /\ p # "older"
  BY Places, OpenAssumption
<1>3. ProcessTypes' /\ LeftBehind(file', journal', wal') /\ WalOK'
  <2>1. ProcessTypes' /\ LeftBehind(file', journal', wal')
    BY DEF OpenInv, ProcessTypes
  <2>2. WalOK'
    BY <1>1, <1>2 DEF OpenInv, WalOK
  <2> QED BY <2>1, <2>2
<1>4. PlaceOK(p)'
  BY <1>1, <1>2 DEF PlaceOK, InTransaction, Connected, Copying
<1>5. KnowsOK(p)' /\ SchemaOK(p)' /\ CommitOK(p)'
  BY DEF KnowsOK, SchemaOK, CommitOK
<1>6. \A q \in Proc \ {p} : (q \in walUsers' <=> q \in walUsers) /\ (writer' = q <=> writer = q)
  OBVIOUS
<1> QED BY <1>1, <1>3, <1>4, <1>5, <1>6, SameLeads, StepKeeps DEF ProcessOK

\* Opening the source of a migration, or the ledger, keeps it.
LEMMA ConnectSteps ==
  ASSUME OpenInv, NEW p \in Proc, OpenSource(p) \/ Connect(p)
  PROVE  OpenInv'
<1>0. /\ me[p] \in Progress /\ {"version", "begin", "switch"} \subseteq Label
      /\ file.img.mode \in {"delete", "wal"}
  BY Places, CommittedImage DEF Label
<1>1. CASE OpenSource(p)
  <2>1. /\ me[p].pc = "source" /\ Readable(p) /\ UNCHANGED <<file, journal, wal, writer>>
        /\ walUsers' = IF file.img.mode = "wal" THEN walUsers \cup {p} ELSE walUsers
        /\ Goto(p, "version") /\ ~ InTransaction(p) /\ ~ ReadOnly(p)
    BY <1>1, Places DEF OpenSource, At, InTransaction, Copying
  <2>2. /\ me' \in [Proc -> Progress] /\ OthersStay(p) /\ me'[p].pc = "version"
        /\ ~ ReadOnly(p)'
    BY <1>0, <2>1, Places, GotoIs DEF ReadOnly
  <2> QED BY <1>0, <2>1, <2>2, ReadableMode, Connects
<1>2. CASE Connect(p)
  <2>1. /\ me[p].pc = "connect" /\ Readable(p) /\ UNCHANGED <<file, journal, wal, writer>>
        /\ ~ InTransaction(p)
    BY <1>2 DEF Connect, At, InTransaction
  <2>2. CASE /\ file.img.mode = "delete" /\ UNCHANGED walUsers
             /\ Goto(p, IF ReadOnly(p) THEN "version" ELSE "begin")
    <3>1. PICK l \in {"version", "begin"} : Goto(p, l)
      BY <2>2
    <3>2. me' \in [Proc -> Progress] /\ OthersStay(p) /\ me'[p].pc = l
      BY <1>0, <3>1, Places, GotoIs
    <3> QED BY <2>1, <2>2, <3>2, ReadableMode, Connects
  <2>3. CASE Return(p, "failed") /\ UNCHANGED walUsers
    BY <2>1, <2>3, StillReturn DEF Still, Answer
  <2>4. CASE /\ file.img.mode = "wal" /\ ~ ReadOnly(p) /\ walUsers' = walUsers \cup {p}
             /\ me' = [me EXCEPT ![p].pc = "switch", ![p].next = "begin"]
    <3> DEFINE m == [me[p] EXCEPT !.pc = "switch", !.next = "begin"]
    <3>1. m \in Progress /\ m.pc = "switch" /\ m.next = "begin" /\ m.stage = me[p].stage
      BY <1>0 DEF Progress
    <3>2. me' = [me EXCEPT ![p] = m]
      BY <2>4
    <3> HIDE DEF m
    <3>3. me' \in [Proc -> Progress] /\ OthersStay(p) /\ me'[p] = m
      BY <3>1, <3>2, Places, UpdateIs
    <3>4. ~ ReadOnly(p)'
      BY <2>4, <3>1, <3>3 DEF ReadOnly
    <3> QED BY <2>1, <2>4, <3>1, <3>3, <3>4, ReadableMode, Connects
  <2> QED BY <1>2, <2>2, <2>3, <2>4 DEF Connect
<1> QED BY <1>1, <1>2

\* BEGIN IMMEDIATE keeps it: the lock is free, so no journal and no WAL is
\* there.
LEMMA BeginStep == ASSUME OpenInv, NEW p \in Proc, Begin(p) PROVE OpenInv'
<1>0. /\ me[p].pc = "begin" /\ journal = None /\ writer = None /\ writer' = p
      /\ UNCHANGED <<file, journal, wal, walUsers>> /\ me[p] \in Progress
  BY Places DEF Begin, At, Hot
<1>1. /\ Committed' = Committed /\ Committed.mode = "delete" /\ walUsers = {} /\ wal = None
      /\ file.torn = None /\ file.img.schema # "absent"
  <2>1. Committed' = Committed /\ p \notin walUsers /\ file.img.schema # "absent"
    BY <1>0, Places DEF Committed
  <2>2. Committed.mode = "delete"
    BY <1>0, <2>1 DEF OpenInv, ProcessOK, PlaceOK, Connected
  <2> QED BY <1>0, <2>1, <2>2, CommittedMode DEF OpenInv, LeftBehind
<1> DEFINE m == [me[p] EXCEPT !.pc = "decide", !.next = "opened"]
<1>2. m \in Progress /\ m.pc = "decide" /\ m.next = "opened" /\ m.stage = me[p].stage
  <2>1. "decide" \in Label /\ me[p] \in Progress
    BY Places DEF Label
  <2> QED BY <2>1 DEF Progress
<1>3. me' = [me EXCEPT ![p] = m]
  BY DEF Begin
<1> HIDE DEF m
<1>4. me' \in [Proc -> Progress] /\ OthersStay(p) /\ me'[p] = m
  BY <1>2, <1>3, Places, UpdateIs
<1>5. ProcessTypes' /\ LeftBehind(file', journal', wal') /\ WalOK'
  BY <1>0, <1>1, <1>4 DEF OpenInv, ProcessTypes, WalOK
<1>6. PlaceOK(p)'
  BY <1>0, <1>1, <1>2, <1>4 DEF PlaceOK, InTransaction, Copying
<1>7. KnowsOK(p)' /\ SchemaOK(p)' /\ CommitOK(p)'
  BY <1>0, <1>1, <1>2, <1>4 DEF KnowsOK, SchemaOK, CommitOK
<1>8. \A q \in Proc \ {p} : (q \in walUsers' <=> q \in walUsers) /\ (writer' = q <=> writer = q)
  BY <1>0, OpenAssumption
<1> QED BY <1>0, <1>1, <1>4, <1>5, <1>6, <1>7, <1>8, SameLeads, StepKeeps DEF ProcessOK

-----------------------------------------------------------------------------
(* Recovery, the older version, death.                                     *)

\* A step of nobody's progress, while nobody writes.
LEMMA AllKept ==
  ASSUME OpenInv, UNCHANGED me, LeftBehind(file', journal', wal'), WalOK',
         walUsers' \subseteq Proc \cup {"older"}, writer = None, writer' = None,
         Leads(Committed, Committed'),
         \A q \in Proc : q \in walUsers' <=> q \in walUsers,
         \A q \in Proc : Connected(q) /\ Committed.mode = "delete" => Committed'.mode = "delete",
         file'.img.schema = "absent" => file.img.schema = "absent"
  PROVE  OpenInv'
<1>1. ProcessTypes'
  BY DEF OpenInv, ProcessTypes
<1>2. ASSUME NEW q \in Proc PROVE ProcessOK(q)'
  <2>1. me'[q] = me[q] /\ writer # q /\ writer' # q
    BY OpenAssumption
  <2> QED BY <2>1, OtherKept
<1> QED BY <1>1, <1>2 DEF OpenInv

\* Everything the files held is in the database file.
LEMMA WholeHolds ==
  ASSUME NEW img \in Stored, file' = Whole(img), journal' = None, wal' = None
  PROVE  /\ LeftBehind(file', journal', wal') /\ file'.img = img /\ Committed' = img
         /\ file'.img.schema # "absent" /\ file'.torn = None
<1>1. Committed' = Held(file', journal', wal')
  BY DEF Committed, Held
<1>2. LeftBehind(file', journal', wal') /\ file'.img = img /\ file'.torn = None
  BY WholeIsLeft
<1> QED BY <1>1, <1>2, HeldIs, StoredImage

\* Rolling a hot journal back gives every reader what it found before.
LEMMA RecoverStep ==
  ASSUME OpenInv, NEW p \in Proc, RecoverHot(p)
  PROVE  OpenInv' /\ Committed' = Committed
<1>1. /\ journal # None /\ writer = None /\ file' = Whole(RollBack(file, journal))
      /\ journal' = None /\ UNCHANGED <<wal, writer, walUsers, me>>
  BY DEF RecoverHot, Hot
<1>2. /\ LeftBehind(file, journal, wal) /\ walUsers = {} /\ journal \in Stored
      /\ walUsers \subseteq Proc \cup {"older"}
  BY <1>1 DEF OpenInv, WalOK, LeftBehind, ProcessTypes
<1>3. RollBack(file, journal) = journal /\ wal = None /\ Committed = journal
  BY <1>1, <1>2, HeldIs, CommittedIs
<1>4. /\ LeftBehind(file', journal', wal') /\ file'.img = journal /\ Committed' = journal
      /\ file'.img.schema # "absent"
  BY <1>1, <1>2, <1>3, WholeHolds
<1>5. WalOK'
  BY <1>1, <1>2, <1>3 DEF WalOK
<1> QED BY <1>1, <1>2, <1>3, <1>4, <1>5, SameLeads, AllKept

\* Closing a connection in WAL mode, the last one or another.
LEMMA LeavingIs ==
  ASSUME OpenInv, NEW u \in walUsers, LeavesWal(u), UNCHANGED <<journal, writer>>
  PROVE  /\ LeftBehind(file', journal', wal') /\ WalOK' /\ Committed' = Committed
         /\ file'.img.schema # "absent" /\ writer = None /\ Committed.mode = "wal"
         /\ walUsers' = walUsers \ {u}
<1>1. /\ LeftBehind(file, journal, wal) /\ journal = None /\ writer = None
      /\ file.img.mode = "wal" /\ Committed.mode = "wal"
      /\ wal # None => writer = None
      /\ "older" \in walUsers => Motus(Committed) /\ Committed.schema \in {"v1", "v2"}
  BY CommittedMode DEF OpenInv, WalOK
<1>2. file.img \in Image /\ file.img.schema # "absent" /\ Committed \in Stored
  <2>1. file.img \in Image
    BY CommittedImage
  <2>2. file.img.schema # "absent"
    BY <1>1, <2>1 DEF Image, HeaderValid
  <2> QED BY <2>1, <2>2, CommittedImage
<1>3. CASE walUsers = {u}
  <2>1. /\ file' = Whole(Committed) /\ wal' = None /\ walUsers' = {}
    BY <1>1, <1>3 DEF LeavesWal, Committed
  <2>2. /\ LeftBehind(file', journal', wal') /\ Committed' = Committed
        /\ file'.img.schema # "absent"
    BY <1>1, <1>2, <2>1, WholeHolds
  <2>3. WalOK'
    BY <1>1, <2>1 DEF WalOK
  <2> QED BY <1>1, <1>3, <2>1, <2>2, <2>3
<1>4. CASE walUsers # {u}
  <2>1. UNCHANGED <<file, wal, journal, writer>> /\ walUsers' = walUsers \ {u}
    BY <1>4 DEF LeavesWal
  <2>2. Committed' = Committed
    BY <2>1 DEF Committed
  <2>3. WalOK'
    BY <1>1, <2>1, <2>2 DEF WalOK
  <2> QED BY <1>1, <1>2, <2>1, <2>2, <2>3
<1> QED BY <1>3, <1>4

\* Closing the last WAL connection checkpoints, which no reader can tell.
LEMMA LeaveStep ==
  ASSUME OpenInv, NEW p \in Proc, Leave(p)
  PROVE  OpenInv' /\ Committed' = Committed
<1>1. /\ me[p].pc = "leave" /\ LeavesWal(p) /\ UNCHANGED <<journal, writer>>
      /\ me' = [me EXCEPT ![p] = Outcome(me[p], me[p].answer)]
  BY DEF Leave, At
<1>2. /\ p \in walUsers /\ me[p].answer # "ok" /\ me[p] \in Progress
      /\ me[p].answer \in Answer /\ walUsers \subseteq Proc \cup {"older"}
  <2>1. p \in walUsers /\ me[p].answer # "ok" /\ walUsers \subseteq Proc \cup {"older"}
    BY <1>1 DEF OpenInv, ProcessOK, PlaceOK, KnowsOK, ProcessTypes
  <2>2. me[p] \in Progress
    BY Places
  <2> QED BY <2>1, <2>2 DEF Progress
<1> DEFINE m == Outcome(me[p], me[p].answer)
<1>3. m \in Progress /\ m.pc \in {"path", "idle"}
  BY <1>2, OutcomeIs
<1> HIDE DEF m
<1>4. me' \in [Proc -> Progress] /\ OthersStay(p) /\ me'[p] = m
  BY <1>1, <1>3, Places, UpdateIs DEF m
<1>5. /\ LeftBehind(file', journal', wal') /\ WalOK' /\ Committed' = Committed
      /\ file'.img.schema # "absent" /\ writer = None /\ walUsers' = walUsers \ {p}
  BY <1>1, <1>2, LeavingIs
<1>6. ProcessTypes'
  BY <1>1, <1>2, <1>4, <1>5 DEF OpenInv, ProcessTypes
<1>7. writer' # p
  BY <1>1, <1>5, OpenAssumption
<1>8. ProcessOK(p)'
  BY <1>3, <1>4, <1>5, <1>7, OutsideOK DEF Outside, Copying
<1> QED BY <1>1, <1>4, <1>5, <1>6, <1>8, SameLeads, StepKeeps

\* Nor can it tell that the older version leaves or dies.
LEMMA OlderLeavesStep ==
  ASSUME OpenInv, OlderLeaves \/ OlderDies
  PROVE  OpenInv' /\ Committed' = Committed
<1>0. walUsers \subseteq Proc \cup {"older"} /\ "older" \in walUsers /\ "older" \notin Proc
      /\ UNCHANGED <<journal, writer, me>>
  BY OpenAssumption DEF OpenInv, ProcessTypes, OlderLeaves, OlderDies
<1>1. /\ LeftBehind(file', journal', wal') /\ WalOK' /\ Committed' = Committed
      /\ file'.img.schema = "absent" => file.img.schema = "absent"
      /\ writer = None /\ walUsers' = walUsers \ {"older"}
  <2>1. CASE OlderLeaves
    BY <1>0, <2>1, LeavingIs DEF OlderLeaves
  <2>2. CASE OlderDies
    <3>1. UNCHANGED <<file, journal, wal, writer>> /\ walUsers' = walUsers \ {"older"}
      BY <2>2 DEF OlderDies
    <3>2. Committed' = Committed
      BY <3>1 DEF Committed
    <3>3. LeftBehind(file', journal', wal') /\ WalOK' /\ writer = None
      BY <1>0, <3>1, <3>2 DEF OpenInv, WalOK
    <3> QED BY <3>1, <3>2, <3>3
  <2> QED BY <2>1, <2>2
<1> QED BY <1>0, <1>1, SameLeads, AllKept

\* The older version changes the mode of a Motus ledger only.
LEMMA OlderOpensStep ==
  ASSUME OpenInv, OlderOpens
  PROVE  OpenInv' /\ Leads(Committed, Committed') /\ Committed'.mode = "wal"
<1> DEFINE c == file.img
           a == [c EXCEPT !.mode = "wal"]
<1>1. /\ Committed.schema \in {"v1", "v2"} /\ Committed.id # "other"
      /\ journal = None /\ writer = None
      /\ c.mode = "delete" => \A p \in Proc : ~ Connected(p)
      /\ walUsers' = walUsers \cup {"older"}
      /\ UNCHANGED <<journal, wal, writer, me>>
      /\ file' = [file EXCEPT !.img.mode = "wal"]
  BY DEF OlderOpens
<1>2. LeftBehind(file, journal, wal) /\ file = [img |-> c, torn |-> None] /\ Motus(Committed)
  <2>1. LeftBehind(file, journal, wal) /\ Motus(Committed)
    BY <1>1 DEF OpenInv, Motus
  <2>2. file \in [img : Image, torn : Torn \cup {None}] /\ file.torn = None
    BY <1>1, <2>1 DEF LeftBehind
  <2> QED BY <2>1, <2>2
<1>3. file' = [img |-> a, torn |-> None]
  BY <1>1, <1>2
<1>4. c \in Stored /\ c.schema # "blank" /\ (wal = None => Committed = c)
      /\ (wal # None => c.mode = "wal" /\ wal.base = c /\ Committed = wal.img
                        /\ wal.img.mode = "wal" /\ wal \in Frames)
  <2>1. /\ wal = None => Committed = c
        /\ wal # None => c.mode = "wal" /\ wal.base = c /\ Committed = wal.img
                         /\ wal.img.mode = "wal" /\ wal \in Frames
    BY <1>1, <1>2, CommittedIs, HeldIs DEF LeftBehind
  <2>2. c \in Image /\ (c.schema # "absent" => c \in Stored)
    BY CommittedImage
  <2>3. c.schema \notin {"absent", "blank"}
    BY <1>1, <2>1, <2>2 DEF Image, HeaderValid
  <2> QED BY <2>1, <2>2, <2>3
<1>5. /\ a \in Stored /\ a.mode = "wal" /\ a.schema = c.schema /\ Content(a) = Content(c)
      /\ a.id = c.id /\ (c.mode = "wal" => a = c)
  <2>0. c \in Image
    BY <1>4 DEF Stored
  <2> HIDE DEF c
  <2>1. a \in Stored
    BY <1>4, ImageChanges
  <2>2. a.mode = "wal" /\ a.schema = c.schema /\ a.id = c.id /\ a.recs = c.recs
    BY <2>0 DEF Image
  <2>3. c.mode = "wal" => a = c
    BY <2>0 DEF Image
  <2> QED BY <2>1, <2>2, <2>3 DEF Content
<1> HIDE DEF a, c
<1>6. LeftBehind(file', journal', wal') /\ file'.img = a /\ a.schema # "absent"
  BY <1>1, <1>2, <1>3, <1>4, <1>5 DEF LeftBehind, Stored
<1>7. Committed' = IF wal = None THEN a ELSE Committed
  <2>1. Committed' = Held(file', journal', wal')
    BY DEF Committed, Held
  <2>2. journal' = None /\ wal' = wal
    BY <1>1
  <2>3. Held(file', journal', wal') = IF wal' = None THEN file'.img ELSE wal'.img
    BY <1>6, <2>2, HeldIs
  <2> QED BY <1>4, <1>6, <2>1, <2>2, <2>3
<1>8. WalOK'
  <2>1. Motus(Committed') /\ Committed'.schema \in {"v1", "v2"}
    BY <1>1, <1>2, <1>4, <1>5, <1>7 DEF Motus
  <2> QED BY <1>1, <1>5, <1>6, <2>1 DEF WalOK
<1>9. Leads(Committed, Committed')
  BY <1>4, <1>5, <1>7 DEF Leads
<1>10. /\ walUsers' \subseteq Proc \cup {"older"}
       /\ \A q \in Proc : q \in walUsers' <=> q \in walUsers
  BY <1>1, OpenAssumption DEF OpenInv, ProcessTypes
<1>11. \A q \in Proc : Connected(q) /\ Committed.mode = "delete" => Committed'.mode = "delete"
  BY <1>1, <1>4
<1>12. Committed'.mode = "wal"
  BY <1>4, <1>5, <1>7
<1> QED BY <1>1, <1>6, <1>8, <1>9, <1>10, <1>11, <1>12, AllKept

\* And adds records to it, through the WAL.
LEMMA OlderWritesStep ==
  ASSUME OpenInv, OlderWrites
  PROVE  OpenInv' /\ Leads(Committed, Committed') /\ Committed'.mode = "wal"
<1> DEFINE c == Committed
           w == [c EXCEPT !.recs = @ + 1]
<1>1. /\ "older" \in walUsers /\ c.recs < MaxRecords /\ wal' = WalWith(w)
      /\ UNCHANGED <<file, journal, writer, walUsers, me>>
  BY DEF OlderWrites
<1>2. /\ LeftBehind(file, journal, wal) /\ journal = None /\ writer = None
      /\ file.img.mode = "wal" /\ c.mode = "wal" /\ Motus(c) /\ c.schema \in {"v1", "v2"}
      /\ walUsers \subseteq Proc \cup {"older"}
  BY <1>1, CommittedMode DEF OpenInv, WalOK, ProcessTypes
<1>3. file.img \in Stored /\ c \in Stored
  <2>1. file.img.schema # "absent"
    BY <1>2, CommittedImage DEF Image, HeaderValid
  <2> QED BY <2>1, CommittedImage
<1>4. /\ w \in Stored /\ w.mode = "wal" /\ w.schema = c.schema /\ w.id = c.id
      /\ w.recs = c.recs + 1
  <2>0. c \in Image
    BY <1>3 DEF Stored
  <2> HIDE DEF c
  <2>1. w \in Stored
    BY <1>1, <1>3, ImageChanges
  <2>2. w.mode = c.mode /\ w.schema = c.schema /\ w.id = c.id /\ w.recs = c.recs + 1
    BY <2>0 DEF Image
  <2> QED BY <1>2, <2>1, <2>2
<1> HIDE DEF w
<1>5. wal' = [base |-> file.img, img |-> w]
  BY <1>1, <1>2 DEF WalWith, LeftBehind
<1>6. wal' \in Frames /\ wal' # None /\ wal'.base = file.img /\ wal'.img = w
  BY <1>3, <1>4, <1>5, NoneIsApart DEF Frames
<1>7. LeftBehind(file', journal', wal')
  BY <1>1, <1>2, <1>4, <1>6 DEF LeftBehind
<1>8. Committed' = w
  <2>1. Committed' = Held(file', journal', wal')
    BY DEF Committed, Held
  <2> QED BY <1>1, <1>2, <1>6, <1>7, <2>1, HeldIs
<1>9. WalOK'
  BY <1>1, <1>2, <1>4, <1>8 DEF WalOK, Motus
<1>10. Leads(Committed, Committed')
  <2> DEFINE x == Content(c)
             y == [x EXCEPT !.recs = @ + 1]
             n == c.recs + 1
  <2>1. /\ x = [schema |-> x.schema, id |-> c.id, recs |-> c.recs]
        /\ Content(w) = [schema |-> x.schema, id |-> c.id, recs |-> n]
    BY <1>4 DEF Content
  <2>2. y = [x EXCEPT !.recs = n]
    BY <2>1
  <2> HIDE DEF x, y, n
  <2>3. x \in [schema : {x.schema}, id : {c.id}, recs : {c.recs}]
    BY <2>1
  <2>4. y \in [schema : {x.schema}, id : {c.id}, recs : {n}]
    BY <2>2, <2>3
  <2>5. y = Content(w)
    BY <2>1, <2>4
  <2> QED BY <1>1, <1>2, <1>8, <2>5 DEF Leads, x, y
<1> QED BY <1>1, <1>2, <1>4, <1>7, <1>8, <1>9, <1>10, AllKept

\* Dying leaves the files and gives the locks back.
LEMMA CrashStep ==
  ASSUME OpenInv, NEW p \in Proc, Crash(p)
  PROVE  OpenInv' /\ Committed' = Committed
<1>1. /\ me' = [me EXCEPT ![p] = Fresh] /\ writer' = IF writer = p THEN None ELSE writer
      /\ walUsers' = walUsers \ {p} /\ UNCHANGED <<file, journal, wal>>
  BY DEF Crash
<1>2. Committed' = Committed
  BY <1>1 DEF Committed
<1>3. me' \in [Proc -> Progress] /\ OthersStay(p) /\ me'[p] = Fresh /\ Fresh.pc = "idle"
  BY <1>1, FreshIs, Places, UpdateIs DEF Fresh
<1>4. ProcessTypes' /\ LeftBehind(file', journal', wal') /\ WalOK'
  <2>1. ProcessTypes' /\ LeftBehind(file', journal', wal')
    BY <1>1, <1>3 DEF OpenInv, ProcessTypes
  <2>2. WalOK'
    BY <1>1, <1>2, OpenAssumption DEF OpenInv, WalOK
  <2> QED BY <2>1, <2>2
<1>5. /\ p \notin walUsers' /\ writer' # p
      /\ \A q \in Proc \ {p} : (q \in walUsers' <=> q \in walUsers)
                               /\ (writer' = q <=> writer = q)
  BY <1>1, OpenAssumption
<1>6. ProcessOK(p)'
  BY <1>3, <1>5, OutsideOK DEF Outside, Copying
<1> QED BY <1>1, <1>2, <1>3, <1>4, <1>5, <1>6, SameLeads, StepKeeps

-----------------------------------------------------------------------------
(* Out of WAL mode.                                                        *)

\* A step of a process that keeps its connection in WAL mode.
LEMMA InWalKeeps ==
  ASSUME OpenInv, NEW p \in Proc, p \in walUsers, me' \in [Proc -> Progress], OthersStay(p),
         UNCHANGED <<journal, writer, walUsers>>, LeftBehind(file', journal', wal'),
         Leads(Committed, Committed'), file'.img.mode = "wal",
         me'[p].stage = me[p].stage,
         \/ me'[p].pc = "checkpoint"
         \/ me'[p].pc = "switch" /\ me'[p].next = "wheader" /\ Committed'.id = "motus"
         \/ me'[p].pc = "leave" /\ me'[p].answer # "ok"
  PROVE  OpenInv'
<1>1. /\ journal = None /\ writer = None /\ Committed.mode = "wal" /\ ~ ReadOnly(p)
      /\ "older" \in walUsers => Motus(Committed) /\ Committed.schema \in {"v1", "v2"}
  BY CommittedMode, Places DEF OpenInv, WalOK
<1>2. Committed \in Image /\ Committed.schema # "mixed" /\ Committed'.schema # "mixed"
      /\ file'.img.schema # "absent"
  <2>1. Committed' = Held(file', journal', wal') /\ file'.img \in Image
    BY DEF Committed, Held, LeftBehind
  <2>2. file'.img.schema # "absent"
    BY <2>1 DEF Image, HeaderValid
  <2> QED BY <2>1, <2>2, CommittedImage, HeldIs, StoredImage
<1>3. ProcessTypes' /\ WalOK'
  <2>1. "older" \in walUsers => Motus(Committed') /\ Committed'.schema \in {"v1", "v2"}
    BY <1>1, <1>2, LeadsKeeps
  <2> QED BY <1>1, <2>1 DEF OpenInv, ProcessTypes, WalOK
<1>4. writer' # p /\ p \in walUsers' /\ ~ ReadOnly(p)'
  BY <1>1, OpenAssumption DEF ReadOnly
<1>5. PlaceOK(p)'
  BY <1>2, <1>4 DEF PlaceOK, InTransaction
<1>6. KnowsOK(p)' /\ SchemaOK(p)' /\ CommitOK(p)'
  BY DEF KnowsOK, SchemaOK, CommitOK
<1> QED BY <1>1, <1>2, <1>3, <1>5, <1>6, StepKeeps DEF ProcessOK

\* A transaction goes on, or begins where nobody is connected in WAL mode.
LEMMA WritingKeeps ==
  ASSUME OpenInv, NEW p \in Proc, me' \in [Proc -> Progress], OthersStay(p),
         writer \in {None, p}, writer' = p, wal' = None, walUsers \subseteq {p}, walUsers' = {},
         LeftBehind(file', journal', wal'), Committed' = Committed,
         file'.img.schema # "absent", InTransaction(p)',
         me'[p].pc \in {"decide", "restore", "stamp"} => Committed.mode = "delete",
         SchemaOK(p)', CommitOK(p)'
  PROVE  OpenInv'
<1>1. ProcessTypes' /\ WalOK'
  BY DEF OpenInv, ProcessTypes, WalOK
<1>2. PlaceOK(p)'
  BY DEF PlaceOK, InTransaction, Copying
<1>3. KnowsOK(p)'
  BY DEF KnowsOK, InTransaction
<1>4. \A q \in Proc \ {p} : (q \in walUsers' <=> q \in walUsers) /\ (writer' = q <=> writer = q)
  BY OpenAssumption
<1> QED BY <1>1, <1>2, <1>3, <1>4, SameLeads, StepKeeps DEF ProcessOK

\* What a transaction finds.
LEMMA WriterIs ==
  ASSUME OpenInv, NEW p \in Proc, InTransaction(p) \/ writer = p
  PROVE  /\ InTransaction(p) /\ writer = p /\ walUsers = {} /\ wal = None /\ p # None
         /\ me[p] \in Progress
         /\ LeftBehind(file, journal, wal) /\ SchemaOK(p) /\ CommitOK(p)
         /\ file.img \in Stored /\ Committed \in Stored /\ file.img # None /\ Committed # None
         /\ journal # None => Committed = journal /\ RollBack(file, journal) = journal
         /\ journal = None => Committed = file.img /\ file = Whole(Committed)
         /\ file.torn = None => Committed = file.img
         /\ me[p].pc \in {"decide", "restore", "stamp"} => Committed.mode = "delete"
<1>1. writer = p /\ InTransaction(p) /\ p # None /\ me[p] \in Progress
  BY Places, OpenAssumption
<1>2. walUsers = {} /\ wal = None /\ LeftBehind(file, journal, wal)
  BY <1>1 DEF OpenInv, WalOK
<1>3. file.img \in Stored /\ Committed \in Stored
  BY <1>1, Places, CommittedImage DEF InTransaction
<1>4. SchemaOK(p) /\ CommitOK(p) /\ PlaceOK(p)
  BY DEF OpenInv, ProcessOK
<1>5. me[p].pc \in {"decide", "restore", "stamp"} => Committed.mode = "delete"
  BY <1>2, <1>4 DEF PlaceOK, Connected
<1>6. /\ journal # None => Committed = journal /\ RollBack(file, journal) = journal
      /\ journal = None => Committed = file.img /\ file = Whole(Committed)
      /\ file.torn = None => Committed = file.img
  BY <1>2, CommittedMode, HeldIs
<1> QED BY <1>1, <1>2, <1>3, <1>4, <1>5, <1>6, StoredImage

\* A transaction ends, with what it wrote or without.
LEMMA EndingKeeps ==
  ASSUME OpenInv, NEW p \in Proc, writer = p, NEW img \in Stored, Leads(Committed, img),
         Committed.mode = "delete" => img.mode = "delete",
         file' = Whole(img), journal' = None, writer' = None, UNCHANGED <<wal, walUsers>>,
         me' \in [Proc -> Progress], OthersStay(p),
         \/ me'[p].pc \in {"path", "idle", "wheader"}
         \/ me'[p].pc = "begin" /\ img.mode = "delete"
         \/ me'[p].pc = "open" /\ img.mode = "delete" /\ img.schema = "v2" /\ img.id = "motus"
  PROVE  OpenInv' /\ Committed' = img
<1>1. walUsers = {} /\ wal = None /\ p # None
  BY WriterIs
<1>2. /\ LeftBehind(file', journal', wal') /\ file'.img = img /\ Committed' = img
      /\ file'.img.schema # "absent"
  BY <1>1, WholeHolds
<1>3. ProcessTypes' /\ WalOK'
  BY <1>1 DEF OpenInv, ProcessTypes, WalOK
<1>4. PlaceOK(p)'
  BY <1>1, <1>2 DEF PlaceOK, InTransaction, Connected, Copying
<1>5. KnowsOK(p)' /\ SchemaOK(p)' /\ CommitOK(p)'
  BY <1>2 DEF KnowsOK, SchemaOK, CommitOK
<1>6. \A q \in Proc \ {p} : (q \in walUsers' <=> q \in walUsers) /\ (writer' = q <=> writer = q)
  BY OpenAssumption
<1> QED BY <1>2, <1>3, <1>4, <1>5, <1>6, StepKeeps DEF ProcessOK

\* A transaction is rolled back and the call ends.
LEMMA EndReturn ==
  ASSUME OpenInv, NEW p \in Proc, writer = p, NEW r \in Answer, r # "ok", Return(p, r),
         file' = Whole(Committed), journal' = None, writer' = None, UNCHANGED <<wal, walUsers>>
  PROVE  OpenInv' /\ Committed' = Committed
<1>1. Committed \in Stored /\ walUsers = {}
  BY WriterIs
<1>2. me' \in [Proc -> Progress] /\ OthersStay(p) /\ me'[p].pc \in {"path", "idle"}
  BY <1>1, Places, ReturnIs
<1> QED BY <1>1, <1>2, SameLeads, EndingKeeps

\* Setting the mark.
LEMMA Marking ==
  ASSUME NEW c \in Stored, Motus(c), c.id # "motus"
  PROVE  /\ [c EXCEPT !.id = "motus"] \in Stored
         /\ Leads(c, [c EXCEPT !.id = "motus"])
         /\ [c EXCEPT !.id = "motus"].mode = c.mode
         /\ [c EXCEPT !.id = "motus"].id = "motus"
         /\ [c EXCEPT !.id = "motus"].schema = c.schema
<1> DEFINE w == [c EXCEPT !.id = "motus"]
           x == Content(c)
           y == [x EXCEPT !.id = "motus"]
<1>1. c \in Image /\ c.id = "none" /\ c.schema # "alien"
  BY StoredImage DEF Motus
<1>2. /\ w.mode = c.mode /\ w.schema = c.schema /\ w.id = "motus" /\ w.recs = c.recs
  BY <1>1 DEF Image
<1>3. w \in Stored
  BY ImageChanges
<1> HIDE DEF w
<1>4. /\ x = [schema |-> x.schema, id |-> c.id, recs |-> c.recs]
      /\ Content(w) = [schema |-> x.schema, id |-> "motus", recs |-> c.recs]
  BY <1>2 DEF Content
<1>5. y = [x EXCEPT !.id = "motus"]
  OBVIOUS
<1> HIDE DEF x, y
<1>6. x \in [schema : {x.schema}, id : {c.id}, recs : {c.recs}]
  BY <1>4
<1>7. y \in [schema : {x.schema}, id : {"motus"}, recs : {c.recs}]
  BY <1>5, <1>6
<1>8. y = Content(w)
  BY <1>4, <1>7
<1> QED BY <1>1, <1>2, <1>3, <1>8 DEF Leads, x, y, w

\* Setting the mark keeps the invariant, and a WAL ledger in WAL mode.
LEMMA EnsureStep ==
  ASSUME OpenInv, NEW p \in Proc, EnsureIdentity(p)
  PROVE  /\ OpenInv' /\ Leads(Committed, Committed')
         /\ Committed.mode = "wal" => Committed'.mode = "wal"
<1> DEFINE c == Committed
           marked == [c EXCEPT !.id = "motus"]
<1>0. /\ me[p].pc = "ensure" /\ ~ Hot /\ UNCHANGED <<file, journal, walUsers>>
      /\ ~ InTransaction(p) /\ writer # p
  BY Places DEF EnsureIdentity, At, InTransaction
<1>1. me[p] \in Progress /\ file.img \in Stored /\ c \in Stored /\ Motus(c)
  BY <1>0, Places, CommittedImage DEF OpenInv, ProcessOK, KnowsOK
<1>a. {"checkpoint", "txn", "wheader"} \subseteq Label
  BY DEF Label, Outside
<1>b. c.id # "motus" =>
        /\ marked \in Stored /\ Leads(c, marked) /\ marked.mode = c.mode
        /\ marked.id = "motus" /\ marked.schema = c.schema
  BY <1>1, Marking
<1>2. CASE c.id = "motus" /\ Goto(p, IF p \in walUsers THEN "checkpoint" ELSE "wheader")
           /\ UNCHANGED <<wal, writer>>
  <2>1. Committed' = c
    BY <1>0, <1>2 DEF Committed
  <2>2. CASE p \in walUsers
    <3>1. /\ me' \in [Proc -> Progress] /\ OthersStay(p) /\ me'[p].pc = "checkpoint"
          /\ me'[p].stage = me[p].stage
      BY <1>2, <1>a, <2>2, GotoIs, Places
    <3>2. LeftBehind(file', journal', wal') /\ file'.img.mode = "wal"
      BY <1>0, <1>2, <2>2 DEF OpenInv, WalOK
    <3> QED BY <1>0, <1>2, <2>1, <2>2, <3>1, <3>2, SameLeads, InWalKeeps
  <2>3. CASE p \notin walUsers
    <3>1. me' \in [Proc -> Progress] /\ OthersStay(p) /\ me'[p].pc = "wheader"
      BY <1>2, <1>a, <2>3, GotoIs, Places
    <3>2. ProcessOK(p)'
      BY <1>0, <1>1, <1>2, <2>3, <3>1, OutsideOK, StoredImage DEF Outside, Copying
    <3> QED BY <1>0, <1>2, <2>1, <3>1, <3>2, SameLeads, StillKeeps DEF Still
  <2> QED BY <2>2, <2>3
<1>3. CASE /\ c.id # "motus" /\ p \in walUsers /\ wal' = WalWith(marked)
           /\ Goto(p, "checkpoint") /\ UNCHANGED writer
  <2>1. /\ me' \in [Proc -> Progress] /\ OthersStay(p) /\ me'[p].pc = "checkpoint"
        /\ me'[p].stage = me[p].stage
    BY <1>3, <1>a, GotoIs, Places
  <2>2. /\ LeftBehind(file, journal, wal) /\ journal = None /\ file.img.mode = "wal"
        /\ c.mode = "wal"
    BY <1>3, CommittedMode DEF OpenInv, WalOK
  <2> HIDE DEF marked
  <2>3. wal' = [base |-> file.img, img |-> marked]
    BY <1>3, <2>2 DEF WalWith, LeftBehind
  <2>4. wal' \in Frames /\ wal' # None /\ wal'.base = file.img /\ wal'.img = marked
    BY <1>1, <1>3, <1>b, <2>3, NoneIsApart DEF Frames
  <2>5. LeftBehind(file', journal', wal')
    BY <1>0, <1>3, <1>b, <2>2, <2>4 DEF LeftBehind
  <2>6. Committed' = marked
    <3>1. Committed' = Held(file', journal', wal')
      BY DEF Committed, Held
    <3> QED BY <1>0, <2>2, <2>4, <2>5, <3>1, HeldIs
  <2> QED BY <1>0, <1>3, <1>b, <2>1, <2>2, <2>5, <2>6, InWalKeeps
<1>4. CASE /\ c.id # "motus" /\ p \notin walUsers /\ writer = None /\ writer' = p
           /\ me' = [me EXCEPT ![p].pc = "txn", ![p].work = marked, ![p].next = "wheader"]
           /\ UNCHANGED wal
  <2>1. /\ c.mode = "delete" /\ walUsers = {} /\ wal = None /\ journal = None
        /\ LeftBehind(file, journal, wal)
    <3>1. c.mode = "delete"
      BY <1>0, <1>4 DEF OpenInv, ProcessOK, PlaceOK, Connected
    <3> QED BY <1>0, <1>4, <3>1, CommittedMode DEF Hot, OpenInv
  <2>2. Committed' = c
    BY <1>0, <1>4 DEF Committed
  <2> DEFINE old == me[p]
             m == [old EXCEPT !.pc = "txn", !.work = marked, !.next = "wheader"]
  <2>3. me' = [me EXCEPT ![p] = m]
    BY <1>4
  <2> HIDE DEF marked
  <2>4. old \in Progress /\ marked \in Image /\ "txn" \in Label
    BY <1>1, <1>4, <1>a, <1>b, StoredImage
  <2> HIDE DEF old
  <2>5. m \in Progress /\ m.pc = "txn" /\ m.work = marked /\ m.next = "wheader"
    BY <2>4 DEF Progress
  <2> HIDE DEF m
  <2>6. me' \in [Proc -> Progress] /\ OthersStay(p) /\ me'[p] = m
    BY <2>3, <2>5, Places, UpdateIs
  <2>7. SchemaOK(p)' /\ InTransaction(p)'
    BY <2>5, <2>6 DEF SchemaOK, InTransaction
  <2>8. CommitOK(p)'
    BY <1>0, <1>4, <1>b, <2>1, <2>2, <2>5, <2>6 DEF CommitOK
  <2> QED BY <1>0, <1>1, <1>4, <2>1, <2>2, <2>5, <2>6, <2>7, <2>8, SameLeads, StoredImage,
             WritingKeeps
<1> QED BY <1>2, <1>3, <1>4 DEF EnsureIdentity

\* The checkpoint brings the mark into the file that the change of mode
\* relies on.
LEMMA CheckpointStep ==
  ASSUME OpenInv, NEW p \in Proc, Checkpoint(p)
  PROVE  OpenInv' /\ Committed' = Committed
<1>1. /\ me[p].pc = "checkpoint" /\ file' = Whole(Replay(file, wal)) /\ wal' = None
      /\ UNCHANGED <<journal, writer, walUsers>>
  BY DEF Checkpoint, At
<1>2. /\ p \in walUsers /\ journal = None /\ Committed.mode = "wal" /\ me[p] \in Progress
      /\ Replay(file, wal) = Committed
  BY <1>1, Places, CommittedMode DEF OpenInv, ProcessOK, PlaceOK, WalOK, Committed
<1>3. Committed \in Stored
  BY <1>2, Places, CommittedImage
<1>4. /\ LeftBehind(file', journal', wal') /\ file'.img = Committed /\ Committed' = Committed
  BY <1>1, <1>2, <1>3, WholeHolds
<1>5. CASE Committed.id = "motus"
  <2> DEFINE m == [me[p] EXCEPT !.pc = "switch", !.next = "wheader"]
  <2>1. m \in Progress /\ m.pc = "switch" /\ m.next = "wheader" /\ m.stage = me[p].stage
    <3>1. "switch" \in Label /\ me[p] \in Progress
      BY <1>2 DEF Label
    <3> QED BY <3>1 DEF Progress
  <2>2. me' = [me EXCEPT ![p] = m]
    BY <1>4, <1>5 DEF Checkpoint
  <2> HIDE DEF m
  <2>3. me' \in [Proc -> Progress] /\ OthersStay(p) /\ me'[p] = m
    BY <2>1, <2>2, Places, UpdateIs
  <2> QED BY <1>1, <1>2, <1>4, <1>5, <2>1, <2>3, SameLeads, InWalKeeps
<1>6. CASE Committed.id # "motus"
  <2>1. Return(p, "journal")
    BY <1>4, <1>6 DEF Checkpoint
  <2>2. /\ me' \in [Proc -> Progress] /\ OthersStay(p) /\ me'[p].pc = "leave"
        /\ me'[p].answer = "journal" /\ me'[p].stage = me[p].stage
    BY <1>2, <2>1, Places, ReturnIs DEF Answer
  <2> QED BY <1>1, <1>2, <1>4, <2>2, SameLeads, InWalKeeps
<1> QED BY <1>5, <1>6

\* The only user of a WAL ledger takes it out of WAL, in a transaction.
LEMMA SwitchStep ==
  ASSUME OpenInv, NEW p \in Proc, SwitchMode(p)
  PROVE  OpenInv' /\ Committed' = Committed
<1> DEFINE c == Committed
           w == [c EXCEPT !.mode = "delete"]
<1>1. /\ me[p].pc = "switch" /\ p \in walUsers /\ journal = None /\ c.mode = "wal"
      /\ UNCHANGED journal /\ writer = None
      /\ me[p] \in Progress /\ KnowsOK(p) /\ Replay(file, wal) = c
  BY Places, CommittedMode DEF SwitchMode, At, OpenInv, ProcessOK, PlaceOK, WalOK, Committed
<1>2. c \in Stored
  BY <1>1, Places, CommittedImage
<1>3. CASE /\ walUsers = {p} /\ file' = Whole(c) /\ wal' = None /\ walUsers' = {} /\ writer' = p
           /\ me' = [me EXCEPT ![p].pc = "txn", ![p].work = w]
  <2>1. w \in Stored /\ w.mode = "delete" /\ Leads(c, w) /\ w \in Image
    <3>1. c \in Image
      BY <1>2 DEF Stored
    <3>2. w \in Stored
      BY <1>2, ImageChanges
    <3> HIDE DEF c
    <3>3. w.mode = "delete" /\ w.schema = c.schema /\ w.id = c.id /\ w.recs = c.recs
      BY <3>1 DEF Image
    <3>4. w \in Image
      BY <3>2 DEF Stored
    <3> QED BY <3>2, <3>3, <3>4 DEF Leads, Content
  <2> DEFINE old == me[p]
             m == [old EXCEPT !.pc = "txn", !.work = w]
  <2>2. me' = [me EXCEPT ![p] = m]
    BY <1>3
  <2>3. old \in Progress /\ "txn" \in Label
    BY <1>1 DEF Label
  <2> HIDE DEF w, old
  <2>4. m \in Progress /\ m.pc = "txn" /\ m.work = w /\ m.next = old.next
    BY <2>1, <2>3 DEF Progress
  <2> HIDE DEF m
  <2>5. me' \in [Proc -> Progress] /\ OthersStay(p) /\ me'[p] = m
    BY <2>2, <2>4, Places, UpdateIs
  <2>6. /\ LeftBehind(file', journal', wal') /\ Committed' = c /\ file'.img.schema # "absent"
    BY <1>1, <1>2, <1>3, WholeHolds
  <2>7. m.next \in {"wheader", "begin"} /\ (m.next = "wheader" => c.id = "motus")
    BY <1>1, <2>4 DEF KnowsOK, old
  <2>8. SchemaOK(p)' /\ InTransaction(p)'
    BY <2>4, <2>5 DEF SchemaOK, InTransaction
  <2>9. CommitOK(p)'
    BY <1>1, <2>1, <2>4, <2>5, <2>6, <2>7 DEF CommitOK
  <2> QED BY <1>1, <1>3, <2>4, <2>5, <2>6, <2>8, <2>9, WritingKeeps
<1>4. CASE Return(p, Trouble(p)) /\ UNCHANGED <<file, wal, walUsers, writer>>
  <2>1. Trouble(p) \in Answer /\ Trouble(p) # "ok" /\ Still /\ ~ InTransaction(p)
    BY <1>1, <1>4 DEF Trouble, Answer, Still, InTransaction
  <2>2. Committed' = c
    BY <2>1 DEF Still, Committed
  <2> QED BY <1>4, <2>1, <2>2, StillReturn
<1> QED BY <1>1, <1>3, <1>4 DEF SwitchMode

-----------------------------------------------------------------------------
(* Transactions.                                                           *)

\* The originals are in the journal: what a reader finds stays the same.
LEMMA JournalHolds ==
  ASSUME NEW c \in Stored, journal' = c, wal' = None,
         file' \in [img : Image, torn : Torn \cup {None}], file'.img.schema # "mixed",
         file'.img.schema # "absent",
         IF file'.torn = None THEN file'.img = c ELSE file'.torn.before = c
  PROVE  LeftBehind(file', journal', wal') /\ Committed' = c
<1>1. c # None
  BY StoredImage
<1>2. LeftBehind(file', journal', wal')
  BY <1>1 DEF LeftBehind
<1>3. Committed' = Held(file', journal', wal')
  BY DEF Committed, Held
<1> QED BY <1>1, <1>2, <1>3, HeldIs

\* While originals go to the journal and pages to the file, a reader finds
\* the originals.
LEMMA WriteSteps ==
  ASSUME OpenInv, NEW p \in Proc, WriteJournal(p) \/ WritePages(p)
  PROVE  OpenInv' /\ Committed' = Committed
<1>0. /\ UNCHANGED <<wal, writer, walUsers>> /\ me[p].pc \in {"txn", "pages"}
  BY DEF WriteJournal, WritePages, At
<1>a. InTransaction(p)
  BY <1>0 DEF InTransaction
<1>b. /\ writer = p /\ walUsers = {} /\ wal = None /\ LeftBehind(file, journal, wal)
      /\ CommitOK(p) /\ file.img \in Stored /\ Committed \in Stored /\ file.img # None
      /\ journal # None => Committed = journal
      /\ file.torn = None => Committed = file.img
  BY <1>a, WriterIs
<1>c. file \in [img : Image, torn : Torn \cup {None}] /\ file.img.schema # "mixed"
  BY <1>b DEF LeftBehind
<1>1. CASE WriteJournal(p)
  <2>1. me[p].pc = "txn" /\ journal' = file.img /\ Goto(p, "pages") /\ file' = file
    BY <1>1 DEF WriteJournal, At
  <2>2. journal = None /\ file.torn = None /\ Committed = file.img
    BY <1>b, <2>1 DEF CommitOK, LeftBehind
  <2>3. LeftBehind(file', journal', wal') /\ Committed' = Committed
    BY <1>0, <1>b, <1>c, <2>1, <2>2, JournalHolds DEF Stored
  <2>4. /\ me' \in [Proc -> Progress] /\ OthersStay(p) /\ me'[p].pc = "pages"
        /\ me'[p].work = me[p].work /\ me'[p].next = me[p].next
    <3>1. "pages" \in Label
      BY DEF Label
    <3> QED BY <2>1, <3>1, Places, GotoIs
  <2>5. SchemaOK(p)' /\ InTransaction(p)'
    BY <2>4 DEF SchemaOK, InTransaction
  <2>6. CommitOK(p)'
    BY <1>b, <2>1, <2>2, <2>3, <2>4 DEF CommitOK
  <2>7. file'.img.schema # "absent"
    BY <1>b, <2>1, StoredImage
  <2> QED BY <1>0, <1>b, <2>3, <2>4, <2>5, <2>6, <2>7, WritingKeeps
<1>2. CASE WritePages(p)
  <2>1. me[p].pc = "pages" /\ Goto(p, "commit") /\ journal' = journal
    BY <1>2 DEF WritePages, At
  <2>2. PICK img \in {file.img, me[p].work}, n \in Nonces :
          file' = [img |-> img, torn |-> [before |-> journal, after |-> me[p].work, nonce |-> n]]
    BY <1>2 DEF WritePages
  <2>3. /\ journal = file.img /\ me[p].work \in Stored /\ Committed = journal /\ n \in Int
    BY <1>b, <2>1 DEF CommitOK, Nonces
  <2>4. /\ [before |-> journal, after |-> me[p].work, nonce |-> n] \in Torn /\ img \in Stored
    BY <1>b, <2>3 DEF Torn
  <2>5. /\ file' \in [img : Image, torn : Torn \cup {None}] /\ file'.img = img
        /\ file'.torn # None /\ file'.torn.before = journal
    BY <2>2, <2>4, StoredImage, NoneIsApart
  <2>6. LeftBehind(file', journal', wal') /\ Committed' = Committed
    BY <1>0, <1>b, <2>1, <2>3, <2>4, <2>5, JournalHolds, StoredImage
  <2>7. /\ me' \in [Proc -> Progress] /\ OthersStay(p) /\ me'[p].pc = "commit"
        /\ me'[p].work = me[p].work /\ me'[p].next = me[p].next
    <3>1. "commit" \in Label
      BY DEF Label
    <3> QED BY <2>1, <3>1, Places, GotoIs
  <2>8. SchemaOK(p)' /\ InTransaction(p)'
    BY <2>7 DEF SchemaOK, InTransaction
  <2>9. CommitOK(p)'
    BY <1>b, <2>1, <2>3, <2>6, <2>7 DEF CommitOK
  <2>10. file'.img.schema # "absent"
    BY <2>4, <2>5, StoredImage
  <2> QED BY <1>0, <1>b, <2>6, <2>7, <2>8, <2>9, <2>10, WritingKeeps
<1> QED BY <1>1, <1>2

\* Truncating the journal publishes what the transaction wrote.
LEMMA CommitStep ==
  ASSUME OpenInv, NEW p \in Proc, Commit(p)
  PROVE  /\ OpenInv' /\ Leads(Committed, Committed')
         /\ Committed.mode = "wal" =>
              writer = p /\ (Committed.id = "motus" \/ me[p].next = "begin")
<1> DEFINE w == me[p].work
           n == me[p].next
<1>0. /\ me[p].pc = "commit" /\ file' = Whole(w) /\ journal' = None /\ writer' = None
      /\ UNCHANGED <<wal, walUsers>>
  BY DEF Commit, At
<1>1. writer = p /\ walUsers = {} /\ CommitOK(p) /\ me[p] \in Progress
  BY <1>0, WriterIs DEF InTransaction
<1>2. /\ w \in Stored /\ w.mode = "delete" /\ Leads(Committed, w)
      /\ n \in {"opened", "wheader", "begin", "open"}
      /\ n \in {"opened", "open"} => w.schema = "v2" /\ w.id = "motus"
      /\ Committed.mode = "wal" =>
           n \in {"wheader", "begin"} /\ (n = "wheader" => Committed.id = "motus")
  BY <1>0, <1>1 DEF CommitOK
<1>3. CASE n = "opened" /\ Return(p, "ok")
  <2>1. me' \in [Proc -> Progress] /\ OthersStay(p) /\ me'[p].pc \in {"path", "idle", "open"}
    BY <1>1, <1>3, Places, ReturnIs DEF Answer
  <2> QED BY <1>0, <1>1, <1>2, <1>3, <2>1, EndingKeeps
<1>4. CASE n # "opened" /\ me' = [me EXCEPT ![p].pc = n, ![p].work = None]
  <2> DEFINE old == me[p]
             m == [old EXCEPT !.pc = n, !.work = None]
  <2>1. me' = [me EXCEPT ![p] = m]
    BY <1>4
  <2>2. old \in Progress /\ n \in Label /\ n \in {"wheader", "begin", "open"}
    BY <1>1, <1>2, <1>4 DEF Label, Outside
  <2> HIDE DEF old, n
  <2>3. m \in Progress /\ m.pc = n
    BY <2>2 DEF Progress
  <2> HIDE DEF m
  <2>4. me' \in [Proc -> Progress] /\ OthersStay(p) /\ me'[p].pc = n
    BY <2>1, <2>3, Places, UpdateIs
  <2>5. \/ me'[p].pc \in {"path", "idle", "wheader"}
        \/ me'[p].pc = "begin" /\ w.mode = "delete"
        \/ me'[p].pc = "open" /\ w.mode = "delete" /\ w.schema = "v2" /\ w.id = "motus"
    BY <1>2, <2>2, <2>4
  <2>6. w \in Stored /\ Leads(Committed, w) /\ w.mode = "delete"
    BY <1>2
  <2> HIDE DEF w
  <2>7. OpenInv' /\ Committed' = w
    BY <1>0, <1>1, <2>4, <2>5, <2>6, EndingKeeps
  <2> QED BY <1>1, <1>2, <2>2, <2>6, <2>7 DEF n
<1> QED BY <1>1, <1>2, <1>3, <1>4 DEF Commit

\* ROLLBACK leaves the file clean, with what a reader found anyway.
LEMMA RolledBack ==
  ASSUME OpenInv, NEW p \in Proc, InTransaction(p), RollsBack
  PROVE  file' = Whole(Committed) /\ journal' = None /\ writer' = None /\ writer = p
<1>1. /\ writer = p /\ (journal # None => Committed = journal /\ RollBack(file, journal) = journal)
      /\ journal = None => file = Whole(Committed)
  BY WriterIs
<1> QED BY <1>1 DEF RollsBack

\* A failed statement changes nothing a reader finds.
LEMMA FailStep ==
  ASSUME OpenInv, NEW p \in Proc, Fail(p)
  PROVE  OpenInv' /\ Committed' = Committed
<1>0. Return(p, Trouble(p)) /\ Trouble(p) \in Answer /\ Trouble(p) # "ok"
      /\ UNCHANGED <<wal, walUsers>>
  BY DEF Fail, Trouble, Answer
<1>1. CASE InTransaction(p) /\ RollsBack
  BY <1>0, <1>1, RolledBack, EndReturn
<1>2. CASE me[p].pc \in {"ensure", "checkpoint", "switch"} /\ UNCHANGED <<file, journal, writer>>
  <2>1. Still /\ ~ InTransaction(p) /\ Committed' = Committed
    BY <1>0, <1>2 DEF Still, InTransaction, Committed
  <2> QED BY <1>0, <2>1, StillReturn
<1> QED BY <1>1, <1>2 DEF Fail

\* What the schema statements do to an image.
LEMMA Upgrading ==
  ASSUME NEW c \in Stored, c.schema \in {"blank", "empty", "v1", "v2"}
  PROVE  LET w == [c EXCEPT !.schema = "v2"]
         IN /\ w \in Stored /\ w.schema = "v2" /\ w.mode = c.mode /\ w.id = c.id
            /\ w.recs = c.recs /\ (c.schema = "v2" => w = c)
            /\ [c EXCEPT !.schema = "mixed"] \in Image
            /\ [[c EXCEPT !.schema = "mixed"] EXCEPT !.schema = "v2"] = w
<1> DEFINE w == [c EXCEPT !.schema = "v2"]
           x == [c EXCEPT !.schema = "mixed"]
<1>1. c \in Image
  BY DEF Stored
<1>2. w \in Stored /\ x \in Image
  BY ImageChanges
<1>3. w.schema = "v2" /\ w.mode = c.mode /\ w.id = c.id /\ w.recs = c.recs
  BY <1>1 DEF Image
<1>4. c.schema = "v2" => w = c
  BY <1>1 DEF Image
<1>5. [x EXCEPT !.schema = "v2"] = w
  BY <1>1 DEF Image
<1> QED BY <1>2, <1>3, <1>4, <1>5

\* The statements of initializeSchema stay inside their transaction.
LEMMA SchemaSteps ==
  ASSUME OpenInv, NEW p \in Proc, InitializeSchema(p) \/ RestoreGuard(p)
  PROVE  OpenInv' /\ Committed' = Committed
<1> DEFINE c == file.img
           up == [c EXCEPT !.schema = "v2"]
           old == me[p]
<1>0. /\ UNCHANGED <<file, wal, walUsers>> /\ me[p].pc \in {"decide", "restore"}
  BY DEF InitializeSchema, RestoreGuard, At
<1>a. InTransaction(p)
  BY <1>0 DEF InTransaction
<1>1. /\ writer = p /\ walUsers = {} /\ wal = None /\ c \in Stored /\ Committed = c
      /\ Committed.mode = "delete" /\ old \in Progress /\ SchemaOK(p) /\ old.next = "opened"
      /\ file.torn = None /\ c # None /\ (journal = None => file = Whole(Committed))
      /\ LeftBehind(file, journal, wal)
  <2>1. SchemaOK(p)
    BY <1>a, WriterIs
  <2>2. file.torn = None /\ old.next = "opened"
    BY <1>0, <2>1 DEF SchemaOK
  <2> QED BY <1>0, <1>a, <2>1, <2>2, WriterIs
<1>2. /\ file \in [img : Image, torn : Torn \cup {None}] /\ c.schema \notin {"absent", "mixed"}
  BY <1>1, StoredImage DEF LeftBehind
\* One of the statements is done.
<1>3. ASSUME NEW l \in {"restore", "stamp"}, NEW w \in Image,
             me' = [me EXCEPT ![p].pc = l, ![p].work = w], UNCHANGED writer,
             journal' = c \/ (journal' = journal /\ journal \in {None, c}),
             l = "restore" => c.schema = "v1" /\ w = [c EXCEPT !.schema = "mixed"] /\ journal' = c,
             l = "stamp" => c.schema \in {"blank", "empty", "v1", "v2"} /\ w = up
      PROVE  OpenInv' /\ Committed' = Committed
  <2> DEFINE m == [old EXCEPT !.pc = l, !.work = w]
  <2>1. me' = [me EXCEPT ![p] = m]
    BY <1>3
  <2>2. m \in Progress /\ m.pc = l /\ m.work = w /\ m.next = "opened"
    <3>1. l \in Label /\ old \in Progress /\ w \in Image /\ old.next = "opened"
      BY <1>1 DEF Label
    <3> HIDE DEF old
    <3> QED BY <3>1 DEF Progress
  <2> HIDE DEF m, old
  <2>3. me' \in [Proc -> Progress] /\ OthersStay(p) /\ me'[p] = m
    BY <2>1, <2>2, Places, UpdateIs
  <2>4. LeftBehind(file', journal', wal') /\ Committed' = Committed
    <3>1. CASE journal' = c
      BY <1>0, <1>1, <1>2, <3>1, JournalHolds
    <3>2. CASE journal' = journal
      <4>1. Committed' = Committed
        BY <1>0, <3>2 DEF Committed
      <4> QED BY <1>0, <1>1, <3>2, <4>1
    <3> QED BY <1>3, <3>1, <3>2
  <2>5. SchemaOK(p)'
    BY <1>0, <1>1, <1>3, <2>2, <2>3 DEF SchemaOK
  <2>6. CommitOK(p)' /\ InTransaction(p)'
    BY <2>2, <2>3 DEF CommitOK, InTransaction
  <2> QED BY <1>0, <1>1, <1>2, <1>3, <2>3, <2>4, <2>5, <2>6, WritingKeeps
<1>4. CASE InitializeSchema(p)
  <2>1. me[p].pc = "decide" /\ journal = None
    BY <1>1, <1>4 DEF InitializeSchema, At, SchemaOK
  <2>2. CASE /\ c.schema \in {"blank", "empty"} /\ journal' = c /\ UNCHANGED writer
             /\ me' = [me EXCEPT ![p].pc = "stamp", ![p].work = [c EXCEPT !.schema = "v2"]]
    <3>1. up \in Image
      BY <1>1, <2>2, Upgrading DEF Stored
    <3> HIDE DEF c
    <3> QED BY <1>3, <2>2, <3>1
  <2>3. CASE /\ c.schema = "v1" /\ journal' = c /\ UNCHANGED writer
             /\ me' = [me EXCEPT ![p].pc = "restore", ![p].work = [c EXCEPT !.schema = "mixed"]]
    <3>1. [c EXCEPT !.schema = "mixed"] \in Image
      BY <1>1, <2>3, Upgrading
    <3> HIDE DEF c
    <3> QED BY <1>3, <2>3, <3>1
  <2>4. CASE /\ c.schema = "v2" /\ UNCHANGED <<journal, writer>>
             /\ me' = [me EXCEPT ![p].pc = "stamp", ![p].work = c]
    <3>1. up = c /\ c \in Image
      BY <1>1, <2>4, Upgrading DEF Stored
    <3> HIDE DEF c, up
    <3> QED BY <1>3, <2>1, <2>4, <3>1
  <2>5. CASE Return(p, "invalid") /\ writer' = None /\ UNCHANGED journal
    <3>1. "invalid" \in Answer /\ file' = Whole(Committed) /\ journal' = None
      BY <1>0, <1>1, <2>1, <2>5 DEF Answer
    <3> QED BY <1>0, <1>1, <2>5, <3>1, EndReturn
  <2> QED BY <1>4, <2>2, <2>3, <2>4, <2>5 DEF InitializeSchema
<1>5. CASE RestoreGuard(p)
  <2> DEFINE v == [old.work EXCEPT !.schema = "v2"]
  <2>1. /\ me[p].pc = "restore" /\ UNCHANGED <<journal, writer>>
        /\ me' = [me EXCEPT ![p].pc = "stamp", ![p].work = v]
    BY <1>5 DEF RestoreGuard, At
  <2>2. journal = c /\ c.schema = "v1" /\ old.work = [c EXCEPT !.schema = "mixed"]
    BY <1>1, <2>1 DEF SchemaOK
  <2>3. v = up /\ up \in Image
    BY <1>1, <2>2, Upgrading DEF Stored
  <2> HIDE DEF v, c, up
  <2> QED BY <1>3, <2>1, <2>2, <2>3
<1> QED BY <1>4, <1>5

\* So does the mark, or the rejection of an identity of another program.
LEMMA StampStep ==
  ASSUME OpenInv, NEW p \in Proc, Stamp(p)
  PROVE  OpenInv' /\ Committed' = Committed
<1> DEFINE c == file.img
           old == me[p]
           w == [old.work EXCEPT !.id = "motus"]
<1>0. me[p].pc = "stamp" /\ UNCHANGED <<wal, walUsers>>
  BY DEF Stamp, At
<1>a. InTransaction(p)
  BY <1>0 DEF InTransaction
<1>1. /\ writer = p /\ walUsers = {} /\ wal = None /\ c \in Stored /\ Committed = c
      /\ c.mode = "delete" /\ old \in Progress /\ old.next = "opened"
      /\ LeftBehind(file, journal, wal) /\ file.torn = None
      /\ c.schema \in {"blank", "empty", "v1", "v2"} /\ old.work = [c EXCEPT !.schema = "v2"]
  <2>1. SchemaOK(p)
    BY <1>a, WriterIs
  <2>2. /\ file.torn = None /\ old.next = "opened"
        /\ c.schema \in {"blank", "empty", "v1", "v2"} /\ old.work = [c EXCEPT !.schema = "v2"]
    BY <1>0, <2>1 DEF SchemaOK
  <2> QED BY <1>0, <1>a, <2>2, WriterIs
<1>2. CASE RollsBack /\ Return(p, "invalid")
  BY <1>0, <1>a, <1>2, RolledBack, EndReturn DEF Answer
<1>3. CASE /\ old.work.id # "other" /\ journal' = c /\ UNCHANGED <<file, writer>>
           /\ me' = [me EXCEPT ![p].pc = "pages", ![p].work.id = "motus"]
  <2>1. /\ old.work \in Stored /\ old.work.schema = "v2" /\ old.work.mode = "delete"
        /\ old.work.id = c.id /\ old.work.recs = c.recs /\ (c.schema = "v2" => old.work = c)
    BY <1>1, Upgrading
  <2>2. /\ w \in Stored /\ w.mode = "delete" /\ w.schema = "v2" /\ w.id = "motus"
        /\ w.recs = c.recs
    <3> DEFINE u == old.work
    <3>1. u \in Stored /\ u \in Image
      BY <2>1 DEF Stored
    <3>2. u.mode = "delete" /\ u.schema = "v2" /\ u.recs = c.recs
      BY <2>1
    <3> HIDE DEF u
    <3>3. [u EXCEPT !.id = "motus"] \in Stored
      BY <3>1, ImageChanges
    <3>4. /\ [u EXCEPT !.id = "motus"].mode = "delete" /\ [u EXCEPT !.id = "motus"].schema = "v2"
          /\ [u EXCEPT !.id = "motus"].id = "motus" /\ [u EXCEPT !.id = "motus"].recs = c.recs
      BY <3>1, <3>2 DEF Image
    <3> QED BY <3>3, <3>4 DEF u
  <2>3. Leads(c, w)
    <3>1. CASE c.schema \in {"blank", "empty", "v1"}
      BY <1>3, <2>1, <2>2, <3>1 DEF Leads
    <3>2. CASE c.schema = "v2" /\ c.id = "motus"
      BY <2>2, <3>2 DEF Leads, Content
    <3>3. CASE c.schema = "v2" /\ c.id # "motus"
      <4>1. old.work = c /\ Motus(c)
        BY <1>3, <2>1, <3>3 DEF Motus
      <4>2. w = [c EXCEPT !.id = "motus"]
        BY <4>1
      <4> HIDE DEF w
      <4> QED BY <1>1, <3>3, <4>1, <4>2, Marking
    <3> QED BY <1>1, <3>1, <3>2, <3>3
  <2> DEFINE m == [old EXCEPT !.pc = "pages", !.work = w]
  <2>4. me' = [me EXCEPT ![p] = m]
    BY <1>3
  <2>5. m \in Progress /\ m.pc = "pages" /\ m.work = w /\ m.next = "opened"
    <3>1. "pages" \in Label /\ old \in Progress /\ w \in Image /\ old.next = "opened"
      BY <1>1, <2>2 DEF Label, Stored
    <3> HIDE DEF old, w
    <3> QED BY <3>1 DEF Progress
  <2> HIDE DEF m, old, w
  <2>6. me' \in [Proc -> Progress] /\ OthersStay(p) /\ me'[p] = m
    BY <2>4, <2>5, Places, UpdateIs
  <2>7. LeftBehind(file', journal', wal') /\ Committed' = c /\ c.schema # "absent"
    <3>1. /\ file' \in [img : Image, torn : Torn \cup {None}]
          /\ c.schema \notin {"absent", "mixed"}
      BY <1>1, <1>3, StoredImage DEF LeftBehind
    <3> QED BY <1>0, <1>1, <1>3, <3>1, JournalHolds
  <2>8. SchemaOK(p)' /\ InTransaction(p)'
    BY <2>5, <2>6 DEF SchemaOK, InTransaction
  <2>9. CommitOK(p)'
    BY <1>1, <1>3, <2>2, <2>3, <2>5, <2>6, <2>7 DEF CommitOK
  <2> QED BY <1>0, <1>1, <1>3, <2>5, <2>6, <2>7, <2>8, <2>9, WritingKeeps
<1> QED BY <1>2, <1>3 DEF Stamp

\* A later write begins on a current, marked ledger.
LEMMA RecordStep ==
  ASSUME OpenInv, NEW p \in Proc, Record(p)
  PROVE  OpenInv' /\ Committed' = Committed
<1> DEFINE c == file.img
           w == [c EXCEPT !.recs = @ + 1]
           old == me[p]
<1>0. /\ me[p].pc = "open" /\ journal = None /\ writer = None /\ writer' = p
      /\ c.recs < MaxRecords /\ UNCHANGED <<file, journal, wal, walUsers>>
      /\ me' = [me EXCEPT ![p].pc = "txn", ![p].next = "open", ![p].work = w]
  BY DEF Record, At, Hot
<1>1. /\ walUsers = {} /\ wal = None /\ Committed = c /\ c \in Stored /\ c.mode = "delete"
      /\ c.schema = "v2" /\ c.id = "motus" /\ LeftBehind(file, journal, wal)
      /\ old \in Progress
  <2>1. Committed.mode = "delete" /\ Committed.schema = "v2" /\ Committed.id = "motus"
    <3>1. p \notin walUsers
      BY <1>0, Places
    <3> QED BY <1>0, <3>1 DEF OpenInv, ProcessOK, PlaceOK, KnowsOK, Connected
  <2>2. c \in Stored
    BY <1>0, Places, CommittedImage
  <2> QED BY <1>0, <2>1, <2>2, CommittedMode, Places DEF OpenInv
<1>2. Committed' = Committed
  BY <1>0 DEF Committed
<1>3. /\ w \in Stored /\ w.mode = "delete" /\ w.schema = "v2" /\ w.id = "motus"
      /\ w.recs = c.recs + 1
  <2>1. c \in Image /\ w \in Stored
    BY <1>0, <1>1, ImageChanges DEF Stored
  <2>2. c.mode = "delete" /\ c.schema = "v2" /\ c.id = "motus"
    BY <1>1
  <2> HIDE DEF c
  <2> QED BY <2>1, <2>2 DEF Image
<1> HIDE DEF w
<1>4. Leads(c, w)
  <2> DEFINE x == Content(c)
             y == [x EXCEPT !.recs = @ + 1]
             n == c.recs + 1
  <2>1. /\ x = [schema |-> "v2", id |-> "motus", recs |-> c.recs]
        /\ Content(w) = [schema |-> "v2", id |-> "motus", recs |-> n]
    BY <1>1, <1>3 DEF Content
  <2>2. y = [x EXCEPT !.recs = n]
    BY <2>1
  <2> HIDE DEF x, y, n
  <2>3. x \in [schema : {"v2"}, id : {"motus"}, recs : {c.recs}]
    BY <2>1
  <2>4. y \in [schema : {"v2"}, id : {"motus"}, recs : {n}]
    BY <2>2, <2>3
  <2>5. y = Content(w)
    BY <2>1, <2>4
  <2> QED BY <1>0, <1>1, <2>5 DEF Leads, x, y, Motus
<1> DEFINE m == [old EXCEPT !.pc = "txn", !.next = "open", !.work = w]
<1>5. me' = [me EXCEPT ![p] = m]
  BY <1>0
<1>6. m \in Progress /\ m.pc = "txn" /\ m.next = "open" /\ m.work = w
  <2>1. "txn" \in Label /\ old \in Progress /\ w \in Image
    BY <1>1, <1>3 DEF Label, Stored
  <2> HIDE DEF old
  <2> QED BY <2>1 DEF Progress
<1> HIDE DEF m, old
<1>7. me' \in [Proc -> Progress] /\ OthersStay(p) /\ me'[p] = m
  BY <1>5, <1>6, Places, UpdateIs
<1>8. SchemaOK(p)' /\ InTransaction(p)'
  BY <1>6, <1>7 DEF SchemaOK, InTransaction
<1>9. CommitOK(p)'
  BY <1>0, <1>1, <1>2, <1>3, <1>4, <1>6, <1>7 DEF CommitOK
<1>10. file'.img.schema # "absent"
  BY <1>0, <1>1
<1> QED BY <1>0, <1>1, <1>2, <1>6, <1>7, <1>8, <1>9, <1>10, WritingKeeps

-----------------------------------------------------------------------------
(* The theorems.                                                           *)

\* What killed processes may leave is a start the invariant allows.
LEMMA StartInvariant == Init => OpenInv
<1> SUFFICES ASSUME Init PROVE OpenInv
  OBVIOUS
<1>1. PICK s \in Starts : file = s.file /\ journal = s.journal /\ wal = s.wal
  BY DEF Init
<1>2. LeftBehind(file, journal, wal)
  BY <1>1, StartsAssumption
<1>3. me = [p \in Proc |-> Fresh] /\ writer = None /\ walUsers = {} /\ Fresh.pc = "idle"
  BY DEF Init, Fresh
<1>4. ProcessTypes /\ WalOK
  BY <1>3, FreshIs DEF ProcessTypes, WalOK
<1>5. ASSUME NEW p \in Proc PROVE ProcessOK(p)
  <2>1. me[p].pc = "idle" /\ p \notin walUsers /\ writer # p
    BY <1>3, OpenAssumption
  <2> QED BY <2>1 DEF ProcessOK, PlaceOK, KnowsOK, SchemaOK, CommitOK, InTransaction,
             Connected, Copying
<1> QED BY <1>2, <1>4, <1>5 DEF OpenInv

\* What every step does to what a reader finds.
LedgerMoves ==
  /\ Leads(Committed, Committed')
  /\ Committed.mode = "wal" /\ Committed'.mode = "delete"
       => \/ Committed.id = "motus"
          \/ \E p \in Proc : writer = p /\ me[p].next = "begin"

\* A step that leaves the files leaves what a reader finds.
LEMMA FilesStay ==
  ASSUME UNCHANGED <<file, journal, wal>> PROVE LedgerMoves /\ Committed' = Committed
<1>1. Committed' = Committed
  BY DEF Committed
<1> QED BY <1>1, SameLeads DEF LedgerMoves

\* So does one that only moves it from file to file.
LEMMA SameMoves == ASSUME Committed' = Committed PROVE LedgerMoves
BY SameLeads DEF LedgerMoves

\* Every step of open() keeps the invariant and moves the ledger as it may.
LEMMA OpeningStep ==
  ASSUME OpenInv, NEW p \in Proc, Opening(p)
  PROVE  OpenInv' /\ LedgerMoves
<1>1. CASE PrepareStatePath(p)
  BY <1>1, PrepareStep DEF LedgerMoves
<1>2. CASE HasRollbackJournal(p) \/ InspectHeader(p) \/ Recheck(p)
           \/ RequiresJournalMigration(p) \/ VerifyMigratedHeader(p)
  <2>1. UNCHANGED <<file, journal, wal>>
    BY <1>2 DEF HasRollbackJournal, InspectHeader, Recheck, RequiresJournalMigration,
                VerifyMigratedHeader
  <2> QED BY <1>2, <2>1, LookSteps, FilesStay
<1>3. CASE CopyFile(p) \/ CopySidecar(p) \/ VerifyFile(p) \/ VerifySidecar(p)
  <2>1. UNCHANGED <<file, journal, wal>>
    BY <1>3 DEF CopyFile, CopySidecar, VerifyFile, VerifySidecar
  <2> QED BY <1>3, <2>1, CopySteps, FilesStay
<1>4. CASE ReadVersion(p) \/ ReadStructure(p) \/ ReadIdentity(p) \/ ReadOnlyMeetsHot(p)
           \/ GiveUp(p)
  <2>1. UNCHANGED <<file, journal, wal>>
    BY <1>4 DEF ReadVersion, ReadStructure, ReadIdentity, ReadOnlyMeetsHot, GiveUp
  <2> QED BY <1>4, <2>1, ReadSteps, FilesStay
<1>5. CASE OpenSource(p) \/ Connect(p)
  <2>1. UNCHANGED <<file, journal, wal>>
    BY <1>5 DEF OpenSource, Connect
  <2> QED BY <1>5, <2>1, ConnectSteps, FilesStay
<1>6. CASE Begin(p)
  <2>1. UNCHANGED <<file, journal, wal>>
    BY <1>6 DEF Begin
  <2> QED BY <1>6, <2>1, BeginStep, FilesStay
<1>7. CASE RecoverHot(p) \/ Leave(p) \/ Checkpoint(p) \/ SwitchMode(p)
  BY <1>7, RecoverStep, LeaveStep, CheckpointStep, SwitchStep, SameMoves
<1>8. CASE WriteJournal(p) \/ WritePages(p)
  BY <1>8, WriteSteps, SameMoves
<1>9. CASE Commit(p)
  BY <1>9, CommitStep DEF LedgerMoves
<1>10. CASE EnsureIdentity(p)
  BY <1>10, EnsureStep DEF LedgerMoves
<1>11. CASE InitializeSchema(p) \/ RestoreGuard(p) \/ Stamp(p)
  BY <1>11, SchemaSteps, StampStep, SameMoves
<1> QED BY <1>1, <1>2, <1>3, <1>4, <1>5, <1>6, <1>7, <1>8, <1>9, <1>10, <1>11 DEF Opening

\* And so does every step.
LEMMA NextStep ==
  ASSUME OpenInv, [Next]_vars
  PROVE  OpenInv' /\ LedgerMoves
<1>1. ASSUME NEW p \in Proc, Opening(p) PROVE OpenInv' /\ LedgerMoves
  BY <1>1, OpeningStep
<1>2. ASSUME NEW p \in Proc, Call(p) \/ Close(p) PROVE OpenInv' /\ LedgerMoves
  <2>1. UNCHANGED <<file, journal, wal>>
    BY <1>2 DEF Call, Close
  <2> QED BY <1>2, <2>1, CallStep, CloseStep, FilesStay
<1>3. ASSUME NEW p \in Proc, Fail(p) \/ Record(p) \/ Crash(p) PROVE OpenInv' /\ LedgerMoves
  BY <1>3, FailStep, RecordStep, CrashStep, SameMoves
<1>4. CASE OlderOpens
  BY <1>4, OlderOpensStep DEF LedgerMoves
<1>5. CASE OlderWrites
  BY <1>5, OlderWritesStep DEF LedgerMoves
<1>6. CASE OlderLeaves \/ OlderDies
  BY <1>6, OlderLeavesStep, SameMoves
<1>7. CASE UNCHANGED vars
  <2>1. UNCHANGED <<file, journal, wal, writer, walUsers, me>>
    BY <1>7 DEF vars
  <2>2. Committed' = Committed
    BY <2>1 DEF Committed
  <2>3. OpenInv'
    BY <2>1, <2>2 DEF OpenInv, ProcessTypes, WalOK, ProcessOK, PlaceOK, KnowsOK, SchemaOK,
                      CommitOK, InTransaction, Connected, ReadOnly
  <2> QED BY <2>2, <2>3, SameMoves
<1> QED BY <1>1, <1>2, <1>3, <1>4, <1>5, <1>6, <1>7 DEF Next, Environment

\* The invariant holds whatever the processes, the older version and
\* crashes do, from any files that killed processes may leave.
THEOREM OpenInvHolds == Spec => []OpenInv
<1>1. OpenInv /\ [Next]_vars => OpenInv'
  BY NextStep
<1> QED BY <1>1, StartInvariant, PTL DEF Spec

\* A store handed to the caller is a current, marked ledger, whatever the
\* other processes, the older version and crashes did meanwhile (open).
THEOREM OpenedLedgerIsCurrent == Spec => []OpenedIsCurrent
<1>1. OpenInv => OpenedIsCurrent
  BY DEF OpenInv, ProcessOK, KnowsOK, OpenedIsCurrent
<1> QED BY <1>1, OpenInvHolds, PTL

\* Opening, migrating, recovering and dying only ever take the steps of
\* LedgerFormat (initializeSchema, migrateWALJournal).
THEOREM OpeningKeepsFormat == Spec => KeepsFormat
<1>1. Init => Format!TypeOK
  <2> SUFFICES ASSUME OpenInv PROVE Content(Committed) \in
                 [schema : {"empty", "v1", "v2", "alien"},
                  id : {"none", "motus", "other"}, recs : 0..MaxRecords]
    BY StartInvariant DEF Format!TypeOK
  <2> DEFINE c == Committed
  <2>1. c \in Image /\ c.schema # "mixed"
    BY CommittedImage
  <2> HIDE DEF c
  <2>2. Content(c) \in [schema : {"empty", "v1", "v2", "alien"},
                         id : {"none", "motus", "other"}, recs : 0..MaxRecords]
    BY <2>1 DEF Content, Image
  <2> QED BY <2>2 DEF c
<1>2. OpenInv /\ [Next]_vars => [Format!Next]_(Content(Committed))
  BY NextStep, CommittedImage, LeadsIsFormat DEF LedgerMoves
<1> QED BY <1>1, <1>2, OpenInvHolds, PTL DEF Spec, KeepsFormat, Format!Spec

\* No interruption of the migration leaves an unmarked ledger out of WAL mode
\* (migrateWALJournal).
THEOREM MarkedBeforeSwitch == Spec => UnmarkedStaysInWAL
<1>1. OpenInv /\ [Next]_vars =>
        [Committed.mode = "wal" /\ Committed'.mode = "delete"
           => \/ Committed.id = "motus"
              \/ \E p \in Proc : writer = p /\ me[p].next = "begin"]_vars
  BY NextStep DEF LedgerMoves
<1> QED BY <1>1, OpenInvHolds, PTL DEF Spec, UnmarkedStaysInWAL

-----------------------------------------------------------------------------
(* A database that is not a Motus ledger.                                  *)

\* How far a process gets with it: copies are of the file as it is, only a
\* read-only connection passes a file with pages of another transaction, and
\* nobody comes to the statements that write.
Barred ==
  {"idle", "path", "journal", "header", "recheck", "copyfile", "copyside", "verifyfile",
   "verifyside", "mode", "connect", "version", "structure", "identity", "begin",
   "decide", "restore", "stamp"}

\* How far p has got, and what it holds of the database.
BarredAt(p) ==
  /\ me[p].pc \in Barred
  /\ me[p].pc \in {"version", "structure", "identity"} => ReadOnly(p)
  /\ me[p].pc \in {"mode", "connect", "begin"} => ReadOnly(p) \/ file.torn = None
  /\ me[p].pc = "connect" => ReadOnly(p) \/ file.img.mode = "delete"
  /\ me[p].pc = "recheck" => me[p].kind = "rollback"
  /\ me[p].pc \in {"copyfile", "copyside", "verifyfile", "verifyside"} =>
       me[p].kind = "rollback" \/ (me[p].kind = "wal" /\ file.torn = None)
  /\ me[p].pc \in {"copyside", "verifyfile", "verifyside"} => me[p].copied = file
  /\ me[p].pc \in {"verifyfile", "verifyside"} /\ me[p].kind = "rollback" =>
       me[p].side # None

\* The invariant about such a database.
AlienInv == ~ Motus(Committed) => walUsers = {} /\ \A p \in Proc : BarredAt(p)

\* Its files, and that validateSchemaForRecovery refuses it.
LEMMA AlienIs ==
  ASSUME OpenInv, ~ Motus(Committed)
  PROVE  /\ ~ Recoverable(Committed) /\ file.img \in Stored /\ Committed \in Stored
         /\ "older" \notin walUsers
         /\ LeftBehind(file, journal, wal)
         /\ file.torn = None => file = Whole(file.img)
         /\ journal = None => file.torn = None
         /\ journal # None => Committed = journal /\ RollBack(file, journal) = journal
                              /\ wal = None
         /\ journal # None /\ file.torn = None => file = Whole(journal)
         /\ journal # None /\ file.torn = None => Committed = file.img
<1>1. LeftBehind(file, journal, wal) /\ Committed = Held(file, journal, wal)
  BY CommittedIs DEF OpenInv
<1>2. /\ journal # None => Committed = journal /\ RollBack(file, journal) = journal /\ wal = None
      /\ journal = None => file.torn = None
      /\ file.img \in Image
      /\ file.img.schema # "absent" => file.img \in Stored /\ Committed \in Stored
      /\ file.img.schema = "absent" => journal = None /\ wal = None
  BY <1>1, HeldIs
<1>3. file.img.schema # "absent"
  <2>1. ASSUME file.img.schema = "absent" PROVE FALSE
    <3>1. Committed = file.img
      BY <1>1, <1>2, <2>1, HeldIs
    <3> QED BY <1>2, <2>1, <3>1 DEF Motus, Image, HeaderValid
  <2> QED BY <2>1
<1>4. file.torn = None => file = Whole(file.img) /\ (journal # None => file.img = journal)
  <2>1. file \in [img : Image, torn : Torn \cup {None}]
        /\ (file.torn = None /\ journal # None => file.img = journal)
    BY <1>1 DEF LeftBehind
  <2>2. file = [img |-> file.img, torn |-> file.torn]
    BY <2>1
  <2> QED BY <2>1, <2>2 DEF Whole
<1>5. ~ Recoverable(Committed)
  <2>1. Committed \in Stored
    BY <1>2, <1>3
  <2>2. Committed.schema = "alien" \/ Committed.id = "other"
    BY DEF Motus
  <2> QED BY <2>1, <2>2, StoredImage DEF Recoverable, Structure, Version, IsEmptyDatabase
<1> QED BY <1>1, <1>2, <1>3, <1>4, <1>5 DEF OpenInv, WalOK

\* What is copied of it is what it holds, and is refused.
LEMMA AlienCopy ==
  ASSUME OpenInv, ~ Motus(Committed), NEW p \in Proc, BarredAt(p),
         me[p].pc = "verifyside", Sidecar(p) = me[p].side
  PROVE  ~ CopyAccepted(me[p])
<1>1. me[p].copied = file
  BY DEF BarredAt
<1>a. /\ ~ Recoverable(Committed)
      /\ journal # None => RollBack(file, journal) = Committed /\ wal = None
      /\ journal # None /\ file.torn = None => Committed = file.img
  BY AlienIs
<1>2. CASE me[p].kind = "rollback"
  <2>1. me[p].side = journal /\ journal # None
    BY <1>2 DEF BarredAt, Sidecar
  <2>2. RecoveredCopy(me[p]) = Committed
    BY <1>1, <1>2, <1>a, <2>1 DEF RecoveredCopy
  <2> QED BY <1>a, <2>2 DEF CopyAccepted
<1>3. CASE me[p].kind = "wal" /\ file.torn = None
  <2>1. RecoveredCopy(me[p]) = Replay(file, wal)
    BY <1>1, <1>3 DEF Sidecar, RecoveredCopy
  <2>2. Replay(file, wal) = Committed
    <3>1. CASE journal = None
      BY <3>1 DEF Committed
    <3>2. CASE journal # None
      BY <1>3, <1>a, <3>2 DEF Replay
    <3> QED BY <3>1, <3>2
  <2> QED BY <1>a, <2>1, <2>2 DEF CopyAccepted
<1> QED BY <1>2, <1>3 DEF BarredAt

\* No call on it succeeds.
LEMMA AlienReturn ==
  ASSUME OpenInv, OpenInv', ~ Motus(Committed'), walUsers = {}, NEW p \in Proc,
         NEW r \in Answer, Return(p, r)
  PROVE  OthersStay(p) /\ BarredAt(p)'
<1>1. OthersStay(p) /\ me'[p].pc \in {"path", "idle", "open"}
  BY Places, ReturnIs
<1>2. me'[p].pc # "open"
  <2>1. KnowsOK(p)'
    BY DEF OpenInv, ProcessOK
  <2> QED BY <2>1 DEF KnowsOK, Motus
<1> QED BY <1>1, <1>2 DEF BarredAt, Barred

\* A step of p that such a database stands.
AlienStands(p) == UNCHANGED <<file, wal, walUsers>> /\ OthersStay(p) /\ BarredAt(p)'

\* Looking at its files leads to no place where it would be written.
LEMMA AlienLooks ==
  ASSUME OpenInv, OpenInv', ~ Motus(Committed), ~ Motus(Committed'), walUsers = {},
         NEW p \in Proc, BarredAt(p),
         PrepareStatePath(p) \/ HasRollbackJournal(p) \/ InspectHeader(p) \/ Recheck(p)
         \/ RequiresJournalMigration(p)
  PROVE  AlienStands(p)
<1>0. /\ me[p] \in Progress /\ me \in [Proc -> Progress]
      /\ {"journal", "mode", "header", "recheck", "copyfile", "connect"} \subseteq Label
      /\ {"notfound", "invalid", "rollback", "journal"} \subseteq Answer
  BY Places DEF Label, Outside, Answer
<1>a. /\ journal = None => file.torn = None
      /\ file.img \in Image /\ file.img.schema # "absent"
  BY AlienIs, StoredImage
<1>b. /\ UNCHANGED <<wal, walUsers>> /\ UNCHANGED file
  BY <1>a DEF PrepareStatePath, HasRollbackJournal, InspectHeader, Recheck,
              RequiresJournalMigration
<1>c. ASSUME NEW r \in {"notfound", "invalid", "rollback", "journal"}, Return(p, r)
      PROVE  AlienStands(p)
  BY <1>0, <1>b, <1>c, AlienReturn DEF AlienStands
<1>1. CASE PrepareStatePath(p) \/ HasRollbackJournal(p)
  <2>1. \/ Return(p, "notfound")
        \/ Goto(p, "journal") \/ Goto(p, "header")
        \/ Goto(p, "mode") /\ file.torn = None
    BY <1>1, <1>a DEF PrepareStatePath, HasRollbackJournal
  <2>2. CASE Goto(p, "journal")
    BY <1>0, <1>b, <2>2, GotoIs DEF AlienStands, BarredAt, Barred
  <2>3. CASE Goto(p, "header")
    BY <1>0, <1>b, <2>3, GotoIs DEF AlienStands, BarredAt, Barred
  <2>4. CASE Goto(p, "mode") /\ file.torn = None
    BY <1>0, <1>b, <2>4, GotoIs DEF AlienStands, BarredAt, Barred
  <2> QED BY <1>c, <2>1, <2>2, <2>3, <2>4
<1>2. CASE InspectHeader(p)
  <2>1. \/ Return(p, "invalid") \/ Return(p, "rollback")
        \/ Goto(p, "mode") /\ ReadOnly(p)
        \/ me' = [me EXCEPT ![p].pc = "recheck", ![p].kind = "rollback", ![p].tries = 0]
    BY <1>2 DEF InspectHeader
  <2>2. CASE Goto(p, "mode") /\ ReadOnly(p)
    BY <1>0, <1>b, <2>2, GotoIs DEF AlienStands, BarredAt, Barred, ReadOnly
  <2>3. CASE me' = [me EXCEPT ![p].pc = "recheck", ![p].kind = "rollback", ![p].tries = 0]
    <3>1. OthersStay(p) /\ me'[p].pc = "recheck" /\ me'[p].kind = "rollback"
      BY <1>0, <2>3 DEF Progress, OthersStay
    <3> QED BY <1>b, <3>1 DEF AlienStands, BarredAt, Barred
  <2> QED BY <1>c, <2>1, <2>2, <2>3
<1>3. CASE Recheck(p)
  <2>1. /\ me[p].kind = "rollback"
        /\ \/ /\ journal = None
              /\ me' = [me EXCEPT ![p].pc = "mode", ![p].kind = "none", ![p].tries = 0]
           \/ Goto(p, "copyfile")
    BY <1>3 DEF Recheck, At, BarredAt
  <2>2. CASE /\ journal = None
             /\ me' = [me EXCEPT ![p].pc = "mode", ![p].kind = "none", ![p].tries = 0]
    <3>1. OthersStay(p) /\ me'[p].pc = "mode"
      BY <1>0, <2>2 DEF Progress, OthersStay
    <3> QED BY <1>a, <1>b, <2>2, <3>1 DEF AlienStands, BarredAt, Barred
  <2>3. CASE Goto(p, "copyfile")
    BY <1>0, <1>b, <2>1, <2>3, GotoIs DEF AlienStands, BarredAt, Barred
  <2> QED BY <2>1, <2>2, <2>3
<1>4. CASE RequiresJournalMigration(p)
  <2>1. me[p].pc = "mode"
    BY <1>4 DEF RequiresJournalMigration, At
  <2>2. \/ Return(p, "journal")
        \/ ~ ReadOnly(p) /\ me' = [me EXCEPT ![p].pc = "copyfile", ![p].kind = "wal"]
        \/ ~ (HeaderValid(file.img) /\ file.img.mode = "wal") /\ Goto(p, "connect")
    BY <1>4 DEF RequiresJournalMigration
  <2>3. CASE ~ ReadOnly(p) /\ me' = [me EXCEPT ![p].pc = "copyfile", ![p].kind = "wal"]
    <3>1. OthersStay(p) /\ me'[p].pc = "copyfile" /\ me'[p].kind = "wal"
      BY <1>0, <2>3 DEF Progress, OthersStay
    <3>2. file'.torn = None
      BY <1>b, <2>1, <2>3 DEF BarredAt
    <3> QED BY <1>b, <3>1, <3>2 DEF AlienStands, BarredAt, Barred
  <2>4. CASE ~ (HeaderValid(file.img) /\ file.img.mode = "wal") /\ Goto(p, "connect")
    <3>1. file.img.mode = "delete" /\ (ReadOnly(p) \/ file.torn = None)
      BY <1>a, <2>1, <2>4 DEF Image, BarredAt
    <3>2. OthersStay(p) /\ me'[p].pc = "connect" /\ (ReadOnly(p)' <=> ReadOnly(p))
      BY <1>0, <2>4, GotoIs DEF ReadOnly
    <3> QED BY <1>b, <3>1, <3>2 DEF AlienStands, BarredAt, Barred
  <2> QED BY <1>c, <2>2, <2>3, <2>4
<1> QED BY <1>1, <1>2, <1>3, <1>4

\* Nor does copying it.
LEMMA AlienCopies ==
  ASSUME OpenInv, OpenInv', ~ Motus(Committed), ~ Motus(Committed'), walUsers = {},
         NEW p \in Proc, BarredAt(p),
         CopyFile(p) \/ CopySidecar(p) \/ VerifyFile(p) \/ VerifySidecar(p)
  PROVE  AlienStands(p)
<1>0. /\ me[p] \in Progress /\ me \in [Proc -> Progress]
      /\ "verifyside" \in Label /\ {"invalid", "busy", "journal"} \subseteq Answer
  BY Places DEF Label, Outside, Answer
<1>b. /\ UNCHANGED <<wal, walUsers>> /\ UNCHANGED file
      /\ me[p].pc \in {"copyfile", "copyside", "verifyfile", "verifyside"}
  BY DEF CopyFile, CopySidecar, VerifyFile, VerifySidecar, At
<1>a. me[p].kind = "rollback" \/ (me[p].kind = "wal" /\ file.torn = None)
  BY <1>b DEF BarredAt
<1>c. ASSUME NEW r \in {"invalid", "busy", "journal"}, Return(p, r)
      PROVE  AlienStands(p)
  BY <1>0, <1>b, <1>c, AlienReturn DEF AlienStands
<1>d. ASSUME Retry(p) PROVE AlienStands(p)
  <2>1. CASE me[p].tries < Retries
    <3> DEFINE l == IF me[p].kind = "rollback" THEN "recheck" ELSE "copyfile"
    <3>1. me' = [me EXCEPT ![p].pc = l, ![p].tries = @ + 1, ![p].copied = None,
                           ![p].side = None]
      BY <1>d, <2>1 DEF Retry
    <3>2. OthersStay(p) /\ me'[p].pc = l /\ me'[p].kind = me[p].kind
      <4> HIDE DEF l
      <4> QED BY <1>0, <3>1 DEF Progress, OthersStay
    <3> QED BY <1>a, <1>b, <3>2 DEF AlienStands, BarredAt, Barred
  <2>2. CASE ~ (me[p].tries < Retries)
    <3>1. PICK r \in {"journal", "busy"} : Return(p, r)
      BY <1>d, <2>2 DEF Retry
    <3> QED BY <1>c, <3>1
  <2> QED BY <2>1, <2>2
<1>1. CASE CopyFile(p)
  <2>1. me' = [me EXCEPT ![p].pc = "copyside", ![p].copied = file]
    BY <1>1 DEF CopyFile
  <2>2. OthersStay(p) /\ me'[p].pc = "copyside" /\ me'[p].copied = file
        /\ me'[p].kind = me[p].kind
    BY <1>0, <2>1 DEF Progress, OthersStay
  <2> QED BY <1>a, <1>b, <2>2 DEF AlienStands, BarredAt, Barred
<1>2. CASE CopySidecar(p)
  <2>1. \/ Retry(p)
        \/ /\ me[p].kind = "wal" \/ journal # None
           /\ me' = [me EXCEPT ![p].pc = "verifyfile", ![p].side = Sidecar(p)]
    BY <1>2 DEF CopySidecar
  <2>2. CASE /\ me[p].kind = "wal" \/ journal # None
             /\ me' = [me EXCEPT ![p].pc = "verifyfile", ![p].side = Sidecar(p)]
    <3>1. /\ OthersStay(p) /\ me'[p].pc = "verifyfile" /\ me'[p].side = Sidecar(p)
          /\ me'[p].kind = me[p].kind /\ me'[p].copied = me[p].copied
      BY <1>0, <2>2 DEF Progress, OthersStay
    <3>2. me[p].copied = file /\ (me[p].kind = "rollback" => Sidecar(p) # None)
      BY <1>2, <2>2 DEF BarredAt, CopySidecar, At, Sidecar
    <3> QED BY <1>a, <1>b, <3>1, <3>2 DEF AlienStands, BarredAt, Barred
  <2> QED BY <1>d, <2>1, <2>2
<1>3. CASE VerifyFile(p)
  <2>1. me[p].pc = "verifyfile" /\ (Retry(p) \/ Goto(p, "verifyside"))
    BY <1>3 DEF VerifyFile, At
  <2>2. CASE Goto(p, "verifyside")
    <3>1. me[p].copied = file /\ (me[p].kind = "rollback" => me[p].side # None)
      BY <2>1 DEF BarredAt
    <3>2. /\ OthersStay(p) /\ me'[p].pc = "verifyside" /\ me'[p].side = me[p].side
          /\ me'[p].kind = me[p].kind /\ me'[p].copied = me[p].copied
      BY <1>0, <2>2, GotoIs
    <3> QED BY <1>a, <1>b, <3>1, <3>2 DEF AlienStands, BarredAt, Barred
  <2> QED BY <1>d, <2>1, <2>2
<1>4. CASE VerifySidecar(p)
  <2>1. Retry(p) \/ Return(p, "invalid")
    <3>1. Sidecar(p) = me[p].side => ~ CopyAccepted(me[p])
      BY <1>4, AlienCopy DEF VerifySidecar, At
    <3> QED BY <1>4, <3>1 DEF VerifySidecar
  <2> QED BY <1>c, <1>d, <2>1
<1> QED BY <1>1, <1>2, <1>3, <1>4

\* Nor does connecting to it and reading it.
LEMMA AlienReads ==
  ASSUME OpenInv, OpenInv', ~ Motus(Committed), ~ Motus(Committed'), walUsers = {},
         NEW p \in Proc, BarredAt(p),
         Connect(p) \/ ReadVersion(p) \/ ReadStructure(p) \/ ReadIdentity(p)
         \/ ReadOnlyMeetsHot(p) \/ GiveUp(p)
  PROVE  AlienStands(p)
<1>0. /\ me[p] \in Progress /\ me \in [Proc -> Progress]
      /\ {"version", "begin"} \subseteq Label
      /\ {"invalid", "busy", "journal", "failed", "rollback", "identity", "schema", "ok"}
           \subseteq Answer
  BY Places DEF Label, Answer
<1>c. ASSUME NEW r \in Answer, Return(p, r), UNCHANGED <<file, wal, walUsers>>
      PROVE  AlienStands(p)
  BY <1>c, AlienReturn DEF AlienStands
<1>1. CASE Connect(p)
  <2>1. /\ me[p].pc = "connect" /\ UNCHANGED <<file, wal>>
        /\ ReadOnly(p) \/ (file.torn = None /\ file.img.mode = "delete")
    BY <1>1 DEF Connect, At, BarredAt
  <2>2. \/ /\ file.img.mode = "delete" /\ UNCHANGED walUsers
           /\ Goto(p, IF ReadOnly(p) THEN "version" ELSE "begin")
        \/ Return(p, "failed") /\ UNCHANGED walUsers
    BY <1>1, <2>1 DEF Connect
  <2>3. CASE /\ file.img.mode = "delete" /\ UNCHANGED walUsers
             /\ Goto(p, IF ReadOnly(p) THEN "version" ELSE "begin")
    <3>1. CASE ReadOnly(p)
      BY <1>0, <2>1, <2>3, <3>1, GotoIs DEF AlienStands, BarredAt, Barred, ReadOnly
    <3>2. CASE ~ ReadOnly(p)
      BY <1>0, <2>1, <2>3, <3>2, GotoIs DEF AlienStands, BarredAt, Barred
    <3> QED BY <3>1, <3>2
  <2> QED BY <1>0, <1>c, <2>1, <2>2, <2>3
<1>2. CASE ReadVersion(p) \/ ReadStructure(p)
  <2>1. me[p].pc \in {"version", "structure"} /\ ReadOnly(p) /\ UNCHANGED <<file, wal, walUsers>>
    BY <1>2 DEF ReadVersion, ReadStructure, At, BarredAt
  <2>2. \/ Return(p, "invalid")
        \/ me' = [me EXCEPT ![p].pc = "structure", ![p].ver = Version(Committed)]
        \/ me' = [me EXCEPT ![p].pc = "identity",
                            ![p].structure = Structure(me[p].ver, Committed)]
    BY <1>2 DEF ReadVersion, ReadStructure
  <2>3. CASE me' = [me EXCEPT ![p].pc = "structure", ![p].ver = Version(Committed)]
    <3>1. OthersStay(p) /\ me'[p].pc = "structure" /\ me'[p].stage = me[p].stage
      <4> HIDE DEF Version
      <4> QED BY <1>0, <2>3 DEF Progress, OthersStay
    <3> QED BY <2>1, <3>1 DEF AlienStands, BarredAt, Barred, ReadOnly
  <2>4. CASE me' = [me EXCEPT ![p].pc = "identity",
                              ![p].structure = Structure(me[p].ver, Committed)]
    <3>1. OthersStay(p) /\ me'[p].pc = "identity" /\ me'[p].stage = me[p].stage
      <4> HIDE DEF Structure
      <4> QED BY <1>0, <2>4 DEF Progress, OthersStay
    <3> QED BY <2>1, <3>1 DEF AlienStands, BarredAt, Barred, ReadOnly
  <2> QED BY <1>0, <1>c, <2>1, <2>2, <2>3, <2>4
<1>3. CASE ReadIdentity(p)
  <2>1. me[p].pc = "identity" /\ ReadOnly(p) /\ UNCHANGED <<file, wal, walUsers>>
    BY <1>3 DEF ReadIdentity, At, BarredAt
  <2> DEFINE found == me[p].structure
             r == CASE Committed.id = "other" -> "invalid"
                    [] Committed.id = "none" /\ found = "ok" -> "identity"
                    [] OTHER -> found
  <2>2. Return(p, r)
    BY <1>3, <2>1 DEF ReadIdentity
  <2>3. r \in Answer
    <3>1. found \in {"schema", "ok", "invalid"}
      BY <1>0, <2>1 DEF OpenInv, ProcessOK, KnowsOK, Progress
    <3> QED BY <1>0, <3>1
  <2> HIDE DEF r
  <2> QED BY <1>c, <2>1, <2>2, <2>3
<1>4. CASE ReadOnlyMeetsHot(p) \/ GiveUp(p)
  <2>1. PICK r \in {"invalid", "busy", "journal", "rollback"} : Return(p, r)
    BY <1>4 DEF ReadOnlyMeetsHot, GiveUp
  <2>2. UNCHANGED <<file, wal, walUsers>>
    BY <1>4 DEF ReadOnlyMeetsHot, GiveUp
  <2> QED BY <1>0, <1>c, <2>1, <2>2
<1> QED BY <1>1, <1>2, <1>3, <1>4

\* A transaction on it, or the recovery of its journal, puts back the very
\* file.
LEMMA AlienWrites ==
  ASSUME OpenInv, OpenInv', ~ Motus(Committed), ~ Motus(Committed'), walUsers = {},
         NEW p \in Proc, BarredAt(p),
         RecoverHot(p) \/ Begin(p) \/ InitializeSchema(p) \/ RestoreGuard(p) \/ Stamp(p)
         \/ Fail(p)
  PROVE  AlienStands(p)
<1>0. /\ me[p] \in Progress /\ me \in [Proc -> Progress]
      /\ {"invalid", "journal", "failed"} \subseteq Answer
  BY Places DEF Answer
<1>a. ASSUME NEW r \in {"invalid", "journal", "failed"}, Return(p, r),
             UNCHANGED <<file, wal, walUsers>>
      PROVE  AlienStands(p)
  BY <1>0, <1>a, AlienReturn DEF AlienStands
\* No page is written before the mark, so a transaction rolls back to the file.
<1>b. ASSUME InTransaction(p)
      PROVE  /\ file.torn = None /\ file = Whole(Committed) /\ Committed = file.img
             /\ SchemaOK(p)
             /\ Committed.schema = "alien" \/ Committed.id = "other"
  <2>1. /\ SchemaOK(p) /\ (file.torn = None => Committed = file.img)
        /\ me[p].pc \in {"decide", "restore", "stamp"}
    BY <1>b, WriterIs DEF InTransaction, BarredAt, Barred
  <2>2. file.torn = None
    BY <2>1 DEF SchemaOK
  <2> QED BY <2>1, <2>2, AlienIs DEF Motus
<1>1. CASE RecoverHot(p)
  <2>1. /\ ~ ReadOnly(p) /\ journal # None /\ file' = Whole(RollBack(file, journal))
        /\ UNCHANGED <<wal, walUsers, me>>
        /\ me[p].pc \in {"source", "connect", "version", "structure", "identity", "ensure", "begin"}
    BY <1>1 DEF RecoverHot, Hot
  <2>2. file.torn = None
    BY <2>1 DEF BarredAt, Barred
  <2>3. file' = file
    BY <2>1, <2>2, AlienIs
  <2>4. me'[p] = me[p] /\ OthersStay(p) /\ (ReadOnly(p)' <=> ReadOnly(p))
    BY <2>1 DEF OthersStay, ReadOnly
  <2> QED BY <2>1, <2>3, <2>4 DEF AlienStands, BarredAt
<1>2. CASE Begin(p)
  <2>1. /\ me' = [me EXCEPT ![p].pc = "decide", ![p].next = "opened"]
        /\ UNCHANGED <<file, wal, walUsers>>
    BY <1>2 DEF Begin
  <2>2. OthersStay(p) /\ me'[p].pc = "decide"
    BY <1>0, <2>1 DEF Progress, OthersStay
  <2> QED BY <2>1, <2>2 DEF AlienStands, BarredAt, Barred
<1>3. CASE InitializeSchema(p) \/ RestoreGuard(p)
  <2>1. /\ UNCHANGED <<file, wal, walUsers>>
        /\ \/ Return(p, "invalid")
           \/ \E l \in {"stamp", "restore"} : \E w : me' = [me EXCEPT ![p].pc = l, ![p].work = w]
    <3>1. CASE InitializeSchema(p)
      BY <3>1 DEF InitializeSchema
    <3>2. CASE RestoreGuard(p)
      <4>1. me' = [me EXCEPT ![p].pc = "stamp", ![p].work = [@ EXCEPT !.schema = "v2"]]
        BY <3>2 DEF RestoreGuard
      <4> QED BY <3>2, <4>1 DEF RestoreGuard
    <3> QED BY <1>3, <3>1, <3>2
  <2>2. CASE Return(p, "invalid")
    BY <1>a, <2>1, <2>2
  <2>3. ASSUME NEW l \in {"stamp", "restore"}, NEW w,
               me' = [me EXCEPT ![p].pc = l, ![p].work = w]
        PROVE  AlienStands(p)
    <3>1. OthersStay(p) /\ me'[p].pc = l
      BY <1>0, <2>3 DEF Progress, OthersStay
    <3> QED BY <2>1, <3>1 DEF AlienStands, BarredAt, Barred
  <2> QED BY <2>1, <2>2, <2>3
<1>4. CASE Stamp(p)
  <2>1. me[p].pc = "stamp" /\ UNCHANGED <<wal, walUsers>>
    BY <1>4 DEF Stamp, At
  <2>2. InTransaction(p)
    BY <2>1 DEF InTransaction
  <2>3. me[p].work.id = "other"
    <3>1. /\ file.img.schema \in {"blank", "empty", "v1", "v2"}
          /\ me[p].work = [file.img EXCEPT !.schema = "v2"]
      BY <1>b, <2>1, <2>2 DEF SchemaOK
    <3>2. file.img.id = "other" /\ file.img \in Stored
      BY <1>b, <2>2, <3>1, AlienIs
    <3> QED BY <3>1, <3>2, Upgrading
  <2>4. RollsBack /\ Return(p, "invalid")
    BY <1>4, <2>3 DEF Stamp
  <2>5. file' = file
    BY <1>b, <2>2, <2>4, RolledBack
  <2> QED BY <1>a, <2>1, <2>4, <2>5
<1>5. CASE Fail(p)
  <2>1. /\ Return(p, Trouble(p)) /\ Trouble(p) \in {"journal", "failed"}
        /\ UNCHANGED <<wal, walUsers>>
    BY <1>5 DEF Fail, Trouble
  <2>2. file' = file
    <3>1. CASE InTransaction(p) /\ RollsBack
      BY <1>b, <3>1, RolledBack
    <3>2. CASE UNCHANGED <<file, journal, writer>>
      BY <3>2
    <3> QED BY <1>5, <3>1, <3>2 DEF Fail
  <2> QED BY <1>a, <2>1, <2>2
<1> QED BY <1>1, <1>2, <1>3, <1>4, <1>5

\* No step writes to it.
LEMMA AlienStep ==
  ASSUME OpenInv, OpenInv', LedgerMoves, AlienInv, ~ Motus(Committed), [Next]_vars
  PROVE  AlienInv' /\ UNCHANGED <<file, wal>>
<1>0. /\ ~ Motus(Committed') /\ walUsers = {} /\ \A q \in Proc : BarredAt(q)
      /\ me \in [Proc -> Progress]
  <2>1. /\ Committed \in Image /\ Committed.schema # "mixed" /\ Committed'.schema # "mixed"
    <3>1. Committed' = Held(file', journal', wal') /\ LeftBehind(file', journal', wal')
      BY DEF Committed, Held, OpenInv
    <3>2. file'.img.schema # "mixed"
      BY <3>1 DEF LeftBehind
    <3> QED BY <3>1, <3>2, CommittedImage, HeldIs DEF Stored
  <2> QED BY <2>1, LeadsKeeps DEF LedgerMoves, AlienInv, OpenInv, ProcessTypes
<1>1. ASSUME NEW p \in Proc, AlienStands(p) PROVE AlienInv' /\ UNCHANGED <<file, wal>>
  <2>1. UNCHANGED <<file, wal, walUsers>> /\ OthersStay(p) /\ BarredAt(p)'
    BY <1>1 DEF AlienStands
  <2>2. ASSUME NEW q \in Proc, q # p PROVE BarredAt(q)'
    <3>1. me'[q] = me[q] /\ BarredAt(q) /\ file' = file
      BY <1>0, <2>1, <2>2 DEF OthersStay
    <3> QED BY <3>1 DEF BarredAt, ReadOnly
  <2> QED BY <1>0, <2>1, <2>2 DEF AlienInv
<1>2. ASSUME NEW p \in Proc, Opening(p) PROVE AlienStands(p)
  <2>1. BarredAt(p) /\ me[p].pc \in Barred
    BY <1>0 DEF BarredAt
  <2>2. CASE PrepareStatePath(p) \/ HasRollbackJournal(p) \/ InspectHeader(p) \/ Recheck(p)
             \/ RequiresJournalMigration(p)
    BY <1>0, <2>1, <2>2, AlienLooks
  <2>3. CASE CopyFile(p) \/ CopySidecar(p) \/ VerifyFile(p) \/ VerifySidecar(p)
    BY <1>0, <2>1, <2>3, AlienCopies
  <2>4. CASE Connect(p) \/ ReadVersion(p) \/ ReadStructure(p) \/ ReadIdentity(p)
             \/ ReadOnlyMeetsHot(p) \/ GiveUp(p)
    BY <1>0, <2>1, <2>4, AlienReads
  <2>5. CASE RecoverHot(p) \/ Begin(p) \/ InitializeSchema(p) \/ RestoreGuard(p) \/ Stamp(p)
    BY <1>0, <2>1, <2>5, AlienWrites
  <2>6. ~ (Leave(p) \/ WriteJournal(p) \/ WritePages(p) \/ Commit(p) \/ OpenSource(p)
           \/ EnsureIdentity(p) \/ Checkpoint(p) \/ SwitchMode(p) \/ VerifyMigratedHeader(p))
    BY <2>1 DEF Leave, WriteJournal, WritePages, Commit, OpenSource, EnsureIdentity,
                Checkpoint, SwitchMode, VerifyMigratedHeader, At, Barred
  <2> QED BY <1>2, <2>2, <2>3, <2>4, <2>5, <2>6 DEF Opening
<1>3. ASSUME NEW p \in Proc, Call(p) \/ Fail(p) \/ Record(p) \/ Close(p) \/ Crash(p)
      PROVE  AlienStands(p)
  <2>1. BarredAt(p) /\ me[p].pc \in Barred
    BY <1>0 DEF BarredAt
  <2>2. CASE Fail(p)
    BY <1>0, <2>1, <2>2, AlienWrites
  <2>3. CASE Call(p)
    <3>1. UNCHANGED <<file, wal, walUsers>> /\ OthersStay(p) /\ me'[p].pc = "path"
      BY <1>0, <2>3 DEF Call, OthersStay, Fresh
    <3> QED BY <3>1 DEF AlienStands, BarredAt, Barred
  <2>4. CASE Crash(p)
    <3>1. UNCHANGED <<file, wal, walUsers>> /\ OthersStay(p) /\ me'[p].pc = "idle"
      BY <1>0, <2>4 DEF Crash, OthersStay, Fresh
    <3> QED BY <3>1 DEF AlienStands, BarredAt, Barred
  <2>5. ~ Record(p) /\ ~ Close(p)
    BY <2>1 DEF Record, Close, At, Barred
  <2> QED BY <1>3, <2>2, <2>3, <2>4, <2>5
<1>4. ~ (OlderOpens \/ OlderWrites \/ OlderLeaves \/ OlderDies)
  BY <1>0 DEF OlderOpens, OlderWrites, OlderLeaves, OlderDies, Motus
<1>5. CASE UNCHANGED vars
  <2>1. UNCHANGED <<file, journal, wal, walUsers, me>>
    BY <1>5 DEF vars
  <2> QED BY <1>0, <2>1 DEF AlienInv, BarredAt, ReadOnly
<1> QED BY <1>1, <1>2, <1>3, <1>4, <1>5 DEF Next, Environment

\* A database that is not a Motus ledger is refused without a byte of it or of
\* its WAL written, hot journal or not (validateRollbackSnapshot, validateSchema).
THEOREM AlienIsLeftAlone == Spec => AlienUntouched
<1>1. Init => AlienInv
  <2> SUFFICES ASSUME Init PROVE walUsers = {} /\ \A p \in Proc : BarredAt(p)
    BY DEF AlienInv
  <2>1. walUsers = {} /\ \A p \in Proc : me[p].pc = "idle"
    BY DEF Init, Fresh
  <2> QED BY <2>1 DEF BarredAt, Barred
<1>2. OpenInv /\ AlienInv /\ [Next]_vars =>
        AlienInv' /\ (~ Motus(Committed) => UNCHANGED <<file, wal>>)
  <2> SUFFICES ASSUME OpenInv, AlienInv, [Next]_vars
               PROVE  AlienInv' /\ (~ Motus(Committed) => UNCHANGED <<file, wal>>)
    OBVIOUS
  <2>1. OpenInv' /\ LedgerMoves
    BY NextStep
  <2>2. CASE ~ Motus(Committed)
    BY <2>1, <2>2, AlienStep
  <2>3. CASE Motus(Committed)
    <3>1. Motus(Committed')
      <4>1. Committed' = Held(file', journal', wal') /\ LeftBehind(file', journal', wal')
        BY <2>1 DEF Committed, Held, OpenInv
      <4>2. file'.img.schema # "mixed"
        BY <4>1 DEF LeftBehind
      <4>3. Committed \in Image /\ Committed.schema # "mixed" /\ Committed'.schema # "mixed"
        BY <4>1, <4>2, CommittedImage, HeldIs DEF Stored
      <4> QED BY <2>1, <2>3, <4>3, LeadsKeeps DEF LedgerMoves
    <3> QED BY <2>3, <3>1 DEF AlienInv
  <2> QED BY <2>2, <2>3
<1> QED BY <1>1, <1>2, OpenInvHolds, PTL DEF Spec, AlienUntouched

-----------------------------------------------------------------------------
(* Copies made while others write.                                         *)

\* What the file holds once an unfinished transaction is taken back.  It
\* only grows, so that a file seen twice held the same in between.
Lasting(f) == IF f.torn = None THEN f.img ELSE f.torn.before

\* Where a process is on its way to a copy.
Looking ==
  {"path", "journal", "header", "mode", "recheck", "copyfile", "copyside",
   "verifyfile", "verifyside"}

\* What a process has answered and looks at on its way to a copy.
LookOK(p) ==
  /\ me[p].pc \in Looking => me[p].answer = "none"
  /\ me[p].pc = "recheck" => me[p].kind = "rollback"
  /\ me[p].pc \in {"copyfile", "copyside", "verifyfile", "verifyside"}
       => me[p].kind \in {"rollback", "wal"}

\* The file was copied as it lay there, and held no more than it does now.
FileOK(p) ==
  LET f == me[p].copied
  IN me[p].pc \in {"copyside", "verifyfile", "verifyside"} =>
       /\ Lasting(f) \in Image /\ Written(f, None)
       /\ Grows(Lasting(f), Lasting(file))
       /\ \/ Lasting(f) \in seen[p]
          \/ f.torn = None /\ \E img \in seen[p] : img.mode = "wal"

\* What the ledger held when the journal or the WAL was copied: as much as
\* the copied file did, and, once the file was found unchanged, no more.
SideOK(p) ==
  LET f == me[p].copied
      side == me[p].side
  IN me[p].pc \in {"verifyfile", "verifyside"} =>
       \E img \in seen[p] :
         /\ me[p].kind = "rollback" => side = img /\ img \in Stored
         /\ me[p].kind = "wal" /\ side # None => side.img = img
         /\ me[p].kind = "rollback" \/ side = None =>
              /\ Grows(Lasting(f), img)
              /\ Grows(img, IF me[p].pc = "verifyfile" THEN Lasting(file) ELSE Lasting(f))

CopyOK(p) == LookOK(p) /\ FileOK(p) /\ SideOK(p)

\* The invariant of copies.
CopyInv ==
  /\ OpenInv /\ seen \in [Proc -> SUBSET Image]
  /\ Written(file, None) /\ Grows(Lasting(file), Committed)
  /\ \A p \in Proc : CopyOK(p)

\* What only grows is an order: a ledger never comes back to what it was.
LEMMA GrowsItself == ASSUME NEW a \in Image PROVE Grows(a, a)
BY OpenAssumption DEF Grows, Image

\* What grew twice, grew.
LEMMA GrowsOn ==
  ASSUME NEW a \in Image, NEW b \in Image, NEW c \in Image, Grows(a, b), Grows(b, c)
  PROVE  Grows(a, c)
<1>1. a.recs \in Int /\ b.recs \in Int /\ c.recs \in Int
  BY OpenAssumption DEF Image
<1> QED BY <1>1 DEF Grows

\* What grew back to what it was is, the journal mode apart, the same.
LEMMA GrowsBack ==
  ASSUME NEW a \in Image, NEW b \in Image, Grows(a, b), Grows(b, a)
  PROVE  OnePage(a, b) /\ (a.mode = b.mode => a = b)
<1>1. a.recs \in Int /\ b.recs \in Int
  BY OpenAssumption DEF Image
<1>2. a.schema = b.schema /\ a.recs = b.recs /\ a.id = b.id
  BY <1>1 DEF Grows
<1>3. a.mode = b.mode => a = b
  BY <1>2 DEF Image
<1> QED BY <1>2, <1>3 DEF OnePage

\* Transactions only add.
LEMMA LeadsGrows ==
  ASSUME NEW c \in Image, NEW w \in Image, Leads(c, w)
  PROVE  Grows(c, w)
<1>1. /\ c.recs \in Int /\ w.recs \in Int /\ c.id \in {"none", "motus", "other"}
  BY OpenAssumption DEF Image
<1>2. CASE Content(w) = Content(c) /\ (w.schema = c.schema \/ c.schema = "absent")
  <2>1. w.id = c.id /\ w.recs = c.recs
    BY <1>2 DEF Content
  <2> QED BY <1>1, <1>2, <2>1 DEF Grows
<1>3. CASE /\ c.schema \in {"blank", "empty", "v1"} /\ c.id # "other"
           /\ w.schema = "v2" /\ w.id = "motus" /\ w.recs = c.recs
  BY <1>1, <1>3 DEF Grows
<1>4. CASE /\ c.schema # "alien" /\ c.id = "none" /\ w.schema = c.schema
           /\ Content(w) = [Content(c) EXCEPT !.id = "motus"]
  <2>1. w.id = "motus" /\ w.recs = c.recs
    BY <1>4 DEF Content
  <2> QED BY <1>1, <1>4, <2>1 DEF Grows
<1>5. CASE /\ Motus(c) /\ c.schema \in {"v1", "v2"} /\ c.recs < MaxRecords
           /\ Content(w) = [Content(c) EXCEPT !.recs = @ + 1]
  <2>1. Content(w).id = c.id /\ Content(w).recs = c.recs + 1 /\ Content(w).schema = c.schema
    BY <1>5 DEF Content
  <2>2. w.id = c.id /\ w.recs = c.recs + 1 /\ w.schema = c.schema
    BY <1>5, <2>1 DEF Content
  <2> QED BY <1>1, <2>2 DEF Grows
<1> QED BY <1>2, <1>3, <1>4, <1>5 DEF Leads

\* The file, and what a reader finds in files that killed processes left.
LEMMA LastingHeld ==
  ASSUME NEW f, NEW j, NEW w, LeftBehind(f, j, w)
  PROVE  /\ Lasting(f) \in Image /\ Held(f, j, w) \in Image
         /\ j # None => Lasting(f) = j /\ Held(f, j, w) = j /\ j \in Stored /\ w = None
         /\ w = None => Held(f, j, w) = Lasting(f)
         /\ w # None => Held(f, j, w) = w.img /\ Lasting(f) = f.img /\ j = None
         /\ j = None => f.torn = None /\ Lasting(f) = f.img
<1>1. j = None => f.torn = None /\ Lasting(f) = f.img
  BY DEF LeftBehind, Lasting
<1>2. j # None => Lasting(f) = j /\ j \in Stored
  BY DEF LeftBehind, Lasting
<1>3. /\ j # None => Held(f, j, w) = j /\ w = None
      /\ j = None => Held(f, j, w) = IF w = None THEN f.img ELSE w.img
      /\ f.img \in Image /\ Held(f, j, w) \in Image
  BY HeldIs
<1>4. Lasting(f) \in Image
  BY <1>1, <1>2, <1>3 DEF Stored
<1> QED BY <1>1, <1>2, <1>3, <1>4

\* The same for the files as they are.
LEMMA LastingIs ==
  ASSUME OpenInv
  PROVE  /\ Lasting(file) \in Image /\ Committed \in Image
         /\ journal # None => Lasting(file) = journal /\ Committed = journal
                              /\ journal \in Stored /\ wal = None
         /\ wal = None => Committed = Lasting(file)
         /\ wal # None => Committed = wal.img /\ Lasting(file) = file.img /\ journal = None
         /\ journal = None => file.torn = None /\ Lasting(file) = file.img
BY LastingHeld, CommittedIs DEF OpenInv

\* What a step may do to the files: frames stay beside the file they were
\* written for, and only WritePages leaves a transaction in the file.
FilesMove ==
  /\ wal' = None \/ (file' = file /\ journal = None)
  /\ Written(file', None)

\* Steps that leave the file or write it as a whole.
LEMMA WholeMoves ==
  ASSUME OpenInv, Written(file, None),
         \/ file' = file /\ (wal' = wal \/ wal' = None \/ journal = None)
         \/ file'.torn = None /\ wal' = None
  PROVE  FilesMove
<1>1. Written(file', None)
  BY DEF Written
<1>2. wal # None => journal = None
  BY LastingIs
<1> QED BY <1>1, <1>2 DEF FilesMove

\* Leaving WAL mode writes the file as a whole or leaves it.
LEMMA LeavesWalMoves ==
  ASSUME OpenInv, Written(file, None), NEW u, LeavesWal(u)
  PROVE  FilesMove
<1>1. Whole(Replay(file, wal)).torn = None
  BY DEF Whole
<1> QED BY <1>1, WholeMoves DEF LeavesWal

\* So does ROLLBACK.
LEMMA RollsBackMoves ==
  ASSUME OpenInv, Written(file, None), NEW p \in Proc, InTransaction(p), RollsBack, wal' = wal
  PROVE  FilesMove
<1>1. wal = None
  BY WriterIs
<1>2. Whole(RollBack(file, journal)).torn = None
  BY DEF Whole
<1> QED BY <1>1, <1>2, WholeMoves DEF RollsBack

\* Every step treats the files in that way.
LEMMA FileSteps ==
  ASSUME OpenInv, Written(file, None), [Next]_vars
  PROVE  FilesMove
<1>0. ASSUME UNCHANGED <<file, wal>> PROVE FilesMove
  BY <1>0, WholeMoves
<1>1. ASSUME NEW p \in Proc, Opening(p) PROVE FilesMove
  <2>1. CASE \/ HasRollbackJournal(p) \/ InspectHeader(p)
             \/ Recheck(p) \/ CopyFile(p) \/ CopySidecar(p)
             \/ VerifyFile(p) \/ VerifySidecar(p) \/ RequiresJournalMigration(p)
    BY <1>0, <2>1
       DEF HasRollbackJournal, InspectHeader, Recheck, CopyFile, CopySidecar, VerifyFile,
           VerifySidecar, RequiresJournalMigration
  <2>2. CASE \/ GiveUp(p) \/ OpenSource(p) \/ ReadVersion(p) \/ ReadStructure(p)
             \/ ReadIdentity(p) \/ ReadOnlyMeetsHot(p)
             \/ VerifyMigratedHeader(p) \/ Connect(p) \/ Begin(p)
             \/ InitializeSchema(p) \/ RestoreGuard(p) \/ WriteJournal(p)
    BY <1>0, <2>2
       DEF GiveUp, OpenSource, ReadVersion, ReadStructure, ReadIdentity, ReadOnlyMeetsHot,
           VerifyMigratedHeader, Connect, Begin, InitializeSchema, RestoreGuard, WriteJournal
  <2>3. CASE PrepareStatePath(p)
    <3>1. CASE file' = file
      BY <1>0, <2>3, <3>1 DEF PrepareStatePath
    <3>2. CASE file' # file
      <4>1. file.img.schema = "absent" /\ file' = [file EXCEPT !.img.schema = "blank"]
            /\ wal' = wal
        BY <2>3, <3>2 DEF PrepareStatePath
      <4>2. LeftBehind(file, journal, wal)
        BY DEF OpenInv
      <4>3. file.torn = None /\ wal = None
        BY <4>1, <4>2, HeldIs
      <4>4. file'.torn = None
        BY <4>1, <4>2, <4>3 DEF LeftBehind
      <4> QED BY <4>1, <4>3, <4>4, WholeMoves
    <3> QED BY <3>1, <3>2
  <2>4. CASE RecoverHot(p)
    <3>1. file'.torn = None /\ wal' = wal /\ journal # None
      BY <2>4 DEF RecoverHot, Whole, Hot
    <3> QED BY <3>1, LastingIs, WholeMoves
  <2>5. CASE Leave(p)
    BY <2>5, LeavesWalMoves DEF Leave
  <2>6. CASE WritePages(p)
    <3>1. wal' = wal /\ InTransaction(p)
      BY <2>6 DEF WritePages, At, InTransaction
    <3>2. wal = None
      BY <3>1, WriterIs
    <3>3. PICK img, n : file' = [img |-> img, torn |-> [before |-> journal,
                                           after |-> me[p].work, nonce |-> n]]
                        /\ (OnePage(journal, me[p].work) => img = me[p].work)
      BY <2>6 DEF WritePages
    <3>4. Written(file', None)
      BY <3>3 DEF Written
    <3> QED BY <3>1, <3>2, <3>4 DEF FilesMove
  <2>7. CASE Commit(p)
    <3>1. wal' = wal /\ InTransaction(p) /\ file'.torn = None
      BY <2>7 DEF Commit, At, InTransaction, Whole
    <3> QED BY <3>1, WriterIs, WholeMoves
  <2>8. CASE EnsureIdentity(p)
    <3>1. file' = file /\ (wal' = wal \/ p \in walUsers)
      BY <2>8 DEF EnsureIdentity
    <3>2. p \in walUsers => journal = None
      BY DEF OpenInv, WalOK
    <3> QED BY <3>1, <3>2, WholeMoves
  <2>9. CASE Checkpoint(p) \/ SwitchMode(p)
    BY <2>9, WholeMoves DEF Checkpoint, SwitchMode, Whole
  <2>10. CASE Stamp(p)
    <3>1. InTransaction(p) /\ wal' = wal /\ (file' = file \/ RollsBack)
      BY <2>10 DEF Stamp, At, InTransaction
    <3> QED BY <3>1, RollsBackMoves, WholeMoves
  <2> QED BY <1>1, <2>1, <2>2, <2>3, <2>4, <2>5, <2>6, <2>7, <2>8, <2>9, <2>10 DEF Opening
<1>2. ASSUME NEW p \in Proc, Call(p) \/ Record(p) \/ Close(p) \/ Crash(p) PROVE FilesMove
  BY <1>0, <1>2 DEF Call, Record, Close, Crash
<1>3. ASSUME NEW p \in Proc, Fail(p) PROVE FilesMove
  BY <1>0, <1>3, RollsBackMoves DEF Fail
<1>4. CASE OlderOpens
  <2>1. /\ journal = None /\ wal' = wal /\ file' = [file EXCEPT !.img.mode = "wal"]
    BY <1>4 DEF OlderOpens
  <2>2. LeftBehind(file, journal, wal)
    BY DEF OpenInv
  <2>3. file.torn = None /\ file'.torn = None
    BY <2>1, <2>2 DEF LeftBehind
  <2>4. CASE wal = None
    BY <2>1, <2>3, <2>4, WholeMoves
  <2>5. CASE wal # None
    <3>1. file.img.mode = "wal"
      BY <2>2, <2>5 DEF LeftBehind
    <3>2. file \in [img : Image, torn : Torn \cup {None}] /\ file.img \in Image
      BY <2>2 DEF LeftBehind
    <3>3. [file.img EXCEPT !.mode = "wal"] = file.img
      BY <3>1, <3>2 DEF Image
    <3>4. file' = file
      BY <2>1, <3>2, <3>3
    <3> QED BY <1>0, <2>1, <3>4
  <2> QED BY <2>4, <2>5
<1>5. CASE OlderWrites
  <2>1. file' = file /\ walUsers # {}
    BY <1>5 DEF OlderWrites
  <2>2. journal = None
    BY <2>1 DEF OpenInv, WalOK
  <2> QED BY <2>1, <2>2, WholeMoves
<1>6. CASE OlderLeaves \/ OlderDies
  BY <1>0, <1>6, LeavesWalMoves DEF OlderLeaves, OlderDies
<1>7. CASE UNCHANGED vars
  BY <1>0, <1>7 DEF vars
<1> QED BY <1>1, <1>2, <1>3, <1>4, <1>5, <1>6, <1>7 DEF Next, Environment

\* What the ledger holds only grows, with its WAL and without.
LEMMA GrowthStep ==
  ASSUME OpenInv, Written(file, None), Grows(Lasting(file), Committed), [Next]_vars
  PROVE  /\ Written(file', None) /\ Grows(Lasting(file'), Committed')
         /\ Grows(Lasting(file), Lasting(file'))
<1>1. OpenInv' /\ Leads(Committed, Committed') /\ FilesMove
  BY NextStep, FileSteps DEF LedgerMoves
<1>2. /\ Lasting(file) \in Image /\ Committed \in Image
      /\ Lasting(file') \in Image /\ Committed' \in Image
      /\ wal' = None => Committed' = Lasting(file')
  <2>1. LeftBehind(file', journal', wal')
    BY <1>1 DEF OpenInv
  <2>2. Committed' = Held(file', journal', wal')
    BY DEF Committed, Held
  <2> QED BY <2>1, <2>2, LastingIs, LastingHeld
<1>3. Grows(Committed, Committed') /\ Grows(Lasting(file), Committed')
  BY <1>1, <1>2, LeadsGrows, GrowsOn
<1>4. CASE wal' = None
  BY <1>1, <1>2, <1>3, <1>4, GrowsItself DEF FilesMove
<1>5. CASE wal' # None
  BY <1>1, <1>2, <1>3, <1>5, GrowsItself DEF FilesMove
<1> QED BY <1>4, <1>5

\* A process that has left its way to a copy comes back to it by another
\* call, and has forgotten its answer then.
Elsewhere(p) ==
  /\ OthersStay(p)
  /\ me'[p].pc \in Looking => me'[p].pc = "path" /\ me'[p].answer = "none"

\* The end of open() leads back to the path at most, with no answer yet.
LEMMA OutcomeElsewhere ==
  ASSUME NEW m, NEW r, Outcome(m, r).pc \in Looking
  PROVE  Outcome(m, r).pc = "path" /\ Outcome(m, r).answer = "none"
<1>1. CASE m.stage = "first" /\ r \in {"schema", "journal", "identity", "rollback"}
  <2>1. Outcome(m, r) = [Fresh EXCEPT !.pc = "path", !.stage = "migrate", !.why = r]
    BY <1>1 DEF Outcome
  <2> QED BY <2>1 DEF Fresh
<1>2. CASE m.stage = "migrate" /\ r = "ok"
  <2>1. Outcome(m, r) = [Fresh EXCEPT !.pc = "path", !.stage = "again"]
    BY <1>2 DEF Outcome
  <2> QED BY <2>1 DEF Fresh
<1>3. CASE m.stage = "migrate" /\ r \notin {"ok", "invalid"}
  <2>1. Outcome(m, r).pc = "idle"
    BY <1>3 DEF Outcome, Fresh
  <2> QED BY <2>1 DEF Looking
<1>4. CASE /\ ~ (m.stage = "first" /\ r \in {"schema", "journal", "identity", "rollback"})
           /\ ~ (m.stage = "migrate" /\ r = "ok")
           /\ ~ (m.stage = "migrate" /\ r \notin {"ok", "invalid"})
  <2>1. Outcome(m, r).pc \in {"open", "idle"}
    BY <1>4 DEF Outcome, Fresh
  <2> QED BY <2>1 DEF Looking
<1> QED BY <1>1, <1>2, <1>3, <1>4

\* The end of open(), in WAL mode or out of it.
LEMMA ReturnElsewhere ==
  ASSUME me \in [Proc -> Progress], NEW p \in Proc, NEW r, Return(p, r)
  PROVE  Elsewhere(p)
<1> DEFINE m == IF p \in walUsers THEN [me[p] EXCEPT !.pc = "leave", !.answer = r]
                ELSE Outcome(me[p], r)
<1>1. me' = [me EXCEPT ![p] = m]
  BY DEF Return
<1>2. m.pc \in Looking => m.pc = "path" /\ m.answer = "none"
  <2>1. CASE p \in walUsers
    <3>1. me[p] \in Progress
      OBVIOUS
    <3>2. m.pc = "leave"
      BY <2>1, <3>1 DEF Progress
    <3> QED BY <3>2 DEF Looking
  <2>2. CASE p \notin walUsers
    BY <2>2, OutcomeElsewhere
  <2> QED BY <2>1, <2>2
<1> HIDE DEF m
<1>3. OthersStay(p) /\ me'[p] = m
  BY <1>1 DEF OthersStay
<1> QED BY <1>2, <1>3 DEF Elsewhere

\* Where the other steps take a process.
LEMMA GotoElsewhere ==
  ASSUME me \in [Proc -> Progress], NEW p \in Proc, NEW l, Goto(p, l), l \notin Looking
  PROVE  Elsewhere(p)
<1>1. me[p] \in Progress /\ me' = [me EXCEPT ![p] = [me[p] EXCEPT !.pc = l]]
  BY DEF Goto
<1>2. [me[p] EXCEPT !.pc = l].pc = l
  BY <1>1 DEF Progress
<1> QED BY <1>1, <1>2 DEF Elsewhere, OthersStay

\* Other fields may change with the place.
LEMMA UpdateElsewhere ==
  ASSUME me \in [Proc -> Progress], NEW p \in Proc, NEW m, me' = [me EXCEPT ![p] = m],
         m.pc \notin Looking \/ (m.pc = "path" /\ m.answer = "none")
  PROVE  Elsewhere(p)
BY DEF Elsewhere, OthersStay

\* A step that leaves the process where it is, off the way to a copy.
LEMMA StayElsewhere ==
  ASSUME NEW p \in Proc, me' = me, me[p].pc \notin Looking
  PROVE  Elsewhere(p)
BY DEF Elsewhere, OthersStay

\* The steps of a process once it has a connection, and those from without.
LEMMA ConnectedElsewhere ==
  ASSUME OpenInv, NEW p \in Proc,
         \/ RecoverHot(p) \/ WriteJournal(p) \/ WritePages(p)
         \/ GiveUp(p) \/ OpenSource(p) \/ ReadVersion(p) \/ ReadStructure(p) \/ ReadIdentity(p)
         \/ ReadOnlyMeetsHot(p) \/ Checkpoint(p)
         \/ VerifyMigratedHeader(p) \/ Connect(p) \/ Begin(p) \/ RestoreGuard(p) \/ Fail(p)
  PROVE  Elsewhere(p)
<1>0. me \in [Proc -> Progress] /\ me[p] \in Progress
  BY DEF OpenInv, ProcessTypes
<1>1. CASE RecoverHot(p)
  BY <1>1, StayElsewhere DEF RecoverHot, Looking
<1>2. CASE WriteJournal(p) \/ WritePages(p)
  BY <1>0, <1>2, GotoElsewhere DEF WriteJournal, WritePages, Looking
<1>3. CASE GiveUp(p) \/ ReadOnlyMeetsHot(p) \/ Fail(p)
  BY <1>0, <1>3, ReturnElsewhere DEF GiveUp, ReadOnlyMeetsHot, Fail
<1>4. CASE OpenSource(p) \/ ReadVersion(p)
  <2>1. CASE OpenSource(p)
    BY <1>0, <2>1, GotoElsewhere DEF OpenSource, Looking
  <2>2. CASE ReadVersion(p)
    <3> DEFINE m == [me[p] EXCEPT !.pc = "structure", !.ver = Version(Committed)]
    <3>1. me' = [me EXCEPT ![p] = m]
      BY <2>2 DEF ReadVersion
    <3>2. m.pc = "structure"
      BY <1>0 DEF Progress
    <3> HIDE DEF m
    <3> QED BY <1>0, <3>1, <3>2, UpdateElsewhere DEF Looking
  <2> QED BY <1>4, <2>1, <2>2
<1>5. CASE ReadStructure(p)
  <2>1. CASE Return(p, "invalid")
    BY <1>0, <2>1, ReturnElsewhere
  <2>2. CASE ~ Return(p, "invalid")
    <3> DEFINE m == [me[p] EXCEPT !.pc = "identity",
                                  !.structure = Structure(me[p].ver, Committed)]
    <3>1. me' = [me EXCEPT ![p] = m]
      BY <1>5, <2>2 DEF ReadStructure
    <3>2. m.pc = "identity"
      BY <1>0 DEF Progress
    <3> HIDE DEF m
    <3> QED BY <1>0, <3>1, <3>2, UpdateElsewhere DEF Looking
  <2> QED BY <2>1, <2>2
<1>6. CASE ReadIdentity(p)
  <2>1. Goto(p, "ensure") \/ \E r : Return(p, r)
    BY <1>6 DEF ReadIdentity
  <2> QED BY <1>0, <2>1, ReturnElsewhere, GotoElsewhere DEF Looking
<1>7. CASE Checkpoint(p)
  <2>1. CASE Return(p, "journal")
    BY <1>0, <2>1, ReturnElsewhere
  <2>2. CASE ~ Return(p, "journal")
    <3> DEFINE m == [me[p] EXCEPT !.pc = "switch", !.next = "wheader"]
    <3>1. me' = [me EXCEPT ![p] = m]
      BY <1>7, <2>2 DEF Checkpoint
    <3>2. m.pc = "switch"
      BY <1>0 DEF Progress
    <3> HIDE DEF m
    <3> QED BY <1>0, <3>1, <3>2, UpdateElsewhere DEF Looking
  <2> QED BY <2>1, <2>2
<1>8. CASE VerifyMigratedHeader(p)
  <2>1. CASE Return(p, "journal")
    BY <1>0, <2>1, ReturnElsewhere
  <2>2. CASE ~ Return(p, "journal")
    <3> DEFINE m == [me[p] EXCEPT !.pc = "connect", !.kind = "none"]
    <3>1. me' = [me EXCEPT ![p] = m]
      BY <1>8, <2>2 DEF VerifyMigratedHeader
    <3>2. m.pc = "connect"
      BY <1>0 DEF Progress
    <3> HIDE DEF m
    <3> QED BY <1>0, <3>1, <3>2, UpdateElsewhere DEF Looking
  <2> QED BY <2>1, <2>2
<1>9. CASE Connect(p)
  <2> DEFINE m == [me[p] EXCEPT !.pc = "switch", !.next = "begin"]
  <2>1. \/ \E l \in {"version", "begin"} : Goto(p, l)
        \/ Return(p, "failed") \/ me' = [me EXCEPT ![p] = m]
    BY <1>9 DEF Connect
  <2>2. m.pc = "switch"
    BY <1>0 DEF Progress
  <2> HIDE DEF m
  <2> QED BY <1>0, <2>1, <2>2, ReturnElsewhere, GotoElsewhere, UpdateElsewhere DEF Looking
<1>10. CASE Begin(p)
  <2> DEFINE m == [me[p] EXCEPT !.pc = "decide", !.next = "opened"]
  <2>1. me' = [me EXCEPT ![p] = m]
    BY <1>10 DEF Begin
  <2>2. m.pc = "decide"
    BY <1>0 DEF Progress
  <2> HIDE DEF m
  <2> QED BY <1>0, <2>1, <2>2, UpdateElsewhere DEF Looking
<1>11. CASE RestoreGuard(p)
  <2> DEFINE m == [me[p] EXCEPT !.pc = "stamp", !.work = [@ EXCEPT !.schema = "v2"]]
  <2>1. me' = [me EXCEPT ![p] = m]
    BY <1>11 DEF RestoreGuard
  <2>2. m.pc = "stamp"
    BY <1>0 DEF Progress
  <2> HIDE DEF m
  <2> QED BY <1>0, <2>1, <2>2, UpdateElsewhere DEF Looking
<1> QED BY <1>1, <1>2, <1>3, <1>4, <1>5, <1>6, <1>7, <1>8, <1>9, <1>10, <1>11

\* The steps that end a transaction or a connection, and those of the caller.
LEMMA WritingElsewhere ==
  ASSUME OpenInv, NEW p \in Proc,
         \/ Leave(p) \/ Commit(p) \/ EnsureIdentity(p) \/ SwitchMode(p)
         \/ InitializeSchema(p) \/ Stamp(p)
         \/ Call(p) \/ Record(p) \/ Close(p) \/ Crash(p)
  PROVE  Elsewhere(p)
<1>0. me \in [Proc -> Progress] /\ me[p] \in Progress
  BY DEF OpenInv, ProcessTypes
<1>1. CASE Leave(p)
  <2>1. me' = [me EXCEPT ![p] = Outcome(me[p], me[p].answer)]
    BY <1>1 DEF Leave
  <2> QED BY <1>0, <2>1, OutcomeElsewhere, UpdateElsewhere
<1>2. CASE Commit(p)
  <2> DEFINE m == [me[p] EXCEPT !.pc = me[p].next, !.work = None]
  <2>1. Return(p, "ok") \/ me' = [me EXCEPT ![p] = m]
    BY <1>2 DEF Commit
  <2>2. m.pc = me[p].next
    BY <1>0 DEF Progress
  <2>3. CommitOK(p) /\ me[p].pc = "commit"
    BY <1>2 DEF OpenInv, ProcessOK, Commit, At
  <2>4. me[p].next \notin Looking
    BY <2>3 DEF CommitOK, Looking
  <2> HIDE DEF m
  <2> QED BY <1>0, <2>1, <2>2, <2>4, ReturnElsewhere, UpdateElsewhere
<1>3. CASE EnsureIdentity(p)
  <2> DEFINE m == [me[p] EXCEPT !.pc = "txn", !.work = [Committed EXCEPT !.id = "motus"],
                                !.next = "wheader"]
  <2>1. \/ \E l \in {"checkpoint", "wheader"} : Goto(p, l)
        \/ me' = [me EXCEPT ![p] = m]
    BY <1>3 DEF EnsureIdentity
  <2>2. m.pc = "txn"
    BY <1>0 DEF Progress
  <2> HIDE DEF m
  <2> QED BY <1>0, <2>1, <2>2, GotoElsewhere, UpdateElsewhere DEF Looking
<1>4. CASE SwitchMode(p)
  <2> DEFINE m == [me[p] EXCEPT !.pc = "txn", !.work = [Committed EXCEPT !.mode = "delete"]]
  <2>1. Return(p, Trouble(p)) \/ me' = [me EXCEPT ![p] = m]
    BY <1>4 DEF SwitchMode
  <2>2. m.pc = "txn"
    BY <1>0 DEF Progress
  <2> HIDE DEF m
  <2> QED BY <1>0, <2>1, <2>2, ReturnElsewhere, UpdateElsewhere DEF Looking
<1>5. CASE InitializeSchema(p)
  <2>1. \/ Return(p, "invalid")
        \/ \E l \in {"stamp", "restore"} : \E w :
             me' = [me EXCEPT ![p] = [me[p] EXCEPT !.pc = l, !.work = w]]
    BY <1>5 DEF InitializeSchema
  <2>2. ASSUME NEW l \in {"stamp", "restore"}, NEW w,
               me' = [me EXCEPT ![p] = [me[p] EXCEPT !.pc = l, !.work = w]]
        PROVE  Elsewhere(p)
    <3> DEFINE m == [me[p] EXCEPT !.pc = l, !.work = w]
    <3>1. me' = [me EXCEPT ![p] = m]
      BY <2>2
    <3>2. m.pc = l
      BY <1>0 DEF Progress
    <3> HIDE DEF m
    <3> QED BY <1>0, <3>1, <3>2, UpdateElsewhere DEF Looking
  <2> QED BY <1>0, <2>1, <2>2, ReturnElsewhere
<1>6. CASE Stamp(p)
  <2> DEFINE old == me[p]
             w == [old.work EXCEPT !.id = "motus"]
             m == [old EXCEPT !.pc = "pages", !.work = w]
  <2>0. \/ Return(p, "invalid")
        \/ me' = [me EXCEPT ![p].pc = "pages", ![p].work.id = "motus"]
    BY <1>6 DEF Stamp
  <2>1. Return(p, "invalid") \/ me' = [me EXCEPT ![p] = m]
    <3>1. ASSUME me' = [me EXCEPT ![p].pc = "pages", ![p].work.id = "motus"]
          PROVE  me' = [me EXCEPT ![p] = m]
      BY <3>1
    <3> QED BY <2>0, <3>1
  <2>2. m.pc = "pages"
    <3> HIDE DEF w
    <3> QED BY <1>0 DEF Progress
  <2> HIDE DEF m, w, old
  <2> QED BY <1>0, <2>1, <2>2, ReturnElsewhere, UpdateElsewhere DEF Looking
<1>7. CASE Call(p)
  <2>1. PICK c \in Calls :
          me' = [me EXCEPT ![p] = [Fresh EXCEPT !.pc = "path",
                                     !.stage = IF c = "Open" THEN "create" ELSE "first"]]
    BY <1>7 DEF Call
  <2> DEFINE m == [Fresh EXCEPT !.pc = "path",
                                !.stage = IF c = "Open" THEN "create" ELSE "first"]
  <2>2. m.pc = "path" /\ m.answer = "none"
    BY DEF Fresh
  <2> HIDE DEF m
  <2>3. me' = [me EXCEPT ![p] = m]
    BY <2>1 DEF m
  <2> QED BY <1>0, <2>2, <2>3, UpdateElsewhere
<1>8. CASE Record(p)
  <2> DEFINE m == [me[p] EXCEPT !.pc = "txn", !.next = "open",
                                !.work = [file.img EXCEPT !.recs = @ + 1]]
  <2>1. me' = [me EXCEPT ![p] = m]
    BY <1>8 DEF Record
  <2>2. m.pc = "txn"
    BY <1>0 DEF Progress
  <2> HIDE DEF m
  <2> QED BY <1>0, <2>1, <2>2, UpdateElsewhere DEF Looking
<1>9. CASE Close(p)
  <2> DEFINE m == [Fresh EXCEPT !.stage = me[p].stage, !.answer = me[p].answer]
  <2>1. me' = [me EXCEPT ![p] = m]
    BY <1>9 DEF Close
  <2>2. m.pc = "idle"
    BY DEF Fresh
  <2> HIDE DEF m
  <2> QED BY <1>0, <2>1, <2>2, UpdateElsewhere DEF Looking
<1>10. CASE Crash(p)
  <2>1. me' = [me EXCEPT ![p] = Fresh] /\ Fresh.pc = "idle"
    BY <1>10 DEF Crash, Fresh
  <2> QED BY <1>0, <2>1, UpdateElsewhere DEF Looking
<1> QED BY <1>1, <1>2, <1>3, <1>4, <1>5, <1>6, <1>7, <1>8, <1>9, <1>10

-----------------------------------------------------------------------------
(* The way to a copy.                                                      *)

\* The step of p takes it on, off its way or back to its beginning, and
\* nowhere that needs a copy.
Looked(p) ==
  /\ OthersStay(p) /\ LookOK(p)'
  /\ me'[p].pc \notin {"copyside", "verifyfile", "verifyside"}

\* Off the way nothing is needed.
LEMMA ElsewhereLooked == ASSUME NEW p \in Proc, Elsewhere(p) PROVE Looked(p)
BY DEF Elsewhere, Looked, LookOK, Looking

\* To another place on the way, with no answer yet.
LEMMA GotoLooked ==
  ASSUME me \in [Proc -> Progress], NEW p \in Proc, NEW l \in Looking, Goto(p, l),
         me[p].answer = "none", l \notin {"copyside", "verifyfile", "verifyside"},
         l \in {"recheck", "copyfile"} => me[p].kind = "rollback"
  PROVE  Looked(p)
<1>1. me[p] \in Progress /\ me' = [me EXCEPT ![p] = [me[p] EXCEPT !.pc = l]]
  BY DEF Goto
<1> DEFINE m == [me[p] EXCEPT !.pc = l]
<1>2. m.pc = l /\ m.answer = me[p].answer /\ m.kind = me[p].kind
  BY <1>1 DEF Progress
<1> HIDE DEF m
<1>3. me'[p] = m /\ OthersStay(p)
  BY <1>1 DEF OthersStay, m
<1> QED BY <1>2, <1>3 DEF Looked, LookOK

\* The same when other fields change.
LEMMA UpdateLooked ==
  ASSUME me \in [Proc -> Progress], NEW p \in Proc, NEW m, me' = [me EXCEPT ![p] = m],
         m.answer = "none", m.pc \notin {"copyside", "verifyfile", "verifyside"},
         m.pc = "recheck" => m.kind = "rollback",
         m.pc = "copyfile" => m.kind \in {"rollback", "wal"}
  PROVE  Looked(p)
BY DEF Looked, LookOK, OthersStay

\* Trying again forgets the copy, giving up ends the call.
LEMMA RetryLooked ==
  ASSUME me \in [Proc -> Progress], NEW p \in Proc, Retry(p),
         me[p].answer = "none", me[p].kind \in {"rollback", "wal"}
  PROVE  Looked(p)
<1> DEFINE m == [me[p] EXCEPT !.pc = IF me[p].kind = "rollback" THEN "recheck" ELSE "copyfile",
                              !.tries = @ + 1, !.copied = None, !.side = None]
<1>1. me' = [me EXCEPT ![p] = m] \/ \E r : Return(p, r)
  BY DEF Retry
<1>2. /\ m.pc = IF me[p].kind = "rollback" THEN "recheck" ELSE "copyfile"
      /\ m.answer = me[p].answer /\ m.kind = me[p].kind
  BY DEF Progress
<1> HIDE DEF m
<1> QED BY <1>1, <1>2, ReturnElsewhere, ElsewhereLooked, UpdateLooked

\* Looking, trying again and a verdict on a copy need no copy afterwards.
LEMMA LookingLooked ==
  ASSUME OpenInv, NEW p \in Proc, LookOK(p),
         \/ PrepareStatePath(p) \/ HasRollbackJournal(p) \/ InspectHeader(p)
         \/ Recheck(p) \/ RequiresJournalMigration(p) \/ VerifySidecar(p)
  PROVE  Looked(p)
<1>0. me \in [Proc -> Progress] /\ me[p] \in Progress
  BY DEF OpenInv, ProcessTypes
<1>1. CASE PrepareStatePath(p)
  <2>1. me[p].answer = "none"
    BY <1>1 DEF LookOK, PrepareStatePath, At, Looking
  <2>2. Return(p, "notfound") \/ Goto(p, "journal")
    BY <1>1 DEF PrepareStatePath
  <2> QED BY <1>0, <2>1, <2>2, ReturnElsewhere, ElsewhereLooked, GotoLooked DEF Looking
<1>2. CASE HasRollbackJournal(p)
  <2>1. me[p].answer = "none"
    BY <1>2 DEF LookOK, HasRollbackJournal, At, Looking
  <2>2. Goto(p, "mode") \/ Goto(p, "header")
    BY <1>2 DEF HasRollbackJournal
  <2> QED BY <1>0, <2>1, <2>2, GotoLooked DEF Looking
<1>3. CASE InspectHeader(p)
  <2> DEFINE m == [me[p] EXCEPT !.pc = "recheck", !.kind = "rollback", !.tries = 0]
  <2>1. me[p].answer = "none"
    BY <1>3 DEF LookOK, InspectHeader, At, Looking
  <2>2. \/ \E r : Return(p, r)
        \/ Goto(p, "mode") \/ me' = [me EXCEPT ![p] = m]
    BY <1>3 DEF InspectHeader
  <2>3. m.pc = "recheck" /\ m.kind = "rollback" /\ m.answer = me[p].answer
    BY <1>0 DEF Progress
  <2> HIDE DEF m
  <2>4. CASE Goto(p, "mode")
    BY <1>0, <2>1, <2>4, GotoLooked DEF Looking
  <2>5. CASE me' = [me EXCEPT ![p] = m]
    BY <1>0, <2>1, <2>3, <2>5, UpdateLooked
  <2> QED BY <1>0, <2>2, <2>4, <2>5, ReturnElsewhere, ElsewhereLooked
<1>4. CASE Recheck(p)
  <2> DEFINE m == [me[p] EXCEPT !.pc = "mode", !.kind = "none", !.tries = 0]
  <2>1. me[p].answer = "none" /\ me[p].kind = "rollback"
    BY <1>4 DEF LookOK, Recheck, At, Looking
  <2>2. Goto(p, "copyfile") \/ me' = [me EXCEPT ![p] = m]
    BY <1>4 DEF Recheck
  <2>3. m.pc = "mode" /\ m.answer = me[p].answer
    BY <1>0 DEF Progress
  <2> HIDE DEF m
  <2>4. CASE Goto(p, "copyfile")
    BY <1>0, <2>1, <2>4, GotoLooked DEF Looking
  <2>5. CASE me' = [me EXCEPT ![p] = m]
    BY <1>0, <2>1, <2>3, <2>5, UpdateLooked
  <2> QED BY <2>2, <2>4, <2>5
<1>5. CASE RequiresJournalMigration(p)
  <2> DEFINE m == [me[p] EXCEPT !.pc = "copyfile", !.kind = "wal"]
  <2>1. me[p].answer = "none"
    BY <1>5 DEF LookOK, RequiresJournalMigration, At, Looking
  <2>2. \/ Return(p, "journal")
        \/ Goto(p, "connect") \/ me' = [me EXCEPT ![p] = m]
    BY <1>5 DEF RequiresJournalMigration
  <2>3. m.pc = "copyfile" /\ m.kind = "wal" /\ m.answer = me[p].answer
    BY <1>0 DEF Progress
  <2> HIDE DEF m
  <2>4. CASE Goto(p, "connect")
    BY <1>0, <2>4, GotoElsewhere, ElsewhereLooked DEF Looking
  <2>5. CASE me' = [me EXCEPT ![p] = m]
    BY <1>0, <2>1, <2>3, <2>5, UpdateLooked
  <2> QED BY <1>0, <2>2, <2>4, <2>5, ReturnElsewhere, ElsewhereLooked
<1>6. CASE VerifySidecar(p)
  <2> DEFINE l == IF me[p].kind = "rollback" THEN "mode" ELSE "source"
             k == IF me[p].kind = "rollback" THEN "none" ELSE me[p].kind
             zero == 0
             old == me[p]
             m == [old EXCEPT !.copied = None, !.side = None, !.tries = zero, !.pc = l, !.kind = k]
  <2>1. me[p].answer = "none" /\ me[p].kind \in {"rollback", "wal"}
    BY <1>6 DEF LookOK, VerifySidecar, At, Looking
  <2>2. Retry(p) \/ Return(p, "invalid") \/ me' = [me EXCEPT ![p] = m]
    BY <1>6 DEF VerifySidecar
  <2>3. m.pc \in {"mode", "source"} /\ m.answer = me[p].answer
    <3>1. l \in {"mode", "source"}
      OBVIOUS
    <3> HIDE DEF l, k, zero
    <3> QED BY <1>0, <3>1 DEF Progress
  <2> HIDE DEF m
  <2>4. CASE me' = [me EXCEPT ![p] = m]
    BY <1>0, <2>1, <2>3, <2>4, UpdateLooked
  <2> QED BY <1>0, <2>1, <2>2, <2>4, RetryLooked, ReturnElsewhere, ElsewhereLooked
<1> QED BY <1>1, <1>2, <1>3, <1>4, <1>5, <1>6

\* Copying and comparing leave the files, and each remembers one copy.
LEMMA CopyFileIs ==
  ASSUME me \in [Proc -> Progress], NEW p \in Proc, CopyFile(p), LookOK(p)
  PROVE  /\ OthersStay(p) /\ Still /\ LookOK(p)'
         /\ me'[p].pc = "copyside" /\ me'[p].copied = file
<1> DEFINE old == me[p]
           f == file
           m == [old EXCEPT !.pc = "copyside", !.copied = f]
<1>1. me' = [me EXCEPT ![p] = m] /\ me[p].pc = "copyfile" /\ Still
  BY DEF CopyFile, At, Still
<1>2. old \in Progress
  OBVIOUS
<1>3. m.pc = "copyside" /\ m.copied = f /\ m.kind = old.kind /\ m.answer = old.answer
  <2> HIDE DEF old, f
  <2> QED BY <1>2 DEF Progress
<1>4. old.kind \in {"rollback", "wal"} /\ old.answer = "none"
  BY <1>1 DEF LookOK, Looking
<1> HIDE DEF m, old
<1>5. me'[p] = m /\ OthersStay(p)
  BY <1>1 DEF OthersStay
<1>6. LookOK(p)'
  BY <1>3, <1>4, <1>5 DEF LookOK
<1> QED BY <1>1, <1>3, <1>5, <1>6

\* The journal or the WAL is copied after the file, or the attempt begins anew.
LEMMA CopySidecarIs ==
  ASSUME me \in [Proc -> Progress], NEW p \in Proc, CopySidecar(p), LookOK(p)
  PROVE  \/ Looked(p)
         \/ /\ OthersStay(p) /\ Still /\ LookOK(p)' /\ me[p].pc = "copyside"
            /\ me'[p].pc = "verifyfile" /\ me'[p].copied = me[p].copied
            /\ me'[p].kind = me[p].kind /\ me'[p].side = Sidecar(p)
            /\ me[p].kind \in {"rollback", "wal"} /\ (me[p].kind = "wal" \/ journal # None)
<1> DEFINE old == me[p]
           s == Sidecar(p)
           m == [old EXCEPT !.pc = "verifyfile", !.side = s]
<1>1. /\ me[p].pc = "copyside" /\ Still
      /\ \/ Retry(p)
         \/ me' = [me EXCEPT ![p] = m] /\ (me[p].kind = "wal" \/ journal # None)
  BY DEF CopySidecar, At, Still
<1>2. old \in Progress
  OBVIOUS
<1>3. /\ m.pc = "verifyfile" /\ m.side = s /\ m.kind = old.kind /\ m.answer = old.answer
      /\ m.copied = old.copied
  <2> HIDE DEF old, s
  <2> QED BY <1>2 DEF Progress
<1>4. old.kind \in {"rollback", "wal"} /\ old.answer = "none"
  BY <1>1 DEF LookOK, Looking
<1>5. CASE Retry(p)
  BY <1>4, <1>5, RetryLooked
<1>6. CASE me' = [me EXCEPT ![p] = m] /\ (me[p].kind = "wal" \/ journal # None)
  <2> HIDE DEF m, old, s
  <2>1. me'[p] = m /\ OthersStay(p)
    BY <1>6 DEF OthersStay
  <2>2. LookOK(p)'
    BY <1>3, <1>4, <2>1 DEF LookOK
  <2> QED BY <1>1, <1>3, <1>4, <1>6, <2>1, <2>2 DEF old, s
<1> QED BY <1>1, <1>5, <1>6

\* The file is found to be its copy, or the attempt begins anew.
LEMMA VerifyFileIs ==
  ASSUME me \in [Proc -> Progress], NEW p \in Proc, VerifyFile(p), LookOK(p)
  PROVE  \/ Looked(p)
         \/ /\ OthersStay(p) /\ Still /\ LookOK(p)' /\ me[p].pc = "verifyfile"
            /\ me'[p].pc = "verifyside" /\ me'[p].copied = file /\ me[p].copied = file
            /\ me'[p].kind = me[p].kind /\ me'[p].side = me[p].side
<1> DEFINE old == me[p]
           m == [old EXCEPT !.pc = "verifyside"]
<1>1. /\ me[p].pc = "verifyfile" /\ Still
      /\ \/ Retry(p)
         \/ me' = [me EXCEPT ![p] = m] /\ file = me[p].copied
  BY DEF VerifyFile, Goto, At, Still
<1>2. old \in Progress
  OBVIOUS
<1>3. /\ m.pc = "verifyside" /\ m.side = old.side /\ m.kind = old.kind
      /\ m.answer = old.answer /\ m.copied = old.copied
  <2> HIDE DEF old
  <2> QED BY <1>2 DEF Progress
<1>4. old.kind \in {"rollback", "wal"} /\ old.answer = "none"
  BY <1>1 DEF LookOK, Looking
<1>5. CASE Retry(p)
  BY <1>4, <1>5, RetryLooked
<1>6. CASE me' = [me EXCEPT ![p] = m] /\ file = me[p].copied
  <2> HIDE DEF m, old
  <2>1. me'[p] = m /\ OthersStay(p)
    BY <1>6 DEF OthersStay
  <2>2. LookOK(p)'
    BY <1>3, <1>4, <2>1 DEF LookOK
  <2> QED BY <1>1, <1>3, <1>6, <2>1, <2>2 DEF old
<1> QED BY <1>1, <1>5, <1>6

-----------------------------------------------------------------------------
(* The invariant of copies is kept.                                        *)

\* What a step leaves a process that is copying: what it has seen and the
\* ledger held then.
Onward(q) ==
  /\ OpenInv' /\ Grows(Lasting(file), Lasting(file'))
  /\ seen' \in [Proc -> SUBSET Image]
  /\ me'[q].pc \in {"copyside", "verifyfile", "verifyside"}
       => seen[q] \subseteq seen'[q] /\ Committed' \in seen'[q]

\* A copy stays what it was while others write.
LEMMA FileWaits ==
  ASSUME CopyInv, NEW q \in Proc, Onward(q), FileOK(q),
         me'[q].pc \in {"copyside", "verifyfile", "verifyside"}
           => /\ me'[q].copied = me[q].copied
              /\ me[q].pc \in {"copyside", "verifyfile", "verifyside"}
  PROVE  FileOK(q)'
<1> DEFINE f == me[q].copied
<1> SUFFICES ASSUME me'[q].pc \in {"copyside", "verifyfile", "verifyside"}
             PROVE  /\ Lasting(f) \in Image /\ Written(f, None)
                    /\ Grows(Lasting(f), Lasting(file'))
                    /\ \/ Lasting(f) \in seen'[q]
                       \/ f.torn = None /\ \E img \in seen'[q] : img.mode = "wal"
  BY DEF FileOK
<1>1. /\ Lasting(f) \in Image /\ Written(f, None) /\ Grows(Lasting(f), Lasting(file))
      /\ \/ Lasting(f) \in seen[q]
         \/ f.torn = None /\ \E img \in seen[q] : img.mode = "wal"
  BY DEF FileOK
<1>2. seen[q] \subseteq seen'[q]
  BY DEF Onward
<1>3. Lasting(f) \in Image /\ Lasting(file) \in Image
  BY <1>1, LastingIs DEF CopyInv
<1>4. Lasting(file') \in Image
  <2>1. LeftBehind(file', journal', wal')
    BY DEF Onward, OpenInv
  <2> QED BY <2>1, LastingHeld
<1>5. Grows(Lasting(f), Lasting(file'))
  <2> HIDE DEF f
  <2> QED BY <1>1, <1>3, <1>4, GrowsOn DEF Onward
<1> QED BY <1>1, <1>2, <1>5

\* So does what the ledger held when the journal or the WAL was copied.
LEMMA SideWaits ==
  ASSUME CopyInv, NEW q \in Proc, Onward(q), me'[q] = me[q]
  PROVE  SideOK(q)'
<1> DEFINE f == me[q].copied
           side == me[q].side
           kind == me[q].kind
           Past(l, img) == IF me[q].pc = "verifyfile" THEN l ELSE Lasting(f)
<1> SUFFICES ASSUME me[q].pc \in {"verifyfile", "verifyside"}
             PROVE  \E img \in seen'[q] :
                      /\ kind = "rollback" => side = img /\ img \in Stored
                      /\ kind = "wal" /\ side # None => side.img = img
                      /\ kind = "rollback" \/ side = None =>
                           /\ Grows(Lasting(f), img)
                           /\ Grows(img, IF me[q].pc = "verifyfile" THEN Lasting(file')
                                         ELSE Lasting(f))
  BY DEF SideOK
<1>1. SideOK(q) /\ seen[q] \subseteq seen'[q] /\ seen[q] \subseteq Image
  BY DEF CopyInv, CopyOK, Onward
<1>2. PICK img \in seen[q] :
         /\ kind = "rollback" => side = img /\ img \in Stored
         /\ kind = "wal" /\ side # None => side.img = img
         /\ kind = "rollback" \/ side = None =>
              /\ Grows(Lasting(f), img)
              /\ Grows(img, IF me[q].pc = "verifyfile" THEN Lasting(file) ELSE Lasting(f))
  BY <1>1 DEF SideOK
<1>3. img \in Image /\ img \in seen'[q] /\ Lasting(file) \in Image
  BY <1>1, LastingIs DEF CopyInv
<1>4. Lasting(file') \in Image
  <2>1. LeftBehind(file', journal', wal')
    BY DEF Onward, OpenInv
  <2> QED BY <2>1, LastingHeld
<1>5. Grows(img, Lasting(file)) => Grows(img, Lasting(file'))
  BY <1>3, <1>4, GrowsOn DEF Onward
<1>6. Grows(img, IF me[q].pc = "verifyfile" THEN Lasting(file) ELSE Lasting(f))
      => Grows(img, IF me[q].pc = "verifyfile" THEN Lasting(file') ELSE Lasting(f))
  BY <1>5
<1> HIDE DEF f, side, kind
<1> QED BY <1>2, <1>3, <1>6

\* A process that waits keeps all it knows of its copy.
LEMMA CopyWaits ==
  ASSUME CopyInv, NEW q \in Proc, Onward(q), me'[q] = me[q]
  PROVE  CopyOK(q)'
<1>1. CopyOK(q)
  BY DEF CopyInv
<1>2. LookOK(q)'
  BY <1>1 DEF CopyOK, LookOK
<1>3. FileOK(q)'
  BY <1>1, FileWaits DEF CopyOK
<1> QED BY <1>2, <1>3, SideWaits DEF CopyOK

\* The steps that copy and compare.
LEMMA LookedIsOK ==
  ASSUME NEW p \in Proc, Looked(p)
  PROVE  CopyOK(p)'
BY DEF Looked, CopyOK, FileOK, SideOK

\* The copy of the file is the file, and the ledger held at least that.
LEMMA CopyFileOK ==
  ASSUME CopyInv, NEW p \in Proc, Onward(p), CopyFile(p)
  PROVE  OthersStay(p) /\ CopyOK(p)'
<1>1. LookOK(p) /\ me \in [Proc -> Progress] /\ OpenInv
  BY DEF CopyInv, CopyOK, OpenInv, ProcessTypes
<1>2. /\ OthersStay(p) /\ Still /\ LookOK(p)'
      /\ me'[p].pc = "copyside" /\ me'[p].copied = file
  BY <1>1, CopyFileIs
<1>3. /\ LeftBehind(file, journal, wal)
      /\ Committed' = Committed /\ Committed \in seen'[p] /\ file' = file
  BY <1>1, <1>2 DEF Onward, OpenInv, Still, Committed
<1>4. Lasting(file) \in Image /\ Written(file, None)
  BY <1>1, LastingIs DEF CopyInv
<1>5. Grows(Lasting(file), Lasting(file'))
  BY DEF Onward
<1>6. Lasting(file) \in seen'[p] \/ (file.torn = None /\ \E img \in seen'[p] : img.mode = "wal")
  <2>1. CASE wal = None
    BY <1>1, <1>3, <2>1, LastingIs
  <2>2. CASE wal # None
    <3>1. Committed.mode = "wal" /\ file.torn = None
      BY <1>1, <1>3, <2>2, LastingIs, HeldIs, CommittedIs
    <3> QED BY <1>3, <3>1
  <2> QED BY <2>1, <2>2
<1>7. FileOK(p)'
  BY <1>2, <1>4, <1>5, <1>6 DEF FileOK
<1>8. SideOK(p)'
  BY <1>2 DEF SideOK
<1> QED BY <1>2, <1>7, <1>8 DEF CopyOK

\* With the journal or the WAL the ledger itself is copied, as of now.
LEMMA CopySidecarOK ==
  ASSUME CopyInv, NEW p \in Proc, Onward(p), CopySidecar(p)
  PROVE  OthersStay(p) /\ CopyOK(p)'
<1>1. LookOK(p) /\ FileOK(p) /\ me \in [Proc -> Progress] /\ OpenInv
  BY DEF CopyInv, CopyOK, OpenInv, ProcessTypes
<1>2. CASE Looked(p)
  BY <1>2, LookedIsOK DEF Looked
<1>3. CASE /\ OthersStay(p) /\ Still /\ LookOK(p)' /\ me[p].pc = "copyside"
           /\ me'[p].pc = "verifyfile" /\ me'[p].copied = me[p].copied
           /\ me'[p].kind = me[p].kind /\ me'[p].side = Sidecar(p)
           /\ me[p].kind \in {"rollback", "wal"} /\ (me[p].kind = "wal" \/ journal # None)
  <2> DEFINE f == me[p].copied
             side == Sidecar(p)
             kind == me[p].kind
             img == Committed
  <2>1. FileOK(p)'
    BY <1>1, <1>3, FileWaits
  <2>2. /\ Committed' = Committed /\ Committed \in seen'[p] /\ file' = file
    BY <1>1, <1>3 DEF Onward, OpenInv, Still, Committed
  <2>3. Grows(Lasting(f), Lasting(file))
    BY <1>1, <1>3 DEF FileOK
  <2>4. kind = "rollback" => side = journal /\ side = img /\ img \in Stored /\ wal = None
    BY <1>1, <1>3, LastingIs DEF Sidecar
  <2>5. kind = "wal" => side = wal
    BY DEF Sidecar
  <2>6. kind = "wal" /\ side # None => side.img = img
    BY <1>1, <2>5, LastingIs
  <2>7. kind = "rollback" \/ side = None =>
          Grows(Lasting(f), img) /\ Grows(img, Lasting(file))
    <3>1. ASSUME kind = "rollback" \/ side = None
          PROVE  img = Lasting(file) /\ Lasting(file) \in Image
      <4>1. wal = None
        BY <1>3, <2>4, <2>5, <3>1
      <4> QED BY <1>1, <4>1, LastingIs
    <3> HIDE DEF kind, side, img, f
    <3> QED BY <2>3, <3>1, GrowsItself
  <2>8. SideOK(p)'
    <3> SUFFICES \E i \in seen'[p] :
                    /\ kind = "rollback" => side = i /\ i \in Stored
                    /\ kind = "wal" /\ side # None => side.img = i
                    /\ kind = "rollback" \/ side = None =>
                         Grows(Lasting(f), i) /\ Grows(i, Lasting(file))
      BY <1>3, <2>2 DEF SideOK
    <3> HIDE DEF kind, side, f
    <3>1. img \in seen'[p]
      BY <2>2
    <3> HIDE DEF img
    <3> QED BY <2>4, <2>6, <2>7, <3>1
  <2> QED BY <1>3, <2>1, <2>8 DEF CopyOK
<1> QED BY <1>1, <1>2, <1>3, CopySidecarIs

\* A file that is still its copy held the same in between.
LEMMA VerifyFileOK ==
  ASSUME CopyInv, NEW p \in Proc, Onward(p), VerifyFile(p)
  PROVE  OthersStay(p) /\ CopyOK(p)'
<1>1. LookOK(p) /\ FileOK(p) /\ SideOK(p) /\ me \in [Proc -> Progress]
  BY DEF CopyInv, CopyOK, OpenInv, ProcessTypes
<1>2. CASE Looked(p)
  BY <1>2, LookedIsOK DEF Looked
<1>3. CASE /\ OthersStay(p) /\ Still /\ LookOK(p)' /\ me[p].pc = "verifyfile"
           /\ me'[p].pc = "verifyside" /\ me'[p].copied = file /\ me[p].copied = file
           /\ me'[p].kind = me[p].kind /\ me'[p].side = me[p].side
  <2>1. FileOK(p)'
    BY <1>1, <1>3, FileWaits
  <2>2. seen[p] \subseteq seen'[p]
    BY <1>3 DEF Onward
  <2>3. SideOK(p)'
    BY <1>1, <1>3, <2>2 DEF SideOK
  <2> QED BY <1>3, <2>1, <2>3 DEF CopyOK
<1> QED BY <1>1, <1>2, <1>3, VerifyFileIs

\* A step of one process, which the others see only in the files.
LEMMA MoverOK ==
  ASSUME CopyInv, NEW p \in Proc, Onward(p),
         Opening(p) \/ Call(p) \/ Fail(p) \/ Record(p) \/ Close(p) \/ Crash(p)
  PROVE  OthersStay(p) /\ CopyOK(p)'
<1>0. OpenInv /\ LookOK(p)
  BY DEF CopyInv, CopyOK
<1>1. CASE \/ PrepareStatePath(p) \/ HasRollbackJournal(p) \/ InspectHeader(p)
           \/ Recheck(p) \/ RequiresJournalMigration(p) \/ VerifySidecar(p)
  <2>1. Looked(p)
    BY <1>0, <1>1, LookingLooked
  <2> QED BY <2>1, LookedIsOK DEF Looked
<1>2. CASE CopyFile(p) \/ CopySidecar(p) \/ VerifyFile(p)
  BY <1>2, CopyFileOK, CopySidecarOK, VerifyFileOK
<1>3. CASE \/ RecoverHot(p) \/ WriteJournal(p) \/ WritePages(p)
           \/ GiveUp(p) \/ OpenSource(p) \/ ReadVersion(p) \/ ReadStructure(p)
           \/ ReadIdentity(p) \/ ReadOnlyMeetsHot(p) \/ Checkpoint(p)
           \/ VerifyMigratedHeader(p) \/ Connect(p) \/ Begin(p) \/ RestoreGuard(p) \/ Fail(p)
  <2>1. Elsewhere(p)
    BY <1>0, <1>3, ConnectedElsewhere
  <2>2. Looked(p)
    BY <2>1, ElsewhereLooked
  <2> QED BY <2>2, LookedIsOK DEF Looked
<1>4. CASE \/ Leave(p) \/ Commit(p) \/ EnsureIdentity(p) \/ SwitchMode(p)
           \/ InitializeSchema(p) \/ Stamp(p)
           \/ Call(p) \/ Record(p) \/ Close(p) \/ Crash(p)
  <2>1. Elsewhere(p)
    BY <1>0, <1>4, WritingElsewhere
  <2>2. Looked(p)
    BY <2>1, ElsewhereLooked
  <2> QED BY <2>2, LookedIsOK DEF Looked
<1> QED BY <1>1, <1>2, <1>3, <1>4 DEF Opening

\* Every step leaves a copying process that much.
LEMMA StepOnward == ASSUME CopyInv, Next, NEW q \in Proc PROVE Onward(q)
<1>1. OpenInv' /\ Grows(Lasting(file), Lasting(file'))
  BY NextStep, GrowthStep DEF CopyInv
<1>2. Committed' \in Image
  <2>1. LeftBehind(file', journal', wal')
    BY <1>1 DEF OpenInv
  <2>2. Committed' = Held(file', journal', wal')
    BY DEF Committed, Held
  <2> QED BY <2>1, <2>2, HeldIs
<1>3. Watch /\ seen \in [Proc -> SUBSET Image]
  BY DEF Next, CopyInv
<1>4. seen' \in [Proc -> SUBSET Image]
  BY <1>2, <1>3 DEF Watch
<1> QED BY <1>1, <1>3, <1>4 DEF Watch, Onward

\* Every step keeps the invariant of copies.
LEMMA CopyStep == ASSUME CopyInv, [Next]_vars PROVE CopyInv'
<1>0. OpenInv /\ Written(file, None) /\ Grows(Lasting(file), Committed)
      /\ seen \in [Proc -> SUBSET Image]
  BY DEF CopyInv
<1>1. /\ OpenInv' /\ Written(file', None) /\ Grows(Lasting(file'), Committed')
      /\ Grows(Lasting(file), Lasting(file'))
  BY <1>0, NextStep, GrowthStep
<1>2. CASE UNCHANGED vars
  <2>1. UNCHANGED <<file, journal, wal, me, seen>>
    BY <1>2 DEF vars
  <2>2. ASSUME NEW q \in Proc PROVE CopyOK(q)'
    <3>1. CopyOK(q)
      BY DEF CopyInv
    <3> QED BY <2>1, <3>1 DEF CopyOK, LookOK, FileOK, SideOK
  <2> QED BY <1>0, <1>1, <2>1, <2>2 DEF CopyInv
<1>3. CASE Next
  <2>1. ASSUME NEW q \in Proc PROVE Onward(q)
    BY <1>3, StepOnward
  <2>2. ASSUME NEW p \in Proc, OthersStay(p), CopyOK(p)', NEW q \in Proc PROVE CopyOK(q)'
    BY <2>1, <2>2, CopyWaits DEF OthersStay
  <2>3. ASSUME NEW q \in Proc PROVE CopyOK(q)'
    <3>1. ASSUME NEW p \in Proc,
                 Opening(p) \/ Call(p) \/ Fail(p) \/ Record(p) \/ Close(p) \/ Crash(p)
          PROVE  CopyOK(q)'
      BY <2>1, <2>2, <3>1, MoverOK
    <3>2. CASE OlderOpens \/ OlderWrites \/ OlderLeaves \/ OlderDies
      <4>1. me'[q] = me[q]
        BY <3>2 DEF OlderOpens, OlderWrites, OlderLeaves, OlderDies
      <4> QED BY <2>1, <4>1, CopyWaits
    <3> QED BY <1>3, <3>1, <3>2 DEF Next, Environment
  <2>4. seen' \in [Proc -> SUBSET Image]
    BY <1>0, <1>3, <2>1 DEF Onward, Next, Watch
  <2> QED BY <1>1, <2>3, <2>4 DEF CopyInv
<1> QED BY <1>2, <1>3

\* Whoever copies while others write, crash and recover has copied what the
\* ledger held.
THEOREM CopyInvHolds == Spec => []CopyInv
<1>1. Init => CopyInv
  <2> SUFFICES ASSUME Init PROVE CopyInv
    OBVIOUS
  <2>1. PICK s \in Starts : file = s.file /\ journal = s.journal /\ wal = s.wal
    BY DEF Init
  <2>2. OpenInv /\ Written(file, wal)
    BY <2>1, StartInvariant, StartsAssumption
  <2>3. Written(file, None) /\ (wal # None => Grows(wal.base, wal.img))
    BY <2>2 DEF Written
  <2>4. seen = [p \in Proc |-> {}] /\ me = [p \in Proc |-> Fresh] /\ Fresh.pc = "idle"
    BY DEF Init, Fresh
  <2>5. Grows(Lasting(file), Committed)
    <3>1. CASE wal = None
      BY <2>2, <3>1, LastingIs, GrowsItself
    <3>2. CASE wal # None
      <4>1. wal.base = file.img
        BY <2>2, <3>2 DEF OpenInv, LeftBehind
      <4> QED BY <2>2, <2>3, <3>2, <4>1, LastingIs
    <3> QED BY <3>1, <3>2
  <2>6. ASSUME NEW p \in Proc PROVE CopyOK(p)
    BY <2>4 DEF CopyOK, LookOK, FileOK, SideOK, Looking
  <2> QED BY <2>2, <2>3, <2>4, <2>5, <2>6 DEF CopyInv
<1>2. CopyInv /\ [Next]_vars => CopyInv'
  BY CopyStep
<1> QED BY <1>1, <1>2, PTL DEF Spec

-----------------------------------------------------------------------------
(* The verdict on a copy.                                                  *)

\* What ends the validation of a copy.
LEMMA VerdictIs ==
  ASSUME CopyInv, [Next]_vars, NEW p \in Proc, me[p].pc = "verifyside"
  PROVE  \/ me'[p] = me[p] \/ me'[p] = Fresh
         \/ VerifySidecar(p)
<1>1. OpenInv /\ me \in [Proc -> Progress] /\ p \notin walUsers
  BY Places DEF CopyInv
<1>2. ASSUME NEW q \in Proc, q # p,
             Opening(q) \/ Call(q) \/ Fail(q) \/ Record(q) \/ Close(q) \/ Crash(q), Next
      PROVE  me'[p] = me[p]
  <2>1. Onward(q)
    BY <1>2, StepOnward
  <2> QED BY <1>2, <2>1, MoverOK DEF OthersStay
<1>3. ASSUME Opening(p) PROVE VerifySidecar(p)
  BY <1>3
     DEF Opening, PrepareStatePath, HasRollbackJournal, InspectHeader, Recheck, CopyFile,
         CopySidecar, VerifyFile, RequiresJournalMigration, RecoverHot, Leave, WriteJournal,
         WritePages, Commit, GiveUp, OpenSource, ReadVersion, ReadStructure, ReadIdentity,
         ReadOnlyMeetsHot, EnsureIdentity, Checkpoint, SwitchMode, VerifyMigratedHeader,
         Connect, Begin, InitializeSchema, RestoreGuard, Stamp, At
<1>4. ASSUME Call(p) \/ Fail(p) \/ Record(p) \/ Close(p) \/ Crash(p) PROVE me'[p] = Fresh
  BY <1>1, <1>4 DEF Call, Fail, Record, Close, Crash, At, InTransaction
<1>5. ASSUME OlderOpens \/ OlderWrites \/ OlderLeaves \/ OlderDies \/ UNCHANGED vars
      PROVE  me'[p] = me[p]
  BY <1>5 DEF OlderOpens, OlderWrites, OlderLeaves, OlderDies, vars
<1> QED BY <1>2, <1>3, <1>4, <1>5 DEF Next, Environment

\* What a verdict leaves: only an accepted copy leads on, only a rejected one
\* is answered with "invalid".
LEMMA VerdictMeans ==
  ASSUME CopyInv, [Next]_vars, NEW p \in Proc, me[p].pc = "verifyside"
  PROVE  /\ me'[p].pc \in {"mode", "source"} => CopyAccepted(me[p])
         /\ me'[p].answer = "invalid" => ~ CopyAccepted(me[p])
<1>0. /\ OpenInv /\ me \in [Proc -> Progress] /\ p \notin walUsers /\ me[p] \in Progress
      /\ me[p].answer = "none" /\ me[p].kind \in {"rollback", "wal"}
  BY Places DEF CopyInv, OpenInv, ProcessTypes, CopyOK, LookOK, Looking
<1>1. CASE me'[p] = me[p] \/ me'[p] = Fresh
  BY <1>0, <1>1 DEF Fresh
<1>2. CASE Retry(p)
  <2>1. CASE me[p].tries < Retries
    <3> DEFINE l == IF me[p].kind = "rollback" THEN "recheck" ELSE "copyfile"
               n == me[p].tries + 1
               old == me[p]
               m == [old EXCEPT !.pc = l, !.tries = n, !.copied = None, !.side = None]
    <3>1. me' = [me EXCEPT ![p] = m] /\ l \in {"recheck", "copyfile"}
      BY <1>2, <2>1 DEF Retry
    <3>2. m.pc = l /\ m.answer = old.answer
      <4> HIDE DEF l, n, old
      <4> QED BY <1>0 DEF Progress, old
    <3> HIDE DEF m, l
    <3> QED BY <1>0, <3>1, <3>2
  <2>2. CASE ~ (me[p].tries < Retries)
    <3>1. PICK r \in {"journal", "busy"} : Return(p, r)
      BY <1>2, <2>2 DEF Retry
    <3>2. me' = [me EXCEPT ![p] = Outcome(me[p], r)]
      BY <1>0, <3>1 DEF Return
    <3>3. Outcome(me[p], r).pc \in {"path", "idle"}
      BY <1>0, <3>1, OutcomeIs DEF Answer
    <3>4. Outcome(me[p], r).answer # "invalid"
      BY <3>1 DEF Outcome, Fresh
    <3> QED BY <1>0, <3>2, <3>3, <3>4
  <2> QED BY <2>1, <2>2
<1>3. CASE ~ CopyAccepted(me[p]) /\ Return(p, "invalid")
  <2>1. me'[p].pc \in {"path", "idle"} \/ (me'[p].pc = "open" /\ "invalid" = "ok")
    BY <1>0, <1>3, ReturnIs DEF Answer
  <2> QED BY <1>3, <2>1
<1>4. CASE /\ CopyAccepted(me[p])
           /\ me' = [me EXCEPT ![p].copied = None, ![p].side = None, ![p].tries = 0,
                       ![p].pc = IF me[p].kind = "rollback" THEN "mode" ELSE "source",
                       ![p].kind = IF @ = "rollback" THEN "none" ELSE @]
  <2> DEFINE l == IF me[p].kind = "rollback" THEN "mode" ELSE "source"
             k == IF me[p].kind = "rollback" THEN "none" ELSE me[p].kind
             zero == 0
             old == me[p]
             m == [old EXCEPT !.copied = None, !.side = None, !.tries = zero, !.pc = l, !.kind = k]
  <2>1. me' = [me EXCEPT ![p] = m]
    BY <1>4
  <2>2. m.answer = old.answer
    <3> HIDE DEF l, k, zero, old
    <3> QED BY <1>0 DEF Progress, old
  <2> HIDE DEF m
  <2> QED BY <1>0, <1>4, <2>1, <2>2
<1> QED BY <1>1, <1>2, <1>3, <1>4, VerdictIs DEF VerifySidecar

\* What SQLite makes of a pair of copies.
LEMMA RecoveredIs ==
  ASSUME CopyInv, NEW p \in Proc, me[p].pc = "verifyside",
         NEW img \in Image,
         me[p].kind = "rollback" => me[p].side = img /\ img \in Stored,
         me[p].kind = "wal" /\ me[p].side # None => me[p].side.img = img,
         me[p].kind = "wal" /\ me[p].side = None =>
           Grows(Lasting(me[p].copied), img) /\ Grows(img, Lasting(me[p].copied)),
         Recoverable(RecoveredCopy(me[p]))
  PROVE  OnePage(img, RecoveredCopy(me[p]))
<1> DEFINE f == me[p].copied
           side == me[p].side
           kind == me[p].kind
           got == RecoveredCopy(me[p])
<1>0. kind \in {"rollback", "wal"} /\ Lasting(f) \in Image /\ Written(f, None)
  BY DEF CopyInv, CopyOK, LookOK, FileOK
<1>1. got # Garbage
  BY DEF Recoverable, Structure, Version, IsEmptyDatabase, Garbage
<1>2. CASE kind = "rollback"
  <2>1. side = img /\ side # None
    BY <1>2, StoredImage
  <2>2. got = img
    BY <1>1, <1>2, <2>1 DEF RecoveredCopy, RollBack
  <2> QED BY <2>2 DEF OnePage
<1>3. CASE kind = "wal" /\ side # None
  <2>1. got = img
    BY <1>1, <1>3 DEF RecoveredCopy, Replay
  <2> QED BY <2>1 DEF OnePage
<1>4. CASE kind = "wal" /\ side = None
  <2>1. OnePage(Lasting(f), img)
    <3> HIDE DEF f
    <3> QED BY <1>0, <1>4, GrowsBack DEF f
  <2>2. got = f.img /\ (f.torn # None => OnePage(f.torn.before, f.torn.after))
    BY <1>1, <1>4 DEF RecoveredCopy, Replay
  <2>3. f.torn # None => f.img = f.torn.after
    BY <1>0, <2>2 DEF Written
  <2> QED BY <2>1, <2>2, <2>3 DEF OnePage, Lasting
<1> QED BY <1>0, <1>2, <1>3, <1>4

\* What an accepted pair of copies holds, the ledger held while it was copied
\* (validateLedgerSnapshot): no mixture of two transactions is validated.
THEOREM AcceptedCopiesExisted == Spec => AcceptedCopyExisted
<1>1. ASSUME CopyInv, [Next]_vars, NEW p \in Proc, me[p].pc = "verifyside",
             me'[p].pc \in {"mode", "source"}
      PROVE  \E img \in seen[p] : OnePage(img, RecoveredCopy(me[p]))
  <2>1. Recoverable(RecoveredCopy(me[p]))
    BY <1>1, VerdictMeans DEF CopyAccepted
  <2>2. SideOK(p) /\ seen[p] \subseteq Image
    BY <1>1 DEF CopyInv, CopyOK
  <2>3. PICK img \in seen[p] :
          /\ me[p].kind = "rollback" => me[p].side = img /\ img \in Stored
          /\ me[p].kind = "wal" /\ me[p].side # None => me[p].side.img = img
          /\ me[p].kind = "rollback" \/ me[p].side = None =>
               Grows(Lasting(me[p].copied), img) /\ Grows(img, Lasting(me[p].copied))
    BY <1>1, <2>2 DEF SideOK
  <2> QED BY <1>1, <2>1, <2>2, <2>3, RecoveredIs
<1>2. CopyInv /\ [Next]_vars =>
        \A p \in Proc :
          /\ me[p].pc = "verifyside"
          /\ me'[p].pc \in {"mode", "source"}
          => \E img \in seen[p] : OnePage(img, RecoveredCopy(me[p]))
  BY <1>1
<1> QED BY <1>2, CopyInvHolds, PTL DEF Spec, AcceptedCopyExisted

\* A rejected copy of database and journal was no mixture either: had the
\* ledger been a Motus ledger out of WAL mode all along, its copy would have
\* been the ledger, and accepted.
THEOREM RejectionsAreTrue == Spec => RejectedCopyWasInvalid
<1>1. ASSUME CopyInv, NEW p \in Proc, me[p].pc = "verifyside", me[p].kind = "rollback",
             \A img \in seen[p] : Motus(img) /\ img.mode # "wal"
      PROVE  CopyAccepted(me[p])
  <2> DEFINE f == me[p].copied
             side == me[p].side
  <2>1. FileOK(p) /\ SideOK(p) /\ seen[p] \subseteq Image
    BY <1>1 DEF CopyInv, CopyOK
  <2>2. side \in seen[p] /\ side \in Stored
        /\ Grows(Lasting(f), side) /\ Grows(side, Lasting(f))
    BY <1>1, <2>1 DEF SideOK
  <2>3. Lasting(f) \in seen[p]
    BY <1>1, <2>1 DEF FileOK
  <2>4. Lasting(f).mode = side.mode
    BY <1>1, <2>1, <2>2, <2>3 DEF Image
  <2>5. Lasting(f) = side
    <3>1. Lasting(f) \in Image /\ side \in Image
      BY <2>1, <2>2, <2>3
    <3> HIDE DEF f, side
    <3> QED BY <2>2, <2>4, <3>1, GrowsBack
  <2>6. RollBack(f, side) = side
    BY <2>5 DEF Lasting, RollBack
  <2>7. RecoveredCopy(me[p]) = side
    BY <1>1, <2>2, <2>6, StoredImage DEF RecoveredCopy
  <2>8. Motus(side) /\ side.mode = "delete"
    BY <1>1, <2>2, StoredImage
  <2>9. Recoverable(side)
    BY <2>2, <2>8, StoredImage DEF Recoverable, Motus, IsEmptyDatabase, Structure, Version
  <2> QED BY <2>7, <2>8, <2>9 DEF CopyAccepted
<1>2. CopyInv /\ [Next]_vars =>
        \A p \in Proc :
          /\ me[p].pc = "verifyside" /\ me[p].kind = "rollback"
          /\ me'[p].answer = "invalid"
          => \E img \in seen[p] : ~ Motus(img) \/ img.mode = "wal"
  BY <1>1, VerdictMeans
<1> QED BY <1>2, CopyInvHolds, PTL DEF Spec, RejectedCopyWasInvalid

-----------------------------------------------------------------------------
(* open() ends: whatever the others do, a call takes a bounded number of   *)
(* steps.  That each can be taken is NobodyWaitsForever.                   *)

Inside(m) == m.pc \notin {"idle", "open"}

\* The steps one open() takes from a place on, counted from the last: where
\* a transaction leads, what a reader does not do, and how often a copy is
\* tried again decide between ways through the same place.
StepsAt(pc, stage, kind, tries, next) ==
  LET reader == stage \in {"first", "again"}
      transaction == IF next = "wheader" THEN 14 ELSE IF next = "begin" THEN 8 ELSE 2
      copy == CASE pc = "verifyside" -> 1 [] pc = "verifyfile" -> 2
                [] pc = "copyside" -> 3 [] OTHER -> 4
  IN CASE pc = "path" -> 36 + 9 * Retries
       [] pc = "journal" -> 35 + 9 * Retries
       [] pc = "header" -> 34 + 9 * Retries
       [] pc = "recheck" -> 33 + 4 * Retries + 5 * (Retries - tries)
       [] pc \in {"copyfile", "copyside", "verifyfile", "verifyside"} ->
            IF kind = "wal" THEN 23 + copy + 4 * (Retries - tries)
            ELSE 28 + 4 * Retries + copy + 5 * (Retries - tries)
       [] pc = "mode" -> 28 + 4 * Retries
       [] pc = "source" -> 23
       [] pc = "version" -> IF reader THEN 4 ELSE 22
       [] pc = "structure" -> IF reader THEN 3 ELSE 21
       [] pc = "identity" -> IF reader THEN 2 ELSE 20
       [] pc = "ensure" -> 19
       [] pc = "checkpoint" -> 18
       [] pc = "switch" -> IF next = "wheader" THEN 17 ELSE 11
       [] pc = "wheader" -> 13
       [] pc = "connect" -> 12
       [] pc = "begin" -> 7
       [] pc = "decide" -> 6
       [] pc = "restore" -> 5
       [] pc = "stamp" -> 4
       [] pc = "txn" -> transaction + 2
       [] pc = "pages" -> transaction + 1
       [] pc = "commit" -> transaction
       [] OTHER -> 1

StepsHere(m) == StepsAt(m.pc, m.stage, m.kind, m.tries, m.next)

\* OpenForRead opens up to three times: to read, to migrate, to read again.
LongestOpen == 36 + 9 * Retries
StepsLeft(m) ==
  StepsHere(m) + (CASE m.stage = "first" -> 2 * LongestOpen
                    [] m.stage = "migrate" -> LongestOpen
                    [] OTHER -> 0)

\* The tries of a copy are counted from none, for each copy anew.
TriesInv == CopyInv /\ \A p \in Proc : me[p].tries \in 0..Retries

\* A step of p takes its call nearer to its end.
Nearer(p) ==
  /\ me'[p].tries \in 0..Retries
  /\ Inside(me'[p]) => StepsLeft(me'[p]) < StepsLeft(me[p])

\* What a process inside open() has before it.
LEMMA StepsHereRange ==
  ASSUME NEW m \in Progress, m.tries \in 0..Retries, Inside(m)
  PROVE  /\ StepsHere(m) \in 1..LongestOpen
         /\ m.pc # "leave" => StepsHere(m) >= 2
<1>1. Retries \in Nat /\ m.pc \in Label /\ m.tries \in 0..Retries
  BY OpenAssumption DEF Progress
<1> DEFINE pc == m.pc
           tries == m.tries
<1>2. pc \in Label /\ tries \in 0..Retries /\ pc \notin {"idle", "open"}
  BY <1>1 DEF Inside
<1>3. ASSUME NEW stage, NEW kind, NEW next
      PROVE  /\ StepsAt(pc, stage, kind, tries, next) \in 1..LongestOpen
             /\ pc # "leave" => StepsAt(pc, stage, kind, tries, next) >= 2
  <2> HIDE DEF pc, tries
  <2>1. CASE pc \in {"path", "journal", "header", "recheck", "mode"}
    BY <1>1, <1>2, <2>1 DEF StepsAt, LongestOpen
  <2>2. CASE pc \in {"copyfile", "copyside", "verifyfile", "verifyside"}
    BY <1>1, <1>2, <2>2 DEF StepsAt, LongestOpen
  <2>3. CASE pc \in {"txn", "pages", "commit", "switch"}
    BY <1>1, <2>3 DEF StepsAt, LongestOpen
  <2>4. CASE pc \in {"source", "version", "structure", "identity", "ensure", "checkpoint",
                     "wheader", "connect"}
    BY <1>1, <2>4 DEF StepsAt, LongestOpen
  <2>5. CASE pc \in {"begin", "decide", "restore", "stamp", "leave"}
    BY <1>1, <2>5 DEF StepsAt, LongestOpen
  <2> QED BY <1>2, <2>1, <2>2, <2>3, <2>4, <2>5 DEF Label, Outside
<1> QED BY <1>3 DEF StepsHere

\* Progress within one open() is progress.
LEMMA SameStage ==
  ASSUME NEW m, NEW n, n.stage = m.stage, StepsHere(m) \in Int, StepsHere(n) \in Int,
         StepsHere(n) < StepsHere(m)
  PROVE  StepsLeft(n) < StepsLeft(m)
<1>1. LongestOpen \in Int
  BY OpenAssumption DEF LongestOpen
<1> QED BY <1>1 DEF StepsLeft

\* Goto leads to a place with fewer steps before it.
LEMMA GotoNearer ==
  ASSUME me \in [Proc -> Progress], NEW p \in Proc, NEW l \in Label, Goto(p, l),
         me[p].tries \in 0..Retries, Inside(me[p]), l \notin {"idle", "open"},
         StepsAt(l, me[p].stage, me[p].kind, me[p].tries, me[p].next) < StepsHere(me[p])
  PROVE  Nearer(p)
<1> DEFINE m == [me[p] EXCEPT !.pc = l]
<1>1. me' = [me EXCEPT ![p] = m] /\ me[p] \in Progress
  BY DEF Goto
<1>2. /\ m \in Progress /\ m.pc = l /\ m.stage = me[p].stage /\ m.kind = me[p].kind
      /\ m.tries = me[p].tries /\ m.next = me[p].next
  BY <1>1 DEF Progress
<1> HIDE DEF m
<1>3. me'[p] = m
  BY <1>1
<1>4. StepsHere(m) < StepsHere(me[p])
  BY <1>2 DEF StepsHere
<1>5. StepsHere(m) \in Int /\ StepsHere(me[p]) \in Int
  BY <1>1, <1>2, StepsHereRange DEF Inside
<1> QED BY <1>2, <1>3, <1>4, <1>5, SameStage DEF Nearer

\* So does a step that changes other fields.
LEMMA UpdateNearer ==
  ASSUME me \in [Proc -> Progress], NEW p \in Proc, NEW m, me' = [me EXCEPT ![p] = m],
         m.stage = me[p].stage, m.tries \in 0..Retries,
         StepsHere(m) \in Int, StepsHere(me[p]) \in Int, StepsHere(m) < StepsHere(me[p])
  PROVE  Nearer(p)
<1>1. me'[p] = m
  OBVIOUS
<1> QED BY <1>1, SameStage DEF Nearer

\* The end of one open() is the end of the call or begins the next open().
LEMMA OutcomeNearer ==
  ASSUME me \in [Proc -> Progress], NEW p \in Proc, NEW r,
         me' = [me EXCEPT ![p] = Outcome(me[p], r)],
         me[p].tries \in 0..Retries, Inside(me[p])
  PROVE  Nearer(p)
<1> DEFINE m == Outcome(me[p], r)
<1>0. /\ me'[p] = m /\ StepsHere(me[p]) \in Int /\ StepsHere(me[p]) >= 1
      /\ Retries \in Nat /\ LongestOpen = 36 + 9 * Retries
  BY StepsHereRange, OpenAssumption DEF LongestOpen
<1>1. CASE me[p].stage = "first" /\ r \in {"schema", "journal", "identity", "rollback"}
  <2>1. m = [Fresh EXCEPT !.pc = "path", !.stage = "migrate", !.why = r]
    BY <1>1 DEF Outcome
  <2>2. m.pc = "path" /\ m.stage = "migrate" /\ m.tries = 0
    BY <2>1 DEF Fresh
  <2> HIDE DEF m
  <2>3. StepsHere(m) = LongestOpen
    BY <1>0, <2>2 DEF StepsHere, StepsAt
  <2>4. StepsLeft(m) = 2 * LongestOpen
    BY <1>0, <2>2, <2>3 DEF StepsLeft
  <2>5. StepsLeft(me[p]) = StepsHere(me[p]) + 2 * LongestOpen
    BY <1>1 DEF StepsLeft
  <2> QED BY <1>0, <2>2, <2>4, <2>5 DEF Nearer
<1>2. CASE me[p].stage = "migrate" /\ r = "ok"
  <2>1. m = [Fresh EXCEPT !.pc = "path", !.stage = "again"]
    BY <1>2 DEF Outcome
  <2>2. m.pc = "path" /\ m.stage = "again" /\ m.tries = 0
    BY <2>1 DEF Fresh
  <2> HIDE DEF m
  <2>3. StepsHere(m) = LongestOpen
    BY <1>0, <2>2 DEF StepsHere, StepsAt
  <2>4. StepsLeft(m) = LongestOpen
    BY <1>0, <2>2, <2>3 DEF StepsLeft
  <2>5. StepsLeft(me[p]) = StepsHere(me[p]) + LongestOpen
    BY <1>2 DEF StepsLeft
  <2> QED BY <1>0, <2>2, <2>4, <2>5 DEF Nearer
<1>3. CASE me[p].stage = "migrate" /\ r \notin {"ok", "invalid"}
  <2>1. m.pc = "idle" /\ m.tries = 0
    BY <1>3 DEF Outcome, Fresh
  <2> QED BY <1>0, <2>1 DEF Nearer, Inside
<1>4. CASE /\ ~ (me[p].stage = "first" /\ r \in {"schema", "journal", "identity", "rollback"})
           /\ ~ (me[p].stage = "migrate" /\ r = "ok")
           /\ ~ (me[p].stage = "migrate" /\ r \notin {"ok", "invalid"})
  <2>1. m.pc \in {"open", "idle"} /\ m.tries = 0
    BY <1>4 DEF Outcome, Fresh
  <2> QED BY <1>0, <2>1 DEF Nearer, Inside
<1> QED BY <1>1, <1>2, <1>3, <1>4

\* Return closes a connection in WAL mode first.
LEMMA ReturnNearer ==
  ASSUME me \in [Proc -> Progress], NEW p \in Proc, NEW r, Return(p, r),
         me[p].tries \in 0..Retries, Inside(me[p]), me[p].pc # "leave"
  PROVE  Nearer(p)
<1>0. me[p] \in Progress /\ StepsHere(me[p]) \in Int /\ StepsHere(me[p]) >= 2
  BY StepsHereRange
<1>1. CASE p \in walUsers
  <2> DEFINE m == [me[p] EXCEPT !.pc = "leave", !.answer = r]
  <2>1. me' = [me EXCEPT ![p] = m]
    BY <1>1 DEF Return
  <2>2. m.pc = "leave" /\ m.stage = me[p].stage /\ m.tries = me[p].tries
    BY <1>0 DEF Progress
  <2> HIDE DEF m
  <2>3. StepsHere(m) = 1
    BY <2>2 DEF StepsHere, StepsAt
  <2>4. StepsHere(m) < StepsHere(me[p])
    BY <1>0, <2>3
  <2>5. m.tries \in 0..Retries /\ StepsHere(m) \in Int
    BY <2>2, <2>3
  <2> QED BY <1>0, <2>1, <2>2, <2>4, <2>5, UpdateNearer
<1>2. CASE p \notin walUsers
  <2>1. me' = [me EXCEPT ![p] = Outcome(me[p], r)]
    BY <1>2 DEF Return
  <2> QED BY <2>1, OutcomeNearer
<1> QED BY <1>1, <1>2

\* What every step of open() may rely on here.
Ready(p) ==
  /\ me \in [Proc -> Progress] /\ me[p] \in Progress
  /\ me[p].tries \in 0..Retries
  /\ Inside(me[p]) => StepsHere(me[p]) \in Int

LEMMA IsReady == ASSUME TriesInv, NEW p \in Proc PROVE Ready(p)
<1>1. me \in [Proc -> Progress] /\ me[p] \in Progress /\ me[p].tries \in 0..Retries
  BY DEF TriesInv, CopyInv, OpenInv, ProcessTypes
<1> QED BY <1>1, StepsHereRange DEF Ready

\* Looking at the files.
LEMMA LookNearer ==
  ASSUME TriesInv, NEW p \in Proc,
         \/ PrepareStatePath(p) \/ HasRollbackJournal(p) \/ InspectHeader(p)
         \/ Recheck(p) \/ RequiresJournalMigration(p) \/ VerifyMigratedHeader(p)
  PROVE  Nearer(p)
<1> DEFINE old == me[p]
           zero == 0
<1>0. /\ me \in [Proc -> Progress] /\ me[p] \in Progress /\ me[p].tries \in 0..Retries
      /\ {"journal", "mode", "header", "copyfile", "connect"} \subseteq Label
      /\ Retries \in Nat /\ zero \in 0..Retries
  BY IsReady, OpenAssumption DEF Ready, Label, Outside
<1>a. ASSUME NEW r, Return(p, r), Inside(me[p]), me[p].pc # "leave" PROVE Nearer(p)
  BY <1>0, <1>a, ReturnNearer
<1>1. CASE PrepareStatePath(p)
  <2>1. me[p].pc = "path" /\ (Return(p, "notfound") \/ Goto(p, "journal"))
    BY <1>1 DEF PrepareStatePath, At
  <2> QED BY <1>0, <1>a, <2>1, GotoNearer DEF Inside, StepsHere, StepsAt
<1>2. CASE HasRollbackJournal(p)
  <2>1. me[p].pc = "journal" /\ (Goto(p, "mode") \/ Goto(p, "header"))
    BY <1>2 DEF HasRollbackJournal, At
  <2> QED BY <1>0, <2>1, GotoNearer DEF Inside, StepsHere, StepsAt
<1>3. CASE InspectHeader(p)
  <2> DEFINE m == [old EXCEPT !.pc = "recheck", !.kind = "rollback", !.tries = zero]
  <2>1. /\ me[p].pc = "header"
        /\ \/ \E r : Return(p, r)
           \/ Goto(p, "mode") \/ me' = [me EXCEPT ![p] = m]
    BY <1>3 DEF InspectHeader, At
  <2>2. m.pc = "recheck" /\ m.tries = zero /\ m.stage = old.stage
    <3> HIDE DEF zero
    <3> QED BY <1>0 DEF Progress
  <2> HIDE DEF m
  <2>3. StepsHere(m) \in Int /\ StepsHere(me[p]) \in Int /\ StepsHere(m) < StepsHere(me[p])
    BY <1>0, <2>1, <2>2 DEF StepsHere, StepsAt
  <2>4. CASE Goto(p, "mode")
    BY <1>0, <2>1, <2>4, GotoNearer DEF Inside, StepsHere, StepsAt
  <2>5. CASE me' = [me EXCEPT ![p] = m]
    <3> HIDE DEF zero
    <3> QED BY <1>0, <2>2, <2>3, <2>5, UpdateNearer
  <2> QED BY <1>a, <2>1, <2>4, <2>5 DEF Inside
<1>4. CASE Recheck(p)
  <2> DEFINE m == [old EXCEPT !.pc = "mode", !.kind = "none", !.tries = zero]
  <2>1. me[p].pc = "recheck" /\ (Goto(p, "copyfile") \/ me' = [me EXCEPT ![p] = m])
    BY <1>4 DEF Recheck, At
  <2>2. m.pc = "mode" /\ m.tries = zero /\ m.stage = old.stage
    <3> HIDE DEF zero
    <3> QED BY <1>0 DEF Progress
  <2> HIDE DEF m
  <2>3. StepsHere(m) \in Int /\ StepsHere(me[p]) \in Int /\ StepsHere(m) < StepsHere(me[p])
    BY <1>0, <2>1, <2>2 DEF StepsHere, StepsAt
  <2>4. CASE Goto(p, "copyfile")
    BY <1>0, <2>1, <2>4, GotoNearer DEF Inside, StepsHere, StepsAt
  <2>5. CASE me' = [me EXCEPT ![p] = m]
    <3> HIDE DEF zero
    <3> QED BY <1>0, <2>2, <2>3, <2>5, UpdateNearer
  <2> QED BY <2>1, <2>4, <2>5
<1>5. CASE RequiresJournalMigration(p)
  <2> DEFINE m == [old EXCEPT !.pc = "copyfile", !.kind = "wal"]
  <2>1. /\ me[p].pc = "mode"
        /\ Return(p, "journal") \/ Goto(p, "connect") \/ me' = [me EXCEPT ![p] = m]
    BY <1>5 DEF RequiresJournalMigration, At
  <2>2. m.pc = "copyfile" /\ m.kind = "wal" /\ m.tries = old.tries /\ m.stage = old.stage
    BY <1>0 DEF Progress
  <2> HIDE DEF m
  <2>3. StepsHere(m) \in Int /\ StepsHere(me[p]) \in Int /\ StepsHere(m) < StepsHere(me[p])
    BY <1>0, <2>1, <2>2 DEF StepsHere, StepsAt
  <2>4. CASE Goto(p, "connect")
    BY <1>0, <2>1, <2>4, GotoNearer DEF Inside, StepsHere, StepsAt
  <2>5. CASE me' = [me EXCEPT ![p] = m]
    <3> HIDE DEF zero
    <3> QED BY <1>0, <2>2, <2>3, <2>5, UpdateNearer
  <2> QED BY <1>a, <2>1, <2>4, <2>5 DEF Inside
<1>6. CASE VerifyMigratedHeader(p)
  <2> DEFINE m == [old EXCEPT !.pc = "connect", !.kind = "none"]
  <2>1. me[p].pc = "wheader" /\ (Return(p, "journal") \/ me' = [me EXCEPT ![p] = m])
    BY <1>6 DEF VerifyMigratedHeader, At
  <2>2. m.pc = "connect" /\ m.tries = old.tries /\ m.stage = old.stage
    BY <1>0 DEF Progress
  <2> HIDE DEF m
  <2>3. StepsHere(m) \in Int /\ StepsHere(me[p]) \in Int /\ StepsHere(m) < StepsHere(me[p])
    BY <2>1, <2>2 DEF StepsHere, StepsAt
  <2>4. CASE me' = [me EXCEPT ![p] = m]
    <3> HIDE DEF zero
    <3> QED BY <1>0, <2>2, <2>3, <2>4, UpdateNearer
  <2>5. Inside(me[p]) /\ me[p].pc # "leave"
    BY <2>1 DEF Inside
  <2> QED BY <1>a, <2>1, <2>4, <2>5
<1> QED BY <1>1, <1>2, <1>3, <1>4, <1>5, <1>6

\* A copy that is tried again is tried less often than before.
LEMMA RetryNearer ==
  ASSUME TriesInv, NEW p \in Proc, Retry(p),
         me[p].pc \in {"copyside", "verifyfile", "verifyside"}
  PROVE  Nearer(p)
<1>0. /\ me \in [Proc -> Progress] /\ me[p] \in Progress /\ me[p].tries \in 0..Retries
      /\ Retries \in Nat
  BY IsReady, OpenAssumption DEF Ready
<1>1. CASE me[p].tries < Retries
  <2> DEFINE l == IF me[p].kind = "rollback" THEN "recheck" ELSE "copyfile"
             n == me[p].tries + 1
             old == me[p]
             m == [old EXCEPT !.pc = l, !.tries = n, !.copied = None, !.side = None]
  <2>0. n \in 0..Retries
    BY <1>0, <1>1
  <2>1. me' = [me EXCEPT ![p] = m]
    BY <1>1 DEF Retry
  <2>2. m.pc = l /\ m.tries = n /\ m.stage = old.stage /\ m.kind = old.kind
    <3> HIDE DEF l, n
    <3> QED BY <1>0 DEF Progress
  <2> HIDE DEF m
  <2>3. StepsHere(m) \in Int /\ StepsHere(me[p]) \in Int /\ StepsHere(m) < StepsHere(me[p])
    <3>1. CASE me[p].kind = "rollback"
      BY <1>0, <2>2, <3>1 DEF StepsHere, StepsAt
    <3>2. CASE me[p].kind = "wal"
      BY <1>0, <2>2, <3>2 DEF StepsHere, StepsAt
    <3>3. CASE me[p].kind \notin {"rollback", "wal"}
      BY <1>0, <2>2, <3>3 DEF StepsHere, StepsAt
    <3> QED BY <3>1, <3>2, <3>3
  <2> HIDE DEF n
  <2> QED BY <1>0, <2>0, <2>1, <2>2, <2>3, UpdateNearer
<1>2. CASE ~ (me[p].tries < Retries)
  <2>1. \E r : Return(p, r)
    BY <1>2 DEF Retry
  <2> QED BY <1>0, <2>1, ReturnNearer DEF Inside
<1> QED BY <1>1, <1>2

\* Copying.
LEMMA CopyNearer ==
  ASSUME TriesInv, NEW p \in Proc,
         CopyFile(p) \/ CopySidecar(p) \/ VerifyFile(p) \/ VerifySidecar(p)
  PROVE  Nearer(p)
<1> DEFINE old == me[p]
           zero == 0
<1>0. /\ me \in [Proc -> Progress] /\ me[p] \in Progress /\ me[p].tries \in 0..Retries
      /\ "verifyside" \in Label /\ Retries \in Nat /\ zero \in 0..Retries
  BY IsReady, OpenAssumption DEF Ready, Label, Outside
<1>1. CASE CopyFile(p)
  <2> DEFINE f == file
             m == [old EXCEPT !.pc = "copyside", !.copied = f]
  <2>1. me[p].pc = "copyfile" /\ me' = [me EXCEPT ![p] = m]
    BY <1>1 DEF CopyFile, At
  <2>2. m.pc = "copyside" /\ m.tries = old.tries /\ m.stage = old.stage /\ m.kind = old.kind
    <3> HIDE DEF f
    <3> QED BY <1>0 DEF Progress
  <2> HIDE DEF m
  <2>3. StepsHere(m) \in Int /\ StepsHere(me[p]) \in Int /\ StepsHere(m) < StepsHere(me[p])
    BY <1>0, <2>1, <2>2 DEF StepsHere, StepsAt
  <2> QED BY <1>0, <2>1, <2>2, <2>3, UpdateNearer
<1>2. CASE CopySidecar(p)
  <2> DEFINE side == Sidecar(p)
             m == [old EXCEPT !.pc = "verifyfile", !.side = side]
  <2>1. me[p].pc = "copyside" /\ (Retry(p) \/ me' = [me EXCEPT ![p] = m])
    BY <1>2 DEF CopySidecar, At
  <2>2. m.pc = "verifyfile" /\ m.tries = old.tries /\ m.stage = old.stage /\ m.kind = old.kind
    <3> HIDE DEF side
    <3> QED BY <1>0 DEF Progress
  <2> HIDE DEF m
  <2>3. StepsHere(m) \in Int /\ StepsHere(me[p]) \in Int /\ StepsHere(m) < StepsHere(me[p])
    BY <1>0, <2>1, <2>2 DEF StepsHere, StepsAt
  <2>4. CASE me' = [me EXCEPT ![p] = m]
    BY <1>0, <2>2, <2>3, <2>4, UpdateNearer
  <2> QED BY <2>1, <2>4, RetryNearer
<1>3. CASE VerifyFile(p)
  <2>1. me[p].pc = "verifyfile" /\ (Goto(p, "verifyside") \/ Retry(p))
    BY <1>3 DEF VerifyFile, At
  <2>2. StepsAt("verifyside", me[p].stage, me[p].kind, me[p].tries, me[p].next)
          < StepsHere(me[p])
    BY <1>0, <2>1 DEF StepsHere, StepsAt
  <2> QED BY <1>0, <2>1, <2>2, GotoNearer, RetryNearer DEF Inside
<1>4. CASE VerifySidecar(p)
  <2> DEFINE l == IF me[p].kind = "rollback" THEN "mode" ELSE "source"
             k == IF me[p].kind = "rollback" THEN "none" ELSE me[p].kind
             m == [old EXCEPT !.copied = None, !.side = None, !.tries = zero, !.pc = l,
                              !.kind = k]
  <2>1. /\ me[p].pc = "verifyside"
        /\ Retry(p) \/ Return(p, "invalid") \/ me' = [me EXCEPT ![p] = m]
    BY <1>4 DEF VerifySidecar, At
  <2>2. m.pc = l /\ m.tries = zero /\ m.stage = old.stage
    <3> HIDE DEF l, k, zero
    <3> QED BY <1>0 DEF Progress
  <2> HIDE DEF m
  <2>3. StepsHere(m) \in Int /\ StepsHere(me[p]) \in Int /\ StepsHere(m) < StepsHere(me[p])
    <3>1. CASE me[p].kind = "rollback"
      BY <1>0, <2>1, <2>2, <3>1 DEF StepsHere, StepsAt
    <3>2. CASE me[p].kind # "rollback"
      BY <1>0, <2>1, <2>2, <3>2 DEF StepsHere, StepsAt
    <3> QED BY <3>1, <3>2
  <2>4. CASE me' = [me EXCEPT ![p] = m]
    <3> HIDE DEF zero
    <3> QED BY <1>0, <2>2, <2>3, <2>4, UpdateNearer
  <2>5. CASE Return(p, "invalid")
    BY <1>0, <2>1, <2>5, ReturnNearer DEF Inside
  <2> QED BY <2>1, <2>4, <2>5, RetryNearer
<1> QED BY <1>1, <1>2, <1>3, <1>4

\* The steps of a connection.
LEMMA ConnectedNearer ==
  ASSUME TriesInv, NEW p \in Proc,
         \/ OpenSource(p) \/ ReadVersion(p) \/ ReadStructure(p) \/ ReadIdentity(p)
         \/ EnsureIdentity(p) \/ Checkpoint(p) \/ SwitchMode(p) \/ Connect(p)
  PROVE  Nearer(p)
<1> DEFINE old == me[p]
<1>0. /\ me \in [Proc -> Progress] /\ me[p] \in Progress /\ me[p].tries \in 0..Retries
      /\ {"version", "ensure", "checkpoint", "wheader", "begin"} \subseteq Label
      /\ Retries \in Nat
  BY IsReady, OpenAssumption DEF Ready, Label, Outside
<1>a. ASSUME NEW r, Return(p, r), Inside(me[p]), me[p].pc # "leave" PROVE Nearer(p)
  BY <1>0, <1>a, ReturnNearer
<1>b. me[p].pc = "source" => ~ ReadOnly(p)
  BY Places DEF TriesInv, CopyInv, Copying
<1>1. CASE OpenSource(p)
  <2>1. me[p].pc = "source" /\ Goto(p, "version")
    BY <1>1 DEF OpenSource, At
  <2>2. StepsAt("version", me[p].stage, me[p].kind, me[p].tries, me[p].next)
          < StepsHere(me[p])
    BY <1>0, <1>b, <2>1 DEF StepsHere, StepsAt, ReadOnly
  <2> QED BY <1>0, <2>1, <2>2, GotoNearer DEF Inside
<1>2. CASE ReadVersion(p)
  <2> DEFINE v == Version(Committed)
             m == [old EXCEPT !.pc = "structure", !.ver = v]
  <2>1. me[p].pc = "version" /\ me' = [me EXCEPT ![p] = m]
    BY <1>2 DEF ReadVersion, At
  <2>2. m.pc = "structure" /\ m.tries = old.tries /\ m.stage = old.stage
    <3> HIDE DEF v
    <3> QED BY <1>0 DEF Progress
  <2> HIDE DEF m
  <2>3. StepsHere(m) \in Int /\ StepsHere(me[p]) \in Int /\ StepsHere(m) < StepsHere(me[p])
    BY <2>1, <2>2 DEF StepsHere, StepsAt
  <2> QED BY <1>0, <2>1, <2>2, <2>3, UpdateNearer
<1>3. CASE ReadStructure(p)
  <2> DEFINE found == Structure(me[p].ver, Committed)
             m == [old EXCEPT !.pc = "identity", !.structure = found]
  <2>1. /\ me[p].pc = "structure"
        /\ Return(p, "invalid") \/ me' = [me EXCEPT ![p] = m]
    BY <1>3 DEF ReadStructure, At
  <2>2. m.pc = "identity" /\ m.tries = old.tries /\ m.stage = old.stage
    <3> HIDE DEF found
    <3> QED BY <1>0 DEF Progress
  <2> HIDE DEF m
  <2>3. StepsHere(m) \in Int /\ StepsHere(me[p]) \in Int /\ StepsHere(m) < StepsHere(me[p])
    BY <2>1, <2>2 DEF StepsHere, StepsAt
  <2>4. CASE me' = [me EXCEPT ![p] = m]
    BY <1>0, <2>2, <2>3, <2>4, UpdateNearer
  <2>5. Inside(me[p]) /\ me[p].pc # "leave"
    BY <2>1 DEF Inside
  <2> QED BY <1>a, <2>1, <2>4, <2>5
<1>4. CASE ReadIdentity(p)
  <2>1. /\ me[p].pc = "identity"
        /\ (\E r : Return(p, r)) \/ (~ ReadOnly(p) /\ Goto(p, "ensure"))
    BY <1>4 DEF ReadIdentity, At
  <2>2. CASE ~ ReadOnly(p) /\ Goto(p, "ensure")
    <3>1. StepsAt("ensure", me[p].stage, me[p].kind, me[p].tries, me[p].next)
            < StepsHere(me[p])
      BY <2>1, <2>2 DEF StepsHere, StepsAt, ReadOnly
    <3> QED BY <1>0, <2>1, <2>2, <3>1, GotoNearer DEF Inside
  <2>3. Inside(me[p]) /\ me[p].pc # "leave"
    BY <2>1 DEF Inside
  <2> QED BY <1>a, <2>1, <2>2, <2>3
<1>5. CASE EnsureIdentity(p)
  <2> DEFINE w == [Committed EXCEPT !.id = "motus"]
             m == [old EXCEPT !.pc = "txn", !.work = w, !.next = "wheader"]
  <2>1. /\ me[p].pc = "ensure"
        /\ Goto(p, "checkpoint") \/ Goto(p, "wheader") \/ me' = [me EXCEPT ![p] = m]
    BY <1>5 DEF EnsureIdentity, At
  <2>2. m.pc = "txn" /\ m.tries = old.tries /\ m.stage = old.stage /\ m.next = "wheader"
    <3> HIDE DEF w
    <3> QED BY <1>0 DEF Progress
  <2> HIDE DEF m
  <2>3. StepsHere(m) \in Int /\ StepsHere(me[p]) \in Int /\ StepsHere(m) < StepsHere(me[p])
    BY <2>1, <2>2 DEF StepsHere, StepsAt
  <2>4. ASSUME NEW l \in {"checkpoint", "wheader"}
        PROVE  StepsAt(l, me[p].stage, me[p].kind, me[p].tries, me[p].next)
                 < StepsHere(me[p])
    BY <2>1 DEF StepsHere, StepsAt
  <2>5. CASE me' = [me EXCEPT ![p] = m]
    BY <1>0, <2>2, <2>3, <2>5, UpdateNearer
  <2>6. CASE Goto(p, "checkpoint") \/ Goto(p, "wheader")
    BY <1>0, <2>1, <2>4, <2>6, GotoNearer DEF Inside
  <2> QED BY <2>1, <2>5, <2>6
<1>6. CASE Checkpoint(p)
  <2> DEFINE m == [old EXCEPT !.pc = "switch", !.next = "wheader"]
  <2>1. me[p].pc = "checkpoint" /\ (Return(p, "journal") \/ me' = [me EXCEPT ![p] = m])
    BY <1>6 DEF Checkpoint, At
  <2>2. m.pc = "switch" /\ m.tries = old.tries /\ m.stage = old.stage /\ m.next = "wheader"
    BY <1>0 DEF Progress
  <2> HIDE DEF m
  <2>3. StepsHere(m) \in Int /\ StepsHere(me[p]) \in Int /\ StepsHere(m) < StepsHere(me[p])
    BY <2>1, <2>2 DEF StepsHere, StepsAt
  <2>4. CASE me' = [me EXCEPT ![p] = m]
    BY <1>0, <2>2, <2>3, <2>4, UpdateNearer
  <2>5. Inside(me[p]) /\ me[p].pc # "leave"
    BY <2>1 DEF Inside
  <2> QED BY <1>a, <2>1, <2>4, <2>5
<1>7. CASE SwitchMode(p)
  <2> DEFINE w == [Committed EXCEPT !.mode = "delete"]
             m == [old EXCEPT !.pc = "txn", !.work = w]
  <2>1. me[p].pc = "switch" /\ (Return(p, Trouble(p)) \/ me' = [me EXCEPT ![p] = m])
    BY <1>7 DEF SwitchMode, At
  <2>2. m.pc = "txn" /\ m.tries = old.tries /\ m.stage = old.stage /\ m.next = old.next
    <3> HIDE DEF w
    <3> QED BY <1>0 DEF Progress
  <2>a. me[p].next \in {"wheader", "begin"}
    BY <2>1 DEF TriesInv, CopyInv, OpenInv, ProcessOK, KnowsOK
  <2> HIDE DEF m
  <2>3. StepsHere(m) \in Int /\ StepsHere(me[p]) \in Int /\ StepsHere(m) < StepsHere(me[p])
    BY <2>a, <2>1, <2>2 DEF StepsHere, StepsAt
  <2>4. CASE me' = [me EXCEPT ![p] = m]
    BY <1>0, <2>2, <2>3, <2>4, UpdateNearer
  <2>5. Inside(me[p]) /\ me[p].pc # "leave"
    BY <2>1 DEF Inside
  <2> QED BY <1>a, <2>1, <2>4, <2>5
<1>8. CASE Connect(p)
  <2> DEFINE m == [old EXCEPT !.pc = "switch", !.next = "begin"]
  <2>1. /\ me[p].pc = "connect"
        /\ \/ ReadOnly(p) /\ Goto(p, "version")
           \/ Goto(p, "begin")
           \/ Return(p, "failed") \/ me' = [me EXCEPT ![p] = m]
    BY <1>8 DEF Connect, At
  <2>2. m.pc = "switch" /\ m.tries = old.tries /\ m.stage = old.stage /\ m.next = "begin"
    BY <1>0 DEF Progress
  <2> HIDE DEF m
  <2>3. StepsHere(m) \in Int /\ StepsHere(me[p]) \in Int /\ StepsHere(m) < StepsHere(me[p])
    BY <2>1, <2>2 DEF StepsHere, StepsAt
  <2>4. CASE me' = [me EXCEPT ![p] = m]
    BY <1>0, <2>2, <2>3, <2>4, UpdateNearer
  <2>5. Inside(me[p]) /\ me[p].pc # "leave"
    BY <2>1 DEF Inside
  <2>6. CASE ReadOnly(p) /\ Goto(p, "version")
    <3>1. StepsAt("version", me[p].stage, me[p].kind, me[p].tries, me[p].next)
            < StepsHere(me[p])
      BY <2>1, <2>6 DEF StepsHere, StepsAt, ReadOnly
    <3> QED BY <1>0, <2>5, <2>6, <3>1, GotoNearer
  <2>7. CASE Goto(p, "begin")
    <3>1. StepsAt("begin", me[p].stage, me[p].kind, me[p].tries, me[p].next)
            < StepsHere(me[p])
      BY <2>1 DEF StepsHere, StepsAt
    <3> QED BY <1>0, <2>5, <2>7, <3>1, GotoNearer
  <2> QED BY <1>a, <2>1, <2>4, <2>5, <2>6, <2>7
<1> QED BY <1>1, <1>2, <1>3, <1>4, <1>5, <1>6, <1>7, <1>8

\* The steps of a transaction.
LEMMA WritingNearer ==
  ASSUME TriesInv, NEW p \in Proc,
         \/ Begin(p) \/ InitializeSchema(p) \/ RestoreGuard(p) \/ Stamp(p)
         \/ WriteJournal(p) \/ WritePages(p) \/ Commit(p)
  PROVE  Nearer(p)
<1> DEFINE old == me[p]
<1>0. /\ me \in [Proc -> Progress] /\ me[p] \in Progress /\ me[p].tries \in 0..Retries
      /\ {"pages", "commit"} \subseteq Label
      /\ SchemaOK(p) /\ CommitOK(p)
  BY IsReady DEF Ready, Label, Outside, TriesInv, CopyInv, OpenInv, ProcessOK
<1>a. ASSUME NEW r, Return(p, r), Inside(me[p]), me[p].pc # "leave" PROVE Nearer(p)
  BY <1>0, <1>a, ReturnNearer
<1>b. ASSUME NEW m, me' = [me EXCEPT ![p] = m], m.stage = old.stage, m.tries = old.tries,
             StepsHere(m) \in Int, StepsHere(me[p]) \in Int, StepsHere(m) < StepsHere(me[p])
      PROVE  Nearer(p)
  BY <1>0, <1>b, UpdateNearer
<1>1. CASE Begin(p)
  <2> DEFINE m == [old EXCEPT !.pc = "decide", !.next = "opened"]
  <2>1. me[p].pc = "begin" /\ me' = [me EXCEPT ![p] = m]
    BY <1>1 DEF Begin, At
  <2>2. m.pc = "decide" /\ m.tries = old.tries /\ m.stage = old.stage
    BY <1>0 DEF Progress
  <2> HIDE DEF m
  <2>3. StepsHere(m) \in Int /\ StepsHere(me[p]) \in Int /\ StepsHere(m) < StepsHere(me[p])
    BY <2>1, <2>2 DEF StepsHere, StepsAt
  <2> QED BY <1>b, <2>1, <2>2, <2>3
<1>2. CASE InitializeSchema(p)
  <2>0. me[p].pc = "decide"
    BY <1>2 DEF InitializeSchema, At
  <2>1. \/ Return(p, "invalid")
        \/ \E l \in {"stamp", "restore"} : \E w :
             me' = [me EXCEPT ![p] = [me[p] EXCEPT !.pc = l, !.work = w]]
    BY <1>2 DEF InitializeSchema
  <2>2. ASSUME NEW l \in {"stamp", "restore"}, NEW w,
               me' = [me EXCEPT ![p] = [me[p] EXCEPT !.pc = l, !.work = w]]
        PROVE  Nearer(p)
    <3> DEFINE m == [old EXCEPT !.pc = l, !.work = w]
    <3>1. me' = [me EXCEPT ![p] = m]
      BY <2>2
    <3>2. m.pc = l /\ m.tries = old.tries /\ m.stage = old.stage
      BY <1>0 DEF Progress
    <3> HIDE DEF m
    <3>3. StepsHere(m) \in Int /\ StepsHere(me[p]) \in Int /\ StepsHere(m) < StepsHere(me[p])
      BY <2>0, <3>2 DEF StepsHere, StepsAt
    <3> QED BY <1>b, <3>1, <3>2, <3>3
  <2>3. Inside(me[p]) /\ me[p].pc # "leave"
    BY <2>0 DEF Inside
  <2> QED BY <1>a, <2>1, <2>2, <2>3
<1>3. CASE RestoreGuard(p)
  <2> DEFINE w == [old.work EXCEPT !.schema = "v2"]
             m == [old EXCEPT !.pc = "stamp", !.work = w]
  <2>1. me[p].pc = "restore" /\ me' = [me EXCEPT ![p] = m]
    BY <1>3 DEF RestoreGuard, At
  <2>2. m.pc = "stamp" /\ m.tries = old.tries /\ m.stage = old.stage
    <3> HIDE DEF w
    <3> QED BY <1>0 DEF Progress
  <2> HIDE DEF m
  <2>3. StepsHere(m) \in Int /\ StepsHere(me[p]) \in Int /\ StepsHere(m) < StepsHere(me[p])
    BY <2>1, <2>2 DEF StepsHere, StepsAt
  <2> QED BY <1>b, <2>1, <2>2, <2>3
<1>4. CASE Stamp(p)
  <2> DEFINE w == [old.work EXCEPT !.id = "motus"]
             m == [old EXCEPT !.pc = "pages", !.work = w]
  <2>0. /\ me[p].pc = "stamp"
        /\ \/ Return(p, "invalid")
           \/ me' = [me EXCEPT ![p].pc = "pages", ![p].work.id = "motus"]
    BY <1>4 DEF Stamp, At
  <2>1. Return(p, "invalid") \/ me' = [me EXCEPT ![p] = m]
    <3>1. ASSUME me' = [me EXCEPT ![p].pc = "pages", ![p].work.id = "motus"]
          PROVE  me' = [me EXCEPT ![p] = m]
      BY <3>1
    <3> QED BY <2>0, <3>1
  <2>2. m.pc = "pages" /\ m.tries = old.tries /\ m.stage = old.stage /\ m.next = old.next
    <3> HIDE DEF w
    <3> QED BY <1>0 DEF Progress
  <2>a. me[p].next = "opened"
    BY <1>0, <2>0 DEF SchemaOK
  <2> HIDE DEF m
  <2>3. StepsHere(m) \in Int /\ StepsHere(me[p]) \in Int /\ StepsHere(m) < StepsHere(me[p])
    BY <2>0, <2>a, <2>2 DEF StepsHere, StepsAt
  <2>4. Inside(me[p]) /\ me[p].pc # "leave"
    BY <2>0 DEF Inside
  <2> QED BY <1>a, <1>b, <2>1, <2>2, <2>3, <2>4
<1>5. CASE WriteJournal(p)
  <2>1. me[p].pc = "txn" /\ Goto(p, "pages")
    BY <1>5 DEF WriteJournal, At
  <2>2. StepsAt("pages", me[p].stage, me[p].kind, me[p].tries, me[p].next)
          < StepsHere(me[p])
    BY <2>1 DEF StepsHere, StepsAt
  <2> QED BY <1>0, <2>1, <2>2, GotoNearer DEF Inside
<1>6. CASE WritePages(p)
  <2>1. me[p].pc = "pages" /\ Goto(p, "commit")
    BY <1>6 DEF WritePages, At
  <2>2. StepsAt("commit", me[p].stage, me[p].kind, me[p].tries, me[p].next)
          < StepsHere(me[p])
    BY <2>1 DEF StepsHere, StepsAt
  <2> QED BY <1>0, <2>1, <2>2, GotoNearer DEF Inside
<1>7. CASE Commit(p)
  <2> DEFINE n == me[p].next
             m == [old EXCEPT !.pc = n, !.work = None]
  <2>1. /\ me[p].pc = "commit"
        /\ n # "opened" => me' = [me EXCEPT ![p] = m]
        /\ n = "opened" => Return(p, "ok")
    BY <1>7 DEF Commit, At
  <2>2. m.pc = n /\ m.tries = old.tries /\ m.stage = old.stage
    <3> HIDE DEF n
    <3> QED BY <1>0 DEF Progress
  <2>3. n \in {"opened", "wheader", "begin", "open"}
    BY <1>0, <2>1 DEF CommitOK
  <2> HIDE DEF m
  <2>4. CASE n = "opened"
    BY <1>a, <2>1, <2>4 DEF Inside
  <2>5. CASE n \in {"wheader", "begin"}
    <3>1. StepsHere(m) \in Int /\ StepsHere(me[p]) \in Int
          /\ StepsHere(m) < StepsHere(me[p])
      BY <2>1, <2>2, <2>5 DEF StepsHere, StepsAt
    <3> QED BY <1>b, <2>1, <2>2, <2>5, <3>1
  <2>6. CASE n = "open"
    <3>1. me'[p] = m
      BY <1>0, <2>1, <2>6
    <3> QED BY <1>0, <2>2, <2>6, <3>1 DEF Nearer, Inside
  <2> QED BY <2>3, <2>4, <2>5, <2>6
<1> QED BY <1>1, <1>2, <1>3, <1>4, <1>5, <1>6, <1>7

\* Giving up, failing, and closing a connection in WAL mode.
LEMMA EndNearer ==
  ASSUME TriesInv, NEW p \in Proc, GiveUp(p) \/ ReadOnlyMeetsHot(p) \/ Fail(p) \/ Leave(p)
  PROVE  Nearer(p)
<1>0. me \in [Proc -> Progress] /\ me[p].tries \in 0..Retries
  BY IsReady DEF Ready
<1>1. CASE Leave(p)
  <2>1. me[p].pc = "leave" /\ me' = [me EXCEPT ![p] = Outcome(me[p], me[p].answer)]
    BY <1>1 DEF Leave, At
  <2> QED BY <1>0, <2>1, OutcomeNearer DEF Inside
<1>2. CASE GiveUp(p) \/ ReadOnlyMeetsHot(p) \/ Fail(p)
  <2>1. /\ \E r : Return(p, r)
        /\ Inside(me[p]) /\ me[p].pc # "leave"
    BY <1>2 DEF GiveUp, ReadOnlyMeetsHot, Fail, At, Inside, InTransaction
  <2> QED BY <1>0, <2>1, ReturnNearer
<1> QED BY <1>1, <1>2

\* Every step of open() but the recovery of a journal is progress.
LEMMA OpeningNearer ==
  ASSUME TriesInv, NEW p \in Proc, Opening(p) \/ Fail(p)
  PROVE  Nearer(p) \/ me' = me
BY LookNearer, CopyNearer, ConnectedNearer, WritingNearer, EndNearer DEF Opening, RecoverHot

\* The caller's steps begin or end a call.
LEMMA CallerTries ==
  ASSUME TriesInv, NEW p \in Proc, Call(p) \/ Record(p) \/ Close(p) \/ Crash(p)
  PROVE  /\ me'[p].tries \in 0..Retries
         /\ ~ Inside(me[p]) \/ ~ Inside(me'[p])
<1> DEFINE old == me[p]
<1>0. me \in [Proc -> Progress] /\ me[p] \in Progress /\ me[p].tries \in 0..Retries
      /\ 0 \in 0..Retries
  BY IsReady, OpenAssumption DEF Ready
<1>1. CASE Call(p)
  <2>1. PICK c \in Calls :
          me' = [me EXCEPT ![p] = [Fresh EXCEPT !.pc = "path",
                                     !.stage = IF c = "Open" THEN "create" ELSE "first"]]
    BY <1>1 DEF Call
  <2>2. me'[p].tries = 0
    BY <1>0, <2>1 DEF Fresh
  <2> QED BY <1>0, <1>1, <2>2 DEF Call, At, Inside
<1>2. CASE Record(p)
  <2> DEFINE w == [file.img EXCEPT !.recs = @ + 1]
             m == [old EXCEPT !.pc = "txn", !.next = "open", !.work = w]
  <2>1. me[p].pc = "open" /\ me' = [me EXCEPT ![p] = m]
    BY <1>2 DEF Record, At
  <2>2. m.tries = old.tries
    <3> HIDE DEF w
    <3> QED BY <1>0 DEF Progress
  <2> HIDE DEF m
  <2> QED BY <1>0, <2>1, <2>2 DEF Inside
<1>3. CASE Close(p)
  <2>1. /\ me[p].pc = "open"
        /\ me' = [me EXCEPT ![p] = [Fresh EXCEPT !.stage = me[p].stage,
                                                 !.answer = me[p].answer]]
    BY <1>3 DEF Close, At
  <2>2. me'[p].tries = 0
    BY <1>0, <2>1 DEF Fresh
  <2> QED BY <1>0, <2>1, <2>2 DEF Inside
<1>4. CASE Crash(p)
  <2>1. me'[p] = Fresh
    BY <1>0, <1>4 DEF Crash
  <2> QED BY <1>0, <2>1 DEF Fresh, Inside
<1> QED BY <1>1, <1>2, <1>3, <1>4

\* A step of one process is progress of its call and leaves the others be.
LEMMA StepNearer ==
  ASSUME TriesInv, [Next]_vars, NEW p \in Proc
  PROVE  /\ me'[p].tries \in 0..Retries
         /\ \/ me'[p] = me[p] \/ ~ Inside(me[p]) \/ ~ Inside(me'[p])
            \/ StepsLeft(me'[p]) < StepsLeft(me[p])
<1>0. CopyInv /\ me[p].tries \in 0..Retries
  BY DEF TriesInv
<1>1. ASSUME NEW q \in Proc, q # p,
             Opening(q) \/ Call(q) \/ Fail(q) \/ Record(q) \/ Close(q) \/ Crash(q), Next
      PROVE  me'[p] = me[p]
  <2>1. Onward(q)
    BY <1>0, <1>1, StepOnward
  <2> QED BY <1>0, <1>1, <2>1, MoverOK DEF OthersStay
<1>2. CASE Opening(p) \/ Fail(p)
  BY <1>0, <1>2, OpeningNearer DEF Nearer
<1>3. CASE Call(p) \/ Record(p) \/ Close(p) \/ Crash(p)
  BY <1>3, CallerTries
<1>4. CASE OlderOpens \/ OlderWrites \/ OlderLeaves \/ OlderDies \/ UNCHANGED vars
  BY <1>0, <1>4 DEF OlderOpens, OlderWrites, OlderLeaves, OlderDies, vars
<1> QED BY <1>0, <1>1, <1>2, <1>3, <1>4 DEF Next, Environment

LEMMA TriesAreCounted == Spec => []TriesInv
<1>1. Init => \A p \in Proc : me[p].tries \in 0..Retries
  BY OpenAssumption DEF Init, Fresh
<1>2. TriesInv /\ [Next]_vars => \A p \in Proc : me'[p].tries \in 0..Retries
  BY StepNearer
<1> DEFINE T == \A p \in Proc : me[p].tries \in 0..Retries
<1>3. CopyInv /\ T /\ [Next]_vars => T'
  BY <1>2 DEF TriesInv
<1>4. Init => T
  BY <1>1
<1>5. CopyInv /\ T => TriesInv
  BY DEF TriesInv
<1> HIDE DEF T
<1> QED BY <1>3, <1>4, <1>5, CopyInvHolds, PTL DEF Spec

\* open() does not go on forever, whatever other processes do: a process inside
\* it has a number of steps before it, at most those of three opens with all
\* their retries, and every step it takes lowers that number or ends the call
\* (validateRollbackSnapshot and migrateWALJournal give up, OpenForRead
\* migrates once).  Only the recovery of a hot journal, which another process
\* has to die for, leaves a process where it is.
StepsAreBounded ==
  \A p \in Proc : Inside(me[p]) => StepsLeft(me[p]) \in 1..(3 * LongestOpen)

StepsRunOut ==
  [][\A p \in Proc :
       \/ me'[p] = me[p] \/ ~ Inside(me[p]) \/ ~ Inside(me'[p])
       \/ StepsLeft(me'[p]) < StepsLeft(me[p])]_vars

THEOREM OpeningEnds == Spec => []StepsAreBounded /\ StepsRunOut
<1>1. ASSUME TriesInv, NEW p \in Proc, Inside(me[p])
      PROVE  StepsLeft(me[p]) \in 1..(3 * LongestOpen)
  <2>1. StepsHere(me[p]) \in 1..LongestOpen /\ LongestOpen \in Nat
    <3>1. me[p] \in Progress /\ me[p].tries \in 0..Retries
      BY <1>1, IsReady DEF Ready
    <3>2. StepsHere(me[p]) \in 1..LongestOpen
      BY <1>1, <3>1, StepsHereRange
    <3> QED BY <3>2, OpenAssumption DEF LongestOpen
  <2> QED BY <2>1 DEF StepsLeft
<1>2. TriesInv => StepsAreBounded
  BY <1>1 DEF StepsAreBounded
<1>3. TriesInv /\ [Next]_vars =>
        \A p \in Proc :
          \/ me'[p] = me[p] \/ ~ Inside(me[p]) \/ ~ Inside(me'[p])
          \/ StepsLeft(me'[p]) < StepsLeft(me[p])
  BY StepNearer
<1> QED BY <1>2, <1>3, TriesAreCounted, PTL DEF Spec, StepsRunOut
=============================================================================
