--------------------------- MODULE GitStateProofs ---------------------------
(***************************************************************************)
(* Proofs about GitState: what a run's Git metadata says was true while it *)
(* was being read, and a run's own ledger does not make it dirty.          *)
(***************************************************************************)
EXTENDS GitState, TLAPS

-----------------------------------------------------------------------------
(* The inductive invariant.                                                *)

Creators == {Nobody, Earlier} \cup Proc
HeadNames == Commits \cup {NoHead}
Metadata == [root : {"", "root"}, head : HeadNames, dirty : BOOLEAN]

WorldTypes ==
  /\ head \in Heads /\ edited \in BOOLEAN
  /\ ledger \in [Directory -> Creators]
  /\ stateDir \in [Proc -> Directory]

CommandTypes ==
  /\ stage \in [Proc -> {"resolve", "identify", "open", "done"}]
  /\ sha \in [Proc -> HeadNames]
  /\ record \in [Proc -> Metadata]

ProcessTypes ==
  /\ step \in [Proc -> {"toplevel", "head", "symbolic", "status"}]
  /\ git \in [Proc -> {"idle", "running", "looked", "exited", "failed"}]
  /\ out = [q \in Proc |-> out[q]]
  /\ helper \in [Proc -> BOOLEAN]
  /\ past = [q \in Proc |-> past[q]]

\* A git process runs only while its command is detecting, its descendants
\* are waited for, and only status looks twice.
GitOK(p) ==
  /\ git[p] # "idle" => p \in Detecting
  /\ helper[p] => git[p] # "idle"
  /\ git[p] = "looked" => step[p] = "status"

\* While a command detects, its witness has seen the present and what the
\* command has read.
SeenOK(p) ==
  p \in Detecting =>
    /\ record[p] = Zero
    /\ Facts \subseteq past[p]
    /\ sha[p] # NoHead => <<"head", sha[p]>> \in past[p]

\* Why rev-parse did not name a commit.
NoCommit(facts) ==
  \/ \E at \in {"unborn", "unreadable", "missing"} : <<"head", at>> \in facts
  \/ <<"fault", "head">> \in facts

\* A detection that goes on without a commit had a reason: a rev-parse that
\* was cut off ends it.
HeadlessOK(p) ==
  /\ git[p] = "failed" /\ step[p] = "head" => Done(p) \/ NoCommit(past[p])
  /\ helper[p] /\ step[p] = "head" => <<"fault", "head">> \in past[p]
  /\ step[p] = "symbolic" \/ (step[p] = "status" /\ sha[p] = NoHead) => NoCommit(past[p])

\* A missing commit stays missing, and git status fails without it.
MissingOK(p) ==
  p \in Detecting =>
    /\ <<"head", "missing">> \in past[p] => head.at = "missing"
    /\ step[p] = "status" /\ git[p] \in {"looked", "exited"} =>
         <<"head", "missing">> \notin past[p]

\* What a process has written so far was so.
SaysOf(s, g, text, facts) ==
  /\ g = "exited" /\ s = "head" =>
       text \in Commits /\ <<"head", text>> \in facts
  /\ g = "looked" =>
       /\ text = Nothing => <<"edited", FALSE>> \in facts
       /\ text # Nothing => <<"edited", TRUE>> \in facts
  /\ g = "exited" /\ s = "status" =>
       /\ text = Nothing => <<"edited", FALSE>> \in facts /\ <<"untracked", FALSE>> \in facts
       /\ text # Nothing => <<"edited", TRUE>> \in facts \/ <<"untracked", TRUE>> \in facts

OutputOK(p) == SaysOf(step[p], git[p], out[p], past[p])

\* A command creates .motus last of all, and what was untracked before that
\* is somebody else's.
LedgerOK(p) ==
  /\ stage[p] # "done" => \A d \in Directory : ledger[d] # p
  /\ <<"untracked", TRUE>> \in past[p] =>
       \E d \in Directory : ledger[d] \notin {Nobody, p}

\* What the metadata m says was so.
TruthOf(m, facts) ==
  /\ m.head # NoHead => <<"head", m.head>> \in facts
  /\ m.head = NoHead =>
       \/ <<"head", "unborn">> \in facts \/ <<"head", "unreadable">> \in facts
       \/ <<"fault", "head">> \in facts
  /\ ~ m.dirty => <<"edited", FALSE>> \in facts /\ <<"untracked", FALSE>> \in facts
  /\ m.dirty => <<"edited", TRUE>> \in facts \/ <<"untracked", TRUE>> \in facts

RecordOK(p) == Reported(p) => TruthOf(record[p], past[p])

CommandOK(p) ==
  /\ GitOK(p) /\ SeenOK(p) /\ HeadlessOK(p) /\ MissingOK(p)
  /\ OutputOK(p) /\ LedgerOK(p) /\ RecordOK(p)

GitTypes == WorldTypes /\ CommandTypes /\ ProcessTypes

\* The inductive invariant.
GitInv == GitTypes /\ \A p \in Proc : CommandOK(p)

-----------------------------------------------------------------------------
(* What the witness sees, and that what was so stays witnessed.            *)

\* What is true of the repository now.
LEMMA FactsSay ==
  ASSUME edited \in BOOLEAN
  PROVE  /\ <<"head", head.at>> \in Facts
         /\ edited => <<"edited", TRUE>> \in Facts
         /\ ~ edited => <<"edited", FALSE>> \in Facts
         /\ Untracked => <<"untracked", TRUE>> \in Facts
         /\ ~ Untracked => <<"untracked", FALSE>> \in Facts
         /\ <<"untracked", TRUE>> \in Facts => Untracked
         /\ <<"head", "missing">> \in Facts => head.at = "missing"
<1>1. Untracked \in BOOLEAN
  BY DEF Untracked
<1>2. Untracked = TRUE \/ Untracked = FALSE
  BY <1>1
<1>3. edited = TRUE \/ edited = FALSE
  OBVIOUS
<1> QED BY <1>2, <1>3 DEF Facts

\* A report that was true stays one that was true.
LEMMA WitnessGrows ==
  ASSUME NEW seen, NEW later, seen \subseteq later
  PROVE  /\ \A m : TruthOf(m, seen) => TruthOf(m, later)
         /\ \A s, g, text : SaysOf(s, g, text, seen) => SaysOf(s, g, text, later)
         /\ NoCommit(seen) => NoCommit(later)
<1>1. ASSUME NEW m, TruthOf(m, seen) PROVE TruthOf(m, later)
  BY <1>1 DEF TruthOf
<1>2. ASSUME NEW s, NEW g, NEW text, SaysOf(s, g, text, seen)
      PROVE  SaysOf(s, g, text, later)
  BY <1>2 DEF SaysOf
<1>3. NoCommit(seen) => NoCommit(later)
  BY DEF NoCommit
<1> QED BY <1>1, <1>2, <1>3

\* The ledger that is untracked while a command detects is not its own.
LEMMA NotMyLedger ==
  ASSUME NEW p \in Proc, LedgerOK(p), stage[p] # "done", Untracked
  PROVE  \E d \in Directory : ledger[d] \notin {Nobody, p}
BY DEF LedgerOK, Untracked

-----------------------------------------------------------------------------
(* Commands a step leaves alone.                                           *)

Alone(p) ==
  /\ stage'[p] = stage[p] /\ record'[p] = record[p] /\ sha'[p] = sha[p]
  /\ step'[p] = step[p] /\ git'[p] = git[p] /\ out'[p] = out[p]
  /\ helper'[p] = helper[p] /\ (Done(p) => Done(p)')

\* A command nobody has touched still says what it said.
LEMMA AloneKept ==
  ASSUME NEW p \in Proc, CommandOK(p), Alone(p), past'[p] = past[p],
         UNCHANGED <<world, ledger>>
  PROVE  CommandOK(p)'
<1>1. Facts' = Facts /\ (p \in Detecting)' = (p \in Detecting)
  BY DEF Facts, Untracked, world, Alone, Detecting
<1>2. GitOK(p)' /\ OutputOK(p)' /\ RecordOK(p)'
  BY <1>1 DEF CommandOK, GitOK, OutputOK, RecordOK, Reported, Alone
<1>3. SeenOK(p)' /\ LedgerOK(p)'
  BY <1>1 DEF CommandOK, SeenOK, LedgerOK, Alone
<1>4. HeadlessOK(p)' /\ MissingOK(p)'
  BY <1>1 DEF CommandOK, HeadlessOK, MissingOK, Alone, world
<1> QED BY <1>2, <1>3, <1>4 DEF CommandOK

\* The repository changes, or another command creates its ledger, and every
\* detection witnesses it.
LEMMA AloneWitnesses ==
  ASSUME NEW p \in Proc, GitTypes, CommandOK(p), Alone(p), edited' \in BOOLEAN,
         head'.at = "missing" <=> head.at = "missing",
         past'[p] = IF p \in Detecting THEN past[p] \cup Facts' ELSE past[p],
         \A d \in Directory : ledger'[d] = ledger[d] \/ ledger[d] = Nobody,
         \A d \in Directory : ledger'[d] # ledger[d] => ledger'[d] # p
  PROVE  CommandOK(p)'
<1>1. past[p] \subseteq past'[p] /\ (p \in Detecting => Facts' \subseteq past'[p])
  OBVIOUS
<1>2. (p \in Detecting)' = (p \in Detecting)
  BY DEF Alone, Detecting
<1>3. GitOK(p)'
  BY <1>2 DEF CommandOK, GitOK, Alone
<1>4. SeenOK(p)'
  BY <1>1, <1>2 DEF CommandOK, SeenOK, Alone
<1>5. OutputOK(p)'
  BY <1>1, WitnessGrows DEF CommandOK, OutputOK, Alone
<1>6. RecordOK(p)'
  BY <1>1, WitnessGrows DEF CommandOK, RecordOK, Reported, Alone
<1>7. stage'[p] # "done" => \A d \in Directory : ledger'[d] # p
  BY DEF CommandOK, LedgerOK, Alone
<1>8. ASSUME <<"untracked", TRUE>> \in past'[p]
      PROVE  \E d \in Directory : ledger'[d] \notin {Nobody, p}
  <2>1. CASE <<"untracked", TRUE>> \in past[p]
    BY <2>1 DEF CommandOK, LedgerOK
  <2>2. CASE <<"untracked", TRUE>> \notin past[p]
    <3>1. p \in Detecting /\ <<"untracked", TRUE>> \in Facts'
      BY <1>8, <2>2
    <3>2. Untracked'
      <4>1. Untracked' \in BOOLEAN
        BY DEF Untracked
      <4> QED BY <3>1, <4>1 DEF Facts
    <3>3. PICK d \in Directory : ledger'[d] # Nobody
      BY <3>2 DEF Untracked
    <3>4. ledger'[d] # p
      BY <1>7, <3>1 DEF Detecting, Alone
    <3> QED BY <3>3, <3>4
  <2> QED BY <2>1, <2>2
<1>9. HeadlessOK(p)'
  BY <1>1, WitnessGrows DEF CommandOK, HeadlessOK, Alone
<1>10. MissingOK(p)'
  <2> SUFFICES ASSUME p \in Detecting
      PROVE  /\ <<"head", "missing">> \in past'[p] => head'.at = "missing"
             /\ step[p] = "status" /\ git[p] \in {"looked", "exited"} =>
                  <<"head", "missing">> \notin past'[p]
    BY <1>2 DEF MissingOK, Alone
  <2>1. <<"head", "missing">> \in Facts' => head'.at = "missing"
    BY DEF Facts
  <2>2. <<"head", "missing">> \in past'[p] => <<"head", "missing">> \in past[p]
    <3>1. SeenOK(p) /\ MissingOK(p)
      BY DEF CommandOK
    <3>2. Facts \subseteq past[p]
      BY <3>1 DEF SeenOK
    <3>3. <<"head", head.at>> \in past[p]
      BY <3>2 DEF Facts
    <3> QED BY <2>1, <3>3
  <2> QED BY <2>2 DEF CommandOK, MissingOK
<1> QED BY <1>3, <1>4, <1>5, <1>6, <1>7, <1>8, <1>9, <1>10 DEF CommandOK, LedgerOK

-----------------------------------------------------------------------------
(* Other programs, the caller, and opening the ledger.                     *)

\* What other programs do to the repository keeps the invariant.
LEMMA OthersKeep ==
  ASSUME GitInv, UNCHANGED <<ledger, canceled, detection, command>>,
         edited' \in BOOLEAN, head' \in Heads,
         head'.at = "missing" <=> head.at = "missing", Witnessed
  PROVE  GitInv'
<1>1. GitTypes'
  BY DEF GitInv, GitTypes, WorldTypes, CommandTypes, ProcessTypes, detection, command,
         Witnessed
<1>2. ASSUME NEW q \in Proc PROVE CommandOK(q)'
  <2>1. Alone(q)
    BY DEF Alone, Done, detection, command
  <2>2. past'[q] = IF q \in Detecting THEN past[q] \cup Facts' ELSE past[q]
    BY DEF Witnessed
  <2> QED BY <2>1, <2>2, AloneWitnesses DEF GitInv
<1> QED BY <1>1, <1>2 DEF GitInv

\* In each of their steps.
LEMMA OthersStep == ASSUME GitInv, Others PROVE GitInv'
<1>0. edited \in BOOLEAN /\ head \in Heads
  BY DEF GitInv, GitTypes, WorldTypes
<1>1. ASSUME NEW c \in Commits, MakeCommit(c) PROVE GitInv'
  <2>1. head' \in Heads /\ head'.at # "missing" /\ head.at # "missing"
    BY <1>0, <1>1, GitNames DEF MakeCommit, Readable, Heads
  <2> QED BY <1>1, <2>1, OthersKeep DEF MakeCommit, Changes
<1>2. ASSUME NEW h \in Heads, Checkout(h) PROVE GitInv'
  <2>1. head' \in Heads /\ head'.at # "missing" /\ head.at # "missing"
    BY <1>0, <1>2, GitNames DEF Checkout, Readable
  <2> QED BY <1>0, <1>2, <2>1, OthersKeep DEF Checkout, Changes
<1>3. ASSUME Edit PROVE GitInv'
  BY <1>0, <1>3, OthersKeep DEF Edit, Changes
<1> QED BY <1>1, <1>2, <1>3 DEF Others

\* Canceling a run keeps it.
LEMMA CancelStep ==
  ASSUME GitInv, NEW p \in Proc, Cancel(p)
  PROVE  GitInv'
<1>1. GitTypes'
  BY DEF Cancel, GitInv, GitTypes, WorldTypes, CommandTypes, ProcessTypes, world,
         detection, command
<1>2. ASSUME NEW q \in Proc PROVE CommandOK(q)'
  BY AloneKept DEF Cancel, GitInv, Alone, Done, detection, command
<1> QED BY <1>1, <1>2 DEF GitInv

\* A command that opens its ledger has finished detecting: what it creates
\* now, its own witness never sees.
LEMMA OpenStep ==
  ASSUME GitInv, NEW p \in Proc, Open(p)
  PROVE  GitInv'
<1> DEFINE d0 == stateDir[p]
           mine == ledger[d0] = Nobody /\ p \in Writers
<1>0. /\ stage \in [Proc -> {"resolve", "identify", "open", "done"}]
      /\ ledger \in [Directory -> Creators] /\ d0 \in Directory
      /\ edited' = edited /\ edited \in BOOLEAN
  BY DEF Open, GitInv, GitTypes, WorldTypes, CommandTypes, world
<1>1. stage[p] = "open" /\ stage' = [stage EXCEPT ![p] = "done"]
  BY DEF Open, Then
<1>2. ledger' = [ledger EXCEPT ![d0] = IF mine THEN p ELSE @]
  BY DEF Open
<1> HIDE DEF d0, mine
<1>3. \A d \in Directory : ledger'[d] = ledger[d] \/ (d = d0 /\ mine /\ ledger'[d] = p)
  BY <1>0, <1>2
<1>4. GitTypes'
  <2>1. ledger' \in [Directory -> Creators]
    BY <1>0, <1>2 DEF Creators
  <2>2. stage' \in [Proc -> {"resolve", "identify", "open", "done"}]
    BY <1>0, <1>1
  <2> QED BY <1>0, <2>1, <2>2
          DEF Open, GitInv, GitTypes, WorldTypes, CommandTypes, ProcessTypes,
              detection, world, Witnessed
<1>5. ASSUME NEW q \in Proc, q # p PROVE CommandOK(q)'
  <2>1. Alone(q)
    BY <1>0, <1>1, <1>5 DEF Open, Alone, Done, detection
  <2>2. past'[q] = IF q \in Detecting THEN past[q] \cup Facts' ELSE past[q]
    BY DEF Open, Witnessed
  <2>3. \A d \in Directory : ledger'[d] = ledger[d] \/ ledger[d] = Nobody
    BY <1>3 DEF mine
  <2>4. \A d \in Directory : ledger'[d] # ledger[d] => ledger'[d] # q
    BY <1>3, <1>5
  <2>5. head' = head
    BY DEF Open, world
  <2> QED BY <1>0, <2>1, <2>2, <2>3, <2>4, <2>5, AloneWitnesses DEF GitInv
<1>6. CommandOK(p)'
  <2>1. /\ CommandOK(p) /\ p \notin Detecting /\ past'[p] = past[p]
        /\ stage'[p] = "done" /\ p \notin Detecting'
    BY <1>0, <1>1 DEF GitInv, Open, Detecting, Witnessed
  <2>2. GitOK(p)' /\ SeenOK(p)' /\ OutputOK(p)' /\ RecordOK(p)'
    BY <2>1 DEF Open, CommandOK, GitOK, SeenOK, OutputOK, RecordOK, Reported, detection
  <2>3. LedgerOK(p)'
    BY <2>1, <1>3 DEF CommandOK, LedgerOK, mine
  <2>4. HeadlessOK(p)' /\ MissingOK(p)'
    BY <2>1 DEF Open, CommandOK, HeadlessOK, MissingOK, Done, detection
  <2> QED BY <2>2, <2>3, <2>4 DEF CommandOK
<1> QED BY <1>4, <1>5, <1>6 DEF GitInv

-----------------------------------------------------------------------------
(* The git process of command p.                                           *)

\* Command p's process is now g, has written text, and leaves a descendant
\* behind or not; these are its own faults.
GitSteps(p, g, text, h, faults) ==
  /\ git' = [git EXCEPT ![p] = g]
  /\ out' = [out EXCEPT ![p] = text]
  /\ helper' = [helper EXCEPT ![p] = h]
  /\ past' = [past EXCEPT ![p] = past[p] \cup faults]
  /\ UNCHANGED <<world, ledger, canceled, command, step, sha, expired>>

\* A git process of a detection moves on, says something true, and when it
\* does not name HEAD's commit there is a reason.
LEMMA GitStepKeeps ==
  ASSUME GitInv, NEW p \in Proc, p \in Detecting,
         NEW g \in {"running", "looked", "exited", "failed"}, NEW text,
         NEW h \in BOOLEAN, NEW faults, faults \subseteq {<<"fault", "head">>},
         GitSteps(p, g, text, h, faults),
         g = "looked" => step[p] = "status",
         SaysOf(step[p], g, text, past[p]),
         g = "failed" /\ step[p] = "head" => Done(p) \/ NoCommit(past[p] \cup faults),
         h /\ step[p] = "head" => <<"fault", "head">> \in past[p] \cup faults,
         step[p] = "status" /\ g \in {"looked", "exited"} => <<"head", "missing">> \notin past[p]
  PROVE  GitInv'
<1>0. ProcessTypes
  BY DEF GitInv, GitTypes
<1>1. GitTypes'
  BY DEF GitInv, GitTypes, WorldTypes, CommandTypes, ProcessTypes, GitSteps, world, command
<1>2. ASSUME NEW q \in Proc, q # p PROVE CommandOK(q)'
  <2>1. Alone(q) /\ past'[q] = past[q] /\ UNCHANGED <<world, ledger>>
    BY <1>0, <1>2 DEF ProcessTypes, Alone, Done, GitSteps, command
  <2> QED BY <2>1, AloneKept DEF GitInv
<1>3. CommandOK(p)'
  <2>1. /\ CommandOK(p) /\ git'[p] = g /\ out'[p] = text /\ helper'[p] = h /\ step' = step
        /\ past'[p] = past[p] \cup faults /\ Facts' = Facts /\ Detecting' = Detecting
        /\ UNCHANGED <<stage, sha, record, ledger, head, canceled, expired>>
    BY <1>0 DEF GitInv, ProcessTypes, GitSteps, world, command, Facts, Untracked, Detecting
  <2>2. GitOK(p)'
    BY <2>1 DEF GitOK
  <2>3. OutputOK(p)' /\ RecordOK(p)'
    BY <2>1, WitnessGrows DEF OutputOK, CommandOK, RecordOK, Reported
  <2>4. SeenOK(p)'
    BY <2>1 DEF CommandOK, SeenOK
  <2>5. LedgerOK(p)'
    <3>1. <<"untracked", TRUE>> \in past'[p] => <<"untracked", TRUE>> \in past[p]
      BY <2>1
    <3> QED BY <2>1, <3>1 DEF CommandOK, LedgerOK
  <2>6. HeadlessOK(p)'
    BY <2>1, WitnessGrows DEF CommandOK, HeadlessOK, Done
  <2>7. MissingOK(p)'
    <3>1. <<"head", "missing">> \in past'[p] => <<"head", "missing">> \in past[p]
      BY <2>1
    <3> QED BY <2>1, <3>1 DEF CommandOK, MissingOK
  <2> QED BY <2>2, <2>3, <2>4, <2>5, <2>6, <2>7 DEF CommandOK
<1> QED BY <1>1, <1>2, <1>3 DEF GitInv

\* Most steps of git are without a fault of its own.
LEMMA StaysSteps ==
  ASSUME GitInv, NEW p \in Proc, git[p] # "idle" \/ ~ helper[p], NEW g, NEW text,
         git' = [git EXCEPT ![p] = g], out' = [out EXCEPT ![p] = text],
         Stays(p), UNCHANGED helper
  PROVE  GitSteps(p, g, text, helper[p], {})
<1>1. ProcessTypes
  BY DEF GitInv, GitTypes
<1>2. past[p] \cup {} = past[p]
  OBVIOUS
<1> QED BY <1>1, <1>2 DEF ProcessTypes, GitSteps, Stays

\* A process that is killed, or that fails for a reason, says nothing.
LEMMA RefusesKeeps ==
  ASSUME GitInv, NEW p \in Proc, git[p] # "idle", Refuses(p), Stays(p), UNCHANGED helper,
         step[p] = "head" => Done(p) \/ NoCommit(past[p])
  PROVE  GitInv'
<1> DEFINE g == "failed"
<1>1. p \in Detecting /\ helper[p] \in BOOLEAN /\ HeadlessOK(p)
  BY DEF GitInv, CommandOK, GitOK, GitTypes, ProcessTypes
<1>2. git' = [git EXCEPT ![p] = g] /\ out' = [out EXCEPT ![p] = out[p]]
  BY DEF Refuses, GitInv, GitTypes, ProcessTypes
<1>3. g \in {"running", "failed"} /\ g \notin {"looked", "exited"}
  OBVIOUS
<1>4. SaysOf(step[p], g, out[p], past[p])
  BY <1>3 DEF SaysOf
<1> HIDE DEF g
<1>7. GitSteps(p, g, out[p], helper[p], {})
  BY <1>2, StaysSteps
<1>5. past[p] \cup {} = past[p]
  OBVIOUS
<1>6. helper[p] /\ step[p] = "head" => <<"fault", "head">> \in past[p] \cup {}
  BY <1>1 DEF HeadlessOK
<1> QED BY <1>1, <1>3, <1>4, <1>5, <1>6, <1>7, GitStepKeeps

\* Every step of a git process is of this kind.
LEMMA GitStep ==
  ASSUME GitInv, NEW p \in Proc, Git(p)
  PROVE  GitInv'
<1>0. /\ CommandOK(p) /\ edited \in BOOLEAN /\ head \in Heads /\ ProcessTypes
      /\ git[p] # "idle" => p \in Detecting /\ Facts \subseteq past[p]
      /\ HeadlessOK(p) /\ MissingOK(p)
      /\ helper[p] \in BOOLEAN /\ out = [out EXCEPT ![p] = out[p]]
      /\ past[p] \cup {} = past[p]
  BY DEF GitInv, GitTypes, WorldTypes, ProcessTypes, CommandOK, GitOK, SeenOK
<1>1. ASSUME git[p] = "running" \/ git[p] = "looked", Stays(p), UNCHANGED helper,
             NEW g \in {"looked", "exited"}, NEW text,
             git' = [git EXCEPT ![p] = g], out' = [out EXCEPT ![p] = text],
             g = "looked" => step[p] = "status",
             SaysOf(step[p], g, text, past[p]),
             step[p] = "status" => <<"head", "missing">> \notin past[p]
      PROVE  GitInv'
  <2>1. GitSteps(p, g, text, helper[p], {})
    BY <1>1, StaysSteps
  <2>2. helper[p] /\ step[p] = "head" => <<"fault", "head">> \in past[p] \cup {}
    BY <1>0 DEF HeadlessOK
  <2> QED BY <1>0, <1>1, <2>1, <2>2, GitStepKeeps
<1>2. CASE RevParseToplevel(p)
  <2>1. SaysOf(step[p], "exited", "root", past[p])
    BY <1>2 DEF RevParseToplevel, SaysOf
  <2> QED BY <1>2, <1>1, <2>1, RefusesKeeps DEF RevParseToplevel, Answers
<1>3. CASE RevParseHead(p)
  <2>1. head.at \in Commits => SaysOf(step[p], "exited", head.at, past[p])
    BY <1>0, <1>3, FactsSay DEF RevParseHead, SaysOf
  <2>2. head.at \notin Commits => NoCommit(past[p])
    BY <1>0, <1>3, FactsSay DEF RevParseHead, Heads, NoCommit
  <2> QED BY <1>3, <1>1, <2>1, <2>2, RefusesKeeps DEF RevParseHead, Answers
<1>4. CASE SymbolicRef(p)
  <2>1. SaysOf(step[p], "exited", head.on, past[p])
    BY <1>4 DEF SymbolicRef, SaysOf
  <2> QED BY <1>4, <1>1, <2>1, RefusesKeeps DEF SymbolicRef, Answers
<1>5. CASE StatusTracked(p)
  <2> DEFINE text == IF edited THEN "changes" ELSE Nothing
  <2>1. SaysOf(step[p], "looked", text, past[p])
    BY <1>0, <1>5, FactsSay DEF StatusTracked, SaysOf, Nothing
  <2>2. CASE index /\ head.at # "missing"
    <3>1. <<"head", "missing">> \notin past[p]
      BY <1>0, <1>5, <2>2 DEF StatusTracked, MissingOK
    <3> QED BY <1>1, <1>5, <2>1, <2>2, <3>1 DEF StatusTracked
  <2>3. CASE ~ (index /\ head.at # "missing")
    BY <1>5, <2>3, RefusesKeeps DEF StatusTracked
  <2> QED BY <2>2, <2>3
<1>6. CASE StatusUntracked(p)
  <2> DEFINE text == IF Untracked THEN "changes" ELSE out[p]
  <2>1. step[p] = "status" /\ SaysOf(step[p], "looked", out[p], past[p])
    BY <1>0, <1>6 DEF StatusUntracked, CommandOK, GitOK, OutputOK
  <2>2. SaysOf(step[p], "exited", text, past[p])
    BY <1>0, <1>6, <2>1, FactsSay DEF StatusUntracked, SaysOf, Nothing
  <2>3. <<"head", "missing">> \notin past[p]
    BY <1>0, <1>6, <2>1 DEF StatusUntracked, MissingOK
  <2> QED BY <1>1, <1>6, <2>2, <2>3 DEF StatusUntracked, Answers
<1>7. ASSUME Fault(p), NEW g \in {"running", "looked", "failed"},
             g = "looked" => git[p] = "looked",
             git' = [git EXCEPT ![p] = g], UNCHANGED out,
             NEW h \in BOOLEAN, helper' = [helper EXCEPT ![p] = h]
      PROVE  GitInv'
  <2> DEFINE faults == IF step[p] = "head" THEN {<<"fault", "head">>} ELSE {}
  <2>1. past' = [past EXCEPT ![p] = past[p] \cup faults]
    BY <1>0, <1>7 DEF Fault
  <2>2. GitSteps(p, g, out[p], h, faults)
    BY <1>0, <1>7, <2>1 DEF GitSteps, Fault
  <2>3. p \in Detecting /\ faults \subseteq {<<"fault", "head">>}
    BY <1>0, <1>7 DEF Fault, Running
  <2>4. step[p] = "head" => <<"fault", "head">> \in past[p] \cup faults
    OBVIOUS
  <2>5. step[p] = "head" => NoCommit(past[p] \cup faults)
    BY <2>4 DEF NoCommit
  <2>6. g = "looked" => step[p] = "status" /\ git[p] = "looked"
    BY <1>0, <1>7 DEF CommandOK, GitOK
  <2>7. SaysOf(step[p], g, out[p], past[p])
    BY <1>0, <1>7, <2>6 DEF CommandOK, OutputOK, SaysOf
  <2>8. step[p] = "status" /\ g \in {"looked", "exited"} => <<"head", "missing">> \notin past[p]
    BY <1>0, <1>7, <2>3, <2>6 DEF MissingOK
  <2> HIDE DEF faults
  <2> QED BY <1>7, <2>2, <2>3, <2>4, <2>5, <2>6, <2>7, <2>8, GitStepKeeps
<1>8. CASE GitFails(p)
  <2>1. helper' = [helper EXCEPT ![p] = helper[p]]
    BY <1>0, <1>8 DEF GitFails, ProcessTypes
  <2> QED BY <1>0, <1>7, <1>8, <2>1 DEF GitFails, Refuses
<1>9. CASE GitForks(p)
  <2>1. git' = [git EXCEPT ![p] = git[p]] /\ git[p] \in {"running", "looked"}
    BY <1>0, <1>9 DEF GitForks, Fault, Running, ProcessTypes
  <2> QED BY <1>7, <1>9, <2>1 DEF GitForks
<1>10. CASE HelperEnds(p)
  <2>1. git[p] # "idle" /\ p \in Detecting
    BY <1>0, <1>10 DEF HelperEnds, CommandOK, GitOK
  <2> DEFINE h == FALSE
  <2>2. GitSteps(p, git[p], out[p], h, {}) /\ h \in BOOLEAN /\ ~ h
    BY <1>0, <1>10 DEF HelperEnds, GitSteps, Stays, ProcessTypes
  <2> HIDE DEF h
  <2>3. git[p] \in {"running", "looked", "exited", "failed"}
    BY <1>0, <2>1 DEF ProcessTypes
  <2>4. git[p] = "looked" => step[p] = "status"
    BY <1>0 DEF CommandOK, GitOK
  <2>5. SaysOf(step[p], git[p], out[p], past[p])
    BY <1>0 DEF CommandOK, OutputOK
  <2>6. git[p] = "failed" /\ step[p] = "head" => Done(p) \/ NoCommit(past[p] \cup {})
    BY <1>0 DEF HeadlessOK
  <2>7. step[p] = "status" /\ git[p] \in {"looked", "exited"} =>
          <<"head", "missing">> \notin past[p]
    BY <1>0, <2>1 DEF MissingOK
  <2> QED BY <2>1, <2>2, <2>3, <2>4, <2>5, <2>6, <2>7, GitStepKeeps
<1> QED BY <1>2, <1>3, <1>4, <1>5, <1>6, <1>8, <1>9, <1>10 DEF Git

-----------------------------------------------------------------------------
(* Detect: what it keeps of the answer of a process.                       *)

\* The state in which motus has collected the process of command p.
Collected(p) ==
  /\ git' = [git EXCEPT ![p] = "idle"]
  /\ UNCHANGED out \/ out' = [out EXCEPT ![p] = Nothing]
  /\ helper' = [helper EXCEPT ![p] = FALSE]
  /\ UNCHANGED <<world, ledger, canceled>>

\* Collecting the output of a git process keeps the types.
LEMMA CollectedTypes ==
  ASSUME GitInv, NEW p \in Proc, Collected(p)
  PROVE  /\ WorldTypes /\ CommandTypes /\ ProcessTypes
         /\ git' \in [Proc -> {"idle", "running", "looked", "exited", "failed"}]
         /\ helper' \in [Proc -> BOOLEAN]
         /\ git'[p] = "idle" /\ helper'[p] = FALSE
         /\ \A q \in Proc \ {p} : git'[q] = git[q] /\ out'[q] = out[q] /\ helper'[q] = helper[q]
         /\ out' = [q \in Proc |-> out'[q]]
         /\ UNCHANGED <<edited, head, ledger, canceled>> /\ Facts' = Facts
<1>1. WorldTypes /\ CommandTypes /\ ProcessTypes
  BY DEF GitInv, GitTypes
<1>2. UNCHANGED <<edited, head, ledger, canceled>> /\ Facts' = Facts
  BY DEF Collected, world, Facts, Untracked
<1> QED BY <1>1, <1>2 DEF ProcessTypes, Collected

\* On to the next process, with what this one has said of HEAD.
LEMMA ContinueKeeps ==
  ASSUME GitInv, NEW p \in Proc, p \in Detecting, Collected(p),
         NEW next \in {"head", "symbolic", "status"}, Continue(p, next),
         NEW s \in HeadNames, sha' = [sha EXCEPT ![p] = s],
         s # NoHead => <<"head", s>> \in past[p],
         next = "symbolic" \/ (next = "status" /\ s = NoHead) => NoCommit(past[p])
  PROVE  GitInv'
<1>0. /\ WorldTypes /\ CommandTypes /\ ProcessTypes
      /\ git' \in [Proc -> {"idle", "running", "looked", "exited", "failed"}]
      /\ helper' \in [Proc -> BOOLEAN]
      /\ git'[p] = "idle" /\ helper'[p] = FALSE
      /\ \A q \in Proc \ {p} : git'[q] = git[q] /\ out'[q] = out[q] /\ helper'[q] = helper[q]
      /\ out' = [q \in Proc |-> out'[q]]
      /\ UNCHANGED <<edited, head, ledger, canceled>> /\ Facts' = Facts
  BY CollectedTypes
<1>1. UNCHANGED <<stage, record, stateDir, past, expired>> /\ Detecting' = Detecting
  BY DEF Continue, command, Detecting
<1>2. GitTypes'
  <2>1. WorldTypes'
    BY <1>0, <1>1 DEF WorldTypes
  <2>2. CommandTypes'
    BY <1>0, <1>1 DEF CommandTypes
  <2>3. ProcessTypes'
    BY <1>0, <1>1 DEF ProcessTypes, Continue
  <2> QED BY <2>1, <2>2, <2>3 DEF GitTypes
<1>3. ASSUME NEW q \in Proc, q # p PROVE CommandOK(q)'
  <2>1. Alone(q)
    BY <1>0, <1>1, <1>3 DEF Alone, Done, Continue, ProcessTypes, CommandTypes
  <2> QED BY <1>1, <2>1, AloneKept DEF GitInv, Collected
<1>4. CommandOK(p)'
  <2>1. CommandOK(p) /\ sha'[p] = s /\ step'[p] = next
    BY <1>0 DEF GitInv, CommandTypes, ProcessTypes, Continue
  <2>2. GitOK(p)' /\ OutputOK(p)'
    BY <1>0 DEF GitOK, OutputOK, SaysOf
  <2>3. SeenOK(p)' /\ LedgerOK(p)' /\ RecordOK(p)'
    BY <1>0, <1>1, <2>1 DEF CommandOK, SeenOK, LedgerOK, RecordOK, Reported
  <2>4. HeadlessOK(p)' /\ MissingOK(p)'
    BY <1>0, <1>1, <2>1 DEF CommandOK, HeadlessOK, MissingOK
  <2> QED BY <2>2, <2>3, <2>4 DEF CommandOK
<1> QED BY <1>2, <1>3, <1>4 DEF GitInv

\* Detect returns m.  Resolve takes its root; only a run keeps the rest, and
\* must be able to rely on it.
LEMMA DetectedKeeps ==
  ASSUME GitInv, NEW p \in Proc, p \in Detecting, Collected(p),
         NEW m \in Metadata, Detected(p, m),
         m.root # "" => TruthOf(m, past[p])
  PROVE  GitInv'
<1>0. /\ WorldTypes /\ CommandTypes /\ ProcessTypes
      /\ git' \in [Proc -> {"idle", "running", "looked", "exited", "failed"}]
      /\ helper' \in [Proc -> BOOLEAN]
      /\ git'[p] = "idle" /\ helper'[p] = FALSE
      /\ \A q \in Proc \ {p} : git'[q] = git[q] /\ out'[q] = out[q] /\ helper'[q] = helper[q]
      /\ out' = [q \in Proc |-> out'[q]]
      /\ UNCHANGED <<edited, head, ledger, canceled>> /\ Facts' = Facts
  BY CollectedTypes
<1>a. \/ /\ stage[p] = "resolve"
         /\ Then(p) \in {"identify", "open"}
      \/ /\ stage[p] = "identify"
         /\ Then(p) = "open"
  BY DEF Detecting, Then
<1>b. /\ stage' = [stage EXCEPT ![p] = Then(p)]
      /\ step' = [step EXCEPT ![p] = "toplevel"]
      /\ sha' = [sha EXCEPT ![p] = NoHead]
      /\ past' = [past EXCEPT ![p] = IF stage[p] = "resolve" THEN Facts ELSE @]
      /\ expired' = expired \ {p}
      /\ stage[p] = "resolve" =>
           /\ stateDir' = [stateDir EXCEPT ![p] = IF m.root = "" THEN Cwd[p] ELSE m.root]
           /\ UNCHANGED record
      /\ stage[p] = "identify" => record' = [record EXCEPT ![p] = m] /\ UNCHANGED stateDir
  BY <1>a DEF Detected
<1>1. GitTypes'
  <2>1. stateDir' \in [Proc -> Directory]
    <3>1. m.root \in {"", "root"} /\ Cwd \in [Proc -> Directory]
      BY GitConstants DEF Metadata
    <3>2. (IF m.root = "" THEN Cwd[p] ELSE m.root) \in Directory
      BY <3>1 DEF Directory
    <3>3. stateDir \in [Proc -> Directory]
      BY <1>0 DEF WorldTypes
    <3> QED BY <1>a, <1>b, <3>2, <3>3
  <2>2. WorldTypes'
    BY <1>0, <2>1 DEF WorldTypes
  <2>3. stage' \in [Proc -> {"resolve", "identify", "open", "done"}]
    BY <1>0, <1>a, <1>b DEF CommandTypes
  <2>4. sha' \in [Proc -> HeadNames] /\ record' \in [Proc -> Metadata]
    BY <1>0, <1>a, <1>b DEF CommandTypes, HeadNames
  <2>5. ProcessTypes'
    BY <1>0, <1>b DEF ProcessTypes
  <2> QED BY <2>2, <2>3, <2>4, <2>5 DEF GitTypes, CommandTypes
<1>2. ASSUME NEW q \in Proc, q # p PROVE CommandOK(q)'
  <2>1. Alone(q) /\ past'[q] = past[q]
    BY <1>0, <1>2, <1>a, <1>b DEF Alone, Done, ProcessTypes, CommandTypes
  <2> QED BY <2>1, AloneKept DEF GitInv, Collected
<1>3. CommandOK(p)'
  <2>1. CommandOK(p)
    BY DEF GitInv
  <2>2. stage'[p] = Then(p) /\ sha'[p] = NoHead /\ step'[p] = "toplevel"
    BY <1>0, <1>b DEF CommandTypes, ProcessTypes
  <2>3. GitOK(p)' /\ OutputOK(p)'
    BY <1>0 DEF GitOK, OutputOK, SaysOf
  <2>6. HeadlessOK(p)'
    BY <1>0, <2>2 DEF HeadlessOK
  <2>4. CASE stage[p] = "resolve"
    <3>1. past'[p] = Facts /\ record'[p] = Zero /\ stage'[p] # "done"
      BY <1>0, <1>a, <1>b, <2>1, <2>2, <2>4 DEF CommandOK, SeenOK, ProcessTypes
    <3>2. SeenOK(p)'
      BY <1>0, <2>2, <3>1 DEF SeenOK
    <3>3. RecordOK(p)'
      <4>1. Zero.root = ""
        BY DEF Zero
      <4>2. ~ Reported(p)'
        BY <3>1, <4>1 DEF Reported
      <4> QED BY <4>2 DEF RecordOK
    <3>4. LedgerOK(p)'
      <4>1. LedgerOK(p) /\ stage[p] # "done" /\ edited \in BOOLEAN
        BY <1>0, <2>1, <2>4 DEF CommandOK, WorldTypes
      <4>2. <<"untracked", TRUE>> \in Facts =>
              \E d \in Directory : ledger[d] \notin {Nobody, p}
        BY <4>1, FactsSay, NotMyLedger
      <4> QED BY <1>0, <3>1, <4>1, <4>2 DEF LedgerOK
    <3>5. MissingOK(p)'
      BY <1>0, <2>2, <3>1, FactsSay DEF MissingOK, WorldTypes
    <3> QED BY <2>3, <2>6, <3>2, <3>3, <3>4, <3>5 DEF CommandOK
  <2>5. CASE stage[p] = "identify"
    <3>1. /\ past'[p] = past[p] /\ record'[p] = m
          /\ stage'[p] = "open"
      BY <1>0, <1>a, <1>b, <2>2, <2>5 DEF CommandTypes, ProcessTypes
    <3>2. SeenOK(p)' /\ RecordOK(p)'
      BY <3>1 DEF SeenOK, Detecting, RecordOK, Reported
    <3>3. LedgerOK(p)'
      BY <1>0, <2>1, <2>5, <3>1 DEF CommandOK, LedgerOK
    <3>4. MissingOK(p)'
      BY <3>1 DEF MissingOK, Detecting
    <3> QED BY <2>3, <2>6, <3>2, <3>3, <3>4 DEF CommandOK
  <2> QED BY <1>a, <2>4, <2>5
<1> QED BY <1>1, <1>2, <1>3 DEF GitInv

\* What Detect makes of one output keeps the invariant: rev-parse fails under
\* a context that is done, or for a reason.
LEMMA RanKeeps ==
  ASSUME GitInv, NEW p \in Proc, p \in Detecting, Collected(p),
         NEW ok \in BOOLEAN, Ran(p, ok), ok = TRUE => git[p] = "exited",
         ok = FALSE /\ step[p] = "head" => Done(p) \/ NoCommit(past[p])
  PROVE  GitInv'
<1>0. /\ CommandOK(p) /\ SaysOf(step[p], git[p], out[p], past[p])
      /\ sha = [sha EXCEPT ![p] = sha[p]] /\ sha[p] \in HeadNames
      /\ sha[p] # NoHead => <<"head", sha[p]>> \in past[p]
      /\ HeadlessOK(p) /\ MissingOK(p)
  BY DEF GitInv, CommandOK, OutputOK, SeenOK, GitTypes, CommandTypes
<1>1. ASSUME Detected(p, Zero) PROVE GitInv'
  <2>1. Zero \in Metadata /\ Zero.root = ""
    BY DEF Zero, Metadata, HeadNames
  <2> QED BY <1>1, <2>1, DetectedKeeps
<1>2. CASE Toplevel(p, ok)
  BY <1>0, <1>1, <1>2, ContinueKeeps DEF Toplevel
<1>3. CASE RevParsed(p, ok)
  <2>1. CASE ok = TRUE
    <3>1. git[p] = "exited" /\ step[p] = "head"
      BY <1>3, <2>1 DEF RevParsed
    <3>2. out[p] \in HeadNames /\ out[p] # NoHead /\ <<"head", out[p]>> \in past[p]
      BY <1>0, <3>1, GitNames DEF SaysOf, HeadNames
    <3> QED BY <1>3, <2>1, <3>2, ContinueKeeps DEF RevParsed
  <2>2. CASE ok = FALSE
    BY <1>0, <1>1, <1>3, <2>2, ContinueKeeps DEF RevParsed
  <2> QED BY <2>1, <2>2
<1>4. CASE unbornHEAD(p, ok)
  <2>1. NoHead \in HeadNames
    BY DEF HeadNames
  <2>2. NoCommit(past[p])
    BY <1>0, <1>4 DEF unbornHEAD, HeadlessOK
  <2> QED BY <1>1, <1>4, <2>1, <2>2, ContinueKeeps DEF unbornHEAD
<1>5. CASE gitDirty(p, ok)
  <2> DEFINE m == [root |-> "root", head |-> sha[p], dirty |-> out[p] # Nothing]
  <2>1. CASE ok = TRUE
    <3>1. git[p] = "exited" /\ step[p] = "status" /\ Detected(p, m)
      BY <1>5, <2>1 DEF gitDirty
    <3>2. m \in Metadata
      BY <1>0 DEF Metadata
    <3>3. <<"head", "missing">> \notin past[p]
      BY <1>0, <3>1 DEF MissingOK
    <3>4. sha[p] = NoHead => NoCommit(past[p])
      BY <1>0, <3>1 DEF HeadlessOK
    <3>5. TruthOf(m, past[p])
      BY <1>0, <3>1, <3>3, <3>4 DEF SaysOf, TruthOf, NoCommit
    <3> QED BY <3>1, <3>2, <3>5, DetectedKeeps
  <2>2. CASE ok = FALSE
    BY <1>1, <1>5, <2>2 DEF gitDirty
  <2> QED BY <2>1, <2>2
<1> QED BY <1>2, <1>3, <1>4, <1>5 DEF Ran

\* And so does every step of a run.
LEMMA MotusStep ==
  ASSUME GitInv, NEW p \in Proc, Motus(p)
  PROVE  GitInv'
<1>0. /\ ProcessTypes /\ (git[p] # "idle" => p \in Detecting)
      /\ (helper[p] => git[p] # "idle") /\ HeadlessOK(p)
  BY DEF GitInv, GitTypes, CommandOK, GitOK
<1>1. CASE StartGit(p)
  <2> DEFINE g == "running"
  <2>1. /\ g \in {"running", "looked", "exited", "failed"}
        /\ g \notin {"looked", "exited", "failed"}
    OBVIOUS
  <2>2. SaysOf(step[p], g, out[p], past[p])
    BY <2>1 DEF SaysOf
  <2>3. /\ out' = [out EXCEPT ![p] = out[p]] /\ git' = [git EXCEPT ![p] = g]
        /\ helper[p] = FALSE /\ p \in Detecting
    BY <1>0, <1>1 DEF StartGit, ProcessTypes
  <2> HIDE DEF g
  <2>4. GitSteps(p, g, out[p], helper[p], {})
    BY <1>1, <2>3, StaysSteps DEF StartGit
  <2> QED BY <2>1, <2>2, <2>3, <2>4, GitStepKeeps
<1>2. CASE StartNothing(p)
  <2>1. Collected(p) /\ Done(p) /\ p \in Detecting /\ Ran(p, FALSE)
    BY <1>0, <1>2 DEF StartNothing, Collected, ProcessTypes
  <2> QED BY <2>1, RanKeeps
<1>3. CASE Deadline(p)
  <2>1. GitTypes'
    BY <1>3 DEF Deadline, GitInv, GitTypes, WorldTypes, CommandTypes, ProcessTypes,
                world, command
  <2>2. ASSUME NEW q \in Proc PROVE CommandOK(q)'
    BY <1>3, AloneKept DEF Deadline, GitInv, Alone, Done, command
  <2> QED BY <2>1, <2>2 DEF GitInv
<1>4. CASE CutOff(p)
  BY <1>4, RefusesKeeps DEF CutOff, Running
<1>5. CASE RunReturns(p)
  <2>1. Collected(p) /\ p \in Detecting
    BY <1>0, <1>5 DEF RunReturns, Collected, ProcessTypes
  <2>2. CASE git[p] = "exited" /\ Ran(p, TRUE)
    BY <2>1, <2>2, RanKeeps
  <2>3. CASE (git[p] = "failed" \/ Done(p)) /\ Ran(p, FALSE)
    <3>1. step[p] = "head" => Done(p) \/ NoCommit(past[p])
      BY <1>0, <2>3 DEF HeadlessOK
    <3> QED BY <2>1, <2>3, <3>1, RanKeeps
  <2> QED BY <1>5, <2>2, <2>3 DEF RunReturns
<1>6. CASE WaitDelay(p)
  <2>1. Collected(p) /\ p \in Detecting /\ Ran(p, FALSE)
    BY <1>0, <1>6 DEF WaitDelay, Collected
  <2>2. step[p] = "head" => NoCommit(past[p])
    BY <1>0, <1>6 DEF WaitDelay, HeadlessOK, NoCommit
  <2> QED BY <2>1, <2>2, RanKeeps
<1>7. CASE Open(p)
  BY <1>7, OpenStep
<1> QED BY <1>1, <1>2, <1>3, <1>4, <1>5, <1>6, <1>7 DEF Motus, Detect

-----------------------------------------------------------------------------
(* Theorems.                                                               *)

\* The invariant holds at first.
LEMMA GitInit == Init => GitInv
<1> SUFFICES ASSUME Init PROVE GitInv
  OBVIOUS
<1>0. edited \in BOOLEAN /\ head \in Heads
  BY DEF Init
<1>1. WorldTypes
  BY GitConstants DEF Init, WorldTypes, Creators
<1>2. CommandTypes
  BY DEF Init, CommandTypes, Zero, Metadata, HeadNames
<1>3. ProcessTypes
  BY DEF Init, ProcessTypes
<1>4. ASSUME NEW p \in Proc PROVE CommandOK(p)
  <2>1. GitOK(p) /\ OutputOK(p) /\ SeenOK(p) /\ RecordOK(p)
    BY DEF Init, GitOK, OutputOK, SaysOf, SeenOK, RecordOK, Reported, Zero
  <2>2. \A d \in Directory : ledger[d] # p
    BY GitNames DEF Init
  <2>3. LedgerOK(p)
    BY <1>0, <2>2, FactsSay DEF Init, LedgerOK, Untracked
  <2>4. HeadlessOK(p) /\ MissingOK(p)
    BY <1>0, FactsSay DEF Init, HeadlessOK, MissingOK
  <2> QED BY <2>1, <2>3, <2>4 DEF CommandOK
<1> QED BY <1>1, <1>2, <1>3, <1>4 DEF GitInv, GitTypes

\* What Detect has read so far, what git has written and what was reported
\* was so while the detection ran, and the ledger of a command is not there
\* before its detections have ended.
THEOREM GitInvHolds == Spec => []GitInv
<1>1. GitInv /\ [Next]_vars => GitInv'
  <2> SUFFICES ASSUME GitInv, [Next]_vars PROVE GitInv'
    OBVIOUS
  <2>1. CASE Others
    BY <2>1, OthersStep
  <2>2. ASSUME NEW p \in Proc, Cancel(p) \/ Git(p) \/ Motus(p) PROVE GitInv'
    BY <2>2, CancelStep, GitStep, MotusStep
  <2>3. CASE UNCHANGED vars
    <3>1. GitTypes'
      BY <2>3 DEF vars, GitInv, GitTypes, WorldTypes, CommandTypes, ProcessTypes, world,
                  detection, command
    <3>2. ASSUME NEW q \in Proc PROVE CommandOK(q)'
      BY <2>3, AloneKept DEF vars, GitInv, Alone, Done, detection, command
    <3> QED BY <3>1, <3>2 DEF GitInv
  <2> QED BY <2>1, <2>2, <2>3 DEF Next
<1> QED BY GitInit, <1>1, PTL DEF Spec

\* Whatever other programs do to the repository while Detect runs, and
\* however its processes fail or are cut off, the Git metadata of a run was
\* true while it was read: an indeterminate repository is never reported
\* clean, and never without a commit unless HEAD was unborn or could not be
\* told from an unborn one (gitmeta.go).
THEOREM ReportsAreTrue == Spec => []ReportWasTrue
<1>1. GitInv => ReportWasTrue
  <2> SUFFICES ASSUME GitInv, NEW p \in Proc, Reported(p)
      PROVE  /\ record[p].head # NoHead => <<"head", record[p].head>> \in past[p]
             /\ record[p].head = NoHead =>
                  {<<"head", "unborn">>, <<"head", "unreadable">>, <<"fault", "head">>}
                    \cap past[p] # {}
             /\ ~ record[p].dirty => {<<"edited", FALSE>>, <<"untracked", FALSE>>} \subseteq past[p]
             /\ record[p].dirty => {<<"edited", TRUE>>, <<"untracked", TRUE>>} \cap past[p] # {}
    BY DEF ReportWasTrue
  <2>1. TruthOf(record[p], past[p])
    BY DEF GitInv, CommandOK, RecordOK
  <2> QED BY <2>1 DEF TruthOf
<1> QED BY <1>1, GitInvHolds, PTL

\* A run that nobody's edit made dirty met a ledger that was not its own:
\* reading Git before creating .motus is enough (runWrap).
THEOREM OwnLedgerIsUnseen == Spec => []OwnLedgerKeepsClean
<1>1. GitInv => OwnLedgerKeepsClean
  BY DEF GitInv, CommandOK, RecordOK, LedgerOK, TruthOf, OwnLedgerKeepsClean
<1> QED BY <1>1, GitInvHolds, PTL
=============================================================================
