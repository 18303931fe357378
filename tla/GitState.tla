------------------------------ MODULE GitState ------------------------------
(***************************************************************************)
(* What a command learns of Git before it opens its ledger: gitmeta.Detect *)
(* runs up to four git processes under one deadline; statepath.Resolve     *)
(* places the ledger by its answer, and motus wrap asks it again for the   *)
(* metadata of the run it is about to record.                              *)
(*                                                                         *)
(* Other programs commit, check out and edit between any two steps of git. *)
(* A git process may fail, hang, or leave a descendant that keeps its      *)
(* output pipe open; the caller's context may be cancelled at any time.    *)
(* Explicit state directories are decided without Git and are left out.    *)
(***************************************************************************)
EXTENDS Naturals

CONSTANTS
  Proc,        \* commands
  Wrap,        \* those that record a run
  Writers,     \* those that open the ledger to write, and create it
  Cwd,         \* the working directory of each
  Commits,     \* commit identifiers
  Ignored,     \* TRUE iff .gitignore lists .motus/
  Faults,      \* TRUE iff git may fail of itself, or leave a descendant behind
  MaxChanges   \* bound: what other programs do to the repository

Directory == {"root", "below"}

ASSUME GitConstants ==
  /\ Wrap \subseteq Writers /\ Writers \subseteq Proc
  /\ Cwd \in [Proc -> Directory]
  /\ Ignored \in BOOLEAN /\ Faults \in BOOLEAN
  /\ MaxChanges \in Nat

VARIABLES
  worktree,  \* the directories are inside a Git work tree
  head,      \* HEAD: how it names a commit, and what git finds there
  index,     \* the index can be read
  edited,    \* index or tracked files differ from HEAD
  changes,   \* changes made so far by other programs
  ledger,    \* who created .motus in each directory
  canceled,  \* commands whose context the caller has cancelled
  expired,   \* commands whose detection has run for detectionTimeout
  stage,     \* what each command is doing
  step,      \* which git process its detection has come to
  git,       \* that process
  out,       \* what that process has written
  helper,    \* a descendant of it holds the output pipe
  sha,       \* HeadSHA read so far
  stateDir,  \* where the command keeps its ledger
  record,    \* the Git metadata it stores with its run
  past       \* history: what was true at some moment of the current detection,
             \* and whether git itself let it down when it read HEAD

world == <<worktree, head, index, edited, changes>>
detection == <<step, git, out, helper, sha, expired>>
command == <<stage, stateDir, record>>
vars == <<world, ledger, canceled, detection, command, past>>

Nobody == "nobody"       \* no .motus there
Earlier == "earlier"     \* .motus from before
NoHead == "no commit"    \* HeadSHA = ""
Nothing == "nothing"     \* no output

ASSUME GitNames ==
  /\ {Nobody, Earlier} \cap Proc = {}
  /\ {NoHead, "unborn", "unreadable", "missing"} \cap Commits = {}

\* The zero value of Metadata.
Zero == [root |-> "", head |-> NoHead, dirty |-> FALSE]

\* "unreadable": a branch file that is empty or garbage; git says of it what
\* it says of a branch without commits, but for its name.  "missing": the
\* commit a branch names is not in the object store.
Heads ==
  [on: {"branch", "other"}, at: Commits \cup {"unborn", "unreadable", "missing"}]
    \cup [on: {"detached"}, at: Commits]

Detecting == {p \in Proc : stage[p] \in {"resolve", "identify"}}
Done(p) == p \in canceled \cup expired     \* ctx.Err() # nil

\* The ledger is a file git does not track.
Untracked == ~ Ignored /\ \E d \in Directory : ledger[d] # Nobody

Facts ==
  {<<"head", head.at>>, <<"edited", edited>>, <<"untracked", Untracked>>}

Init ==
  /\ worktree \in BOOLEAN /\ head \in Heads /\ index \in BOOLEAN /\ edited \in BOOLEAN
  /\ changes = 0
  /\ ledger \in [Directory -> {Nobody, Earlier}]
  /\ canceled = {} /\ expired = {}
  /\ stage = [p \in Proc |-> "resolve"]
  /\ step = [p \in Proc |-> "toplevel"]
  /\ git = [p \in Proc |-> "idle"]
  /\ out = [p \in Proc |-> Nothing]
  /\ helper = [p \in Proc |-> FALSE]
  /\ sha = [p \in Proc |-> NoHead]
  /\ stateDir = Cwd
  /\ record = [p \in Proc |-> Zero]
  /\ past = [p \in Proc |-> Facts]

-----------------------------------------------------------------------------
(* Other programs, and the caller.                                         *)

\* What they do is seen by every detection under way.
Witnessed == past' = [p \in Proc |-> IF p \in Detecting THEN past[p] \cup Facts' ELSE past[p]]

Changes ==
  /\ worktree /\ changes < MaxChanges
  /\ changes' = changes + 1
  /\ UNCHANGED <<worktree, index, ledger, canceled, detection, command>>

Readable == head.at \in Commits \cup {"unborn"}

MakeCommit(c) ==
  /\ Changes /\ index /\ Readable
  /\ head' = [head EXCEPT !.at = c]
  /\ edited' \in BOOLEAN
  /\ Witnessed

\* git switch, --detach or --orphan
Checkout(h) ==
  /\ Changes /\ index /\ Readable
  /\ h.at \in Commits \cup {"unborn"}
  /\ head' = h
  /\ UNCHANGED edited
  /\ Witnessed

Edit ==
  /\ Changes
  /\ edited' = ~ edited
  /\ UNCHANGED head
  /\ Witnessed

Cancel(p) ==
  /\ p \notin canceled /\ stage[p] # "done"
  /\ canceled' = canceled \cup {p}
  /\ UNCHANGED <<world, ledger, detection, command, past>>

-----------------------------------------------------------------------------
(* The git process of command p.                                           *)

Stays(p) == UNCHANGED <<world, ledger, canceled, command, past, step, sha, expired>>

Running(p) == git[p] \in {"running", "looked"}

\* Git lets p down, whatever the repository is like; past remembers it of the
\* process that reads HEAD.
Fault(p) ==
  /\ Faults /\ Running(p)
  /\ past' = [past EXCEPT ![p] = IF step[p] = "head" THEN @ \cup {<<"fault", "head">>} ELSE @]
  /\ UNCHANGED <<world, ledger, canceled, command, step, sha, expired>>

Answers(p, text) ==
  /\ git' = [git EXCEPT ![p] = "exited"]
  /\ out' = [out EXCEPT ![p] = text]

Refuses(p) ==
  /\ git' = [git EXCEPT ![p] = "failed"]
  /\ UNCHANGED out

RevParseToplevel(p) ==
  /\ git[p] = "running" /\ step[p] = "toplevel"
  /\ IF worktree THEN Answers(p, "root") ELSE Refuses(p)
  /\ UNCHANGED helper /\ Stays(p)

RevParseHead(p) ==
  /\ git[p] = "running" /\ step[p] = "head"
  /\ IF head.at \in Commits THEN Answers(p, head.at) ELSE Refuses(p)
  /\ UNCHANGED helper /\ Stays(p)

SymbolicRef(p) ==
  /\ git[p] = "running" /\ step[p] = "symbolic"
  /\ IF head.on # "detached" THEN Answers(p, head.on) ELSE Refuses(p)
  /\ UNCHANGED helper /\ Stays(p)

\* git status compares HEAD, index and tracked files, and looks for
\* untracked ones after that.
StatusTracked(p) ==
  /\ git[p] = "running" /\ step[p] = "status"
  /\ IF index /\ head.at # "missing"
     THEN /\ git' = [git EXCEPT ![p] = "looked"]
          /\ out' = [out EXCEPT ![p] = IF edited THEN "changes" ELSE Nothing]
     ELSE Refuses(p)
  /\ UNCHANGED helper /\ Stays(p)

StatusUntracked(p) ==
  /\ git[p] = "looked"
  /\ Answers(p, IF Untracked THEN "changes" ELSE out[p])
  /\ UNCHANGED helper /\ Stays(p)

GitFails(p) ==
  /\ Fault(p)
  /\ Refuses(p)
  /\ UNCHANGED helper

GitForks(p) ==
  /\ Fault(p) /\ ~ helper[p]
  /\ helper' = [helper EXCEPT ![p] = TRUE]
  /\ UNCHANGED <<git, out>>

HelperEnds(p) ==
  /\ helper[p]
  /\ helper' = [helper EXCEPT ![p] = FALSE]
  /\ UNCHANGED <<git, out>> /\ Stays(p)

Git(p) ==
  \/ RevParseToplevel(p) \/ RevParseHead(p) \/ SymbolicRef(p)
  \/ StatusTracked(p) \/ StatusUntracked(p)
  \/ GitFails(p) \/ GitForks(p) \/ HelperEnds(p)

-----------------------------------------------------------------------------
(* Detect.                                                                 *)

\* Mutant: the ledger is opened before the metadata is read.
ThenOpenFirst(p) ==
  CASE stage[p] = "resolve"               -> "open"
    [] stage[p] = "open" /\ p \in Wrap    -> "identify"
    [] OTHER                              -> "done"

\* Only motus wrap asks for metadata, and it asks before it opens the ledger.
Then(p) ==
  CASE stage[p] = "resolve" /\ p \in Wrap -> "identify"
    [] stage[p] = "open"                  -> "done"
    [] OTHER                              -> "open"

\* Detect returns m, to statepath.Resolve or to runWrap.  The context of the
\* detection ends with it.
Detected(p, m) ==
  /\ IF stage[p] = "resolve"
     THEN /\ stateDir' = [stateDir EXCEPT ![p] = IF m.root = "" THEN Cwd[p] ELSE m.root]
          /\ UNCHANGED record
     ELSE /\ record' = [record EXCEPT ![p] = m]
          /\ UNCHANGED stateDir
  /\ stage' = [stage EXCEPT ![p] = Then(p)]
  /\ step' = [step EXCEPT ![p] = "toplevel"]
  /\ sha' = [sha EXCEPT ![p] = NoHead]
  /\ expired' = expired \ {p}
  /\ past' = [past EXCEPT ![p] = IF stage[p] = "resolve" THEN Facts ELSE @]

Continue(p, next) ==
  /\ step' = [step EXCEPT ![p] = next]
  /\ UNCHANGED <<expired, command, past>>

\* The command was run, with this result.
Toplevel(p, ok) ==
  /\ step[p] = "toplevel"
  /\ \/ ok /\ Continue(p, "head") /\ UNCHANGED sha
     \/ ~ ok /\ Detected(p, Zero)

RevParsed(p, ok) ==
  /\ step[p] = "head"
  /\ \/ ok /\ Continue(p, "status") /\ sha' = [sha EXCEPT ![p] = out[p]]
     \/ ~ ok /\ Done(p) /\ Detected(p, Zero)
     \/ ~ ok /\ ~ Done(p) /\ Continue(p, "symbolic") /\ UNCHANGED sha

unbornHEAD(p, ok) ==
  /\ step[p] = "symbolic"
  /\ \/ ok /\ out[p] = "branch" /\ Continue(p, "status") /\ sha' = [sha EXCEPT ![p] = NoHead]
     \/ ~ (ok /\ out[p] = "branch") /\ Detected(p, Zero)

\* Mutant: a status that failed or was cut off counts as no output.
gitDirtyIndeterminate(p, ok) ==
  /\ step[p] = "status"
  /\ Detected(p, [root |-> "root", head |-> sha[p], dirty |-> out[p] # Nothing])

gitDirty(p, ok) ==
  /\ step[p] = "status"
  /\ \/ ok /\ Detected(p, [root |-> "root", head |-> sha[p], dirty |-> out[p] # Nothing])
     \/ ~ ok /\ Detected(p, Zero)

Ran(p, ok) == Toplevel(p, ok) \/ RevParsed(p, ok) \/ unbornHEAD(p, ok) \/ gitDirty(p, ok)

StartGit(p) ==
  /\ p \in Detecting /\ git[p] = "idle" /\ ~ Done(p)
  /\ git' = [git EXCEPT ![p] = "running"]
  /\ UNCHANGED <<out, helper>> /\ Stays(p)

\* os/exec starts nothing under a context that is done.
StartNothing(p) ==
  /\ p \in Detecting /\ git[p] = "idle" /\ Done(p)
  /\ Ran(p, FALSE)
  /\ UNCHANGED <<world, ledger, canceled, git, out, helper>>

Deadline(p) ==
  /\ p \in Detecting \ expired
  /\ expired' = expired \cup {p}
  /\ UNCHANGED <<world, ledger, canceled, command, past, step, git, out, helper, sha>>

\* The context is done: the process is killed.
CutOff(p) ==
  /\ Done(p) /\ Running(p)
  /\ Refuses(p)
  /\ UNCHANGED helper /\ Stays(p)

\* cmd.Run returns: the process has ended and its output is complete.  When
\* the context is done as well, either may be reported.
RunReturns(p) ==
  /\ git[p] \in {"exited", "failed"} /\ ~ helper[p]
  /\ \/ git[p] = "exited" /\ Ran(p, TRUE)
     \/ (git[p] = "failed" \/ Done(p)) /\ Ran(p, FALSE)
  /\ git' = [git EXCEPT ![p] = "idle"]
  /\ out' = [out EXCEPT ![p] = Nothing]
  /\ UNCHANGED <<world, ledger, canceled, helper>>

\* Mutant: no commandWaitDelay.
WaitDelayNever(p) == FALSE /\ UNCHANGED vars

\* commandWaitDelay after the end of the process or of the context, the pipe
\* is closed, whoever holds it.
WaitDelay(p) ==
  /\ git[p] \in {"exited", "failed"} /\ helper[p]
  /\ Ran(p, FALSE)
  /\ git' = [git EXCEPT ![p] = "idle"]
  /\ out' = [out EXCEPT ![p] = Nothing]
  /\ helper' = [helper EXCEPT ![p] = FALSE]
  /\ UNCHANGED <<world, ledger, canceled>>

Detect(p) ==
  StartGit(p) \/ StartNothing(p) \/ Deadline(p) \/ CutOff(p) \/ RunReturns(p) \/ WaitDelay(p)

-----------------------------------------------------------------------------
(* Open prepares the path before it looks at its context; only writers     *)
(* create it.                                                              *)
Open(p) ==
  /\ stage[p] = "open"
  /\ stage' = [stage EXCEPT ![p] = Then(p)]
  /\ ledger' = [ledger EXCEPT ![stateDir[p]] = IF @ = Nobody /\ p \in Writers THEN p ELSE @]
  /\ UNCHANGED <<world, canceled, detection, stateDir, record>>
  /\ Witnessed

Motus(p) == Detect(p) \/ Open(p)

Others ==
  \/ \E c \in Commits : MakeCommit(c)
  \/ \E h \in Heads : Checkout(h)
  \/ Edit

Next == Others \/ \E p \in Proc : Cancel(p) \/ Git(p) \/ Motus(p)

Spec == Init /\ [][Next]_vars

\* Motus runs, timers fire and the kernel delivers a kill.  Nothing makes a
\* git process or its descendants end.
FairSpec == Spec /\ \A p \in Proc : WF_vars(Motus(p))

-----------------------------------------------------------------------------
(* Properties.                                                             *)

Reported(p) == record[p].root # ""

\* "Never misreport an indeterminate repository as clean" (gitmeta.go:75).
\* What a run's Git metadata says was true while Detect ran, not necessarily
\* of one moment: its commit was HEAD, a clean report found the tracked files
\* and the untracked ones clean, a dirty one found a change.  A report without
\* a commit met an unborn HEAD, or one of the two cases that Detect does not
\* tell from it (gitmeta.go:64): an unreadable branch, and a rev-parse that
\* failed or lost its output of itself.  A HEAD whose commit is missing, a
\* detached one, and a deadline or a signal never make such a report.
ReportWasTrue ==
  \A p \in Proc : Reported(p) =>
    /\ record[p].head # NoHead => <<"head", record[p].head>> \in past[p]
    /\ record[p].head = NoHead =>
         {<<"head", "unborn">>, <<"head", "unreadable">>, <<"fault", "head">>} \cap past[p] # {}
    /\ ~ record[p].dirty => {<<"edited", FALSE>>, <<"untracked", FALSE>>} \subseteq past[p]
    /\ record[p].dirty => {<<"edited", TRUE>>, <<"untracked", TRUE>>} \cap past[p] # {}

\* "HeadSHA is empty for a valid repository with an unborn HEAD", and "when
\* required metadata cannot be read safely, Detect returns the zero value"
\* (gitmeta.go:22-24, 33-35): a report without a commit is made only of a
\* repository that had none.
EmptyHeadIsUnborn ==
  \A p \in Proc : Reported(p) /\ record[p].head = NoHead => <<"head", "unborn">> \in past[p]

\* "Read Git state before creating .motus so the ledger's own first file does
\* not make an otherwise clean repository appear dirty" (cli.go:180): a run
\* reported dirty without an edit met a ledger that it did not create.
OwnLedgerKeepsClean ==
  \A p \in Proc : Reported(p) /\ record[p].dirty =>
    \/ <<"edited", TRUE>> \in past[p]
    \/ \E d \in Directory : ledger[d] \notin {Nobody, p}

\* "applies a short timeout to the complete detection operation"
\* (gitmeta.go:32): every detection ends, whatever git does and whoever
\* keeps its output pipe.
DetectEnds == \A p \in Proc : p \in Detecting ~> p \notin Detecting
=============================================================================
