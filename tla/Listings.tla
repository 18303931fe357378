------------------------------ MODULE Listings ------------------------------
(***************************************************************************)
(* ListRuns and ListFindings (internal/store), called page after page by a *)
(* script that raises --offset by --limit, while other processes start and *)
(* close runs and add and close findings.  Each page is one SELECT, so it  *)
(* sees one committed ledger; each write is one step (LedgerStore shows    *)
(* that it is).  Only the columns a listing looks at are kept: `runs' maps *)
(* a run to when it started and how it ended, `closures' maps a finding to *)
(* its closure.                                                            *)
(*                                                                         *)
(* A text is the set of needles (whole queries and single terms) found in  *)
(* it once both are in lower case.  Identifiers are numbers, in the order  *)
(* of their text.                                                          *)
(***************************************************************************)
EXTENDS Integers, FiniteSets, SequencesExt

CONSTANTS
  RunID, FindingID, ClosureID,
  Needle,          \* queries and query terms
  Specific,        \* needles that look like an identifier or a part of one
  Texts,           \* the authored texts
  NameOf(_, _),    \* NameOf(kind, id): the needles in an identifier's own text
  Time,
  Options,         \* the listings a script may ask for
  InitialLedgers,  \* the ledgers an earlier session may have left
  NoQuery, NULL

Run == [startedAt : Time, outcome : {"", "success", "failure", "aborted"}]
Finding == [origin : RunID, text : Texts, recordedAt : Time]
Closure ==
  [id : ClosureID, disposition : {"resolved"}, resolving : RunID, note : Texts]
  \cup [id : ClosureID, disposition : {"dismissed"}, resolving : {NULL}, note : Texts]

ASSUME ListingConstants ==
  /\ RunID \cup FindingID \cup ClosureID \cup Time \subseteq Nat
  /\ Specific \subseteq Needle /\ Texts \subseteq SUBSET Needle
  /\ \A t \in InitialLedgers :
       /\ \A r \in DOMAIN t.runs : r \in RunID /\ t.runs[r] \in Run
       /\ \A f \in DOMAIN t.findings : f \in FindingID /\ t.findings[f] \in Finding
       /\ \A f \in DOMAIN t.closures : f \in FindingID /\ t.closures[f] \in Closure
       /\ IsFiniteSet(DOMAIN t.runs) /\ IsFiniteSet(DOMAIN t.findings)
  /\ \A o \in Options :
       /\ o.table \in {"runs", "findings"} /\ o.limit \in Nat
       /\ o.query # NoQuery => IsFiniteSet(o.query.terms)

VARIABLES
  runs, findings, closures,
  options,   \* the listing under way
  offset,    \* the offset of its next page
  listed,    \* the rows of the pages so far, in order
  matched,   \* what matched when the first page was read
  unchanged, \* nothing was written since then
  pc

ledger == <<runs, findings, closures>>
walk == <<options, offset, listed, matched, pc>>
vars == <<ledger, walk, unchanged>>

-----------------------------------------------------------------------------
(* Which rows match, and in what order.                                    *)

\* A run is open as long as it has no outcome.
runState(r) == IF runs[r].outcome = "" THEN "open" ELSE "closed"

findingState(f) == IF f \in DOMAIN closures THEN closures[f].disposition ELSE "open"

\* Mutant: the closure note takes the place of the finding's own text.
findingAuthoredValuesNoteOnly(f) ==
  IF f \in DOMAIN closures THEN {closures[f].note} ELSE {findings[f].text}

findingAuthoredValues(f) ==
  {findings[f].text} \cup (IF f \in DOMAIN closures THEN {closures[f].note} ELSE {})

findingIdentifierValues(f) ==
  {NameOf("finding", f), NameOf("run", findings[f].origin)}
  \cup (IF f \notin DOMAIN closures THEN {}
        ELSE {NameOf("closure", closures[f].id)}
             \cup {NameOf("run", r) : r \in {closures[f].resolving} \ {NULL}})

containsNormalized(values, needle) == \E value \in values : needle \in value

\* A needle is looked for in identifiers only if it is specific enough.
hits(f, needle) ==
  \/ containsNormalized(findingAuthoredValues(f), needle)
  \/ needle \in Specific /\ containsNormalized(findingIdentifierValues(f), needle)

match(query, f) ==
  [exact |-> hits(f, query.full),
   matchedTerms |-> Cardinality({term \in query.terms : hits(f, term)})]

isMatch(score) == score.exact \/ score.matchedTerms > 0

MatchingRuns(o) ==
  {r \in DOMAIN runs : /\ o.state \in {"", runState(r)}
                       /\ o.outcome \in {"", runs[r].outcome}}

MatchingFindings(o) ==
  {f \in DOMAIN findings : /\ o.state \in {"", findingState(f)}
                           /\ o.query # NoQuery => isMatch(match(o.query, f))}

Matching(o) == IF o.table = "runs" THEN MatchingRuns(o) ELSE MatchingFindings(o)

\* Newest first; the identifier breaks ties.
Newer(ta, a, tb, b) == ta > tb \/ (ta = tb /\ a < b)

runBefore(a, b) == Newer(runs[a].startedAt, a, runs[b].startedAt, b)

\* Mutant: closed findings come last.
findingBeforeOpenFirst(o, a, b) ==
  LET isOpen(f) == f \notin DOMAIN closures IN
  IF isOpen(a) # isOpen(b) THEN isOpen(a)
  ELSE Newer(findings[a].recordedAt, a, findings[b].recordedAt, b)

\* By relevance, if there is a query, and then newest first.
findingBefore(o, a, b) ==
  LET x == IF o.query = NoQuery THEN 0 ELSE match(o.query, a)
      y == IF o.query = NoQuery THEN 0 ELSE match(o.query, b)
      newer == Newer(findings[a].recordedAt, a, findings[b].recordedAt, b)
  IN CASE o.query = NoQuery -> newer
       [] o.query # NoQuery /\ x.exact # y.exact -> x.exact
       [] o.query # NoQuery /\ x.exact = y.exact ->
            \/ x.matchedTerms > y.matchedTerms
            \/ (x.matchedTerms = y.matchedTerms /\ newer)

before(o, a, b) ==
  IF o.table = "runs" THEN runBefore(a, b) ELSE findingBefore(o, a, b)

\* Row i is the one that i - 1 rows precede.  (SortSeq would say the same,
\* but the proof system has no definition of it.)
Sorted(o) ==
  LET rows == Matching(o)
      preceding(r) == {q \in rows : before(o, q, r)}
  IN [i \in 1..Cardinality(rows) |->
        CHOOSE r \in rows : Cardinality(preceding(r)) = i - 1]

\* The zero limit of the Go API stands for 100.
Limit(o) == IF o.limit = 0 THEN 100 ELSE o.limit

\* The rows from first to last, as far as there are any.
Rows(rows, first, last) == SubSeq(rows, first, IF last < Len(rows) THEN last ELSE Len(rows))

\* Mutant: the page is one row too long.
PageTooLong(o, from) == Rows(Sorted(o), from + 1, from + Limit(o) + 1)

Page(o, from) == Rows(Sorted(o), from + 1, from + Limit(o))

-----------------------------------------------------------------------------
Init ==
  /\ \E t \in InitialLedgers :
       runs = t.runs /\ findings = t.findings /\ closures = t.closures
  /\ options \in Options
  /\ offset = 0
  /\ listed = <<>>
  /\ matched = {}
  /\ unchanged = FALSE
  /\ pc = "paging"

\* One `motus run list' or `motus finding list'; a short page is the last.
ReadPage ==
  /\ pc = "paging"
  /\ LET page == Page(options, offset) IN
       /\ listed' = listed \o page
       /\ offset' = offset + Limit(options)
       /\ pc' = IF Len(page) < Limit(options) THEN "done" ELSE "paging"
  /\ matched' = IF offset = 0 THEN Matching(options) ELSE matched
  /\ unchanged' = (offset = 0 \/ unchanged)
  /\ UNCHANGED <<ledger, options>>

Put(table, key, row) ==
  [k \in DOMAIN table \cup {key} |-> IF k = key THEN row ELSE table[k]]

\* A commit of another process.
Committed == pc = "paging" /\ unchanged' = FALSE /\ UNCHANGED walk

StartRun(r) ==
  /\ Committed
  /\ r \notin DOMAIN runs
  /\ \E t \in Time : runs' = Put(runs, r, [startedAt |-> t, outcome |-> ""])
  /\ UNCHANGED <<findings, closures>>

CloseRun(r) ==
  /\ Committed
  /\ r \in DOMAIN runs /\ runs[r].outcome = ""
  /\ \E outcome \in {"success", "failure", "aborted"} :
       runs' = Put(runs, r, [runs[r] EXCEPT !.outcome = outcome])
  /\ UNCHANGED <<findings, closures>>

AddFinding(f) ==
  /\ Committed
  /\ f \notin DOMAIN findings
  /\ \E r \in DOMAIN runs, text \in Texts, t \in Time :
       /\ runs[r].outcome # ""
       /\ findings' = Put(findings, f, [origin |-> r, text |-> text, recordedAt |-> t])
  /\ UNCHANGED <<runs, closures>>

\* A finding is resolved by a successful run, or dismissed without one.
CloseFinding(f) ==
  /\ Committed
  /\ f \in DOMAIN findings \ DOMAIN closures
  /\ \E c \in ClosureID, note \in Texts, resolving \in DOMAIN runs \cup {NULL} :
       /\ \A g \in DOMAIN closures : closures[g].id # c
       /\ resolving # NULL => runs[resolving].outcome = "success"
       /\ closures' = Put(closures, f,
            [id |-> c, resolving |-> resolving, note |-> note,
             disposition |-> IF resolving = NULL THEN "dismissed" ELSE "resolved"])
  /\ UNCHANGED <<runs, findings>>

Next ==
  \/ ReadPage
  \/ \E r \in RunID : StartRun(r) \/ CloseRun(r)
  \/ \E f \in FindingID : AddFinding(f) \/ CloseFinding(f)

Spec == Init /\ [][Next]_vars

-----------------------------------------------------------------------------
(* Properties.                                                             *)

\* However the clock and the other processes behave, paging through a
\* listing misses no row that matched at the first page: rows only move
\* towards the end, where a later page finds them.  Two listings are outside
\* the promise: --state open, which rows leave, and a query over findings of
\* any state, where a closure note may lift a row over the next page's start.
NothingSkipped ==
  pc = "done" /\ options.state # "open" /\ (options.query = NoQuery \/ options.state # "") =>
    matched \subseteq ToSet(listed)

\* Put together, the pages of a ledger nobody writes to meanwhile are the
\* matching rows, each of them once, whatever the limit.
PagesPartition ==
  pc = "done" /\ unchanged =>
    ToSet(listed) = matched /\ Len(listed) = Cardinality(matched)

\* Closing a finding, or anything else that happens to a ledger, never takes
\* it out of the results of a query or lowers its relevance
\* (findingAuthoredValues and findingIdentifierValues only gain values).
RelevanceNeverFalls ==
  [][options.query # NoQuery =>
       \A f \in DOMAIN findings :
         LET new == match(options.query, f)' IN
         /\ match(options.query, f).exact => new.exact
         /\ new.matchedTerms >= match(options.query, f).matchedTerms]_vars
=============================================================================
