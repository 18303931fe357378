--------------------------- MODULE ListingsProofs ---------------------------
(***************************************************************************)
(* Paging through a listing skips nothing and repeats nothing, for any     *)
(* ledger, any number of pages, any limit and any writes in between.       *)
(*                                                                         *)
(* The place of a row is the number of rows before it (Rank).  Neither     *)
(* property is inductive: that the pages so far are right says nothing of  *)
(* the next one unless the invariant says where the rows are that have not *)
(* been listed.  ListInv does: at the offset or beyond it.  A write may    *)
(* add rows before such a row but takes none away, so its place only       *)
(* grows.                                                                  *)
(***************************************************************************)
EXTENDS Listings, FiniteSetTheorems, SequenceTheorems, TLAPS

-----------------------------------------------------------------------------
(* The inductive invariant.                                                *)

RunsTyped ==
  /\ IsFiniteSet(DOMAIN runs)
  /\ \A r \in DOMAIN runs : r \in RunID /\ runs[r] \in Run

FindingsTyped ==
  /\ IsFiniteSet(DOMAIN findings)
  /\ \A f \in DOMAIN findings : f \in FindingID /\ findings[f] \in Finding

ClosuresTyped ==
  \A f \in DOMAIN closures : f \in FindingID /\ closures[f] \in Closure

LedgerTyped == RunsTyped /\ FindingsTyped /\ ClosuresTyped

WalkTyped ==
  /\ options \in Options
  /\ offset \in Nat
  /\ listed \in Seq(Nat)
  /\ unchanged \in BOOLEAN
  /\ pc \in {"paging", "done"}

Preceding(o, r) == {q \in Matching(o) : before(o, q, r)}

\* How many rows a listing shows before r.
Rank(o, r) == Cardinality(Preceding(o, r))

\* The listings that rows never leave and in which they never move up.
Settled(o) == o.state # "open" /\ (o.query = NoQuery \/ o.state # "")

\* Before the first page nothing has been seen.
FreshOK == offset = 0 => pc = "paging" /\ listed = <<>> /\ matched = {} /\ ~ unchanged

\* A row of the first page's ledger is listed, or its place is still to come.
AheadOK ==
  Settled(options) =>
    \A r \in matched :
      \/ r \in ToSet(listed)
      \/ pc = "paging" /\ r \in Matching(options) /\ Rank(options, r) >= offset

\* Without writes the pages so far are the beginning of the listing.
PrefixOK ==
  unchanged =>
    /\ matched = Matching(options)
    /\ listed = Rows(Sorted(options), 1, offset)
    /\ pc = "done" => offset > Cardinality(matched)

ListInv == LedgerTyped /\ WalkTyped /\ FreshOK /\ AheadOK /\ PrefixOK

-----------------------------------------------------------------------------
(* A finite set under a strict order: every place is taken, by one member. *)

IsStrictOrder(R, S) ==
  /\ \A a \in S : <<a, a>> \notin R
  /\ \A a, b \in S : a # b => <<a, b>> \in R \/ <<b, a>> \in R
  /\ \A a, b, c \in S : <<a, b>> \in R /\ <<b, c>> \in R => <<a, c>> \in R

Place(R, S, r) == Cardinality({q \in S : <<q, r>> \in R})

LEMMA PlacesAreTaken ==
  ASSUME NEW S, IsFiniteSet(S), NEW R, IsStrictOrder(R, S)
  PROVE  /\ \A r \in S : Place(R, S, r) \in 0..(Cardinality(S) - 1)
         /\ \A a, b \in S : Place(R, S, a) = Place(R, S, b) => a = b
         /\ \A k \in 0..(Cardinality(S) - 1) : \E r \in S : Place(R, S, r) = k
<1> DEFINE below(r) == {q \in S : <<q, r>> \in R}
           n == Cardinality(S)
           number == [r \in S |-> Place(R, S, r)]
<1>1. n \in Nat
  BY FS_CardinalityType
<1>2. ASSUME NEW r \in S
      PROVE  IsFiniteSet(below(r)) /\ Place(R, S, r) \in Nat /\ Place(R, S, r) < n
  <2>1. below(r) \in SUBSET S /\ r \notin below(r)
    BY DEF IsStrictOrder
  <2>2. /\ IsFiniteSet(below(r))
        /\ Cardinality(below(r)) <= n
        /\ n = Cardinality(below(r)) => S = below(r)
    BY <2>1, FS_Subset
  <2>3. Cardinality(below(r)) \in Nat
    BY <2>2, FS_CardinalityType
  <2> QED
    BY <1>1, <2>1, <2>2, <2>3 DEF Place
<1>3. ASSUME NEW a \in S, NEW b \in S, <<a, b>> \in R
      PROVE  Place(R, S, a) < Place(R, S, b)
  <2>1. below(a) \in SUBSET below(b)
    BY <1>3 DEF IsStrictOrder
  <2>2. a \in below(b) /\ a \notin below(a)
    BY <1>3 DEF IsStrictOrder
  <2>3. /\ Cardinality(below(a)) <= Cardinality(below(b))
        /\ Cardinality(below(b)) = Cardinality(below(a)) => below(b) = below(a)
    BY <1>2, <2>1, FS_Subset
  <2>4. below(b) # below(a)
    BY <2>2
  <2>5. /\ Place(R, S, a) = Cardinality(below(a)) /\ Place(R, S, b) = Cardinality(below(b))
    BY DEF Place
  <2>6. Place(R, S, a) \in Nat /\ Place(R, S, b) \in Nat
    BY <1>2
  <2> HIDE DEF below
  <2> QED
    BY <2>3, <2>4, <2>5, <2>6
<1>4. ASSUME NEW a \in S, NEW b \in S, Place(R, S, a) = Place(R, S, b)
      PROVE  a = b
  <2>1. Place(R, S, a) \in Nat /\ Place(R, S, b) \in Nat
    BY <1>2
  <2>2. <<a, b>> \notin R /\ <<b, a>> \notin R
    BY <1>3, <1>4, <2>1
  <2> QED
    BY <2>2 DEF IsStrictOrder
<1> HIDE DEF below, n
<1>5. ASSUME NEW r \in S
      PROVE  Place(R, S, r) \in 0..(n - 1)
  <2>1. Place(R, S, r) \in Nat /\ Place(R, S, r) < n
    BY <1>2
  <2> QED
    BY <1>1, <2>1
<1>6. number \in Injection(S, 0..(n - 1))
  <2>1. number \in [S -> 0..(n - 1)]
    BY <1>5
  <2>2. \A a, b \in S : number[a] = number[b] => a = b
    BY <1>4
  <2> QED
    BY <2>1, <2>2 DEF Injection, IsInjective
<1>7. IsFiniteSet(0..(n - 1)) /\ Cardinality(0..(n - 1)) = n
  BY <1>1, FS_Interval
<1>8. number \in Surjection(S, 0..(n - 1))
  BY <1>6, <1>7, FS_Injection DEF n
<1>9. \A k \in 0..(n - 1) : \E r \in S : number[r] = k
  BY <1>8 DEF Surjection
<1> QED
  BY <1>4, <1>5, <1>9 DEF n

-----------------------------------------------------------------------------
(* The order of a listing.                                                 *)

Order(o) == {p \in Matching(o) \X Matching(o) : before(o, p[1], p[2])}

LEMMA MatchingTyped ==
  ASSUME LedgerTyped, NEW o \in Options
  PROVE  /\ IsFiniteSet(Matching(o))
         /\ o.table = "runs" =>
              Matching(o) \subseteq {r \in RunID : runs[r].startedAt \in Time}
         /\ o.table # "runs" =>
              Matching(o) \subseteq {f \in FindingID : findings[f].recordedAt \in Time}
         /\ Matching(o) \subseteq Nat
<1>1. CASE o.table = "runs"
  <2>1. Matching(o) \in SUBSET DOMAIN runs
    BY <1>1 DEF Matching, MatchingRuns
  <2>2. IsFiniteSet(Matching(o))
    BY <2>1, FS_Subset DEF LedgerTyped, RunsTyped
  <2>3. Matching(o) \subseteq {r \in RunID : runs[r].startedAt \in Time}
    BY <2>1 DEF LedgerTyped, RunsTyped, Run
  <2> QED
    BY <1>1, <2>2, <2>3, ListingConstants
<1>2. CASE o.table # "runs"
  <2>1. Matching(o) \in SUBSET DOMAIN findings
    BY <1>2 DEF Matching, MatchingFindings
  <2>2. IsFiniteSet(Matching(o))
    BY <2>1, FS_Subset DEF LedgerTyped, FindingsTyped
  <2>3. Matching(o) \subseteq {f \in FindingID : findings[f].recordedAt \in Time}
    BY <2>1 DEF LedgerTyped, FindingsTyped, Finding
  <2> QED
    BY <1>2, <2>2, <2>3, ListingConstants
<1> QED
  BY <1>1, <1>2

LEMMA ScoreTyped ==
  ASSUME NEW o \in Options, o.query # NoQuery, NEW f
  PROVE  /\ match(o.query, f).exact \in BOOLEAN
         /\ match(o.query, f).matchedTerms \in Nat
<1> DEFINE found == {term \in o.query.terms : hits(f, term)}
<1>1. IsFiniteSet(o.query.terms)
  BY ListingConstants
<1>2. found \in SUBSET o.query.terms
  OBVIOUS
<1>3. IsFiniteSet(found)
  BY <1>1, <1>2, FS_Subset
<1>4. Cardinality(found) \in Nat
  BY <1>3, FS_CardinalityType
<1>5. match(o.query, f).matchedTerms = Cardinality(found)
  BY DEF match
<1>6. match(o.query, f).exact \in BOOLEAN
  BY DEF match, hits
<1> QED
  BY <1>4, <1>5, <1>6

\* The comparison of sort.Slice, with the scores a and b were given.
Relevant(x, y, ta, a, tb, b) ==
  \/ x.exact /\ ~ y.exact
  \/ /\ x.exact = y.exact
     /\ \/ x.matchedTerms > y.matchedTerms
        \/ x.matchedTerms = y.matchedTerms /\ Newer(ta, a, tb, b)

LEMMA BeforeIsRelevance ==
  ASSUME NEW o \in Options, o.table # "runs", o.query # NoQuery, NEW a, NEW b
  PROVE  before(o, a, b) <=>
           Relevant(match(o.query, a), match(o.query, b),
                    findings[a].recordedAt, a, findings[b].recordedAt, b)
<1> DEFINE x == match(o.query, a)
           y == match(o.query, b)
<1>1. x.exact \in BOOLEAN /\ y.exact \in BOOLEAN
  BY ScoreTyped
<1> HIDE DEF x, y
<1>2. before(o, a, b) = findingBefore(o, a, b)
  BY DEF before
<1>3. CASE x.exact # y.exact
  <2>1. findingBefore(o, a, b) = x.exact
    BY <1>1, <1>3 DEF findingBefore, x, y
  <2> QED
    BY <1>1, <1>2, <1>3, <2>1 DEF Relevant, x, y
<1>4. CASE x.exact = y.exact
  <2> DEFINE newer == Newer(findings[a].recordedAt, a, findings[b].recordedAt, b)
  <2>1. findingBefore(o, a, b) =
          (x.matchedTerms > y.matchedTerms \/ (x.matchedTerms = y.matchedTerms /\ newer))
    BY <1>1, <1>4 DEF findingBefore, x, y
  <2> QED
    BY <1>1, <1>2, <1>4, <2>1 DEF Relevant, x, y
<1> QED
  BY <1>3, <1>4

\* The rows of a listing are strictly ordered, whatever their times and scores.
LEMMA ListingIsOrdered ==
  ASSUME LedgerTyped, NEW o \in Options
  PROVE  IsStrictOrder(Order(o), Matching(o))
<1> DEFINE rows == Matching(o)
<1>1. CASE o.table = "runs"
  <2>1. rows \subseteq Nat /\ \A r \in rows : runs[r].startedAt \in Nat
    BY <1>1, MatchingTyped, ListingConstants
  <2>2. \A a, b \in rows :
          before(o, a, b) <=> Newer(runs[a].startedAt, a, runs[b].startedAt, b)
    BY <1>1 DEF before, runBefore
  <2>3. \A a, b \in rows :
          <<a, b>> \in Order(o) <=> Newer(runs[a].startedAt, a, runs[b].startedAt, b)
    BY <2>2 DEF Order
  <2> HIDE DEF rows
  <2> QED
    BY <2>1, <2>3 DEF IsStrictOrder, Newer, rows
<1>2. CASE o.table # "runs"
  <2>1. rows \subseteq Nat /\ \A r \in rows : findings[r].recordedAt \in Nat
    BY <1>2, MatchingTyped, ListingConstants
  <2>2. CASE o.query = NoQuery
    <3>1. \A a, b \in rows :
            before(o, a, b) <=> Newer(findings[a].recordedAt, a, findings[b].recordedAt, b)
      BY <1>2, <2>2 DEF before, findingBefore
    <3>2. \A a, b \in rows : <<a, b>> \in Order(o) <=>
            Newer(findings[a].recordedAt, a, findings[b].recordedAt, b)
      BY <3>1 DEF Order
    <3> HIDE DEF rows
    <3> QED
      BY <2>1, <3>2 DEF IsStrictOrder, Newer, rows
  <2>3. CASE o.query # NoQuery
    <3> DEFINE score == [f \in rows |-> match(o.query, f)]
    <3>1. \A f \in rows : score[f].exact \in BOOLEAN /\ score[f].matchedTerms \in Nat
      BY <2>3, ScoreTyped
    <3>2. \A a, b \in rows : before(o, a, b) <=>
            Relevant(score[a], score[b],
                     findings[a].recordedAt, a, findings[b].recordedAt, b)
      BY <1>2, <2>3, BeforeIsRelevance
    <3>3. \A a, b \in rows : <<a, b>> \in Order(o) <=>
            Relevant(score[a], score[b],
                     findings[a].recordedAt, a, findings[b].recordedAt, b)
      BY <3>2 DEF Order
    <3> HIDE DEF rows, score
    <3>4. \A a \in rows : <<a, a>> \notin Order(o)
      BY <2>1, <3>1, <3>3 DEF Relevant, Newer
    <3>5. \A a, b \in rows : a # b => <<a, b>> \in Order(o) \/ <<b, a>> \in Order(o)
      BY <2>1, <3>1, <3>3 DEF Relevant, Newer
    <3>6. \A a, b, c \in rows :
            <<a, b>> \in Order(o) /\ <<b, c>> \in Order(o) => <<a, c>> \in Order(o)
      BY <2>1, <3>1, <3>3 DEF Relevant, Newer
    <3> QED
      BY <3>4, <3>5, <3>6 DEF IsStrictOrder, rows
  <2> QED
    BY <2>2, <2>3
<1> QED
  BY <1>1, <1>2

\* Each row is at its place, and each place has its row.
LEMMA SortedRows ==
  ASSUME LedgerTyped, NEW o \in Options
  PROVE  /\ Cardinality(Matching(o)) \in Nat
         /\ Sorted(o) \in Seq(Matching(o)) /\ Sorted(o) \in Seq(Nat)
         /\ Len(Sorted(o)) = Cardinality(Matching(o))
         /\ \A i \in 1..Len(Sorted(o)) : Rank(o, Sorted(o)[i]) = i - 1
         /\ \A r \in Matching(o) : /\ Rank(o, r) \in 0..(Len(Sorted(o)) - 1)
                                   /\ Sorted(o)[Rank(o, r) + 1] = r
<1> DEFINE rows == Matching(o)
           n == Cardinality(rows)
<1>1. IsFiniteSet(rows) /\ n \in Nat /\ rows \subseteq Nat
  BY MatchingTyped, FS_CardinalityType
<1>2. \A r \in rows : Rank(o, r) = Place(Order(o), rows, r)
  <2> SUFFICES ASSUME NEW r \in rows
               PROVE  Rank(o, r) = Place(Order(o), rows, r)
    OBVIOUS
  <2>1. Preceding(o, r) = {q \in rows : <<q, r>> \in Order(o)}
    BY DEF Preceding, Order
  <2> QED
    BY <2>1 DEF Rank, Place
<1>3. IsStrictOrder(Order(o), rows)
  BY ListingIsOrdered
<1>4. /\ \A r \in rows : Rank(o, r) \in 0..(n - 1)
      /\ \A a, b \in rows : Rank(o, a) = Rank(o, b) => a = b
      /\ \A k \in 0..(n - 1) : \E r \in rows : Rank(o, r) = k
  BY <1>1, <1>2, <1>3, PlacesAreTaken
<1>5. Sorted(o) = [i \in 1..n |-> CHOOSE r \in rows : Rank(o, r) = i - 1]
  BY DEF Sorted, Rank, Preceding
<1> HIDE DEF rows, n
<1>6. ASSUME NEW i \in 1..n
      PROVE  Sorted(o)[i] \in rows /\ Rank(o, Sorted(o)[i]) = i - 1
  <2>1. i - 1 \in 0..(n - 1)
    BY <1>1
  <2>2. \E r \in rows : Rank(o, r) = i - 1
    BY <1>4, <2>1
  <2>3. Sorted(o)[i] = CHOOSE r \in rows : Rank(o, r) = i - 1
    BY <1>5
  <2> QED
    BY <2>2, <2>3
<1>7. Sorted(o) \in [1..n -> rows]
  BY <1>5, <1>6
<1>8. Sorted(o) \in Seq(rows) /\ Len(Sorted(o)) = n
  BY <1>1, <1>7
<1>9. Sorted(o) \in Seq(Nat)
  BY <1>1, <1>8, SeqMonotonic
<1>10. ASSUME NEW r \in rows
       PROVE  Sorted(o)[Rank(o, r) + 1] = r
  <2>1. Rank(o, r) + 1 \in 1..n
    BY <1>1, <1>4
  <2>2. /\ Sorted(o)[Rank(o, r) + 1] \in rows
        /\ Rank(o, Sorted(o)[Rank(o, r) + 1]) = Rank(o, r)
    BY <1>1, <1>4, <1>6, <2>1
  <2> QED
    BY <1>4, <2>2
<1> QED
  BY <1>1, <1>4, <1>6, <1>8, <1>9, <1>10 DEF rows, n

-----------------------------------------------------------------------------
(* Pages.                                                                  *)

LEMMA PageOfRows ==
  ASSUME NEW s \in Seq(Nat), NEW m \in Nat, NEW k \in Nat \ {0}
  PROVE  /\ Rows(s, m + 1, m + k) \in Seq(Nat)
         /\ Len(Rows(s, m + 1, m + k)) =
              IF m + k < Len(s) THEN k ELSE IF m < Len(s) THEN Len(s) - m ELSE 0
         /\ \A i \in 1..Len(Rows(s, m + 1, m + k)) : Rows(s, m + 1, m + k)[i] = s[m + i]
<1> DEFINE last == IF m + k < Len(s) THEN m + k ELSE Len(s)
           page == SubSeq(s, m + 1, last)
<1>1. Len(s) \in Nat /\ \A i \in 1..Len(s) : s[i] \in Nat
  BY LenProperties, ElementOfSeq
<1>2. last \in Nat /\ last <= Len(s)
  BY <1>1
<1>3. Rows(s, m + 1, m + k) = page
  BY DEF Rows
<1> HIDE DEF last
<1>4. m + 1 \in Int /\ last \in Int /\ \A i \in (m + 1)..last : s[i] \in Nat
  BY <1>1, <1>2
<1>5. /\ page \in Seq(Nat)
      /\ Len(page) = IF m + 1 <= last THEN last - (m + 1) + 1 ELSE 0
      /\ \A i \in 1..(last - (m + 1) + 1) : page[i] = s[m + 1 + i - 1]
  <2> DEFINE first == m + 1
  <2>1. first \in Int /\ last \in Int /\ \A i \in first..last : s[i] \in Nat
    BY <1>4
  <2> HIDE DEF first
  <2>2. /\ SubSeq(s, first, last) \in Seq(Nat)
        /\ Len(SubSeq(s, first, last)) = IF first <= last THEN last - first + 1 ELSE 0
        /\ \A i \in 1..(last - first + 1) : SubSeq(s, first, last)[i] = s[first + i - 1]
    BY <2>1, SubSeqProperties
  <2> QED
    BY <2>2 DEF first
<1> HIDE DEF page
<1>6. Len(page) = IF m < last THEN last - m ELSE 0
  BY <1>2, <1>5
<1>7. \A i \in 1..Len(page) : page[i] = s[m + i]
  <2> SUFFICES ASSUME NEW i \in 1..Len(page)
               PROVE  page[i] = s[m + i]
    OBVIOUS
  <2>1. i \in 1..(last - (m + 1) + 1) /\ m + 1 + i - 1 = m + i
    BY <1>2, <1>6
  <2> QED
    BY <1>5, <2>1
<1>8. Len(page) = IF m + k < Len(s) THEN k ELSE IF m < Len(s) THEN Len(s) - m ELSE 0
  BY <1>1, <1>6 DEF last
<1> QED
  BY <1>3, <1>5, <1>7, <1>8

\* A page continues what has been listed.
LEMMA PageContinues ==
  ASSUME NEW s \in Seq(Nat), NEW m \in Nat, NEW k \in Nat \ {0}
  PROVE  Rows(s, 1, m) \o Rows(s, m + 1, m + k) = Rows(s, 1, m + k)
<1> DEFINE last == IF m + k < Len(s) THEN m + k ELSE Len(s)
<1>1. Len(s) \in Nat
  BY LenProperties
<1>2. last \in Nat /\ last <= Len(s)
  BY <1>1
<1>3. Rows(s, m + 1, m + k) = SubSeq(s, m + 1, last) /\ Rows(s, 1, m + k) = SubSeq(s, 1, last)
  BY DEF Rows
<1>4. CASE m < Len(s)
  <2>1. Rows(s, 1, m) = SubSeq(s, 1, m)
    BY <1>4 DEF Rows
  <2>2. 1 \in 1..(Len(s) + 1) /\ m \in (1 - 1)..Len(s) /\ last \in m..Len(s)
    BY <1>1, <1>2, <1>4
  <2> HIDE DEF last
  <2> QED
    BY <1>3, <2>1, <2>2, ConcatAdjacentSubSeq
<1>5. CASE ~ (m < Len(s))
  <2>1. last = Len(s)
    BY <1>1, <1>5
  <2>2. Rows(s, 1, m) = s /\ Rows(s, 1, m + k) = s
    BY <1>3, <1>5, <2>1, SubSeqFull DEF Rows
  <2>3. SubSeq(s, m + 1, last) = <<>>
    BY <1>1, <1>5, <2>1, SubSeqEmpty
  <2> QED
    BY <1>3, <2>2, <2>3, ConcatEmptySeq
<1> QED
  BY <1>4, <1>5

-----------------------------------------------------------------------------
(* The first ledger, and a page.                                           *)

LEMMA LimitIsPositive ==
  ASSUME NEW o \in Options
  PROVE  Limit(o) \in Nat \ {0}
BY ListingConstants DEF Limit

LEMMA ListInvInit == Init => ListInv
<1> SUFFICES ASSUME Init PROVE ListInv
  OBVIOUS
<1>1. PICK t \in InitialLedgers : runs = t.runs /\ findings = t.findings /\ closures = t.closures
  BY DEF Init
<1>2. LedgerTyped
  BY <1>1, ListingConstants DEF LedgerTyped, RunsTyped, FindingsTyped, ClosuresTyped
<1>3. WalkTyped
  BY EmptySeq DEF Init, WalkTyped
<1>4. FreshOK /\ AheadOK /\ PrefixOK
  BY DEF Init, FreshOK, AheadOK, PrefixOK
<1> QED
  BY <1>2, <1>3, <1>4 DEF ListInv

\* What a listing shows depends on the ledger and its options alone.
LEMMA ListingDependsOnLedger ==
  ASSUME UNCHANGED <<ledger, options>>
  PROVE  /\ Matching(options)' = Matching(options)
         /\ Sorted(options)' = Sorted(options)
         /\ \A r : Rank(options, r)' = Rank(options, r)
<1>1. Matching(options)' = Matching(options)
  BY DEF ledger, Matching, MatchingRuns, MatchingFindings, runState, findingState, isMatch,
         match, hits, containsNormalized, findingAuthoredValues, findingIdentifierValues
<1>2. \A a, b : before(options, a, b)' = before(options, a, b)
  BY DEF ledger, before, runBefore, findingBefore, match, hits, containsNormalized,
         findingAuthoredValues, findingIdentifierValues, Newer
<1>3. \A r : Preceding(options, r)' = Preceding(options, r)
  BY <1>1, <1>2 DEF Preceding
<1>4. \A r : Rank(options, r)' = Rank(options, r)
  BY <1>3 DEF Rank
<1>5. Sorted(options)' = Sorted(options)
  BY <1>1, <1>2 DEF Sorted
<1> QED
  BY <1>1, <1>4, <1>5

LEMMA ReadPageKeeps ==
  ASSUME ListInv, ReadPage
  PROVE  ListInv'
<1> DEFINE page == Page(options, offset)
           limit == Limit(options)
           rows == Matching(options)
           sorted == Sorted(options)
           n == Cardinality(rows)
<1>1. /\ pc = "paging" /\ listed' = listed \o page /\ offset' = offset + limit
      /\ pc' = IF Len(page) < limit THEN "done" ELSE "paging"
      /\ matched' = IF offset = 0 THEN rows ELSE matched
      /\ unchanged' = (offset = 0 \/ unchanged)
      /\ UNCHANGED <<ledger, options>>
  BY DEF ReadPage
<1>2. options \in Options /\ offset \in Nat /\ listed \in Seq(Nat)
  BY DEF ListInv, WalkTyped
<1>3. limit \in Nat \ {0}
  BY <1>2, LimitIsPositive
<1>4. LedgerTyped
  BY DEF ListInv
<1>5. /\ n \in Nat /\ sorted \in Seq(Nat) /\ Len(sorted) = n
      /\ \A r \in rows : Rank(options, r) \in 0..(n - 1) /\ sorted[Rank(options, r) + 1] = r
  BY <1>2, <1>4, SortedRows
<1>6. page = Rows(sorted, offset + 1, offset + limit)
  BY DEF Page
<1> HIDE DEF limit, rows, sorted, n, page
<1>7. /\ page \in Seq(Nat)
      /\ Len(page) = IF offset + limit < n THEN limit ELSE IF offset < n THEN n - offset ELSE 0
      /\ \A i \in 1..Len(page) : page[i] = sorted[offset + i]
  <2>1. offset \in Nat /\ limit \in Nat \ {0} /\ sorted \in Seq(Nat)
    BY <1>2, <1>3, <1>5
  <2>2. /\ Rows(sorted, offset + 1, offset + limit) \in Seq(Nat)
        /\ Len(Rows(sorted, offset + 1, offset + limit)) =
             IF offset + limit < Len(sorted) THEN limit
             ELSE IF offset < Len(sorted) THEN Len(sorted) - offset ELSE 0
        /\ \A i \in 1..Len(Rows(sorted, offset + 1, offset + limit)) :
             Rows(sorted, offset + 1, offset + limit)[i] = sorted[offset + i]
    BY <2>1, PageOfRows
  <2> QED
    BY <1>5, <1>6, <2>2
<1>8. /\ rows = Matching(options)' /\ sorted = Sorted(options)'
      /\ \A r : Rank(options, r)' = Rank(options, r)
  BY <1>1, ListingDependsOnLedger DEF rows, sorted
<1>9. LedgerTyped'
  BY <1>1, <1>4 DEF LedgerTyped, RunsTyped, FindingsTyped, ClosuresTyped, ledger
<1>10. /\ listed' \in Seq(Nat) /\ Len(listed') = Len(listed) + Len(page)
       /\ Len(listed) \in Nat
       /\ \A i \in 1..(Len(listed) + Len(page)) :
            listed'[i] = IF i <= Len(listed) THEN listed[i] ELSE page[i - Len(listed)]
  BY <1>1, <1>2, <1>7, ConcatProperties, LenProperties
<1>11. WalkTyped'
  BY <1>1, <1>2, <1>3, <1>10 DEF ListInv, WalkTyped
<1>12. FreshOK'
  BY <1>1, <1>2, <1>3 DEF FreshOK
<1>13. \A r \in ToSet(listed) : r \in ToSet(listed')
  <2> SUFFICES ASSUME NEW i \in DOMAIN listed
               PROVE  listed[i] \in ToSet(listed')
    BY DEF ToSet
  <2>1. Len(page) \in Nat
    BY <1>7, LenProperties
  <2>2. i \in 1..Len(listed) /\ i \in 1..(Len(listed) + Len(page))
    BY <1>2, <1>10, <2>1, LenProperties
  <2>3. listed'[i] = listed[i] /\ i \in DOMAIN listed'
    BY <1>10, <2>2, LenProperties
  <2> QED
    BY <2>3 DEF ToSet
<1>14. ASSUME NEW r \in rows, Rank(options, r) >= offset
       PROVE  \/ r \in ToSet(listed')
              \/ pc' = "paging" /\ Rank(options, r) >= offset'
  <2> DEFINE i == Rank(options, r) + 1 - offset
  <2>1. Rank(options, r) \in 0..(n - 1) /\ sorted[Rank(options, r) + 1] = r
    BY <1>5
  <2>2. CASE i <= limit
    <3>1. i \in 1..Len(page)
      <4>1. Rank(options, r) \in Nat /\ Rank(options, r) < n /\ Rank(options, r) >= offset
        BY <1>5, <1>14, <2>1
      <4>2. Len(page) = IF offset + limit < n THEN limit ELSE n - offset
        BY <1>2, <1>5, <1>7, <4>1
      <4> QED
        BY <1>2, <1>3, <1>5, <2>2, <4>1, <4>2
    <3>2. offset + i = Rank(options, r) + 1
      BY <1>2, <2>1
    <3>3. page[i] = r
      BY <1>7, <2>1, <3>1, <3>2
    <3> HIDE DEF i
    <3>4. Len(page) \in Nat /\ Len(listed) + i \in 1..(Len(listed) + Len(page))
      BY <1>7, <1>10, <3>1, LenProperties
    <3>5. listed'[Len(listed) + i] = r
      <4> DEFINE j == Len(listed) + i
      <4>1. /\ j \in 1..(Len(listed) + Len(page))
            /\ ~ (j <= Len(listed)) /\ j - Len(listed) = i
        BY <1>10, <3>1, <3>4
      <4> HIDE DEF j
      <4>2. listed'[j] = page[j - Len(listed)]
        BY <1>10, <4>1
      <4> QED
        BY <3>3, <4>1, <4>2 DEF j
    <3>6. Len(listed) + i \in DOMAIN listed'
      BY <1>10, <3>4, LenProperties
    <3> QED
      BY <3>5, <3>6 DEF ToSet
  <2>3. CASE ~ (i <= limit)
    <3>1. offset + limit < n /\ Rank(options, r) >= offset + limit
      BY <1>2, <1>3, <1>5, <2>1, <2>3
    <3> QED
      BY <1>1, <1>3, <1>7, <3>1
  <2> QED
    BY <2>2, <2>3
<1>15. AheadOK'
  <2> SUFFICES ASSUME Settled(options'), NEW r \in matched'
               PROVE  \/ r \in ToSet(listed')
                      \/ /\ pc' = "paging" /\ r \in Matching(options)'
                         /\ Rank(options, r)' >= offset'
    BY <1>1 DEF AheadOK, Settled
  <2>1. Settled(options)
    BY <1>1 DEF Settled
  <2>2. CASE offset = 0
    <3>1. r \in rows /\ Rank(options, r) >= offset
      BY <1>1, <1>5, <2>2
    <3> QED
      BY <1>8, <1>14, <3>1
  <2>3. CASE offset # 0
    <3>1. \/ r \in ToSet(listed)
          \/ r \in rows /\ Rank(options, r) >= offset
      BY <1>1, <2>1, <2>3 DEF ListInv, AheadOK, rows
    <3> QED
      BY <1>8, <1>13, <1>14, <3>1
  <2> QED
    BY <2>2, <2>3
<1>16. PrefixOK'
  <2> SUFFICES ASSUME unchanged'
               PROVE  /\ matched' = rows
                      /\ listed' = Rows(sorted, 1, offset')
                      /\ pc' = "done" => offset' > Cardinality(matched')
    BY <1>8 DEF PrefixOK
  <2>1. /\ matched' = rows
        /\ listed = Rows(sorted, 1, offset)
    <3>1. CASE offset = 0
      <4>1. listed = <<>>
        BY <3>1 DEF ListInv, FreshOK
      <4>2. Rows(sorted, 1, 0) = <<>>
        BY <1>5, SubSeqEmpty DEF Rows
      <4> QED
        BY <1>1, <3>1, <4>1, <4>2
    <3>2. CASE offset # 0
      BY <1>1, <3>2 DEF ListInv, PrefixOK, rows, sorted
    <3> QED
      BY <3>1, <3>2
  <2>2. listed' = Rows(sorted, 1, offset + limit)
    BY <1>1, <1>2, <1>3, <1>5, <1>6, <2>1, PageContinues
  <2>3. pc' = "done" => offset + limit > n
    BY <1>1, <1>2, <1>3, <1>5, <1>7
  <2> QED
    BY <1>1, <2>1, <2>2, <2>3 DEF n
<1> QED
  BY <1>9, <1>11, <1>12, <1>15, <1>16 DEF ListInv

-----------------------------------------------------------------------------
(* Writes.                                                                 *)

\* Every write leaves the rows that are there, except that an open run may
\* be closed.
RunsGrow ==
  \A r \in DOMAIN runs :
    /\ r \in DOMAIN runs' /\ runs'[r].startedAt = runs[r].startedAt
    /\ runs[r].outcome # "" => runs'[r].outcome = runs[r].outcome

FindingsGrow ==
  \A f \in DOMAIN findings : f \in DOMAIN findings' /\ findings'[f] = findings[f]

ClosuresGrow ==
  \A f \in DOMAIN closures : f \in DOMAIN closures' /\ closures'[f] = closures[f]

LedgerGrows == RunsGrow /\ FindingsGrow /\ ClosuresGrow

LEMMA StartRunGrows ==
  ASSUME LedgerTyped, NEW r \in RunID, StartRun(r)
  PROVE  LedgerGrows /\ LedgerTyped'
<1>1. PICK t \in Time : runs' = Put(runs, r, [startedAt |-> t, outcome |-> ""])
  BY DEF StartRun
<1>2. r \notin DOMAIN runs /\ UNCHANGED <<findings, closures>>
  BY DEF StartRun
<1>3. DOMAIN runs' = DOMAIN runs \cup {r}
  BY <1>1 DEF Put
<1>4. runs'[r] \in Run /\ \A q \in DOMAIN runs : runs'[q] = runs[q]
  BY <1>1, <1>2 DEF Put, Run
<1>5. IsFiniteSet(DOMAIN runs')
  BY <1>3, FS_AddElement DEF LedgerTyped, RunsTyped
<1>6. RunsTyped'
  BY <1>3, <1>4, <1>5 DEF LedgerTyped, RunsTyped
<1> QED
  BY <1>2, <1>3, <1>4, <1>6
  DEF LedgerGrows, RunsGrow, FindingsGrow, ClosuresGrow, LedgerTyped, FindingsTyped, ClosuresTyped

LEMMA CloseRunGrows ==
  ASSUME LedgerTyped, NEW r \in RunID, CloseRun(r)
  PROVE  LedgerGrows /\ LedgerTyped'
<1>1. PICK outcome \in {"success", "failure", "aborted"} :
        runs' = Put(runs, r, [runs[r] EXCEPT !.outcome = outcome])
  BY DEF CloseRun
<1>2. r \in DOMAIN runs /\ runs[r].outcome = "" /\ UNCHANGED <<findings, closures>>
  BY DEF CloseRun
<1>3. DOMAIN runs' = DOMAIN runs
  BY <1>1, <1>2 DEF Put
<1>4. \A q \in DOMAIN runs : q # r => runs'[q] = runs[q]
  BY <1>1 DEF Put
<1>5. runs[r] \in Run /\ runs'[r] = [runs[r] EXCEPT !.outcome = outcome]
  BY <1>1, <1>2 DEF Put, LedgerTyped, RunsTyped
<1>6. runs'[r] \in Run /\ runs'[r].startedAt = runs[r].startedAt
  BY <1>5 DEF Run
<1>7. RunsTyped'
  BY <1>3, <1>4, <1>6 DEF LedgerTyped, RunsTyped
<1> QED
  BY <1>2, <1>3, <1>4, <1>6, <1>7
  DEF LedgerGrows, RunsGrow, FindingsGrow, ClosuresGrow, LedgerTyped, FindingsTyped, ClosuresTyped

LEMMA AddFindingGrows ==
  ASSUME LedgerTyped, NEW f \in FindingID, AddFinding(f)
  PROVE  LedgerGrows /\ LedgerTyped'
<1>1. PICK r \in DOMAIN runs, text \in Texts, t \in Time :
        findings' = Put(findings, f, [origin |-> r, text |-> text, recordedAt |-> t])
  BY DEF AddFinding
<1>2. f \notin DOMAIN findings /\ UNCHANGED <<runs, closures>>
  BY DEF AddFinding
<1>3. DOMAIN findings' = DOMAIN findings \cup {f}
  BY <1>1 DEF Put
<1>4. findings'[f] \in Finding /\ \A g \in DOMAIN findings : findings'[g] = findings[g]
  BY <1>1, <1>2 DEF Put, Finding, LedgerTyped, RunsTyped
<1>5. IsFiniteSet(DOMAIN findings')
  BY <1>3, FS_AddElement DEF LedgerTyped, FindingsTyped
<1>6. FindingsTyped'
  BY <1>3, <1>4, <1>5 DEF LedgerTyped, FindingsTyped
<1> QED
  BY <1>2, <1>3, <1>4, <1>6
  DEF LedgerGrows, RunsGrow, FindingsGrow, ClosuresGrow, LedgerTyped, RunsTyped, ClosuresTyped

LEMMA CloseFindingGrows ==
  ASSUME LedgerTyped, NEW f \in FindingID, CloseFinding(f)
  PROVE  LedgerGrows /\ LedgerTyped'
<1>1. PICK c \in ClosureID, note \in Texts, resolving \in DOMAIN runs \cup {NULL} :
        closures' = Put(closures, f,
          [id |-> c, resolving |-> resolving, note |-> note,
           disposition |-> IF resolving = NULL THEN "dismissed" ELSE "resolved"])
  BY DEF CloseFinding
<1>2. f \notin DOMAIN closures /\ UNCHANGED <<runs, findings>>
  BY DEF CloseFinding
<1>3. DOMAIN closures' = DOMAIN closures \cup {f}
  BY <1>1 DEF Put
<1>4. \A g \in DOMAIN closures : closures'[g] = closures[g]
  BY <1>1, <1>2 DEF Put
<1>5. closures'[f] = [id |-> c, resolving |-> resolving, note |-> note,
                      disposition |-> IF resolving = NULL THEN "dismissed" ELSE "resolved"]
  BY <1>1 DEF Put
<1>6. closures'[f] \in Closure
  <2>1. CASE resolving = NULL
    BY <1>5, <2>1 DEF Closure
  <2>2. CASE resolving # NULL
    <3>1. resolving \in RunID
      BY <2>2 DEF LedgerTyped, RunsTyped
    <3> QED
      BY <1>5, <2>2, <3>1 DEF Closure
  <2> QED
    BY <2>1, <2>2
<1>7. ClosuresTyped'
  BY <1>3, <1>4, <1>6 DEF LedgerTyped, ClosuresTyped
<1> QED
  BY <1>2, <1>3, <1>4, <1>7
  DEF LedgerGrows, RunsGrow, FindingsGrow, ClosuresGrow, LedgerTyped, RunsTyped, FindingsTyped

\* A closed finding is never touched again, so that it goes on matching what
\* it matched, as well as it did.
LEMMA ClosedRowsStay ==
  ASSUME LedgerGrows, options' = options, NEW f \in DOMAIN findings \cap DOMAIN closures
  PROVE  /\ findingState(f)' = findingState(f)
         /\ options.query # NoQuery =>
              match(options.query, f)' = match(options.query, f)
<1>1. /\ f \in DOMAIN closures' /\ closures'[f] = closures[f]
      /\ findings'[f] = findings[f]
  BY DEF LedgerGrows, FindingsGrow, ClosuresGrow
<1>2. findingState(f)' = findingState(f)
  BY <1>1 DEF findingState
<1>3. /\ findingAuthoredValues(f)' = findingAuthoredValues(f)
      /\ findingIdentifierValues(f)' = findingIdentifierValues(f)
  BY <1>1 DEF findingAuthoredValues, findingIdentifierValues
<1>4. \A needle : hits(f, needle)' = hits(f, needle)
  BY <1>3 DEF hits, containsNormalized
<1>5. match(options.query, f)' = match(options.query, f)
  BY <1>4 DEF match
<1> QED
  BY <1>2, <1>5

\* In a settled listing the rows stay, and stay in their order.
LEMMA SettledRowsStay ==
  ASSUME LedgerGrows, options \in Options, options' = options, Settled(options)
  PROVE  /\ \A r \in Matching(options) : r \in Matching(options)'
         /\ \A a, b \in Matching(options) : before(options, a, b) => before(options, a, b)'
<1>1. CASE options.table = "runs"
  <2>1. \A r \in MatchingRuns(options) : r \in MatchingRuns(options)'
    <3> SUFFICES ASSUME NEW r \in MatchingRuns(options)
                 PROVE  r \in MatchingRuns(options)'
      OBVIOUS
    <3>1. /\ r \in DOMAIN runs /\ options.state \in {"", runState(r)}
          /\ options.outcome \in {"", runs[r].outcome}
      BY DEF MatchingRuns
    <3>2. /\ r \in DOMAIN runs'
          /\ runs[r].outcome # "" => runs'[r].outcome = runs[r].outcome
      BY <3>1 DEF LedgerGrows, RunsGrow
    <3>3. options'.state \in {"", runState(r)'}
      BY <3>1, <3>2 DEF runState, Settled
    <3>4. options'.outcome \in {"", runs'[r].outcome}
      BY <3>1, <3>2
    <3> QED
      BY <3>2, <3>3, <3>4 DEF MatchingRuns
  <2>2. \A a, b \in MatchingRuns(options) : runBefore(a, b) => runBefore(a, b)'
    BY DEF MatchingRuns, runBefore, Newer, LedgerGrows, RunsGrow
  <2> QED
    BY <1>1, <2>1, <2>2 DEF Matching, before
<1>2. CASE options.table # "runs"
  <2>1. \A f \in MatchingFindings(options) :
          /\ f \in DOMAIN findings /\ f \in DOMAIN findings'
          /\ findings'[f] = findings[f]
    BY DEF MatchingFindings, LedgerGrows, FindingsGrow
  <2>2. \A f \in MatchingFindings(options) : options.state # "" => f \in DOMAIN closures
    BY DEF MatchingFindings, findingState, Settled
  <2>3. CASE options.query = NoQuery
    <3>1. \A f \in MatchingFindings(options) : options.state \in {"", findingState(f)'}
      BY <2>1, <2>2, ClosedRowsStay DEF MatchingFindings
    <3>2. \A f \in MatchingFindings(options) : f \in MatchingFindings(options)'
      BY <2>1, <2>3, <3>1 DEF MatchingFindings
    <3>3. \A a, b \in MatchingFindings(options) :
            findingBefore(options, a, b) => findingBefore(options, a, b)'
      BY <2>1, <2>3 DEF findingBefore, Newer
    <3> QED
      BY <1>2, <3>2, <3>3 DEF Matching, before
  <2>4. CASE options.query # NoQuery
    <3>1. \A f \in MatchingFindings(options) :
            /\ findingState(f)' = findingState(f)
            /\ match(options.query, f)' = match(options.query, f)
      BY <2>1, <2>2, <2>4, ClosedRowsStay DEF Settled
    <3>2. \A f \in MatchingFindings(options) : f \in MatchingFindings(options)'
      BY <2>1, <3>1 DEF MatchingFindings, isMatch
    <3>3. \A a, b \in MatchingFindings(options) :
            findingBefore(options, a, b) => findingBefore(options, a, b)'
      <4> SUFFICES ASSUME NEW a \in MatchingFindings(options), NEW b \in MatchingFindings(options),
                          findingBefore(options, a, b)
                   PROVE  findingBefore(options, a, b)'
        OBVIOUS
      <4>1. /\ match(options.query, a)' = match(options.query, a)
            /\ match(options.query, b)' = match(options.query, b)
            /\ findings'[a] = findings[a] /\ findings'[b] = findings[b]
        BY <2>1, <3>1
      <4> QED
        BY <4>1 DEF findingBefore, Newer
    <3> QED
      BY <1>2, <3>2, <3>3 DEF Matching, before
  <2> QED
    BY <2>3, <2>4
<1> QED
  BY <1>1, <1>2

\* Rows may be added before a row, so that its place can only grow.
LEMMA PlacesGrow ==
  ASSUME LedgerGrows, LedgerTyped', options \in Options, options' = options,
         Settled(options), NEW r \in Matching(options), Rank(options, r) >= offset,
         Rank(options, r) \in Nat, offset \in Nat
  PROVE  Rank(options, r)' >= offset
<1>1. Preceding(options, r) \in SUBSET Preceding(options, r)'
  BY SettledRowsStay DEF Preceding
<1>2. Preceding(options, r)' \in SUBSET (DOMAIN runs' \cup DOMAIN findings')
  BY DEF Preceding, Matching, MatchingRuns, MatchingFindings
<1>3. IsFiniteSet(DOMAIN runs' \cup DOMAIN findings')
  BY FS_Union DEF LedgerTyped, RunsTyped, FindingsTyped
<1>4. IsFiniteSet(Preceding(options, r)')
  BY <1>2, <1>3, FS_Subset
<1>5. /\ Cardinality(Preceding(options, r)') \in Nat
      /\ Cardinality(Preceding(options, r)) <= Cardinality(Preceding(options, r)')
  BY <1>1, <1>4, FS_Subset, FS_CardinalityType
<1>6. Rank(options, r)' = Cardinality(Preceding(options, r)')
  BY DEF Rank
<1> QED
  BY <1>5, <1>6 DEF Rank

LEMMA CommitKeeps ==
  ASSUME ListInv, Committed, LedgerGrows, LedgerTyped'
  PROVE  ListInv'
<1>1. pc = "paging" /\ unchanged' = FALSE /\ UNCHANGED walk
  BY DEF Committed
<1>2. /\ options' = options /\ offset' = offset /\ listed' = listed /\ matched' = matched
      /\ pc' = pc
  BY <1>1 DEF walk
<1>3. options \in Options /\ offset \in Nat /\ LedgerTyped
  BY DEF ListInv, WalkTyped
<1>4. WalkTyped'
  BY <1>1, <1>2 DEF ListInv, WalkTyped
<1>5. FreshOK' /\ PrefixOK'
  BY <1>1, <1>2 DEF ListInv, FreshOK, PrefixOK
<1>6. AheadOK'
  <2> SUFFICES ASSUME Settled(options), NEW r \in matched, r \notin ToSet(listed)
               PROVE  r \in Matching(options)' /\ Rank(options, r)' >= offset
    BY <1>1, <1>2 DEF AheadOK, Settled
  <2>1. r \in Matching(options) /\ Rank(options, r) >= offset
    BY DEF ListInv, AheadOK
  <2>2. Rank(options, r) \in Nat
    BY <1>3, <2>1, SortedRows
  <2> QED
    BY <1>2, <1>3, <2>1, <2>2, SettledRowsStay, PlacesGrow
<1> QED
  BY <1>4, <1>5, <1>6 DEF ListInv

-----------------------------------------------------------------------------
(* The invariant and the properties.                                       *)

LEMMA NextStep ==
  ASSUME ListInv, [Next]_vars
  PROVE  ListInv' /\ LedgerGrows
<1>1. LedgerTyped
  BY DEF ListInv
<1>2. UNCHANGED ledger => LedgerGrows
  BY DEF ledger, LedgerGrows, RunsGrow, FindingsGrow, ClosuresGrow
<1>3. CASE UNCHANGED vars
  <2>1. UNCHANGED <<ledger, options>>
    BY <1>3 DEF vars, walk
  <2>2. LedgerGrows /\ LedgerTyped'
    BY <1>1, <1>2, <2>1 DEF LedgerTyped, RunsTyped, FindingsTyped, ClosuresTyped, ledger
  <2>3. /\ Matching(options)' = Matching(options) /\ Sorted(options)' = Sorted(options)
        /\ \A r : Rank(options, r)' = Rank(options, r)
    BY <2>1, ListingDependsOnLedger
  <2>4. WalkTyped' /\ FreshOK'
    BY <1>3 DEF vars, walk, ListInv, WalkTyped, FreshOK
  <2>5. AheadOK' /\ PrefixOK'
    BY <1>3, <2>3 DEF vars, walk, ListInv, AheadOK, PrefixOK, Settled
  <2> QED
    BY <2>2, <2>4, <2>5 DEF ListInv
<1>4. CASE ReadPage
  BY <1>2, <1>4, ReadPageKeeps DEF ReadPage
<1>5. CASE \E r \in RunID : StartRun(r)
  BY <1>1, <1>5, StartRunGrows, CommitKeeps DEF StartRun
<1>6. CASE \E r \in RunID : CloseRun(r)
  BY <1>1, <1>6, CloseRunGrows, CommitKeeps DEF CloseRun
<1>7. CASE \E f \in FindingID : AddFinding(f)
  BY <1>1, <1>7, AddFindingGrows, CommitKeeps DEF AddFinding
<1>8. CASE \E f \in FindingID : CloseFinding(f)
  BY <1>1, <1>8, CloseFindingGrows, CommitKeeps DEF CloseFinding
<1> QED
  BY <1>3, <1>4, <1>5, <1>6, <1>7, <1>8 DEF Next

\* Wherever a walk has got to, the rows it has not listed are ahead of it,
\* and without writes the pages so far are the beginning of the listing.
THEOREM ListInvHolds == Spec => []ListInv
<1>1. Init => ListInv
  BY ListInvInit
<1>2. ListInv /\ [Next]_vars => ListInv'
  BY NextStep
<1> QED
  BY <1>1, <1>2, PTL DEF Spec

\* Paging skips no row in the listings that rows do not leave and in which
\* they do not move up, whoever writes in between.
THEOREM PagingSkipsNothing == Spec => []NothingSkipped
<1>1. ListInv => NothingSkipped
  <2> SUFFICES ASSUME ListInv, pc = "done", Settled(options), NEW r \in matched
               PROVE  r \in ToSet(listed)
    BY DEF NothingSkipped, Settled
  <2> QED
    BY DEF ListInv, AheadOK
<1> QED
  BY <1>1, ListInvHolds, PTL

\* The pages of a ledger nobody writes to are a partition of the matching
\* rows, whatever the limit.
THEOREM PagesArePartition == Spec => []PagesPartition
<1>1. ListInv => PagesPartition
  <2> SUFFICES ASSUME ListInv, pc = "done", unchanged
               PROVE  ToSet(listed) = matched /\ Len(listed) = Cardinality(matched)
    BY DEF PagesPartition
  <2> DEFINE sorted == Sorted(options)
  <2>1. options \in Options /\ offset \in Nat /\ LedgerTyped
    BY DEF ListInv, WalkTyped
  <2>2. /\ matched = Matching(options) /\ listed = Rows(sorted, 1, offset)
        /\ offset > Cardinality(matched)
    BY DEF ListInv, PrefixOK
  <2>3. /\ sorted \in Seq(Nat) /\ sorted \in Seq(matched)
        /\ Len(sorted) = Cardinality(matched) /\ Cardinality(matched) \in Nat
        /\ \A r \in matched : /\ Rank(options, r) \in 0..(Len(sorted) - 1)
                              /\ sorted[Rank(options, r) + 1] = r
    BY <2>1, <2>2, SortedRows
  <2> HIDE DEF sorted
  <2>4. listed = sorted
    <3>1. listed = SubSeq(sorted, 1, Len(sorted))
      BY <2>1, <2>2, <2>3 DEF Rows
    <3> QED
      BY <2>3, <3>1, SubSeqFull
  <2>5. DOMAIN sorted = 1..Len(sorted)
    BY <2>3, LenProperties
  <2>6. ToSet(sorted) \subseteq matched
    BY <2>3, <2>5, ElementOfSeq DEF ToSet
  <2>7. ASSUME NEW r \in matched PROVE r \in ToSet(sorted)
    <3>1. Rank(options, r) + 1 \in DOMAIN sorted /\ sorted[Rank(options, r) + 1] = r
      BY <2>3, <2>5
    <3> QED
      BY <3>1 DEF ToSet
  <2> QED
    BY <2>3, <2>4, <2>6, <2>7
<1> QED
  BY <1>1, ListInvHolds, PTL

LEMMA HitsStay ==
  ASSUME LedgerGrows, options' = options, NEW f \in DOMAIN findings, NEW needle
  PROVE  hits(f, needle) => hits(f, needle)'
<1>1. /\ findings'[f] = findings[f]
      /\ f \in DOMAIN closures => f \in DOMAIN closures' /\ closures'[f] = closures[f]
  BY DEF LedgerGrows, FindingsGrow, ClosuresGrow
<1>2. /\ findingAuthoredValues(f) \subseteq findingAuthoredValues(f)'
      /\ findingIdentifierValues(f) \subseteq findingIdentifierValues(f)'
  BY <1>1 DEF findingAuthoredValues, findingIdentifierValues
<1> QED
  BY <1>2 DEF hits, containsNormalized

\* Nothing that happens to a ledger lowers the relevance of a finding.
THEOREM RelevanceIsKept == Spec => RelevanceNeverFalls
<1> DEFINE score(f) == match(options.query, f)
           Kept == options.query # NoQuery =>
                     \A f \in DOMAIN findings :
                       /\ score(f).exact => score(f)'.exact
                       /\ score(f)'.matchedTerms >= score(f).matchedTerms
<1>1. ListInv /\ [Next]_vars => [Kept]_vars
  <2> SUFFICES ASSUME ListInv, [Next]_vars, UNCHANGED vars => FALSE,
                      options.query # NoQuery, NEW f \in DOMAIN findings
               PROVE  /\ score(f).exact => score(f)'.exact
                      /\ score(f)'.matchedTerms >= score(f).matchedTerms
    OBVIOUS
  <2> DEFINE found == {term \in options.query.terms : hits(f, term)}
  <2>1. LedgerGrows /\ options \in Options
    BY NextStep DEF ListInv, WalkTyped
  <2>2. options' = options
    BY DEF Next, ReadPage, StartRun, CloseRun, AddFinding, CloseFinding, Committed, walk
  <2>3. \A needle : hits(f, needle) => hits(f, needle)'
    BY <2>1, <2>2, HitsStay
  <2>4. IsFiniteSet(options.query.terms)
    BY <2>1, ListingConstants
  <2>5. found \in SUBSET found' /\ found' \in SUBSET options.query.terms
    BY <2>2, <2>3
  <2>6. IsFiniteSet(found')
    BY <2>4, <2>5, FS_Subset
  <2>7. Cardinality(found) <= Cardinality(found')
    BY <2>5, <2>6, FS_Subset
  <2>8. /\ score(f).matchedTerms = Cardinality(found)
        /\ score(f)'.matchedTerms = Cardinality(found')
        /\ score(f).exact = hits(f, options.query.full)
        /\ score(f)'.exact = hits(f, options.query.full)'
    BY <2>2 DEF match
  <2>9. Cardinality(found) \in Nat /\ Cardinality(found') \in Nat
    BY <2>5, <2>6, FS_Subset, FS_CardinalityType
  <2> QED
    BY <2>2, <2>3, <2>7, <2>8, <2>9
<1> QED
  BY <1>1, ListInvHolds, PTL DEF Spec, RelevanceNeverFalls
=============================================================================
