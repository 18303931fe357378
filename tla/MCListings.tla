----------------------------- MODULE MCListings -----------------------------
(***************************************************************************)
(* Two instances of Listings: findings of one successful run, of which two *)
(* are there when the listing begins and a third may come, and three runs. *)
(* The query "q" has the terms "a" and "b"; the query "id" is an           *)
(* identifier, that of finding 2 and of closure 1; "b" occurs in the name  *)
(* of the run too, but is no identifier, so it must not be found there.    *)
(***************************************************************************)
EXTENDS Listings, TLC

MCNeedle == {"q", "a", "b", "id"}
MCSpecific == {"id"}
MCTexts == {{}, {"a"}, {"q", "a", "b"}}

MCNameOf(kind, id) ==
  CASE kind = "finding" /\ id = 2 -> {"id"}
    [] kind = "closure" /\ id = 1 -> {"id"}
    [] kind = "run" -> {"b"}
    [] OTHER -> {}

Queries == {NoQuery, [full |-> "q", terms |-> {"a", "b"}],
            [full |-> "id", terms |-> {"id"}]}

MCFindingOptions ==
  [table : {"findings"}, state : {"", "open", "resolved"},
   query : Queries, limit : {1, 2}]

MCRunOptions ==
  [table : {"runs"}, state : {"", "open", "closed"},
   outcome : {"", "success"}, query : {NoQuery}, limit : {0, 1, 2}]

NoFindings == [f \in {} |-> f]

MCFindingLedgers ==
  {[runs |-> 1 :> [startedAt |-> 1, outcome |-> "success"],
    findings |-> 1 :> [origin |-> 1, text |-> {"a"}, recordedAt |-> 2]
              @@ 2 :> [origin |-> 1, text |-> text, recordedAt |-> 1],
    closures |-> closed] :
     text \in {{}, {"q", "a", "b"}},
     closed \in {NoFindings,
                   1 :> [id |-> 2, disposition |-> "resolved",
                         resolving |-> 1, note |-> {}]}}

MCRunLedgers ==
  {[runs |-> 1 :> [startedAt |-> first, outcome |-> ""]
          @@ 2 :> [startedAt |-> 1, outcome |-> how],
    findings |-> NoFindings, closures |-> NoFindings] :
     first \in Time, how \in {"", "success"}}

MCOptions == MCFindingOptions \cup MCRunOptions
MCLedgers == MCFindingLedgers \cup MCRunLedgers

\* What happens to rows the listing does not look at is left out: while runs
\* are listed nobody adds findings, while findings are nobody starts a run.
Suited ==
  IF options.table = "runs" THEN findings = NoFindings ELSE DOMAIN runs = {1}

ListingInit == Init /\ Suited

ListingSpec == ListingInit /\ [][Next /\ Suited']_vars
=============================================================================
