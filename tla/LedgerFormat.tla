---------------------------- MODULE LedgerFormat ----------------------------
(***************************************************************************)
(* What opening a ledger promises about what the ledger holds, whatever    *)
(* journals, copies, locks, retries and interruptions do it: the schema    *)
(* only moves forward and in one step, the identity mark is only ever      *)
(* added, recorded rows stay, and a database that is not a Motus ledger    *)
(* never changes.                                                          *)
(***************************************************************************)
EXTENDS Naturals

CONSTANT MaxRecords     \* bound: records a ledger may hold

VARIABLE content        \* [schema, id, recs] as a reader would find it

TypeOK ==
    content \in [schema : {"empty", "v1", "v2", "alien"},
                 id : {"none", "motus", "other"}, recs : 0..MaxRecords]

Ours == content.schema # "alien" /\ content.id # "other"

\* The first writable open gives an empty database the current schema.
Create ==
    /\ Ours
    /\ content.schema = "empty"
    /\ content' = [content EXCEPT !.schema = "v2", !.id = "motus"]

\* A legacy ledger becomes a current one, marked in the same transaction.
Migrate ==
    /\ Ours
    /\ content.schema = "v1"
    /\ content' = [content EXCEPT !.schema = "v2", !.id = "motus"]

\* A ledger made by an older version gets the application identity.
Mark ==
    /\ content.id = "none"
    /\ content.schema # "alien"
    /\ content' = [content EXCEPT !.id = "motus"]

\* A process commits one more record.
Record ==
    /\ Ours
    /\ content.schema \in {"v1", "v2"}
    /\ content.recs < MaxRecords
    /\ content' = [content EXCEPT !.recs = @ + 1]

Next == Create \/ Migrate \/ Mark \/ Record

Spec == TypeOK /\ [][Next]_content
=============================================================================
