---------------------------- MODULE MCLedgerOpen ----------------------------
(* Instances of LedgerOpen: what may lie on the disk when it begins. *)
EXTENDS LedgerOpen, TLC

Img(mode, schema, id) == [mode |-> mode, schema |-> schema, id |-> id, recs |-> 0]
Clean(img) == [file |-> Whole(img), journal |-> None, wal |-> None]

\* A process died while it turned before into after.
Interrupted(before, shown, after) ==
    [file |-> [img |-> shown, torn |-> [before |-> before, after |-> after, nonce |-> 1]],
     journal |-> before, wal |-> None]

\* The older version died with frames in its WAL.
Framed(base, img) ==
    [file |-> Whole(base), journal |-> None, wal |-> [base |-> base, img |-> img]]

More(img) == [img EXCEPT !.recs = 1]

\* Rollback-journal ledgers: none yet, a legacy one, one without the mark, and
\* what a killed first open, migration or write left, or an older version killed
\* while it turned the ledger to WAL; a foreign database with and without an
\* interrupted write.
RollbackStarts ==
    LET blank == Img("delete", "blank", "none")
        v1 == Img("delete", "v1", "none")
        v2 == Img("delete", "v2", "motus")
        alien == Img("delete", "alien", "none")
    IN {Clean(Img("delete", "absent", "none")), Clean(v1),
        Clean(Img("delete", "v2", "none")),
        Interrupted(blank, v2, v2), Interrupted(v1, v1, v2),
        Interrupted(v2, v2, More(v2)),
        Interrupted(v1, Img("wal", "v1", "none"), Img("wal", "v1", "none")),
        Clean(alien), Clean(Img("delete", "v1", "other")),
        Interrupted(alien, alien, More(alien))}

\* WAL ledgers: legacy and current, with frames, or marked because a current
\* version had migrated it before; foreign ones.
WALStarts ==
    LET v1 == Img("wal", "v1", "none")
        v2 == Img("wal", "v2", "none")
        alien == Img("wal", "alien", "none")
    IN {Framed(v1, More(v1)), Framed(Img("wal", "empty", "none"), v2),
        Clean(Img("wal", "v2", "motus")),
        Framed(alien, More(alien)), Clean(Img("wal", "v2", "other"))}

\* A ledger of the current schema, never marked, in WAL mode.
UnmarkedStarts == {Clean(Img("wal", "v2", "none"))}

\* WAL ledgers that nobody has written a record to: empty or legacy.
FirstStarts == {Clean(Img("wal", "empty", "none")), Clean(Img("wal", "v1", "none"))}

AllStarts == RollbackStarts \cup WALStarts \cup FirstStarts

\* A ledger that begins in WAL mode may meet the older version, and one that
\* does not meets readers; or there is one open at a time with nothing left
\* out: the older version comes and goes around every step of it, and writes
\* the first record.
VARIABLE begun

Suited ==
    CASE begun = "wal" -> \A p \in Proc : me[p].stage \in {"none", "create"}
      [] begun = "delete" -> "older" \notin walUsers
      [] begun = "alone" -> Cardinality({p \in Proc : me[p].pc # "idle"}) <= 1

OpenInit ==
    /\ Init
    /\ \/ begun = "alone"
       \/ /\ [file |-> file, journal |-> journal, wal |-> wal] \notin FirstStarts
          /\ begun = IF file.img.mode = "wal" /\ journal = None THEN "wal" ELSE "delete"

OpenSpec == OpenInit /\ [][Next /\ UNCHANGED begun /\ Suited']_<<vars, begun>>

Symmetry == Permutations(Proc)
=============================================================================
