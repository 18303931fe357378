--------------------------- MODULE LedgerPromise ---------------------------
(***************************************************************************)
(* What the store promises its callers (ARCHITECTURE.md, "Store"): a run   *)
(* is recorded, then closed once; a finding is attached to a closed        *)
(* run, then closed once, by a successful run if it is resolved.  Every    *)
(* step is one indivisible change; there are no transactions, locks,       *)
(* retries, processes or rows here.                                        *)
(***************************************************************************)
CONSTANTS
  Run, Finding,  \* identifiers
  Start, Close,  \* start and terminal metadata
  Content,       \* what findings and closures say
  EndsBefore(_, _),  \* EndsBefore(close, start): ended_at precedes started_at
  IsSuccess(_)       \* IsSuccess(close): the outcome is success

VARIABLES
  started,   \* started[r]: how run r began
  ended,     \* ended[r]: how it ended
  reported,  \* reported[f]: the closed run and content of a finding
  settled    \* settled[f]: the resolving runs and content of its closure

promised == <<started, ended, reported, settled>>

With(f, key, value) ==
  [k \in DOMAIN f \cup {key} |-> IF k = key THEN value ELSE f[k]]

Promise ==
  /\ DOMAIN ended \subseteq DOMAIN started
  /\ \A r \in DOMAIN ended : ~ EndsBefore(ended[r], started[r])
  /\ \A f \in DOMAIN reported : reported[f].origin \in DOMAIN ended
  /\ DOMAIN settled \subseteq DOMAIN reported
  /\ \A f \in DOMAIN settled : \A r \in settled[f].resolving :
       r \in DOMAIN ended /\ IsSuccess(ended[r])

Init ==
  /\ \E runs \in SUBSET Run : started \in [runs -> Start]
  /\ \E runs \in SUBSET Run : ended \in [runs -> Close]
  /\ \E fs \in SUBSET Finding : reported \in [fs -> [origin : Run, content : Content]]
  /\ \E fs \in SUBSET Finding :
       settled \in [fs -> [resolving : SUBSET Run, content : Content]]
  /\ Promise

BeginRun(r, s) ==
  /\ r \notin DOMAIN started
  /\ started' = With(started, r, s)
  /\ UNCHANGED <<ended, reported, settled>>

\* Close may be infinite, so the step is told by the value it records.
EndRun(r) ==
  /\ r \in DOMAIN started \ DOMAIN ended
  /\ r \in DOMAIN ended'
  /\ ended'[r] \in Close /\ ~ EndsBefore(ended'[r], started[r])
  /\ ended' = With(ended, r, ended'[r])
  /\ UNCHANGED <<started, reported, settled>>

Report(f, r, content) ==
  /\ f \notin DOMAIN reported
  /\ r \in DOMAIN ended
  /\ reported' = With(reported, f, [origin |-> r, content |-> content])
  /\ UNCHANGED <<started, ended, settled>>

\* Dismissed findings have no resolving run.
Settle(f, runs, content) ==
  /\ f \in DOMAIN reported \ DOMAIN settled
  /\ \A r \in runs : r \in DOMAIN ended /\ IsSuccess(ended[r])
  /\ settled' = With(settled, f, [resolving |-> runs, content |-> content])
  /\ UNCHANGED <<started, ended, reported>>

Next ==
  \/ \E r \in Run, s \in Start : BeginRun(r, s)
  \/ \E r \in Run : EndRun(r)
  \/ \E f \in Finding, r \in Run, content \in Content : Report(f, r, content)
  \/ \E f \in Finding, runs \in SUBSET Run, content \in Content :
       Settle(f, runs, content)

Spec == Init /\ [][Next]_promised
=============================================================================
