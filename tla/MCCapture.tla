----------------------------- MODULE MCCapture -----------------------------
(***************************************************************************)
(* capture.Run with one descendant and every end of the child, the context *)
(* and the destinations, with either controller: the one of Unix with two  *)
(* chunks on one stream, the one of Windows with one chunk on each.        *)
(***************************************************************************)
EXTENDS WindowsCapture

Unix == setup = "unix"

RunInit ==
  /\ CaptureInit
  /\ setup \in {"unix", "none"}
  /\ members = {}
  /\ thread = "none" /\ job = "none"

Chunks(out, err) == written'["stdout"] <= out /\ written'["stderr"] <= err

UnixNext == Unix /\ CaptureNext /\ UNCHANGED windows /\ Chunks(2, 1)

WindowsNext == ~ Unix /\ WinNext /\ Chunks(1, 1)

\* As in FairCapture and FairWin.
RunSpec ==
  /\ RunInit /\ [][UnixNext \/ WindowsNext]_winVars
  /\ \A s \in Stream : WF_winVars(WinCopy(s))
  /\ WF_winVars(WinWait)
  /\ WF_winVars(Unix /\ Supervisor /\ UNCHANGED windows)
  /\ WF_winVars(~ Unix /\ WinSupervisor)
============================================================================
