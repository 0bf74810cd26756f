------------------------------ MODULE McpServer -------------------------------
(***************************************************************************)
(* internal/mcpserver: the bounded line reader on stdin, one review call   *)
(* it lets through, and the watcher of that call.  The MCP SDK between     *)
(* them is not part of this repository; of it only this matters: a request *)
(* line that was read whole starts the handler, and the end of the input   *)
(* cancels the handler's context.                                          *)
(***************************************************************************)
EXTENDS LineReader, CallWatch

vars == <<lineVars, watchVars>>

Init == LineInit /\ WatchInit

(* A call was given to the SDK whole.                                      *)
Received ==
  \E i \in 1 .. at : written[i].holds = "call" /\ <<i, Size(written[i])>> \in ToSet(served)

CallRequested == Received /\ CallArrives /\ UNCHANGED lineVars

SessionEnds ==
  /\ failed # "no"
  /\ LifecycleEnds
  /\ UNCHANGED lineVars

Next ==
  \/ LineNext /\ UNCHANGED watchVars
  \/ WatchNext /\ UNCHANGED lineVars
  \/ CallRequested \/ SessionEnds

Spec == Init /\ [][Next]_vars

TypeOK == LineTypeOK /\ WatchTypeOK
=============================================================================
