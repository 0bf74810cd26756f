------------------------------ MODULE Warnings --------------------------------
(***************************************************************************)
(* The bounded list of bridge-level warnings: conn.recordWarning and       *)
(* conn.takeWarnings of internal/appserver/conn.go, AppendWarning of       *)
(* client.go.  The connection counts what does not fit, and one entry      *)
(* outside the bounds reports the count.                                   *)
(*                                                                         *)
(* A warning is what it is about and its size.                             *)
(***************************************************************************)
EXTENDS Naturals, Sequences

CONSTANTS
  MaxWarnings,     \* maxWarnings
  MaxWarningBytes, \* maxWarningBytes
  MarkerBytes      \* the size of the entry that reports a count

ASSUME WarningsAssumption == {MaxWarnings, MaxWarningBytes, MarkerBytes} \subseteq Nat

NoWarnings == [list |-> << >>, bytes |-> 0, omitted |-> 0]

RecordWarningSilently(held, w) ==
  IF Len(held.list) >= MaxWarnings \/ held.bytes + w.size > MaxWarningBytes
  THEN held
  ELSE [held EXCEPT !.list = Append(@, w), !.bytes = @ + w.size]

RecordWarning(held, w) ==
  IF Len(held.list) >= MaxWarnings \/ held.bytes + w.size > MaxWarningBytes
  THEN [held EXCEPT !.omitted = @ + 1]
  ELSE [held EXCEPT !.list = Append(@, w), !.bytes = @ + w.size]

Marker(n) == [about |-> "omitted", size |-> MarkerBytes, count |-> n]

TakeWarnings(held) ==
  IF held.omitted = 0 THEN held.list ELSE Append(held.list, Marker(held.omitted))

TotalBytes(list) ==
  LET total[n \in 0 .. Len(list)] == IF n = 0 THEN 0 ELSE total[n - 1] + list[n].size
  IN total[Len(list)]

(* A completed review's list; here nothing counts what does not fit.       *)
AppendWarning(list, w) ==
  IF Len(list) >= MaxWarnings \/ TotalBytes(list) + w.size > MaxWarningBytes
  THEN list
  ELSE Append(list, w)
=============================================================================
