---------------------------- MODULE MCTurnWatcher ----------------------------
(* Instances of TurnWatcher for TLC: the turn under review, and another of *)
(* the same thread.                                                        *)
EXTENDS TurnWatcher

CONSTANTS mine, other

Event(kinds, turns, vals) == [kind : kinds, turn : turns, val : vals]

(* With a limit of 4, two messages of 1 fit with the separator between     *)
(* them; after one of 3 the separator alone is too long, and after one of  *)
(* 1 a message of 3 is.  Review items and the items of a completed turn    *)
(* have lengths no sum of pieces reaches; the other turn speaks too.       *)
TextEvents ==
       Event({"started"}, {mine, other}, {0})
  \cup Event({"message"}, {mine}, {0, 1, 3})
  \cup Event({"delta"}, {mine}, {2})
  \cup Event({"review"}, {mine}, {0, 5})
  \cup Event({"completed"}, {mine}, {0, 6})
  \cup Event({"message", "completed"}, {other}, {1})

EndEvents ==
       Event({"started"}, {mine, other}, {0})
  \cup Event({"completed"}, {mine, other}, {5})
  \cup Event({"failed"}, {mine}, {0})

(* Usage reports: a malformed one has the value 0.                         *)
UsageAndEndEvents ==
       EndEvents
  \cup Event({"usage"}, {mine}, {0, 1, 2})
  \cup Event({"usage"}, {other, NoTurn}, {3})
=============================================================================
