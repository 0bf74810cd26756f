----------------------------- MODULE TurnWatcher -----------------------------
(***************************************************************************)
(* One review turn: Client.Review and the turnWatcher of                   *)
(* internal/appserver/client.go.                                           *)
(*                                                                         *)
(* The reader goroutine hands the watcher one notification after another,  *)
(* in the order the child wrote them, while the reviewing goroutine waits  *)
(* for the answer to review/start, for the turn's end, for the end of its  *)
(* context, or for the end of the connection.  The child is untrusted: it  *)
(* may report on other turns, without a turn, malformed, twice, or never.  *)
(*                                                                         *)
(* A text is its length; a review item, a usage report and the thread and  *)
(* turn ids of an event are members of small sets.                         *)
(***************************************************************************)
EXTENDS Integers, Sequences, FiniteSetsExt

CONSTANTS
  Turns,      \* the turn ids the child uses
  NoTurn,     \* a missing id
  Events,     \* the notifications the child may send
  Responses,  \* its answers to review/start: a turn id, NoTurn or Refused
  Refused, NoResponse,
  MaxText,    \* maxCollectedText
  MaxEvents   \* bound on the notifications of a run

Kinds == {"started", "delta", "message", "review", "usage", "completed", "failed"}

Reports == [kind : Kinds, turn : Turns \cup {NoTurn}, val : Nat]

ASSUME TurnAssumption ==
  /\ NoTurn \notin Turns
  /\ Events \subseteq Reports
  /\ Responses \subseteq Turns \cup {NoTurn, Refused}
  /\ Refused \notin Turns \cup {NoTurn}
  /\ NoResponse \notin Turns \cup {NoTurn, Refused}
  /\ MaxText \in Nat
  /\ MaxEvents \in Nat

VARIABLES
  watcher,  \* what the watcher has accumulated
  log,      \* every notification dispatched, and setTurn, in order
  resp,     \* the answer to review/start, in its channel
  closed,   \* the connection has ended
  live,     \* the caller's context has not
  pc,       \* where Review is
  final,    \* its snapshot of the watcher
  outcome   \* what it returned

vars == <<watcher, log, resp, closed, live, pc, final, outcome>>

-----------------------------------------------------------------------------
(* The watcher.                                                            *)

Watchers == [turn : Turns \cup {NoTurn}, review : Nat, messages : 0 .. MaxText,
             deltas : 0 .. MaxText, overflow : BOOLEAN, status : {"", "completed", "failed"}, usage : Nat,
             done : Nat]

(* done counts how often the channel has been closed; 0 stands for no      *)
(* text, no usage and no turn.                                             *)
NewWatcher == [turn |-> NoTurn, review |-> 0, messages |-> 0, deltas |-> 0,
               overflow |-> FALSE, status |-> "", usage |-> 0, done |-> 0]

Finished(w) == w.done > 0

SetTurn(w, t) == IF w.turn = NoTurn THEN [w EXCEPT !.turn = t] ELSE w

(* Fail-closed: the turn is established, and the event names it.           *)
Matches(w, e) == w.turn # NoTurn /\ e.turn = w.turn

(* What parts one message from the next: two line ends.                    *)
Separator == 2

FitsText(n, more) == n + more <= MaxText

(* append: a piece is collected whole or not at all, and none after one    *)
(* that was not.                                                           *)
Collect(w, text, more) ==
  IF w.overflow THEN w
  ELSE IF FitsText(w[text], more) THEN [w EXCEPT ![text] = @ + more] ELSE [w EXCEPT !.overflow = TRUE]

(* The separator is a piece of its own, before each message but the first. *)
Separated(w) == IF w.messages = 0 THEN w ELSE Collect(w, "messages", Separator)

IgnoresNothing(w, e) == FALSE

(* After the turn's end only usage is still accepted.                      *)
Ignores(w, e) == Finished(w) /\ e.kind # "usage"

(* A malformed report (0) leaves the last valid one standing.              *)
UsageOf(w, e) == IF e.val = 0 THEN w ELSE [w EXCEPT !.usage = e.val]

Ended(w, e) ==
  [w EXCEPT !.status = e.kind,
            !.review = IF w.review = 0 THEN e.val ELSE w.review,
            !.done = @ + 1]

(* What a report of the turn adds.                                         *)
Accept(w, e) ==
  CASE e.kind = "review" -> [w EXCEPT !.review = e.val]
    [] e.kind = "usage" -> UsageOf(w, e)
    [] e.kind \in {"completed", "failed"} -> Ended(w, e)
    [] e.kind = "message" -> Collect(Separated(w), "messages", e.val)
    [] e.kind = "delta" -> Collect(w, "deltas", e.val)

Handle(w, e) ==
  IF Ignores(w, e) THEN w
  ELSE IF e.kind = "started" THEN SetTurn(w, e.turn)
  ELSE IF Matches(w, e) THEN Accept(w, e) ELSE w

-----------------------------------------------------------------------------
(* The reader goroutine.                                                   *)

Dispatch ==
  /\ ~ closed
  /\ Len(log) < MaxEvents
  /\ \E e \in Events :
       /\ watcher' = Handle(watcher, e)
       /\ log' = Append(log, e)
  /\ UNCHANGED <<resp, closed, live, pc, final, outcome>>

Respond ==
  /\ ~ closed
  /\ resp = NoResponse
  /\ resp' \in Responses
  /\ UNCHANGED <<watcher, log, closed, live, pc, final, outcome>>

(* Every notification has been dispatched when the connection ends.        *)
Close ==
  /\ ~ closed
  /\ closed' = TRUE
  /\ UNCHANGED <<watcher, log, resp, live, pc, final, outcome>>

ContextEnds ==
  /\ live
  /\ live' = FALSE
  /\ UNCHANGED <<watcher, log, resp, closed, pc, final, outcome>>

-----------------------------------------------------------------------------
(* Review.                                                                 *)

Goto(step) == pc' = step /\ UNCHANGED outcome

Return(kind) ==
  /\ pc' = "returned"
  /\ outcome' = [kind |-> kind, text |-> 0, usage |-> 0]

(* The answer is taken from its channel, and the turn it names recorded;   *)
(* one with another turn than turn/started named is an error.              *)
StartAnswered ==
  /\ pc = "start"
  /\ resp \in Turns
  /\ watcher' = SetTurn(watcher, resp)
  /\ log' = Append(log, [kind |-> "started", turn |-> resp, val |-> 0])
  /\ IF watcher'.turn = resp THEN Goto("await") ELSE Return("error")
  /\ UNCHANGED <<resp, closed, live, final>>

(* An answer without a turn, or for a review of another thread.            *)
StartRejected ==
  /\ pc = "start"
  /\ resp = NoTurn
  /\ Return("error")
  /\ UNCHANGED <<watcher, log, resp, closed, live, final>>

(* review/start was refused, or the select took the end of the context or  *)
(* of the connection.  A turn that is known to run is stopped.             *)
StartFails ==
  /\ pc = "start"
  /\ \E kind \in (IF closed THEN {"closed"} ELSE {})
                  \cup (IF resp = Refused \/ ~ live THEN {"error"} ELSE {}) :
       IF ~ live /\ watcher.turn # NoTurn THEN Goto("interrupt") ELSE Return(kind)
  /\ UNCHANGED <<watcher, log, resp, closed, live, final>>

CallerGoneUnheard == FALSE

CallerGone == ~ live

(* awaitTurn: select takes any channel that is ready.                      *)
AwaitSelects ==
  /\ pc = "await"
  /\ \/ Finished(watcher) /\ Goto("final")
     \/ closed /\ Goto("closed?")
     \/ CallerGone /\ Goto("cancelled?")
  /\ UNCHANGED <<watcher, log, resp, closed, live, final>>

FinishedUnnoticed == FALSE

FinishedMeanwhile == Finished(watcher)

(* The second look at done.                                                *)
AwaitRechecks ==
  /\ pc \in {"closed?", "cancelled?"}
  /\ IF FinishedMeanwhile
     THEN Goto("final")
     ELSE IF pc = "closed?" THEN Return("closed") ELSE Goto("interrupt")
  /\ UNCHANGED <<watcher, log, resp, closed, live, final>>

(* interrupt returns at the latest when its own grace is over.             *)
InterruptEnds ==
  /\ pc = "interrupt"
  /\ Return("cancelled")
  /\ UNCHANGED <<watcher, log, resp, closed, live, final>>

SnapshotFinal ==
  /\ pc = "final"
  /\ final' = watcher
  /\ Goto(IF final'.status = "completed" THEN "usageGrace" ELSE "answer")
  /\ UNCHANGED <<watcher, log, resp, closed, live>>

NoLaterSnapshot == UNCHANGED final

LaterSnapshot == final' = watcher

(* The whole window is waited out, so that a trailing report counts.       *)
UsageGrace ==
  /\ pc = "usageGrace"
  /\ LaterSnapshot
  /\ Goto("answer")
  /\ UNCHANGED <<watcher, log, resp, closed, live>>

TextPastOverflow(w) ==
  IF w.review # 0 THEN w.review ELSE IF w.messages # 0 THEN w.messages ELSE w.deltas

(* The review item, else the messages, else the deltas; 0 when there is    *)
(* none, or an aggregate that may be a part only.                          *)
Text(w) ==
  IF w.review # 0 THEN w.review
  ELSE IF w.overflow THEN 0 ELSE IF w.messages # 0 THEN w.messages ELSE w.deltas

Answer ==
  /\ pc = "answer"
  /\ pc' = "returned"
  /\ outcome' =
       IF final.status = "completed" /\ Text(final) # 0
       THEN [kind |-> "review", text |-> Text(final), usage |-> final.usage]
       ELSE [kind |-> "failed", text |-> 0, usage |-> 0]
  /\ UNCHANGED <<watcher, log, resp, closed, live, final>>

ReviewStep ==
  \/ StartAnswered \/ StartRejected \/ StartFails \/ AwaitSelects
  \/ AwaitRechecks \/ InterruptEnds \/ SnapshotFinal \/ UsageGrace \/ Answer

-----------------------------------------------------------------------------

Init ==
  /\ watcher = NewWatcher
  /\ log = << >>
  /\ resp = NoResponse
  /\ closed = FALSE
  /\ live = TRUE
  /\ pc = "start"
  /\ final = NewWatcher
  /\ outcome = [kind |-> "none", text |-> 0, usage |-> 0]

Next == Dispatch \/ Respond \/ Close \/ ContextEnds \/ ReviewStep

Spec == Init /\ [][Next]_vars

(* Review is scheduled and its two grace timers fire.                      *)
FairSpec == Spec /\ WF_vars(ReviewStep)

-----------------------------------------------------------------------------
(* What the child said of the turn, read off the log.                      *)

Establishing == {i \in DOMAIN log : log[i].kind = "started" /\ log[i].turn # NoTurn}

(* The notifications of the established turn, after it was established.    *)
Own ==
  IF Establishing = {} THEN {}
  ELSE LET e == Min(Establishing)
       IN  {i \in DOMAIN log : i > e /\ log[i].turn = log[e].turn /\ log[i].kind # "started"}

Ends == {i \in Own : log[i].kind \in {"completed", "failed"}}

(* Those up to its first end.                                              *)
Body == IF Ends = {} THEN Own ELSE {i \in Own : i <= Min(Ends)}

BodyOf(kind) == {i \in Body : log[i].kind = kind}

LastOf(S) == IF S = {} THEN 0 ELSE log[Max(S)].val

(* The bytes of the reports S, each with its place in the log.             *)
Bytes(S) == UNION {{i} \X (1 .. log[i].val) : i \in S}

Total(S) == Cardinality(Bytes(S))

(* Those that follow one of S with a text.                                 *)
Followers(S) == {i \in S : \E j \in S : j < i /\ log[j].val # 0}

Joined(S) == Total(S) + Separator * Cardinality(Followers(S))

SaidReview ==
  IF LastOf(BodyOf("review")) # 0 THEN LastOf(BodyOf("review")) ELSE LastOf(Ends \cap Body)

SaidText ==
  IF SaidReview # 0 THEN SaidReview
  ELSE IF Joined(BodyOf("message")) # 0 THEN Joined(BodyOf("message")) ELSE Total(BodyOf("delta"))

SaidUsage == LastOf({i \in Own : log[i].kind = "usage" /\ log[i].val # 0})

-----------------------------------------------------------------------------
(* Properties.                                                             *)

TypeOK ==
  /\ watcher \in Watchers
  /\ final \in Watchers
  /\ log \in Seq(Reports)
  /\ resp \in Responses \cup {NoResponse}
  /\ closed \in BOOLEAN
  /\ live \in BOOLEAN
  /\ pc \in {"start", "await", "closed?", "cancelled?", "interrupt", "final", "usageGrace",
             "answer", "returned"}
  /\ outcome.kind \in {"none", "review", "failed", "cancelled", "closed", "error"}
  /\ outcome.text \in 0 .. MaxText \cup {e.val : e \in Events}

(* The review text is what the child said of this turn and up to its end,  *)
(* whole, its messages parted: never another turn's, never revised after   *)
(* the end, and never an aggregate cut short, be it by the separator only  *)
(* (client.go, handle, append and text).                                   *)
TextIsTheTurns == outcome.kind = "review" => outcome.text = SaidText

(* The usage of the answer is the last valid report of the turn among      *)
(* those dispatched when the grace window ended; a malformed report or one *)
(* of another turn never replaces it.                                      *)
UsageIsTheTurns ==
  [][pc = "usageGrace" /\ pc' = "answer" => final'.usage = SaidUsage]_vars

(* The done channel is closed once: a second end of the turn, which would  *)
(* close it again and panic the server, is ignored.                        *)
DoneClosedOnce == watcher.done <= 1

(* "A finished turn has priority": once Review waits for a turn, one that  *)
(* has completed with a text is returned as a review, whatever ends with   *)
(* it, after it or while Review looks (client.go, awaitTurn and text).     *)
CompletedTurnReturned ==
  (/\ pc \in {"await", "closed?", "cancelled?"}
   /\ Finished(watcher)
   /\ watcher.status = "completed"
   /\ Text(watcher) # 0) ~> outcome.kind = "review"

(* Review returns once the connection or its context has ended, and when   *)
(* the turn it waits for has (client.go, awaitTurn and interrupt).         *)
ReviewReturns ==
  (closed \/ ~ live \/ (pc = "await" /\ Finished(watcher))) ~> pc = "returned"
=============================================================================
