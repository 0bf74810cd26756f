--------------------------- MODULE ReviewRegistry ---------------------------
(***************************************************************************)
(* What the review tool promises its callers, without locks, files,        *)
(* children or Git: one register per workflow that holds the newest        *)
(* completed round, and calls that each take effect at one instant between *)
(* their submission and their answer, or not at all.                       *)
(*                                                                         *)
(* This is the specification docs/SPEC.md gives of a call's result (the    *)
(* round it records, the thread it keeps, the replay of a completed        *)
(* request); ReviewService.tla is shown to implement it.                   *)
(***************************************************************************)
EXTENDS Naturals

CONSTANTS
  Calls,        \* the concurrent callers
  Workflows,    \* repository-and-branch workflows
  Requests,     \* request hashes: commit, base, notes and build flag
  Threads,      \* Codex thread ids
  ReviewSizes,  \* the review texts, by length
  NoWorkflow    \* no round was ever completed

VARIABLES
  latest,       \* the newest completed round of each workflow
  call          \* what each caller has asked for and been told

vars == <<latest, call>>

Idle          == [phase |-> "idle"]
Failed        == [phase |-> "failed"]
Pending(w, q) == [phase |-> "pending", workflow |-> w, hash |-> q]
Answer(kind, round) == [phase |-> kind, result |-> round]

RoundOf(r) == IF r = NoWorkflow THEN 0 ELSE r.round

Init ==
  /\ latest = [w \in Workflows |-> NoWorkflow]
  /\ call = [c \in Calls |-> Idle]

Submit(c, w, q) ==
  /\ call[c] = Idle
  /\ call' = [call EXCEPT ![c] = Pending(w, q)]
  /\ UNCHANGED latest

(* A new round: the next number, on the workflow's own thread, for a       *)
(* request other than the one the newest round answered.                   *)
Complete(c, w, q) ==
  /\ call[c] = Pending(w, q)
  /\ \E new \in [thread : Threads, hash : {q}, round : {RoundOf(latest[w]) + 1},
                 review : ReviewSizes] :
       /\ IF latest[w] = NoWorkflow
          THEN \A v \in Workflows :
                 latest[v] # NoWorkflow => latest[v].thread # new.thread
          ELSE /\ new.thread = latest[w].thread
               /\ q # latest[w].hash
       /\ latest' = [latest EXCEPT ![w] = new]
       /\ call' = [call EXCEPT ![c] = Answer("review", new)]

(* The request the newest round answered gets that round's answer again.   *)
Replay(c, w, q) ==
  /\ call[c] = Pending(w, q)
  /\ latest[w] # NoWorkflow
  /\ latest[w].hash = q
  /\ call' = [call EXCEPT ![c] = Answer("replay", latest[w])]
  /\ UNCHANGED latest

(* A call may fail before its round is complete, or after it, when the     *)
(* answer is lost; the round stays and a retry replays it.                 *)
Fail(c) ==
  /\ call[c] \notin {Idle, Failed}
  /\ call' = [call EXCEPT ![c] = Failed]
  /\ UNCHANGED latest

(* Calls end: one returns, or a server dies under all of its calls.        *)
End(ended) ==
  /\ \E c \in ended : call[c] # Idle
  /\ call' = [c \in Calls |-> IF c \in ended THEN Idle ELSE call[c]]
  /\ UNCHANGED latest

Next ==
  \/ \E c \in Calls, w \in Workflows, q \in Requests :
       Submit(c, w, q) \/ Complete(c, w, q) \/ Replay(c, w, q)
  \/ \E c \in Calls : Fail(c)
  \/ \E ended \in SUBSET Calls : End(ended)

Spec == Init /\ [][Next]_vars
=============================================================================
