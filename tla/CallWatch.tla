------------------------------ MODULE CallWatch -------------------------------
(***************************************************************************)
(* One review call toward the MCP client: the tool handler and watchCall   *)
(* of internal/mcpserver/server.go, on a machine that may sleep.           *)
(*                                                                         *)
(* Two clocks disagree across a sleep.  The wall clock, which the client's *)
(* idle timeout and the watcher's readings use, counts a sleep in full;    *)
(* the ticker, a Go timer, runs on awake time only.  The client may look   *)
(* at its idle timer at any moment, and gives up once it heard nothing for *)
(* Idle; giving up cancels nothing.                                        *)
(***************************************************************************)
EXTENDS Integers

CONSTANTS
  Interval,  \* HeartbeatInterval
  Idle,      \* ClientIdleTimeout
  Late,      \* the awake time the watcher may take for its start, and for
             \* a tick and its heartbeat together
  Sleeps,    \* how long the machine may sleep
  MaxTime    \* bound on the wall clock

ASSUME WatchAssumption ==
  /\ {Interval, Idle, MaxTime} \cup Sleeps \subseteq Nat \ {0}
  /\ Late \in Nat /\ 2 * Late < Interval
  /\ 2 * Interval < Idle
  /\ \E n \in 1 .. Idle : Idle = n * Interval

NoMargin == Idle

MaxSilence == Idle - Interval

VARIABLES
  now,        \* the wall clock
  untilTick,  \* awake time until the ticker fires
  tick,       \* a tick is in its channel
  late,       \* awake time the watcher has been busy
  watch,      \* where the watcher's goroutine is
  lastSent,   \* its mark
  ended,      \* it has called end
  cause,      \* context.Cause of the review's context
  handler,    \* where the tool handler is
  result,     \* what it returns
  token,      \* the request carries a progress token
  stdout,     \* writes to the client get through
  client,     \* "waiting", or "gone" once it gave up
  lastHeard,  \* when a waiting client last heard of the call
  slept,      \* how long the machine slept after that, until it gave up
  blurred     \* ... of that, before the watcher took its mark

watchVars == <<now, untilTick, tick, late, watch, lastSent, ended, cause, handler,
               result, token, stdout, client, lastHeard, slept, blurred>>

clocks == <<now, untilTick, late>>
clientVars == <<client, lastHeard, slept, blurred>>
handlerVars == <<handler, result, token>>

-----------------------------------------------------------------------------
WatchInit ==
  /\ now = 0
  /\ untilTick = Interval
  /\ tick = FALSE
  /\ late = 0
  /\ watch = "none"
  /\ lastSent = 0
  /\ ended = FALSE
  /\ cause = "none"
  /\ handler = "none"
  /\ result = "none"
  /\ token \in BOOLEAN
  /\ stdout = TRUE
  /\ client = "waiting"
  /\ lastHeard = 0
  /\ slept = 0
  /\ blurred = 0

(* The first cause of a context's end is the one it keeps.                 *)
Cancel(why) == cause' = IF cause = "none" THEN why ELSE cause

(* The request arrives: the watcher is started and the review begun.  The  *)
(* watcher takes its first mark once its goroutine runs.                   *)
CallArrives ==
  /\ handler = "none"
  /\ handler' = "reviewing"
  /\ watch' = "starting"
  /\ UNCHANGED <<clocks, tick, lastSent, ended, cause, result, token, stdout, clientVars>>

WatchStarts ==
  /\ watch = "starting"
  /\ watch' = "select"
  /\ untilTick' = Interval
  /\ lastSent' = now
  /\ late' = 0
  /\ UNCHANGED <<now, tick, ended, cause, handlerVars, stdout, clientVars>>

(***************************************************************************)
(* Time.                                                                   *)
(***************************************************************************)
Watching == watch \in {"starting", "select", "sending", "sent"}

Busy == tick \/ watch \in {"starting", "sending", "sent"}

(* The ticker runs from the watcher's start; the watcher is never busy for *)
(* longer than Late while the machine is awake.                            *)
AwakeTime ==
  /\ Watching
  /\ now < MaxTime
  /\ Busy => late < Late
  /\ now' = now + 1
  /\ late' = IF Busy THEN late + 1 ELSE 0
  /\ untilTick' = IF untilTick = 1 THEN Interval ELSE untilTick - 1
  /\ tick' = (tick \/ (untilTick = 1 /\ watch # "starting"))
  /\ UNCHANGED <<watch, lastSent, ended, cause, handlerVars, stdout, clientVars>>

Sleep ==
  /\ Watching
  /\ \E s \in Sleeps :
       /\ now + s <= MaxTime
       /\ now' = now + s
       /\ slept' = IF client = "waiting" THEN slept + s ELSE slept
       /\ blurred' = IF client = "waiting" /\ watch \in {"starting", "sent"}
                     THEN blurred + s ELSE blurred
  /\ UNCHANGED <<untilTick, late, tick, watch, lastSent, ended, cause, handlerVars,
                 stdout, client, lastHeard>>

(***************************************************************************)
(* The watcher's goroutine.                                                *)
(***************************************************************************)
Silence == now - lastSent

(* checkSilence: the first over-long silence ends the call.                *)
CheckSilence ==
  IF ~ ended /\ Silence >= MaxSilence
  THEN ended' = TRUE /\ Cancel("silence")
  ELSE UNCHANGED <<ended, cause>>

StopAsked == handler = "stopping"

(* With both a tick and the end of its context ready, select takes either. *)
Tick ==
  /\ watch = "select" /\ tick
  /\ tick' = FALSE
  /\ CheckSilence
  /\ watch' = IF token THEN "sending" ELSE "select"
  /\ late' = IF token THEN late ELSE 0
  /\ UNCHANGED <<now, untilTick, lastSent, handlerVars, stdout, clientVars>>

(* The notification reaches the client, which restarts its timer unless it *)
(* has given up.                                                           *)
Heartbeat ==
  /\ watch = "sending"
  /\ stdout
  /\ watch' = "sent"
  /\ IF client = "waiting"
     THEN lastHeard' = now /\ slept' = 0 /\ blurred' = 0
     ELSE UNCHANGED <<lastHeard, slept, blurred>>
  /\ UNCHANGED <<clocks, tick, lastSent, ended, cause, handlerVars, stdout, client>>

(* NotifyProgress fails when the connection is gone or the watcher has     *)
(* been stopped; its goroutine ends with it.                               *)
HeartbeatFails ==
  /\ watch = "sending"
  /\ ~ stdout \/ StopAsked
  /\ watch' = "done"
  /\ UNCHANGED <<clocks, tick, lastSent, ended, cause, handlerVars, stdout, clientVars>>

HeartbeatSentUnmeasured ==
  /\ watch = "sent"
  /\ lastSent' = now
  /\ watch' = "select"
  /\ late' = 0
  /\ UNCHANGED <<now, untilTick, tick, ended, cause, handlerVars, stdout, clientVars>>

(* The silence is measured against the heartbeat before this one, then     *)
(* this one becomes the mark.                                              *)
HeartbeatSent ==
  /\ watch = "sent"
  /\ CheckSilence
  /\ lastSent' = now
  /\ watch' = "select"
  /\ late' = 0
  /\ UNCHANGED <<now, untilTick, tick, handlerVars, stdout, clientVars>>

WatchStops ==
  /\ watch = "select"
  /\ StopAsked
  /\ watch' = "done"
  /\ UNCHANGED <<clocks, tick, lastSent, ended, cause, handlerVars, stdout, clientVars>>

(***************************************************************************)
(* The tool handler.                                                       *)
(***************************************************************************)

(* A review that completed is returned whatever has been cancelled since;  *)
(* an error says first that the call went silent.                          *)
ReviewReturns ==
  /\ handler = "reviewing"
  /\ handler' = "stopping"
  /\ result' \in {"review", IF cause = "silence" THEN "silence" ELSE "error"}
  /\ UNCHANGED <<clocks, tick, watch, lastSent, ended, cause, token, stdout, clientVars>>

(* stopWatch waits for the goroutine before the result goes out.           *)
Answer ==
  /\ handler = "stopping"
  /\ watch = "done"
  /\ handler' = "answered"
  /\ UNCHANGED <<clocks, tick, watch, lastSent, ended, cause, result, token, stdout, clientVars>>

(* The process is asked to stop, or the client cancels the request.        *)
Cancelled ==
  /\ handler \in {"reviewing", "stopping"}
  /\ Cancel("cancelled")

LifecycleEnds ==
  /\ Cancelled
  /\ UNCHANGED <<clocks, tick, watch, lastSent, ended, handlerVars, stdout, clientVars>>

(***************************************************************************)
(* The client.                                                             *)
(***************************************************************************)
StdoutBreaks ==
  /\ handler \in {"reviewing", "stopping"}
  /\ stdout
  /\ stdout' = FALSE
  /\ UNCHANGED <<clocks, tick, watch, lastSent, ended, cause, handlerVars, clientVars>>

Unheard == now - lastHeard

ClientGivesUp ==
  /\ handler \in {"reviewing", "stopping"}
  /\ client = "waiting"
  /\ Unheard >= Idle
  /\ client' = "gone"
  /\ UNCHANGED <<clocks, tick, watch, lastSent, ended, cause, handlerVars, stdout, lastHeard, slept, blurred>>

WatchNext ==
  \/ AwakeTime \/ Sleep
  \/ WatchStarts \/ Tick \/ Heartbeat \/ HeartbeatFails \/ HeartbeatSent \/ WatchStops
  \/ ReviewReturns \/ Answer \/ LifecycleEnds
  \/ StdoutBreaks \/ ClientGivesUp

-----------------------------------------------------------------------------
WatchTypeOK ==
  /\ now \in 0 .. MaxTime
  /\ untilTick \in 1 .. Interval
  /\ tick \in BOOLEAN
  /\ late \in 0 .. Late
  /\ watch \in {"none", "starting", "select", "sending", "sent", "done"}
  /\ lastSent \in 0 .. now
  /\ ended \in BOOLEAN
  /\ cause \in {"none", "silence", "cancelled"}
  /\ handler \in {"none", "reviewing", "stopping", "answered"}
  /\ result \in {"none", "review", "silence", "error"}
  /\ token \in BOOLEAN /\ stdout \in BOOLEAN
  /\ client \in {"waiting", "gone"}
  /\ lastHeard \in 0 .. now
  /\ slept \in 0 .. now
  /\ blurred \in 0 .. slept

(* The client's timer cannot run out on a call Counterpoint has not ended  *)
(* while the machine stays awake; with heartbeats it takes a sleep whose   *)
(* length and one interval reach the client's timeout (MaxSilence and      *)
(* watchCall).                                                             *)
ClientOutlived ==
  client = "gone" /\ handler = "reviewing" /\ ~ ended /\ stdout =>
    /\ slept > 0
    /\ token => slept + Interval + 2 * Late >= Idle

(* Once the client has given up, the watcher's next measurement ends the   *)
(* call, unless the machine slept between the client's receipt of a        *)
(* heartbeat and the watcher's mark for it for longer than the margin      *)
(* (checkSilence, before and after a heartbeat).                           *)
SilentCallEnds ==
  [][(Tick \/ HeartbeatSent) /\ client = "gone" /\ blurred + Late <= Interval => ended']_watchVars
=============================================================================
