--------------------------- MODULE McpServerProofs ----------------------------
(***************************************************************************)
(* Proofs about McpServer: the watch over a call, for any timeouts, ticks, *)
(* sleeps and delays, the types, and what the reader gives the SDK.        *)
(***************************************************************************)
EXTENDS McpServer, SequenceTheorems, NaturalsInduction, WellFoundedInduction, TLAPS

-----------------------------------------------------------------------------
(* The inductive invariant.                                                *)

Heard == now - lastHeard

(* The times between the mark and the ticks of a watcher.                  *)
Whole == {k * Interval : k \in Nat}

NextTick == now - lastSent + untilTick

(* Where the watcher's goroutine is, the ticker and its delay agree.       *)
Ticking ==
  /\ watch = "none" => now = 0 /\ handler = "none" /\ untilTick = Interval
  /\ watch \in {"none", "starting"} => ~ tick /\ ~ ended /\ lastHeard = 0
  /\ handler = "none" => watch = "none" /\ client = "waiting"
  /\ watch \in {"sending", "sent"} => token /\ ~ tick /\ untilTick + late = Interval
  /\ watch = "select" /\ tick => untilTick + late = Interval
  /\ watch = "done" /\ ~ token => handler # "reviewing"
  /\ lastHeard = 0 \/ token

(* The mark is as old as what the client last heard, but for the moments   *)
(* between the two.                                                        *)
Marked ==
  client = "waiting" =>
    /\ watch \in {"starting", "sent"} => Heard <= late + blurred
    /\ watch \in {"select", "sending"} => lastSent - lastHeard <= Late + blurred

(* A client that has given up is found out at the next measurement.        *)
FoundOut ==
  client = "gone" =>
    \/ blurred + Late > Interval
    \/ watch = "done"
    \/ watch \in {"select", "sending", "sent"} /\ (ended \/ Silence >= MaxSilence)

(* With heartbeats, what a waiting client did not hear it slept, but for   *)
(* an interval and the watcher's delays.                                   *)
HeardOften ==
  token /\ client = "waiting" =>
    /\ Heard <= slept + Interval + 2 * Late
    /\ watch \in {"starting", "sent"} => Heard <= slept + late
    /\ watch = "select" /\ ~ tick => Heard <= slept + Late + Interval - untilTick
    /\ watch = "sending" \/ (watch = "select" /\ tick) => Heard <= slept + Late + Interval + late

(* Without them, and awake, the call is ended a whole interval before the  *)
(* client's timer runs out.                                                *)
EndedInTime ==
  ~ token /\ client = "waiting" /\ slept = 0 /\ ~ ended /\ watch = "select" =>
    /\ NextTick \in Whole
    /\ NextTick <= Idle
    /\ ~ tick => NextTick <= Idle - Interval

(* Why a client has given up.                                              *)
GivenUp ==
  client = "gone" =>
    /\ token => slept + Interval + 2 * Late >= Idle
    /\ ~ token /\ ~ ended /\ handler = "reviewing" => slept > 0

WatchInv == WatchTypeOK /\ Ticking /\ Marked /\ FoundOut /\ HeardOften /\ EndedInTime /\ GivenUp

-----------------------------------------------------------------------------
(* Arithmetic.                                                             *)

(* What the assumption says of the times, and the margin they leave.       *)
LEMMA Numbers ==
  /\ Interval \in Nat /\ Idle \in Nat /\ Late \in Nat /\ MaxTime \in Nat
  /\ Interval > 0 /\ 2 * Late < Interval /\ 2 * Interval < Idle
  /\ MaxSilence = Idle - Interval
  /\ \A s \in Sleeps : s \in Nat /\ s > 0
<1>1. Interval \in Nat \ {0} /\ Idle \in Nat \ {0} /\ MaxTime \in Nat \ {0}
  BY WatchAssumption
<1>2. Late \in Nat /\ 2 * Late < Interval /\ 2 * Interval < Idle
  BY WatchAssumption
<1>3. \A s \in Sleeps : s \in Nat \ {0}
  BY WatchAssumption
<1>4. QED
  BY <1>1, <1>2, <1>3 DEF MaxSilence

(* The client's timeout is a whole number of intervals, so of the ticks    *)
(* before it the last comes an interval early.                             *)
LEMMA WholeNumbers ==
  /\ Interval \in Whole
  /\ \A m \in Whole : m \in Nat /\ m + Interval \in Whole
  /\ \A m \in Whole : m < Idle => m <= Idle - Interval
<1>1. Interval \in Nat /\ Interval > 0 /\ Idle \in Nat
  BY Numbers
<1>2. PICK n \in 1 .. Idle : Idle = n * Interval
  BY WatchAssumption
<1>3. n \in Nat
  BY <1>1, <1>2
<1>4. 1 * Interval = Interval
  BY <1>1
<1>5. Interval \in Whole
  BY <1>4 DEF Whole
<1>6. ASSUME NEW k \in Nat
      PROVE  k * Interval \in Nat /\ k * Interval + Interval = (k + 1) * Interval
  BY <1>1
<1>7. \A m \in Whole : m \in Nat /\ m + Interval \in Whole
  BY <1>6 DEF Whole
<1>8. ASSUME NEW k \in Nat, k * Interval < n * Interval
      PROVE  k * Interval <= n * Interval - Interval
  <2>1. k < n
    <3>1. ASSUME n <= k PROVE FALSE
      <4>1. PICK d \in Nat : k = n + d
        <5>1. k - n \in Nat /\ k = n + (k - n)
          BY <1>3, <3>1
        <5>2. QED
          BY <5>1
      <4>2. k * Interval = n * Interval + d * Interval
        BY <1>1, <1>3, <4>1
      <4>3. d * Interval >= 0
        BY <1>1
      <4>4. n * Interval \in Int /\ d * Interval \in Int
        BY <1>1, <1>3
      <4>5. QED
        BY <1>8, <4>2, <4>3, <4>4
    <3>2. QED
      BY <1>3, <3>1
  <2>2. PICK d \in Nat : n = k + 1 + d
    <3>1. n - k - 1 \in Nat /\ n = k + 1 + (n - k - 1)
      BY <1>3, <2>1
    <3>2. QED
      BY <3>1
  <2>3. n * Interval = k * Interval + Interval + d * Interval
    BY <1>1, <2>2
  <2>4. d * Interval >= 0 /\ d * Interval \in Int /\ k * Interval \in Int
    BY <1>1
  <2>5. QED
    BY <1>1, <2>3, <2>4
<1>9. QED
  BY <1>2, <1>5, <1>7, <1>8 DEF Whole

-----------------------------------------------------------------------------
(* The watch over the call.                                                *)

(* A step of the server is one of the watch, or leaves it alone.           *)
LEMMA WatchSteps ==
  [Next]_vars => WatchNext \/ CallArrives \/ UNCHANGED watchVars
BY DEF Next, CallRequested, SessionEnds, WatchNext, vars

(* No call has arrived yet.                                                *)
LEMMA WatchInvInit == WatchInit => WatchInv
<1> SUFFICES ASSUME WatchInit PROVE WatchInv
  OBVIOUS
<1>1. WatchTypeOK
  <2>1. {tick, ended, stdout} \subseteq BOOLEAN
    BY Zenon DEF WatchInit
  <2>2. token \in BOOLEAN
    BY Zenon DEF WatchInit
  <2>3. QED
    BY <2>1, <2>2, Numbers DEF WatchInit, WatchTypeOK
<1>2. Ticking /\ Marked /\ FoundOut /\ HeardOften /\ EndedInTime /\ GivenUp
  BY Numbers DEF WatchInit, Ticking, Marked, FoundOut, HeardOften, EndedInTime, GivenUp, Heard
<1>3. QED
  BY <1>1, <1>2 DEF WatchInv

(* The types; the delay never exceeds its bound.                           *)
LEMMA WatchTypeStep ==
  ASSUME WatchTypeOK, WatchNext \/ CallArrives
  PROVE  WatchTypeOK'
<1> USE Numbers DEF WatchTypeOK
<1>1. CASE AwakeTime
  BY <1>1 DEF AwakeTime, Watching, Busy, clocks, handlerVars, clientVars
<1>2. CASE Sleep
  BY <1>2 DEF Sleep, Watching, handlerVars
<1>3. CASE WatchStarts
  BY <1>3 DEF WatchStarts, handlerVars, clientVars
<1>4. CASE Tick
  <2>1. ended' \in BOOLEAN /\ cause' \in {"none", "silence", "cancelled"}
    <3>1. CASE UNCHANGED <<ended, cause>>
      BY <3>1
    <3>2. CASE ended' = TRUE /\ Cancel("silence")
      BY <3>2 DEF Cancel
    <3>3. QED
      BY <1>4, <3>1, <3>2 DEF Tick, CheckSilence
  <2>2. QED
    <3>1. /\ watch' \in {"select", "sending"} /\ late' \in {0, late} /\ tick' = FALSE
          /\ UNCHANGED <<now, untilTick, lastSent, handlerVars, stdout, clientVars>>
      BY <1>4 DEF Tick
    <3>2. tick' \in BOOLEAN
      BY Zenon, <3>1
    <3>3. late' \in 0 .. Late
      BY <3>1
    <3>4. QED
      BY <2>1, <3>1, <3>2, <3>3 DEF handlerVars, clientVars
<1>5. CASE Heartbeat
  BY <1>5 DEF Heartbeat, clocks, handlerVars
<1>6. CASE HeartbeatFails
  BY <1>6 DEF HeartbeatFails, StopAsked, clocks, handlerVars, clientVars
<1>7. CASE HeartbeatSent
  <2>1. ended' \in BOOLEAN /\ cause' \in {"none", "silence", "cancelled"}
    <3>1. CASE UNCHANGED <<ended, cause>>
      BY <3>1
    <3>2. CASE ended' = TRUE /\ Cancel("silence")
      BY <3>2 DEF Cancel
    <3>3. QED
      BY <1>7, <3>1, <3>2 DEF HeartbeatSent, CheckSilence
  <2>2. QED
    BY <1>7, <2>1 DEF HeartbeatSent, handlerVars, clientVars
<1>8. CASE WatchStops
  BY <1>8 DEF WatchStops, StopAsked, clocks, handlerVars, clientVars
<1>9. CASE ReviewReturns
  BY <1>9 DEF ReviewReturns, clocks, clientVars
<1>10. CASE Answer
  BY <1>10 DEF Answer, clocks, clientVars
<1>11. CASE LifecycleEnds
  BY <1>11 DEF LifecycleEnds, Cancelled, Cancel, clocks, handlerVars, clientVars
<1>12. CASE StdoutBreaks
  <2>1. stdout' \in BOOLEAN
    BY Zenon, <1>12 DEF StdoutBreaks
  <2>2. QED
    BY <1>12, <2>1 DEF StdoutBreaks, clocks, handlerVars, clientVars
<1>13. CASE ClientGivesUp
  BY <1>13 DEF ClientGivesUp, Unheard, clocks, handlerVars
<1>14. CASE CallArrives
  BY <1>14 DEF CallArrives, clocks, clientVars
<1>15. QED
  BY <1>1, <1>2, <1>3, <1>4, <1>5, <1>6, <1>7, <1>8, <1>9, <1>10, <1>11, <1>12, <1>13, <1>14 DEF WatchNext

(* The ticker.                                                             *)
LEMMA TickingStep ==
  ASSUME WatchTypeOK, Ticking, WatchNext \/ CallArrives
  PROVE  Ticking'
<1> USE Numbers DEF WatchTypeOK, Ticking
<1>1. CASE AwakeTime
  BY <1>1 DEF AwakeTime, Watching, Busy, clocks, handlerVars, clientVars
<1>2. CASE Sleep
  BY <1>2 DEF Sleep, Watching, handlerVars
<1>3. CASE WatchStarts
  BY <1>3 DEF WatchStarts, handlerVars, clientVars
<1>4. CASE Tick
  BY <1>4 DEF Tick, CheckSilence, Cancel, Silence, handlerVars, clientVars
<1>5. CASE Heartbeat
  BY <1>5 DEF Heartbeat, clocks, handlerVars
<1>6. CASE HeartbeatFails
  BY <1>6 DEF HeartbeatFails, StopAsked, clocks, handlerVars, clientVars
<1>7. CASE HeartbeatSent
  BY <1>7 DEF HeartbeatSent, CheckSilence, Cancel, Silence, handlerVars, clientVars
<1>8. CASE WatchStops
  BY <1>8 DEF WatchStops, StopAsked, clocks, handlerVars, clientVars
<1>9. CASE ReviewReturns
  BY <1>9 DEF ReviewReturns, clocks, clientVars
<1>10. CASE Answer
  BY <1>10 DEF Answer, clocks, clientVars
<1>11. CASE LifecycleEnds
  BY <1>11 DEF LifecycleEnds, Cancelled, Cancel, clocks, handlerVars, clientVars
<1>12. CASE StdoutBreaks
  BY <1>12 DEF StdoutBreaks, clocks, handlerVars, clientVars
<1>13. CASE ClientGivesUp
  BY <1>13 DEF ClientGivesUp, Unheard, clocks, handlerVars
<1>14. CASE CallArrives
  BY <1>14 DEF CallArrives, clocks, clientVars
<1>15. QED
  BY <1>1, <1>2, <1>3, <1>4, <1>5, <1>6, <1>7, <1>8, <1>9, <1>10, <1>11, <1>12, <1>13, <1>14 DEF WatchNext

(* The mark.                                                               *)
LEMMA MarkedStep ==
  ASSUME WatchTypeOK, Ticking, Marked, WatchNext \/ CallArrives
  PROVE  Marked'
<1> USE Numbers DEF WatchTypeOK, Ticking, Marked, Heard
<1>1. CASE AwakeTime
  BY <1>1 DEF AwakeTime, Watching, Busy, clocks, handlerVars, clientVars
<1>2. CASE Sleep
  BY <1>2 DEF Sleep, Watching, handlerVars
<1>3. CASE WatchStarts
  BY <1>3 DEF WatchStarts, handlerVars, clientVars
<1>4. CASE Tick
  BY <1>4 DEF Tick, CheckSilence, Cancel, Silence, handlerVars, clientVars
<1>5. CASE Heartbeat
  BY <1>5 DEF Heartbeat, clocks, handlerVars
<1>6. CASE HeartbeatFails
  BY <1>6 DEF HeartbeatFails, StopAsked, clocks, handlerVars, clientVars
<1>7. CASE HeartbeatSent
  BY <1>7 DEF HeartbeatSent, CheckSilence, Cancel, Silence, handlerVars, clientVars
<1>8. CASE WatchStops
  BY <1>8 DEF WatchStops, StopAsked, clocks, handlerVars, clientVars
<1>9. CASE ReviewReturns
  BY <1>9 DEF ReviewReturns, clocks, clientVars
<1>10. CASE Answer
  BY <1>10 DEF Answer, clocks, clientVars
<1>11. CASE LifecycleEnds
  BY <1>11 DEF LifecycleEnds, Cancelled, Cancel, clocks, handlerVars, clientVars
<1>12. CASE StdoutBreaks
  BY <1>12 DEF StdoutBreaks, clocks, handlerVars, clientVars
<1>13. CASE ClientGivesUp
  BY <1>13 DEF ClientGivesUp, Unheard, clocks, handlerVars
<1>14. CASE CallArrives
  BY <1>14 DEF CallArrives, clocks, clientVars
<1>15. QED
  BY <1>1, <1>2, <1>3, <1>4, <1>5, <1>6, <1>7, <1>8, <1>9, <1>10, <1>11, <1>12, <1>13, <1>14 DEF WatchNext

(* The measurements.                                                       *)
LEMMA FoundOutStep ==
  ASSUME WatchTypeOK, Ticking, Marked, FoundOut, WatchNext \/ CallArrives
  PROVE  FoundOut'
<1> USE Numbers DEF WatchTypeOK, Ticking, Marked, FoundOut, Silence, Heard
<1>1. CASE AwakeTime
  BY <1>1 DEF AwakeTime, Watching, Busy, clocks, handlerVars, clientVars
<1>2. CASE Sleep
  BY <1>2 DEF Sleep, Watching, handlerVars
<1>3. CASE WatchStarts
  BY <1>3 DEF WatchStarts, handlerVars, clientVars
<1>4. CASE Tick
  BY <1>4 DEF Tick, CheckSilence, Cancel, Silence, handlerVars, clientVars
<1>5. CASE Heartbeat
  BY <1>5 DEF Heartbeat, clocks, handlerVars
<1>6. CASE HeartbeatFails
  BY <1>6 DEF HeartbeatFails, StopAsked, clocks, handlerVars, clientVars
<1>7. CASE HeartbeatSent
  BY <1>7 DEF HeartbeatSent, CheckSilence, Cancel, Silence, handlerVars, clientVars
<1>8. CASE WatchStops
  BY <1>8 DEF WatchStops, StopAsked, clocks, handlerVars, clientVars
<1>9. CASE ReviewReturns
  BY <1>9 DEF ReviewReturns, clocks, clientVars
<1>10. CASE Answer
  BY <1>10 DEF Answer, clocks, clientVars
<1>11. CASE LifecycleEnds
  BY <1>11 DEF LifecycleEnds, Cancelled, Cancel, clocks, handlerVars, clientVars
<1>12. CASE StdoutBreaks
  BY <1>12 DEF StdoutBreaks, clocks, handlerVars, clientVars
<1>13. CASE ClientGivesUp
  BY <1>13 DEF ClientGivesUp, Unheard, clocks, handlerVars
<1>14. CASE CallArrives
  BY <1>14 DEF CallArrives, clocks, clientVars
<1>15. QED
  BY <1>1, <1>2, <1>3, <1>4, <1>5, <1>6, <1>7, <1>8, <1>9, <1>10, <1>11, <1>12, <1>13, <1>14 DEF WatchNext

(* The heartbeats.                                                         *)
LEMMA HeardOftenStep ==
  ASSUME WatchTypeOK, Ticking, HeardOften, WatchNext \/ CallArrives
  PROVE  HeardOften'
<1> USE Numbers DEF WatchTypeOK, Ticking, HeardOften, Heard
<1>1. CASE AwakeTime
  <2> SUFFICES ASSUME token', client' = "waiting"
               PROVE  /\ Heard' <= slept' + Interval + 2 * Late
                      /\ watch' \in {"starting", "sent"} => Heard' <= slept' + late'
                      /\ watch' = "select" /\ ~ tick' => Heard' <= slept' + Late + Interval - untilTick'
                      /\ watch' = "sending" \/ (watch' = "select" /\ tick')
                           => Heard' <= slept' + Late + Interval + late'
    BY DEF HeardOften
  <2>1. /\ token /\ client = "waiting" /\ slept' = slept /\ watch' = watch
        /\ now' = now + 1 /\ lastHeard' = lastHeard
        /\ untilTick' = IF untilTick = 1 THEN Interval ELSE untilTick - 1
        /\ tick' <=> tick \/ (untilTick = 1 /\ watch # "starting")
        /\ late' = IF Busy THEN late + 1 ELSE 0
        /\ Busy => late < Late
    BY <1>1 DEF AwakeTime, handlerVars, clientVars
  <2>2. Heard' = Heard + 1
    BY <2>1
  <2>3. CASE watch \in {"starting", "sent"}
    BY <2>1, <2>2, <2>3 DEF Busy
  <2>4. CASE watch = "sending"
    BY <2>1, <2>2, <2>4 DEF Busy
  <2>5. CASE watch = "select" /\ tick
    BY <2>1, <2>2, <2>5 DEF Busy
  <2>6. CASE watch = "select" /\ ~ tick
    BY <2>1, <2>2, <2>6 DEF Busy
  <2>7. QED
    BY <1>1, <2>3, <2>4, <2>5, <2>6 DEF AwakeTime, Watching
<1>2. CASE Sleep
  BY <1>2 DEF Sleep, Watching, handlerVars
<1>3. CASE WatchStarts
  BY <1>3 DEF WatchStarts, handlerVars, clientVars
<1>4. CASE Tick
  BY <1>4 DEF Tick, CheckSilence, Cancel, Silence, handlerVars, clientVars
<1>5. CASE Heartbeat
  BY <1>5 DEF Heartbeat, clocks, handlerVars
<1>6. CASE HeartbeatFails
  BY <1>6 DEF HeartbeatFails, StopAsked, clocks, handlerVars, clientVars
<1>7. CASE HeartbeatSent
  BY <1>7 DEF HeartbeatSent, CheckSilence, Cancel, Silence, handlerVars, clientVars
<1>8. CASE WatchStops
  BY <1>8 DEF WatchStops, StopAsked, clocks, handlerVars, clientVars
<1>9. CASE ReviewReturns
  BY <1>9 DEF ReviewReturns, clocks, clientVars
<1>10. CASE Answer
  BY <1>10 DEF Answer, clocks, clientVars
<1>11. CASE LifecycleEnds
  BY <1>11 DEF LifecycleEnds, Cancelled, Cancel, clocks, handlerVars, clientVars
<1>12. CASE StdoutBreaks
  BY <1>12 DEF StdoutBreaks, clocks, handlerVars, clientVars
<1>13. CASE ClientGivesUp
  BY <1>13 DEF ClientGivesUp, Unheard, clocks, handlerVars
<1>14. CASE CallArrives
  BY <1>14 DEF CallArrives, clocks, clientVars
<1>15. QED
  BY <1>1, <1>2, <1>3, <1>4, <1>5, <1>6, <1>7, <1>8, <1>9, <1>10, <1>11, <1>12, <1>13, <1>14 DEF WatchNext

(* The end of a call without them.                                         *)
LEMMA EndedInTimeStep ==
  ASSUME WatchTypeOK, Ticking, EndedInTime, WatchNext \/ CallArrives
  PROVE  EndedInTime'
<1> USE Numbers, WholeNumbers DEF WatchTypeOK, Ticking, EndedInTime, NextTick
<1>1. CASE AwakeTime
  <2> SUFFICES ASSUME (~ token /\ client = "waiting" /\ slept = 0 /\ ~ ended /\ watch = "select")'
               PROVE  /\ NextTick' \in Whole
                      /\ NextTick' <= Idle
                      /\ ~ tick' => NextTick' <= Idle - Interval
    BY DEF EndedInTime
  <2>1. /\ ~ token /\ client = "waiting" /\ slept = 0 /\ ~ ended /\ watch = "select"
        /\ now' = now + 1 /\ lastSent' = lastSent
        /\ untilTick' = IF untilTick = 1 THEN Interval ELSE untilTick - 1
        /\ tick' = (tick \/ (untilTick = 1 /\ watch # "starting"))
        /\ tick => late < Late
    BY <1>1 DEF AwakeTime, Busy, handlerVars, clientVars
  <2>2. /\ NextTick \in Whole
        /\ NextTick <= Idle
        /\ ~ tick => NextTick <= Idle - Interval
    BY <2>1
  <2>3. NextTick' = IF untilTick = 1 THEN NextTick + Interval ELSE NextTick
    BY <2>1
  <2>4. CASE untilTick = 1
    <3>1. ~ tick
      BY <2>1, <2>4
    <3>2. NextTick \in Nat /\ NextTick + Interval \in Whole
      BY <2>2
    <3>3. tick'
      BY <2>1, <2>4
    <3> QED
      BY <2>2, <2>3, <2>4, <3>1, <3>2, <3>3
  <2>5. CASE untilTick # 1
    BY <2>1, <2>2, <2>3, <2>5
  <2>6. QED
    BY <2>4, <2>5
<1>2. CASE Sleep
  BY <1>2 DEF Sleep, Watching, handlerVars
<1>3. CASE WatchStarts
  BY <1>3 DEF WatchStarts, handlerVars, clientVars
<1>4. CASE Tick
  BY <1>4 DEF Tick, CheckSilence, Cancel, Silence, handlerVars, clientVars
<1>5. CASE Heartbeat
  BY <1>5 DEF Heartbeat, clocks, handlerVars
<1>6. CASE HeartbeatFails
  BY <1>6 DEF HeartbeatFails, StopAsked, clocks, handlerVars, clientVars
<1>7. CASE HeartbeatSent
  BY <1>7 DEF HeartbeatSent, CheckSilence, Cancel, Silence, handlerVars, clientVars
<1>8. CASE WatchStops
  BY <1>8 DEF WatchStops, StopAsked, clocks, handlerVars, clientVars
<1>9. CASE ReviewReturns
  BY <1>9 DEF ReviewReturns, clocks, clientVars
<1>10. CASE Answer
  BY <1>10 DEF Answer, clocks, clientVars
<1>11. CASE LifecycleEnds
  BY <1>11 DEF LifecycleEnds, Cancelled, Cancel, clocks, handlerVars, clientVars
<1>12. CASE StdoutBreaks
  BY <1>12 DEF StdoutBreaks, clocks, handlerVars, clientVars
<1>13. CASE ClientGivesUp
  BY <1>13 DEF ClientGivesUp, Unheard, clocks, handlerVars
<1>14. CASE CallArrives
  BY <1>14 DEF CallArrives, clocks, clientVars
<1>15. QED
  BY <1>1, <1>2, <1>3, <1>4, <1>5, <1>6, <1>7, <1>8, <1>9, <1>10, <1>11, <1>12, <1>13, <1>14 DEF WatchNext

(* The client's patience.                                                  *)
LEMMA GivenUpStep ==
  ASSUME WatchTypeOK, Ticking, Marked, HeardOften, EndedInTime, GivenUp, WatchNext \/ CallArrives
  PROVE  GivenUp'
<1> USE Numbers DEF WatchTypeOK, Ticking, Marked, HeardOften, EndedInTime, GivenUp, Heard, NextTick
<1>1. CASE AwakeTime
  <2>1. UNCHANGED <<client, token, slept, ended, handler>>
    BY <1>1 DEF AwakeTime, handlerVars, clientVars
  <2>2. QED
    BY <2>1
<1>2. CASE Sleep
  BY <1>2 DEF Sleep, Watching, handlerVars
<1>3. CASE WatchStarts
  BY <1>3 DEF WatchStarts, handlerVars, clientVars
<1>4. CASE Tick
  BY <1>4 DEF Tick, CheckSilence, Cancel, Silence, handlerVars, clientVars
<1>5. CASE Heartbeat
  BY <1>5 DEF Heartbeat, clocks, handlerVars
<1>6. CASE HeartbeatFails
  BY <1>6 DEF HeartbeatFails, StopAsked, clocks, handlerVars, clientVars
<1>7. CASE HeartbeatSent
  BY <1>7 DEF HeartbeatSent, CheckSilence, Cancel, Silence, handlerVars, clientVars
<1>8. CASE WatchStops
  BY <1>8 DEF WatchStops, StopAsked, clocks, handlerVars, clientVars
<1>9. CASE ReviewReturns
  BY <1>9 DEF ReviewReturns, clocks, clientVars
<1>10. CASE Answer
  BY <1>10 DEF Answer, clocks, clientVars
<1>11. CASE LifecycleEnds
  BY <1>11 DEF LifecycleEnds, Cancelled, Cancel, clocks, handlerVars, clientVars
<1>12. CASE StdoutBreaks
  BY <1>12 DEF StdoutBreaks, clocks, handlerVars, clientVars
<1>13. CASE ClientGivesUp
  BY <1>13 DEF ClientGivesUp, Unheard, clocks, handlerVars
<1>14. CASE CallArrives
  BY <1>14 DEF CallArrives, clocks, clientVars
<1>15. QED
  BY <1>1, <1>2, <1>3, <1>4, <1>5, <1>6, <1>7, <1>8, <1>9, <1>10, <1>11, <1>12, <1>13, <1>14 DEF WatchNext

(* The watch keeps its invariant, whatever the machine and the client do.  *)
LEMMA WatchInvStep == WatchInv /\ [Next]_vars => WatchInv'
<1> SUFFICES ASSUME WatchInv, [Next]_vars PROVE WatchInv'
  OBVIOUS
<1>1. CASE UNCHANGED watchVars
  BY <1>1 DEF WatchInv, watchVars, WatchTypeOK, Ticking, Marked, FoundOut, HeardOften, EndedInTime,
     GivenUp, Heard, Silence, NextTick
<1>2. CASE WatchNext \/ CallArrives
  BY <1>2, WatchTypeStep, TickingStep, MarkedStep, FoundOutStep, HeardOftenStep, EndedInTimeStep,
     GivenUpStep DEF WatchInv
<1>3. QED
  BY <1>1, <1>2, WatchSteps

(* For any timeouts, sleeps and delays.                                    *)
THEOREM WatchInvHolds == Spec => []WatchInv
BY WatchInvInit, WatchInvStep, PTL DEF Spec, Init

-----------------------------------------------------------------------------
(* Theorems about the watch.                                               *)

(* A call that Counterpoint still runs has been given up on only after a   *)
(* sleep, and with heartbeats only after one that reaches the client's     *)
(* timeout but for an interval and two delays (server.go, MaxSilence and   *)
(* watchCall).                                                             *)
THEOREM ClientIsOutlived == Spec => []ClientOutlived
<1>1. WatchInv => ClientOutlived
  BY Numbers DEF WatchInv, WatchTypeOK, GivenUp, ClientOutlived
<1>2. QED
  BY <1>1, WatchInvHolds, PTL

(* The first measurement after the client has given up ends the call, if   *)
(* the margin covers what was slept between a receipt and its mark         *)
(* (server.go, watchCall and checkSilence).                                *)
THEOREM SilenceIsFound == Spec => SilentCallEnds
<1>1. WatchInv /\ (Tick \/ HeartbeatSent) /\ client = "gone" /\ blurred + Late <= Interval => ended'
  <2> SUFFICES ASSUME WatchInv, Tick \/ HeartbeatSent, client = "gone", blurred + Late <= Interval
               PROVE  ended'
    OBVIOUS
  <2>1. watch \in {"select", "sent"} /\ CheckSilence
    BY DEF Tick, HeartbeatSent
  <2>2. blurred \in Int
    BY DEF WatchInv, WatchTypeOK
  <2>3. ended \/ Silence >= MaxSilence
    BY <2>1, <2>2, Numbers DEF WatchInv, FoundOut
  <2>4. QED
    BY <2>1, <2>3 DEF CheckSilence
<1>2. QED
  BY <1>1, WatchInvHolds, PTL DEF SilentCallEnds

-----------------------------------------------------------------------------
(* The types of the line reader.                                           *)

(* What the assumption says of the bounds of a line.                       *)
LEMMA LineNumbers ==
  /\ Limit \in Nat /\ MaxLines \in Nat
  /\ Buffer \in Nat /\ Buffer > 0 /\ Piece \in Nat /\ Piece > 0
<1>1. Limit \in Nat /\ MaxLines \in Nat
  BY LineAssumption
<1>2. Buffer \in Nat \ {0} /\ Piece \in Nat \ {0}
  BY LineAssumption
<1>3. QED
  BY <1>1, <1>2

(* The lesser of two numbers is one of them.                               *)
LEMMA MinOfTwo ==
  ASSUME NEW a \in Nat, NEW b \in Nat
  PROVE  Min({a, b}) \in {a, b} /\ Min({a, b}) <= a /\ Min({a, b}) <= b
<1>1. \E x \in {a, b} : \A y \in {a, b} : x <= y
  OBVIOUS
<1>2. QED
  BY <1>1 DEF Min

(* Nothing has been read yet.                                              *)
LEMMA LineTypeInit == LineInit => LineTypeOK
BY LineNumbers DEF LineInit, LineTypeOK

(* A line's bytes are numbered by it and from one.                         *)
LEMMA BytesTyped ==
  ASSUME LineTypeOK, NEW i \in 1 .. Len(written)
  PROVE  written[i] \in Lines /\ Size(written[i]) \in Nat /\ Bytes(i) \in Seq(Nat \X Nat)
<1>1. written[i] \in Lines
  BY DEF LineTypeOK
<1>2. Size(written[i]) \in Nat
  BY <1>1, LineAssumption DEF Size
<1>3. \A k \in 1 .. Size(written[i]) : <<i, k>> \in Nat \X Nat
  BY DEF LineTypeOK
<1>4. QED
  BY <1>1, <1>2, <1>3 DEF Bytes

(* The accumulated part of a line is at most one slice longer than a line  *)
(* may be.                                                                 *)
LEMMA LineTypeStep == LineTypeOK /\ [LineNext]_lineVars => LineTypeOK'
<1> SUFFICES ASSUME LineTypeOK, [LineNext]_lineVars PROVE LineTypeOK'
  OBVIOUS
<1> USE LineNumbers
<1>1. CASE ClientWrites
  <2>1. PICK l \in Lines : written' = Append(written, l)
    BY <1>1 DEF ClientWrites
  <2>2. written' \in Seq(Lines) /\ Len(written') = Len(written) + 1
    BY <2>1, AppendProperties DEF LineTypeOK
  <2>3. Len(written) \in Nat /\ Len(written) < MaxLines
    BY <1>1 DEF ClientWrites, LineTypeOK
  <2>4. QED
    BY <1>1, <2>2, <2>3 DEF ClientWrites, LineTypeOK
<1>2. CASE ClientStops
  BY <1>2 DEF ClientStops, LineTypeOK
<1>3. CASE ReadSlice
  <2>1. at + 1 \in 1 .. Len(written)
    BY <1>3 DEF ReadSlice, LineTypeOK
  <2>2. Size(written[at + 1]) \in Nat
    BY <2>1, BytesTyped
  <2>3. line \in Nat /\ line <= Limit + 1
    BY <1>3 DEF ReadSlice, NeedsLine, LineTypeOK
  <2>4. Unread \in Nat
    BY <1>3, <2>2, <2>3 DEF ReadSlice, Unread, Current
  <2>5. line' \in Nat /\ line' <= line + Buffer
    BY <1>3, <2>3, <2>4, MinOfTwo DEF ReadSlice
  <2>6. failed' = IF line' > Limit + 1 THEN "tooLarge" ELSE "no"
    BY <1>3 DEF ReadSlice, TooLong
  <2>7. line' \in 0 .. Limit + 1 + Buffer /\ (failed' = "no" => line' <= Limit + 1)
    BY <2>3, <2>5, <2>6
  <2>8. QED
    BY <1>3, <2>6, <2>7 DEF ReadSlice, LineTypeOK
<1>4. CASE LineEnds
  <2>1. at + 1 \in 1 .. Len(written)
    BY <1>4 DEF LineEnds, LineTypeOK
  <2>2. buf' \in Seq(Nat \X Nat)
    BY <1>4, <2>1, BytesTyped DEF LineEnds
  <2>3. QED
    BY <1>4, <2>1, <2>2 DEF LineEnds, LineTypeOK
<1>5. CASE InputEnds
  <2>1. failed' \in {"readError", "eof", "framing"} /\ line \in 0 .. Limit + 1
    BY <1>5 DEF InputEnds, NeedsLine, LineTypeOK
  <2>2. QED
    BY <1>5, <2>1 DEF InputEnds, LineTypeOK
<1>6. CASE Serve
  <2> DEFINE n == Min({Piece, Len(buf)})
  <2>1. buf \in Seq(Nat \X Nat) /\ served \in Seq(Nat \X Nat) /\ Len(buf) \in Nat
    BY DEF LineTypeOK
  <2>2. n \in Nat /\ n <= Len(buf)
    BY <2>1, MinOfTwo
  <2>3. served' = served \o SubSeq(buf, 1, n) /\ buf' = SubSeq(buf, n + 1, Len(buf))
    BY <1>6 DEF Serve
  <2> HIDE DEF n
  <2>4. SubSeq(buf, 1, n) \in Seq(Nat \X Nat)
    <3>1. \A k \in 1 .. n : buf[k] \in Nat \X Nat
      BY <2>1, <2>2
    <3>2. QED
      BY <2>1, <2>2, <3>1, SubSeqProperties
  <2>5. SubSeq(buf, n + 1, Len(buf)) \in Seq(Nat \X Nat)
    <3>1. \A k \in n + 1 .. Len(buf) : buf[k] \in Nat \X Nat
      BY <2>1, <2>2
    <3>2. QED
      BY <2>1, <2>2, <3>1, SubSeqProperties
  <2>6. served' \in Seq(Nat \X Nat)
    BY <2>1, <2>3, <2>4, ConcatProperties
  <2>7. QED
    BY <1>6, <2>3, <2>5, <2>6 DEF Serve, LineTypeOK
<1>7. CASE UNCHANGED lineVars
  BY <1>7 DEF lineVars, LineTypeOK
<1>8. QED
  BY <1>1, <1>2, <1>3, <1>4, <1>5, <1>6, <1>7 DEF LineNext

(* The types of both parts: a line is refused before more than one slice   *)
(* beyond the limit is held, and the watcher's delays stay in their bound. *)
THEOREM TypeCorrect == Spec => []TypeOK
<1>1. LineTypeOK /\ [Next]_vars => LineTypeOK'
  <2>1. [Next]_vars => [LineNext]_lineVars
    BY DEF Next, CallRequested, SessionEnds, vars
  <2>2. QED
    BY <2>1, LineTypeStep
<1>2. Spec => []LineTypeOK
  BY <1>1, LineTypeInit, PTL DEF Spec, Init
<1>3. WatchInv /\ LineTypeOK => TypeOK
  BY DEF WatchInv, TypeOK
<1>4. QED
  BY <1>2, <1>3, WatchInvHolds, PTL

-----------------------------------------------------------------------------
(* Flattening sequences, an element at a time.                             *)

(* Induction, as a fact about a set of numbers.                            *)
LEMMA EveryNatural ==
  ASSUME NEW T, T \subseteq Nat, 0 \in T, \A n \in T : n + 1 \in T
  PROVE  \A n \in Nat : n \in T
<1> SUFFICES ASSUME Nat \ T # {} PROVE FALSE
  OBVIOUS
<1>1. PICK k \in Nat \ T : \A j \in Nat \ T : ~ (j < k)
  <2>1. Nat \ T \subseteq Nat
    OBVIOUS
  <2>2. \E k \in Nat \ T : \A j \in Nat \ T : ~ (<<j, k>> \in OpToRel(<, Nat))
    BY <2>1, NatLessThanWellFounded, WFMin
  <2>3. QED
    BY <2>2 DEF OpToRel
<1>2. k # 0 /\ k - 1 \in Nat
  BY <1>1
<1>3. k - 1 \in T
  BY <1>1, <1>2
<1>4. k - 1 + 1 \in T /\ k - 1 + 1 = k
  BY <1>2, <1>3
<1>5. QED
  BY <1>1, <1>4

(* What FlattenSeq computes: the flattened prefixes of s.                  *)
Flattening(s, f) == f = [i \in 1 .. Len(s) |-> IF i = 1 THEN s[i] ELSE f[i - 1] \o s[i]]

(* There is such a function.                                               *)
LEMMA FlatteningExists ==
  ASSUME NEW X, NEW s \in Seq(Seq(X))
  PROVE  \E f : Flattening(s, f)
<1> DEFINE Fills(f, n) ==
             \A i \in 1 .. n : f[i] = IF i = 1 THEN s[i] ELSE f[i - 1] \o s[i]
           Filled(n) == \E f \in [1 .. n -> Seq(X)] : Fills(f, n)
           T == {n \in Nat : n <= Len(s) => Filled(n)}
<1>1. Len(s) \in Nat /\ \A i \in 1 .. Len(s) : s[i] \in Seq(X)
  BY LenProperties
<1>2. 0 \in T
  <2>1. [i \in 1 .. 0 |-> << >>] \in [1 .. 0 -> Seq(X)]
    OBVIOUS
  <2>2. Fills([i \in 1 .. 0 |-> << >>], 0)
    OBVIOUS
  <2>3. QED
    BY <2>1, <2>2
<1>3. ASSUME NEW n \in T PROVE n + 1 \in T
  <2> SUFFICES ASSUME n + 1 <= Len(s) PROVE Filled(n + 1)
    <3> HIDE DEF Filled
    <3>1. QED BY <1>3
  <2>1. n \in Nat /\ n <= Len(s)
    BY <1>1, <1>3
  <2>2. PICK f \in [1 .. n -> Seq(X)] : Fills(f, n)
    <3>1. Filled(n)
      <4> HIDE DEF Filled
      <4>1. QED BY <1>3, <2>1
    <3>2. QED BY <3>1
  <2> DEFINE last == IF n = 0 THEN s[1] ELSE f[n] \o s[n + 1]
             g == [i \in 1 .. n + 1 |-> IF i = n + 1 THEN last ELSE f[i]]
  <2>3. last \in Seq(X)
    BY <1>1, <2>1, <2>2, ConcatProperties
  <2>4. g \in [1 .. n + 1 -> Seq(X)]
    <3> HIDE DEF last
    <3>1. QED BY <2>1, <2>2, <2>3
  <2>5. ASSUME NEW i \in 1 .. n + 1 PROVE g[i] = IF i = 1 THEN s[i] ELSE g[i - 1] \o s[i]
    <3>1. CASE i = n + 1
      <4>1. g[i] = last
        BY <2>1, <3>1
      <4>2. CASE n = 0
        BY <3>1, <4>1, <4>2
      <4>3. CASE n # 0
        <5>1. g[i - 1] = f[n] /\ i # 1
          BY <2>1, <3>1, <4>3
        <5>2. last = f[n] \o s[i]
          BY <3>1, <4>3
        <5> HIDE DEF last, g
        <5>3. QED BY <4>1, <5>1, <5>2
      <4>4. QED BY <4>2, <4>3
    <3>2. CASE i # n + 1
      <4>1. i \in 1 .. n /\ g[i] = f[i] /\ (i # 1 => g[i - 1] = f[i - 1])
        BY <2>1, <3>2
      <4> HIDE DEF g
      <4>2. QED BY <2>2, <4>1
    <3>3. QED BY <3>1, <3>2
  <2> HIDE DEF g
  <2>6. QED
    BY <2>4, <2>5
<1>4. Len(s) \in T
  <2> HIDE DEF T
  <2>1. T \subseteq Nat
    BY DEF T
  <2>2. QED
    BY <1>1, <1>2, <1>3, <2>1, EveryNatural
<1>5. PICK f \in [1 .. Len(s) -> Seq(X)] : Fills(f, Len(s))
  BY <1>1, <1>4
<1>6. f = [i \in 1 .. Len(s) |-> f[i]]
  BY <1>5
<1>7. f = [i \in 1 .. Len(s) |-> IF i = 1 THEN s[i] ELSE f[i - 1] \o s[i]]
  BY <1>5, <1>6
<1>8. QED
  BY <1>7 DEF Flattening

(* The flattened prefixes are sequences, and depend on nothing behind them. *)
LEMMA FlatteningUnique ==
  ASSUME NEW X, NEW s \in Seq(Seq(X)), NEW t \in Seq(Seq(X)), NEW f, NEW g,
         Flattening(s, f), Flattening(t, g), Len(s) <= Len(t),
         \A i \in 1 .. Len(s) : s[i] = t[i]
  PROVE  \A i \in 1 .. Len(s) : f[i] = g[i] /\ f[i] \in Seq(X)
<1> DEFINE T == {n \in Nat : n \in 1 .. Len(s) => f[n] = g[n] /\ f[n] \in Seq(X)}
<1>1. Len(s) \in Nat /\ Len(t) \in Nat /\ \A i \in 1 .. Len(s) : s[i] \in Seq(X)
  BY LenProperties
<1>2. ASSUME NEW i \in 1 .. Len(s)
      PROVE  /\ f[i] = IF i = 1 THEN s[i] ELSE f[i - 1] \o s[i]
             /\ g[i] = IF i = 1 THEN s[i] ELSE g[i - 1] \o s[i]
  <2>1. f[i] = IF i = 1 THEN s[i] ELSE f[i - 1] \o s[i]
    BY Zenon DEF Flattening
  <2>2. i \in 1 .. Len(t) /\ s[i] = t[i]
    BY <1>1
  <2>3. g[i] = IF i = 1 THEN t[i] ELSE g[i - 1] \o t[i]
    BY <2>2, Zenon DEF Flattening
  <2>4. QED
    BY <2>1, <2>2, <2>3, Zenon
<1>3. 0 \in T
  OBVIOUS
<1>4. ASSUME NEW n \in T PROVE n + 1 \in T
  <2> SUFFICES ASSUME n + 1 \in 1 .. Len(s)
               PROVE  f[n + 1] = g[n + 1] /\ f[n + 1] \in Seq(X)
    BY <1>4
  <2> DEFINE m == n + 1
  <2>1. /\ f[m] = IF m = 1 THEN s[m] ELSE f[m - 1] \o s[m]
        /\ g[m] = IF m = 1 THEN s[m] ELSE g[m - 1] \o s[m]
    BY <1>2, Zenon
  <2>2. m - 1 = n /\ (m = 1 <=> n = 0) /\ s[m] \in Seq(X)
    BY <1>1, <1>4
  <2>3. n # 0 => f[n] = g[n] /\ f[n] \in Seq(X)
    BY <1>1, <1>4
  <2> HIDE DEF m
  <2>4. CASE n = 0
    BY <2>1, <2>2, <2>4 DEF m
  <2>5. CASE n # 0
    <3>1. f[m] = f[n] \o s[m] /\ g[m] = g[n] \o s[m]
      BY <2>1, <2>2, <2>5, Zenon
    <3>2. f[n] \o s[m] \in Seq(X)
      BY <2>2, <2>3, <2>5, ConcatProperties
    <3>3. QED
      BY <2>3, <2>5, <3>1, <3>2 DEF m
  <2>6. QED BY <2>4, <2>5
<1>5. \A n \in Nat : n \in T
  <2> HIDE DEF T
  <2>1. T \subseteq Nat
    BY DEF T
  <2>2. QED
    BY <1>3, <1>4, <2>1, EveryNatural
<1>6. QED
  BY <1>1, <1>5

(* What FlattenSeq returns.                                                *)
LEMMA FlattenIs ==
  ASSUME NEW X, NEW s \in Seq(Seq(X))
  PROVE  \E f : Flattening(s, f) /\ FlattenSeq(s) = IF Len(s) = 0 THEN << >> ELSE f[Len(s)]
<1> DEFINE F == CHOOSE f : f = [i \in 1 .. Len(s) |-> IF i = 1 THEN s[i] ELSE f[i - 1] \o s[i]]
<1>1. Flattening(s, F)
  BY FlatteningExists DEF Flattening
<1>2. FlattenSeq(s) = IF Len(s) = 0 THEN s ELSE F[Len(s)]
  BY DEF FlattenSeq
<1> HIDE DEF F
<1>3. Len(s) = 0 => s = << >>
  BY EmptySeq
<1>4. QED
  BY <1>1, <1>2, <1>3

(* Flattening one sequence more.                                           *)
LEMMA FlattenAppend ==
  ASSUME NEW X, NEW s \in Seq(Seq(X)), NEW x \in Seq(X)
  PROVE  /\ FlattenSeq(s) \in Seq(X)
         /\ FlattenSeq(Append(s, x)) = FlattenSeq(s) \o x
<1>1. PICK t \in Seq(Seq(X)) : t = Append(s, x)
  BY AppendProperties
<1>2. PICK n \in Nat : n = Len(s)
  BY LenProperties
<1>3. /\ Len(t) = n + 1
      /\ \A i \in 1 .. n : t[i] = s[i]
      /\ t[n + 1] = x
  BY <1>1, <1>2, AppendProperties
<1>4. PICK f : Flattening(s, f) /\ FlattenSeq(s) = IF Len(s) = 0 THEN << >> ELSE f[Len(s)]
  BY FlattenIs
<1>5. PICK g : Flattening(t, g) /\ FlattenSeq(t) = IF Len(t) = 0 THEN << >> ELSE g[Len(t)]
  BY FlattenIs
<1>6. FlattenSeq(t) = g[n + 1]
  BY <1>3, <1>5
<1>7. \A i \in 1 .. n : f[i] = g[i] /\ f[i] \in Seq(X)
  <2>1. Len(s) <= Len(t) /\ \A i \in 1 .. Len(s) : s[i] = t[i]
    BY <1>2, <1>3
  <2>2. QED
    BY <1>2, <1>4, <1>5, <2>1, FlatteningUnique
<1>8. g[n + 1] = IF n + 1 = 1 THEN x ELSE g[n + 1 - 1] \o x
  <2>1. ASSUME NEW i \in 1 .. Len(t)
        PROVE  g[i] = IF i = 1 THEN t[i] ELSE g[i - 1] \o t[i]
    BY <1>5, Zenon DEF Flattening
  <2>2. PICK m : m = n + 1
    OBVIOUS
  <2>3. m \in 1 .. Len(t) /\ t[m] = x
    BY <1>3, <2>2
  <2>4. g[m] = IF m = 1 THEN x ELSE g[m - 1] \o x
    BY <2>1, <2>3, Zenon
  <2>5. QED
    BY <2>2, <2>4
<1>9. n + 1 - 1 = n /\ (n + 1 = 1 <=> n = 0)
  OBVIOUS
<1>10. CASE n = 0
  <2>1. FlattenSeq(s) = << >>
    BY <1>2, <1>4, <1>10
  <2>2. FlattenSeq(t) = x
    BY <1>6, <1>8, <1>9, <1>10, Zenon
  <2>3. << >> \in Seq(X) /\ << >> \o x = x
    BY EmptySeq, ConcatEmptySeq
  <2>4. QED
    BY <1>1, <2>1, <2>2, <2>3, Zenon
<1>11. CASE n # 0
  <2>1. n \in 1 .. n
    BY <1>11
  <2>2. FlattenSeq(s) = f[n] /\ f[n] = g[n] /\ f[n] \in Seq(X)
    BY <1>2, <1>4, <1>7, <1>11, <2>1
  <2>3. FlattenSeq(t) = g[n] \o x
    BY <1>6, <1>8, <1>9, <1>11, Zenon
  <2>4. QED
    BY <1>1, <2>2, <2>3, Zenon
<1>12. QED
  BY <1>10, <1>11

-----------------------------------------------------------------------------
(* What the SDK is given.                                                  *)

Marks == Nat \X Nat

(* The bytes to be served of the i-th of some lines, and of the first k.   *)
Taken(w, i) == IF w[i].holds # "blank" THEN [k \in 1 .. Size(w[i]) |-> <<i, k>>] ELSE << >>

Given(w, k) == FlattenSeq([i \in 1 .. k |-> Taken(w, i)])

(* The lines before the n-th keep the framing, and it breaks there.        *)
BreaksAt(w, n) ==
  /\ n \in 1 .. Len(w) + 1
  /\ \A i \in 1 .. n - 1 : Good(w[i])
  /\ n <= Len(w) => ~ Good(w[n])

(* Until the reader fails, what it has served and what it still holds are  *)
(* the lines it has finished with; when it has failed, the bytes served    *)
(* are those before the line that breaks the framing, and if none does the *)
(* input has ended.                                                        *)
Offered ==
  /\ failed = "no" =>
       /\ \A i \in 1 .. at : Good(written[i])
       /\ served \o buf = Given(written, at)
       /\ line <= IF at < Len(written) THEN Size(Current) ELSE 0
  /\ failed # "no" =>
       \E n \in 1 .. Len(written) + 1 :
         /\ BreaksAt(written, n)
         /\ n = Len(written) + 1 => input # "open"
         /\ served = Given(written, n - 1)

(* A nonempty set of numbers has a least element.                          *)
LEMMA LeastNumber ==
  ASSUME NEW T, T \subseteq Nat, T # {}
  PROVE  Min(T) \in T /\ \A m \in T : Min(T) <= m
<1>1. \E k \in T : \A j \in T : ~ (<<j, k>> \in OpToRel(<, Nat))
  BY NatLessThanWellFounded, WFMin
<1>2. PICK k \in T : \A j \in T : ~ (j < k)
  BY <1>1 DEF OpToRel
<1>3. \A j \in T : k <= j
  BY <1>2
<1>4. QED
  BY <1>3 DEF Min

(* The bytes of a line, and their number.                                  *)
LEMMA TakenTyped ==
  ASSUME NEW w \in Seq(Lines), NEW i \in 1 .. Len(w)
  PROVE  Size(w[i]) \in Nat /\ Taken(w, i) \in Seq(Marks)
<1>1. w[i] \in Lines /\ i \in Nat
  OBVIOUS
<1>2. Size(w[i]) \in Nat
  BY <1>1, LineAssumption DEF Size
<1>3. \A k \in 1 .. Size(w[i]) : <<i, k>> \in Marks
  BY <1>1 DEF Marks
<1>4. [k \in 1 .. Size(w[i]) |-> <<i, k>>] \in Seq(Marks)
  BY <1>2, <1>3
<1>5. QED
  BY <1>2, <1>4 DEF Taken

(* The first lines, one line at a time.                                    *)
LEMMA GivenGrows ==
  ASSUME NEW w \in Seq(Lines), NEW k \in Nat, k < Len(w)
  PROVE  /\ Given(w, k) \in Seq(Marks)
         /\ Given(w, k + 1) = Given(w, k) \o Taken(w, k + 1)
<1> DEFINE T(i) == Taken(w, i)
<1> DEFINE s == [i \in 1 .. k |-> T(i)]
<1> DEFINE t == [i \in 1 .. k + 1 |-> T(i)]
<1>1. \A i \in 1 .. k + 1 : T(i) \in Seq(Marks)
  <2>1. ASSUME NEW i \in 1 .. k + 1 PROVE i \in 1 .. Len(w)
    OBVIOUS
  <2>2. QED
    BY <2>1, TakenTyped
<1>2. FlattenSeq(s) = Given(w, k) /\ FlattenSeq(t) = Given(w, k + 1) /\ T(k + 1) = Taken(w, k + 1)
  BY DEF Given
<1> HIDE DEF T
<1>3. s \in Seq(Seq(Marks)) /\ Len(s) = k
  BY <1>1
<1>4. t = Append(s, T(k + 1))
  OBVIOUS
<1>5. T(k + 1) \in Seq(Marks)
  BY <1>1
<1> HIDE DEF s, t
<1>6. /\ FlattenSeq(s) \in Seq(Marks)
      /\ FlattenSeq(Append(s, T(k + 1))) = FlattenSeq(s) \o T(k + 1)
  BY <1>3, <1>5, FlattenAppend
<1>7. QED
  BY <1>2, <1>4, <1>6, Zenon

(* No line yields no byte.                                                 *)
LEMMA GivenNone == ASSUME NEW w PROVE Given(w, 0) = << >>
<1> DEFINE s == [i \in 1 .. 0 |-> Taken(w, i)]
<1>1. s = << >>
  OBVIOUS
<1>2. Given(w, 0) = FlattenSeq(s)
  BY DEF Given
<1> HIDE DEF s
<1>3. FlattenSeq(<< >>) = << >>
  BY DEF FlattenSeq
<1>4. QED
  BY <1>1, <1>2, <1>3, Zenon

(* What fewer lines yield is a prefix of what more do.                     *)
LEMMA GivenPrefix ==
  ASSUME NEW w \in Seq(Lines), NEW j \in Nat, NEW k \in Nat, j <= k, k <= Len(w)
  PROVE  /\ Given(w, j) \in Seq(Marks)
         /\ \E u \in Seq(Marks) : Given(w, k) = Given(w, j) \o u
<1> DEFINE P(n) == n <= Len(w) => Given(w, n) \in Seq(Marks)
<1> DEFINE Q(n) == n >= j /\ n <= Len(w) => \E u \in Seq(Marks) : Given(w, n) = Given(w, j) \o u
<1> DEFINE T == {n \in Nat : P(n) /\ Q(n)}
<1>0. Len(w) \in Nat
  OBVIOUS
<1>1. P(0)
  BY GivenNone, EmptySeq
<1>2. P(j) => Q(j)
  BY ConcatEmptySeq, EmptySeq
<1>3. Q(0) \/ ~ P(0)
  <2>1. j = 0 \/ ~ (0 >= j)
    OBVIOUS
  <2>2. QED
    BY <1>2, <2>1
<1>4. ASSUME NEW n \in Nat, P(n), Q(n)
      PROVE  P(n + 1) /\ Q(n + 1)
  <2>1. CASE ~ (n + 1 <= Len(w))
    BY <2>1
  <2>2. CASE n + 1 <= Len(w)
    <3>1. n < Len(w) /\ n + 1 \in 1 .. Len(w) /\ n <= Len(w)
      BY <1>0, <2>2
    <3>2. Given(w, n) \in Seq(Marks) /\ Given(w, n + 1) = Given(w, n) \o Taken(w, n + 1)
      BY <3>1, GivenGrows
    <3>3. Taken(w, n + 1) \in Seq(Marks)
      BY <3>1, TakenTyped
    <3>4. Given(w, n + 1) \in Seq(Marks)
      BY <3>2, <3>3, ConcatProperties
    <3>5. CASE n + 1 = j
      BY <1>2, <3>4, <3>5
    <3>6. CASE n >= j
      <4>1. PICK u \in Seq(Marks) : Given(w, n) = Given(w, j) \o u
        BY <1>4, <3>1, <3>6
      <4>2. Given(w, j) \in Seq(Marks)
        <5>1. CASE j = n
          BY <3>2, <5>1
        <5>2. CASE j # n
          <6>1. j < Len(w)
            BY <1>0, <3>1, <3>6, <5>2
          <6>2. QED
            BY <6>1, GivenGrows
        <5>3. QED BY <5>1, <5>2
      <4>3. (Given(w, j) \o u) \o Taken(w, n + 1) = Given(w, j) \o (u \o Taken(w, n + 1))
        BY <3>3, <4>2, ConcatAssociative
      <4>4. u \o Taken(w, n + 1) \in Seq(Marks)
        BY <3>3, ConcatProperties
      <4>5. Given(w, n + 1) = Given(w, j) \o (u \o Taken(w, n + 1))
        BY <3>2, <4>1, <4>3, Zenon
      <4>6. QED
        BY <3>4, <4>4, <4>5
    <3>7. CASE ~ (n + 1 >= j)
      BY <3>4, <3>7
    <3>8. QED
      BY <3>5, <3>6, <3>7
  <2>3. QED
    BY <2>1, <2>2
<1>5. 0 \in T /\ T \subseteq Nat
  BY <1>1, <1>3
<1>6. ASSUME NEW n \in T PROVE n + 1 \in T
  <2> HIDE DEF P, Q
  <2>1. n \in Nat /\ P(n) /\ Q(n)
    BY <1>6
  <2>2. P(n + 1) /\ Q(n + 1) /\ n + 1 \in Nat
    BY <1>4, <2>1
  <2>3. QED
    BY <2>2
<1>7. j \in T /\ k \in T
  <2> HIDE DEF T
  <2>1. QED
    BY <1>5, <1>6, EveryNatural
<1>8. P(j) /\ Q(k)
  <2> HIDE DEF P, Q
  <2>1. QED
    BY <1>7
<1>9. j <= Len(w) /\ k >= j /\ k <= Len(w)
  BY <1>0
<1>10. QED
  BY <1>8, <1>9, Zenon

(* A line more changes nothing of what the first ones yield.               *)
LEMMA GivenKept ==
  ASSUME NEW w \in Seq(Lines), NEW l \in Lines, NEW k \in Nat, k <= Len(w)
  PROVE  Given(Append(w, l), k) = Given(w, k)
<1> DEFINE v == Append(w, l)
<1>1. \A i \in 1 .. k : v[i] = w[i]
  BY AppendProperties
<1> DEFINE F(i) == Taken(v, i)
<1> DEFINE G(i) == Taken(w, i)
<1>2. \A i \in 1 .. k : F(i) = G(i)
  BY <1>1, Zenon DEF Taken
<1>3. Given(v, k) = FlattenSeq([i \in 1 .. k |-> F(i)]) /\ Given(w, k) = FlattenSeq([i \in 1 .. k |-> G(i)])
  BY Zenon DEF Given
<1> HIDE DEF F, G, v
<1>4. [i \in 1 .. k |-> F(i)] = [i \in 1 .. k |-> G(i)]
  BY <1>2
<1>5. Given(v, k) = Given(w, k)
  BY <1>3, <1>4, Zenon
<1>6. QED
  BY <1>5 DEF v

(* There is one place where the framing breaks, if only behind the lines.  *)
LEMMA BreaksOnce ==
  ASSUME NEW w \in Seq(Lines), NEW m, NEW n, BreaksAt(w, m), BreaksAt(w, n)
  PROVE  m = n
<1>1. Len(w) \in Nat /\ m \in 1 .. Len(w) + 1 /\ n \in 1 .. Len(w) + 1
  BY DEF BreaksAt
<1>2. ASSUME m < n PROVE FALSE
  <2>1. m \in 1 .. n - 1 /\ m <= Len(w)
    BY <1>1, <1>2
  <2>2. QED
    BY <2>1 DEF BreaksAt
<1>3. ASSUME n < m PROVE FALSE
  <2>1. n \in 1 .. m - 1 /\ n <= Len(w)
    BY <1>1, <1>3
  <2>2. QED
    BY <2>1 DEF BreaksAt
<1>4. QED
  BY <1>1, <1>2, <1>3

(* What the SDK is to be given are the lines before it.                    *)
LEMMA WantedIs ==
  ASSUME written \in Seq(Lines)
  PROVE  \E n : BreaksAt(written, n) /\ Wanted = Given(written, n - 1)
<1> DEFINE bad == {i \in DOMAIN written : ~ Good(written[i])}
<1> DEFINE stops == bad \cup {Len(written) + 1}
<1> DEFINE n == Min(stops)
<1> DEFINE kept == {i \in 1 .. n - 1 : written[i].holds # "blank"}
<1> DEFINE F(i) == IF i \in kept THEN Bytes(i) ELSE << >>
<1> DEFINE G(i) == Taken(written, i)
<1>1. Len(written) \in Nat /\ DOMAIN written = 1 .. Len(written)
  OBVIOUS
<1>2. stops \subseteq Nat /\ Len(written) + 1 \in stops
  BY <1>1
<1>3. n \in stops /\ \A m \in stops : n <= m
  <2> HIDE DEF stops
  <2>1. QED
    BY <1>2, LeastNumber
<1>4. n \in 1 .. Len(written) + 1
  <2>1. \A m \in stops : m \in 1 .. Len(written) + 1
    BY <1>1
  <2> HIDE DEF stops, n
  <2>2. QED
    BY <1>3, <2>1
<1>5. \A i \in 1 .. n - 1 : Good(written[i])
  <2> HIDE DEF n
  <2>1. SUFFICES ASSUME NEW i \in 1 .. n - 1, ~ Good(written[i]) PROVE FALSE
    OBVIOUS
  <2>2. i \in 1 .. Len(written) /\ i < n
    BY <1>1, <1>4
  <2>3. i \in stops
    BY <1>1, <2>1, <2>2
  <2>4. n <= i
    BY <1>3, <2>3
  <2>5. QED
    BY <1>4, <2>2, <2>4
<1>6. n <= Len(written) => ~ Good(written[n])
  <2> HIDE DEF n
  <2>1. n # Len(written) + 1 => n \in bad
    BY <1>3
  <2>2. QED
    BY <1>1, <2>1
<1>7. BreaksAt(written, n)
  <2> HIDE DEF n
  <2>1. QED
    BY <1>4, <1>5, <1>6 DEF BreaksAt
<1>8. Wanted = FlattenSeq([i \in 1 .. n - 1 |-> F(i)])
  BY Zenon DEF Wanted
<1>9. Given(written, n - 1) = FlattenSeq([i \in 1 .. n - 1 |-> G(i)])
  BY Zenon DEF Given
<1>10. ASSUME NEW i \in 1 .. n - 1 PROVE F(i) = G(i)
  <2> HIDE DEF n
  <2>1. i \in kept <=> written[i].holds # "blank"
    OBVIOUS
  <2>2. QED
    BY <2>1, Zenon DEF Taken, Bytes
<1> HIDE DEF n, kept, F, G
<1>11. [i \in 1 .. n - 1 |-> F(i)] = [i \in 1 .. n - 1 |-> G(i)]
  BY <1>10
<1>12. Wanted = Given(written, n - 1)
  BY <1>8, <1>9, <1>11, Zenon
<1>13. QED
  BY <1>7, <1>12

(* A sequence is a prefix of it and more.                                  *)
LEMMA PrefixOf ==
  ASSUME NEW X, NEW s \in Seq(X), NEW u \in Seq(X)
  PROVE  IsPrefix(s, s \o u)
<1>1. PICK t : t = s \o u
  OBVIOUS
<1>2. t \in Seq(X) /\ Len(t) = Len(s) + Len(u) /\ Len(s) \in Nat /\ Len(u) \in Nat
  BY <1>1, ConcatProperties, LenProperties
<1>3. SubSeq(t, 1, Len(s)) = s /\ SubSeq(s, 1, Len(s)) = s
  BY <1>1, ConcatSimplifications, SubSeqFull
<1>4. Len(s) <= Len(t)
  BY <1>2
<1>5. IsPrefix(s, t)
  BY <1>3, <1>4 DEF IsPrefix
<1>6. QED
  BY <1>1, <1>5, Zenon

(* What is served while the reader has not failed, and when it has.        *)
LEMMA ServedAreOffered == LineTypeOK /\ Offered => ServedLines
<1> SUFFICES ASSUME LineTypeOK, Offered PROVE ServedLines
  OBVIOUS
<1>1. /\ written \in Seq(Lines) /\ at \in 0 .. Len(written) /\ Len(written) \in Nat
      /\ served \in Seq(Marks) /\ buf \in Seq(Marks)
  BY DEF LineTypeOK, Marks
<1>2. PICK n : BreaksAt(written, n) /\ Wanted = Given(written, n - 1)
  BY <1>1, WantedIs
<1>3. n \in 1 .. Len(written) + 1
  BY <1>2 DEF BreaksAt
<1>4. PICK m : m = n - 1
  OBVIOUS
<1>5. m \in Nat /\ m <= Len(written) /\ Wanted = Given(written, m)
  BY <1>1, <1>2, <1>3, <1>4
<1>6. CASE failed = "no"
  <2>1. served \o buf = Given(written, at) /\ \A i \in 1 .. at : Good(written[i])
    BY <1>6 DEF Offered
  <2>2. at <= m
    <3>1. ASSUME n <= at PROVE FALSE
      <4>1. n \in 1 .. at /\ n <= Len(written)
        BY <1>1, <1>3, <3>1
      <4>2. QED
        BY <1>2, <2>1, <4>1 DEF BreaksAt
    <3>2. QED
      BY <1>1, <1>3, <1>4, <3>1
  <2>3. PICK u \in Seq(Marks) : Given(written, m) = Given(written, at) \o u
    <3>1. at \in Nat
      BY <1>1
    <3>2. QED
      BY <1>1, <1>5, <2>2, <3>1, GivenPrefix
  <2>4. buf \o u \in Seq(Marks) /\ (served \o buf) \o u = served \o (buf \o u)
    BY <1>1, ConcatProperties, ConcatAssociative
  <2>5. Wanted = served \o (buf \o u)
    BY <1>5, <2>1, <2>3, <2>4, Zenon
  <2>6. IsPrefix(served, served \o (buf \o u))
    BY <1>1, <2>4, PrefixOf
  <2>7. IsPrefix(served, Wanted)
    BY <2>5, <2>6, Zenon
  <2>8. QED
    BY <1>6, <2>7, Zenon DEF ServedLines
<1>7. CASE failed # "no"
  <2>1. PICK k \in 1 .. Len(written) + 1 : BreaksAt(written, k) /\ served = Given(written, k - 1)
    BY <1>7 DEF Offered
  <2>2. k = n
    BY <1>1, <1>2, <2>1, BreaksOnce
  <2>3. served = Wanted
    BY <1>2, <2>1, <2>2, Zenon
  <2>4. IsPrefix(served, served \o << >>) /\ served \o << >> = served
    BY <1>1, PrefixOf, EmptySeq, ConcatEmptySeq
  <2>5. IsPrefix(served, Wanted)
    BY <2>3, <2>4, Zenon
  <2>6. QED
    BY <2>3, <2>5, Zenon DEF ServedLines
<1>8. QED
  BY <1>6, <1>7

(* Nothing has been read.                                                  *)
LEMMA OfferedInit == LineInit => Offered
<1> SUFFICES ASSUME LineInit PROVE Offered
  OBVIOUS
<1>1. failed = "no" /\ at = 0 /\ Len(written) = 0 /\ line = 0 /\ served = << >> /\ buf = << >>
  BY DEF LineInit
<1>2. Given(written, 0) = << >> /\ << >> \o << >> = << >>
  BY GivenNone
<1>3. served \o buf = Given(written, at)
  BY <1>1, <1>2, Zenon
<1>4. QED
  BY <1>1, <1>3 DEF Offered

(* A line the client writes is behind those that were read.                *)
LEMMA OfferedWrites == LineTypeOK /\ Offered /\ ClientWrites => Offered'
<1> SUFFICES ASSUME LineTypeOK, Offered, ClientWrites PROVE Offered'
  OBVIOUS
<1>1. PICK l \in Lines : written' = Append(written, l)
  BY DEF ClientWrites
<1>2. /\ written \in Seq(Lines) /\ at \in 0 .. Len(written) /\ Len(written) \in Nat
      /\ input = "open" /\ UNCHANGED <<input, at, line, buf, failed, served>>
  BY DEF LineTypeOK, ClientWrites
<1>3. /\ Len(written') = Len(written) + 1
      /\ written'[Len(written) + 1] = l
      /\ \A i \in 1 .. Len(written) : written'[i] = written[i]
  BY <1>1, <1>2, AppendProperties
<1>4. \A k \in 0 .. Len(written) : Given(written', k) = Given(written, k)
  <2>1. ASSUME NEW k \in 0 .. Len(written) PROVE Given(Append(written, l), k) = Given(written, k)
    BY <1>2, GivenKept
  <2>2. QED
    BY <1>1, <2>1, Zenon
<1>5. CASE failed = "no"
  <2>1. /\ \A i \in 1 .. at : Good(written[i])
        /\ served \o buf = Given(written, at)
        /\ line <= IF at < Len(written) THEN Size(Current) ELSE 0
    BY <1>5 DEF Offered
  <2>2. \A i \in 1 .. at : Good(written'[i])
    <3>1. \A i \in 1 .. at : written'[i] = written[i]
      BY <1>2, <1>3
    <3>2. QED
      BY <2>1, <3>1, Zenon
  <2>3. Given(written', at) = Given(written, at)
    BY <1>2, <1>4
  <2>4. Size(l) \in Nat
    BY LineAssumption DEF Size
  <2>5. line <= Size(written'[at + 1])
    <3>1. CASE at < Len(written)
      <4>1. written'[at + 1] = written[at + 1]
        BY <1>2, <1>3, <3>1
      <4>2. QED
        BY <2>1, <3>1, <4>1 DEF Current
    <3>2. CASE ~ (at < Len(written))
      <4>1. written'[at + 1] = l /\ line <= 0
        BY <1>2, <1>3, <2>1, <3>2
      <4>2. line \in Int
        BY DEF LineTypeOK
      <4>3. QED
        BY <2>4, <4>1, <4>2
    <3>3. QED
      BY <3>1, <3>2
  <2>6. at < Len(written')
    BY <1>2, <1>3
  <2>7. QED
    BY <1>2, <1>5, <2>1, <2>2, <2>3, <2>5, <2>6 DEF Offered, Current
<1>6. CASE failed # "no"
  <2>1. PICK n \in 1 .. Len(written) + 1 :
          /\ BreaksAt(written, n)
          /\ n = Len(written) + 1 => input # "open"
          /\ served = Given(written, n - 1)
    BY <1>6 DEF Offered
  <2>2. n \in 1 .. Len(written) /\ n - 1 \in 0 .. Len(written)
    BY <1>2, <2>1
  <2>3. Given(written', n - 1) = Given(written, n - 1)
    BY <1>4, <2>2
  <2>4. \A i \in 1 .. n : written'[i] = written[i]
    BY <1>2, <1>3, <2>2
  <2>5. BreaksAt(written', n)
    <3>1. \A i \in 1 .. n - 1 : Good(written[i]) /\ written'[i] = written[i]
      BY <2>1, <2>2, <2>4 DEF BreaksAt
    <3>2. \A i \in 1 .. n - 1 : Good(written'[i])
      BY <3>1, Zenon
    <3>3. ~ Good(written[n]) /\ written'[n] = written[n]
      BY <2>1, <2>2, <2>4 DEF BreaksAt
    <3>4. ~ Good(written'[n])
      BY <3>3, Zenon
    <3>5. n \in 1 .. Len(written') + 1
      BY <1>2, <1>3, <2>2
    <3>6. QED
      BY <3>2, <3>4, <3>5 DEF BreaksAt
  <2>6. n \in 1 .. Len(written') + 1 /\ n # Len(written') + 1
    BY <1>2, <1>3, <2>2
  <2>7. served' = Given(written', n - 1)
    BY <1>2, <2>1, <2>3
  <2>8. QED
    BY <1>2, <1>6, <2>5, <2>6, <2>7 DEF Offered
<1>7. QED
  BY <1>5, <1>6

(* The reader fails at the next line, with nothing left to serve.          *)
LEMMA OfferedFails ==
  ASSUME LineTypeOK, Offered, NeedsLine, failed' # "no", UNCHANGED <<written, input, served>>,
         at < Len(written) => ~ Good(Current),
         at = Len(written) => input # "open"
  PROVE  Offered'
<1>1. /\ written \in Seq(Lines) /\ at \in 0 .. Len(written) /\ Len(written) \in Nat
      /\ served \in Seq(Marks)
  BY DEF LineTypeOK, Marks
<1>2. /\ \A i \in 1 .. at : Good(written[i])
      /\ served \o buf = Given(written, at)
      /\ buf = << >>
  BY DEF Offered, NeedsLine
<1>3. served = Given(written, at)
  <2>1. served \o << >> = served
    BY <1>1, ConcatEmptySeq
  <2>2. QED
    BY <1>2, <2>1, Zenon
<1>4. PICK n : n = at + 1
  OBVIOUS
<1>5. n \in 1 .. Len(written) + 1 /\ n - 1 = at /\ (n <= Len(written) <=> at < Len(written))
  BY <1>1, <1>4
<1>6. BreaksAt(written, n)
  BY <1>2, <1>4, <1>5 DEF BreaksAt, Current
<1>7. served = Given(written, n - 1)
  BY <1>3, <1>5, Zenon
<1>8. n = Len(written) + 1 => input # "open"
  BY <1>1, <1>5
<1>9. \E k \in 1 .. Len(written) + 1 :
        /\ BreaksAt(written, k)
        /\ k = Len(written) + 1 => input # "open"
        /\ served = Given(written, k - 1)
  BY <1>5, <1>6, <1>7, <1>8
<1>10. QED
  BY <1>9 DEF Offered

(* A line is accumulated, or found to be too long.                         *)
LEMMA OfferedReads == LineTypeOK /\ Offered /\ ReadSlice => Offered'
<1> SUFFICES ASSUME LineTypeOK, Offered, ReadSlice PROVE Offered'
  OBVIOUS
<1>1. /\ written \in Seq(Lines) /\ at \in 0 .. Len(written) /\ Len(written) \in Nat
      /\ at < Len(written) /\ NeedsLine /\ failed = "no" /\ line \in Nat
      /\ UNCHANGED <<written, input, at, buf, served>>
  BY DEF LineTypeOK, ReadSlice, NeedsLine
<1>2. Size(Current) \in Nat
  <2>1. at + 1 \in 1 .. Len(written)
    BY <1>1
  <2>2. QED
    BY <2>1, BytesTyped DEF Current
<1>3. line <= Size(Current)
  BY <1>1 DEF Offered
<1>4. line' <= Size(Current)
  <2>1. Unread \in Nat /\ line + Unread = Size(Current)
    BY <1>1, <1>2, <1>3 DEF Unread
  <2>2. Min({Unread, Buffer}) \in Nat /\ Min({Unread, Buffer}) <= Unread
    BY <2>1, LineNumbers, MinOfTwo
  <2>3. line' = line + Min({Unread, Buffer})
    BY DEF ReadSlice
  <2>4. QED
    BY <1>1, <2>1, <2>2, <2>3
<1>5. CASE failed' = "no"
  <2>1. Current' = Current
    BY <1>1 DEF Current
  <2>2. line' <= Size(Current')
    BY <1>4, <2>1, Zenon
  <2>3. QED
    BY <1>1, <1>5, <2>2 DEF Offered
<1>6. CASE failed' # "no"
  <2>1. TooLong(line')
    BY <1>6 DEF ReadSlice
  <2>2. line' \in Int
    <3>1. LineTypeOK'
      BY LineTypeStep DEF LineNext
    <3>2. QED
      BY <3>1 DEF LineTypeOK
  <2>3. ~ Good(Current)
    BY <1>2, <1>4, <2>1, <2>2, LineNumbers DEF Good, TooLong
  <2>4. QED
    BY <1>1, <1>6, <2>3, OfferedFails
<1>7. QED
  BY <1>5, <1>6

(* A whole line is refused, skipped or held to be served.                  *)
LEMMA OfferedEnds == LineTypeOK /\ Offered /\ LineEnds => Offered'
<1> SUFFICES ASSUME LineTypeOK, Offered, LineEnds PROVE Offered'
  OBVIOUS
<1>1. /\ written \in Seq(Lines) /\ at \in Nat /\ Len(written) \in Nat
      /\ at < Len(written) /\ NeedsLine /\ failed = "no" /\ buf = << >> /\ line \in Nat
      /\ line <= Limit + 1
      /\ UNCHANGED <<written, input, served>> /\ at' = at + 1 /\ line' = 0
      /\ Current.newline /\ Unread = 0
  BY DEF LineTypeOK, LineEnds, NeedsLine
<1>2. Size(Current) \in Nat /\ Current \in Lines
  <2>1. at + 1 \in 1 .. Len(written)
    BY <1>1
  <2>2. QED
    BY <2>1, BytesTyped DEF Current
<1>3. ~ TooLong(Size(Current))
  BY <1>1, <1>2, LineNumbers DEF Unread, TooLong
<1>4. CASE Current.holds = "junk"
  <2>1. ~ Good(Current)
    BY <1>4 DEF Good
  <2>2. failed' # "no"
    BY <1>4 DEF LineEnds
  <2>3. QED
    BY <1>1, <2>1, <2>2, OfferedFails
<1>5. CASE Current.holds # "junk"
  <2>1. Good(Current) /\ failed' = "no"
    BY <1>1, <1>3, <1>5 DEF Good, LineEnds
  <2>2. \A i \in 1 .. at + 1 : Good(written[i])
    <3>1. \A i \in 1 .. at : Good(written[i])
      BY <1>1 DEF Offered
    <3>2. Good(written[at + 1])
      BY <2>1 DEF Current
    <3>3. \A i \in 1 .. at + 1 : i \in 1 .. at \/ i = at + 1
      BY <1>1
    <3>4. QED
      BY <3>1, <3>2, <3>3, Zenon
  <2>3. buf' = Taken(written, at + 1)
    <3>1. Current.holds \in Contents
      BY <1>2, LineAssumption
    <3>2. Current.holds \in {"call", "other"} <=> Current.holds # "blank"
      BY <1>5, <3>1 DEF Contents
    <3>3. buf' = IF Current.holds \in {"call", "other"} THEN Bytes(at + 1) ELSE << >>
      BY DEF LineEnds
    <3>4. QED
      BY <3>2, <3>3, Zenon DEF Taken, Bytes, Current
  <2>4. served = Given(written, at)
    <3>1. served \o buf = Given(written, at)
      BY <1>1 DEF Offered
    <3>2. served \o << >> = served
      BY ConcatEmptySeq DEF LineTypeOK
    <3>3. QED
      BY <1>1, <3>1, <3>2, Zenon
  <2>5. Given(written, at + 1) = Given(written, at) \o Taken(written, at + 1)
    BY <1>1, GivenGrows
  <2>6. served' \o buf' = Given(written', at')
    BY <1>1, <2>3, <2>4, <2>5, Zenon
  <2>7. line' <= IF at' < Len(written') THEN Size(Current') ELSE 0
    <3>1. CASE at' < Len(written')
      <4>1. at + 2 \in 1 .. Len(written)
        BY <1>1, <3>1
      <4>2. Size(written[at + 2]) \in Nat
        BY <4>1, BytesTyped
      <4>3. Current' = written[at + 2]
        BY <1>1 DEF Current
      <4>4. QED
        BY <1>1, <3>1, <4>2, <4>3
    <3>2. CASE ~ (at' < Len(written'))
      BY <1>1, <3>2
    <3>3. QED
      BY <3>1, <3>2
  <2>8. \A i \in 1 .. at' : Good(written'[i])
    BY <1>1, <2>2
  <2>9. QED
    BY <2>1, <2>6, <2>7, <2>8 DEF Offered
<1>6. QED
  BY <1>4, <1>5

(* A sequence moved in two pieces behind another.                          *)
LEMMA MovedInPieces ==
  ASSUME NEW X, NEW s \in Seq(X), NEW t \in Seq(X), NEW n \in Nat, n <= Len(s)
  PROVE  (t \o SubSeq(s, 1, n)) \o SubSeq(s, n + 1, Len(s)) = t \o s
<1>1. Len(s) \in Nat /\ \A k \in 1 .. Len(s) : s[k] \in X
  OBVIOUS
<1>2. SubSeq(s, 1, n) \in Seq(X) /\ SubSeq(s, n + 1, Len(s)) \in Seq(X)
  <2>1. (\A k \in 1 .. n : s[k] \in X) /\ (\A k \in n + 1 .. Len(s) : s[k] \in X)
    BY <1>1
  <2>2. QED
    BY <1>1, <2>1, SubSeqProperties
<1>3. SubSeq(s, 1, n) \o SubSeq(s, n + 1, Len(s)) = SubSeq(s, 1, Len(s))
  <2>1. 1 \in 1 .. Len(s) + 1 /\ n \in 1 - 1 .. Len(s) /\ Len(s) \in n .. Len(s)
    BY <1>1
  <2>2. QED
    BY <2>1, ConcatAdjacentSubSeq
<1>4. SubSeq(s, 1, Len(s)) = s
  BY SubSeqFull
<1>5. ASSUME NEW a \in Seq(X), NEW b \in Seq(X)
      PROVE  (t \o a) \o b = t \o (a \o b)
  BY ConcatAssociative
<1>6. (t \o SubSeq(s, 1, n)) \o SubSeq(s, n + 1, Len(s)) = t \o (SubSeq(s, 1, n) \o SubSeq(s, n + 1, Len(s)))
  BY <1>2, <1>5, Zenon
<1>7. QED
  BY <1>3, <1>4, <1>6, Zenon

(* Bytes move from what is held to what is served.                         *)
LEMMA OfferedServes == LineTypeOK /\ Offered /\ Serve => Offered'
<1> SUFFICES ASSUME LineTypeOK, Offered, Serve PROVE Offered'
  OBVIOUS
<1> DEFINE n == Min({Piece, Len(buf)})
<1>1. buf \in Seq(Marks) /\ served \in Seq(Marks) /\ Len(buf) \in Nat
  BY DEF LineTypeOK, Marks
<1>2. n \in Nat /\ n <= Len(buf)
  BY <1>1, LineNumbers, MinOfTwo
<1>3. /\ served' = served \o SubSeq(buf, 1, n) /\ buf' = SubSeq(buf, n + 1, Len(buf))
      /\ UNCHANGED <<written, input, at, line, failed>> /\ failed = "no"
  BY DEF Serve
<1> HIDE DEF n
<1>4. served' \o buf' = served \o buf
  BY <1>1, <1>2, <1>3, MovedInPieces
<1>5. Current' = Current
  BY <1>3 DEF Current
<1>6. QED
  BY <1>3, <1>4, <1>5 DEF Offered

(* Every step.                                                             *)
LEMMA OfferedStep == LineTypeOK /\ Offered /\ [LineNext]_lineVars => Offered'
<1> SUFFICES ASSUME LineTypeOK, Offered, [LineNext]_lineVars PROVE Offered'
  OBVIOUS
<1>1. CASE ClientStops
  <2>1. UNCHANGED <<written, at, line, buf, failed, served>> /\ input' # "open"
    BY <1>1 DEF ClientStops
  <2>2. QED
    BY <2>1 DEF Offered, Current
<1>2. CASE InputEnds
  <2>1. /\ NeedsLine /\ input # "open" /\ failed' # "no" /\ UNCHANGED <<written, input, served>>
        /\ at < Len(written) => ~ Current.newline
    BY <1>2 DEF InputEnds
  <2>2. at < Len(written) => ~ Good(Current)
    BY <2>1 DEF Good
  <2>3. QED
    BY <2>1, <2>2, OfferedFails
<1>3. CASE UNCHANGED lineVars
  BY <1>3 DEF lineVars, Offered, Current
<1>4. QED
  BY <1>1, <1>2, <1>3, OfferedWrites, OfferedReads, OfferedEnds, OfferedServes DEF LineNext

(* The SDK is given the bytes of the valid lines in order, whole and       *)
(* nothing else, whatever their lengths, the pieces they are read and      *)
(* asked for in and the place where the framing breaks (server.go,         *)
(* boundedLineReader.Read and nextLine).                                   *)
THEOREM LinesAreServed == Spec => []ServedLines
<1>1. [Next]_vars => [LineNext]_lineVars
  BY DEF Next, CallRequested, SessionEnds, vars
<1>2. Init => LineTypeOK /\ Offered
  BY LineTypeInit, OfferedInit DEF Init
<1>3. LineTypeOK /\ Offered /\ [Next]_vars => (LineTypeOK /\ Offered)'
  BY <1>1, LineTypeStep, OfferedStep
<1>4. QED
  BY <1>2, <1>3, ServedAreOffered, PTL DEF Spec
=============================================================================
