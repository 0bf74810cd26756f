----------------------------- MODULE Connection -----------------------------
(***************************************************************************)
(* The transport to one app-server child: internal/appserver/conn.go.      *)
(*                                                                         *)
(* Three goroutines share it.  The writer moves messages from the outbox   *)
(* to the child's stdin, the reader dispatches the lines of its stdout and *)
(* ends the connection, and the caller makes one call after another and    *)
(* then closes.  The child is untrusted: it may answer anything, ask       *)
(* questions of its own, stop reading, close either pipe, or exit.         *)
(*                                                                         *)
(* A message is abstracted to what the transport does with it.  A          *)
(* notification to the child takes the path of a request whose caller has  *)
(* given up; one from the child ends in a handler, see TurnWatcher.tla.    *)
(***************************************************************************)
EXTENDS Integers, Sequences, FiniteSets

CONSTANTS
  MaxCalls,     \* calls made on one connection
  OutboxSize,   \* messages queued for the writer
  PipeSize,     \* messages the stdin pipe holds
  StdoutSize,   \* bound on the unread lines of the child
  MaxRequests   \* bound on the questions the child asks

ASSUME ConnectionAssumption ==
  /\ MaxCalls \in Nat \ {0}
  /\ OutboxSize \in Nat \ {0}
  /\ PipeSize \in Nat \ {0}
  /\ StdoutSize \in Nat \ {0}
  /\ MaxRequests \in Nat

VARIABLES
  (* the child and its pipes *)
  alive,       \* the process runs
  killed,      \* killOnce has fired
  stdin,       \* messages in the stdin pipe
  stdinOpen,   \* Counterpoint's end is open
  stdinRead,   \* the child's end is open
  stdout,      \* lines the reader has not read
  stdoutOpen,  \* the child's end is open
  asked,       \* questions the child has asked
  replied,     \* replies it has read
  (* the writer *)
  outbox, writer, stopWriter,
  (* the reader *)
  reader, pending, ch, exitErr, closed,
  (* the caller *)
  pc, id, live, result

child  == <<alive, killed, stdin, stdinOpen, stdinRead, stdout, stdoutOpen, asked, replied>>
queue  == <<outbox, writer, stopWriter>>
ends   == <<exitErr, closed>>
calls  == <<pending, ch>>
caller == <<pc, id, live, result>>
vars   == <<alive, killed, stdin, stdinOpen, stdinRead, stdout, stdoutOpen, asked,
            replied, outbox, writer, stopWriter, reader, pending, ch, exitErr,
            closed, pc, id, live, result>>

-----------------------------------------------------------------------------

Ids == 1 .. MaxCalls

(* Why a connection ended: the reader's reasons, and terminate's.          *)
Reasons == {"exited", "tooLarge", "writeFailed", "backlog"}

Lines == [kind : {"response"}, id : Ids] \cup [kind : {"request", "long"}]

Readers ==
       [step : {"scan", "terminate", "kill", "wait", "done"}]
  \cup [step : {"deliver"}, id : Ids]
  \cup [step : {"shutdown"}, err : Reasons]
  \cup [step : {"closing"}, err : Reasons, doomed : SUBSET Ids]

Writers == [step : {"select", "terminate", "done"}] \cup [step : {"write"}, msg : {"call", "reply"}]

InCall == {"send", "queue", "wait"}
Closing == {"closeStdin", "grace", "reap", "join", "closed"}

WriterDone == writer.step = "done"
WaitDone == reader.step = "done"

Init ==
  /\ alive = TRUE /\ killed = FALSE
  /\ stdin = << >> /\ stdinOpen = TRUE /\ stdinRead = TRUE
  /\ stdout = << >> /\ stdoutOpen = TRUE
  /\ asked = 0 /\ replied = 0
  /\ outbox = << >> /\ writer = [step |-> "select"] /\ stopWriter = FALSE
  /\ reader = [step |-> "scan"]
  /\ pending = {} /\ ch = [i \in Ids |-> "empty"]
  /\ exitErr = "none" /\ closed = FALSE
  /\ pc = "ready" /\ id = 0 /\ live = TRUE /\ result = "none"

-----------------------------------------------------------------------------
(* Ending a connection.                                                    *)

RecordedLast(err) == err

(* The first reason stands.                                                *)
Recorded(err) == IF exitErr = "none" THEN err ELSE exitErr

(* The reason first, and then, one step later, the kill.                   *)
Terminate(err) == exitErr' = Recorded(err) /\ stopWriter' = TRUE

ClosedErr == IF exitErr = "none" THEN "ErrClosed" ELSE exitErr

-----------------------------------------------------------------------------
(* The writer.                                                             *)

WriterStops ==
  /\ writer.step = "select"
  /\ stopWriter
  /\ writer' = [step |-> "done"]
  /\ UNCHANGED <<child, outbox, stopWriter, reader, calls, ends, caller>>

WriterTakes ==
  /\ writer.step = "select"
  /\ outbox # << >>
  /\ writer' = [step |-> "write", msg |-> Head(outbox)]
  /\ outbox' = Tail(outbox)
  /\ UNCHANGED <<child, stopWriter, reader, calls, ends, caller>>

Write ==
  /\ writer.step = "write"
  /\ stdinOpen /\ stdinRead
  /\ Len(stdin) < PipeSize
  /\ stdin' = Append(stdin, writer.msg)
  /\ writer' = [step |-> "select"]
  /\ UNCHANGED <<alive, killed, stdinOpen, stdinRead, stdout, stdoutOpen, asked, replied,
                 outbox, stopWriter, reader, calls, ends, caller>>

FailedWriteStops ==
  writer' = [step |-> "done"] /\ UNCHANGED <<stopWriter, exitErr>>

FailedWriteTerminates ==
  writer' = [step |-> "terminate"] /\ Terminate("writeFailed")

(* Either end of the pipe is closed, also while the write was blocked.     *)
WriteFails ==
  /\ writer.step = "write"
  /\ ~ stdinOpen \/ ~ stdinRead
  /\ FailedWriteTerminates
  /\ UNCHANGED <<child, outbox, reader, calls, closed, caller>>

WriterKills ==
  /\ writer.step = "terminate"
  /\ killed' = TRUE
  /\ writer' = [step |-> "done"]
  /\ UNCHANGED <<alive, stdin, stdinOpen, stdinRead, stdout, stdoutOpen, asked, replied,
                 outbox, stopWriter, reader, calls, ends, caller>>

WriterStep == WriterStops \/ WriterTakes \/ Write \/ WriteFails \/ WriterKills

-----------------------------------------------------------------------------
(* The reader.                                                             *)

Scan(kind) ==
  /\ reader.step = "scan"
  /\ stdout # << >>
  /\ Head(stdout).kind = kind
  /\ stdout' = Tail(stdout)
  /\ UNCHANGED <<alive, killed, stdin, stdinOpen, stdinRead, stdoutOpen, asked, replied,
                 closed, caller>>

StillPending(i) == pending

(* The call is taken out of the pending calls with its first response, so  *)
(* its channel, which holds one, never holds the reader.                   *)
NoLongerPending(i) == pending \ {i}

DispatchResponse ==
  /\ Scan("response")
  /\ LET i == Head(stdout).id
     IN  /\ reader' = IF i \in pending THEN [step |-> "deliver", id |-> i] ELSE reader
         /\ pending' = NoLongerPending(i)
  /\ UNCHANGED <<queue, ch, exitErr>>

Deliver ==
  /\ reader.step = "deliver"
  /\ ch[reader.id] = "empty"
  /\ ch' = [ch EXCEPT ![reader.id] = "response"]
  /\ reader' = [step |-> "scan"]
  /\ UNCHANGED <<child, queue, pending, ends, caller>>

ReplyUnbounded ==
  /\ outbox' = Append(outbox, "reply")
  /\ UNCHANGED <<stopWriter, exitErr, reader>>

ReplyOrDrop ==
  /\ outbox' = IF Len(outbox) < OutboxSize THEN Append(outbox, "reply") ELSE outbox
  /\ UNCHANGED <<stopWriter, exitErr, reader>>

(* A reply that cannot be queued ends the connection: the reader neither   *)
(* waits for the child to read nor leaves it waiting for an answer.        *)
Reply ==
  \/ /\ Len(outbox) < OutboxSize
     /\ outbox' = Append(outbox, "reply")
     /\ UNCHANGED <<stopWriter, exitErr, reader>>
  \/ /\ Len(outbox) = OutboxSize
     /\ Terminate("backlog")
     /\ reader' = [step |-> "terminate"]
     /\ UNCHANGED outbox

DispatchRequest ==
  /\ Scan("request")
  /\ Reply
  /\ UNCHANGED <<writer, calls>>

ReaderTerminates ==
  /\ reader.step = "terminate"
  /\ killed' = TRUE
  /\ reader' = [step |-> "scan"]
  /\ UNCHANGED <<alive, stdin, stdinOpen, stdinRead, stdout, stdoutOpen, asked, replied,
                 queue, calls, ends, caller>>

(* The scanner gives up on a line over MaxMessageSize.                     *)
ScanTooLong ==
  /\ Scan("long")
  /\ reader' = [step |-> "shutdown", err |-> "tooLarge"]
  /\ UNCHANGED <<queue, calls, exitErr>>

ScanEOF ==
  /\ reader.step = "scan"
  /\ stdout = << >>
  /\ ~ stdoutOpen
  /\ reader' = [step |-> "shutdown", err |-> "exited"]
  /\ UNCHANGED <<child, queue, calls, ends, caller>>

Shutdown ==
  /\ reader.step = "shutdown"
  /\ exitErr' = Recorded(reader.err)
  /\ reader' = [step |-> "closing", err |-> reader.err, doomed |-> pending]
  /\ pending' = {}
  /\ UNCHANGED <<child, queue, ch, closed, caller>>

(* The pending calls are woken, then everyone; the writer stops.           *)
ShutdownCloses ==
  /\ reader.step = "closing"
  /\ IF reader.doomed # {}
     THEN /\ ch' = [i \in Ids |-> IF i \in reader.doomed THEN "closed" ELSE ch[i]]
          /\ reader' = [reader EXCEPT !.doomed = {}]
          /\ UNCHANGED <<closed, stopWriter>>
     ELSE /\ closed' = TRUE
          /\ stopWriter' = TRUE
          /\ reader' = [step |-> IF reader.err = "exited" THEN "wait" ELSE "kill"]
          /\ UNCHANGED ch
  /\ UNCHANGED <<child, outbox, writer, pending, exitErr, caller>>

ReaderKills ==
  /\ reader.step = "kill"
  /\ killed' = TRUE
  /\ reader' = [step |-> "wait"]
  /\ UNCHANGED <<alive, stdin, stdinOpen, stdinRead, stdout, stdoutOpen, asked, replied,
                 queue, calls, ends, caller>>

Wait ==
  /\ reader.step = "wait"
  /\ ~ alive
  /\ reader' = [step |-> "done"]
  /\ UNCHANGED <<child, queue, calls, ends, caller>>

ReaderStep ==
  \/ DispatchResponse \/ Deliver \/ DispatchRequest \/ ReaderTerminates
  \/ ScanTooLong \/ ScanEOF \/ Shutdown \/ ShutdownCloses \/ ReaderKills \/ Wait

-----------------------------------------------------------------------------
(* The caller: call and send, and then close.                              *)

Call ==
  /\ pc = "ready"
  /\ id < MaxCalls
  /\ id' = id + 1
  /\ pending' = pending \cup {id'}
  /\ live' = TRUE
  /\ result' = "none"
  /\ pc' = "send"
  /\ UNCHANGED <<child, queue, reader, ch, ends>>

CallReturns(r) ==
  /\ result' = r
  /\ pc' = "ready"
  /\ UNCHANGED <<child, queue, reader, ch, ends, id, live>>

Send ==
  /\ pc = "send"
  /\ ~ closed /\ ~ WriterDone
  /\ pc' = "queue"
  /\ UNCHANGED <<child, queue, reader, calls, ends, id, live, result>>

(* The message may still slip in behind a writer that has gone.            *)
Enqueue ==
  /\ pc = "queue"
  /\ Len(outbox) < OutboxSize
  /\ outbox' = Append(outbox, "call")
  /\ pc' = "wait"
  /\ UNCHANGED <<child, writer, stopWriter, reader, calls, ends, id, live, result>>

SendRefused ==
  /\ pc \in {"send", "queue"}
  /\ closed \/ WriterDone
  /\ pending' = pending \ {id}
  /\ CallReturns(ClosedErr)

CallCancelled ==
  /\ pc \in {"queue", "wait"}
  /\ ~ live
  /\ pending' = pending \ {id}
  /\ CallReturns("cancelled")

CallAnswered ==
  /\ pc = "wait"
  /\ ch[id] = "response"
  /\ CallReturns("answered")
  /\ UNCHANGED pending

CallFails ==
  /\ pc = "wait"
  /\ ch[id] = "closed" \/ closed
  /\ CallReturns(ClosedErr)
  /\ UNCHANGED pending

StopWriting ==
  /\ pc = "ready"
  /\ stopWriter' = TRUE
  /\ pc' = "closeStdin"
  /\ UNCHANGED <<child, outbox, writer, reader, calls, ends, id, live, result>>

CloseStdin ==
  /\ pc = "closeStdin"
  /\ stdinOpen' = FALSE
  /\ pc' = "grace"
  /\ UNCHANGED <<alive, killed, stdin, stdinRead, stdout, stdoutOpen, asked, replied,
                 queue, reader, calls, ends, id, live, result>>

GraceEndsInVain == UNCHANGED killed

GraceEndsInKill == killed' = TRUE

GraceOver ==
  /\ pc = "grace"
  /\ GraceEndsInKill
  /\ pc' = "reap"
  /\ UNCHANGED <<alive, stdin, stdinOpen, stdinRead, stdout, stdoutOpen, asked, replied,
                 queue, reader, calls, ends, id, live, result>>

ChildReaped ==
  /\ pc \in {"grace", "reap"}
  /\ WaitDone
  /\ pc' = "join"
  /\ UNCHANGED <<child, queue, reader, calls, ends, id, live, result>>

WriterJoined ==
  /\ pc = "join"
  /\ WriterDone
  /\ pc' = "closed"
  /\ UNCHANGED <<child, queue, reader, calls, ends, id, live, result>>

CallStep ==
  \/ Send \/ Enqueue \/ SendRefused \/ CallCancelled \/ CallAnswered \/ CallFails
  \/ CloseStdin \/ GraceOver \/ ChildReaped \/ WriterJoined

-----------------------------------------------------------------------------
(* The environment.                                                        *)

ContextEnds ==
  /\ pc \in InCall
  /\ live
  /\ live' = FALSE
  /\ UNCHANGED <<child, queue, reader, calls, ends, pc, id, result>>

ChildReads ==
  /\ stdinRead
  /\ stdin # << >>
  /\ stdin' = Tail(stdin)
  /\ replied' = replied + (IF Head(stdin) = "reply" THEN 1 ELSE 0)
  /\ UNCHANGED <<alive, killed, stdinOpen, stdinRead, stdout, stdoutOpen, asked,
                 queue, reader, calls, ends, caller>>

ChildWrites ==
  /\ stdoutOpen
  /\ Len(stdout) < StdoutSize
  /\ \E line \in Lines :
       /\ stdout' = Append(stdout, line)
       /\ asked' = asked + (IF line.kind = "request" THEN 1 ELSE 0)
       /\ asked' <= MaxRequests
  /\ UNCHANGED <<alive, killed, stdin, stdinOpen, stdinRead, stdoutOpen, replied,
                 queue, reader, calls, ends, caller>>

ChildClosesPipe ==
  /\ \/ stdinRead /\ stdinRead' = FALSE /\ UNCHANGED stdoutOpen
     \/ stdoutOpen /\ stdoutOpen' = FALSE /\ UNCHANGED stdinRead
  /\ UNCHANGED <<alive, killed, stdin, stdinOpen, stdout, asked, replied,
                 queue, reader, calls, ends, caller>>

(* No other process holds the child's pipes.                               *)
ChildExits ==
  /\ alive
  /\ alive' = FALSE
  /\ stdinRead' = FALSE
  /\ stdoutOpen' = FALSE
  /\ UNCHANGED <<killed, stdin, stdinOpen, stdout, asked, replied,
                 queue, reader, calls, ends, caller>>

Environment ==
  ContextEnds \/ ChildReads \/ ChildWrites \/ ChildClosesPipe \/ ChildExits

-----------------------------------------------------------------------------

Next == WriterStep \/ ReaderStep \/ Call \/ CallStep \/ StopWriting \/ Environment

Spec == Init /\ [][Next]_vars

(* The goroutines are scheduled, the grace timer fires, and a kill takes   *)
(* effect.  Nothing else of the child can be counted on, and no context is *)
(* assumed to end.                                                         *)
FairSpec ==
  /\ Spec
  /\ WF_vars(WriterStep)
  /\ WF_vars(ReaderStep)
  /\ WF_vars(CallStep)
  /\ WF_vars(killed /\ ChildExits)

-----------------------------------------------------------------------------
(* Properties.                                                             *)

TypeOK ==
  /\ alive \in BOOLEAN /\ killed \in BOOLEAN
  /\ stdin \in Seq({"call", "reply"})
  /\ stdinOpen \in BOOLEAN /\ stdinRead \in BOOLEAN
  /\ stdout \in Seq(Lines) /\ stdoutOpen \in BOOLEAN
  /\ asked \in Nat /\ replied \in Nat
  /\ outbox \in Seq({"call", "reply"}) /\ Len(outbox) <= OutboxSize
  /\ writer \in Writers /\ stopWriter \in BOOLEAN
  /\ reader \in Readers
  /\ pending \in SUBSET Ids
  /\ ch \in [Ids -> {"empty", "response", "closed"}]
  /\ exitErr \in Reasons \cup {"none"} /\ closed \in BOOLEAN
  /\ pc \in {"ready"} \cup InCall \cup Closing
  /\ id \in 0 .. MaxCalls /\ live \in BOOLEAN
  /\ result \in {"none", "answered", "cancelled", "ErrClosed"} \cup Reasons

(* The reader never waits for a caller, whatever the child answers and how *)
(* often: a channel it sends to is empty, and one it closes was never used *)
(* (conn.go, dispatch and shutdown).                                       *)
ReaderNeverBlocks ==
  /\ reader.step = "deliver" => ch[reader.id] = "empty"
  /\ reader.step = "closing" => \A i \in reader.doomed : ch[i] = "empty"

(* "The reason is recorded first so it wins over the generic exit error":  *)
(* outside Close a running child is killed only with a reason of           *)
(* Counterpoint's own on record, and a reason on record never changes, so  *)
(* no later failure of another goroutine hides it (conn.go, terminate).    *)
ReasonWins ==
  [][/\ exitErr # "none" => exitErr' = exitErr
     /\ ~ killed /\ killed' /\ stdoutOpen /\ pc \notin Closing
          => exitErr \in {"tooLarge", "writeFailed", "backlog"}
    ]_vars

(* The questions the child has asked and not been answered: in stdout, or  *)
(* in a reply on its way.                                                  *)
Count(s, P(_)) == Cardinality({i \in DOMAIN s : P(s[i])})

Unread == Count(stdout, LAMBDA line : line.kind = "request")

RepliesUnderWay ==
  LET IsReply(m) == m = "reply"
  IN  Count(outbox, IsReply) + Count(stdin, IsReply)
        + (IF writer.step = "write" /\ IsReply(writer.msg) THEN 1 ELSE 0)

(* No question of the child is dropped: every one read from stdout has its *)
(* reply under way or read, or the connection is ending (conn.go,          *)
(* sendFromReader).                                                        *)
RequestsAnswered ==
  exitErr = "none" => asked = Unread + RepliesUnderWay + replied

(* "The caller waits on closed, which fires once the reader has shut       *)
(* down": a call does not outlive the writer, even one whose message       *)
(* slipped into the dead queue and whose context never ends.               *)
WriterGoneReleasesCall == WriterDone ~> pc \notin InCall

(* Close returns, whatever the child does (conn.go, close).                *)
CloseReturns == pc = "closeStdin" ~> pc = "closed"
=============================================================================
