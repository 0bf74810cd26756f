--------------------------- MODULE ConnectionProofs ---------------------------
(***************************************************************************)
(* Proofs about Connection, for queues and pipes of any size, any number   *)
(* of calls and of questions.                                              *)
(***************************************************************************)
EXTENDS Connection, SequenceTheorems, FunctionTheorems, FiniteSetTheorems, TLAPS

-----------------------------------------------------------------------------

(* A connection starts well-typed.                                         *)
LEMMA TypeInit == Init => TypeOK
<1> SUFFICES ASSUME Init PROVE TypeOK
  OBVIOUS
<1>1. {alive, killed, stdinOpen, stdinRead, stdoutOpen, stopWriter, closed, live} \subseteq BOOLEAN
  BY Zenon DEF Init
<1>2. QED
  BY <1>1, ConnectionAssumption DEF Init, TypeOK, Ids, Writers, Readers
(* Every step keeps the types, and the outbox within its bound.            *)
LEMMA TypeStep == TypeOK /\ [Next]_vars => TypeOK'
<1> SUFFICES ASSUME TypeOK, [Next]_vars PROVE TypeOK'
  OBVIOUS
<1> USE ConnectionAssumption DEF TypeOK, Ids, Lines, Reasons, Writers, Readers, InCall, Closing, child, queue, ends, calls, caller
<1>1. CASE WriterStops
  BY <1>1 DEF WriterStops
<1>2. CASE WriterTakes
  BY <1>2 DEF WriterTakes
<1>3. CASE Write
  BY <1>3 DEF Write
<1>4. CASE WriteFails
  BY <1>4 DEF WriteFails, FailedWriteTerminates, Terminate, Recorded
<1>5. CASE WriterKills
  BY <1>5 DEF WriterKills
<1>6. CASE DispatchResponse
  <2>1. Head(stdout) \in Lines /\ Head(stdout).kind = "response" /\ Tail(stdout) \in Seq(Lines)
    BY <1>6 DEF DispatchResponse, Scan
  <2>2. Head(stdout).id \in Ids
    BY <2>1
  <2>3. reader' \in Readers /\ pending' \in SUBSET Ids
    BY <1>6, <2>2 DEF DispatchResponse, NoLongerPending
  <2>4. QED
    BY <1>6, <2>1, <2>3 DEF DispatchResponse, Scan
<1>7. CASE Deliver
  BY <1>7 DEF Deliver
<1>8. CASE DispatchRequest
  <2>1. stdout' \in Seq(Lines)
    BY <1>8 DEF DispatchRequest, Scan
  <2>2. outbox' \in Seq({"call", "reply"}) /\ Len(outbox') <= OutboxSize
    <3>1. \/ Len(outbox) < OutboxSize /\ outbox' = Append(outbox, "reply")
          \/ outbox' = outbox
      BY Zenon, <1>8 DEF DispatchRequest, Reply
    <3>2. Append(outbox, "reply") \in Seq({"call", "reply"})
      BY AppendProperties
    <3>3. Len(Append(outbox, "reply")) = Len(outbox) + 1
      BY AppendProperties
    <3>4. Len(outbox) \in Nat /\ OutboxSize \in Nat
      BY LenProperties
    <3>5. CASE Len(outbox) < OutboxSize /\ outbox' = Append(outbox, "reply")
      BY <3>2, <3>3, <3>4, <3>5
    <3>6. QED
      BY <3>1, <3>5
  <2>3. stopWriter' \in BOOLEAN
    BY Zenon, <1>8 DEF DispatchRequest, Reply, Terminate
  <2>4. reader' \in Readers /\ exitErr' \in Reasons \cup {"none"}
    BY <1>8 DEF DispatchRequest, Reply, Terminate, Recorded
  <2>5. QED
    BY <1>8, <2>1, <2>2, <2>3, <2>4 DEF DispatchRequest, Scan
<1>9. CASE ReaderTerminates
  BY <1>9 DEF ReaderTerminates
<1>10. CASE ScanTooLong
  BY <1>10 DEF ScanTooLong, Scan
<1>11. CASE ScanEOF
  BY <1>11 DEF ScanEOF
<1>12. CASE Shutdown
  BY <1>12 DEF Shutdown, Recorded
<1>13. CASE ShutdownCloses
  <2>1. reader.err \in Reasons /\ reader.doomed \in SUBSET Ids
    BY <1>13 DEF ShutdownCloses
  <2>2. CASE reader.doomed # {}
    <3>1. reader' = [step |-> "closing", err |-> reader.err, doomed |-> {}]
      BY <1>13, <2>2 DEF ShutdownCloses
    <3>2. QED
      BY <1>13, <2>1, <2>2, <3>1 DEF ShutdownCloses
  <2>3. CASE reader.doomed = {}
    BY <1>13, <2>1, <2>3 DEF ShutdownCloses
  <2>4. QED
    BY <2>2, <2>3
<1>14. CASE ReaderKills
  BY <1>14 DEF ReaderKills
<1>15. CASE Wait
  BY <1>15 DEF Wait
<1>16. CASE Call
  BY <1>16 DEF Call
<1>17. CASE Send
  BY <1>17 DEF Send
<1>18. CASE Enqueue
  BY <1>18 DEF Enqueue
<1>19. CASE SendRefused
  BY <1>19 DEF SendRefused, CallReturns, ClosedErr
<1>20. CASE CallCancelled
  BY <1>20 DEF CallCancelled, CallReturns
<1>21. CASE CallAnswered
  BY <1>21 DEF CallAnswered, CallReturns
<1>22. CASE CallFails
  BY <1>22 DEF CallFails, CallReturns, ClosedErr
<1>23. CASE CloseStdin
  <2>1. stdinOpen' \in BOOLEAN
    BY Zenon, <1>23 DEF CloseStdin
  <2>2. QED
    BY <1>23, <2>1 DEF CloseStdin
<1>24. CASE GraceOver
  BY <1>24 DEF GraceOver, GraceEndsInKill
<1>25. CASE ChildReaped
  BY <1>25 DEF ChildReaped
<1>26. CASE WriterJoined
  BY <1>26 DEF WriterJoined
<1>27. CASE StopWriting
  BY <1>27 DEF StopWriting
<1>28. CASE ContextEnds
  <2>1. live' \in BOOLEAN
    BY Zenon, <1>28 DEF ContextEnds
  <2>2. QED
    BY <1>28, <2>1 DEF ContextEnds
<1>29. CASE ChildReads
  BY <1>29 DEF ChildReads
<1>30. CASE ChildWrites
  BY <1>30 DEF ChildWrites
<1>31. CASE ChildClosesPipe
  <2>1. stdinRead' \in BOOLEAN /\ stdoutOpen' \in BOOLEAN
    BY Zenon, <1>31 DEF ChildClosesPipe
  <2>2. QED
    BY <1>31, <2>1 DEF ChildClosesPipe
<1>32. CASE ChildExits
  <2>1. alive' \in BOOLEAN /\ stdinRead' \in BOOLEAN /\ stdoutOpen' \in BOOLEAN
    BY Zenon, <1>32 DEF ChildExits
  <2>2. QED
    BY <1>32, <2>1 DEF ChildExits
<1>33. CASE UNCHANGED vars
  BY <1>33 DEF vars
<1>34. QED
  BY <1>1, <1>2, <1>3, <1>4, <1>5, <1>6, <1>7, <1>8, <1>9, <1>10, <1>11, <1>12, <1>13,
     <1>14, <1>15, <1>16, <1>17, <1>18, <1>19, <1>20, <1>21, <1>22, <1>23, <1>24, <1>25,
     <1>26, <1>27, <1>28, <1>29, <1>30, <1>31, <1>32, <1>33
  DEF Next, WriterStep, ReaderStep, CallStep, Environment

-----------------------------------------------------------------------------
(* The channels of the calls.                                              *)

(* A call that is pending has had no response; the calls the reader has    *)
(* taken over, to deliver to or to wake, are no longer pending.            *)
Channels ==
  /\ \A i \in pending : i <= id /\ ch[i] = "empty"
  /\ \A i \in Ids : i > id => ch[i] = "empty"
  /\ reader.step = "deliver" =>
       /\ reader.id \notin pending /\ reader.id <= id
       /\ ch[reader.id] = "empty"
  /\ reader.step = "closing" =>
       \A i \in reader.doomed : i \notin pending /\ i <= id /\ ch[i] = "empty"

(* Each step keeps every pending call's channel empty.                     *)
LEMMA ChannelsStep == TypeOK /\ Channels /\ [Next]_vars => Channels'
<1> SUFFICES ASSUME TypeOK, Channels, [Next]_vars PROVE Channels'
  OBVIOUS
<1> USE ConnectionAssumption DEF TypeOK, Channels, Ids, Lines, Writers, Readers, child, queue, ends, calls, caller
<1>1. CASE WriterStops
  BY <1>1 DEF WriterStops
<1>2. CASE WriterTakes
  BY <1>2 DEF WriterTakes
<1>3. CASE Write
  BY <1>3 DEF Write
<1>4. CASE WriteFails
  BY <1>4 DEF WriteFails, FailedWriteTerminates, Terminate, Recorded
<1>5. CASE WriterKills
  BY <1>5 DEF WriterKills
<1>6. CASE DispatchResponse
  BY <1>6 DEF DispatchResponse, Scan, NoLongerPending
<1>7. CASE Deliver
  BY <1>7 DEF Deliver
<1>8. CASE DispatchRequest
  BY <1>8 DEF DispatchRequest, Scan, Reply, Terminate, Recorded
<1>9. CASE ReaderTerminates
  BY <1>9 DEF ReaderTerminates
<1>10. CASE ScanTooLong
  BY <1>10 DEF ScanTooLong, Scan
<1>11. CASE ScanEOF
  BY <1>11 DEF ScanEOF
<1>12. CASE Shutdown
  BY <1>12 DEF Shutdown, Recorded
<1>13. CASE ShutdownCloses
  BY <1>13, SMTT(20) DEF ShutdownCloses
<1>14. CASE ReaderKills
  BY <1>14 DEF ReaderKills
<1>15. CASE Wait
  BY <1>15 DEF Wait
<1>16. CASE Call
  BY <1>16 DEF Call
<1>17. CASE Send
  BY <1>17 DEF Send
<1>18. CASE Enqueue
  BY <1>18 DEF Enqueue
<1>19. CASE SendRefused
  BY <1>19 DEF SendRefused, CallReturns, ClosedErr
<1>20. CASE CallCancelled
  BY <1>20 DEF CallCancelled, CallReturns
<1>21. CASE CallAnswered
  BY <1>21 DEF CallAnswered, CallReturns
<1>22. CASE CallFails
  BY <1>22 DEF CallFails, CallReturns, ClosedErr
<1>23. CASE CloseStdin
  BY <1>23 DEF CloseStdin
<1>24. CASE GraceOver
  BY <1>24 DEF GraceOver, GraceEndsInKill
<1>25. CASE ChildReaped
  BY <1>25 DEF ChildReaped
<1>26. CASE WriterJoined
  BY <1>26 DEF WriterJoined
<1>27. CASE StopWriting
  BY <1>27 DEF StopWriting
<1>28. CASE ContextEnds
  BY <1>28 DEF ContextEnds
<1>29. CASE ChildReads
  BY <1>29 DEF ChildReads
<1>30. CASE ChildWrites
  BY <1>30 DEF ChildWrites
<1>31. CASE ChildClosesPipe
  BY <1>31 DEF ChildClosesPipe
<1>32. CASE ChildExits
  BY <1>32 DEF ChildExits
<1>33. CASE UNCHANGED vars
  BY <1>33 DEF vars
<1>34. QED
  BY <1>1, <1>2, <1>3, <1>4, <1>5, <1>6, <1>7, <1>8, <1>9, <1>10, <1>11, <1>12, <1>13,
     <1>14, <1>15, <1>16, <1>17, <1>18, <1>19, <1>20, <1>21, <1>22, <1>23, <1>24, <1>25,
     <1>26, <1>27, <1>28, <1>29, <1>30, <1>31, <1>32, <1>33
  DEF Next, WriterStep, ReaderStep, CallStep, Environment

-----------------------------------------------------------------------------
(* The reason a connection ended.                                          *)

(* Whoever is about to kill the child has recorded why; only the end of    *)
(* the child's output is recorded as its exit.                             *)
Reasoned ==
  /\ writer.step = "terminate" => exitErr # "none"
  /\ reader.step \in {"terminate", "closing", "kill"} => exitErr # "none"
  /\ exitErr = "exited" => ~ stdoutOpen
  /\ reader.step \in {"shutdown", "closing"} => (reader.err = "exited" => ~ stdoutOpen)

(* Each step that leads to a kill records a reason first.                  *)
LEMMA ReasonedStep == TypeOK /\ Reasoned /\ [Next]_vars => Reasoned'
<1> SUFFICES ASSUME TypeOK, Reasoned, [Next]_vars PROVE Reasoned'
  OBVIOUS
<1> USE DEF TypeOK, Reasoned, Lines, Reasons, Writers, Readers, child, queue, ends, calls, caller
<1>1. CASE WriterStops
  BY <1>1 DEF WriterStops
<1>2. CASE WriterTakes
  BY <1>2 DEF WriterTakes
<1>3. CASE Write
  BY <1>3 DEF Write
<1>4. CASE WriteFails
  BY <1>4 DEF WriteFails, FailedWriteTerminates, Terminate, Recorded
<1>5. CASE WriterKills
  BY <1>5 DEF WriterKills
<1>6. CASE DispatchResponse
  BY <1>6 DEF DispatchResponse, Scan, NoLongerPending
<1>7. CASE Deliver
  BY <1>7 DEF Deliver
<1>8. CASE DispatchRequest
  BY <1>8 DEF DispatchRequest, Scan, Reply, Terminate, Recorded
<1>9. CASE ReaderTerminates
  BY <1>9 DEF ReaderTerminates
<1>10. CASE ScanTooLong
  BY <1>10 DEF ScanTooLong, Scan
<1>11. CASE ScanEOF
  BY <1>11 DEF ScanEOF
<1>12. CASE Shutdown
  BY <1>12 DEF Shutdown, Recorded
<1>13. CASE ShutdownCloses
  BY <1>13 DEF ShutdownCloses
<1>14. CASE ReaderKills
  BY <1>14 DEF ReaderKills
<1>15. CASE Wait
  BY <1>15 DEF Wait
<1>16. CASE Call
  BY <1>16 DEF Call
<1>17. CASE Send
  BY <1>17 DEF Send
<1>18. CASE Enqueue
  BY <1>18 DEF Enqueue
<1>19. CASE SendRefused
  BY <1>19 DEF SendRefused, CallReturns, ClosedErr
<1>20. CASE CallCancelled
  BY <1>20 DEF CallCancelled, CallReturns
<1>21. CASE CallAnswered
  BY <1>21 DEF CallAnswered, CallReturns
<1>22. CASE CallFails
  BY <1>22 DEF CallFails, CallReturns, ClosedErr
<1>23. CASE CloseStdin
  BY <1>23 DEF CloseStdin
<1>24. CASE GraceOver
  BY <1>24 DEF GraceOver, GraceEndsInKill
<1>25. CASE ChildReaped
  BY <1>25 DEF ChildReaped
<1>26. CASE WriterJoined
  BY <1>26 DEF WriterJoined
<1>27. CASE StopWriting
  BY <1>27 DEF StopWriting
<1>28. CASE ContextEnds
  BY <1>28 DEF ContextEnds
<1>29. CASE ChildReads
  BY <1>29 DEF ChildReads
<1>30. CASE ChildWrites
  BY <1>30 DEF ChildWrites
<1>31. CASE ChildClosesPipe
  BY <1>31 DEF ChildClosesPipe
<1>32. CASE ChildExits
  BY <1>32 DEF ChildExits
<1>33. CASE UNCHANGED vars
  BY <1>33 DEF vars
<1>34. QED
  BY <1>1, <1>2, <1>3, <1>4, <1>5, <1>6, <1>7, <1>8, <1>9, <1>10, <1>11, <1>12, <1>13,
     <1>14, <1>15, <1>16, <1>17, <1>18, <1>19, <1>20, <1>21, <1>22, <1>23, <1>24, <1>25,
     <1>26, <1>27, <1>28, <1>29, <1>30, <1>31, <1>32, <1>33
  DEF Next, WriterStep, ReaderStep, CallStep, Environment

-----------------------------------------------------------------------------
(* Counting messages in a queue.                                           *)

(* Where a queue holds a message of G, and how many it holds.              *)
Places(s, G) == {i \in DOMAIN s : s[i] \in G}
Held(s, G) == Cardinality(Places(s, G))

(* 1 for a message of G, 0 for another.                                    *)
One(m, G) == IF m \in G THEN 1 ELSE 0

(* A queue holds a finite number of messages.                              *)
LEMMA HeldType ==
  ASSUME NEW S, NEW s \in Seq(S), NEW G
  PROVE  IsFiniteSet(Places(s, G)) /\ Held(s, G) \in Nat
<1>1. DOMAIN s = 1 .. Len(s) /\ Len(s) \in Nat
  BY LenProperties
<1>2. IsFiniteSet(1 .. Len(s))
  BY <1>1, FS_Interval
<1>3. Places(s, G) \subseteq 1 .. Len(s)
  BY <1>1 DEF Places
<1>4. QED
  BY <1>2, <1>3, FS_Subset, FS_CardinalityType DEF Held

(* A new queue holds nothing.                                              *)
LEMMA HeldEmpty == ASSUME NEW G PROVE Held(<< >>, G) = 0
<1>1. Places(<< >>, G) = {}
  BY DEF Places
<1>2. QED
  BY <1>1, FS_EmptySet DEF Held

(* What a queue holds when a message is put at its end.                    *)
LEMMA HeldAppend ==
  ASSUME NEW S, NEW s \in Seq(S), NEW m \in S, NEW G
  PROVE  Held(Append(s, m), G) = Held(s, G) + One(m, G)
<1> DEFINE n == Len(s) + 1
<1>1. /\ Len(s) \in Nat /\ DOMAIN s = 1 .. Len(s) /\ DOMAIN Append(s, m) = 1 .. n
      /\ \A i \in 1 .. Len(s) : Append(s, m)[i] = s[i]
      /\ Append(s, m)[n] = m
  BY LenProperties, AppendProperties
<1>2. n \notin Places(s, G)
  BY <1>1 DEF Places
<1>3. IsFiniteSet(Places(s, G)) /\ Held(s, G) \in Nat
  BY HeldType
<1>4. CASE m \in G
  <2>1. Places(Append(s, m), G) = Places(s, G) \cup {n}
    BY <1>1, <1>4 DEF Places
  <2>2. Cardinality(Places(s, G) \cup {n}) = Cardinality(Places(s, G)) + 1
    BY <1>2, <1>3, FS_AddElement
  <2>3. QED
    BY <1>4, <2>1, <2>2 DEF Held, One
<1>5. CASE m \notin G
  <2>1. Places(Append(s, m), G) = Places(s, G)
    BY <1>1, <1>5 DEF Places
  <2>2. QED
    BY <1>3, <1>5, <2>1 DEF Held, One
<1>6. QED
  BY <1>4, <1>5

(* What it holds when the message at its head is taken.                    *)
LEMMA HeldTail ==
  ASSUME NEW S, NEW s \in Seq(S), s # << >>, NEW G
  PROVE  Held(s, G) = Held(Tail(s), G) + One(Head(s), G)
<1> DEFINE rest == Places(s, G) \ {1}
           Moved == [i \in Places(Tail(s), G) |-> i + 1]
<1>1. /\ Len(s) \in Nat \ {0} /\ DOMAIN s = 1 .. Len(s) /\ Head(s) = s[1]
      /\ Tail(s) \in Seq(S) /\ Len(Tail(s)) = Len(s) - 1
      /\ DOMAIN Tail(s) = 1 .. Len(s) - 1
      /\ \A i \in 1 .. Len(s) - 1 : Tail(s)[i] = s[i + 1]
  BY LenProperties, HeadTailProperties, EmptySeq
<1>2. /\ IsFiniteSet(Places(s, G)) /\ Held(s, G) \in Nat
      /\ IsFiniteSet(Places(Tail(s), G)) /\ Held(Tail(s), G) \in Nat
  BY <1>1, HeldType
<1>3. Moved \in Bijection(Places(Tail(s), G), rest)
  <2>1. \A i \in Places(Tail(s), G) : i \in 1 .. Len(s) - 1 /\ Tail(s)[i] \in G
    BY <1>1 DEF Places
  <2>2. \A i \in Places(Tail(s), G) : Moved[i] = i + 1 /\ i + 1 \in rest
    BY <1>1, <2>1 DEF Places
  <2>3. Moved \in [Places(Tail(s), G) -> rest]
    BY <2>2
  <2>4. \A i, j \in Places(Tail(s), G) : Moved[i] = Moved[j] => i = j
    BY <2>1, <2>2
  <2>5. ASSUME NEW j \in rest PROVE \E i \in Places(Tail(s), G) : Moved[i] = j
    <3>1. j \in 2 .. Len(s) /\ s[j] \in G
      BY <1>1 DEF Places
    <3>2. j - 1 \in 1 .. Len(s) - 1 /\ Tail(s)[j - 1] = s[j]
      BY <1>1, <3>1
    <3>3. j - 1 \in Places(Tail(s), G)
      BY <1>1, <3>1, <3>2 DEF Places
    <3>4. Moved[j - 1] = j
      BY <3>1, <3>3
    <3>5. QED
      BY <3>3, <3>4
  <2> HIDE DEF Moved
  <2>6. QED
    BY <2>3, <2>4, <2>5, Fun_IsBij
<1>4. Cardinality(rest) = Cardinality(Places(Tail(s), G))
  <2> HIDE DEF Moved, rest
  <2>1. ExistsBijection(Places(Tail(s), G), rest)
    BY <1>3, Fun_ExistsBij
  <2>2. QED
    BY <1>2, <2>1, FS_Bijection
<1>5. CASE Head(s) \in G
  <2>1. 1 \in Places(s, G)
    BY <1>1, <1>5 DEF Places
  <2>2. Cardinality(rest) = Cardinality(Places(s, G)) - 1
    BY <1>2, <2>1, FS_RemoveElement
  <2> HIDE DEF rest
  <2>3. QED
    BY <1>2, <1>4, <1>5, <2>2 DEF Held, One
<1>6. CASE Head(s) \notin G
  <2>1. rest = Places(s, G)
    BY <1>1, <1>6 DEF Places
  <2> HIDE DEF rest
  <2>2. QED
    BY <1>2, <1>4, <1>6, <2>1 DEF Held, One
<1>7. QED
  BY <1>5, <1>6

-----------------------------------------------------------------------------
(* The questions of the child.                                             *)

Questions == {line \in Lines : line.kind = "request"}
Replies == {"reply"}

(* A reply the writer has taken and not yet written.                       *)
InWriter == IF writer.step = "write" /\ writer.msg = "reply" THEN 1 ELSE 0

(* Until the connection has a reason to end, each question is unread, or   *)
(* its reply is queued, with the writer, in the pipe, or read.             *)
Answering ==
  exitErr = "none" =>
    asked = Held(stdout, Questions) + Held(outbox, Replies) + InWriter
              + Held(stdin, Replies) + replied

(* The model counts the same questions and replies.                        *)
LEMMA AnsweringCounts ==
  ASSUME TypeOK, Answering
  PROVE  RequestsAnswered
<1>1. Unread = Held(stdout, Questions)
  <2>1. \A i \in DOMAIN stdout : stdout[i].kind = "request" <=> stdout[i] \in Questions
    BY DEF TypeOK, Questions
  <2>2. {i \in DOMAIN stdout : stdout[i].kind = "request"} = Places(stdout, Questions)
    BY <2>1 DEF Places
  <2>3. Unread = Cardinality({i \in DOMAIN stdout : stdout[i].kind = "request"})
    BY Zenon DEF Unread, Count
  <2>4. QED
    BY <2>2, <2>3, Zenon DEF Held
<1>2. /\ {i \in DOMAIN outbox : outbox[i] = "reply"} = Places(outbox, Replies)
      /\ {i \in DOMAIN stdin : stdin[i] = "reply"} = Places(stdin, Replies)
  BY DEF Places, Replies
<1>3. RepliesUnderWay = Cardinality({i \in DOMAIN outbox : outbox[i] = "reply"})
                          + Cardinality({i \in DOMAIN stdin : stdin[i] = "reply"})
                          + InWriter
  BY Zenon DEF RepliesUnderWay, Count, InWriter
<1>4. RepliesUnderWay = Held(outbox, Replies) + Held(stdin, Replies) + InWriter
  BY <1>2, <1>3, Zenon DEF Held
<1>5. /\ Held(stdout, Questions) \in Nat /\ Held(outbox, Replies) \in Nat
      /\ Held(stdin, Replies) \in Nat /\ InWriter \in Nat /\ replied \in Nat
  BY HeldType DEF TypeOK, InWriter
<1>6. QED
  BY <1>1, <1>4, <1>5 DEF Answering, RequestsAnswered

(* Every step passes a question or its reply on, or records why the        *)
(* connection ends.                                                        *)
LEMMA AnsweringStep == TypeOK /\ Answering /\ [Next]_vars => Answering'
<1> SUFFICES ASSUME TypeOK, Answering, [Next]_vars PROVE Answering'
  OBVIOUS
<1> USE DEF TypeOK, Answering, child, queue, ends, calls, caller
<1>typed. TypeOK'
  BY TypeStep
<1>nat. /\ Held(stdout, Questions) \in Nat /\ Held(outbox, Replies) \in Nat
        /\ Held(stdin, Replies) \in Nat /\ InWriter \in Nat
        /\ Held(stdout', Questions) \in Nat /\ Held(outbox', Replies) \in Nat
        /\ Held(stdin', Replies) \in Nat
  BY <1>typed, HeldType DEF InWriter
<1>1. CASE WriterStops
  BY <1>1 DEF WriterStops, InWriter
<1>2. CASE WriterTakes
  <2>1. Held(outbox, Replies) = Held(outbox', Replies) + One(Head(outbox), Replies)
    <3>1. outbox \in Seq({"call", "reply"}) /\ outbox # << >>
      BY <1>2 DEF WriterTakes
    <3>2. outbox' = Tail(outbox)
      BY <1>2 DEF WriterTakes
    <3>3. QED
      BY ONLY <3>1, <3>2, HeldTail
  <2>2. writer' = [step |-> "write", msg |-> Head(outbox)]
    BY <1>2 DEF WriterTakes
  <2>3. InWriter = 0 /\ InWriter' = One(Head(outbox), Replies)
    BY <1>2, <2>2 DEF WriterTakes, InWriter, Replies, One
  <2>4. One(Head(outbox), Replies) \in Nat
    BY DEF One
  <2>5. UNCHANGED <<stdout, stdin, asked, replied, exitErr>>
    BY <1>2 DEF WriterTakes
  <2>6. QED
    BY <2>1, <2>3, <2>4, <2>5, <1>nat
<1>3. CASE Write
  <2>1. Held(stdin', Replies) = Held(stdin, Replies) + One(writer.msg, Replies)
    <3>1. stdin \in Seq({"call", "reply"}) /\ writer.msg \in {"call", "reply"}
      BY <1>3 DEF Write, Writers
    <3>2. stdin' = Append(stdin, writer.msg)
      BY <1>3 DEF Write
    <3>3. QED
      BY ONLY <3>1, <3>2, HeldAppend
  <2>2. InWriter = One(writer.msg, Replies) /\ InWriter' = 0
    BY <1>3 DEF Write, InWriter, Replies, One
  <2>3. One(writer.msg, Replies) \in Nat
    BY DEF One
  <2>4. UNCHANGED <<stdout, outbox, asked, replied, exitErr>>
    BY <1>3 DEF Write
  <2>5. QED
    BY <2>1, <2>2, <2>3, <2>4, <1>nat
<1>4. CASE WriteFails
  BY <1>4 DEF WriteFails, FailedWriteTerminates, Terminate, Recorded
<1>5. CASE WriterKills
  BY <1>5 DEF WriterKills, InWriter
<1>6. CASE DispatchResponse
  <2>1. Held(stdout, Questions) = Held(stdout', Questions) + One(Head(stdout), Questions)
    <3>1. stdout \in Seq(Lines) /\ stdout # << >>
      BY <1>6 DEF DispatchResponse, Scan
    <3>2. stdout' = Tail(stdout)
      BY <1>6 DEF DispatchResponse, Scan
    <3>3. QED
      BY ONLY <3>1, <3>2, HeldTail
  <2>2. One(Head(stdout), Questions) = 0
    BY <1>6 DEF DispatchResponse, Scan, One, Questions
  <2>3. UNCHANGED <<outbox, stdin, asked, replied, exitErr, InWriter>>
    BY <1>6 DEF DispatchResponse, Scan, InWriter
  <2>4. QED
    BY <2>1, <2>2, <2>3, <1>nat
<1>7. CASE Deliver
  BY <1>7 DEF Deliver, InWriter
<1>8. CASE DispatchRequest
  <2>1. Held(stdout, Questions) = Held(stdout', Questions) + One(Head(stdout), Questions)
    <3>1. stdout \in Seq(Lines) /\ stdout # << >>
      BY <1>8 DEF DispatchRequest, Scan
    <3>2. stdout' = Tail(stdout)
      BY <1>8 DEF DispatchRequest, Scan
    <3>3. QED
      BY ONLY <3>1, <3>2, HeldTail
  <2>2. One(Head(stdout), Questions) = 1
    <3>1. Head(stdout) \in Lines
      BY <1>8, HeadTailProperties DEF DispatchRequest, Scan
    <3>2. Head(stdout).kind = "request"
      BY <1>8 DEF DispatchRequest, Scan
    <3>3. QED
      BY <3>1, <3>2 DEF One, Questions
  <2>3. UNCHANGED <<stdin, asked, replied, InWriter>>
    BY <1>8 DEF DispatchRequest, Scan, InWriter
  <2>4. CASE outbox' = Append(outbox, "reply") /\ UNCHANGED exitErr
    <3>1. Held(outbox', Replies) = Held(outbox, Replies) + 1
      <4>1. outbox \in Seq({"call", "reply"}) /\ "reply" \in {"call", "reply"}
        OBVIOUS
      <4>2. Held(outbox', Replies) = Held(outbox, Replies) + One("reply", Replies)
        BY ONLY <2>4, <4>1, HeldAppend
      <4>3. QED
        BY ONLY <4>2 DEF One, Replies
    <3>2. QED
      BY <2>1, <2>2, <2>3, <2>4, <3>1, <1>nat
  <2>5. CASE exitErr' # "none"
    BY <2>5
  <2>6. QED
    BY <1>8, <2>4, <2>5 DEF DispatchRequest, Reply, Terminate, Recorded
<1>9. CASE ReaderTerminates
  BY <1>9 DEF ReaderTerminates, InWriter
<1>10. CASE ScanTooLong
  <2>1. Held(stdout, Questions) = Held(stdout', Questions) + One(Head(stdout), Questions)
    <3>1. stdout \in Seq(Lines) /\ stdout # << >>
      BY <1>10 DEF ScanTooLong, Scan
    <3>2. stdout' = Tail(stdout)
      BY <1>10 DEF ScanTooLong, Scan
    <3>3. QED
      BY ONLY <3>1, <3>2, HeldTail
  <2>2. One(Head(stdout), Questions) = 0
    BY <1>10 DEF ScanTooLong, Scan, One, Questions
  <2>3. UNCHANGED <<outbox, stdin, asked, replied, exitErr, InWriter>>
    BY <1>10 DEF ScanTooLong, Scan, InWriter
  <2>4. QED
    BY <2>1, <2>2, <2>3, <1>nat
<1>11. CASE ScanEOF
  BY <1>11 DEF ScanEOF, InWriter
<1>12. CASE Shutdown
  BY <1>12 DEF Shutdown, InWriter, Recorded
<1>13. CASE ShutdownCloses
  BY <1>13 DEF ShutdownCloses, InWriter
<1>14. CASE ReaderKills
  BY <1>14 DEF ReaderKills, InWriter
<1>15. CASE Wait
  BY <1>15 DEF Wait, InWriter
<1>16. CASE Call
  BY <1>16 DEF Call, InWriter
<1>17. CASE Send
  BY <1>17 DEF Send, InWriter
<1>18. CASE Enqueue
  <2>1. Held(outbox', Replies) = Held(outbox, Replies) + One("call", Replies)
    <3>1. outbox \in Seq({"call", "reply"}) /\ "call" \in {"call", "reply"}
      OBVIOUS
    <3>2. outbox' = Append(outbox, "call")
      BY <1>18 DEF Enqueue
    <3>3. QED
      BY ONLY <3>1, <3>2, HeldAppend
  <2>2. One("call", Replies) = 0
    BY DEF One, Replies
  <2>3. UNCHANGED <<stdout, stdin, asked, replied, exitErr, InWriter>>
    BY <1>18 DEF Enqueue, InWriter
  <2>4. QED
    BY <2>1, <2>2, <2>3, <1>nat
<1>19. CASE SendRefused
  BY <1>19 DEF SendRefused, InWriter, CallReturns
<1>20. CASE CallCancelled
  BY <1>20 DEF CallCancelled, InWriter, CallReturns
<1>21. CASE CallAnswered
  BY <1>21 DEF CallAnswered, InWriter, CallReturns
<1>22. CASE CallFails
  BY <1>22 DEF CallFails, InWriter, CallReturns
<1>23. CASE CloseStdin
  BY <1>23 DEF CloseStdin, InWriter
<1>24. CASE GraceOver
  BY <1>24 DEF GraceOver, InWriter, GraceEndsInKill
<1>25. CASE ChildReaped
  BY <1>25 DEF ChildReaped, InWriter
<1>26. CASE WriterJoined
  BY <1>26 DEF WriterJoined, InWriter
<1>27. CASE StopWriting
  BY <1>27 DEF StopWriting, InWriter
<1>28. CASE ContextEnds
  BY <1>28 DEF ContextEnds, InWriter
<1>29. CASE ChildReads
  <2>1. Held(stdin, Replies) = Held(stdin', Replies) + One(Head(stdin), Replies)
    <3>1. stdin \in Seq({"call", "reply"}) /\ stdin # << >>
      BY <1>29 DEF ChildReads
    <3>2. stdin' = Tail(stdin)
      BY <1>29 DEF ChildReads
    <3>3. QED
      BY ONLY <3>1, <3>2, HeldTail
  <2>2. replied' = replied + One(Head(stdin), Replies)
    BY <1>29 DEF ChildReads, One, Replies
  <2>3. One(Head(stdin), Replies) \in Nat
    BY DEF One
  <2>4. UNCHANGED <<stdout, outbox, asked, exitErr, InWriter>>
    BY <1>29 DEF ChildReads, InWriter
  <2>5. QED
    BY <2>1, <2>2, <2>3, <2>4, <1>nat
<1>30. CASE ChildWrites
  <2>1. PICK line \in Lines :
          /\ stdout' = Append(stdout, line)
          /\ asked' = asked + (IF line.kind = "request" THEN 1 ELSE 0)
    BY <1>30 DEF ChildWrites
  <2>2. Held(stdout', Questions) = Held(stdout, Questions) + One(line, Questions)
    <3>1. stdout \in Seq(Lines)
      OBVIOUS
    <3>2. QED
      BY ONLY <2>1, <3>1, HeldAppend
  <2>3. asked' = asked + One(line, Questions)
    BY <2>1 DEF One, Questions
  <2>4. One(line, Questions) \in Nat
    BY DEF One
  <2>5. UNCHANGED <<stdin, outbox, replied, exitErr, InWriter>>
    BY <1>30 DEF ChildWrites, InWriter
  <2>6. asked \in Nat /\ replied \in Nat
    OBVIOUS
  <2>7. QED
    BY ONLY Answering, <2>2, <2>3, <2>4, <2>5, <2>6, <1>nat
<1>31. CASE ChildClosesPipe
  BY <1>31 DEF ChildClosesPipe, InWriter
<1>32. CASE ChildExits
  BY <1>32 DEF ChildExits, InWriter
<1>33. CASE UNCHANGED vars
  BY <1>33 DEF vars, InWriter
<1>34. QED
  BY <1>1, <1>2, <1>3, <1>4, <1>5, <1>6, <1>7, <1>8, <1>9, <1>10, <1>11, <1>12, <1>13,
     <1>14, <1>15, <1>16, <1>17, <1>18, <1>19, <1>20, <1>21, <1>22, <1>23, <1>24, <1>25,
     <1>26, <1>27, <1>28, <1>29, <1>30, <1>31, <1>32, <1>33
  DEF Next, WriterStep, ReaderStep, CallStep, Environment

-----------------------------------------------------------------------------

IInv == TypeOK /\ Channels /\ Reasoned /\ Answering

(* The inductive invariant, for every size of the queues.                  *)
LEMMA IInvHolds == Spec => []IInv
<1>1. Init => Channels
  BY DEF Init, Channels
<1>2. Init => Reasoned
  BY DEF Init, Reasoned
<1>3. Init => Answering
  BY HeldEmpty DEF Init, Answering, InWriter
<1>4. Init => IInv
  BY <1>1, <1>2, <1>3, TypeInit DEF IInv
<1>5. IInv /\ [Next]_vars => IInv'
  BY TypeStep, ChannelsStep, ReasonedStep, AnsweringStep DEF IInv
<1>6. QED
  BY <1>4, <1>5, PTL DEF Spec

(* The types, and with them the bound on the outbox: neither a caller nor  *)
(* the reader, answering the child's questions, puts more into it.         *)
THEOREM TypeCorrect == Spec => []TypeOK
<1>1. IInv => TypeOK
  BY DEF IInv
<1>2. QED
  BY IInvHolds, <1>1, PTL

(* The reader never waits for a caller: whatever the child answers and how *)
(* often, a channel it sends to is empty and one it closes was never used. *)
THEOREM ReaderIsFree == Spec => []ReaderNeverBlocks
<1>1. IInv => ReaderNeverBlocks
  BY DEF IInv, Channels, ReaderNeverBlocks
<1>2. QED
  BY IInvHolds, <1>1, PTL

(* As long as the connection has no reason to end, no question of the      *)
(* child is dropped: each is unread, or its reply is queued, being written *)
(* or read, whatever is queued beside it (conn.go, sendFromReader).        *)
THEOREM QuestionsAnswered == Spec => []RequestsAnswered
<1>1. IInv => RequestsAnswered
  BY AnsweringCounts DEF IInv
<1>2. QED
  BY IInvHolds, <1>1, PTL

(* A reason on record never changes, and outside Close a running child is  *)
(* killed only with one of Counterpoint's own on record.                   *)
THEOREM ReasonStands == Spec => ReasonWins
<1> DEFINE Stands ==
      /\ exitErr # "none" => exitErr' = exitErr
      /\ ~ killed /\ killed' /\ stdoutOpen /\ pc \notin Closing
           => exitErr \in {"tooLarge", "writeFailed", "backlog"}
<1>1. IInv /\ [Next]_vars => Stands
  <2> SUFFICES ASSUME IInv, [Next]_vars PROVE Stands
    OBVIOUS
  <2>1. exitErr # "none" => exitErr' = exitErr
    BY DEF Next, WriterStep, ReaderStep, CallStep, Environment, WriterStops, WriterTakes,
       Write, WriteFails, FailedWriteTerminates, Terminate, Recorded, WriterKills,
       DispatchResponse, Deliver, DispatchRequest, Reply, ReaderTerminates, ScanTooLong,
       ScanEOF, Shutdown, ShutdownCloses, ReaderKills, Wait, Scan, Call, Send, Enqueue,
       SendRefused, CallCancelled, CallAnswered, CallFails, CallReturns, CloseStdin,
       GraceOver, ChildReaped, WriterJoined, StopWriting, ContextEnds, ChildReads,
       ChildWrites, ChildClosesPipe, ChildExits, vars, child, queue, calls, ends, caller
  <2>2. ASSUME ~ killed, killed' PROVE WriterKills \/ ReaderTerminates \/ ReaderKills \/ GraceOver
    BY <2>2 DEF Next, WriterStep, ReaderStep, CallStep, Environment, WriterStops, WriterTakes,
       Write, WriteFails, DispatchResponse, Deliver, DispatchRequest, ScanTooLong,
       ScanEOF, Shutdown, ShutdownCloses, Wait, Scan, Call, Send, Enqueue,
       SendRefused, CallCancelled, CallAnswered, CallFails, CallReturns, CloseStdin,
       ChildReaped, WriterJoined, StopWriting, ContextEnds, ChildReads,
       ChildWrites, ChildClosesPipe, ChildExits, vars, child, queue, calls, ends, caller
  <2>3. ASSUME WriterKills \/ ReaderTerminates \/ ReaderKills, stdoutOpen
        PROVE  exitErr \in {"tooLarge", "writeFailed", "backlog"}
    BY <2>3 DEF IInv, TypeOK, Reasoned, Reasons, WriterKills, ReaderTerminates, ReaderKills
  <2>4. GraceOver => pc \in Closing
    BY DEF GraceOver, Closing
  <2>5. QED
    BY <2>1, <2>2, <2>3, <2>4
<1>2. QED
  BY IInvHolds, <1>1, PTL DEF Spec, ReasonWins
=============================================================================
